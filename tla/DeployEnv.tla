------------------------------ MODULE DeployEnv ------------------------------
(***************************************************************************)
(* What one deploy environment (MAIN, DEV or HOM) keeps on disk, in the    *)
(* kernel and in running services, and the helpers of deploy/lib that read *)
(* and update it: deploy-state.json, the cancel-request file, the phase in *)
(* deploy-status.json, the junctions `current` and `previous`, releases/,  *)
(* and the named mutex Global\PPLID-Deploy-{ENV}.                          *)
(*                                                                         *)
(* Each deploy process is an element of Run (its runId); the manual        *)
(* rollback is Operator, the logon bootstrap is Boot.                      *)
(***************************************************************************)
EXTENDS Naturals, FiniteSets

CONSTANTS
    Sha,            \* commits, which also name the release directories
    Run,            \* slots for deploy processes, named by their runId
    Operator, Boot, \* the manual rollback and the bootstrap process
    None,           \* $null
    KeepCount,      \* releases prune keeps beside the protected ones
    ConsoleShas,    \* commits the console redeploys
    RollbackShas,   \* commits a manual rollback names with -TargetSha
    Disturbances,   \* what the environment may do besides deploying
    MaxFaults       \* bound on crashes, reboots and manual rollbacks

Actor == Run \cup {Operator, Boot}

DisturbanceKind ==
    {"crash", "reboot", "cancel", "killfail", "recover", "rollback", "boot",
     "rebuild", "linkfail", "statusfail"}

ASSUME ActorAssumption ==
    /\ Operator # Boot
    /\ Operator \notin Run
    /\ Boot \notin Run
    /\ None \notin Actor
    /\ "any" \notin Run

ASSUME ShaAssumption ==
    /\ None \notin Sha
    /\ ConsoleShas \subseteq Sha
    /\ RollbackShas \subseteq Sha

ASSUME BoundAssumption ==
    /\ KeepCount \in Nat
    /\ MaxFaults \in Nat
    /\ Disturbances \subseteq DisturbanceKind

VARIABLES
    st,         \* deploy-state.json
    flag,       \* the cancel-request file: None, a runId, or "any"
    legacy,     \* this environment's phase in deploy-status.json
    current,    \* target of the junction current, None if it is missing
    previous,   \* target of the junction previous
    releases,   \* directories under releases/
    built,      \* those whose meta.json says built
    serving,    \* release the running services were started from
    mutex,      \* owner of the named mutex
    origin,     \* head of origin/{branch}
    pc, loc,    \* where each process is, and its PowerShell variables
    watch,      \* the watcher: asleep, or about to decide
    watchRun,   \* the deploy the watcher process is running itself
    cancel,     \* the console's cancel_deploy.ps1
    faults,     \* crashes, reboots and manual rollbacks so far
    validated,  \* history: artefacts that passed validate_staging
    cancelled   \* history: runs the console reported as cancelled

disk    == <<current, previous, releases, built>>
watcher == <<watch, watchRun>>
history == <<validated, cancelled>>
vars == <<st, flag, legacy, disk, serving, mutex, origin, pc, loc, watcher,
          cancel, faults, history>>

ShaOrNone == Sha \cup {None}
Status == {"idle", "building", "validating", "promoting", "failed", "rolled_back"}
Busy(s) == s.status \in {"building", "validating", "promoting"}

\* The five-minute and forty-five-minute thresholds the scripts compare ages
\* with, as the side of the threshold an age is on.
UpdatedAge == {"fresh", "old"}
StartedAge == {"none", "recent", "stale"}

DeployState ==
    [status : Status, activeSha : ShaOrNone, targetSha : ShaOrNone,
     previousSha : ShaOrNone, lastGoodSha : ShaOrNone, blockedSha : ShaOrNone,
     runId : Run \cup {None}, startedAt : StartedAge, lockHolder : BOOLEAN,
     updatedAt : UpdatedAge]

DefaultState ==
    [status |-> "idle", activeSha |-> None, targetSha |-> None,
     previousSha |-> None, lastGoodSha |-> None, blockedSha |-> None,
     runId |-> None, startedAt |-> "none", lockHolder |-> FALSE,
     updatedAt |-> "fresh"]

Coalesce(x, y) == IF x # None THEN x ELSE y

\* Set-DeployState: s carries the other updates; a null activeSha or
\* lastGoodSha is ignored, and a null activeSha falls back to lastGoodSha.
SetDeployState(s, active, good) ==
    LET g == Coalesce(good, s.lastGoodSha)
        a == Coalesce(active, s.activeSha)
    IN  [s EXCEPT !.lastGoodSha = g, !.activeSha = Coalesce(a, g),
                  !.updatedAt = "fresh"]

Save(s) == SetDeployState(s, None, None)

\* Get-PplidCurrentReleaseSha reads current\meta.json, which a build writes last.
CurrentSha == IF current \in built THEN current ELSE None

\* Wrong on purpose: trusts the state file before the junction.
PreservedByState(s) ==
    Coalesce(s.lastGoodSha, Coalesce(s.activeSha, CurrentSha))

\* Get-PplidPreservedActiveSha, on a snapshot s of the state.
Preserved(s) ==
    Coalesce(CurrentSha,
        Coalesce(s.lastGoodSha, Coalesce(s.activeSha, st.activeSha)))

\* Sync-DeployStateFromLegacy
Synced(s) ==
    IF s.activeSha = None /\ CurrentSha # None
    THEN SetDeployState([s EXCEPT !.status = "idle"], CurrentSha, CurrentSha)
    ELSE s

\* Test-DeployStateStale
Stale(s) == Busy(s) /\ s.startedAt # "recent"

\* The zombie test of Enter-DeployLock.
Zombie(s) == Busy(s) /\ ~s.lockHolder /\ s.updatedAt = "old"

\* The reset that the zombie and stale branches, recover_stuck_deploy and
\* cancel_deploy share, and the status all but the last reset to.
Reset(s, status, good) ==
    SetDeployState(
        [s EXCEPT !.status = status, !.targetSha = None, !.runId = None,
                  !.startedAt = "none"],
        good, good)

\* Wrong on purpose: the word deploy-status.json uses for idle.
ResetToHealthy(good) == IF good # None THEN "healthy" ELSE "failed"

ResetStatus(good) == IF good # None THEN "idle" ELSE "failed"

\* Reset-PplidLegacyDeployPhase
ResetLegacyPhase ==
    IF legacy.phase = "deploying" THEN [legacy EXCEPT !.phase = "failed"]
    ELSE legacy

\* Test-DeployCancelRequested
CancelRequested(a) == flag \in {a, "any"}

\* Wrong on purpose: keeps what a rollback needs, and not what is live.
ProtectedForRollback == {previous, st.previousSha} \ {None}

\* Get-PplidProtectedReleaseShas
Protected ==
    {current, previous, st.activeSha, st.previousSha, st.lastGoodSha,
     st.targetSha} \ {None}

\* The choice of rollback_release.ps1: -TargetSha, then previous, then
\* previousSha, then the preserved sha, the first whose directory exists.
RollbackRelease(named) ==
    LET Existing(sha) == IF sha \in releases THEN sha ELSE None
    IN  Coalesce(Existing(named), Coalesce(Existing(previous),
            Coalesce(Existing(st.previousSha), Existing(Preserved(st)))))

-----------------------------------------------------------------------------
\* Processes. An actor whose pc is "off" is not running.
PC == {"off", "enter", "acquire", "init", "build", "compile", "built",
       "validate", "validated", "promote", "promoteLink", "migrate",
       "restore", "restoreLink", "start", "health", "rollback",
       "rollbackLink", "rollbackRestart", "rollbackState", "promoted",
       "publish", "prune", "remove", "failing", "cancelling", "repair",
       "bootStart", "exit", "clearHolder"}

\* The program points at which the process owns the mutex.
Unlocked == {"off", "enter", "acquire", "clearHolder"}
Owning(a) == a # Operator /\ pc[a] \notin Unlocked

Locals ==
    [target : ShaOrNone, oldActive : ShaOrNone, dest : ShaOrNone,
     lastGoodSha : ShaOrNone, activeSha : ShaOrNone, doomed : SUBSET Sha]

NoLocals ==
    [target |-> None, oldActive |-> None, dest |-> None,
     lastGoodSha |-> None, activeSha |-> None, doomed |-> {}]

Running(a) == pc[a] # "off"
Goto(a, label) == pc' = [pc EXCEPT ![a] = label]

\* The process ends, by itself or killed: the kernel frees its mutex.
End(a) ==
    /\ Goto(a, "off")
    /\ loc' = [loc EXCEPT ![a] = NoLocals]
    /\ mutex' = IF mutex = a THEN None ELSE mutex
    /\ watchRun' = IF watchRun = a THEN None ELSE watchRun
=============================================================================
