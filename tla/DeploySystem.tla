----------------------------- MODULE DeploySystem -----------------------------
(***************************************************************************)
(* The deploy pipeline with the processes that start it, stop it, repair   *)
(* after it or run beside it: the watcher, the console's redeploy, cancel  *)
(* and rollback, the recovery script, the logon bootstrap, kills, reboots. *)
(***************************************************************************)
EXTENDS DeployPipeline

\* A disturbance the bound MaxFaults counts.
Fault(kind) ==
    /\ kind \in Disturbances
    /\ faults < MaxFaults
    /\ faults' = faults + 1

\* A new deploy gets an id that nothing still names.
Fresh(r) == ~Running(r) /\ st.runId # r /\ flag # r /\ cancel.runId # r

Launch(r, sha) ==
    /\ Fresh(r)
    /\ Goto(r, "enter")
    /\ loc' = [loc EXCEPT ![r].target = sha]
    /\ cancelled' = cancelled \ {r}

\* A new commit on the branch.
Push ==
    /\ origin' \in Sha \ {origin}
    /\ UNCHANGED <<st, flag, legacy, disk, serving, mutex, pc, loc, watcher,
                   cancel, faults, history>>

\* Time passes: five minutes without a write to the state file, forty-five
\* since the last deploy started. An age is let grow only while some script
\* would act on it, and every running script is in a step that can last: the
\* console gives cancel_deploy two minutes, the rest are file operations.
LongStep == {"off", "build", "compile", "validate", "migrate", "start",
             "health", "rollbackRestart", "publish", "remove", "bootStart"}

MayLast == cancel.pc = "idle" /\ \A a \in Actor : pc[a] \in LongStep

AgeUpdated ==
    /\ MayLast
    /\ Busy(st) /\ ~st.lockHolder /\ st.updatedAt = "fresh"
    /\ st' = [st EXCEPT !.updatedAt = "old"]
    /\ UNCHANGED <<flag, legacy, disk, serving, mutex, origin, pc, loc,
                   watcher, cancel, faults, history>>

Grown(age) == IF age = "recent" THEN "stale" ELSE age

AgeStarted ==
    /\ MayLast
    /\ Busy(st) \/ legacy.phase = "deploying"
    /\ "recent" \in {st.startedAt, legacy.startedAt}
    /\ st' = [st EXCEPT !.startedAt = Grown(@)]
    /\ legacy' = [legacy EXCEPT !.startedAt = Grown(@)]
    /\ UNCHANGED <<flag, disk, serving, mutex, origin, pc, loc, watcher,
                   cancel, faults, history>>

-----------------------------------------------------------------------------
\* recover_stuck_deploy.ps1

Recovered(s, force) ==
    LET good == Preserved(s)
    IN  IF Busy(s) \/ force
        THEN Reset([s EXCEPT !.lockHolder = FALSE, !.blockedSha = None],
                   ResetStatus(good), good)
        ELSE IF s.blockedSha # None
        THEN Save([s EXCEPT !.blockedSha = None])
        ELSE s

RecoverState(force) ==
    /\ st' = Synced(Recovered(st, force))
    /\ legacy' =
         IF legacy.phase = "deploying" \/ force
         THEN [legacy EXCEPT !.phase =
                 IF Preserved(st) # None THEN "healthy" ELSE "failed"]
         ELSE legacy

\* By hand, with -Force or not, with -RestartServices or not.
OperatorRecover ==
    /\ "recover" \in Disturbances
    /\ \E force \in BOOLEAN : RecoverState(force)
    /\ serving' \in {serving, current, None}
    /\ UNCHANGED <<flag, disk, mutex, origin, pc, loc, watcher, cancel, faults,
                   history>>

-----------------------------------------------------------------------------
\* watch_github.ps1, under the sync mutex: one at a time, and none while the
\* watcher's own deploy runs.

\* Wrong on purpose: waits for a deploy however old it is.
LegacyDeploying == legacy.phase = "deploying"

LegacyRecent == legacy.phase = "deploying" /\ legacy.startedAt = "recent"

\* Recover what is stale, unless the phase says that a deploy is under way.
WatchCheck ==
    /\ watch = "asleep" /\ watchRun = None
    /\ ~LegacyRecent
    /\ IF legacy.phase = "deploying" \/ Stale(st)
       THEN RecoverState(TRUE)
       ELSE UNCHANGED <<st, legacy>>
    /\ watch' = "deciding"
    /\ UNCHANGED <<flag, disk, serving, mutex, origin, pc, loc, watchRun,
                   cancel, faults, history>>

\* The state the watcher decides on: a block on another commit is cleared, and
\* a failed deploy of this one is blocked if it was not.
Unblocked(s) ==
    IF s.blockedSha \notin {None, origin}
    THEN Save([s EXCEPT !.blockedSha = None])
    ELSE s

FailedSameTarget(s) == s.status = "failed" /\ s.targetSha = origin

WatchDecide ==
    /\ watch = "deciding"
    /\ watch' = "asleep"
    /\ LET s == Synced(st)
           u == Unblocked(s)
       IN  \/ /\ s.activeSha = origin
              /\ st' = s
              /\ UNCHANGED <<pc, loc, watchRun, cancelled>>
           \/ /\ s.activeSha # origin
              /\ FailedSameTarget(u) \/ u.blockedSha = origin
              /\ st' = IF FailedSameTarget(u) /\ u.blockedSha = None
                       THEN Save([u EXCEPT !.blockedSha = u.targetSha])
                       ELSE u
              /\ UNCHANGED <<pc, loc, watchRun, cancelled>>
           \/ /\ s.activeSha # origin
              /\ ~FailedSameTarget(u) /\ u.blockedSha # origin
              /\ st' = u
              /\ \E r \in Run : Launch(r, origin) /\ watchRun' = r
    /\ UNCHANGED <<flag, legacy, disk, serving, mutex, origin, cancel, faults,
                   validated>>

-----------------------------------------------------------------------------
\* The console: server_ops.py

\* action_redeploy of a named commit, and action_clear_block_and_redeploy of
\* the branch's head.
ConsoleRedeploy ==
    /\ ConsoleShas # {}
    /\ ~Busy(st)
    /\ \E r \in Run :
         \/ /\ \E sha \in ConsoleShas : Launch(r, sha)
            /\ UNCHANGED st
         \/ /\ Launch(r, origin)
            /\ st' = [st EXCEPT !.blockedSha = None]
    /\ UNCHANGED <<flag, legacy, disk, serving, mutex, origin, watcher, cancel,
                   faults, validated>>

\* action_rollback: the check, and later rollback_release.ps1.
ManualRollback ==
    /\ Fault("rollback")
    /\ ~Running(Operator)
    /\ ~Busy(st)
    /\ \E sha \in RollbackShas \cup {None} :
         loc' = [loc EXCEPT ![Operator].target = sha]
    /\ Goto(Operator, "rollback")
    /\ UNCHANGED <<st, flag, legacy, disk, serving, mutex, origin, watcher,
                   cancel, history>>

NoCancel == [pc |-> "idle", runId |-> None,
             lastGoodSha |-> None, activeSha |-> None]

\* cancel_deploy.ps1: read the state and leave the flag,
CancelBegin ==
    /\ "cancel" \in Disturbances
    /\ cancel.pc = "idle"
    /\ \/ /\ ~Busy(st)
          /\ flag' = None
          /\ UNCHANGED cancel
       \/ /\ Busy(st)
          /\ flag' = IF st.runId = None THEN "any" ELSE st.runId
          /\ cancel' = [pc |-> "kill", runId |-> st.runId,
                        lastGoodSha |-> st.lastGoodSha,
                        activeSha |-> st.activeSha]
    /\ UNCHANGED <<st, legacy, disk, serving, mutex, origin, pc, loc, watcher,
                   faults, history>>

RunningRuns == {r \in Run : Running(r)}

\* kill the process the manifest of that run names, if it can be killed,
CancelKill ==
    /\ cancel.pc = "kill"
    /\ cancel' = [cancel EXCEPT !.pc = "reset"]
    /\ \/ /\ cancel.runId \in RunningRuns
          /\ End(cancel.runId)
       \/ /\ cancel.runId \notin RunningRuns \/ "killfail" \in Disturbances
          /\ UNCHANGED <<pc, loc, mutex, watchRun>>
    /\ UNCHANGED <<st, flag, legacy, disk, serving, origin, watch, faults,
                   history>>

\* The runs an answer "Deploy cancelado" is about: the one the state named, or
\* whichever is deploying if it named none.
Reported == IF cancel.runId # None THEN {cancel.runId}
            ELSE {r \in Run : Owning(r)}

\* reset the state, clear the block and the flag, and answer.
CancelReset ==
    /\ cancel.pc = "reset"
    /\ LET good == Preserved(cancel)
       IN  /\ st' = Reset([st EXCEPT !.lockHolder = FALSE,
                                     !.blockedSha = None], "idle", good)
           /\ legacy' = IF legacy.phase = "deploying"
                        THEN [legacy EXCEPT !.phase =
                                IF good # None THEN "healthy" ELSE "failed"]
                        ELSE legacy
    /\ flag' = None
    /\ cancelled' = cancelled \cup Reported
    /\ cancel' = NoCancel
    /\ UNCHANGED <<disk, serving, mutex, origin, pc, loc, watcher, faults,
                   validated>>

-----------------------------------------------------------------------------
\* bootstrap_env.ps1

Bootstrap ==
    /\ "boot" \in Disturbances
    /\ ~Running(Boot)
    /\ st' = Synced(st)
    /\ ~Busy(st')
    /\ Goto(Boot, "enter")
    /\ loc' = [loc EXCEPT ![Boot].activeSha = st'.activeSha]
    /\ UNCHANGED <<flag, legacy, disk, serving, mutex, origin, watcher, cancel,
                   faults, history>>

\* Make the junction current if there is none, from the state read at the start.
BootRepair ==
    /\ pc[Boot] = "repair"
    /\ \/ /\ current = None /\ loc[Boot].activeSha \in releases
          /\ \/ Link(loc[Boot].activeSha) /\ Goto(Boot, "bootStart")
             \/ LinkFails /\ Goto(Boot, "exit")
       \/ /\ current # None \/ loc[Boot].activeSha \notin releases
          /\ Goto(Boot, "bootStart")
          /\ UNCHANGED current
    /\ UNCHANGED <<st, flag, legacy, previous, releases, built, serving, mutex,
                   origin, loc, watcher, cancel, faults, history>>

\* Shared files, database, migrations, and start_env if nothing listens.
BootStart ==
    /\ pc[Boot] = "bootStart"
    /\ \/ serving = None /\ serving' = current
       \/ UNCHANGED serving
    /\ Goto(Boot, "exit")
    /\ UNCHANGED <<st, flag, legacy, disk, mutex, origin, loc, watcher, cancel,
                   faults, history>>

-----------------------------------------------------------------------------
\* A process is killed (a timeout of the console, a crash), or the machine is.

Crash(a) ==
    /\ Fault("crash")
    /\ Running(a)
    /\ End(a)
    /\ UNCHANGED <<st, flag, legacy, disk, serving, origin, watch, cancel,
                   history>>

CancelCrash ==
    /\ Fault("crash")
    /\ cancel.pc # "idle"
    /\ cancel' = NoCancel
    /\ UNCHANGED <<st, flag, legacy, disk, serving, mutex, origin, pc, loc,
                   watcher, history>>

Reboot ==
    /\ Fault("reboot")
    /\ serving' = None
    /\ mutex' = None
    /\ pc' = [a \in Actor |-> "off"]
    /\ loc' = [a \in Actor |-> NoLocals]
    /\ watch' = "asleep"
    /\ watchRun' = None
    /\ cancel' = NoCancel
    /\ UNCHANGED <<st, flag, legacy, disk, origin, history>>

-----------------------------------------------------------------------------
BootStep == BootRepair \/ BootStart
WatchStep == WatchCheck \/ WatchDecide
CancelStep == CancelKill \/ CancelReset

ActorStep(a) ==
    \/ LockStep(a)
    \/ a \in Run /\ PipelineStep(a)
    \/ a # Boot /\ RollbackStep(a)
    \/ a = Boot /\ BootStep

OperatorCommand ==
    ConsoleRedeploy \/ ManualRollback \/ CancelBegin \/ OperatorRecover
    \/ Bootstrap

Environment ==
    \/ Push \/ AgeUpdated \/ AgeStarted
    \/ \E a \in Actor : Crash(a)
    \/ CancelCrash \/ Reboot

Next ==
    \/ \E a \in Actor : ActorStep(a)
    \/ WatchStep \/ CancelStep \/ OperatorCommand \/ Environment

Spec == Init /\ [][Next]_vars

\* Processes run, the scheduled watcher keeps being started, time passes.
Fairness ==
    /\ \A a \in Actor : WF_vars(ActorStep(a))
    /\ WF_vars(WatchCheck) /\ WF_vars(WatchDecide)
    /\ WF_vars(CancelStep)
    /\ WF_vars(AgeStarted)

FairSpec == Spec /\ Fairness
=============================================================================
