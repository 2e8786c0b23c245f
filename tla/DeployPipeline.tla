---------------------------- MODULE DeployPipeline ----------------------------
(***************************************************************************)
(* The deploy pipeline of one environment: run_pipeline_locked.ps1 with    *)
(* deploy_pipeline.ps1 and the build, validate, promote, rollback and      *)
(* prune scripts it calls.                                                 *)
(*                                                                         *)
(* A step is what a script does between two points at which another        *)
(* process can change what it reads next. Set-DeployState, which reads and *)
(* replaces the whole file in a few milliseconds, is one step.             *)
(***************************************************************************)
EXTENDS DeployEnv

DeployInit(live) ==
    /\ st = SetDeployState(DefaultState, live, live)
    /\ current = live
    /\ releases = {live} \ {None}
    /\ serving = live

\* A new environment, or one that runs a release that was deployed well.
Init ==
    /\ \E live \in ShaOrNone : DeployInit(live)
    /\ flag = None
    /\ legacy = [phase |-> "healthy", startedAt |-> "none"]
    /\ previous = None
    /\ built = releases
    /\ mutex = None
    /\ origin \in Sha
    /\ pc = [a \in Actor |-> "off"]
    /\ loc = [a \in Actor |-> NoLocals]
    /\ watch = "asleep"
    /\ watchRun = None
    /\ cancel = [pc |-> "idle", runId |-> None,
                 lastGoodSha |-> None, activeSha |-> None]
    /\ faults = 0
    /\ validated = releases
    /\ cancelled = {}

-----------------------------------------------------------------------------
\* deploy_lock.ps1

\* Enter-DeployLock up to the mutex: reset what looks abandoned, refuse what
\* is busy.
LockCheck(a) ==
    /\ pc[a] = "enter"
    /\ \/ /\ Zombie(st) \/ Stale(st)
          /\ st' = Reset(st, ResetStatus(Preserved(st)), Preserved(st))
          /\ legacy' = ResetLegacyPhase
          /\ Goto(a, "acquire")
          /\ UNCHANGED <<loc, mutex, watchRun>>
       \/ /\ ~Zombie(st) /\ ~Stale(st) /\ ~Busy(st)
          /\ Goto(a, "acquire")
          /\ UNCHANGED <<st, legacy, loc, mutex, watchRun>>
       \/ /\ ~Zombie(st) /\ ~Stale(st) /\ Busy(st)
          /\ End(a)
          /\ UNCHANGED <<st, legacy>>
    /\ UNCHANGED <<flag, disk, serving, origin, watch, cancel, faults, history>>

\* Wrong on purpose: does not look whether the mutex is owned.
LockAcquireUnowned(a) ==
    /\ pc[a] = "acquire"
    /\ mutex' = a
    /\ st' = Save([st EXCEPT !.lockHolder = TRUE])
    /\ Goto(a, IF a = Boot THEN "repair" ELSE "init")
    /\ UNCHANGED <<flag, legacy, disk, serving, origin, loc, watcher, cancel,
                   faults, history>>

\* WaitOne(0) on the mutex, and lockHolder once it is owned.
LockAcquire(a) ==
    /\ pc[a] = "acquire"
    /\ \/ /\ mutex = None
          /\ mutex' = a
          /\ st' = Save([st EXCEPT !.lockHolder = TRUE])
          /\ Goto(a, IF a = Boot THEN "repair" ELSE "init")
          /\ UNCHANGED <<loc, watchRun>>
       \/ /\ mutex # None
          /\ End(a)
          /\ UNCHANGED st
    /\ UNCHANGED <<flag, legacy, disk, serving, origin, watch, cancel, faults,
                   history>>

\* Exit-DeployLock releases the mutex first and clears lockHolder after.
LockRelease(a) ==
    /\ pc[a] = "exit"
    /\ mutex' = None
    /\ Goto(a, "clearHolder")
    /\ UNCHANGED <<st, flag, legacy, disk, serving, origin, loc, watcher,
                   cancel, faults, history>>

LockClear(a) ==
    /\ pc[a] = "clearHolder"
    /\ st' = Save([st EXCEPT !.lockHolder = FALSE])
    /\ End(a)
    /\ UNCHANGED <<flag, legacy, disk, serving, origin, watch, cancel, faults,
                   history>>

-----------------------------------------------------------------------------
\* deploy_pipeline.ps1. The deployed repository's own scripts write the phase and
\* the deployed sha (Update-DeployStatus, Set-DeployedShaFile), and may throw.
StatusMayFail == "statusfail" \in Disturbances

PipelineStart(a) ==
    /\ pc[a] = "init"
    /\ LET s == Synced(st)
           old == Preserved(s)
       IN  /\ st' = SetDeployState(
                        [s EXCEPT !.status = "building", !.runId = a,
                                  !.targetSha = loc[a].target,
                                  !.startedAt = "recent"],
                        old, IF s.lastGoodSha = None THEN old ELSE None)
           /\ loc' = [loc EXCEPT ![a].oldActive = old,
                                 ![a].lastGoodSha = s.lastGoodSha,
                                 ![a].activeSha = s.activeSha]
    /\ \/ /\ legacy' = [phase |-> "deploying", startedAt |-> "recent"]
          /\ Goto(a, "build")
       \/ /\ StatusMayFail
          /\ Goto(a, "failing")
          /\ UNCHANGED legacy
    /\ UNCHANGED <<flag, disk, serving, mutex, origin, watcher, cancel, faults,
                   history>>

\* A step of the pipeline script that only moves on in the files it changes.
Only(a, label) ==
    /\ Goto(a, label)
    /\ UNCHANGED <<flag, mutex, origin, watcher, cancel, faults, cancelled>>

\* build_staging.ps1: a release already built, whose dependency fingerprint
\* still matches, is reused.
BuildSkip(a) ==
    /\ pc[a] = "build"
    /\ loc[a].target \in built
    /\ Only(a, "built")
    /\ UNCHANGED <<st, legacy, disk, serving, loc, validated>>

\* Wrong on purpose: never trusts a release that is there.
BuildAlways(a) == TRUE

\* An incomplete release, or one whose dependency fingerprint has changed.
MustBuild(a) == loc[a].target \notin built \/ "rebuild" \in Disturbances

\* Otherwise the directory is removed, whatever points to it, and checked out
\* again; the fetch or the checkout may fail.
BuildCheckout(a) ==
    /\ pc[a] = "build"
    /\ MustBuild(a)
    /\ built' = built \ {loc[a].target}
    /\ validated' = validated \ {loc[a].target}
    /\ \/ /\ releases' = releases \cup {loc[a].target}
          /\ Only(a, "compile")
       \/ /\ releases' \in {releases, releases \ {loc[a].target}}
          /\ Only(a, "failing")
    /\ UNCHANGED <<st, legacy, current, previous, serving, loc>>

BuildCompile(a) ==
    /\ pc[a] = "compile"
    /\ \/ built' = built \cup {loc[a].target} /\ Only(a, "built")
       \/ Only(a, "failing") /\ UNCHANGED built
    /\ UNCHANGED <<st, legacy, current, previous, releases, serving, loc,
                   validated>>

\* Assert-DeployNotCancelled and the next status. Its throw is the one the catch
\* knows as a cancel even if the flag is gone by then.
NextStage(a, from, status, label) ==
    /\ pc[a] = from
    /\ \/ /\ ~CancelRequested(a)
          /\ st' = Save([st EXCEPT !.status = status])
          /\ Only(a, label)
       \/ /\ CancelRequested(a)
          /\ Only(a, "cancelling")
          /\ UNCHANGED st
    /\ UNCHANGED <<legacy, disk, serving, loc, validated>>

\* Wrong on purpose: promotes what was only built.
StartWithoutValidation(a) == NextStage(a, "built", "validating", "validated")

StartValidate(a) == NextStage(a, "built", "validating", "validate")
StartPromote(a)  == NextStage(a, "validated", "promoting", "promote")

\* validate_staging.ps1
Validate(a) ==
    /\ pc[a] = "validate"
    /\ \/ /\ loc[a].target \in built
          /\ validated' = validated \cup {loc[a].target}
          /\ Only(a, "validated")
       \/ Only(a, "failing") /\ UNCHANGED validated
    /\ UNCHANGED <<st, legacy, disk, serving, loc>>

-----------------------------------------------------------------------------
\* promote_release.ps1. Set-DirectoryJunction removes the junction and then
\* makes it again, which mklink refuses if another process has made it since.
LinkMayFail == "linkfail" \in Disturbances

Link(sha) == current = None /\ current' = sha
LinkFails == (LinkMayFail \/ current # None) /\ UNCHANGED current

PromoteBegin(a) ==
    /\ pc[a] = "promote"
    /\ \/ /\ loc[a].target \in releases
          /\ LET old == Coalesce(st.activeSha, Preserved(st))
             IN  /\ loc' = [loc EXCEPT ![a].dest = old]
                 /\ \/ /\ previous' = IF old \in releases THEN old ELSE previous
                       /\ current' = None
                       /\ Only(a, "promoteLink")
                    \/ /\ LinkMayFail /\ old \in releases
                       /\ previous' = None
                       /\ Only(a, "restore")
                       /\ UNCHANGED current
       \/ /\ loc[a].target \notin releases
          /\ Only(a, "failing")
          /\ UNCHANGED <<loc, current, previous>>
    /\ UNCHANGED <<st, legacy, releases, built, serving, validated>>

PromoteLink(a) ==
    /\ pc[a] = "promoteLink"
    /\ \/ Link(loc[a].target) /\ Only(a, "migrate")
       \/ LinkFails /\ Only(a, "restore")
    /\ UNCHANGED <<st, legacy, previous, releases, built, serving, loc,
                   validated>>

\* Shared files, database, migrations, static files, then stop_env.
PromoteMigrate(a) ==
    /\ pc[a] = "migrate"
    /\ \/ serving' = None /\ Only(a, "start")
       \/ serving' \in {serving, None} /\ Only(a, "restore")
    /\ UNCHANGED <<st, legacy, disk, loc, validated>>

\* Wrong on purpose: leaves the junction on the release that failed.
PromoteKeepsLink(a) ==
    /\ pc[a] = "restore"
    /\ Only(a, "failing")
    /\ UNCHANGED <<st, legacy, disk, serving, loc, validated>>

\* Restore-PplidPromoteJunctionIfNeeded
PromoteRestore(a) ==
    /\ pc[a] = "restore"
    /\ \/ /\ loc[a].dest \in releases
          /\ current' = None
          /\ Only(a, "restoreLink")
       \/ /\ loc[a].dest \notin releases
          /\ Only(a, "failing")
          /\ UNCHANGED current
    /\ UNCHANGED <<st, legacy, previous, releases, built, serving, loc,
                   validated>>

RestoreLink(a) ==
    /\ pc[a] = "restoreLink"
    /\ Link(loc[a].dest) \/ LinkFails
    /\ Only(a, "failing")
    /\ UNCHANGED <<st, legacy, previous, releases, built, serving, loc,
                   validated>>

PromoteStart(a) ==
    /\ pc[a] = "start"
    /\ \/ serving' = current /\ Only(a, "health")
       \/ serving' = current /\ StatusMayFail /\ Only(a, "failing")
       \/ serving' = None /\ Only(a, "rollback")
    /\ UNCHANGED <<st, legacy, disk, loc, validated>>

\* Wrong on purpose: starts the services again for as long as it takes.
HealthForever(a) ==
    /\ pc[a] = "health"
    /\ Only(a, "promoted") \/ Only(a, "start")
    /\ UNCHANGED <<st, legacy, disk, serving, loc, validated>>

\* Health check, with one more start_env before giving up.
PromoteHealth(a) ==
    /\ pc[a] = "health"
    /\ \/ /\ serving' \in {serving, current} \ {None}
          /\ Only(a, "promoted")
       \/ /\ serving' \in {serving, current, None}
          /\ Only(a, "rollback")
    /\ UNCHANGED <<st, legacy, disk, loc, validated>>

-----------------------------------------------------------------------------
\* rollback_release.ps1, run by promote_release or by hand. It takes no lock.

\* Where control goes when the script ends: a promote throws in any case.
RollbackReturn(a) ==
    IF a = Operator
    THEN End(a) /\ UNCHANGED <<flag, origin, watch, cancel, faults, cancelled>>
    ELSE Only(a, "failing") /\ UNCHANGED loc

RollbackBegin(a) ==
    /\ pc[a] = "rollback"
    /\ LET sha == RollbackRelease(IF a = Operator THEN loc[a].target ELSE None)
       IN  \/ /\ sha # None
              /\ loc' = [loc EXCEPT ![a].dest = sha]
              /\ current' = None
              /\ legacy' = [legacy EXCEPT !.phase = "deploying"]
              /\ Only(a, "rollbackLink")
           \/ /\ sha = None
              /\ legacy' = [legacy EXCEPT !.phase = "failed"]
              /\ RollbackReturn(a)
              /\ UNCHANGED current
           \/ /\ StatusMayFail
              /\ RollbackReturn(a)
              /\ UNCHANGED <<legacy, current>>
    /\ UNCHANGED <<st, previous, releases, built, serving, validated>>

RollbackLink(a) ==
    /\ pc[a] = "rollbackLink"
    /\ \/ /\ Link(loc[a].dest)
          /\ Only(a, "rollbackRestart")
          /\ UNCHANGED loc
       \/ LinkFails /\ RollbackReturn(a)
    /\ UNCHANGED <<st, legacy, previous, releases, built, serving, validated>>

RollbackRestart(a) ==
    /\ pc[a] = "rollbackRestart"
    /\ serving' \in {current, None}
    /\ \/ Only(a, "rollbackState") /\ UNCHANGED loc
       \/ StatusMayFail /\ RollbackReturn(a)
    /\ UNCHANGED <<st, legacy, disk, validated>>

\* The health check, the state (rolled_back), the phase, and idle at the end if
\* the services are healthy and neither the phase nor the workspace failed.
RollbackState(a) ==
    /\ pc[a] = "rollbackState"
    /\ \E healthy, told, synced \in BOOLEAN :
         /\ healthy => serving # None
         /\ told \/ StatusMayFail
         /\ st' = SetDeployState(
                      [st EXCEPT
                         !.status = IF healthy /\ told /\ synced
                                    THEN "idle" ELSE "rolled_back",
                         !.targetSha = None, !.runId = None,
                         !.lockHolder = FALSE],
                      loc[a].dest, loc[a].dest)
         /\ legacy' = IF told
                      THEN [legacy EXCEPT
                              !.phase = IF healthy THEN "healthy" ELSE "failed"]
                      ELSE legacy
    /\ RollbackReturn(a)
    /\ UNCHANGED <<disk, serving, validated>>

-----------------------------------------------------------------------------
\* The ends of deploy_pipeline.ps1

PipelineFinish(a) ==
    /\ pc[a] = "promoted"
    /\ \/ /\ ~CancelRequested(a)
          /\ st' = SetDeployState(
                       [st EXCEPT !.status = "idle", !.blockedSha = None,
                                  !.previousSha = loc[a].oldActive],
                       loc[a].target, loc[a].target)
          /\ Only(a, "publish")
       \/ /\ CancelRequested(a)
          /\ Only(a, "cancelling")
          /\ UNCHANGED st
    /\ UNCHANGED <<legacy, disk, serving, loc, validated>>

\* deploy-status.json and the workspace repository; both may throw.
Publish(a) ==
    /\ pc[a] = "publish"
    /\ \/ /\ legacy' = [legacy EXCEPT !.phase = "healthy"]
          /\ \/ Only(a, "prune")
             \/ Only(a, "failing")
       \/ Only(a, "failing") /\ UNCHANGED legacy
    /\ UNCHANGED <<st, disk, serving, loc, validated>>

\* prune_releases.ps1: the releases to keep, then the removal of the others.
PruneScan(a) ==
    /\ pc[a] = "prune"
    /\ \E kept \in SUBSET (releases \ Protected) :
         /\ \/ Cardinality(kept) = KeepCount
            \/ Cardinality(kept) < KeepCount /\ kept = releases \ Protected
         /\ loc' = [loc EXCEPT ![a].doomed = (releases \ Protected) \ kept]
    /\ Only(a, "remove")
    /\ UNCHANGED <<st, legacy, disk, serving, validated>>

\* The removals, of which some may fail; a failure ends the script.
PruneRemove(a) ==
    /\ pc[a] = "remove"
    /\ \E gone \in SUBSET loc[a].doomed :
         /\ releases' = releases \ gone
         /\ built' = built \ gone
         /\ validated' = validated \ gone
    /\ st' \in {st, Synced(st)}
    /\ Only(a, "exit")
    /\ UNCHANGED <<legacy, current, previous, serving, loc>>

\* Wrong on purpose: the release that was active when the deploy began.
ActiveAtStart(a) == loc[a].oldActive

\* What the catch block records as active: what the junction says, first.
ActiveAfterFailure(a) == Coalesce(Preserved(loc[a]), loc[a].oldActive)

Told(phase) ==
    \/ legacy' = [legacy EXCEPT !.phase = phase]
    \/ StatusMayFail /\ UNCHANGED legacy

Cancelled(a) == pc[a] = "cancelling" \/ CancelRequested(a)

\* The catch block: a cancelled run goes back to idle, any other failure is
\* recorded and blocks its commit.
PipelineCatch(a) ==
    /\ pc[a] \in {"failing", "cancelling"}
    /\ LET old == ActiveAfterFailure(a)
       IN  \/ /\ Cancelled(a)
              /\ st' = SetDeployState(
                           [st EXCEPT !.status = "idle", !.lockHolder = FALSE,
                                      !.targetSha = None, !.runId = None,
                                      !.startedAt = "none",
                                      !.blockedSha = None],
                           old, Coalesce(loc[a].lastGoodSha, old))
              /\ Told("healthy")
              /\ flag' = None
           \/ /\ ~Cancelled(a)
              /\ st' = SetDeployState(
                           [st EXCEPT !.status = "failed",
                                      !.targetSha = loc[a].target,
                                      !.blockedSha = loc[a].target],
                           old, Coalesce(old, loc[a].lastGoodSha))
              /\ Told("failed")
              /\ UNCHANGED flag
    /\ Goto(a, "exit")
    /\ UNCHANGED <<disk, serving, mutex, origin, loc, watcher, cancel, faults,
                   history>>

\* One step of a deploy process, in the order of the script.
PipelineStep(a) ==
    \/ PipelineStart(a)
    \/ BuildSkip(a) \/ BuildCheckout(a) \/ BuildCompile(a)
    \/ StartValidate(a) \/ Validate(a) \/ StartPromote(a)
    \/ PromoteBegin(a) \/ PromoteLink(a) \/ PromoteMigrate(a)
    \/ PromoteRestore(a) \/ RestoreLink(a)
    \/ PromoteStart(a) \/ PromoteHealth(a)
    \/ PipelineFinish(a) \/ Publish(a) \/ PruneScan(a) \/ PruneRemove(a)
    \/ PipelineCatch(a)

LockStep(a) == LockCheck(a) \/ LockAcquire(a) \/ LockRelease(a) \/ LockClear(a)

RollbackStep(a) ==
    \/ RollbackBegin(a) \/ RollbackLink(a) \/ RollbackRestart(a)
    \/ RollbackState(a)
=============================================================================
