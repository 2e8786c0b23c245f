----------------------------- MODULE DeployProofs -----------------------------
(***************************************************************************)
(* Theorems about the deploy system, for any number of commits, deploys    *)
(* and faults: every variable keeps its type, one deploy works in the      *)
(* environment at a time, a deploy past validation keeps its artefact, and *)
(* nothing before promote_release touches production.                      *)
(***************************************************************************)
EXTENDS DeployProperties, TLAPS

\* What makes the type and the lock inductive: a deploy always has a commit,
\* the manual rollback runs nothing but rollback_release.ps1, and whoever is
\* past the lock owns the mutex.
TargetOK == \A r \in Run : Running(r) => loc[r].target \in Sha

OperatorOK ==
    pc[Operator] \in {"off", "rollback", "rollbackLink", "rollbackRestart",
                      "rollbackState"}

LockOK == \A a \in Actor : Owning(a) => mutex = a

IInv == TypeOK /\ TargetOK /\ OperatorOK /\ LockOK

-----------------------------------------------------------------------------
\* What the helpers of deploy/lib return.

LEMMA CoalesceType ==
    ASSUME NEW x \in ShaOrNone, NEW y \in ShaOrNone
    PROVE  Coalesce(x, y) \in ShaOrNone
BY DEF Coalesce

\* Set-DeployState keeps a well-formed state file well-formed.
LEMMA SetDeployStateType ==
    ASSUME NEW s \in DeployState, NEW active \in ShaOrNone, NEW good \in ShaOrNone
    PROVE  SetDeployState(s, active, good) \in DeployState
<1> DEFINE g == Coalesce(good, s.lastGoodSha)
           a == Coalesce(Coalesce(active, s.activeSha), g)
<1>1. s.lastGoodSha \in ShaOrNone /\ s.activeSha \in ShaOrNone
  BY DEF DeployState
<1>2. g \in ShaOrNone
  BY <1>1, CoalesceType
<1>3. a \in ShaOrNone
  BY <1>1, <1>2, CoalesceType
<1>4. "fresh" \in UpdatedAge
  BY DEF UpdatedAge
<1> HIDE DEF g, a
<1>5. [s EXCEPT !.lastGoodSha = g, !.activeSha = a, !.updatedAt = "fresh"]
        \in DeployState
  BY <1>2, <1>3, <1>4 DEF DeployState
<1> QED
  BY <1>5 DEF SetDeployState, g, a

LEMMA SaveType ==
    ASSUME NEW s \in DeployState
    PROVE  Save(s) \in DeployState
BY SetDeployStateType DEF Save, ShaOrNone

LEMMA CurrentShaType ==
    ASSUME TypeOK
    PROVE  CurrentSha \in ShaOrNone
BY DEF TypeOK, CurrentSha, ShaOrNone

\* The preserved sha is a commit or nothing, whichever snapshot it is read from.
LEMMA PreservedType ==
    ASSUME TypeOK, NEW s, s.lastGoodSha \in ShaOrNone, s.activeSha \in ShaOrNone
    PROVE  Preserved(s) \in ShaOrNone
<1>1. st.activeSha \in ShaOrNone
  BY DEF TypeOK, DeployState
<1> QED
  BY <1>1, CurrentShaType, CoalesceType DEF Preserved

LEMMA ResetStatusType ==
    ASSUME NEW good
    PROVE  ResetStatus(good) \in Status
BY DEF ResetStatus, Status

LEMMA ResetType ==
    ASSUME NEW s \in DeployState, NEW status \in Status, NEW good \in ShaOrNone
    PROVE  Reset(s, status, good) \in DeployState
<1> DEFINE t == [s EXCEPT !.status = status, !.targetSha = None,
                          !.runId = None, !.startedAt = "none"]
<1>1. None \in ShaOrNone /\ "none" \in StartedAge
  BY DEF ShaOrNone, StartedAge
<1>2. t \in DeployState
  BY <1>1 DEF DeployState
<1> HIDE DEF t
<1>3. SetDeployState(t, good, good) \in DeployState
  BY <1>2, SetDeployStateType
<1> QED
  BY <1>3 DEF Reset, t

LEMMA SyncedType ==
    ASSUME TypeOK, NEW s \in DeployState
    PROVE  Synced(s) \in DeployState
<1>1. [s EXCEPT !.status = "idle"] \in DeployState
  BY DEF DeployState, Status
<1> QED
  BY <1>1, CurrentShaType, SetDeployStateType DEF Synced

LEMMA StateFields ==
    ASSUME NEW s \in DeployState
    PROVE  /\ s.lastGoodSha \in ShaOrNone /\ s.activeSha \in ShaOrNone
           /\ s.targetSha \in ShaOrNone /\ s.previousSha \in ShaOrNone
           /\ s.blockedSha \in ShaOrNone /\ s.runId \in Run \cup {None}
BY DEF DeployState

LEMMA LocalFields ==
    ASSUME TypeOK, NEW a \in Actor
    PROVE  /\ loc[a].target \in ShaOrNone /\ loc[a].oldActive \in ShaOrNone
           /\ loc[a].dest \in ShaOrNone /\ loc[a].lastGoodSha \in ShaOrNone
           /\ loc[a].activeSha \in ShaOrNone /\ loc[a].doomed \in SUBSET Sha
BY DEF TypeOK, Locals

LEMMA EndType ==
    ASSUME TypeOK, NEW a \in Actor, End(a)
    PROVE  /\ pc' \in [Actor -> PC] /\ loc' \in [Actor -> Locals]
           /\ mutex' \in Actor \cup {None} /\ watchRun' \in Run \cup {None}
<1>1. NoLocals \in Locals
  BY DEF NoLocals, Locals, ShaOrNone
<1>2. "off" \in PC
  BY DEF PC
<1> QED
  BY <1>1, <1>2 DEF End, Goto, TypeOK

-----------------------------------------------------------------------------
\* Type correctness, one step per action.

LEMMA TypeInit ==
    ASSUME Init
    PROVE  TypeOK
<1>1. PICK live \in ShaOrNone : DeployInit(live)
  BY DEF Init
<1>2. DefaultState \in DeployState
  BY DEF DefaultState, DeployState, Status, ShaOrNone, StartedAge, UpdatedAge
<1>3. st \in DeployState
  BY <1>1, <1>2, SetDeployStateType DEF DeployInit
<1>4. releases \in SUBSET Sha /\ built \in SUBSET Sha /\ validated \in SUBSET Sha
  BY <1>1 DEF DeployInit, Init, ShaOrNone
<1>5. current \in ShaOrNone /\ serving \in ShaOrNone /\ previous \in ShaOrNone
  BY <1>1 DEF DeployInit, Init, ShaOrNone
<1>6. pc \in [Actor -> PC] /\ loc \in [Actor -> Locals]
  BY DEF Init, PC, NoLocals, Locals, ShaOrNone
<1>7. cancel \in [pc : {"idle", "kill", "reset"}, runId : Run \cup {None},
                  lastGoodSha : ShaOrNone, activeSha : ShaOrNone]
  BY DEF Init, ShaOrNone
<1>8. legacy \in [phase : {"healthy", "deploying", "failed"},
                  startedAt : StartedAge]
  BY DEF Init, StartedAge
<1>9. /\ flag \in Run \cup {None, "any"} /\ mutex \in Actor \cup {None}
      /\ origin \in Sha /\ watch \in {"asleep", "deciding"}
      /\ watchRun \in Run \cup {None} /\ faults \in Nat /\ cancelled \in SUBSET Run
  BY DEF Init
<1> QED
  BY <1>3, <1>4, <1>5, <1>6, <1>7, <1>8, <1>9 DEF TypeOK

LEMMA RunIsActor ==
    /\ Run \subseteq Actor /\ Operator \in Actor /\ Boot \in Actor
    /\ None \in ShaOrNone
BY DEF Actor, ShaOrNone

LEMMA GotoType ==
    ASSUME TypeOK, NEW a \in Actor, NEW label \in PC, Goto(a, label)
    PROVE  pc' \in [Actor -> PC]
BY DEF TypeOK, Goto

LEMMA ResetLegacyType ==
    ASSUME TypeOK
    PROVE  ResetLegacyPhase \in [phase : {"healthy", "deploying", "failed"},
                                 startedAt : StartedAge]
BY DEF TypeOK, ResetLegacyPhase

LEMMA LockStepType ==
    ASSUME TypeOK, NEW a \in Actor, LockStep(a)
    PROVE  TypeOK'
<1>1. st \in DeployState
  BY DEF TypeOK
<1>2. CASE LockCheck(a)
  <2>1. Preserved(st) \in ShaOrNone
    BY <1>1, StateFields, PreservedType
  <2>2. Reset(st, ResetStatus(Preserved(st)), Preserved(st)) \in DeployState
    BY <1>1, <2>1, ResetStatusType, ResetType
  <2>3. pc' \in [Actor -> PC] /\ loc' \in [Actor -> Locals]
        /\ mutex' \in Actor \cup {None} /\ watchRun' \in Run \cup {None}
    BY <1>2, EndType, GotoType DEF LockCheck, TypeOK, PC
  <2>4. st' \in DeployState
    BY <1>1, <1>2, <2>2 DEF LockCheck
  <2> QED
    BY <1>2, <2>3, <2>4, ResetLegacyType DEF LockCheck, TypeOK, disk, history
<1>3. CASE LockAcquire(a)
  <2>1. [st EXCEPT !.lockHolder = TRUE] \in DeployState
    BY <1>1 DEF DeployState
  <2>2. pc' \in [Actor -> PC] /\ loc' \in [Actor -> Locals]
        /\ mutex' \in Actor \cup {None} /\ watchRun' \in Run \cup {None}
    BY <1>3, EndType, GotoType DEF LockAcquire, TypeOK, PC
  <2>3. st' \in DeployState
    BY <1>1, <1>3, <2>1, SaveType DEF LockAcquire
  <2> QED
    BY <1>3, <2>2, <2>3 DEF LockAcquire, TypeOK, disk, history
<1>4. CASE LockRelease(a)
  BY <1>4 DEF LockRelease, Goto, TypeOK, PC, disk, watcher, history
<1>5. CASE LockClear(a)
  <2>1. [st EXCEPT !.lockHolder = FALSE] \in DeployState
    BY <1>1 DEF DeployState
  <2> QED
    BY <1>5, <2>1, SaveType, EndType DEF LockClear, TypeOK, disk, history
<1> QED
  BY <1>2, <1>3, <1>4, <1>5 DEF LockStep

\* A step of a pipeline script that writes none of the shared files.
LEMMA OnlyType ==
    ASSUME TypeOK, NEW a \in Actor, NEW label \in PC, Only(a, label)
    PROVE  /\ pc' \in [Actor -> PC] /\ flag' = flag /\ mutex' = mutex
           /\ origin' = origin /\ watch' = watch /\ watchRun' = watchRun
           /\ cancel' = cancel /\ faults' = faults /\ cancelled' = cancelled
BY GotoType DEF Only, watcher

LEMMA NextStageType ==
    ASSUME TypeOK, NEW a \in Actor, NEW from, NEW status \in Status,
           NEW label \in PC, NextStage(a, from, status, label)
    PROVE  TypeOK'
<1>1. [st EXCEPT !.status = status] \in DeployState
  BY DEF TypeOK, DeployState
<1>2. st' \in DeployState
  BY <1>1, SaveType DEF NextStage, TypeOK
<1>3. "cancelling" \in PC
  BY DEF PC
<1> QED
  BY <1>2, <1>3, OnlyType DEF NextStage, TypeOK, disk

LEMMA BuildStepType ==
    ASSUME TypeOK, TargetOK, NEW a \in Run,
           BuildSkip(a) \/ BuildCheckout(a) \/ BuildCompile(a) \/ Validate(a)
    PROVE  TypeOK'
<1> USE RunIsActor
<1>1. /\ "built" \in PC /\ "compile" \in PC /\ "failing" \in PC
      /\ "validated" \in PC /\ "build" \in PC
  BY DEF PC
<1>2. pc[a] # "off" => loc[a].target \in Sha
  BY DEF TargetOK, Running
<1>3. CASE BuildSkip(a)
  BY <1>1, <1>3, OnlyType DEF BuildSkip, TypeOK, disk
<1>4. CASE BuildCheckout(a)
  <2>1. pc' \in [Actor -> PC]
    BY <1>1, <1>4, OnlyType DEF BuildCheckout
  <2> QED
    BY <1>1, <1>2, <1>4, <2>1, OnlyType DEF BuildCheckout, TypeOK
<1>5. CASE BuildCompile(a)
  BY <1>1, <1>2, <1>5, OnlyType DEF BuildCompile, TypeOK
<1>6. CASE Validate(a)
  BY <1>1, <1>2, <1>6, OnlyType DEF Validate, TypeOK, disk
<1> QED
  BY <1>3, <1>4, <1>5, <1>6

LEMMA PromoteStepType ==
    ASSUME TypeOK, NEW a \in Run,
           \/ PromoteBegin(a) \/ PromoteLink(a) \/ PromoteMigrate(a)
           \/ PromoteRestore(a) \/ RestoreLink(a)
           \/ PromoteStart(a) \/ PromoteHealth(a)
    PROVE  TypeOK'
<1> USE RunIsActor
<1>1. /\ "promoteLink" \in PC /\ "migrate" \in PC /\ "restore" \in PC
      /\ "restoreLink" \in PC /\ "failing" \in PC /\ "start" \in PC
      /\ "health" \in PC /\ "rollback" \in PC /\ "promoted" \in PC
  BY DEF PC
<1>2. loc[a].target \in ShaOrNone /\ loc[a].dest \in ShaOrNone
  BY LocalFields
<1>3. CASE PromoteBegin(a)
  <2> DEFINE old == Coalesce(st.activeSha, Preserved(st))
  <2>1. old \in ShaOrNone
    BY StateFields, PreservedType, CoalesceType DEF TypeOK
  <2>2. pc' \in [Actor -> PC]
    BY <1>1, <1>3, OnlyType DEF PromoteBegin
  <2>3. loc' = [loc EXCEPT ![a].dest = old] \/ loc' = loc
    BY <1>3 DEF PromoteBegin
  <2>4. previous' \in {old, previous, None} /\ current' \in {None, current}
    BY <1>3 DEF PromoteBegin
  <2>5. /\ flag' = flag /\ mutex' = mutex /\ origin' = origin /\ watch' = watch
        /\ watchRun' = watchRun /\ cancel' = cancel /\ faults' = faults
        /\ cancelled' = cancelled
    BY <1>1, <1>3, OnlyType DEF PromoteBegin
  <2>6. UNCHANGED <<st, legacy, releases, built, serving, validated>>
    BY <1>3 DEF PromoteBegin
  <2> HIDE DEF old
  <2>7. loc' \in [Actor -> Locals]
    BY <2>1, <2>3 DEF TypeOK, Locals
  <2> QED
    BY <2>1, <2>2, <2>4, <2>5, <2>6, <2>7 DEF TypeOK
<1>4. CASE PromoteLink(a)
  BY <1>1, <1>2, <1>4, OnlyType DEF PromoteLink, Link, LinkFails, TypeOK
<1>5. CASE PromoteMigrate(a)
  BY <1>1, <1>5, OnlyType DEF PromoteMigrate, TypeOK, disk
<1>6. CASE PromoteRestore(a)
  BY <1>1, <1>6, OnlyType DEF PromoteRestore, TypeOK
<1>7. CASE RestoreLink(a)
  BY <1>1, <1>2, <1>7, OnlyType DEF RestoreLink, Link, LinkFails, TypeOK
<1>8. CASE PromoteStart(a)
  BY <1>1, <1>8, OnlyType DEF PromoteStart, TypeOK, disk
<1>9. CASE PromoteHealth(a)
  <2>1. serving' \in ShaOrNone
    BY <1>9 DEF PromoteHealth, TypeOK
  <2> QED
    BY <1>1, <1>9, <2>1, OnlyType DEF PromoteHealth, TypeOK, disk
<1> QED
  BY <1>3, <1>4, <1>5, <1>6, <1>7, <1>8, <1>9

LEMMA RollbackReturnType ==
    ASSUME TypeOK, NEW a \in Actor, RollbackReturn(a)
    PROVE  /\ pc' \in [Actor -> PC] /\ loc' \in [Actor -> Locals]
           /\ mutex' \in Actor \cup {None} /\ watchRun' \in Run \cup {None}
           /\ flag' = flag /\ origin' = origin /\ watch' = watch
           /\ cancel' = cancel /\ faults' = faults /\ cancelled' = cancelled
<1>1. "failing" \in PC
  BY DEF PC
<1>2. CASE a = Operator
  BY <1>2, EndType DEF RollbackReturn
<1>3. CASE a # Operator
  BY <1>1, <1>3, OnlyType DEF RollbackReturn, TypeOK
<1> QED
  BY <1>2, <1>3

LEMMA RollbackStepType ==
    ASSUME TypeOK, NEW a \in Actor, RollbackStep(a)
    PROVE  TypeOK'
<1>1. /\ "rollbackLink" \in PC /\ "rollbackRestart" \in PC
      /\ "rollbackState" \in PC
  BY DEF PC
<1>2. loc[a].target \in ShaOrNone /\ loc[a].dest \in ShaOrNone
  BY LocalFields
<1>3. CASE RollbackBegin(a)
  <2> DEFINE sha == RollbackRelease(IF a = Operator THEN loc[a].target ELSE None)
  <2>1. sha \in ShaOrNone
    <3>1. Preserved(st) \in ShaOrNone
      BY StateFields, PreservedType DEF TypeOK
    <3> QED
      BY <1>2, <3>1, StateFields, RunIsActor
      DEF RollbackRelease, Coalesce, TypeOK
  <2> HIDE DEF sha
  <2>2. CASE /\ sha # None
             /\ loc' = [loc EXCEPT ![a].dest = sha]
             /\ current' = None
             /\ legacy' = [legacy EXCEPT !.phase = "deploying"]
             /\ Only(a, "rollbackLink")
    <3>1. loc' \in [Actor -> Locals]
      BY <2>1, <2>2 DEF TypeOK, Locals
    <3>2. UNCHANGED <<st, previous, releases, built, serving, validated>>
      BY <1>3 DEF RollbackBegin
    <3> QED
      BY <1>1, <2>2, <3>1, <3>2, OnlyType, RunIsActor DEF TypeOK
  <2>3. CASE /\ sha = None
             /\ legacy' = [legacy EXCEPT !.phase = "failed"]
             /\ RollbackReturn(a)
             /\ UNCHANGED current
    <3>1. UNCHANGED <<st, previous, releases, built, serving, validated>>
      BY <1>3 DEF RollbackBegin
    <3> QED
      BY <2>3, <3>1, RollbackReturnType DEF TypeOK
  <2>4. CASE RollbackReturn(a) /\ UNCHANGED <<legacy, current>>
    <3>1. UNCHANGED <<st, previous, releases, built, serving, validated>>
      BY <1>3 DEF RollbackBegin
    <3> QED
      BY <2>4, <3>1, RollbackReturnType DEF TypeOK
  <2> QED
    BY <1>3, <2>2, <2>3, <2>4 DEF RollbackBegin, sha
<1>4. CASE RollbackLink(a)
  <2>1. CASE Link(loc[a].dest) /\ Only(a, "rollbackRestart") /\ UNCHANGED loc
    BY <1>1, <1>2, <1>4, <2>1, OnlyType DEF RollbackLink, Link, TypeOK
  <2>2. CASE LinkFails /\ RollbackReturn(a)
    BY <1>4, <2>2, RollbackReturnType DEF RollbackLink, LinkFails, TypeOK
  <2> QED
    BY <1>4, <2>1, <2>2 DEF RollbackLink
<1>5. CASE RollbackRestart(a)
  <2> SUFFICES ASSUME serving' \in ShaOrNone,
                      UNCHANGED <<st, legacy, current, previous, releases,
                                  built, validated>>
               PROVE  TypeOK'
    BY <1>5 DEF RollbackRestart, TypeOK, ShaOrNone, disk
  <2>1. CASE Only(a, "rollbackState") /\ UNCHANGED loc
    BY <1>1, <2>1, OnlyType DEF TypeOK
  <2>2. CASE RollbackReturn(a)
    BY <2>2, RollbackReturnType DEF TypeOK
  <2> QED
    BY <1>5, <2>1, <2>2 DEF RollbackRestart
<1>6. CASE RollbackState(a)
  <2>1. PICK healthy, told, synced \in BOOLEAN :
          /\ healthy => serving # None
          /\ st' = SetDeployState(
                      [st EXCEPT
                         !.status = IF healthy /\ told /\ synced
                                    THEN "idle" ELSE "rolled_back",
                         !.targetSha = None, !.runId = None,
                         !.lockHolder = FALSE],
                      loc[a].dest, loc[a].dest)
          /\ legacy' = IF told
                      THEN [legacy EXCEPT
                              !.phase = IF healthy THEN "healthy" ELSE "failed"]
                      ELSE legacy
    BY <1>6 DEF RollbackState
  <2>2. [st EXCEPT !.status = IF healthy /\ told /\ synced
                              THEN "idle" ELSE "rolled_back",
                   !.targetSha = None, !.runId = None, !.lockHolder = FALSE]
          \in DeployState
    BY RunIsActor DEF TypeOK, DeployState, Status
  <2>3. st' \in DeployState
    BY <1>2, <2>1, <2>2, SetDeployStateType
  <2>5. legacy' \in [phase : {"healthy", "deploying", "failed"},
                     startedAt : StartedAge]
    BY <2>1 DEF TypeOK
  <2> QED
    BY <1>6, <2>3, <2>5, RollbackReturnType DEF RollbackState, TypeOK, disk
<1> QED
  BY <1>3, <1>4, <1>5, <1>6 DEF RollbackStep

LEMMA PipelineStartType ==
    ASSUME TypeOK, NEW a \in Run, PipelineStart(a)
    PROVE  TypeOK'
<1> USE RunIsActor
<1> DEFINE s == Synced(st)
           old == Preserved(s)
           good == IF s.lastGoodSha = None THEN old ELSE None
           t == [s EXCEPT !.status = "building", !.runId = a,
                          !.targetSha = loc[a].target, !.startedAt = "recent"]
<1>1. s \in DeployState
  BY SyncedType DEF TypeOK
<1> HIDE DEF s
<1>2. s.lastGoodSha \in ShaOrNone /\ s.activeSha \in ShaOrNone
  BY <1>1, StateFields
<1>3. old \in ShaOrNone
  BY <1>2, PreservedType
<1> HIDE DEF old
<1>4. good \in ShaOrNone
  BY <1>3
<1>5. loc[a].target \in ShaOrNone
  BY LocalFields
<1>6. t \in DeployState
  BY <1>1, <1>5 DEF DeployState, Status, StartedAge
<1> HIDE DEF good, t
<1>7. st' = SetDeployState(t, old, good)
  BY DEF PipelineStart, s, old, good, t
<1>8. st' \in DeployState
  BY <1>3, <1>4, <1>6, <1>7, SetDeployStateType
<1>9. loc' = [loc EXCEPT ![a].oldActive = old,
                         ![a].lastGoodSha = s.lastGoodSha,
                         ![a].activeSha = s.activeSha]
  BY DEF PipelineStart, s, old
<1>10. loc' \in [Actor -> Locals]
  <2> DEFINE l1 == [loc EXCEPT ![a].oldActive = old]
             l2 == [l1 EXCEPT ![a].lastGoodSha = s.lastGoodSha]
             l3 == [l2 EXCEPT ![a].activeSha = s.activeSha]
  <2>1. l1 \in [Actor -> Locals]
    BY <1>3 DEF TypeOK, Locals
  <2>2. loc' = l3
    BY <1>9
  <2> HIDE DEF l1
  <2>3. l2 \in [Actor -> Locals]
    BY <1>2, <2>1 DEF Locals
  <2> HIDE DEF l2
  <2>4. l3 \in [Actor -> Locals]
    BY <1>2, <2>3 DEF Locals
  <2> QED
    BY <2>2, <2>4
<1>11. pc' \in [Actor -> PC]
  <2>1. "build" \in PC /\ "failing" \in PC
    BY DEF PC
  <2> QED
    BY <2>1, GotoType DEF PipelineStart
<1>12. legacy' \in [phase : {"healthy", "deploying", "failed"},
                    startedAt : StartedAge]
  BY DEF PipelineStart, StartedAge, TypeOK
<1> QED
  BY <1>8, <1>10, <1>11, <1>12 DEF PipelineStart, TypeOK, disk, watcher, history

LEMMA FinishStepType ==
    ASSUME TypeOK, NEW a \in Run,
           PipelineFinish(a) \/ Publish(a) \/ PruneScan(a) \/ PruneRemove(a)
    PROVE  TypeOK'
<1> USE RunIsActor
<1>1. /\ "publish" \in PC /\ "failing" \in PC /\ "prune" \in PC
      /\ "remove" \in PC /\ "exit" \in PC /\ "cancelling" \in PC
  BY DEF PC
<1>2. /\ loc[a].target \in ShaOrNone /\ loc[a].oldActive \in ShaOrNone
      /\ loc[a].doomed \in SUBSET Sha
  BY LocalFields
<1>3. CASE PipelineFinish(a)
  <2> DEFINE t == [st EXCEPT !.status = "idle", !.blockedSha = None,
                             !.previousSha = loc[a].oldActive]
  <2>1. t \in DeployState
    BY <1>2 DEF TypeOK, DeployState, Status
  <2> HIDE DEF t
  <2>2. st' \in {SetDeployState(t, loc[a].target, loc[a].target), st}
    BY <1>3 DEF PipelineFinish, t
  <2>3. st' \in DeployState
    <3>1. SetDeployState(t, loc[a].target, loc[a].target) \in DeployState
      BY <1>2, <2>1, SetDeployStateType
    <3>2. st \in DeployState
      BY DEF TypeOK
    <3> QED
      BY <2>2, <3>1, <3>2
  <2> QED
    BY <1>1, <1>3, <2>3, OnlyType DEF PipelineFinish, TypeOK, disk
<1>4. CASE Publish(a)
  <2>1. legacy' \in [phase : {"healthy", "deploying", "failed"},
                     startedAt : StartedAge]
    BY <1>4 DEF Publish, TypeOK
  <2> QED
    BY <1>1, <1>4, <2>1, OnlyType DEF Publish, TypeOK, disk
<1>5. CASE PruneScan(a)
  <2>1. PICK kept \in SUBSET (releases \ Protected) :
          loc' = [loc EXCEPT ![a].doomed = (releases \ Protected) \ kept]
    BY <1>5 DEF PruneScan
  <2>2. (releases \ Protected) \ kept \in SUBSET Sha
    BY DEF TypeOK
  <2>3. loc' \in [Actor -> Locals]
    BY <2>1, <2>2 DEF TypeOK, Locals
  <2> QED
    BY <1>1, <1>5, <2>3, OnlyType DEF PruneScan, TypeOK, disk
<1>6. CASE PruneRemove(a)
  <2>1. st' \in DeployState
    BY <1>6, SyncedType DEF PruneRemove, TypeOK
  <2>2. PICK gone \in SUBSET loc[a].doomed :
          /\ releases' = releases \ gone
          /\ built' = built \ gone
          /\ validated' = validated \ gone
    BY <1>6 DEF PruneRemove
  <2> QED
    BY <1>1, <1>6, <2>1, <2>2, OnlyType DEF PruneRemove, TypeOK
<1> QED
  BY <1>3, <1>4, <1>5, <1>6

LEMMA PipelineCatchType ==
    ASSUME TypeOK, NEW a \in Run, PipelineCatch(a)
    PROVE  TypeOK'
<1> USE RunIsActor
<1> DEFINE old == ActiveAfterFailure(a)
<1>1. /\ loc[a].target \in ShaOrNone /\ loc[a].oldActive \in ShaOrNone
      /\ loc[a].lastGoodSha \in ShaOrNone /\ loc[a].activeSha \in ShaOrNone
  BY LocalFields
<1>2. old \in ShaOrNone
  BY <1>1, PreservedType, CoalesceType DEF ActiveAfterFailure
<1>3. /\ Coalesce(loc[a].lastGoodSha, old) \in ShaOrNone
      /\ Coalesce(old, loc[a].lastGoodSha) \in ShaOrNone
  BY <1>1, <1>2, CoalesceType
<1>4. [st EXCEPT !.status = "idle", !.lockHolder = FALSE, !.targetSha = None,
                 !.runId = None, !.startedAt = "none", !.blockedSha = None]
        \in DeployState
  BY DEF TypeOK, DeployState, Status, StartedAge
<1>5. [st EXCEPT !.status = "failed", !.targetSha = loc[a].target,
                 !.blockedSha = loc[a].target] \in DeployState
  BY <1>1 DEF TypeOK, DeployState, Status
<1> HIDE DEF old
<1>6. st' \in DeployState
  <2>1. CASE Cancelled(a)
    BY <1>2, <1>3, <1>4, <2>1, SetDeployStateType DEF PipelineCatch, old
  <2>2. CASE ~Cancelled(a)
    BY <1>2, <1>3, <1>5, <2>2, SetDeployStateType DEF PipelineCatch, old
  <2> QED
    BY <2>1, <2>2
<1>7. legacy' \in [phase : {"healthy", "deploying", "failed"},
                   startedAt : StartedAge]
  BY DEF PipelineCatch, Told, TypeOK
<1>8. pc' \in [Actor -> PC]
  BY GotoType DEF PipelineCatch, PC
<1> QED
  BY <1>6, <1>7, <1>8 DEF PipelineCatch, TypeOK, disk, watcher, history

LEMMA PipelineStepType ==
    ASSUME TypeOK, TargetOK, NEW a \in Run, PipelineStep(a)
    PROVE  TypeOK'
<1>1. CASE StartValidate(a) \/ StartPromote(a)
  <2>1. /\ "validating" \in Status /\ "promoting" \in Status
        /\ "validate" \in PC /\ "promote" \in PC
    BY DEF Status, PC
  <2> QED
    BY <1>1, <2>1, NextStageType, RunIsActor DEF StartValidate, StartPromote
<1> QED
  BY <1>1, PipelineStartType, BuildStepType, PromoteStepType, FinishStepType,
     PipelineCatchType DEF PipelineStep

\* The processes around the pipeline.

LEMMA LaunchType ==
    ASSUME TypeOK, NEW r \in Run, NEW sha \in Sha, Launch(r, sha)
    PROVE  /\ pc' \in [Actor -> PC] /\ loc' \in [Actor -> Locals]
           /\ cancelled' \in SUBSET Run
<1>1. pc' \in [Actor -> PC]
  BY GotoType, RunIsActor DEF Launch, PC
<1>2. loc' \in [Actor -> Locals]
  BY RunIsActor DEF Launch, TypeOK, Locals, ShaOrNone
<1> QED
  BY <1>1, <1>2 DEF Launch, TypeOK

LEMMA RecoverStateType ==
    ASSUME TypeOK, NEW force \in BOOLEAN, RecoverState(force)
    PROVE  /\ st' \in DeployState
           /\ legacy' \in [phase : {"healthy", "deploying", "failed"},
                           startedAt : StartedAge]
<1>1. st \in DeployState
  BY DEF TypeOK
<1>2. Preserved(st) \in ShaOrNone
  BY <1>1, StateFields, PreservedType
<1> DEFINE freed == [st EXCEPT !.lockHolder = FALSE, !.blockedSha = None]
           unblocked == [st EXCEPT !.blockedSha = None]
<1>3. freed \in DeployState /\ unblocked \in DeployState
  BY <1>1, RunIsActor DEF DeployState
<1> HIDE DEF freed, unblocked
<1>4. Reset(freed, ResetStatus(Preserved(st)), Preserved(st)) \in DeployState
  BY <1>2, <1>3, ResetStatusType, ResetType
<1>5. Save(unblocked) \in DeployState
  BY <1>3, SaveType
<1>6. Recovered(st, force) \in DeployState
  BY <1>1, <1>4, <1>5 DEF Recovered, freed, unblocked
<1>7. st' \in DeployState
  BY <1>6, SyncedType DEF RecoverState
<1>8. legacy' \in [phase : {"healthy", "deploying", "failed"},
                   startedAt : StartedAge]
  BY DEF RecoverState, TypeOK
<1> QED
  BY <1>7, <1>8

LEMMA WatchStepType ==
    ASSUME TypeOK, WatchStep
    PROVE  TypeOK'
<1>1. CASE WatchCheck
  <2>1. /\ st' \in DeployState
        /\ legacy' \in [phase : {"healthy", "deploying", "failed"},
                        startedAt : StartedAge]
    BY <1>1, RecoverStateType DEF WatchCheck, TypeOK
  <2> QED
    BY <1>1, <2>1 DEF WatchCheck, TypeOK, disk, history
<1>2. CASE WatchDecide
  <2> DEFINE s == Synced(st)
             u == Unblocked(s)
             b == [u EXCEPT !.blockedSha = u.targetSha]
  <2>1. s \in DeployState
    BY SyncedType DEF TypeOK
  <2> HIDE DEF s
  <2>2. u \in DeployState
    <3>1. [s EXCEPT !.blockedSha = None] \in DeployState
      BY <2>1, RunIsActor DEF DeployState
    <3> QED
      BY <2>1, <3>1, SaveType DEF Unblocked
  <2> HIDE DEF u
  <2>3. b \in DeployState
    BY <2>2 DEF DeployState
  <2> HIDE DEF b
  <2>4. Save(b) \in DeployState
    BY <2>3, SaveType
  <2>5. st' \in {s, u, Save(b)}
    BY <1>2 DEF WatchDecide, s, u, b
  <2>6. \/ UNCHANGED <<pc, loc, watchRun, cancelled>>
        \/ \E r \in Run : Launch(r, origin) /\ watchRun' = r
    BY <1>2 DEF WatchDecide
  <2>7. /\ pc' \in [Actor -> PC] /\ loc' \in [Actor -> Locals]
        /\ cancelled' \in SUBSET Run /\ watchRun' \in Run \cup {None}
    BY <2>6, LaunchType DEF TypeOK
  <2>8. st' \in DeployState
    BY <2>1, <2>2, <2>4, <2>5
  <2>9. /\ watch' = "asleep"
        /\ UNCHANGED <<flag, legacy, disk, serving, mutex, origin, cancel,
                       faults, validated>>
    BY <1>2 DEF WatchDecide
  <2> QED
    BY <2>7, <2>8, <2>9 DEF TypeOK, disk
<1> QED
  BY <1>1, <1>2 DEF WatchStep

LEMMA CancelFields ==
    ASSUME TypeOK
    PROVE  /\ cancel.runId \in Run \cup {None}
           /\ cancel.lastGoodSha \in ShaOrNone /\ cancel.activeSha \in ShaOrNone
           /\ NoCancel \in [pc : {"idle", "kill", "reset"},
                            runId : Run \cup {None},
                            lastGoodSha : ShaOrNone, activeSha : ShaOrNone]
BY RunIsActor DEF TypeOK, NoCancel

LEMMA CancelStepType ==
    ASSUME TypeOK, CancelStep
    PROVE  TypeOK'
<1>1. CASE CancelKill
  <2>1. /\ pc' \in [Actor -> PC] /\ loc' \in [Actor -> Locals]
        /\ mutex' \in Actor \cup {None} /\ watchRun' \in Run \cup {None}
    BY <1>1, EndType, RunIsActor DEF CancelKill, RunningRuns, TypeOK
  <2>2. cancel' \in [pc : {"idle", "kill", "reset"}, runId : Run \cup {None},
                     lastGoodSha : ShaOrNone, activeSha : ShaOrNone]
    BY <1>1 DEF CancelKill, TypeOK
  <2> QED
    BY <1>1, <2>1, <2>2 DEF CancelKill, TypeOK, disk, history
<1>2. CASE CancelReset
  <2> DEFINE good == Preserved(cancel)
             s == [st EXCEPT !.lockHolder = FALSE, !.blockedSha = None]
  <2>1. good \in ShaOrNone
    BY CancelFields, PreservedType
  <2> HIDE DEF good
  <2>2. s \in DeployState
    BY RunIsActor DEF TypeOK, DeployState
  <2> HIDE DEF s
  <2>3. "idle" \in Status
    BY DEF Status
  <2>4. st' = Reset(s, "idle", good)
    BY <1>2 DEF CancelReset, good, s
  <2>5. st' \in DeployState
    BY <2>1, <2>2, <2>3, <2>4, ResetType
  <2>6. legacy' \in [phase : {"healthy", "deploying", "failed"},
                     startedAt : StartedAge]
    BY <1>2 DEF CancelReset, TypeOK
  <2>7. cancelled' \in SUBSET Run
    BY <1>2, CancelFields DEF CancelReset, Reported, TypeOK
  <2> QED
    BY <1>2, <2>5, <2>6, <2>7, CancelFields
    DEF CancelReset, TypeOK, disk, watcher
<1> QED
  BY <1>1, <1>2 DEF CancelStep

LEMMA OperatorCommandType ==
    ASSUME TypeOK, OperatorCommand
    PROVE  TypeOK'
<1> USE RunIsActor
<1>1. CASE ConsoleRedeploy
  <2>1. /\ pc' \in [Actor -> PC] /\ loc' \in [Actor -> Locals]
        /\ cancelled' \in SUBSET Run
    BY <1>1, LaunchType, ShaAssumption DEF ConsoleRedeploy, TypeOK
  <2>2. st' \in DeployState
    BY <1>1 DEF ConsoleRedeploy, TypeOK, DeployState
  <2> QED
    BY <1>1, <2>1, <2>2 DEF ConsoleRedeploy, TypeOK, disk, watcher
<1>2. CASE ManualRollback
  <2>1. PICK sha \in RollbackShas \cup {None} :
          loc' = [loc EXCEPT ![Operator].target = sha]
    BY <1>2 DEF ManualRollback
  <2>2. sha \in ShaOrNone
    BY ShaAssumption DEF ShaOrNone
  <2>3. loc' \in [Actor -> Locals]
    BY <2>1, <2>2 DEF TypeOK, Locals
  <2>4. pc' \in [Actor -> PC]
    BY <1>2, GotoType DEF ManualRollback, PC
  <2> QED
    BY <1>2, <2>3, <2>4 DEF ManualRollback, Fault, TypeOK, disk, watcher, history
<1>3. CASE CancelBegin
  <2>1. /\ st.runId \in Run \cup {None} /\ st.lastGoodSha \in ShaOrNone
        /\ st.activeSha \in ShaOrNone
    BY StateFields DEF TypeOK
  <2>2. cancel' \in [pc : {"idle", "kill", "reset"}, runId : Run \cup {None},
                     lastGoodSha : ShaOrNone, activeSha : ShaOrNone]
    BY <1>3, <2>1 DEF CancelBegin, TypeOK
  <2>3. flag' \in Run \cup {None, "any"}
    BY <1>3, <2>1 DEF CancelBegin
  <2> QED
    BY <1>3, <2>2, <2>3 DEF CancelBegin, TypeOK, disk, watcher, history
<1>4. CASE OperatorRecover
  <2>1. /\ st' \in DeployState
        /\ legacy' \in [phase : {"healthy", "deploying", "failed"},
                        startedAt : StartedAge]
    BY <1>4, RecoverStateType DEF OperatorRecover
  <2> QED
    BY <1>4, <2>1 DEF OperatorRecover, TypeOK, disk, watcher, history
<1>5. CASE Bootstrap
  <2>1. st' \in DeployState
    BY <1>5, SyncedType DEF Bootstrap, TypeOK
  <2>2. st'.activeSha \in ShaOrNone
    BY <2>1, StateFields
  <2>3. loc' \in [Actor -> Locals]
    BY <1>5, <2>2 DEF Bootstrap, TypeOK, Locals
  <2>4. pc' \in [Actor -> PC]
    BY <1>5, GotoType DEF Bootstrap, PC
  <2> QED
    BY <1>5, <2>1, <2>3, <2>4 DEF Bootstrap, TypeOK, disk, watcher, history
<1> QED
  BY <1>1, <1>2, <1>3, <1>4, <1>5 DEF OperatorCommand

LEMMA BootStepType ==
    ASSUME TypeOK, BootStep
    PROVE  TypeOK'
<1> USE RunIsActor
<1>1. "bootStart" \in PC /\ "exit" \in PC
  BY DEF PC
<1>2. loc[Boot].activeSha \in ShaOrNone
  BY LocalFields
<1>3. CASE BootRepair
  <2>1. pc' \in [Actor -> PC]
    BY <1>1, <1>3, GotoType DEF BootRepair
  <2>2. current' \in ShaOrNone
    BY <1>2, <1>3 DEF BootRepair, Link, LinkFails, TypeOK
  <2> QED
    BY <1>3, <2>1, <2>2 DEF BootRepair, TypeOK, watcher, history
<1>4. CASE BootStart
  BY <1>1, <1>4, GotoType DEF BootStart, TypeOK, disk, watcher, history
<1> QED
  BY <1>3, <1>4 DEF BootStep

LEMMA EnvironmentType ==
    ASSUME TypeOK, Environment
    PROVE  TypeOK'
<1>1. CASE Push
  BY <1>1 DEF Push, TypeOK, disk, watcher, history
<1>2. CASE AgeUpdated
  <2>1. st' \in DeployState
    BY <1>2 DEF AgeUpdated, TypeOK, DeployState, UpdatedAge
  <2> QED
    BY <1>2, <2>1 DEF AgeUpdated, TypeOK, disk, watcher, history
<1>3. CASE AgeStarted
  <2>1. st' \in DeployState
    BY <1>3 DEF AgeStarted, Grown, TypeOK, DeployState, StartedAge
  <2>2. legacy' \in [phase : {"healthy", "deploying", "failed"},
                     startedAt : StartedAge]
    BY <1>3 DEF AgeStarted, Grown, TypeOK, StartedAge
  <2> QED
    BY <1>3, <2>1, <2>2 DEF AgeStarted, TypeOK, disk, watcher, history
<1>4. ASSUME NEW a \in Actor, Crash(a)
      PROVE  TypeOK'
  BY <1>4, EndType DEF Crash, Fault, TypeOK, disk, history
<1>5. CASE CancelCrash
  BY <1>5, CancelFields DEF CancelCrash, Fault, TypeOK, disk, watcher, history
<1>6. CASE Reboot
  <2>1. NoLocals \in Locals /\ "off" \in PC
    BY RunIsActor DEF NoLocals, Locals, PC
  <2>2. pc' \in [Actor -> PC] /\ loc' \in [Actor -> Locals]
    BY <1>6, <2>1 DEF Reboot
  <2> QED
    BY <1>6, <2>2, CancelFields, RunIsActor
    DEF Reboot, Fault, TypeOK, disk, history
<1> QED
  BY <1>1, <1>2, <1>3, <1>4, <1>5, <1>6 DEF Environment

LEMMA TypeStep ==
    ASSUME TypeOK, TargetOK, [Next]_vars
    PROVE  TypeOK'
<1>1. CASE UNCHANGED vars
  BY <1>1 DEF vars, disk, watcher, history, TypeOK
<1>2. ASSUME NEW a \in Actor, ActorStep(a)
      PROVE  TypeOK'
  BY <1>2, LockStepType, PipelineStepType, RollbackStepType, BootStepType
  DEF ActorStep
<1> QED
  BY <1>1, <1>2, WatchStepType, CancelStepType, OperatorCommandType,
     EnvironmentType DEF Next

-----------------------------------------------------------------------------
\* What a step of one process leaves alone.

\* A process moves no other process, and keeps its commit while it runs.
Alone(a) ==
    /\ \A b \in Actor \ {a} : pc'[b] = pc[b] /\ loc'[b] = loc[b]
    /\ pc'[a] = "off" \/ loc'[a].target = loc[a].target

LEMMA EndAlone ==
    ASSUME TypeOK, NEW a \in Actor, End(a)
    PROVE  Alone(a) /\ pc'[a] = "off"
BY DEF End, Goto, Alone, TypeOK

LEMMA GotoAlone ==
    ASSUME TypeOK, NEW a \in Actor, NEW label, Goto(a, label), UNCHANGED loc
    PROVE  Alone(a) /\ pc'[a] = label
BY DEF Goto, Alone, TypeOK

LEMMA OnlyAlone ==
    ASSUME TypeOK, NEW a \in Actor, NEW label, Only(a, label), UNCHANGED loc
    PROVE  Alone(a) /\ pc'[a] = label /\ mutex' = mutex
BY DEF Only, Goto, Alone, TypeOK

\* How a process's step may change the owner of the mutex: not at all, and then
\* it does not pass the lock; by taking it when it is free; or by giving it up.
LockMove(a) ==
    \/ mutex' = mutex /\ (Owning(a)' => Owning(a))
    \/ mutex = None /\ mutex' = a
    \/ mutex' = None /\ ~Owning(a)' /\ (Owning(a) \/ mutex = a)

LEMMA EndLockMove ==
    ASSUME TypeOK, NEW a \in Actor, End(a)
    PROVE  LockMove(a)
<1>1. ~Owning(a)'
  BY EndAlone DEF Owning, Unlocked
<1> QED
  BY <1>1 DEF LockMove, End

LEMMA LockStepMove ==
    ASSUME TypeOK, OperatorOK, NEW a \in Actor, LockStep(a)
    PROVE  Alone(a) /\ LockMove(a)
<1>1. CASE LockCheck(a)
  <2>1. CASE End(a)
    BY <2>1, EndAlone, EndLockMove
  <2>2. CASE Goto(a, "acquire") /\ UNCHANGED <<loc, mutex, watchRun>>
    BY <2>2, GotoAlone DEF LockMove, Owning, Unlocked
  <2> QED
    BY <1>1, <2>1, <2>2 DEF LockCheck
<1>2. CASE LockAcquire(a)
  <2>1. CASE mutex = None /\ mutex' = a /\ UNCHANGED loc
             /\ Goto(a, IF a = Boot THEN "repair" ELSE "init")
    BY <2>1, GotoAlone DEF LockMove
  <2>2. CASE End(a)
    BY <2>2, EndAlone, EndLockMove
  <2> QED
    BY <1>2, <2>1, <2>2 DEF LockAcquire
<1>3. CASE LockRelease(a)
  <2>1. Alone(a) /\ pc'[a] = "clearHolder"
    BY <1>3, GotoAlone DEF LockRelease
  <2>2. a # Operator /\ pc[a] = "exit" /\ mutex' = None
    BY <1>3 DEF LockRelease, OperatorOK
  <2> QED
    BY <2>1, <2>2 DEF LockMove, Owning, Unlocked
<1>4. CASE LockClear(a)
  BY <1>4, EndAlone, EndLockMove DEF LockClear
<1> QED
  BY <1>1, <1>2, <1>3, <1>4 DEF LockStep

\* A deploy at work in its scripts owns the mutex and leaves it alone.
LEMMA PipelineStepMove ==
    ASSUME TypeOK, NEW a \in Run, PipelineStep(a)
    PROVE  Alone(a) /\ mutex' = mutex /\ Owning(a)
<1> USE RunIsActor
<1>1. a # Operator
  BY ActorAssumption
<1>2. CASE PipelineStart(a)
  BY <1>1, <1>2
  DEF PipelineStart, Goto, Alone, Owning, Unlocked, TypeOK, Locals
<1>3. CASE BuildSkip(a) \/ BuildCheckout(a) \/ BuildCompile(a)
  BY <1>1, <1>3, OnlyAlone
  DEF BuildSkip, BuildCheckout, BuildCompile, Owning, Unlocked
<1>4. CASE StartValidate(a) \/ Validate(a) \/ StartPromote(a)
  BY <1>1, <1>4, OnlyAlone
  DEF StartValidate, Validate, StartPromote, NextStage, Owning, Unlocked
<1>5. CASE PromoteBegin(a)
  BY <1>1, <1>5
  DEF PromoteBegin, Only, Goto, Alone, Owning, Unlocked, TypeOK, Locals
<1>6. CASE PromoteLink(a) \/ PromoteMigrate(a)
  BY <1>1, <1>6, OnlyAlone DEF PromoteLink, PromoteMigrate, Owning, Unlocked
<1>7. CASE PromoteRestore(a) \/ RestoreLink(a)
  BY <1>1, <1>7, OnlyAlone DEF PromoteRestore, RestoreLink, Owning, Unlocked
<1>8. CASE PromoteStart(a) \/ PromoteHealth(a)
  BY <1>1, <1>8, OnlyAlone DEF PromoteStart, PromoteHealth, Owning, Unlocked
<1>9. CASE PipelineFinish(a) \/ Publish(a) \/ PruneRemove(a)
  BY <1>1, <1>9, OnlyAlone
  DEF PipelineFinish, Publish, PruneRemove, Owning, Unlocked
<1>10. CASE PruneScan(a)
  BY <1>1, <1>10
  DEF PruneScan, Only, Goto, Alone, Owning, Unlocked, TypeOK, Locals
<1>11. CASE PipelineCatch(a)
  BY <1>1, <1>11, GotoAlone DEF PipelineCatch, Owning, Unlocked
<1> QED
  BY <1>2, <1>3, <1>4, <1>5, <1>6, <1>7, <1>8, <1>9, <1>10, <1>11
  DEF PipelineStep

LEMMA RollbackReturnMove ==
    ASSUME TypeOK, NEW a \in Actor, RollbackReturn(a)
    PROVE  /\ Alone(a) /\ pc'[a] = IF a = Operator THEN "off" ELSE "failing"
           /\ a # Operator => mutex' = mutex
           /\ a = Operator => LockMove(a)
<1>1. CASE a = Operator
  BY <1>1, EndAlone, EndLockMove DEF RollbackReturn
<1>2. CASE a # Operator
  BY <1>2, OnlyAlone DEF RollbackReturn
<1> QED
  BY <1>1, <1>2

\* The rollback takes no lock: as a part of a promote it runs under the
\* deploy's, and by hand under none.
LEMMA RollbackStepMove ==
    ASSUME TypeOK, OperatorOK, NEW a \in Actor, RollbackStep(a)
    PROVE  /\ Alone(a) /\ LockMove(a)
           /\ a # Operator => mutex' = mutex /\ Owning(a)
           /\ OperatorOK'
<1>1. a = Operator => ~Owning(a) /\ ~Owning(a)'
  BY DEF Owning
<1>2. /\ Alone(a) /\ (a # Operator => mutex' = mutex /\ Owning(a))
      /\ a = Operator => mutex' = mutex \/ LockMove(a)
      /\ a = Operator => OperatorOK'
  <2>1. CASE RollbackBegin(a)
    <3>1. CASE RollbackReturn(a)
      BY <2>1, <3>1, RollbackReturnMove
      DEF RollbackBegin, Owning, Unlocked, OperatorOK
    <3>2. CASE /\ \E sha : loc' = [loc EXCEPT ![a].dest = sha]
               /\ Only(a, "rollbackLink")
      BY <2>1, <3>2 DEF RollbackBegin, Only, Goto, Alone, Owning, Unlocked,
                        OperatorOK, TypeOK, Locals
    <3> QED
      BY <2>1, <3>1, <3>2 DEF RollbackBegin
  <2>2. CASE RollbackLink(a)
    <3>1. CASE RollbackReturn(a)
      BY <2>2, <3>1, RollbackReturnMove
      DEF RollbackLink, Owning, Unlocked, OperatorOK
    <3>2. CASE Only(a, "rollbackRestart") /\ UNCHANGED loc
      BY <2>2, <3>2, OnlyAlone DEF RollbackLink, Owning, Unlocked, OperatorOK
    <3> QED
      BY <2>2, <3>1, <3>2 DEF RollbackLink
  <2>3. CASE RollbackRestart(a)
    <3>1. CASE RollbackReturn(a)
      BY <2>3, <3>1, RollbackReturnMove
      DEF RollbackRestart, Owning, Unlocked, OperatorOK
    <3>2. CASE Only(a, "rollbackState") /\ UNCHANGED loc
      BY <2>3, <3>2, OnlyAlone DEF RollbackRestart, Owning, Unlocked, OperatorOK
    <3> QED
      BY <2>3, <3>1, <3>2 DEF RollbackRestart
  <2>4. CASE RollbackState(a)
    BY <2>4, RollbackReturnMove DEF RollbackState, Owning, Unlocked, OperatorOK
  <2> QED
    BY <2>1, <2>2, <2>3, <2>4 DEF RollbackStep
<1>3. a # Operator => OperatorOK'
  BY <1>2, RunIsActor DEF Alone, OperatorOK
<1> QED
  BY <1>1, <1>2, <1>3 DEF LockMove

LEMMA BootStepMove ==
    ASSUME TypeOK, BootStep
    PROVE  Alone(Boot) /\ mutex' = mutex /\ Owning(Boot)
<1>1. Boot # Operator /\ Boot \in Actor
  BY ActorAssumption, RunIsActor
<1>2. CASE BootRepair
  BY <1>1, <1>2, GotoAlone DEF BootRepair, Owning, Unlocked
<1>3. CASE BootStart
  BY <1>1, <1>3, GotoAlone DEF BootStart, Owning, Unlocked
<1> QED
  BY <1>2, <1>3 DEF BootStep

LEMMA ActorStepMove ==
    ASSUME TypeOK, OperatorOK, NEW a \in Actor, ActorStep(a)
    PROVE  Alone(a) /\ LockMove(a) /\ pc[a] # "off" /\ OperatorOK'
<1> USE RunIsActor
<1>1. CASE LockStep(a)
  <2>1. pc[a] # "off" /\ a # Operator
    BY <1>1 DEF LockStep, LockCheck, LockAcquire, LockRelease, LockClear,
                OperatorOK
  <2> QED
    BY <1>1, <2>1, LockStepMove DEF Alone, OperatorOK
<1>2. CASE a \in Run /\ PipelineStep(a)
  BY <1>2, PipelineStepMove, ActorAssumption
  DEF Alone, OperatorOK, LockMove, Owning, Unlocked
<1>3. CASE RollbackStep(a)
  <2>1. pc[a] # "off"
    BY <1>3 DEF RollbackStep, RollbackBegin, RollbackLink, RollbackRestart,
                RollbackState
  <2> QED
    BY <1>3, <2>1, RollbackStepMove
<1>4. CASE a = Boot /\ BootStep
  BY <1>4, BootStepMove, ActorAssumption
  DEF Alone, OperatorOK, LockMove, Owning, Unlocked
<1> QED
  BY <1>1, <1>2, <1>3, <1>4 DEF ActorStep

-----------------------------------------------------------------------------
\* The invariant, for a step of a process and for everything around it.

LEMMA ActorStepInv ==
    ASSUME IInv, NEW a \in Actor, ActorStep(a)
    PROVE  TargetOK' /\ OperatorOK' /\ LockOK'
<1>1. Alone(a) /\ LockMove(a) /\ pc[a] # "off" /\ OperatorOK'
  BY ActorStepMove DEF IInv
<1>2. TargetOK'
  <2> SUFFICES ASSUME NEW r \in Run, Running(r)'
               PROVE  loc'[r].target \in Sha
    BY DEF TargetOK
  <2> QED
    BY <1>1, RunIsActor DEF Alone, Running, TargetOK, IInv
<1>3. LockOK'
  <2> SUFFICES ASSUME NEW b \in Actor, Owning(b)'
               PROVE  mutex' = b
    BY DEF LockOK
  <2>1. b # a => Owning(b)
    BY <1>1 DEF Alone, Owning
  <2>2. Owning(b) => mutex = b
    BY DEF LockOK, IInv
  <2>3. Owning(a) => mutex = a
    BY DEF LockOK, IInv
  <2>4. None # b /\ None # a
    BY ActorAssumption
  <2> QED
    BY <1>1, <2>1, <2>2, <2>3, <2>4 DEF LockMove
<1> QED
  BY <1>1, <1>2, <1>3

\* A process that ends, by itself or killed.
LEMMA EndInv ==
    ASSUME IInv, NEW a \in Actor, End(a)
    PROVE  TargetOK' /\ OperatorOK' /\ LockOK'
<1>1. Alone(a) /\ pc'[a] = "off"
  BY EndAlone DEF IInv
<1>2. TargetOK'
  BY <1>1, RunIsActor DEF Alone, Running, TargetOK, IInv
<1>3. OperatorOK'
  BY <1>1, RunIsActor DEF Alone, OperatorOK, IInv
<1>4. LockOK'
  BY <1>1 DEF Alone, Owning, Unlocked, LockOK, IInv, End
<1> QED
  BY <1>2, <1>3, <1>4

\* A process that starts: a deploy of a commit, the bootstrap, a rollback.
LEMMA StartInv ==
    ASSUME IInv, NEW a \in Actor, NEW label \in {"enter", "rollback"},
           Goto(a, label), UNCHANGED mutex,
           \A b \in Actor \ {a} : loc'[b] = loc[b],
           a \in Run => loc'[a].target \in Sha,
           (a = Operator) <=> (label = "rollback")
    PROVE  TargetOK' /\ OperatorOK' /\ LockOK'
<1>1. /\ pc'[a] = label
      /\ \A b \in Actor \ {a} : pc'[b] = pc[b]
  BY DEF Goto, IInv, TypeOK
<1>2. TargetOK'
  BY <1>1, RunIsActor DEF Running, TargetOK, IInv
<1>3. OperatorOK'
  BY <1>1, RunIsActor DEF OperatorOK, IInv
<1>4. LockOK'
  BY <1>1 DEF Owning, Unlocked, LockOK, IInv
<1> QED
  BY <1>2, <1>3, <1>4

\* Whatever moves no process and leaves the mutex alone.
LEMMA StutterInv ==
    ASSUME IInv, UNCHANGED <<pc, loc, mutex>>
    PROVE  TargetOK' /\ OperatorOK' /\ LockOK'
BY DEF IInv, TargetOK, OperatorOK, LockOK, Owning, Running

LEMMA LaunchInv ==
    ASSUME IInv, NEW r \in Run, NEW sha \in Sha, Launch(r, sha), UNCHANGED mutex
    PROVE  TargetOK' /\ OperatorOK' /\ LockOK'
<1>1. /\ Goto(r, "enter") /\ loc'[r].target = sha
      /\ \A b \in Actor \ {r} : loc'[b] = loc[b]
  BY RunIsActor DEF Launch, IInv, TypeOK, Locals
<1>2. r \in Actor /\ r # Operator
  BY RunIsActor, ActorAssumption
<1> QED
  BY <1>1, <1>2, StartInv

LEMMA AroundInv ==
    ASSUME IInv, WatchStep \/ CancelStep \/ OperatorCommand \/ Environment
    PROVE  TargetOK' /\ OperatorOK' /\ LockOK'
<1> USE RunIsActor
<1>1. CASE WatchStep
  <2>1. \/ UNCHANGED <<pc, loc, mutex>>
        \/ \E r \in Run : Launch(r, origin) /\ UNCHANGED mutex
    BY <1>1 DEF WatchStep, WatchCheck, WatchDecide
  <2> QED
    BY <2>1, StutterInv, LaunchInv DEF IInv, TypeOK
<1>2. CASE CancelStep
  <2>1. \/ UNCHANGED <<pc, loc, mutex>>
        \/ cancel.runId \in Run /\ End(cancel.runId)
    BY <1>2 DEF CancelStep, CancelKill, CancelReset, RunningRuns
  <2> QED
    BY <2>1, StutterInv, EndInv
<1>3. CASE ConsoleRedeploy
  <2>1. \E r \in Run, sha \in Sha : Launch(r, sha) /\ UNCHANGED mutex
    BY <1>3, ShaAssumption DEF ConsoleRedeploy, IInv, TypeOK
  <2> QED
    BY <2>1, LaunchInv
<1>4. CASE ManualRollback
  <2>1. /\ Goto(Operator, "rollback") /\ UNCHANGED mutex
        /\ \A b \in Actor \ {Operator} : loc'[b] = loc[b]
    BY <1>4 DEF ManualRollback, IInv, TypeOK
  <2>2. Operator \notin Run
    BY ActorAssumption
  <2> QED
    BY <2>1, <2>2, StartInv
<1>5. CASE Bootstrap
  <2>1. /\ Goto(Boot, "enter") /\ UNCHANGED mutex
        /\ \A b \in Actor \ {Boot} : loc'[b] = loc[b]
    BY <1>5 DEF Bootstrap, IInv, TypeOK
  <2>2. Boot \notin Run /\ Boot # Operator
    BY ActorAssumption
  <2> QED
    BY <2>1, <2>2, StartInv
<1>6. CASE CancelBegin \/ OperatorRecover
  BY <1>6, StutterInv DEF CancelBegin, OperatorRecover
<1>7. CASE Push \/ AgeUpdated \/ AgeStarted \/ CancelCrash
  BY <1>7, StutterInv DEF Push, AgeUpdated, AgeStarted, CancelCrash
<1>8. ASSUME NEW a \in Actor, Crash(a)
      PROVE  TargetOK' /\ OperatorOK' /\ LockOK'
  BY <1>8, EndInv DEF Crash
<1>9. CASE Reboot
  BY <1>9 DEF Reboot, TargetOK, OperatorOK, LockOK, Running, Owning, Unlocked
<1> QED
  BY <1>1, <1>2, <1>3, <1>4, <1>5, <1>6, <1>7, <1>8, <1>9
  DEF OperatorCommand, Environment

LEMMA InvInit ==
    ASSUME Init
    PROVE  IInv
<1>1. TypeOK
  BY TypeInit
<1>2. \A a \in Actor : pc[a] = "off"
  BY DEF Init
<1> QED
  BY <1>1, <1>2, RunIsActor
  DEF IInv, TargetOK, OperatorOK, LockOK, Running, Owning, Unlocked

LEMMA InvStep ==
    ASSUME IInv, [Next]_vars
    PROVE  IInv'
<1>1. TypeOK'
  BY TypeStep DEF IInv
<1>2. TargetOK' /\ OperatorOK' /\ LockOK'
  <2>1. CASE UNCHANGED vars
    BY <2>1, StutterInv DEF vars
  <2>2. CASE Next
    BY <2>2, ActorStepInv, AroundInv DEF Next
  <2> QED
    BY <2>1, <2>2
<1> QED
  BY <1>1, <1>2 DEF IInv

THEOREM Invariance == Spec => []IInv
<1>1. Init => IInv
  BY InvInit
<1>2. IInv /\ [Next]_vars => IInv'
  BY InvStep
<1> QED
  BY <1>1, <1>2, PTL DEF Spec

-----------------------------------------------------------------------------
\* Every variable keeps its type: the state file, the junctions and the scripts'
\* variables stay well-formed through resets, rollbacks, kills and reboots.
THEOREM TypeCorrect == Spec => []TypeOK
<1>1. IInv => TypeOK
  BY DEF IInv
<1> QED
  BY <1>1, Invariance, PTL

\* One deploy or bootstrap works in the environment at a time, whatever resets
\* the state file of a live one, kills it or cancels it: what protects it is
\* the mutex, never the status.
THEOREM MutualExclusion == Spec => []OneAtATime
<1>1. IInv => OneAtATime
  BY DEF IInv, LockOK, OneAtATime
<1> QED
  BY <1>1, Invariance, PTL

-----------------------------------------------------------------------------
\* What was validated stays built and validated until its deploy is through.

LEMMA PastValidationOwns ==
    ASSUME IInv, NEW r \in Run, PastValidation(r)
    PROVE  Owning(r) /\ mutex = r
<1>1. Owning(r)
  BY ActorAssumption DEF PastValidation, Owning, Unlocked
<1> QED
  BY <1>1, RunIsActor DEF IInv, LockOK

\* Only a deploy that owns the mutex builds, validates or prunes.
LEMMA OthersKeepArtefacts ==
    ASSUME IInv, NEW a \in Actor, ActorStep(a), ~Owning(a)
    PROVE  built' = built /\ validated' = validated
<1>1. CASE LockStep(a)
  BY <1>1 DEF LockStep, LockCheck, LockAcquire, LockRelease, LockClear, disk,
              history
<1>2. CASE a \in Run /\ PipelineStep(a)
  BY <1>2, PipelineStepMove DEF IInv
<1>3. CASE RollbackStep(a)
  BY <1>3 DEF RollbackStep, RollbackBegin, RollbackLink, RollbackRestart,
              RollbackState, disk
<1>4. CASE a = Boot /\ BootStep
  BY <1>4 DEF BootStep, BootRepair, BootStart, disk, history
<1> QED
  BY <1>1, <1>2, <1>3, <1>4 DEF ActorStep

LEMMA OwnStepValidated ==
    ASSUME IInv, NEW r \in Run, PromotesValidated, PipelineStep(r),
           PastValidation(r)'
    PROVE  loc'[r].target \in validated' \cap built'
<1>1. Alone(r)
  BY PipelineStepMove DEF IInv
<1>2. pc'[r] # "off"
  BY DEF PastValidation
<1>3. loc'[r].target = loc[r].target
  BY <1>1, <1>2 DEF Alone
<1>4. CASE Validate(r)
  BY <1>3, <1>4, OnlyAlone, RunIsActor DEF Validate, PastValidation, IInv, disk
<1>5. CASE ~Validate(r) /\ PastValidation(r)
  <2>1. loc[r].target \in validated \cap built
    BY <1>5 DEF PromotesValidated
  <2>2. ~PruneRemove(r)
    BY <1>2, OnlyAlone, RunIsActor DEF PruneRemove, PastValidation, IInv
  <2>3. validated' = validated /\ built' = built
    BY <1>5, <2>2
    DEF PipelineStep, PipelineStart, BuildSkip, BuildCheckout, BuildCompile,
        StartValidate, StartPromote, NextStage, PromoteBegin, PromoteLink,
        PromoteMigrate, PromoteRestore, RestoreLink, PromoteStart,
        PromoteHealth, PipelineFinish, Publish, PruneScan, PipelineCatch,
        PastValidation, disk, history
  <2> QED
    BY <1>3, <2>1, <2>3
<1>6. CASE ~Validate(r) /\ ~PastValidation(r)
  <2>1. \A label : Goto(r, label) => pc'[r] = label
    BY RunIsActor DEF Goto, IInv, TypeOK
  <2> QED
    BY <1>6, <2>1
    DEF PipelineStep, PipelineStart, BuildSkip, BuildCheckout, BuildCompile,
        StartValidate, StartPromote, NextStage, PromoteBegin, PromoteLink,
        PromoteMigrate, PromoteRestore, RestoreLink, PromoteStart,
        PromoteHealth, PipelineFinish, Publish, PruneScan, PruneRemove,
        PipelineCatch, PastValidation, Only
<1> QED
  BY <1>4, <1>5, <1>6

\* Nothing around the processes touches an artefact, or moves a process that
\* runs anywhere but to its end.
LEMMA AroundKeeps ==
    ASSUME IInv, WatchStep \/ CancelStep \/ OperatorCommand \/ Environment
    PROVE  /\ built' = built /\ validated' = validated
           /\ \A a \in Actor : pc[a] # "off"
                => pc'[a] = "off" \/ (pc'[a] = pc[a] /\ loc'[a] = loc[a])
<1> USE RunIsActor
<1>1. CASE WatchStep
  BY <1>1 DEF WatchStep, WatchCheck, WatchDecide, Launch, Fresh, Running, Goto,
              IInv, TypeOK, disk, history
<1>2. CASE CancelStep
  BY <1>2 DEF CancelStep, CancelKill, CancelReset, RunningRuns, End, Goto,
              IInv, TypeOK, disk, history
<1>3. CASE ConsoleRedeploy
  BY <1>3 DEF ConsoleRedeploy, Launch, Fresh, Running, Goto, IInv, TypeOK, disk
<1>4. CASE ManualRollback
  BY <1>4 DEF ManualRollback, Running, Goto, IInv, TypeOK, disk, history
<1>5. CASE CancelBegin \/ OperatorRecover
  BY <1>5 DEF CancelBegin, OperatorRecover, disk, history
<1>6. CASE Bootstrap
  BY <1>6 DEF Bootstrap, Running, Goto, IInv, TypeOK, disk, history
<1>7. CASE Push \/ AgeUpdated \/ AgeStarted \/ CancelCrash
  BY <1>7 DEF Push, AgeUpdated, AgeStarted, CancelCrash, disk, history
<1>8. ASSUME NEW a \in Actor, Crash(a)
      PROVE  /\ built' = built /\ validated' = validated
             /\ \A b \in Actor : pc[b] # "off"
                  => pc'[b] = "off" \/ (pc'[b] = pc[b] /\ loc'[b] = loc[b])
  BY <1>8 DEF Crash, End, Goto, IInv, TypeOK, disk, history
<1>9. CASE Reboot
  BY <1>9 DEF Reboot, disk, history
<1> QED
  BY <1>1, <1>2, <1>3, <1>4, <1>5, <1>6, <1>7, <1>8, <1>9
  DEF OperatorCommand, Environment

\* Nothing around the processes starts a deploy anywhere but at its lock.
LEMMA AroundStarts ==
    ASSUME IInv, WatchStep \/ CancelStep \/ OperatorCommand \/ Environment,
           NEW r \in Run, pc[r] = "off"
    PROVE  pc'[r] \in {"off", "enter"}
<1> USE RunIsActor, ActorAssumption
<1>1. CASE WatchStep
  BY <1>1 DEF WatchStep, WatchCheck, WatchDecide, Launch, Goto, IInv, TypeOK
<1>2. CASE CancelStep
  BY <1>2 DEF CancelStep, CancelKill, CancelReset, End, Goto, IInv, TypeOK
<1>3. CASE OperatorCommand
  BY <1>3 DEF OperatorCommand, ConsoleRedeploy, Launch, ManualRollback,
              CancelBegin, OperatorRecover, Bootstrap, Goto, IInv, TypeOK
<1>4. CASE Environment
  BY <1>4 DEF Environment, Push, AgeUpdated, AgeStarted, CancelCrash, Crash,
              Reboot, End, Goto, IInv, TypeOK
<1> QED
  BY <1>1, <1>2, <1>3, <1>4

LEMMA ValidatedStep ==
    ASSUME IInv, PromotesValidated, [Next]_vars
    PROVE  PromotesValidated'
<1> SUFFICES ASSUME NEW r \in Run, PastValidation(r)'
             PROVE  loc'[r].target \in validated' \cap built'
  BY DEF PromotesValidated
<1>1. PastValidation(r) => loc[r].target \in validated \cap built
  BY DEF PromotesValidated
<1>2. CASE UNCHANGED vars
  BY <1>1, <1>2 DEF vars, disk, history, PastValidation
<1>3. CASE WatchStep \/ CancelStep \/ OperatorCommand \/ Environment
  <2>1. pc[r] # "off"
    BY <1>3, AroundStarts DEF PastValidation
  <2>2. pc'[r] # "off"
    BY DEF PastValidation
  <2>3. pc'[r] = pc[r] /\ loc'[r] = loc[r]
    BY <1>3, <2>1, <2>2, AroundKeeps, RunIsActor
  <2> QED
    BY <1>1, <1>3, <2>3, AroundKeeps DEF PastValidation
<1>4. ASSUME NEW a \in Actor, ActorStep(a), a # r
      PROVE  loc'[r].target \in validated' \cap built'
  <2>1. pc'[r] = pc[r] /\ loc'[r] = loc[r]
    BY <1>4, ActorStepMove, RunIsActor DEF Alone, IInv
  <2>2. PastValidation(r)
    BY <2>1 DEF PastValidation
  <2>3. ~Owning(a)
    BY <1>4, <2>2, PastValidationOwns DEF IInv, LockOK
  <2> QED
    BY <1>1, <1>4, <2>1, <2>2, <2>3, OthersKeepArtefacts
<1>5. CASE ActorStep(r)
  <2>1. CASE PipelineStep(r)
    BY <2>1, OwnStepValidated
  <2>2. CASE LockStep(r)
    BY <2>2, RunIsActor
    DEF LockStep, LockCheck, LockAcquire, LockRelease, LockClear, End, Goto,
        PastValidation, IInv, TypeOK
  <2>3. CASE RollbackStep(r)
    BY <2>3, RollbackReturnMove, RunIsActor
    DEF RollbackStep, RollbackBegin, RollbackLink, RollbackRestart,
        RollbackState, Only, Goto, PastValidation, IInv, TypeOK
  <2> QED
    BY <1>5, <2>1, <2>2, <2>3, ActorAssumption DEF ActorStep
<1> QED
  BY <1>2, <1>3, <1>4, <1>5 DEF Next

\* A deploy promotes, starts and publishes only what it validated: no other
\* deploy, prune, rollback, kill or reset takes it away meanwhile.
THEOREM ValidatedStays == Spec => []PromotesValidated
<1>1. Init => PromotesValidated
  BY RunIsActor DEF Init, PromotesValidated, PastValidation
<1>2. IInv /\ PromotesValidated /\ [Next]_vars => PromotesValidated'
  BY ValidatedStep
<1> QED
  BY <1>1, <1>2, Invariance, PTL DEF Spec

-----------------------------------------------------------------------------
\* Production before promote_release.

LEMMA ProductionStepKept ==
    ASSUME IInv, "rebuild" \notin Disturbances, [Next]_vars
    PROVE  ProductionStep
<1> SUFFICES ASSUME NEW r \in Run,
                    pc[r] \in {"build", "compile", "built", "validate",
                               "validated"},
                    pc'[r] \notin {pc[r], "off"}
             PROVE  /\ serving \in built => serving \in built'
                    /\ current' = current /\ serving' = serving
  BY DEF ProductionStep
<1> USE RunIsActor
<1>1. ActorStep(r)
  <2>1. ~UNCHANGED vars
    BY DEF vars
  <2>2. ~(WatchStep \/ CancelStep \/ OperatorCommand \/ Environment)
    BY AroundKeeps
  <2>3. \A a \in Actor : ActorStep(a) => a = r
    BY ActorStepMove DEF Alone, IInv
  <2> QED
    BY <2>1, <2>2, <2>3 DEF Next
<1>2. PipelineStep(r)
  BY <1>1, ActorAssumption
  DEF ActorStep, LockStep, LockCheck, LockAcquire, LockRelease, LockClear,
      RollbackStep, RollbackBegin, RollbackLink, RollbackRestart, RollbackState
<1>3. \/ BuildSkip(r) \/ BuildCheckout(r) \/ BuildCompile(r)
      \/ StartValidate(r) \/ Validate(r) \/ StartPromote(r)
  BY <1>2
  DEF PipelineStep, PipelineStart, PromoteBegin, PromoteLink, PromoteMigrate,
      PromoteRestore, RestoreLink, PromoteStart, PromoteHealth, PipelineFinish,
      Publish, PruneScan, PruneRemove, PipelineCatch
<1>4. CASE BuildCheckout(r)
  BY <1>4 DEF BuildCheckout, MustBuild
<1>5. CASE ~BuildCheckout(r)
  BY <1>3, <1>5
  DEF BuildSkip, BuildCompile, StartValidate, Validate, StartPromote, NextStage,
      disk
<1> QED
  BY <1>4, <1>5

\* While a dependency fingerprint never changes under a built release, no step
\* of a deploy before promote_release moves the junction, stops the services or
\* removes the release they run from.
THEOREM ProductionSafe ==
    ASSUME "rebuild" \notin Disturbances
    PROVE  Spec => ProductionKept
<1>1. IInv /\ [Next]_vars => ProductionStep
  BY ProductionStepKept
<1> QED
  BY <1>1, Invariance, PTL DEF Spec, ProductionKept
==============================================================================
