--------------------------- MODULE DeployLiveProofs ---------------------------
(***************************************************************************)
(* What the users of an environment get: what is live was validated, the   *)
(* state file names it, and the services run it. Each theorem says what it *)
(* assumes of the kills and of the commands given by hand.                 *)
(***************************************************************************)
EXTENDS DeployProofs

\* No rollback or bootstrap beside the pipeline, no cancel, and no dependency
\* fingerprint that changes under a built release.
Unattended == Disturbances \cap {"rollback", "rebuild", "boot", "cancel"} = {}

NoOthers == pc[Operator] = "off" /\ pc[Boot] = "off" /\ cancel.pc = "idle"

\* What may be linked or left in place: the junctions and the commits the state
\* file names have been built and validated, and still are.
Approved == validated \cap built

Names(s) == {s.activeSha, s.lastGoodSha, s.previousSha}
Stored   == {current, previous} \cup Names(st)

StoredApproved == Stored \subseteq Approved \cup {None}

\* So has what a deploy read when it began, or holds to put back.
Script == PC \ {"off", "enter", "acquire", "init", "repair", "bootStart",
                "exit", "clearHolder"}

Replacing == {"promoteLink", "migrate", "restore", "restoreLink",
              "rollbackLink", "rollbackRestart", "rollbackState"}

ReadApproved ==
    \A r \in Run :
        /\ pc[r] \in Script =>
             {loc[r].oldActive, loc[r].lastGoodSha, loc[r].activeSha}
               \subseteq Approved \cup {None}
        /\ pc[r] \in Replacing => loc[r].dest \in Approved \cup {None}

\* prune_releases.ps1 removes after it looked: nothing needs what it chose since.
DoomedUnused ==
    \A r \in Run : pc[r] = "remove" => loc[r].doomed \cap Stored = {}

LiveInv ==
    /\ IInv /\ PromotesValidated
    /\ NoOthers /\ StoredApproved /\ ReadApproved /\ DoomedUnused

\* The state file names the release the junction points to.
AgreeAs(s) == current # None => s.activeSha = current

-----------------------------------------------------------------------------
\* What the helpers of deploy/lib do to the commits the state file names.

LEMMA PreservedNames ==
    ASSUME NEW s
    PROVE  Preserved(s) \in {current, s.lastGoodSha, s.activeSha, st.activeSha,
                             None}
BY DEF Preserved, Coalesce, CurrentSha

\* While the junction leads to a built release, it alone decides.
LEMMA PreservedCurrent ==
    ASSUME current \in built, current # None, NEW s
    PROVE  Preserved(s) = current
BY DEF Preserved, Coalesce, CurrentSha

LEMMA SetDeployStateFields ==
    ASSUME NEW s \in DeployState, NEW active \in ShaOrNone, NEW good \in ShaOrNone
    PROVE  LET t == SetDeployState(s, active, good)
               g == Coalesce(good, s.lastGoodSha)
           IN  /\ t.lastGoodSha = g
               /\ t.activeSha = Coalesce(Coalesce(active, s.activeSha), g)
               /\ t.previousSha = s.previousSha
               /\ t.status = s.status
BY DEF SetDeployState, DeployState

LEMMA SetDeployStateNames ==
    ASSUME NEW s \in DeployState, NEW active \in ShaOrNone, NEW good \in ShaOrNone
    PROVE  Names(SetDeployState(s, active, good))
             \subseteq Names(s) \cup {active, good}
<1> DEFINE t == SetDeployState(s, active, good)
<1>1. /\ t.lastGoodSha \in {good, s.lastGoodSha}
      /\ t.activeSha \in {active, s.activeSha, good, s.lastGoodSha}
      /\ t.previousSha = s.previousSha
  BY SetDeployStateFields DEF Coalesce
<1> HIDE DEF t
<1>2. Names(t) \subseteq Names(s) \cup {active, good}
  BY <1>1 DEF Names
<1> QED
  BY <1>2 DEF t

LEMMA SetDeployStateAgrees ==
    ASSUME NEW s \in DeployState, NEW active \in ShaOrNone, NEW good \in ShaOrNone,
           active = current \/ (active = None /\ AgreeAs(s))
    PROVE  AgreeAs(SetDeployState(s, active, good))
<1> DEFINE t == SetDeployState(s, active, good)
<1>1. t.activeSha = Coalesce(Coalesce(active, s.activeSha),
                             Coalesce(good, s.lastGoodSha))
  BY SetDeployStateFields
<1> HIDE DEF t
<1>2. AgreeAs(t)
  BY <1>1 DEF AgreeAs, Coalesce
<1> QED
  BY <1>2 DEF t

LEMMA SaveFields ==
    ASSUME NEW s \in DeployState
    PROVE  /\ Names(Save(s)) \subseteq Names(s) \cup {None}
           /\ AgreeAs(s) => AgreeAs(Save(s))
           /\ Save(s).status = s.status
<1>1. None \in ShaOrNone
  BY DEF ShaOrNone
<1> QED
  BY <1>1, SetDeployStateNames, SetDeployStateAgrees, SetDeployStateFields
  DEF Save

LEMMA SyncedFields ==
    ASSUME TypeOK, NEW s \in DeployState
    PROVE  /\ Names(Synced(s)) \subseteq Names(s) \cup {current, None}
           /\ AgreeAs(s) => AgreeAs(Synced(s))
           /\ AgreeAs(Synced(s)) \/ Synced(s) = s
<1> DEFINE i == [s EXCEPT !.status = "idle"]
<1>1. i \in DeployState /\ Names(i) = Names(s)
  BY DEF DeployState, Status, Names
<1> HIDE DEF i
<1>2. CurrentSha \in ShaOrNone /\ CurrentSha \in {current, None}
  BY CurrentShaType DEF CurrentSha
<1>3. Names(SetDeployState(i, CurrentSha, CurrentSha))
        \subseteq Names(s) \cup {current, None}
  BY <1>1, <1>2, SetDeployStateNames
<1>4. CurrentSha # None => AgreeAs(SetDeployState(i, CurrentSha, CurrentSha))
  BY <1>1, <1>2, SetDeployStateAgrees
<1>5. Synced(s) = IF s.activeSha = None /\ CurrentSha # None
                  THEN SetDeployState(i, CurrentSha, CurrentSha) ELSE s
  BY DEF Synced, i
<1> QED
  BY <1>3, <1>4, <1>5

LEMMA ResetFields ==
    ASSUME TypeOK, NEW s \in DeployState, NEW status \in Status,
           NEW good \in ShaOrNone
    PROVE  /\ Names(Reset(s, status, good)) \subseteq Names(s) \cup {good}
           /\ good = current => AgreeAs(Reset(s, status, good))
           /\ Reset(s, status, good).status = status
<1> DEFINE t == [s EXCEPT !.status = status, !.targetSha = None,
                          !.runId = None, !.startedAt = "none"]
<1>1. None \in ShaOrNone /\ "none" \in StartedAge
  BY DEF ShaOrNone, StartedAge
<1>2. t \in DeployState /\ Names(t) = Names(s) /\ t.status = status
  BY <1>1 DEF DeployState, Names
<1>3. Reset(s, status, good) = SetDeployState(t, good, good)
  BY DEF Reset
<1> HIDE DEF t
<1> QED
  BY <1>2, <1>3, SetDeployStateNames, SetDeployStateAgrees, SetDeployStateFields

-----------------------------------------------------------------------------
\* Steps beside the scripts of a deploy: the lock, the watcher, the console, the
\* operator, time, kills. They leave junctions and artefacts alone, and what they
\* write to the state file is a commit already stored.

StateMoves ==
    /\ Names(st') \subseteq Stored \cup {None}
    /\ AgreeAs(st) => AgreeAs(st')
    /\ Busy(st) => Busy(st') \/ AgreeAs(st')

LEMMA PreservedStored ==
    ASSUME TypeOK
    PROVE  /\ Preserved(st) \in ShaOrNone
           /\ Preserved(st) \in Stored \cup {None}
           /\ current \in built /\ current # None => Preserved(st) = current
<1>1. Preserved(st) \in ShaOrNone
  BY StateFields, PreservedType DEF TypeOK
<1> QED
  BY <1>1, PreservedNames, PreservedCurrent DEF Stored, Names

\* A reset to the preserved sha names what the junction points to.
LEMMA ResetMoves ==
    ASSUME TypeOK, current \in built \cup {None}, NEW s \in DeployState,
           Names(s) = Names(st), NEW status \in Status,
           st' = Reset(s, status, Preserved(st))
    PROVE  StateMoves /\ AgreeAs(st')
<1>1. /\ Names(st') \subseteq Names(s) \cup {Preserved(st)}
      /\ Preserved(st) = current => AgreeAs(st')
  BY PreservedStored, ResetFields
<1>2. current = None => AgreeAs(st')
  BY DEF AgreeAs
<1> QED
  BY <1>1, <1>2, PreservedStored DEF StateMoves, Stored

LEMMA SaveMoves ==
    ASSUME NEW s \in DeployState, Names(s) = Names(st), s.status = st.status,
           s.activeSha = st.activeSha, st' = Save(s) \/ st' = s
    PROVE  StateMoves
<1>1. AgreeAs(st) => AgreeAs(s)
  BY DEF AgreeAs
<1> QED
  BY <1>1, SaveFields DEF StateMoves, Stored, Busy

LEMMA LockStepState ==
    ASSUME TypeOK, current \in built \cup {None}, NEW a \in Actor, LockStep(a)
    PROVE  StateMoves /\ UNCHANGED <<disk, serving, validated>>
<1>1. st \in DeployState
  BY DEF TypeOK
<1>2. CASE LockCheck(a)
  <2>1. CASE st' = Reset(st, ResetStatus(Preserved(st)), Preserved(st))
    BY <1>1, <1>2, <2>1, ResetMoves, ResetStatusType DEF LockCheck, history
  <2>2. CASE st' = st
    BY <1>1, <1>2, <2>2, SaveMoves DEF LockCheck, history
  <2> QED
    BY <1>2, <2>1, <2>2 DEF LockCheck
<1>3. CASE LockAcquire(a) \/ LockClear(a)
  <2>1. PICK held \in BOOLEAN :
          st' = Save([st EXCEPT !.lockHolder = held]) \/ st' = st
    BY <1>3 DEF LockAcquire, LockClear
  <2> DEFINE s == [st EXCEPT !.lockHolder = held]
  <2>2. /\ s \in DeployState /\ Names(s) = Names(st)
        /\ s.status = st.status /\ s.activeSha = st.activeSha
    BY <1>1 DEF DeployState, Names
  <2>3. StateMoves
    <3> HIDE DEF s
    <3>1. CASE st' = Save(s)
      BY <2>2, <3>1, SaveMoves
    <3>2. CASE st' = st
      BY <1>1, <3>2, SaveMoves
    <3> QED
      BY <2>1, <3>1, <3>2 DEF s
  <2> QED
    BY <1>3, <2>3 DEF LockAcquire, LockClear, history
<1>4. CASE LockRelease(a)
  BY <1>1, <1>4, SaveMoves DEF LockRelease, history
<1> QED
  BY <1>2, <1>3, <1>4 DEF LockStep

LEMMA RecoverMoves ==
    ASSUME TypeOK, current \in built \cup {None}, NEW force \in BOOLEAN,
           RecoverState(force)
    PROVE  StateMoves /\ (Busy(st) \/ force \/ AgreeAs(st) => AgreeAs(st'))
<1> DEFINE good == Preserved(st)
           freed == [st EXCEPT !.lockHolder = FALSE, !.blockedSha = None]
           unblocked == [st EXCEPT !.blockedSha = None]
           s == Recovered(st, force)
<1>1. /\ st \in DeployState
      /\ freed \in DeployState /\ Names(freed) = Names(st)
      /\ unblocked \in DeployState /\ Names(unblocked) = Names(st)
      /\ unblocked.activeSha = st.activeSha
  BY RunIsActor DEF TypeOK, DeployState, Names
<1>2. good \in ShaOrNone /\ good \in Stored \cup {None}
  BY PreservedStored
<1>3. AgreeAs(Reset(freed, ResetStatus(good), good))
  <2>1. CASE current = None
    BY <2>1 DEF AgreeAs
  <2>2. CASE current # None
    BY <1>1, <1>2, <2>2, PreservedStored, ResetFields, ResetStatusType
  <2> QED
    BY <2>1, <2>2
<1>4. Names(Reset(freed, ResetStatus(good), good)) \subseteq Stored \cup {None}
  BY <1>1, <1>2, ResetFields, ResetStatusType DEF Stored
<1>5. /\ Names(Save(unblocked)) \subseteq Stored \cup {None}
      /\ AgreeAs(st) => AgreeAs(Save(unblocked))
  BY <1>1, SaveFields DEF Stored, AgreeAs
<1>6. s = IF Busy(st) \/ force THEN Reset(freed, ResetStatus(good), good)
          ELSE IF st.blockedSha # None THEN Save(unblocked) ELSE st
  BY DEF Recovered
<1>7. s \in DeployState
  BY <1>1, <1>2, <1>6, ResetType, ResetStatusType, SaveType
<1> HIDE DEF good, freed, unblocked, s
<1>8. /\ Names(s) \subseteq Stored \cup {None}
      /\ Busy(st) \/ force \/ AgreeAs(st) => AgreeAs(s)
  BY <1>3, <1>4, <1>5, <1>6 DEF Stored
<1>9. st' = Synced(s)
  BY DEF RecoverState, s
<1>10. /\ Names(st') \subseteq Names(s) \cup {current, None}
       /\ AgreeAs(s) => AgreeAs(st')
  BY <1>7, <1>9, SyncedFields
<1> QED
  BY <1>8, <1>10 DEF StateMoves, Stored

\* The watcher decides on a state it has synced and perhaps unblocked.
LEMMA DecideMoves ==
    ASSUME TypeOK, WatchDecide
    PROVE  StateMoves
<1> DEFINE s == Synced(st)
           v == [s EXCEPT !.blockedSha = None]
           u == Unblocked(s)
           b == [u EXCEPT !.blockedSha = u.targetSha]
<1>1. st \in DeployState
  BY DEF TypeOK
<1>2. s \in DeployState
  BY <1>1, SyncedType
<1>3. /\ Names(s) \subseteq Stored \cup {None}
      /\ AgreeAs(st) => AgreeAs(s)
      /\ Busy(st) => Busy(s) \/ AgreeAs(s)
  BY <1>1, SyncedFields DEF Stored
<1> HIDE DEF s
<1>4. /\ v \in DeployState /\ Names(v) = Names(s)
      /\ v.activeSha = s.activeSha /\ v.status = s.status
  BY <1>2, RunIsActor DEF DeployState, Names
<1>5. u = Save(v) \/ u = s
  BY DEF Unblocked
<1> HIDE DEF v, u
<1>6. /\ u \in DeployState /\ Names(u) \subseteq Names(s) \cup {None}
      /\ AgreeAs(s) => AgreeAs(u)
      /\ u.status = s.status
  BY <1>2, <1>4, <1>5, SaveFields, SaveType DEF AgreeAs
<1>7. /\ b \in DeployState /\ Names(b) = Names(u)
      /\ b.activeSha = u.activeSha /\ b.status = u.status
  BY <1>6 DEF DeployState, Names
<1> HIDE DEF b
<1>8. /\ Names(Save(b)) \subseteq Names(u) \cup {None}
      /\ AgreeAs(u) => AgreeAs(Save(b))
      /\ Save(b).status = u.status
  BY <1>7, SaveFields DEF AgreeAs
<1>9. st' \in {s, u, Save(b)}
  BY DEF WatchDecide, s, u, b
<1> QED
  BY <1>3, <1>6, <1>8, <1>9 DEF StateMoves, Busy

LEMMA AroundState ==
    ASSUME TypeOK, NoOthers, Unattended, current \in built \cup {None},
           WatchStep \/ CancelStep \/ OperatorCommand \/ Environment
    PROVE  /\ StateMoves /\ NoOthers'
           /\ UNCHANGED <<disk, validated>> /\ mutex' \in {mutex, None}
<1> USE RunIsActor, ActorAssumption
<1>1. st \in DeployState /\ pc \in [Actor -> PC]
  BY DEF TypeOK
<1>2. CASE WatchCheck
  <2>1. StateMoves
    BY <1>1, <1>2, RecoverMoves, SaveMoves DEF WatchCheck
  <2> QED
    BY <1>2, <2>1 DEF WatchCheck, NoOthers, history
<1>3. CASE WatchDecide
  <2>1. pc' = pc \/ \E r \in Run : pc' = [pc EXCEPT ![r] = "enter"]
    BY <1>3 DEF WatchDecide, Launch, Goto
  <2> QED
    BY <1>1, <1>3, <2>1, DecideMoves DEF WatchDecide, NoOthers
<1>4. CASE CancelStep \/ CancelBegin \/ ManualRollback \/ Bootstrap \/ CancelCrash
  BY <1>4 DEF CancelStep, CancelKill, CancelReset, CancelBegin, ManualRollback,
              Bootstrap, CancelCrash, Fault, NoOthers, Unattended
<1>5. CASE ConsoleRedeploy
  <2>1. \E r \in Run : pc' = [pc EXCEPT ![r] = "enter"]
    BY <1>5 DEF ConsoleRedeploy, Launch, Goto
  <2>2. st' = st \/ st' = [st EXCEPT !.blockedSha = None]
    BY <1>5 DEF ConsoleRedeploy
  <2>3. StateMoves
    <3> DEFINE s == [st EXCEPT !.blockedSha = None]
    <3>1. /\ s \in DeployState /\ Names(s) = Names(st)
          /\ s.activeSha = st.activeSha /\ s.status = st.status
      BY <1>1 DEF DeployState, Names
    <3> HIDE DEF s
    <3> QED
      BY <1>1, <2>2, <3>1, SaveMoves DEF s
  <2> QED
    BY <1>1, <1>5, <2>1, <2>3 DEF ConsoleRedeploy, NoOthers
<1>6. CASE OperatorRecover
  <2>1. StateMoves
    BY <1>6, RecoverMoves DEF OperatorRecover
  <2> QED
    BY <1>6, <2>1 DEF OperatorRecover, NoOthers, history
<1>7. CASE Push \/ AgeUpdated \/ AgeStarted
  <2>1. PICK u \in UpdatedAge, v \in StartedAge :
          st' = [st EXCEPT !.updatedAt = u, !.startedAt = v] \/ st' = st
    <3>1. st = [st EXCEPT !.updatedAt = st.updatedAt, !.startedAt = st.startedAt]
      BY <1>1 DEF DeployState
    <3>2. CASE AgeUpdated
      <4>1. st' = [st EXCEPT !.updatedAt = "old", !.startedAt = st.startedAt]
        BY <1>1, <3>2 DEF AgeUpdated, DeployState
      <4> QED
        BY <1>1, <4>1 DEF DeployState, UpdatedAge
    <3>3. CASE AgeStarted
      <4>1. st' = [st EXCEPT !.updatedAt = st.updatedAt,
                             !.startedAt = Grown(st.startedAt)]
        BY <1>1, <3>3 DEF AgeStarted, DeployState
      <4>2. Grown(st.startedAt) \in StartedAge
        BY <1>1 DEF Grown, DeployState, StartedAge
      <4> QED
        BY <1>1, <4>1, <4>2 DEF DeployState
    <3> QED
      BY <1>7, <3>2, <3>3 DEF Push, UpdatedAge, StartedAge
  <2>2. StateMoves
    <3> DEFINE s == [st EXCEPT !.updatedAt = u, !.startedAt = v]
    <3>1. /\ s \in DeployState /\ Names(s) = Names(st)
          /\ s.activeSha = st.activeSha /\ s.status = st.status
      BY <1>1 DEF DeployState, Names
    <3> HIDE DEF s
    <3> QED
      BY <1>1, <2>1, <3>1, SaveMoves DEF s
  <2> QED
    BY <1>7, <2>2 DEF Push, AgeUpdated, AgeStarted, NoOthers, history
<1>8. ASSUME NEW a \in Actor, Crash(a)
      PROVE  /\ StateMoves /\ NoOthers'
             /\ UNCHANGED <<disk, validated>> /\ mutex' \in {mutex, None}
  BY <1>1, <1>8, SaveMoves DEF Crash, End, Goto, NoOthers, history
<1>9. CASE Reboot
  BY <1>1, <1>9, SaveMoves DEF Reboot, NoOthers, NoCancel, history
<1> QED
  BY <1>2, <1>3, <1>4, <1>5, <1>6, <1>7, <1>8, <1>9
  DEF WatchStep, OperatorCommand, Environment

-----------------------------------------------------------------------------
\* A step beside the scripts keeps LiveInv.

Outside == {"off", "enter", "acquire", "init", "clearHolder"}

\* Each deploy stays where it is, or is outside its scripts after the step.
Aside ==
    \A r \in Run : \/ pc'[r] = pc[r] /\ loc'[r] = loc[r]
                   \/ pc'[r] \in Outside

LEMMA LockStepAside ==
    ASSUME TypeOK, OperatorOK, NEW a \in Actor, LockStep(a)
    PROVE  Aside
<1>1. Alone(a)
  BY LockStepMove
<1>2. a \in Run => pc'[a] \in Outside
  BY ActorAssumption DEF LockStep, LockCheck, LockAcquire, LockRelease,
     LockClear, End, Goto, Outside, TypeOK
<1> QED
  BY <1>1, <1>2, RunIsActor DEF Aside, Alone

LEMMA AroundAside ==
    ASSUME IInv, WatchStep \/ CancelStep \/ OperatorCommand \/ Environment
    PROVE  Aside
<1> SUFFICES ASSUME NEW r \in Run
             PROVE  \/ pc'[r] = pc[r] /\ loc'[r] = loc[r]
                    \/ pc'[r] \in Outside
  BY DEF Aside
<1> QED
  BY AroundKeeps, AroundStarts, RunIsActor DEF Outside

LEMMA AsideLive ==
    ASSUME LiveInv, Aside, UNCHANGED <<current, previous, built, validated>>,
           Names(st') \subseteq Stored \cup {None}
    PROVE  StoredApproved' /\ ReadApproved' /\ DoomedUnused'
<1>1. Stored' \subseteq Stored \cup {None}
  BY DEF Stored, Names
<1>2. Approved' = Approved
  BY DEF Approved
<1>3. StoredApproved'
  BY <1>1, <1>2 DEF LiveInv, StoredApproved
<1>4. ReadApproved'
  <2> SUFFICES ASSUME NEW r \in Run, pc'[r] \in Script
               PROVE  /\ pc'[r] = pc[r] /\ loc'[r] = loc[r]
    BY <1>2 DEF LiveInv, ReadApproved, Script, Replacing, PC
  <2> QED
    BY DEF Aside, Outside, Script
<1>5. DoomedUnused'
  <2> SUFFICES ASSUME NEW r \in Run, pc'[r] = "remove"
               PROVE  loc'[r].doomed \cap Stored' = {}
    BY DEF DoomedUnused
  <2>1. pc[r] = "remove" /\ loc'[r] = loc[r]
    BY DEF Aside, Outside
  <2>2. loc[r].doomed \cap Stored = {}
    BY <2>1 DEF LiveInv, DoomedUnused
  <2>3. None \notin loc[r].doomed
    BY LocalFields, RunIsActor, ShaAssumption DEF LiveInv, IInv
  <2> QED
    BY <1>1, <2>1, <2>2, <2>3
<1> QED
  BY <1>3, <1>4, <1>5

-----------------------------------------------------------------------------
\* A step of the deploy that owns the environment. OwnLive is what LiveInv says
\* of it, OwnPromise that the step is one ReleasePromise allows.

ReadOf(r) == {loc[r].oldActive, loc[r].lastGoodSha, loc[r].activeSha}

OwnLive(r) ==
    /\ StoredApproved
    /\ pc[r] \in Script => ReadOf(r) \subseteq Approved \cup {None}
    /\ pc[r] \in Replacing => loc[r].dest \in Approved \cup {None}
    /\ pc[r] = "remove" => loc[r].doomed \cap Stored = {}

OwnPromise == [Promise!Next]_(Promise!state)

LEMMA LiveFacts ==
    ASSUME LiveInv, NEW r \in Run
    PROVE  /\ OwnLive(r) /\ TypeOK /\ r \in Actor /\ r # Operator /\ r # Boot
           /\ st \in DeployState
           /\ current \in Approved \cup {None} /\ previous \in Approved \cup {None}
           /\ current \in built \cup {None}
           /\ Names(st) \subseteq Approved \cup {None}
           /\ Approved \subseteq Sha /\ None \notin Sha
           /\ loc[r].target \in ShaOrNone /\ loc[r].dest \in ShaOrNone
           /\ loc[r].oldActive \in ShaOrNone /\ loc[r].lastGoodSha \in ShaOrNone
           /\ loc[r].activeSha \in ShaOrNone
<1>1. TypeOK /\ r \in Actor
  BY RunIsActor DEF LiveInv, IInv
<1>2. OwnLive(r)
  BY DEF LiveInv, OwnLive, ReadOf, ReadApproved, DoomedUnused
<1>3. Stored \subseteq Approved \cup {None}
  BY DEF LiveInv, StoredApproved
<1> QED
  BY <1>1, <1>2, <1>3, LocalFields, ActorAssumption, ShaAssumption
  DEF Stored, Approved, TypeOK

\* A move of the junction to what is approved, and no other change.
LEMMA SwitchPromised ==
    ASSUME LiveInv, NEW r \in Run, mutex = r, mutex' = mutex,
           built' = built, validated' = validated,
           current' \in Approved \cup {None}
    PROVE  OwnPromise
<1>1. mutex # None
  BY LiveFacts, ActorAssumption
<1>2. (validated \cap built)' = validated \cap built
  OBVIOUS
<1> QED
  BY <1>1, <1>2
  DEF OwnPromise, Promise!Next, Promise!Switch, Promise!state, Approved

\* The shape of most steps: nothing is disapproved, and what is stored and read
\* has been approved before.
LEMMA OwnLiveKept ==
    ASSUME LiveInv, NEW r \in Run, Approved \subseteq Approved',
           current' \in Approved \cup {None}, previous' \in Approved \cup {None},
           Names(st') \subseteq Approved \cup {None},
           ReadOf(r)' \subseteq Approved \cup {None},
           pc'[r] # "remove",
           pc'[r] \in Replacing => loc'[r].dest \in Approved \cup {None}
    PROVE  OwnLive(r)'
<1>1. Stored' \subseteq Approved' \cup {None}
  BY DEF Stored, Names
<1> QED
  BY <1>1 DEF OwnLive, StoredApproved

LEMMA BuildLive ==
    ASSUME LiveInv, Unattended, NEW r \in Run, mutex = r,
           \/ BuildSkip(r) \/ BuildCheckout(r) \/ BuildCompile(r) \/ Validate(r)
    PROVE  OwnLive(r)' /\ OwnPromise
<1> USE LiveFacts
<1>1. /\ UNCHANGED <<st, current, previous, loc>> /\ mutex' = mutex
      /\ pc[r] \in Script
      /\ pc'[r] \in {"built", "compile", "failing", "validated"}
  BY OnlyAlone DEF BuildSkip, BuildCheckout, BuildCompile, Validate, disk,
                   Script, PC
<1>2. /\ \/ Approved' = Approved
         \/ \E sha \in Sha : Approved' = Approved \cup {sha}
  <2>1. loc[r].target \in Sha
    BY <1>1 DEF LiveInv, IInv, TargetOK, Running, Script
  <2>2. CASE BuildSkip(r)
    BY <2>2 DEF BuildSkip, Approved, disk
  <2>3. CASE BuildCheckout(r)
    BY <2>3 DEF BuildCheckout, MustBuild, Unattended, Approved
  <2>4. CASE BuildCompile(r)
    BY <2>1, <2>4 DEF BuildCompile, Approved
  <2>5. CASE Validate(r)
    BY <2>1, <2>5 DEF Validate, Approved, disk
  <2> QED
    BY <2>2, <2>3, <2>4, <2>5
<1>3. OwnLive(r)'
  <2>1. ReadOf(r)' \subseteq Approved \cup {None}
    BY <1>1 DEF ReadOf, OwnLive
  <2> QED
    BY <1>1, <1>2, <2>1, OwnLiveKept DEF Replacing
<1>4. OwnPromise
  BY <1>1, <1>2, ActorAssumption
  DEF OwnPromise, Promise!Next, Promise!Approve, Promise!state, Approved
<1> QED
  BY <1>3, <1>4

LEMMA StageLive ==
    ASSUME LiveInv, NEW r \in Run, mutex = r, StartValidate(r) \/ StartPromote(r)
    PROVE  OwnLive(r)' /\ OwnPromise
<1> USE LiveFacts
<1>1. /\ UNCHANGED <<disk, validated, loc>> /\ mutex' = mutex
      /\ pc[r] \in Script /\ pc'[r] \in {"validate", "promote", "cancelling"}
  BY OnlyAlone DEF StartValidate, StartPromote, NextStage, Script, PC
<1>2. Names(st') \subseteq Approved \cup {None}
  <2>1. PICK status \in Status : st' = st \/ st' = Save([st EXCEPT !.status = status])
    BY DEF StartValidate, StartPromote, NextStage, Status
  <2> DEFINE s == [st EXCEPT !.status = status]
  <2>2. s \in DeployState /\ Names(s) = Names(st)
    BY DEF DeployState, Names
  <2> HIDE DEF s
  <2> QED
    BY <2>1, <2>2, SaveFields DEF s
<1>3. ReadOf(r)' \subseteq Approved \cup {None}
  BY <1>1 DEF ReadOf, OwnLive
<1>4. Approved' = Approved
  BY <1>1 DEF Approved, disk
<1> QED
  BY <1>1, <1>2, <1>3, <1>4, OwnLiveKept, SwitchPromised DEF Replacing, disk

LEMMA PipelineStartLive ==
    ASSUME LiveInv, NEW r \in Run, mutex = r, PipelineStart(r)
    PROVE  OwnLive(r)' /\ OwnPromise
<1> USE LiveFacts
<1> DEFINE s == Synced(st)
           old == Preserved(s)
           good == IF s.lastGoodSha = None THEN old ELSE None
           t == [s EXCEPT !.status = "building", !.runId = r,
                          !.targetSha = loc[r].target, !.startedAt = "recent"]
<1>1. s \in DeployState /\ Names(s) \subseteq Approved \cup {None}
  BY SyncedType, SyncedFields
<1> HIDE DEF s
<1>2. old \in Approved \cup {None}
  BY <1>1, PreservedNames DEF Names
<1> HIDE DEF old
<1>3. /\ t \in DeployState /\ Names(t) = Names(s)
  BY <1>1 DEF DeployState, Status, StartedAge, Names
<1>4. good \in Approved \cup {None}
  BY <1>2
<1> HIDE DEF good, t
<1>5. st' = SetDeployState(t, old, good)
  BY DEF PipelineStart, s, old, good, t
<1>6. Names(st') \subseteq Approved \cup {None}
  <2>1. old \in ShaOrNone /\ good \in ShaOrNone
    BY <1>2, <1>4 DEF ShaOrNone
  <2> QED
    BY <1>1, <1>2, <1>3, <1>4, <1>5, <2>1, SetDeployStateNames
<1>7. loc' = [loc EXCEPT ![r].oldActive = old,
                         ![r].lastGoodSha = s.lastGoodSha,
                         ![r].activeSha = s.activeSha]
  BY DEF PipelineStart, s, old
<1>8. /\ loc'[r].oldActive = old /\ loc'[r].lastGoodSha = s.lastGoodSha
      /\ loc'[r].activeSha = s.activeSha
  BY <1>7 DEF TypeOK, Locals
<1>9. ReadOf(r)' \subseteq Approved \cup {None}
  BY <1>1, <1>2, <1>8 DEF ReadOf, Names
<1>10. /\ UNCHANGED <<disk, validated, mutex>> /\ pc'[r] \in {"build", "failing"}
  BY DEF PipelineStart, Goto, TypeOK, history
<1>11. Approved' = Approved
  BY <1>10 DEF Approved, disk
<1> QED
  BY <1>6, <1>9, <1>10, <1>11, OwnLiveKept, SwitchPromised DEF Replacing, disk

LEMMA PromoteBeginLive ==
    ASSUME LiveInv, NEW r \in Run, mutex = r, PromoteBegin(r)
    PROVE  OwnLive(r)' /\ OwnPromise
<1> USE LiveFacts
<1> DEFINE old == Coalesce(st.activeSha, Preserved(st))
<1>1. old \in Approved \cup {None}
  BY PreservedStored DEF Coalesce, Stored, Names
<1> HIDE DEF old
<1>2. /\ UNCHANGED <<st, built, validated>> /\ mutex' = mutex
      /\ current' \in {None, current} /\ previous' \in {old, previous, None}
      /\ loc' = [loc EXCEPT ![r].dest = old] \/ loc' = loc
      /\ pc[r] \in Script
  BY DEF PromoteBegin, Only, Script, PC, old
<1>3. \/ pc'[r] \in {"promoteLink", "restore"}
           /\ loc' = [loc EXCEPT ![r].dest = old]
      \/ pc'[r] = "failing"
  BY DEF PromoteBegin, Only, Goto, TypeOK, old
<1>4. /\ loc'[r].oldActive = loc[r].oldActive
      /\ loc'[r].lastGoodSha = loc[r].lastGoodSha
      /\ loc'[r].activeSha = loc[r].activeSha
      /\ pc'[r] \in {"promoteLink", "restore"} => loc'[r].dest = old
  BY <1>2, <1>3 DEF TypeOK, Locals
<1>5. ReadOf(r)' \subseteq Approved \cup {None}
  BY <1>2, <1>4 DEF ReadOf, OwnLive
<1>6. Approved' = Approved
  BY <1>2 DEF Approved
<1> QED
  BY <1>1, <1>2, <1>3, <1>4, <1>5, <1>6, OwnLiveKept, SwitchPromised
  DEF Replacing

\* The rest of promote_release.ps1 links the validated target or what it replaced.
LEMMA PromoteLive ==
    ASSUME LiveInv, NEW r \in Run, mutex = r,
           \/ PromoteLink(r) \/ PromoteMigrate(r) \/ PromoteRestore(r)
           \/ RestoreLink(r) \/ PromoteStart(r) \/ PromoteHealth(r)
    PROVE  OwnLive(r)' /\ OwnPromise
<1> USE LiveFacts
<1>1. /\ UNCHANGED <<st, previous, built, validated, loc>> /\ mutex' = mutex
      /\ pc[r] \in Script
      /\ pc'[r] \in {"migrate", "restore", "start", "restoreLink", "failing",
                     "health", "rollback", "promoted"}
      /\ pc'[r] \in Replacing => pc[r] \in Replacing
  BY OnlyAlone DEF PromoteLink, PromoteMigrate, PromoteRestore, RestoreLink,
     PromoteStart, PromoteHealth, disk, Script, PC, Replacing
<1>2. \/ current' \in {current, None}
      \/ pc[r] = "promoteLink" /\ current' = loc[r].target
      \/ pc[r] = "restoreLink" /\ current' = loc[r].dest
  BY DEF PromoteLink, PromoteMigrate, PromoteRestore, RestoreLink,
     PromoteStart, PromoteHealth, Link, LinkFails, disk
<1>3. current' \in Approved \cup {None}
  <2>1. pc[r] = "promoteLink" => loc[r].target \in Approved
    BY DEF LiveInv, PromotesValidated, PastValidation, Approved
  <2>2. pc[r] = "restoreLink" => loc[r].dest \in Approved \cup {None}
    BY DEF OwnLive, Replacing
  <2> QED
    BY <1>2, <2>1, <2>2
<1>4. ReadOf(r)' \subseteq Approved \cup {None}
  BY <1>1 DEF ReadOf, OwnLive
<1>5. Approved' = Approved
  BY <1>1 DEF Approved
<1>6. pc'[r] \in Replacing => loc'[r].dest \in Approved \cup {None}
  BY <1>1 DEF OwnLive
<1>7. pc'[r] # "remove"
  BY <1>1
<1> QED
  BY <1>1, <1>3, <1>4, <1>5, <1>6, <1>7, OwnLiveKept, SwitchPromised

\* A rollback chooses among the junctions and the commits the state file names.
LEMMA RollbackReleaseStored ==
    ASSUME TypeOK
    PROVE  RollbackRelease(None) \in Stored \cup {None}
BY PreservedStored DEF RollbackRelease, Coalesce, Stored, Names

LEMMA RollbackLive ==
    ASSUME LiveInv, NEW r \in Run, mutex = r, mutex' = mutex, RollbackStep(r)
    PROVE  OwnLive(r)' /\ OwnPromise
<1> USE LiveFacts
<1>1. /\ UNCHANGED <<previous, built, validated>> /\ pc[r] \in Script
  BY DEF RollbackStep, RollbackBegin, RollbackLink, RollbackRestart,
         RollbackState, disk, Script, PC
<1>2. RollbackReturn(r) => loc' = loc /\ pc'[r] = "failing"
  BY OnlyAlone DEF RollbackReturn
<1>3. CASE RollbackBegin(r)
  <2> DEFINE sha == RollbackRelease(None)
  <2>1. sha \in Approved \cup {None}
    BY RollbackReleaseStored DEF OwnLive, StoredApproved
  <2>2. /\ st' = st
        /\ \/ /\ loc' = [loc EXCEPT ![r].dest = sha] /\ current' = None
              /\ Only(r, "rollbackLink")
           \/ RollbackReturn(r) /\ current' = current
    BY <1>3 DEF RollbackBegin
  <2> HIDE DEF sha
  <2>3. CASE RollbackReturn(r) /\ current' = current
    BY <1>1, <1>2, <2>2, <2>3, OwnLiveKept, SwitchPromised
    DEF Replacing, OwnLive, ReadOf, Approved
  <2>4. CASE /\ loc' = [loc EXCEPT ![r].dest = sha] /\ current' = None
             /\ Only(r, "rollbackLink")
    <3>1. /\ loc'[r].oldActive = loc[r].oldActive
          /\ loc'[r].lastGoodSha = loc[r].lastGoodSha
          /\ loc'[r].activeSha = loc[r].activeSha /\ loc'[r].dest = sha
          /\ pc'[r] = "rollbackLink"
      BY <2>4 DEF TypeOK, Locals, Only, Goto
    <3>2. ReadOf(r)' \subseteq Approved \cup {None}
      BY <1>1, <3>1 DEF ReadOf, OwnLive
    <3> QED
      BY <1>1, <2>1, <2>2, <2>4, <3>1, <3>2, OwnLiveKept, SwitchPromised
      DEF Approved
  <2> QED
    BY <2>2, <2>3, <2>4
<1>4. CASE RollbackLink(r) \/ RollbackRestart(r)
  <2>1. /\ UNCHANGED <<st, loc>>
        /\ current' = current
             \/ (pc[r] = "rollbackLink" /\ current' = loc[r].dest)
        /\ pc[r] \in Replacing
        /\ pc'[r] \in {"rollbackRestart", "rollbackState", "failing"}
    BY <1>2, <1>4, OnlyAlone DEF RollbackLink, RollbackRestart, Link, LinkFails,
       disk, Replacing
  <2>2. current' \in Approved \cup {None} /\ loc'[r].dest \in Approved \cup {None}
    BY <2>1 DEF OwnLive
  <2>3. ReadOf(r)' \subseteq Approved \cup {None}
    BY <1>1, <2>1 DEF ReadOf, OwnLive
  <2> QED
    BY <1>1, <2>1, <2>2, <2>3, OwnLiveKept, SwitchPromised DEF Approved
<1>5. CASE RollbackState(r)
  <2>1. /\ current' = current /\ loc' = loc /\ pc'[r] = "failing"
        /\ loc[r].dest \in Approved \cup {None}
    BY <1>2, <1>5 DEF RollbackState, disk, OwnLive, Replacing
  <2>2. Names(st') \subseteq Approved \cup {None}
    <3>1. PICK status \in Status :
            st' = SetDeployState([st EXCEPT !.status = status,
                                            !.targetSha = None, !.runId = None,
                                            !.lockHolder = FALSE],
                                 loc[r].dest, loc[r].dest)
      BY <1>5 DEF RollbackState, Status
    <3> DEFINE s == [st EXCEPT !.status = status, !.targetSha = None,
                               !.runId = None, !.lockHolder = FALSE]
    <3>2. s \in DeployState /\ Names(s) = Names(st)
      BY RunIsActor DEF DeployState, Names
    <3> HIDE DEF s
    <3> QED
      BY <2>1, <3>1, <3>2, SetDeployStateNames DEF s
  <2>3. ReadOf(r)' \subseteq Approved \cup {None}
    BY <1>1, <2>1 DEF ReadOf, OwnLive
  <2> QED
    BY <1>1, <2>1, <2>2, <2>3, OwnLiveKept, SwitchPromised
    DEF Approved, Replacing
<1> QED
  BY <1>3, <1>4, <1>5 DEF RollbackStep

LEMMA FinishLive ==
    ASSUME LiveInv, NEW r \in Run, mutex = r, PipelineFinish(r) \/ Publish(r)
    PROVE  OwnLive(r)' /\ OwnPromise
<1> USE LiveFacts
<1>1. /\ UNCHANGED <<disk, validated, loc>> /\ mutex' = mutex
      /\ pc[r] \in Script
      /\ pc'[r] \in {"publish", "cancelling", "prune", "failing"}
  BY OnlyAlone DEF PipelineFinish, Publish, Script, PC
<1>2. Names(st') \subseteq Approved \cup {None}
  <2> DEFINE t == [st EXCEPT !.status = "idle", !.blockedSha = None,
                             !.previousSha = loc[r].oldActive]
  <2>1. CASE st' = SetDeployState(t, loc[r].target, loc[r].target)
             /\ pc[r] = "promoted"
    <3>1. loc[r].target \in Approved /\ loc[r].oldActive \in Approved \cup {None}
      BY <1>1, <2>1
      DEF LiveInv, PromotesValidated, PastValidation, Approved, OwnLive, ReadOf
    <3>2. t \in DeployState /\ Names(t) \subseteq Names(st) \cup {loc[r].oldActive}
      BY RunIsActor DEF DeployState, Status, Names
    <3> HIDE DEF t
    <3> QED
      BY <2>1, <3>1, <3>2, SetDeployStateNames
  <2>2. CASE st' = st
    BY <2>2
  <2> QED
    BY <2>1, <2>2 DEF PipelineFinish, Publish
<1>3. ReadOf(r)' \subseteq Approved \cup {None}
  BY <1>1 DEF ReadOf, OwnLive
<1>4. Approved' = Approved
  BY <1>1 DEF Approved, disk
<1> QED
  BY <1>1, <1>2, <1>3, <1>4, OwnLiveKept, SwitchPromised DEF Replacing, disk

\* What prune_releases.ps1 chooses is none of what is protected.
LEMMA PruneScanLive ==
    ASSUME LiveInv, NEW r \in Run, mutex = r, PruneScan(r)
    PROVE  OwnLive(r)' /\ OwnPromise
<1> USE LiveFacts
<1>1. PICK kept \in SUBSET (releases \ Protected) :
        loc' = [loc EXCEPT ![r].doomed = (releases \ Protected) \ kept]
  BY DEF PruneScan
<1>2. /\ UNCHANGED <<st, disk, validated>> /\ mutex' = mutex
      /\ pc[r] \in Script /\ pc'[r] = "remove"
  BY DEF PruneScan, Only, Goto, TypeOK, Script, PC
<1>3. /\ loc'[r].doomed = (releases \ Protected) \ kept
      /\ loc'[r].oldActive = loc[r].oldActive
      /\ loc'[r].lastGoodSha = loc[r].lastGoodSha
      /\ loc'[r].activeSha = loc[r].activeSha
  BY <1>1 DEF TypeOK, Locals
<1>4. Stored' = Stored /\ Approved' = Approved
  BY <1>2 DEF Stored, Names, Approved, disk
<1>5. loc'[r].doomed \cap Stored = {}
  BY <1>3 DEF Protected, Stored, Names, TypeOK
<1>6. ReadOf(r)' \subseteq Approved \cup {None}
  BY <1>2, <1>3 DEF ReadOf, OwnLive
<1>7. OwnLive(r)'
  BY <1>2, <1>4, <1>5, <1>6 DEF OwnLive, StoredApproved, Replacing
<1> QED
  BY <1>2, <1>7, SwitchPromised DEF disk

\* The removal may take releases away from what is approved, and none that is
\* stored.
LEMMA PruneRemoveLive ==
    ASSUME LiveInv, NEW r \in Run, mutex = r, PruneRemove(r)
    PROVE  OwnLive(r)' /\ OwnPromise
<1> USE LiveFacts
<1>1. PICK gone \in SUBSET loc[r].doomed :
        built' = built \ gone /\ validated' = validated \ gone
  BY DEF PruneRemove
<1>2. /\ UNCHANGED <<current, previous>> /\ mutex' = mutex
      /\ pc[r] = "remove" /\ pc'[r] = "exit" /\ st' \in {st, Synced(st)}
  BY OnlyAlone DEF PruneRemove
<1>3. Names(st') \subseteq Stored \cup {None}
  BY <1>2, SyncedFields DEF Stored
<1>4. Stored' \subseteq Stored \cup {None}
  BY <1>2, <1>3 DEF Stored, Names
<1>5. Stored \cap gone = {}
  BY <1>2 DEF OwnLive
<1>6. Approved' = Approved \ gone
  BY <1>1 DEF Approved
<1>7. Stored \subseteq Approved \cup {None}
  BY DEF OwnLive, StoredApproved
<1>8. Stored' \subseteq Approved' \cup {None}
  BY <1>4, <1>5, <1>6, <1>7
<1>9. OwnLive(r)'
  BY <1>2, <1>8 DEF OwnLive, StoredApproved, Script, Replacing
<1>10. OwnPromise
  <2>1. current \in Approved' \cup {None}
    BY <1>5, <1>6, <1>7 DEF Stored
  <2> QED
    BY <1>2, <1>6, <2>1, ActorAssumption
    DEF OwnPromise, Promise!Next, Promise!Discard, Promise!state, Approved
<1> QED
  BY <1>9, <1>10

LEMMA CatchLive ==
    ASSUME LiveInv, NEW r \in Run, mutex = r, PipelineCatch(r)
    PROVE  OwnLive(r)' /\ OwnPromise
<1> USE LiveFacts
<1> DEFINE old == ActiveAfterFailure(r)
           x == [st EXCEPT !.status = "idle", !.lockHolder = FALSE,
                           !.targetSha = None, !.runId = None,
                           !.startedAt = "none", !.blockedSha = None]
           y == [st EXCEPT !.status = "failed", !.targetSha = loc[r].target,
                           !.blockedSha = loc[r].target]
<1>1. /\ UNCHANGED <<disk, validated, loc>> /\ mutex' = mutex
      /\ pc[r] \in Script /\ pc'[r] = "exit"
  BY GotoAlone DEF PipelineCatch, history, Script, PC
<1>2. ReadOf(r) \subseteq Approved \cup {None}
  BY <1>1 DEF OwnLive
<1>3. old \in Approved \cup {None}
  BY <1>2, PreservedNames DEF ActiveAfterFailure, Coalesce, ReadOf, Names
<1>4. /\ x \in DeployState /\ Names(x) = Names(st)
      /\ y \in DeployState /\ Names(y) = Names(st)
  BY RunIsActor DEF DeployState, Status, StartedAge, Names
<1>5. \/ st' = SetDeployState(x, old, Coalesce(loc[r].lastGoodSha, old))
      \/ st' = SetDeployState(y, old, Coalesce(old, loc[r].lastGoodSha))
  BY DEF PipelineCatch
<1> HIDE DEF old, x, y
<1>6. /\ Coalesce(loc[r].lastGoodSha, old) \in Approved \cup {None}
      /\ Coalesce(old, loc[r].lastGoodSha) \in Approved \cup {None}
  BY <1>2, <1>3 DEF Coalesce, ReadOf
<1>7. Names(st') \subseteq Approved \cup {None}
  <2>1. Approved \cup {None} \subseteq ShaOrNone
    BY DEF ShaOrNone
  <2>2. Names(st) \subseteq Approved \cup {None}
    OBVIOUS
  <2> QED
    BY <1>3, <1>4, <1>5, <1>6, <2>1, <2>2, SetDeployStateNames
<1>8. ReadOf(r)' \subseteq Approved \cup {None}
  BY <1>1, <1>2 DEF ReadOf
<1>9. Approved' = Approved
  BY <1>1 DEF Approved, disk
<1> QED
  BY <1>1, <1>7, <1>8, <1>9, OwnLiveKept, SwitchPromised DEF Replacing, disk

LEMMA PipelineLive ==
    ASSUME LiveInv, Unattended, NEW r \in Run, mutex = r, PipelineStep(r)
    PROVE  OwnLive(r)' /\ OwnPromise
BY BuildLive, StageLive, PipelineStartLive, PromoteBeginLive, PromoteLive,
   FinishLive, PruneScanLive, PruneRemoveLive, CatchLive DEF PipelineStep

-----------------------------------------------------------------------------
\* LiveInv is inductive, and its steps are steps of ReleasePromise.

\* A step of the system is one beside the scripts, or one of the deploy that
\* owns the mutex.
LEMMA StepKinds ==
    ASSUME LiveInv, Unattended, Next
    PROVE  \/ \E a \in Run : LockStep(a)
           \/ WatchStep \/ CancelStep \/ OperatorCommand \/ Environment
           \/ \E r \in Run : /\ PipelineStep(r) \/ RollbackStep(r)
                             /\ mutex = r /\ mutex' = mutex /\ Alone(r)
<1> SUFFICES ASSUME NEW a \in Actor, ActorStep(a)
             PROVE  \/ \E b \in Run : LockStep(b)
                    \/ \E r \in Run : /\ PipelineStep(r) \/ RollbackStep(r)
                                      /\ mutex = r /\ mutex' = mutex /\ Alone(r)
  BY DEF Next
<1>1. pc[a] # "off"
  BY ActorStepMove DEF LiveInv, IInv
<1>2. a \in Run /\ a # Operator
  BY <1>1, ActorAssumption DEF LiveInv, NoOthers, Actor
<1>3. Owning(a) => mutex = a
  BY DEF LiveInv, IInv, LockOK
<1>4. CASE LockStep(a)
  BY <1>2, <1>4
<1>5. CASE PipelineStep(a)
  BY <1>2, <1>3, <1>5, PipelineStepMove DEF LiveInv, IInv
<1>6. CASE RollbackStep(a)
  BY <1>2, <1>3, <1>6, RollbackStepMove DEF LiveInv, IInv
<1> QED
  BY <1>2, <1>4, <1>5, <1>6, ActorAssumption DEF ActorStep

LEMMA OwnerIsAlone ==
    ASSUME LiveInv, NEW r \in Run, mutex = r, Alone(r), NEW b \in Run, b # r
    PROVE  /\ pc'[b] = pc[b] /\ loc'[b] = loc[b]
           /\ pc[b] \in {"off", "enter", "acquire", "clearHolder"}
<1>1. pc'[b] = pc[b] /\ loc'[b] = loc[b]
  BY RunIsActor DEF Alone
<1>2. ~Owning(b)
  BY RunIsActor DEF LiveInv, IInv, LockOK
<1> QED
  BY <1>1, <1>2, ActorAssumption DEF Owning, Unlocked

LEMMA OwnerLive ==
    ASSUME LiveInv, NEW r \in Run, mutex = r, Alone(r), OwnLive(r)',
           cancel' = cancel
    PROVE  StoredApproved' /\ ReadApproved' /\ DoomedUnused' /\ NoOthers'
<1>1. StoredApproved'
  BY DEF OwnLive
<1>2. ReadApproved'
  BY OwnerIsAlone DEF OwnLive, ReadOf, ReadApproved, Script, Replacing
<1>3. DoomedUnused'
  BY OwnerIsAlone DEF OwnLive, DoomedUnused
<1>4. NoOthers'
  BY RunIsActor, ActorAssumption DEF LiveInv, NoOthers, Alone
<1> QED
  BY <1>1, <1>2, <1>3, <1>4

LEMMA OwnerKeepsCancel ==
    ASSUME TypeOK, NEW r \in Run, PipelineStep(r) \/ RollbackStep(r)
    PROVE  cancel' = cancel /\ watch' = watch
BY RollbackReturnType, RunIsActor, ActorAssumption
DEF PipelineStep, PipelineStart, BuildSkip, BuildCheckout, BuildCompile,
    StartValidate, StartPromote, NextStage, Validate, PromoteBegin, PromoteLink,
    PromoteMigrate, PromoteRestore, RestoreLink, PromoteStart, PromoteHealth,
    PipelineFinish, Publish, PruneScan, PruneRemove, PipelineCatch,
    RollbackStep, RollbackBegin, RollbackLink, RollbackRestart, RollbackState,
    Only, watcher

\* A free mutex is taken or a held one given up, and nothing else.
LEMMA LockPromised ==
    ASSUME LiveInv, built' = built, validated' = validated, current' = current,
           \/ mutex' \in {mutex, None}
           \/ mutex = None /\ mutex' \in Actor
    PROVE  OwnPromise
BY ActorAssumption
DEF OwnPromise, Promise!Next, Promise!Acquire, Promise!Leave, Promise!state,
    Approved

LEMMA LiveStep ==
    ASSUME LiveInv, Unattended, [Next]_vars
    PROVE  LiveInv' /\ OwnPromise
<1>1. IInv' /\ PromotesValidated'
  BY InvStep, ValidatedStep DEF LiveInv
<1>2. TypeOK /\ OperatorOK /\ current \in built \cup {None}
  BY DEF LiveInv, IInv, StoredApproved, Stored, Approved
<1>3. CASE UNCHANGED vars
  <2>1. Aside /\ UNCHANGED <<current, previous, built, validated>>
    BY <1>3 DEF vars, disk, history, Aside
  <2>2. Names(st') \subseteq Stored \cup {None}
    BY <1>3 DEF vars, Stored
  <2>3. NoOthers' /\ mutex' = mutex
    BY <1>3 DEF vars, NoOthers, LiveInv
  <2> QED
    BY <1>1, <2>1, <2>2, <2>3, AsideLive, LockPromised DEF LiveInv
<1>4. ASSUME NEW a \in Run, LockStep(a)
      PROVE  LiveInv' /\ OwnPromise
  <2>1. /\ StateMoves /\ UNCHANGED <<disk, validated>> /\ Aside
        /\ Alone(a) /\ LockMove(a) /\ cancel' = cancel
    BY <1>2, <1>4, LockStepState, LockStepAside, LockStepMove, RunIsActor
    DEF LockStep, LockCheck, LockAcquire, LockRelease, LockClear
  <2>2. NoOthers'
    BY <2>1, RunIsActor, ActorAssumption DEF LiveInv, NoOthers, Alone
  <2>3. OwnPromise
    BY <2>1, LockPromised, RunIsActor DEF LockMove, disk
  <2> QED
    BY <1>1, <2>1, <2>2, <2>3, AsideLive DEF LiveInv, StateMoves, disk
<1>5. CASE WatchStep \/ CancelStep \/ OperatorCommand \/ Environment
  <2>1. /\ StateMoves /\ NoOthers' /\ UNCHANGED <<disk, validated>>
        /\ mutex' \in {mutex, None} /\ Aside
    BY <1>2, <1>5, AroundState, AroundAside DEF LiveInv
  <2> QED
    BY <1>1, <2>1, AsideLive, LockPromised DEF LiveInv, StateMoves, disk
<1>6. ASSUME NEW r \in Run, PipelineStep(r) \/ RollbackStep(r),
             mutex = r, mutex' = mutex, Alone(r)
      PROVE  LiveInv' /\ OwnPromise
  <2>1. OwnLive(r)' /\ OwnPromise
    BY <1>6, PipelineLive, RollbackLive
  <2>2. StoredApproved' /\ ReadApproved' /\ DoomedUnused' /\ NoOthers'
    BY <1>2, <1>6, <2>1, OwnerLive, OwnerKeepsCancel
  <2> QED
    BY <1>1, <2>1, <2>2 DEF LiveInv
<1> QED
  BY <1>3, <1>4, <1>5, <1>6, StepKinds

LEMMA LiveInit ==
    ASSUME Init
    PROVE  LiveInv /\ Promise!Init
<1>1. PICK live \in ShaOrNone : DeployInit(live)
  BY DEF Init
<1>2. IInv
  BY InvInit
<1>3. /\ \A a \in Actor : pc[a] = "off"
      /\ cancel.pc = "idle" /\ previous = None /\ mutex = None
  BY DEF Init
<1>4. current = live /\ Approved = {live} \ {None}
  BY <1>1 DEF Init, DeployInit, Approved
<1>5. Names(st) \subseteq {live, None}
  <2>1. DefaultState \in DeployState /\ Names(DefaultState) = {None}
    BY DEF DefaultState, DeployState, Status, ShaOrNone, StartedAge, UpdatedAge,
           Names
  <2> QED
    BY <1>1, <2>1, SetDeployStateNames DEF DeployInit
<1>6. StoredApproved
  BY <1>3, <1>4, <1>5 DEF StoredApproved, Stored
<1>7. PromotesValidated /\ NoOthers /\ ReadApproved /\ DoomedUnused
  BY <1>3, RunIsActor
  DEF PromotesValidated, PastValidation, NoOthers, ReadApproved, DoomedUnused,
      Script, Replacing
<1>8. Promise!Init
  BY <1>1, <1>3, <1>4, ShaAssumption DEF Promise!Init, Approved, ShaOrNone
<1> QED
  BY <1>2, <1>6, <1>7, <1>8 DEF LiveInv

\* The inductive invariant: what junctions and state file name, and what a deploy
\* read or holds to put back, is validated and built; what prune removes is unused.
THEOREM LiveInvariance ==
    ASSUME Unattended
    PROVE  Spec => []LiveInv
<1>1. LiveInv /\ [Next]_vars => LiveInv'
  BY LiveStep
<1> QED
  BY <1>1, LiveInit, PTL DEF Spec

\* Every release that a rollback, a restored junction or a reset of the state
\* file may go back to was validated and still has its files.
THEOREM NamedStaysApproved ==
    ASSUME Unattended
    PROVE  Spec => []StoredApproved
<1>1. LiveInv => StoredApproved
  BY DEF LiveInv
<1> QED
  BY <1>1, LiveInvariance, PTL

\* The deploy system implements ReleasePromise, through kills, reboots,
\* recoveries, console redeploys and failing steps, as long as nothing moves the
\* junction outside a deploy, no cancel resets a state it read long before, and
\* no live release is rebuilt.
THEOREM SystemKeepsPromise ==
    ASSUME Unattended
    PROVE  Spec => KeepsPromise
<1>1. Init => Promise!Init
  BY LiveInit
<1>2. LiveInv /\ [Next]_vars => [Promise!Next]_(Promise!state)
  BY LiveStep DEF OwnPromise
<1> QED
  BY <1>1, <1>2, LiveInvariance, PTL DEF Spec, KeepsPromise, Promise!Spec

-----------------------------------------------------------------------------
\* The state file names the release the junction points to, or a deploy is
\* between its first change to the junction and its last to the state file.

Agree == AgreeAs(st)

Unsettled == {"promoteLink", "migrate", "restore", "restoreLink", "start",
              "health", "rollback", "rollbackLink", "rollbackRestart",
              "rollbackState", "promoted", "failing", "cancelling"}

SettledAgrees == (\A r \in Run : pc[r] \notin Unsettled) => Agree

\* What a deploy has linked stays linked until it links something else.
LinkedBy(r) ==
    /\ pc[r] \in {"migrate", "start", "health", "promoted"}
         => current = loc[r].target
    /\ pc[r] \in {"rollbackRestart", "rollbackState"} => current = loc[r].dest

InPlace == \A r \in Run : LinkedBy(r)

AgreeInv == LiveInv /\ InPlace /\ SettledAgrees

\* From the start of promote_release.ps1 until its end.
Mid == {"promote", "promoteLink", "migrate", "restore", "restoreLink", "start",
        "health", "rollback", "rollbackLink", "rollbackRestart",
        "rollbackState", "promoted"}

\* What the owner's step does to the agreement: it makes it, it keeps it, or the
\* deploy is at the junction and leaves the state file alone.
Settles(r) == AgreeAs(st)' /\ pc'[r] \notin Mid

Works(r) ==
    /\ current' = current /\ StateMoves
    /\ pc[r] \notin Unsettled
    /\ pc'[r] \in Mid => Busy(st')

Moves(r) == st' = st /\ pc[r] \in Mid /\ pc'[r] \in Unsettled

LEMMA SaveWorks ==
    ASSUME st \in DeployState, NEW status \in Status,
           st' = st \/ st' = Save([st EXCEPT !.status = status]),
           status \in {"validating", "promoting"}
    PROVE  StateMoves
<1> DEFINE s == [st EXCEPT !.status = status]
<1>1. /\ s \in DeployState /\ Names(s) = Names(st)
      /\ s.activeSha = st.activeSha /\ s.status = status
  BY DEF DeployState, Names
<1> HIDE DEF s
<1>2. /\ Names(Save(s)) \subseteq Names(s) \cup {None}
      /\ AgreeAs(s) => AgreeAs(Save(s))
      /\ Save(s).status = status
  BY <1>1, SaveFields
<1>3. CASE st' = Save(s)
  <2>1. Names(st') \subseteq Stored \cup {None}
    BY <1>1, <1>2, <1>3 DEF Stored
  <2>2. AgreeAs(st) => AgreeAs(st')
    BY <1>1, <1>2, <1>3 DEF AgreeAs
  <2>3. Busy(st')
    BY <1>2, <1>3 DEF Busy
  <2> QED
    BY <2>1, <2>2, <2>3 DEF StateMoves
<1>4. CASE st' = st
  BY <1>4 DEF StateMoves, Stored
<1> QED
  BY <1>3, <1>4 DEF s

\* The deploy's steps before promote_release.ps1 and after its end.
LEMMA ScriptWorks ==
    ASSUME LiveInv, NEW r \in Run,
           \/ BuildSkip(r) \/ BuildCheckout(r) \/ BuildCompile(r) \/ Validate(r)
           \/ StartValidate(r) \/ StartPromote(r)
           \/ Publish(r) \/ PruneScan(r) \/ PruneRemove(r)
    PROVE  LinkedBy(r)' /\ Works(r)
<1> USE LiveFacts
<1>1. CASE \/ BuildSkip(r) \/ BuildCheckout(r) \/ BuildCompile(r) \/ Validate(r)
           \/ Publish(r)
  <2>1. /\ st' = st /\ current' = current
        /\ pc[r] \in {"build", "compile", "validate", "publish"}
        /\ pc'[r] \in {"built", "compile", "failing", "validated", "prune"}
    BY <1>1, OnlyAlone DEF BuildSkip, BuildCheckout, BuildCompile, Validate,
       Publish, disk
  <2> QED
    BY <2>1 DEF LinkedBy, Works, StateMoves, Stored, Unsettled, Mid
<1>2. CASE StartValidate(r) \/ StartPromote(r)
  <2>1. /\ current' = current /\ pc[r] \in {"built", "validated"}
        /\ pc'[r] \in {"validate", "promote", "cancelling"}
    BY <1>2, OnlyAlone DEF StartValidate, StartPromote, NextStage, disk
  <2>2. StateMoves
    <3>1. "validating" \in Status /\ "promoting" \in Status
      BY DEF Status
    <3> QED
      BY <1>2, <3>1, SaveWorks DEF StartValidate, StartPromote, NextStage
  <2>3. pc'[r] = "promote" => Busy(st')
    <3> SUFFICES ASSUME pc'[r] = "promote"
                 PROVE  Busy(st')
      OBVIOUS
    <3>1. st' = Save([st EXCEPT !.status = "promoting"])
      BY <1>2, OnlyAlone DEF StartValidate, StartPromote, NextStage
    <3> DEFINE s == [st EXCEPT !.status = "promoting"]
    <3>2. s \in DeployState /\ s.status = "promoting"
      BY DEF DeployState, Status
    <3> HIDE DEF s
    <3>3. st'.status = "promoting"
      BY <3>1, <3>2, SaveFields DEF s
    <3> QED
      BY <3>3 DEF Busy
  <2> QED
    BY <2>1, <2>2, <2>3 DEF LinkedBy, Works, Unsettled, Mid
<1>3. CASE PruneScan(r)
  <2>1. /\ st' = st /\ current' = current
        /\ pc[r] = "prune" /\ pc'[r] = "remove"
    BY <1>3 DEF PruneScan, Only, Goto, TypeOK, disk
  <2> QED
    BY <2>1 DEF LinkedBy, Works, StateMoves, Stored, Unsettled, Mid
<1>4. CASE PruneRemove(r)
  <2>1. /\ st' \in {st, Synced(st)} /\ current' = current
        /\ pc[r] = "remove" /\ pc'[r] = "exit"
    BY <1>4, OnlyAlone DEF PruneRemove
  <2>2. StateMoves
    BY <2>1, SyncedFields DEF StateMoves, Stored
  <2> QED
    BY <2>1, <2>2 DEF LinkedBy, Works, Unsettled, Mid
<1> QED
  BY <1>1, <1>2, <1>3, <1>4

LEMMA StartSettles ==
    ASSUME LiveInv, NEW r \in Run, PipelineStart(r)
    PROVE  LinkedBy(r)' /\ Settles(r)
<1> USE LiveFacts
<1> DEFINE s == Synced(st)
           old == Preserved(s)
           good == IF s.lastGoodSha = None THEN old ELSE None
           t == [s EXCEPT !.status = "building", !.runId = r,
                          !.targetSha = loc[r].target, !.startedAt = "recent"]
<1>1. s \in DeployState
  BY SyncedType
<1> HIDE DEF s
<1>2. old \in ShaOrNone /\ (current # None => old = current)
  BY <1>1, StateFields, PreservedType, PreservedCurrent
<1> HIDE DEF old
<1>3. t \in DeployState /\ good \in ShaOrNone
  BY <1>1, <1>2, RunIsActor DEF DeployState, Status, StartedAge
<1> HIDE DEF good, t
<1>4. st' = SetDeployState(t, old, good)
  BY DEF PipelineStart, s, old, good, t
<1>5. AgreeAs(st')
  <2>1. CASE current = None
    BY <2>1 DEF AgreeAs
  <2>2. CASE current # None
    BY <1>2, <1>3, <1>4, <2>2, SetDeployStateAgrees
  <2> QED
    BY <2>1, <2>2
<1>6. current' = current /\ pc'[r] \in {"build", "failing"}
  BY DEF PipelineStart, Goto, TypeOK, disk
<1> QED
  BY <1>5, <1>6 DEF Settles, AgreeAs, LinkedBy, Mid

LEMMA FinishSettles ==
    ASSUME LiveInv, InPlace, NEW r \in Run, PipelineFinish(r)
    PROVE  LinkedBy(r)' /\ (Settles(r) \/ Moves(r))
<1> USE LiveFacts
<1>1. /\ current' = current /\ pc[r] = "promoted"
      /\ pc'[r] \in {"publish", "cancelling"}
      /\ pc'[r] = "cancelling" \/ ~CancelRequested(r)
      /\ CancelRequested(r) => st' = st /\ pc'[r] = "cancelling"
  BY OnlyAlone DEF PipelineFinish, disk
<1>2. CASE CancelRequested(r)
  BY <1>1, <1>2 DEF Moves, LinkedBy, Mid, Unsettled
<1>3. CASE ~CancelRequested(r)
  <2> DEFINE t == [st EXCEPT !.status = "idle", !.blockedSha = None,
                             !.previousSha = loc[r].oldActive]
  <2>1. t \in DeployState
    BY RunIsActor DEF DeployState, Status
  <2> HIDE DEF t
  <2>2. st' = SetDeployState(t, loc[r].target, loc[r].target)
    BY <1>3 DEF PipelineFinish, t
  <2>3. loc[r].target = current
    BY <1>1 DEF InPlace, LinkedBy
  <2>4. AgreeAs(st')
    BY <2>1, <2>2, <2>3, SetDeployStateAgrees
  <2> QED
    BY <1>1, <2>4 DEF Settles, AgreeAs, LinkedBy, Mid
<1> QED
  BY <1>2, <1>3

LEMMA CatchSettles ==
    ASSUME LiveInv, NEW r \in Run, PipelineCatch(r)
    PROVE  LinkedBy(r)' /\ Settles(r)
<1> USE LiveFacts
<1> DEFINE old == ActiveAfterFailure(r)
           x == [st EXCEPT !.status = "idle", !.lockHolder = FALSE,
                           !.targetSha = None, !.runId = None,
                           !.startedAt = "none", !.blockedSha = None]
           y == [st EXCEPT !.status = "failed", !.targetSha = loc[r].target,
                           !.blockedSha = loc[r].target]
<1>1. current' = current /\ pc'[r] = "exit"
  BY GotoAlone DEF PipelineCatch, disk
<1>2. old \in ShaOrNone
  BY PreservedType, CoalesceType DEF ActiveAfterFailure
<1>3. current # None => old = current
  <2>1. current # None => Preserved(loc[r]) = current
    BY PreservedCurrent
  <2> QED
    BY <2>1 DEF ActiveAfterFailure, Coalesce
<1>4. x \in DeployState /\ y \in DeployState
  BY RunIsActor DEF DeployState, Status, StartedAge
<1>5. \/ st' = SetDeployState(x, old, Coalesce(loc[r].lastGoodSha, old))
      \/ st' = SetDeployState(y, old, Coalesce(old, loc[r].lastGoodSha))
  BY DEF PipelineCatch
<1> HIDE DEF old, x, y
<1>6. AgreeAs(st')
  <2>1. CASE current = None
    BY <2>1 DEF AgreeAs
  <2>2. CASE current # None
    <3>1. /\ Coalesce(loc[r].lastGoodSha, old) \in ShaOrNone
          /\ Coalesce(old, loc[r].lastGoodSha) \in ShaOrNone
      BY <1>2, CoalesceType
    <3> QED
      BY <1>2, <1>3, <1>4, <1>5, <2>2, <3>1, SetDeployStateAgrees
  <2> QED
    BY <2>1, <2>2
<1> QED
  BY <1>1, <1>6 DEF Settles, AgreeAs, LinkedBy, Mid

LEMMA PromoteMoves ==
    ASSUME LiveInv, InPlace, NEW r \in Run,
           \/ PromoteBegin(r) \/ PromoteLink(r) \/ PromoteMigrate(r)
           \/ PromoteRestore(r) \/ RestoreLink(r) \/ PromoteStart(r)
           \/ PromoteHealth(r)
    PROVE  LinkedBy(r)' /\ Moves(r)
<1> USE LiveFacts
<1>1. CASE PromoteBegin(r)
  <2>1. /\ st' = st /\ pc[r] = "promote"
        /\ pc'[r] \in {"promoteLink", "restore", "failing"}
    BY <1>1 DEF PromoteBegin, Only, Goto, TypeOK
  <2> QED
    BY <2>1 DEF Moves, LinkedBy, Mid, Unsettled
<1>2. CASE PromoteLink(r)
  <2>1. /\ st' = st /\ pc[r] = "promoteLink" /\ loc' = loc
        /\ \/ pc'[r] = "migrate" /\ current' = loc[r].target
           \/ pc'[r] = "restore"
    BY <1>2, OnlyAlone DEF PromoteLink, Link
  <2> QED
    BY <2>1 DEF Moves, LinkedBy, Mid, Unsettled
<1>3. CASE PromoteMigrate(r) \/ PromoteStart(r) \/ PromoteHealth(r)
  <2>1. /\ UNCHANGED <<st, current, loc>>
        /\ pc[r] \in {"migrate", "start", "health"}
        /\ pc'[r] \in {"start", "restore", "health", "failing", "rollback",
                       "promoted"}
    BY <1>3, OnlyAlone DEF PromoteMigrate, PromoteStart, PromoteHealth, disk
  <2>2. current = loc[r].target
    BY <2>1 DEF InPlace, LinkedBy
  <2> QED
    BY <2>1, <2>2 DEF Moves, LinkedBy, Mid, Unsettled
<1>4. CASE PromoteRestore(r) \/ RestoreLink(r)
  <2>1. /\ st' = st /\ pc[r] \in {"restore", "restoreLink"}
        /\ pc'[r] \in {"restoreLink", "failing"}
    BY <1>4, OnlyAlone DEF PromoteRestore, RestoreLink
  <2> QED
    BY <2>1 DEF Moves, LinkedBy, Mid, Unsettled
<1> QED
  BY <1>1, <1>2, <1>3, <1>4

LEMMA RollbackSettles ==
    ASSUME LiveInv, InPlace, NEW r \in Run, RollbackStep(r)
    PROVE  LinkedBy(r)' /\ (Settles(r) \/ Moves(r))
<1> USE LiveFacts
<1>1. RollbackReturn(r) => loc' = loc /\ pc'[r] = "failing"
  BY OnlyAlone DEF RollbackReturn
<1>2. CASE RollbackBegin(r)
  <2>1. /\ st' = st /\ pc[r] = "rollback"
        /\ pc'[r] \in {"rollbackLink", "failing"}
    <3>1. /\ st' = st /\ pc[r] = "rollback"
          /\ Only(r, "rollbackLink") \/ RollbackReturn(r)
      BY <1>2 DEF RollbackBegin
    <3> QED
      BY <1>1, <3>1 DEF Only, Goto, TypeOK
  <2> QED
    BY <2>1 DEF Moves, LinkedBy, Mid, Unsettled
<1>3. CASE RollbackLink(r)
  <2>1. /\ st' = st /\ pc[r] = "rollbackLink"
        /\ \/ pc'[r] = "rollbackRestart" /\ current' = loc[r].dest /\ loc' = loc
           \/ pc'[r] = "failing"
    BY <1>1, <1>3, OnlyAlone DEF RollbackLink, Link
  <2> QED
    BY <2>1 DEF Moves, LinkedBy, Mid, Unsettled
<1>4. CASE RollbackRestart(r)
  <2>1. /\ UNCHANGED <<st, current, loc>> /\ pc[r] = "rollbackRestart"
        /\ pc'[r] \in {"rollbackState", "failing"}
    BY <1>1, <1>4, OnlyAlone DEF RollbackRestart, disk
  <2>2. current = loc[r].dest
    BY <2>1 DEF InPlace, LinkedBy
  <2> QED
    BY <2>1, <2>2 DEF Moves, LinkedBy, Mid, Unsettled
<1>5. CASE RollbackState(r)
  <2>1. current' = current /\ pc[r] = "rollbackState" /\ pc'[r] = "failing"
    BY <1>1, <1>5 DEF RollbackState, disk
  <2>2. PICK status \in Status :
          st' = SetDeployState([st EXCEPT !.status = status,
                                          !.targetSha = None, !.runId = None,
                                          !.lockHolder = FALSE],
                               loc[r].dest, loc[r].dest)
    BY <1>5 DEF RollbackState, Status
  <2> DEFINE s == [st EXCEPT !.status = status, !.targetSha = None,
                             !.runId = None, !.lockHolder = FALSE]
  <2>3. s \in DeployState
    BY RunIsActor DEF DeployState
  <2> HIDE DEF s
  <2>4. loc[r].dest = current
    BY <2>1 DEF InPlace, LinkedBy
  <2>5. AgreeAs(st')
    BY <2>2, <2>3, <2>4, SetDeployStateAgrees DEF s
  <2> QED
    BY <2>1, <2>5 DEF Settles, AgreeAs, LinkedBy, Mid
<1> QED
  BY <1>2, <1>3, <1>4, <1>5 DEF RollbackStep

LEMMA OwnerKinds ==
    ASSUME LiveInv, InPlace, NEW r \in Run, PipelineStep(r) \/ RollbackStep(r)
    PROVE  LinkedBy(r)' /\ (Settles(r) \/ Works(r) \/ Moves(r))
<1>1. CASE PipelineStep(r)
  BY <1>1, StartSettles, ScriptWorks, PromoteMoves, FinishSettles, CatchSettles
  DEF PipelineStep
<1>2. CASE RollbackStep(r)
  BY <1>2, RollbackSettles
<1> QED
  BY <1>1, <1>2

\* The others stay out of the way of what the owner has linked.
LEMMA OwnerInPlace ==
    ASSUME LiveInv, NEW r \in Run, mutex = r, Alone(r), LinkedBy(r)'
    PROVE  InPlace'
<1> SUFFICES ASSUME NEW b \in Run, b # r
             PROVE  LinkedBy(b)'
  BY DEF InPlace
<1> QED
  BY OwnerIsAlone DEF LinkedBy

LEMMA AsideInPlace ==
    ASSUME InPlace, Aside, current' = current
    PROVE  InPlace'
BY DEF InPlace, LinkedBy, Aside, Outside

-----------------------------------------------------------------------------
\* With no kill, a deploy that has begun to replace the release gets to its end:
\* AgreeInv is inductive even if the console redeploys and the recovery script is
\* run beside it.

NoKills == Disturbances \cap {"crash", "reboot"} = {}

LEMMA NoKillsAround ==
    ASSUME LiveInv, Unattended, NoKills, NEW r \in Run, pc[r] # "off",
           WatchStep \/ CancelStep \/ OperatorCommand \/ Environment
    PROVE  pc'[r] = pc[r] /\ loc'[r] = loc[r]
<1> USE RunIsActor, ActorAssumption
<1>1. TypeOK /\ cancel.pc = "idle"
  BY DEF LiveInv, IInv, NoOthers
<1>2. CASE WatchStep
  BY <1>1, <1>2 DEF WatchStep, WatchCheck, WatchDecide, Launch, Fresh, Running,
     Goto, TypeOK
<1>3. CASE CancelStep
  BY <1>1, <1>3 DEF CancelStep, CancelKill, CancelReset
<1>4. CASE OperatorCommand
  BY <1>1, <1>4 DEF OperatorCommand, ConsoleRedeploy, Launch, Fresh, Running,
     ManualRollback, CancelBegin, OperatorRecover, Bootstrap, Goto, TypeOK
<1>5. CASE Environment
  BY <1>5 DEF Environment, Push, AgeUpdated, AgeStarted, CancelCrash, Crash,
     Reboot, Fault, NoKills
<1> QED
  BY <1>2, <1>3, <1>4, <1>5

\* A step beside the scripts takes no deploy out of the unsettled ones.
LEMMA BesideSettled ==
    ASSUME LiveInv, SettledAgrees, StateMoves, current' = current,
           \A r \in Run : pc[r] \in Unsettled => pc'[r] = pc[r]
    PROVE  SettledAgrees'
<1> SUFFICES ASSUME \A r \in Run : pc'[r] \notin Unsettled
             PROVE  AgreeAs(st)'
  BY DEF SettledAgrees, Agree
<1>1. \A r \in Run : pc[r] \notin Unsettled
  OBVIOUS
<1>2. AgreeAs(st')
  BY <1>1 DEF SettledAgrees, Agree, StateMoves
<1> QED
  BY <1>2 DEF AgreeAs

LEMMA OwnerSettled ==
    ASSUME LiveInv, SettledAgrees, NEW r \in Run, mutex = r, Alone(r),
           Settles(r) \/ Works(r) \/ Moves(r)
    PROVE  SettledAgrees'
<1>1. \A b \in Run \ {r} : pc[b] \notin Unsettled
  BY OwnerIsAlone DEF Unsettled
<1>2. CASE Settles(r)
  BY <1>2 DEF Settles, SettledAgrees, Agree
<1>3. CASE Works(r)
  <2>1. AgreeAs(st')
    BY <1>1, <1>3 DEF Works, SettledAgrees, Agree, StateMoves
  <2> QED
    BY <1>3, <2>1 DEF Works, SettledAgrees, Agree, AgreeAs
<1>4. CASE Moves(r)
  BY <1>4 DEF Moves, SettledAgrees
<1> QED
  BY <1>2, <1>3, <1>4

LEMMA AgreeStep ==
    ASSUME AgreeInv, Unattended, NoKills, [Next]_vars
    PROVE  AgreeInv'
<1>1. LiveInv' /\ LiveInv
  BY LiveStep DEF AgreeInv
<1>2. TypeOK /\ OperatorOK /\ IInv /\ NoOthers /\ current \in built \cup {None}
  BY DEF AgreeInv, LiveInv, IInv, StoredApproved, Stored, Approved
<1>3. CASE UNCHANGED vars
  <2>1. InPlace'
    BY <1>3 DEF vars, disk, AgreeInv, InPlace, LinkedBy
  <2>2. SettledAgrees'
    BY <1>3 DEF vars, disk, AgreeInv, SettledAgrees, Agree, AgreeAs
  <2> QED
    BY <1>1, <2>1, <2>2 DEF AgreeInv
<1>4. ASSUME NEW a \in Run, LockStep(a)
      PROVE  AgreeInv'
  <2>1. /\ StateMoves /\ current' = current /\ Aside /\ Alone(a)
    BY <1>2, <1>4, LockStepState, LockStepAside, LockStepMove, RunIsActor DEF disk
  <2>2. pc[a] \notin Unsettled
    BY <1>4 DEF LockStep, LockCheck, LockAcquire, LockRelease, LockClear,
                Unsettled
  <2>3. \A r \in Run : pc[r] \in Unsettled => pc'[r] = pc[r]
    BY <2>1, <2>2, RunIsActor DEF Alone
  <2> QED
    BY <1>1, <2>1, <2>3, AsideInPlace, BesideSettled DEF AgreeInv
<1>5. CASE WatchStep \/ CancelStep \/ OperatorCommand \/ Environment
  <2>1. StateMoves /\ current' = current /\ Aside
    BY <1>2, <1>5, AroundState, AroundAside DEF disk
  <2>2. \A r \in Run : pc[r] \in Unsettled => pc'[r] = pc[r]
    BY <1>1, <1>5, NoKillsAround DEF Unsettled
  <2> QED
    BY <1>1, <2>1, <2>2, AsideInPlace, BesideSettled DEF AgreeInv
<1>6. ASSUME NEW r \in Run, PipelineStep(r) \/ RollbackStep(r),
             mutex = r, mutex' = mutex, Alone(r)
      PROVE  AgreeInv'
  <2>1. LinkedBy(r)' /\ (Settles(r) \/ Works(r) \/ Moves(r))
    BY <1>6, OwnerKinds DEF AgreeInv
  <2> QED
    BY <1>1, <1>6, <2>1, OwnerInPlace, OwnerSettled DEF AgreeInv
<1> QED
  BY <1>1, <1>3, <1>4, <1>5, <1>6, StepKinds

LEMMA InitAgrees ==
    ASSUME Init
    PROVE  Agree
<1>1. PICK live \in ShaOrNone : DeployInit(live)
  BY DEF Init
<1>2. DefaultState \in DeployState
  BY DEF DefaultState, DeployState, Status, ShaOrNone, StartedAge, UpdatedAge
<1>3. current = live /\ st = SetDeployState(DefaultState, live, live)
  BY <1>1 DEF DeployInit
<1> QED
  BY <1>2, <1>3, SetDeployStateAgrees DEF Agree

LEMMA AgreeInit ==
    ASSUME Init
    PROVE  AgreeInv
<1>1. \A r \in Run : pc[r] = "off"
  BY RunIsActor DEF Init
<1> QED
  BY <1>1, InitAgrees, LiveInit DEF AgreeInv, InPlace, LinkedBy, SettledAgrees

\* Without kills, cancels, manual rollbacks and bootstraps, the state file names
\* the release in production whenever all is quiet: promotes that fail anywhere,
\* console redeploys beside the watcher's and recoveries of live deploys included.
THEOREM AgreesWithoutKills ==
    ASSUME Unattended, NoKills
    PROVE  Spec => []StateAgrees
<1>1. AgreeInv /\ [Next]_vars => AgreeInv'
  BY AgreeStep
<1>2. AgreeInv => StateAgrees
  <2> SUFFICES ASSUME AgreeInv, Quiet, current # None
               PROVE  current = st.activeSha
    BY DEF StateAgrees
  <2>1. \A r \in Run : pc[r] \notin Unsettled
    BY RunIsActor DEF Quiet, Running, Unsettled
  <2> QED
    BY <2>1 DEF AgreeInv, SettledAgrees, Agree, AgreeAs
<1> QED
  BY <1>1, <1>2, AgreeInit, PTL DEF Spec

-----------------------------------------------------------------------------
\* With kills, it takes the watcher's mutex: while its deploy runs, nothing
\* resets the state of that deploy, and a kill leaves it busy until a reset.

WatcherOnly == ConsoleShas = {} /\ "recover" \notin Disturbances

\* The deploy that runs is the one the watcher runs, and it waits for it.
Sole ==
    /\ \A r \in Run : Running(r) => watchRun = r
    /\ watch = "deciding" => watchRun = None

MidBusy == \A r \in Run : pc[r] \in Mid => Busy(st)

BusyOrAgrees == Busy(st) \/ Agree

WatchInv == LiveInv /\ InPlace /\ Sole /\ MidBusy /\ BusyOrAgrees

\* A deploy that ends is not the watcher's any more.
LEMMA EndSole ==
    ASSUME TypeOK, Sole, NEW a \in Run, Running(a), End(a), watch' = watch
    PROVE  Sole'
<1>1. watchRun = a /\ watchRun' = None
  BY DEF Sole, End
<1>2. \A b \in Run : ~Running(b)'
  <2> SUFFICES ASSUME NEW b \in Run, b # a
               PROVE  ~Running(b)'
    BY EndAlone, RunIsActor DEF Running
  <2>1. ~Running(b)
    BY <1>1 DEF Sole
  <2> QED
    BY <2>1, EndAlone, RunIsActor DEF Alone, Running
<1> QED
  BY <1>1, <1>2 DEF Sole

\* A step that starts no deploy and ends none.
LEMMA StillSole ==
    ASSUME Sole, watchRun' = watchRun, watch' \in {watch, "asleep"},
           \A r \in Run : Running(r)' => Running(r)
    PROVE  Sole'
BY DEF Sole

LEMMA LockStepSole ==
    ASSUME LiveInv, Sole, NEW a \in Run, LockStep(a)
    PROVE  Sole'
<1>1. TypeOK /\ OperatorOK /\ pc[a] # "off" /\ a \in Actor
  BY RunIsActor
  DEF LiveInv, IInv, LockStep, LockCheck, LockAcquire, LockRelease, LockClear
<1>2. CASE End(a)
  BY <1>1, <1>2, EndSole DEF Running, LockStep, LockCheck, LockAcquire,
     LockRelease, LockClear, watcher
<1>3. CASE ~End(a)
  <2>1. watchRun' = watchRun /\ watch' = watch
    BY <1>3 DEF LockStep, LockCheck, LockAcquire, LockRelease, LockClear, watcher
  <2>2. Alone(a)
    BY <1>1, LockStepMove
  <2>3. \A r \in Run : Running(r)' => Running(r)
    BY <1>1, <2>2, RunIsActor DEF Alone, Running
  <2> QED
    BY <2>1, <2>3, StillSole
<1> QED
  BY <1>2, <1>3

LEMMA DecideSole ==
    ASSUME TypeOK, Sole, WatchDecide
    PROVE  Sole'
<1>1. /\ watch = "deciding" /\ watch' = "asleep" /\ watchRun = None
      /\ \A r \in Run : ~Running(r)
  <2>1. watch = "deciding" /\ watch' = "asleep"
    BY DEF WatchDecide
  <2>2. watchRun = None
    BY <2>1 DEF Sole
  <2>3. None \notin Run
    BY RunIsActor, ActorAssumption
  <2> QED
    BY <2>1, <2>2, <2>3 DEF Sole
<1>2. CASE UNCHANGED <<pc, watchRun>>
  BY <1>1, <1>2, StillSole DEF Running
<1>3. CASE \E r \in Run : Launch(r, origin) /\ watchRun' = r
  BY <1>1, <1>3, RunIsActor DEF Launch, Goto, Running, Sole, TypeOK
<1> QED
  BY <1>2, <1>3 DEF WatchDecide

\* Beside the deploy's own scripts, only what runs while none does, time and
\* kills move on.
LEMMA AroundSole ==
    ASSUME LiveInv, Unattended, WatcherOnly, Sole,
           WatchStep \/ CancelStep \/ OperatorCommand \/ Environment
    PROVE  /\ Sole'
           /\ (\E r \in Run : Running(r)) => (Busy(st) => Busy(st'))
<1> USE RunIsActor, ActorAssumption
<1>1. /\ TypeOK /\ cancel.pc = "idle" /\ st \in DeployState
      /\ pc[Operator] = "off" /\ pc[Boot] = "off"
  BY DEF LiveInv, IInv, NoOthers, TypeOK
<1>2. (\E r \in Run : Running(r)) => watchRun # None
  BY DEF Sole
<1>3. CASE WatchCheck
  <2>1. watchRun = None /\ watchRun' = watchRun /\ pc' = pc
    BY <1>3 DEF WatchCheck
  <2> QED
    BY <1>2, <2>1 DEF Sole, Running
<1>4. CASE WatchDecide
  <2>1. watchRun = None
    BY <1>4 DEF WatchDecide, Sole
  <2> QED
    BY <1>1, <1>2, <1>4, <2>1, DecideSole
<1>5. CASE CancelStep \/ OperatorCommand \/ CancelCrash
  BY <1>1, <1>5
  DEF CancelStep, CancelKill, CancelReset, CancelCrash, OperatorCommand,
      ConsoleRedeploy, ManualRollback, CancelBegin, OperatorRecover, Bootstrap,
      Fault, Unattended, WatcherOnly
<1>6. CASE Push \/ AgeUpdated \/ AgeStarted
  <2>1. UNCHANGED <<pc, watchRun, watch>>
    BY <1>6 DEF Push, AgeUpdated, AgeStarted, watcher
  <2>2. st'.status = st.status
    BY <1>1, <1>6 DEF Push, AgeUpdated, AgeStarted, DeployState
  <2> QED
    BY <2>1, <2>2, StillSole DEF Running, Busy
<1>7. ASSUME NEW a \in Actor, Crash(a)
      PROVE  Sole' /\ st' = st
  <2>1. a \in Run /\ Running(a) /\ End(a) /\ watch' = watch /\ st' = st
    BY <1>1, <1>7 DEF Crash, Running, Actor
  <2> QED
    BY <1>1, <2>1, EndSole
<1>8. CASE Reboot
  BY <1>8 DEF Reboot, Sole, Running
<1> QED
  BY <1>3, <1>4, <1>5, <1>6, <1>7, <1>8
  DEF WatchStep, Environment, Reboot

LEMMA OwnerKeepsWatcher ==
    ASSUME TypeOK, NEW r \in Run, PipelineStep(r) \/ RollbackStep(r)
    PROVE  watchRun' = watchRun /\ watch' = watch /\ pc[r] # "off"
BY RunIsActor, ActorAssumption
DEF PipelineStep, PipelineStart, BuildSkip, BuildCheckout, BuildCompile,
    StartValidate, StartPromote, NextStage, Validate, PromoteBegin, PromoteLink,
    PromoteMigrate, PromoteRestore, RestoreLink, PromoteStart, PromoteHealth,
    PipelineFinish, Publish, PruneScan, PruneRemove, PipelineCatch,
    RollbackStep, RollbackBegin, RollbackLink, RollbackRestart, RollbackState,
    RollbackReturn, Only, watcher

LEMMA WatchInvStep ==
    ASSUME WatchInv, Unattended, WatcherOnly, [Next]_vars
    PROVE  WatchInv'
<1>1. LiveInv' /\ LiveInv
  BY LiveStep DEF WatchInv
<1>2. TypeOK /\ OperatorOK /\ IInv /\ NoOthers /\ current \in built \cup {None}
  BY DEF WatchInv, LiveInv, IInv, StoredApproved, Stored, Approved
<1>3. CASE UNCHANGED vars
  <2>1. InPlace'
    BY <1>3 DEF vars, disk, WatchInv, InPlace, LinkedBy
  <2>2. Sole' /\ MidBusy'
    BY <1>3 DEF vars, watcher, WatchInv, Sole, Running, MidBusy, Busy
  <2>3. BusyOrAgrees'
    BY <1>3 DEF vars, disk, WatchInv, BusyOrAgrees, Busy, Agree, AgreeAs
  <2> QED
    BY <1>1, <2>1, <2>2, <2>3 DEF WatchInv
\* Beside the scripts, who is amid a promote goes on being busy.
<1>4. ASSUME StateMoves, current' = current, Aside, Sole',
             \A r \in Run : pc[r] \in Mid /\ pc'[r] = pc[r] => Busy(st')
      PROVE  WatchInv'
  <2>1. InPlace'
    BY <1>4, AsideInPlace DEF WatchInv
  <2>2. MidBusy'
    <3> SUFFICES ASSUME NEW r \in Run, pc'[r] \in Mid
                 PROVE  Busy(st')
      BY DEF MidBusy, Busy
    <3>1. pc'[r] = pc[r]
      BY <1>4 DEF Aside, Outside, Mid
    <3> QED
      BY <1>4, <3>1
  <2>3. BusyOrAgrees'
    <3>1. Busy(st') \/ AgreeAs(st')
      BY <1>4 DEF WatchInv, BusyOrAgrees, Agree, StateMoves
    <3> QED
      BY <1>4, <3>1 DEF BusyOrAgrees, Busy, Agree, AgreeAs
  <2> QED
    BY <1>1, <1>4, <2>1, <2>2, <2>3 DEF WatchInv
<1>5. ASSUME NEW a \in Run, LockStep(a)
      PROVE  WatchInv'
  <2>1. StateMoves /\ current' = current /\ Aside
    BY <1>2, <1>5, LockStepState, LockStepAside, RunIsActor DEF disk
  <2>2. pc[a] \notin Mid /\ pc[a] # "off"
    BY <1>5 DEF LockStep, LockCheck, LockAcquire, LockRelease, LockClear, Mid
  <2>3. \A r \in Run : pc[r] \notin Mid
    BY <2>2 DEF WatchInv, Sole, Running, Mid
  <2>4. Sole'
    BY <1>1, <1>5, LockStepSole DEF WatchInv
  <2> QED
    BY <1>4, <2>1, <2>3, <2>4
<1>6. CASE WatchStep \/ CancelStep \/ OperatorCommand \/ Environment
  <2>1. StateMoves /\ current' = current /\ Aside
    BY <1>2, <1>6, AroundState, AroundAside DEF disk
  <2>2. Sole' /\ ((\E r \in Run : Running(r)) => (Busy(st) => Busy(st')))
    BY <1>1, <1>6, AroundSole DEF WatchInv
  <2>3. \A r \in Run : pc[r] \in Mid => Running(r) /\ Busy(st)
    BY DEF WatchInv, MidBusy, Mid, Running
  <2> QED
    BY <1>4, <2>1, <2>2, <2>3
<1>7. ASSUME NEW r \in Run, PipelineStep(r) \/ RollbackStep(r),
             mutex = r, mutex' = mutex, Alone(r)
      PROVE  WatchInv'
  <2>1. LinkedBy(r)' /\ (Settles(r) \/ Works(r) \/ Moves(r))
    BY <1>7, OwnerKinds DEF WatchInv
  <2>2. InPlace'
    BY <1>1, <1>7, <2>1, OwnerInPlace
  <2>3. Sole'
    <3>1. watchRun' = watchRun /\ watch' = watch /\ pc[r] # "off"
      BY <1>2, <1>7, OwnerKeepsWatcher
    <3>2. \A b \in Run : Running(b)' => Running(b)
      BY <1>7, <3>1, RunIsActor DEF Alone, Running
    <3> QED
      BY <3>1, <3>2, StillSole DEF WatchInv
  <2>4. \A b \in Run \ {r} : pc'[b] \notin Mid
    BY <1>1, <1>7, OwnerIsAlone DEF Mid
  <2>5. CASE Settles(r)
    BY <1>1, <2>2, <2>3, <2>4, <2>5
    DEF Settles, WatchInv, MidBusy, BusyOrAgrees, Agree
  <2>6. CASE Works(r)
    <3>1. Busy(st') \/ AgreeAs(st')
      BY <2>6 DEF Works, WatchInv, BusyOrAgrees, Agree, StateMoves
    <3>2. BusyOrAgrees'
      BY <2>6, <3>1 DEF Works, BusyOrAgrees, Busy, Agree, AgreeAs
    <3>3. MidBusy'
      BY <2>4, <2>6 DEF Works, MidBusy, Busy
    <3> QED
      BY <1>1, <2>2, <2>3, <3>2, <3>3 DEF WatchInv
  <2>7. CASE Moves(r)
    <3>1. Busy(st')
      BY <2>7 DEF Moves, WatchInv, MidBusy
    <3>2. BusyOrAgrees' /\ MidBusy'
      BY <3>1 DEF BusyOrAgrees, MidBusy, Busy
    <3> QED
      BY <1>1, <2>2, <2>3, <3>2 DEF WatchInv
  <2> QED
    BY <2>1, <2>5, <2>6, <2>7
<1> QED
  BY <1>1, <1>3, <1>5, <1>6, <1>7, StepKinds

LEMMA WatchInvInit ==
    ASSUME Init
    PROVE  WatchInv
<1>1. /\ \A r \in Run : pc[r] = "off"
      /\ watch = "asleep"
  BY RunIsActor DEF Init
<1> QED
  BY <1>1, InitAgrees, LiveInit
  DEF WatchInv, InPlace, LinkedBy, Sole, Running, MidBusy, Mid, BusyOrAgrees

\* When only the watcher starts deploys and only the watcher recovers them, the
\* state file names the release in production whenever all is quiet, wherever a
\* deploy was killed and however often the machine went down.
THEOREM AgreesThroughKills ==
    ASSUME Unattended, WatcherOnly
    PROVE  Spec => []StateAgrees
<1>1. WatchInv /\ [Next]_vars => WatchInv'
  BY WatchInvStep
<1>2. WatchInv => StateAgrees
  BY DEF WatchInv, BusyOrAgrees, Agree, AgreeAs, StateAgrees, Quiet
<1> QED
  BY <1>1, <1>2, WatchInvInit, PTL DEF Spec

-----------------------------------------------------------------------------
\* When the junctions can be made, nothing is killed and nobody restarts the
\* services by hand, what runs is what the junction points to, or a deploy is
\* between the junction and the services.

OnlyStatusFails == Disturbances \subseteq {"statusfail"}

\* A release that is built is there, and so is one that is being built.
Contained ==
    /\ built \subseteq releases
    /\ \A r \in Run : pc[r] = "compile" => loc[r].target \in releases

Switching == {"promoteLink", "migrate", "restore", "restoreLink",
              "rollbackLink", "rollbackRestart"}

Steady == serving \in {None, current}

\* A deploy that may put the old release back knows that the services run it.
ServedBy(r) ==
    /\ pc[r] \in {"promoteLink", "migrate", "restore", "restoreLink"}
         => serving \in {None, loc[r].dest}
    /\ pc[r] \in {"promoteLink", "restoreLink", "rollbackLink"}
         => current = None

SettledServes ==
    /\ (\A r \in Run : pc[r] \notin Switching) => Steady
    /\ \A r \in Run : ServedBy(r)

ServeInv == AgreeInv /\ Contained /\ SettledServes

LEMMA OnlyStatusFailsMeans ==
    ASSUME OnlyStatusFails
    PROVE  Unattended /\ NoKills /\ ~LinkMayFail /\ "recover" \notin Disturbances
BY DEF OnlyStatusFails, Unattended, NoKills, LinkMayFail

LEMMA AroundServes ==
    ASSUME OnlyStatusFails, NoOthers,
           WatchStep \/ CancelStep \/ OperatorCommand \/ Environment
    PROVE  serving' = serving
BY OnlyStatusFailsMeans
DEF WatchStep, WatchCheck, WatchDecide, CancelStep, CancelKill, CancelReset,
    OperatorCommand, ConsoleRedeploy, ManualRollback, CancelBegin,
    OperatorRecover, Bootstrap, Environment, Push, AgeUpdated, AgeStarted, Crash,
    CancelCrash, Reboot, Fault, NoKills

\* A step beside the scripts.
LEMMA BesideServes ==
    ASSUME Contained, SettledServes, Aside,
           UNCHANGED <<current, releases, built, serving>>,
           \A r \in Run : pc[r] \in Unsettled => pc'[r] = pc[r]
    PROVE  Contained' /\ SettledServes'
<1>1. Contained'
  <2> SUFFICES ASSUME NEW r \in Run, pc'[r] = "compile"
               PROVE  loc'[r].target \in releases
    BY DEF Contained
  <2> QED
    BY DEF Contained, Aside, Outside
<1>2. \A r \in Run : ServedBy(r)'
  <2> SUFFICES ASSUME NEW r \in Run
               PROVE  ServedBy(r)'
    OBVIOUS
  <2> QED
    BY DEF SettledServes, ServedBy, Aside, Outside
<1>3. (\A r \in Run : pc'[r] \notin Switching) => Steady'
  BY DEF SettledServes, Steady, Switching, Unsettled
<1> QED
  BY <1>1, <1>2, <1>3 DEF SettledServes

\* The owner's own step: what it leaves of the releases, and whether the
\* services run what it has linked.
OwnContained(r) ==
    built \subseteq releases /\ (pc[r] = "compile" => loc[r].target \in releases)

OwnServes(r) == ServedBy(r) /\ (pc[r] \notin Switching => Steady)

LEMMA OwnerContained ==
    ASSUME LiveInv, Contained, NEW r \in Run, PipelineStep(r) \/ RollbackStep(r)
    PROVE  OwnContained(r)'
<1> USE LiveFacts
<1>1. RollbackReturn(r) => pc'[r] = "failing"
  BY OnlyAlone DEF RollbackReturn
<1>2. CASE BuildCheckout(r)
  <2>1. /\ built' = built \ {loc[r].target} /\ loc' = loc
        /\ \/ releases' = releases \cup {loc[r].target}
           \/ /\ releases' \in {releases, releases \ {loc[r].target}}
              /\ pc'[r] = "failing"
    BY <1>2, OnlyAlone DEF BuildCheckout
  <2> QED
    BY <2>1 DEF Contained, OwnContained
<1>3. CASE BuildCompile(r)
  <2>1. /\ built' \in {built, built \cup {loc[r].target}} /\ releases' = releases
        /\ pc[r] = "compile" /\ pc'[r] \in {"built", "failing"}
    BY <1>3, OnlyAlone DEF BuildCompile
  <2> QED
    BY <2>1 DEF Contained, OwnContained
<1>4. CASE PruneRemove(r)
  <2>1. PICK gone : releases' = releases \ gone /\ built' = built \ gone
    BY <1>4 DEF PruneRemove
  <2>2. pc'[r] = "exit"
    BY <1>4, OnlyAlone DEF PruneRemove
  <2> QED
    BY <2>1, <2>2 DEF Contained, OwnContained
<1>5. CASE RollbackStep(r)
  <2>1. built' = built /\ releases' = releases
    BY <1>5 DEF RollbackStep, RollbackBegin, RollbackLink, RollbackRestart,
                RollbackState, disk
  <2>2. pc'[r] # "compile"
    BY <1>1, <1>5
    DEF RollbackStep, RollbackBegin, RollbackLink, RollbackRestart,
        RollbackState, Only, Goto, TypeOK
  <2> QED
    BY <2>1, <2>2 DEF Contained, OwnContained
<1>6. CASE PipelineStep(r) /\ ~BuildCheckout(r) /\ ~BuildCompile(r)
           /\ ~PruneRemove(r)
  <2>1. built' = built /\ releases' = releases
    BY <1>6
    DEF PipelineStep, PipelineStart, BuildSkip, StartValidate, StartPromote,
        NextStage, Validate, PromoteBegin, PromoteLink, PromoteMigrate,
        PromoteRestore, RestoreLink, PromoteStart, PromoteHealth,
        PipelineFinish, Publish, PruneScan, PipelineCatch, disk
  <2>2. pc'[r] # "compile"
    BY <1>6
    DEF PipelineStep, PipelineStart, BuildSkip, StartValidate, StartPromote,
        NextStage, Validate, PromoteBegin, PromoteLink, PromoteMigrate,
        PromoteRestore, RestoreLink, PromoteStart, PromoteHealth,
        PipelineFinish, Publish, PruneScan, PipelineCatch, Only, Goto, TypeOK
  <2> QED
    BY <2>1, <2>2 DEF Contained, OwnContained
<1> QED
  BY <1>2, <1>3, <1>4, <1>5, <1>6

\* promote_release.ps1 begins on a settled environment, and what it will put
\* back is what the services run.
LEMMA PromoteBeginServes ==
    ASSUME LiveInv, OnlyStatusFails, Agree, NEW r \in Run, OwnServes(r),
           PromoteBegin(r)
    PROVE  OwnServes(r)'
<1> USE LiveFacts, OnlyStatusFailsMeans
<1> DEFINE old == Coalesce(st.activeSha, Preserved(st))
<1>1. serving \in {None, current} /\ serving' = serving
  BY DEF PromoteBegin, OwnServes, Steady, Switching
<1>2. current # None => old = current
  BY DEF Agree, AgreeAs, Coalesce
<1>3. CASE loc[r].target \in releases
  <2>1. /\ loc' = [loc EXCEPT ![r].dest = old] /\ current' = None
        /\ Only(r, "promoteLink")
    BY <1>3 DEF PromoteBegin
  <2> HIDE DEF old
  <2>2. pc'[r] = "promoteLink" /\ loc'[r].dest = old
    BY <2>1 DEF Only, Goto, TypeOK, Locals
  <2> QED
    BY <1>1, <1>2, <2>1, <2>2 DEF OwnServes, ServedBy, Switching
<1>4. CASE loc[r].target \notin releases
  <2>1. pc'[r] = "failing" /\ current' = current
    BY <1>4, OnlyAlone DEF PromoteBegin
  <2> QED
    BY <1>1, <2>1 DEF OwnServes, ServedBy, Switching, Steady
<1> QED
  BY <1>3, <1>4

LEMMA PromoteServes ==
    ASSUME LiveInv, OnlyStatusFails, Contained, NEW r \in Run, OwnServes(r),
           \/ PromoteLink(r) \/ PromoteMigrate(r) \/ PromoteRestore(r)
           \/ RestoreLink(r) \/ PromoteStart(r) \/ PromoteHealth(r)
    PROVE  OwnServes(r)'
<1> USE LiveFacts, OnlyStatusFailsMeans
<1>1. CASE PromoteLink(r)
  <2>1. serving \in {None, loc[r].dest} /\ current = None
    BY <1>1 DEF PromoteLink, OwnServes, ServedBy
  <2>2. pc'[r] = "migrate" /\ loc' = loc /\ serving' = serving
    BY <1>1, <2>1, OnlyAlone DEF PromoteLink, LinkFails
  <2> QED
    BY <2>1, <2>2 DEF OwnServes, ServedBy, Switching
<1>2. CASE PromoteMigrate(r)
  <2>1. serving \in {None, loc[r].dest}
    BY <1>2 DEF PromoteMigrate, OwnServes, ServedBy
  <2>2. /\ loc' = loc /\ current' = current
        /\ \/ serving' = None /\ pc'[r] = "start"
           \/ serving' \in {serving, None} /\ pc'[r] = "restore"
    BY <1>2, OnlyAlone DEF PromoteMigrate, disk
  <2> QED
    BY <2>1, <2>2 DEF OwnServes, ServedBy, Switching, Steady
<1>3. CASE PromoteRestore(r)
  <2>1. serving \in {None, loc[r].dest} /\ loc[r].dest \in Approved \cup {None}
    BY <1>3 DEF PromoteRestore, OwnServes, ServedBy, OwnLive, Replacing
  <2>2. loc[r].dest \notin releases => serving = None
    BY <2>1 DEF Contained, Approved
  <2>3. /\ loc' = loc /\ serving' = serving
        /\ \/ current' = None /\ pc'[r] = "restoreLink"
           \/ loc[r].dest \notin releases /\ pc'[r] = "failing"
    BY <1>3, OnlyAlone DEF PromoteRestore
  <2> QED
    BY <2>1, <2>2, <2>3 DEF OwnServes, ServedBy, Switching, Steady
<1>4. CASE RestoreLink(r)
  <2>1. serving \in {None, loc[r].dest} /\ current = None
    BY <1>4 DEF RestoreLink, OwnServes, ServedBy
  <2>2. pc'[r] = "failing" /\ current' = loc[r].dest /\ serving' = serving
    BY <1>4, <2>1, OnlyAlone DEF RestoreLink, Link, LinkFails
  <2> QED
    BY <2>1, <2>2 DEF OwnServes, ServedBy, Switching, Steady
<1>5. CASE PromoteStart(r) \/ PromoteHealth(r)
  <2>1. pc[r] \in {"start", "health"} => serving \in {None, current}
    BY DEF OwnServes, Switching, Steady
  <2>2. /\ serving' \in {serving, current, None} /\ current' = current
        /\ pc[r] \in {"start", "health"}
        /\ pc'[r] \in {"health", "failing", "rollback", "promoted"}
    BY <1>5, OnlyAlone DEF PromoteStart, PromoteHealth, disk
  <2> QED
    BY <2>1, <2>2 DEF OwnServes, ServedBy, Switching, Steady
<1> QED
  BY <1>1, <1>2, <1>3, <1>4, <1>5

LEMMA RollbackServes ==
    ASSUME LiveInv, OnlyStatusFails, NEW r \in Run, OwnServes(r), RollbackStep(r)
    PROVE  OwnServes(r)'
<1> USE LiveFacts, OnlyStatusFailsMeans
<1>1. RollbackReturn(r) => pc'[r] = "failing"
  BY OnlyAlone DEF RollbackReturn
<1>2. CASE RollbackBegin(r)
  <2>1. /\ serving' = serving /\ pc[r] = "rollback"
        /\ \/ current' = None /\ Only(r, "rollbackLink")
           \/ current' = current /\ RollbackReturn(r)
    BY <1>2 DEF RollbackBegin
  <2>2. Only(r, "rollbackLink") => pc'[r] = "rollbackLink"
    BY DEF Only, Goto, TypeOK
  <2> QED
    BY <1>1, <2>1, <2>2 DEF OwnServes, ServedBy, Switching, Steady
<1>3. CASE RollbackLink(r)
  <2>1. current = None
    BY <1>3 DEF RollbackLink, OwnServes, ServedBy
  <2>2. pc'[r] = "rollbackRestart"
    BY <1>3, <2>1, OnlyAlone DEF RollbackLink, LinkFails
  <2> QED
    BY <2>2 DEF OwnServes, ServedBy, Switching
<1>4. CASE RollbackRestart(r)
  <2>1. /\ serving' \in {current, None} /\ current' = current
        /\ pc'[r] \in {"rollbackState", "failing"}
    BY <1>1, <1>4, OnlyAlone DEF RollbackRestart, disk
  <2> QED
    BY <2>1 DEF OwnServes, ServedBy, Switching, Steady
<1>5. CASE RollbackState(r)
  <2>1. /\ UNCHANGED <<serving, current>>
        /\ pc[r] = "rollbackState" /\ pc'[r] = "failing"
    BY <1>1, <1>5 DEF RollbackState, disk
  <2> QED
    BY <2>1 DEF OwnServes, ServedBy, Switching, Steady
<1> QED
  BY <1>2, <1>3, <1>4, <1>5 DEF RollbackStep

\* The rest of the pipeline touches neither the junction nor the services.
LEMMA OwnerServes ==
    ASSUME LiveInv, OnlyStatusFails, Contained, NEW r \in Run, OwnServes(r),
           pc[r] \notin Unsettled => Agree,
           PipelineStep(r) \/ RollbackStep(r)
    PROVE  OwnServes(r)'
<1> USE LiveFacts
<1>1. CASE PromoteBegin(r)
  <2>1. Agree
    BY <1>1 DEF PromoteBegin, Unsettled
  <2> QED
    BY <1>1, <2>1, PromoteBeginServes
<1>2. CASE \/ PromoteLink(r) \/ PromoteMigrate(r) \/ PromoteRestore(r)
           \/ RestoreLink(r) \/ PromoteStart(r) \/ PromoteHealth(r)
  BY <1>2, PromoteServes
<1>3. CASE RollbackStep(r)
  BY <1>3, RollbackServes
<1>4. CASE PipelineStart(r) \/ PruneScan(r)
  <2>1. /\ UNCHANGED <<current, serving>> /\ pc[r] \in {"init", "prune"}
        /\ pc'[r] \in {"build", "failing", "remove"}
    BY <1>4 DEF PipelineStart, PruneScan, Only, Goto, TypeOK, disk
  <2> QED
    BY <2>1 DEF OwnServes, ServedBy, Switching, Steady
<1>5. CASE \/ BuildSkip(r) \/ BuildCheckout(r) \/ BuildCompile(r)
           \/ StartValidate(r) \/ Validate(r) \/ StartPromote(r)
           \/ PipelineFinish(r) \/ Publish(r) \/ PruneRemove(r)
           \/ PipelineCatch(r)
  <2>1. /\ UNCHANGED <<current, serving>> /\ pc[r] \notin Switching
        /\ pc'[r] \notin Switching
    BY <1>5, OnlyAlone, GotoAlone
    DEF BuildSkip, BuildCheckout, BuildCompile, StartValidate, StartPromote,
        NextStage, Validate, PipelineFinish, Publish, PruneRemove,
        PipelineCatch, disk, Switching
  <2> QED
    BY <2>1 DEF OwnServes, ServedBy, Switching, Steady
<1> QED
  BY <1>1, <1>2, <1>3, <1>4, <1>5 DEF PipelineStep

LEMMA ServeStep ==
    ASSUME ServeInv, OnlyStatusFails, [Next]_vars
    PROVE  ServeInv'
<1> USE OnlyStatusFailsMeans
<1>1. AgreeInv' /\ AgreeInv /\ LiveInv
  BY AgreeStep DEF ServeInv, AgreeInv
<1>2. /\ TypeOK /\ OperatorOK /\ IInv /\ NoOthers /\ current \in built \cup {None}
      /\ Contained /\ SettledServes
  BY DEF ServeInv, AgreeInv, LiveInv, IInv, StoredApproved, Stored, Approved
<1>3. CASE UNCHANGED vars
  BY <1>1, <1>2, <1>3
  DEF vars, disk, ServeInv, Contained, SettledServes, ServedBy, Steady
<1>4. ASSUME NEW a \in Run, LockStep(a)
      PROVE  ServeInv'
  <2>1. /\ UNCHANGED <<current, releases, built, serving>> /\ Aside /\ Alone(a)
    BY <1>2, <1>4, LockStepState, LockStepAside, LockStepMove, RunIsActor DEF disk
  <2>2. pc[a] \notin Unsettled
    BY <1>4 DEF LockStep, LockCheck, LockAcquire, LockRelease, LockClear,
                Unsettled
  <2>3. \A r \in Run : pc[r] \in Unsettled => pc'[r] = pc[r]
    BY <2>1, <2>2, RunIsActor DEF Alone
  <2> QED
    BY <1>1, <1>2, <2>1, <2>3, BesideServes DEF ServeInv
<1>5. CASE WatchStep \/ CancelStep \/ OperatorCommand \/ Environment
  <2>1. UNCHANGED <<current, releases, built, serving>> /\ Aside
    BY <1>2, <1>5, AroundState, AroundAside, AroundServes DEF disk
  <2>2. \A r \in Run : pc[r] \in Unsettled => pc'[r] = pc[r]
    BY <1>1, <1>5, NoKillsAround DEF Unsettled
  <2> QED
    BY <1>1, <1>2, <2>1, <2>2, BesideServes DEF ServeInv
<1>6. ASSUME NEW r \in Run, PipelineStep(r) \/ RollbackStep(r),
             mutex = r, mutex' = mutex, Alone(r)
      PROVE  ServeInv'
  <2>1. \A b \in Run \ {r} :
          /\ pc'[b] = pc[b] /\ loc'[b] = loc[b]
          /\ pc[b] \in {"off", "enter", "acquire", "clearHolder"}
    BY <1>1, <1>6, OwnerIsAlone
  <2>2. OwnServes(r)
    BY <1>2, <2>1 DEF SettledServes, OwnServes, Switching
  <2>3. pc[r] \notin Unsettled => Agree
    BY <1>1, <2>1 DEF AgreeInv, SettledAgrees, Unsettled
  <2>4. OwnServes(r)' /\ OwnContained(r)'
    BY <1>1, <1>2, <1>6, <2>2, <2>3, OwnerServes, OwnerContained
  <2>5. Contained'
    BY <2>1, <2>4 DEF OwnContained, Contained
  <2>6. SettledServes'
    BY <2>1, <2>4 DEF OwnServes, SettledServes, ServedBy
  <2> QED
    BY <1>1, <2>5, <2>6 DEF ServeInv
<1> QED
  BY <1>1, <1>3, <1>4, <1>5, <1>6, StepKinds

LEMMA ServeInit ==
    ASSUME Init
    PROVE  ServeInv
<1>1. PICK live \in ShaOrNone : DeployInit(live)
  BY DEF Init
<1>2. /\ \A r \in Run : pc[r] = "off"
      /\ built = releases /\ current = serving
  BY <1>1, RunIsActor DEF Init, DeployInit
<1> QED
  BY <1>2, AgreeInit
  DEF ServeInv, Contained, SettledServes, ServedBy, Steady

\* When no junction fails to be made, nothing is killed and the services are
\* left to the deploys, whatever fails in a deploy leaves the services on the
\* release the junction points to once all is quiet.
THEOREM ServesWhatIsCurrent ==
    ASSUME OnlyStatusFails
    PROVE  Spec => []ServesCurrent
<1>1. ServeInv /\ [Next]_vars => ServeInv'
  BY ServeStep
<1>2. ServeInv => ServesCurrent
  <2> SUFFICES ASSUME ServeInv, Quiet
               PROVE  Steady
    BY DEF ServesCurrent, Steady
  <2> QED
    BY RunIsActor DEF ServeInv, SettledServes, Quiet, Running, Switching
<1> QED
  BY <1>1, <1>2, ServeInit, PTL DEF Spec
==============================================================================
