------------------------------ MODULE SyncProofs ------------------------------
(***************************************************************************)
(* Proofs of the bot-to-database queue, for any number of rows, keys,      *)
(* hooks, polls and drains.                                                *)
(***************************************************************************)
EXTENDS SyncProperties, TLAPS

Point == HookPoint \cup PollerPoint \cup DrainPoint

-----------------------------------------------------------------------------
\* The types are preserved.

\* What an attempt to start a drain does to the program counters.
LEMMA SpawnType ==
    ASSUME TypeOK, NEW a \in Hook \cup Recoverer, NEW next \in Point,
           NEW cooling \in BOOLEAN, Spawn(a, cooling, next),
           a \in Hook => next \in HookPoint,
           a \in Poller => next \in PollerPoint,
           a \in Drain => next \in DrainPoint
    PROVE  /\ pc' \in [Hook \cup Recoverer -> Point]
           /\ \A h \in Hook : pc'[h] \in HookPoint
           /\ \A p \in Poller : pc'[p] \in PollerPoint
           /\ \A d \in Drain : pc'[d] \in DrainPoint
           /\ cool' \in BOOLEAN /\ faults' \in Nat
  <1>1. CASE /\ cooling \/ lock # None
             /\ Step(a, next)
             /\ UNCHANGED <<cool, faults>>
    BY <1>1 DEF TypeOK, Step, Point
  <1>2. CASE /\ \E d \in Drain : pc' = [pc EXCEPT ![a] = next, ![d] = "start"]
             /\ cool' = (cool \/ a \notin Drain)
             /\ UNCHANGED faults
    BY <1>2, SyncActors DEF TypeOK, Point, Recoverer, DrainPoint
  <1>3. CASE Fault("nospawn") /\ Step(a, next) /\ UNCHANGED cool
    BY <1>3 DEF TypeOK, Step, Point, Fault
  <1>. QED  BY <1>1, <1>2, <1>3 DEF Spawn

LEMMA VerdictType ==
    ASSUME NEW j \in Row
    PROVE  Verdict(j) \in [job : Row, status : {"failed", "pending"}]
  BY DEF Verdict

LEMMA ClaimedType ==
    ASSUME NEW row \in Job
    PROVE  Claimed(row) \in Job
  <1>. row.attempts \in Nat /\ row.attempts + 1 \in Nat
    BY DEF Job
  <1>. QED  BY DEF Claimed, Job, JobStatus

LEMMA InitType == Init => TypeOK
  <1>. SUFFICES ASSUME Init PROVE TypeOK
    OBVIOUS
  <1>1. rows \in [Row -> Job]
    BY DEF Init, Job, JobStatus
  <1>2. /\ pc \in [Hook \cup Recoverer -> Point]
        /\ \A h \in Hook : pc[h] \in HookPoint
        /\ \A p \in Poller : pc[p] \in PollerPoint
        /\ \A d \in Drain : pc[d] \in DrainPoint
    BY SyncActors DEF Init, Point, HookPoint, PollerPoint, DrainPoint, Recoverer
  <1>3. taken \in [Drain -> 0..MaxJobs]
    BY SyncBounds DEF Init
  <1>. QED  BY <1>1, <1>2, <1>3 DEF Init, TypeOK, Point

LEMMA EnqueueType ==
    ASSUME TypeOK, NEW h \in Hook, EnqueueStep(h)
    PROVE  TypeOK'
  <1>1. CASE EnqueueCheck(h)
    BY <1>1, KeysAreKeys, SyncActors
    DEF EnqueueCheck, TypeOK, Step, HookPoint, Recoverer
  <1>2. CASE EnqueueCreate(h)
    <2>1. rows' \in [Row -> Job]
      <3>1. PICK j \in Row :
              rows' = [rows EXCEPT ![j].status = "pending", ![j].key = want[h]]
        BY <1>2 DEF EnqueueCreate, Oldest, With
      <3>. want[h] \in Key \cup {None}
        BY DEF TypeOK
      <3>. DEFINE row == [rows[j] EXCEPT !.status = "pending", !.key = want[h]]
      <3>2. rows[j] \in Job
        BY DEF TypeOK
      <3>3. row \in Job
        BY <3>2 DEF Job, JobStatus
      <3>4. rows' = [rows EXCEPT ![j] = row]
        BY <3>1, <3>2 DEF TypeOK, Job
      <3>. HIDE DEF row
      <3>. QED  BY <3>3, <3>4 DEF TypeOK
    <2>2. /\ pc' \in [Hook \cup Recoverer -> Point]
          /\ \A g \in Hook : pc'[g] \in HookPoint
          /\ \A p \in Poller : pc'[p] \in PollerPoint
          /\ \A d \in Drain : pc'[d] \in DrainPoint
      BY <1>2, SyncActors DEF EnqueueCreate, TypeOK, Step, Point, HookPoint
    <2>. QED  BY <1>2, <2>1, <2>2 DEF EnqueueCreate, TypeOK, Point
  <1>3. CASE EnqueueSpawn(h)
    <2>. h \in Hook \cup Recoverer /\ "idle" \in Point
      BY DEF Point, HookPoint
    <2>. cool \in BOOLEAN /\ h \notin Poller /\ h \notin Drain
      BY SyncActors DEF TypeOK
    <2>1. /\ pc' \in [Hook \cup Recoverer -> Point]
          /\ \A g \in Hook : pc'[g] \in HookPoint
          /\ \A p \in Poller : pc'[p] \in PollerPoint
          /\ \A d \in Drain : pc'[d] \in DrainPoint
          /\ cool' \in BOOLEAN /\ faults' \in Nat
      BY <1>3, SpawnType DEF EnqueueSpawn, HookPoint
    <2>. QED  BY <1>3, <2>1 DEF EnqueueSpawn, TypeOK, Point
  <1>. QED  BY <1>1, <1>2, <1>3 DEF EnqueueStep

LEMMA RecoveryType ==
    ASSUME TypeOK, NEW a \in Recoverer, Recovery(a)
    PROVE  TypeOK'
  <1>. \A j \in Row : Verdict(j) \in [job : Row, status : {"failed", "pending"}]
    BY VerdictType
  <1>1. CASE ReadOrphans(a)
    BY <1>1, SyncActors
    DEF ReadOrphans, TypeOK, Step, Recoverer, With, PollerPoint, DrainPoint
  <1>2. CASE ReadStale(a)
    BY <1>2, SyncActors
    DEF ReadStale, TypeOK, Step, Recoverer, With, PollerPoint, DrainPoint,
        AfterRecovery
  <1>3. CASE Requeue(a)
    <2>. PICK v \in todo[a] :
           /\ rows' = [rows EXCEPT ![v.job].status = v.status,
                                   ![v.job].old = FALSE, ![v.job].oom = FALSE]
           /\ todo' = [todo EXCEPT ![a] = @ \ {v}]
           /\ blind' = IF Orphan(v.job) /\ v = Verdict(v.job)
                       THEN blind ELSE blind \cup {v.job}
      BY <1>3 DEF Requeue
    <2>. v \in [job : Row, status : {"failed", "pending"}]
      BY DEF TypeOK
    <2>1. rows' \in [Row -> Job]
      BY DEF TypeOK, Job, JobStatus
    <2>2. blind' \subseteq Row /\ todo' \in [Recoverer ->
                   SUBSET [job : Row, status : {"failed", "pending"}]]
      BY DEF TypeOK
    <2>. QED  BY <2>1, <2>2, <1>3 DEF Requeue, TypeOK
  <1>4. CASE EndStale(a)
    BY <1>4, SyncActors
    DEF EndStale, TypeOK, Step, Recoverer, PollerPoint, DrainPoint, AfterRecovery
  <1>. QED  BY <1>1, <1>2, <1>3, <1>4 DEF Recovery

LEMMA PollType ==
    ASSUME TypeOK, NEW p \in Poller, PollStep(p)
    PROVE  TypeOK'
  <1>1. CASE PollBegin(p)
    BY <1>1, SyncActors DEF PollBegin, TypeOK, Step, PollerPoint, Recoverer
  <1>2. CASE PollRelease(p)
    BY <1>2, SyncActors DEF PollRelease, TypeOK, Step, PollerPoint, Recoverer
  <1>3. CASE PollRearm(p)
    <2>. p \in Hook \cup Recoverer /\ "idle" \in Point /\ "idle" \in PollerPoint
      BY DEF Point, PollerPoint, Recoverer
    <2>. cool \in BOOLEAN /\ p \notin Hook /\ p \notin Drain
      BY SyncActors DEF TypeOK
    <2>1. CASE Pending # {}
      <3>1. /\ pc' \in [Hook \cup Recoverer -> Point]
            /\ \A g \in Hook : pc'[g] \in HookPoint
            /\ \A q \in Poller : pc'[q] \in PollerPoint
            /\ \A d \in Drain : pc'[d] \in DrainPoint
            /\ cool' \in BOOLEAN /\ faults' \in Nat
        BY <1>3, <2>1, SpawnType DEF PollRearm
      <3>. QED  BY <1>3, <3>1 DEF PollRearm, TypeOK, Point
    <2>2. CASE Pending = {}
      <3>1. Step(p, "idle") /\ UNCHANGED <<cool, faults>>
        BY <1>3, <2>2 DEF PollRearm
      <3>. QED  BY <1>3, <3>1 DEF PollRearm, TypeOK, Step, Point
    <2>. QED  BY <2>1, <2>2
  <1>4. CASE Recovery(p)
    BY <1>4, RecoveryType DEF Recoverer
  <1>. QED  BY <1>1, <1>2, <1>3, <1>4 DEF PollStep

LEMMA DrainType ==
    ASSUME TypeOK, NEW d \in Drain, DrainStep(d) \/ Crash(d)
    PROVE  TypeOK'
  <1>. d \in Hook \cup Recoverer /\ d \notin Hook /\ d \notin Poller
    BY SyncActors DEF Recoverer
  <1>0. CASE DrainAcquire(d)
    BY <1>0 DEF DrainAcquire, TypeOK, Step, DrainPoint
  <1>1. CASE DrainSkip(d)
    BY <1>1 DEF DrainSkip, TypeOK, Step, DrainPoint
  <1>2. CASE Recovery(d)
    BY <1>2, RecoveryType DEF Recoverer
  <1>3. CASE Claim(d)
    <2>1. PICK j \in Row :
            /\ rows' = [rows EXCEPT ![j] = Claimed(@)]
            /\ work' = [work EXCEPT ![d] =
                 @ \cup {[job |-> j, attempts |-> rows[j].attempts + 1]}]
      BY <1>3 DEF Claim, Oldest, Pending, With
    <2>. rows[j] \in Job
      BY DEF TypeOK
    <2>. Claimed(rows[j]) \in Job
      BY ClaimedType
    <2>2. rows' \in [Row -> Job]
      BY <2>1 DEF TypeOK
    <2>3. work' \in [Drain -> SUBSET [job : Row, attempts : Nat]]
      BY <2>1 DEF TypeOK, Job
    <2>4. taken' \in [Drain -> 0..MaxJobs]
      BY <1>3, SyncBounds DEF Claim, MayTake, TypeOK
    <2>. QED  BY <1>3, <2>2, <2>3, <2>4 DEF Claim, TypeOK
  <1>4. CASE DrainIdle(d)
    BY <1>4 DEF DrainIdle, TypeOK, Step, Fault, DrainPoint
  <1>5. CASE DrainRelease(d)
    BY <1>5, SyncBounds DEF DrainRelease, TypeOK, Step, DrainPoint
  <1>6. CASE DrainRespawn(d)
    <2>. "off" \in DrainPoint /\ "off" \in Point
      BY DEF DrainPoint, Point
    <2>1. CASE Spawn(d, FALSE, "off")
      <3>1. /\ pc' \in [Hook \cup Recoverer -> Point]
            /\ \A g \in Hook : pc'[g] \in HookPoint
            /\ \A q \in Poller : pc'[q] \in PollerPoint
            /\ \A e \in Drain : pc'[e] \in DrainPoint
            /\ cool' \in BOOLEAN /\ faults' \in Nat
        BY <2>1, SpawnType
      <3>. QED  BY <1>6, <3>1 DEF DrainRespawn, TypeOK, Point
    <2>2. CASE Step(d, "off") /\ UNCHANGED <<cool, faults>>
      BY <1>6, <2>2 DEF DrainRespawn, TypeOK, Step, Point
    <2>. QED  BY <1>6, <2>1, <2>2 DEF DrainRespawn
  <1>7. CASE Crash(d)
    <2>1. taken' \in [Drain -> 0..MaxJobs]
      BY <1>7, SyncBounds DEF Crash, TypeOK
    <2>. QED  BY <1>7, <2>1 DEF Crash, TypeOK, Step, Fault, DrainPoint, Recoverer
  <1>. QED  BY <1>0, <1>1, <1>2, <1>3, <1>4, <1>5, <1>6, <1>7 DEF DrainStep

LEMMA FinishType ==
    ASSUME TypeOK, NEW d \in Drain, NEW w \in work[d], Finish(d, w)
    PROVE  TypeOK'
  <1>. PICK outcome \in Ended, oom \in BOOLEAN :
         /\ rows' = [rows EXCEPT
              ![w.job].status = IF Retries(w, outcome) THEN "pending" ELSE outcome,
              ![w.job].oom = oom /\ Retries(w, outcome), ![w.job].old = FALSE]
         /\ mute' \in IF oom THEN {mute, mute \cup {d}} ELSE {mute}
    BY DEF Finish
  <1>. w \in [job : Row, attempts : Nat]
    BY DEF TypeOK
  <1>. Retries(w, outcome) \in BOOLEAN
    BY DEF Retries
  <1>1. rows' \in [Row -> Job]
    BY DEF TypeOK, Job, JobStatus, Ended
  <1>2. mute' \subseteq Drain
    BY DEF TypeOK
  <1>. QED  BY <1>1, <1>2 DEF Finish, TypeOK

LEMMA RestType ==
    ASSUME TypeOK,
           CoolDown \/ WebRestart \/ (\E j \in Row : Cancel(j) \/ GrowOld(j))
    PROVE  TypeOK'
  <1>1. CASE CoolDown
    BY <1>1 DEF CoolDown, TypeOK
  <1>2. CASE WebRestart
    <2>1. /\ pc' \in [Hook \cup Recoverer -> Point]
          /\ \A g \in Hook : pc'[g] \in HookPoint
          /\ \A q \in Poller : pc'[q] \in PollerPoint
          /\ \A e \in Drain : pc'[e] \in DrainPoint
      BY <1>2, SyncActors
      DEF WebRestart, TypeOK, Recoverer, Point, HookPoint, PollerPoint
    <2>2. want' \in [Hook -> Key \cup {None}] /\ lock' \in {None, Web} \cup Drain
      BY <1>2 DEF WebRestart, TypeOK
    <2>3. todo' \in [Recoverer -> SUBSET [job : Row, status : {"failed", "pending"}]]
      BY <1>2 DEF WebRestart, TypeOK
    <2>4. cool' \in BOOLEAN
      BY <1>2 DEF WebRestart
    <2>6. faults' \in Nat
      BY <1>2 DEF WebRestart, TypeOK, Fault
    <2>5. UNCHANGED <<rows, work, taken, mute, blind>>
      BY <1>2 DEF WebRestart
    <2>. QED  BY <2>1, <2>2, <2>3, <2>4, <2>5, <2>6 DEF TypeOK, Point
  <1>3. CASE \E j \in Row : Cancel(j) \/ GrowOld(j)
    <2>. PICK j \in Row : Cancel(j) \/ GrowOld(j)
      BY <1>3
    <2>1. CASE Cancel(j)
      <3>1. rows' \in [Row -> Job]
        BY <2>1 DEF Cancel, TypeOK, Job, JobStatus
      <3>. QED  BY <2>1, <3>1 DEF Cancel, TypeOK
    <2>2. CASE GrowOld(j)
      <3>1. rows' \in [Row -> Job]
        <4>1. rows' = [rows EXCEPT ![j].old = TRUE]
          BY <2>2 DEF GrowOld
        <4>. QED  BY <4>1 DEF TypeOK, Job
      <3>. QED  BY <2>2, <3>1 DEF GrowOld, TypeOK
    <2>. QED  BY <2>1, <2>2
  <1>. QED  BY <1>1, <1>2, <1>3

LEMMA StepType ==
    ASSUME TypeOK, [Next]_vars
    PROVE  TypeOK'
  <1>1. CASE UNCHANGED vars
    BY <1>1 DEF vars, TypeOK
  <1>. QED
    BY <1>1, EnqueueType, PollType, DrainType, FinishType, RestType DEF Next

\* Every value a row, a program counter or a counter takes is one the code has
\* (bot_db_sync_queue.py, models.py).
THEOREM SyncTypeOK == Spec => []TypeOK
  BY InitType, StepType, PTL DEF Spec

-----------------------------------------------------------------------------
\* The lane: who is in it holds its lock, who works is in it.

InLane == {"readOrphans", "orphans", "stale", "work", "release"}

LaneInv ==
    /\ \A d \in Drain : pc[d] \in InLane => lock = d
    /\ \A d \in Drain : work[d] # {} => pc[d] = "work"

\* What starting a drain does to the others.
LEMMA SpawnPc ==
    ASSUME TypeOK, NEW a \in Hook \cup Recoverer, NEW next, NEW cooling,
           Spawn(a, cooling, next)
    PROVE  /\ \A d \in Drain : d # a => \/ pc'[d] = pc[d]
                                        \/ pc[d] = "off" /\ pc'[d] = "start"
           /\ \A b \in Hook \cup Poller : b # a => pc'[b] = pc[b]
           /\ pc'[a] = next \/ (a \in Drain /\ pc'[a] = "start")
  <1>1. CASE Step(a, next)
    BY <1>1 DEF TypeOK, Step, Recoverer
  <1>2. CASE \E d \in Drain :
               /\ pc[d] = "off" \/ d = a
               /\ pc' = [pc EXCEPT ![a] = next, ![d] = "start"]
    BY <1>2, SyncActors DEF TypeOK, Recoverer
  <1>. QED  BY <1>1, <1>2 DEF Spawn

LEMMA InitLane == Init => LaneInv
  BY SyncActors DEF Init, LaneInv, InLane, Recoverer

\* A hook or a poll moves no drain that is in the lane, and takes the lock from
\* none.
LEMMA OthersLane ==
    ASSUME TypeOK, LaneInv,
           \/ \E h \in Hook : EnqueueStep(h)
           \/ \E p \in Poller : PollStep(p)
           \/ CoolDown \/ WebRestart
           \/ \E j \in Row : Cancel(j) \/ GrowOld(j)
           \/ \E d \in Drain : \E w \in work[d] : Finish(d, w)
    PROVE  LaneInv'
  <1>1. ASSUME NEW a \in Hook \cup Poller, NEW next, Step(a, next)
        PROVE  \A d \in Drain : pc'[d] = pc[d]
    BY <1>1, SyncActors DEF Step, TypeOK, Recoverer
  <1>2. ASSUME NEW a \in Hook \cup Poller, NEW cooling, NEW next,
               Spawn(a, cooling, next)
        PROVE  \A d \in Drain : \/ pc'[d] = pc[d]
                                \/ pc[d] = "off" /\ pc'[d] = "start"
    BY <1>2, SpawnPc, SyncActors DEF Recoverer
  <1>3. ASSUME \A d \in Drain : \/ pc'[d] = pc[d]
                                \/ pc[d] = "off" /\ pc'[d] = "start",
               \A d \in Drain : lock = d => lock' = d,
               UNCHANGED work
        PROVE  LaneInv'
    BY <1>3 DEF LaneInv, InLane
  <1>4. CASE \E h \in Hook : EnqueueStep(h)
    <2>. PICK h \in Hook : EnqueueStep(h)
      BY <1>4
    <2>1. CASE EnqueueCheck(h) \/ EnqueueCreate(h)
      <3>1. \A d \in Drain : pc'[d] = pc[d]
        BY <2>1, <1>1 DEF EnqueueCheck, EnqueueCreate
      <3>. QED  BY <2>1, <3>1, <1>3 DEF EnqueueCheck, EnqueueCreate
    <2>2. CASE EnqueueSpawn(h)
      BY <2>2, <1>2, <1>3 DEF EnqueueSpawn
    <2>. QED  BY <2>1, <2>2 DEF EnqueueStep
  <1>5. CASE \E p \in Poller : PollStep(p)
    <2>. PICK p \in Poller : PollStep(p)
      BY <1>5
    <2>0. AfterRecovery(p) = "rearm"
      BY SyncActors DEF AfterRecovery
    <2>1. CASE PollBegin(p)
      <3>1. \A d \in Drain : pc'[d] = pc[d]
        BY <2>1, <1>1 DEF PollBegin
      <3>. QED  BY <2>1, <3>1, <1>3, SyncActors DEF PollBegin
    <2>2. CASE PollRelease(p)
      <3>1. \A d \in Drain : pc'[d] = pc[d]
        BY <2>2, <1>1 DEF PollRelease
      <3>. QED  BY <2>2, <3>1, <1>3, SyncActors DEF PollRelease
    <2>3. CASE PollRearm(p)
      <3>1. CASE Pending # {}
        BY <2>3, <3>1, <1>2, <1>3 DEF PollRearm
      <3>2. CASE Pending = {}
        <4>1. Step(p, "idle") /\ UNCHANGED <<lock, work>>
          BY <2>3, <3>2 DEF PollRearm
        <4>. QED  BY <4>1, <1>1, <1>3
      <3>. QED  BY <3>1, <3>2
    <2>4. CASE Recovery(p)
      <3>1. \A d \in Drain : pc'[d] = pc[d]
        BY <2>4, <1>1 DEF Recovery, ReadOrphans, ReadStale, Requeue, EndStale
      <3>2. UNCHANGED <<lock, work>>
        BY <2>4 DEF Recovery, ReadOrphans, ReadStale, Requeue, EndStale
      <3>. QED  BY <3>1, <3>2, <1>3
    <2>. QED  BY <2>1, <2>2, <2>3, <2>4 DEF PollStep
  <1>6. CASE WebRestart
    BY <1>6, <1>3, SyncActors DEF WebRestart, TypeOK, Recoverer
  <1>7. CASE CoolDown \/ \E j \in Row : Cancel(j) \/ GrowOld(j)
    BY <1>7, <1>3 DEF CoolDown, Cancel, GrowOld
  <1>8. CASE \E d \in Drain : \E w \in work[d] : Finish(d, w)
    BY <1>8 DEF Finish, LaneInv, TypeOK
  <1>. QED  BY <1>4, <1>5, <1>6, <1>7, <1>8

LEMMA DrainLane ==
    ASSUME TypeOK, LaneInv, NEW d \in Drain, DrainStep(d) \/ Crash(d)
    PROVE  LaneInv'
  <1>. d \in Hook \cup Recoverer /\ d # None /\ AfterRecovery(d) = "work"
    BY SyncActors DEF Recoverer, AfterRecovery
  <1>1. CASE DrainAcquire(d)
    BY <1>1, SyncActors DEF DrainAcquire, Step, LaneInv, InLane, TypeOK
  <1>2. CASE DrainSkip(d)
    BY <1>2 DEF DrainSkip, Step, LaneInv, InLane, TypeOK
  <1>3. CASE Recovery(d)
    <2>1. pc[d] \in InLane /\ pc[d] # "work"
      BY <1>3 DEF Recovery, ReadOrphans, ReadStale, Requeue, EndStale, InLane,
         TypeOK, DrainPoint
    <2>2. UNCHANGED <<lock, work>>
      BY <1>3 DEF Recovery, ReadOrphans, ReadStale, Requeue, EndStale
    <2>3. \/ UNCHANGED pc
          \/ Step(d, "orphans") \/ Step(d, "stale") \/ Step(d, "work")
      BY <1>3 DEF Recovery, ReadOrphans, ReadStale, Requeue, EndStale
    <2>4. pc'[d] \in InLane /\ \A e \in Drain : e # d => pc'[e] = pc[e]
      BY <2>1, <2>3 DEF Step, InLane, TypeOK, Recoverer
    <2>5. lock = d /\ work[d] = {}
      BY <2>1 DEF LaneInv
    <2>. QED  BY <2>2, <2>4, <2>5 DEF LaneInv
  <1>4. CASE Claim(d)
    BY <1>4 DEF Claim, LaneInv, InLane, TypeOK
  <1>5. CASE DrainIdle(d)
    <2>1. /\ pc[d] = "work" /\ work[d] = {} /\ Step(d, "release")
          /\ UNCHANGED <<lock, work>>
      BY <1>5 DEF DrainIdle
    <2>. QED  BY <2>1 DEF Step, LaneInv, InLane, TypeOK
  <1>6. CASE DrainRelease(d)
    BY <1>6 DEF DrainRelease, Step, LaneInv, InLane, TypeOK
  <1>7. CASE DrainRespawn(d)
    <2>1. \/ Spawn(d, FALSE, "off")
          \/ Step(d, "off")
      BY <1>7 DEF DrainRespawn
    <2>2. /\ \A e \in Drain : e # d => \/ pc'[e] = pc[e]
                                       \/ pc[e] = "off" /\ pc'[e] = "start"
          /\ pc'[d] \in {"off", "start"}
      <3>1. CASE Spawn(d, FALSE, "off")
        BY <3>1, SpawnPc
      <3>2. CASE Step(d, "off")
        BY <3>2, SyncActors DEF Step, TypeOK, Recoverer
      <3>. QED  BY <2>1, <3>1, <3>2
    <2>. QED  BY <1>7, <2>2 DEF DrainRespawn, LaneInv, InLane
  <1>8. CASE Crash(d)
    BY <1>8 DEF Crash, Step, LaneInv, InLane, TypeOK
  <1>. QED  BY <1>1, <1>2, <1>3, <1>4, <1>5, <1>6, <1>7, <1>8 DEF DrainStep

LEMMA StepLane ==
    ASSUME TypeOK, LaneInv, [Next]_vars
    PROVE  LaneInv'
  <1>1. CASE UNCHANGED vars
    BY <1>1 DEF vars, LaneInv
  <1>. QED  BY <1>1, OthersLane, DrainLane DEF Next

\* Two drains never work at once.
LEMMA OneWorks ==
    ASSUME LaneInv, NEW d \in Drain, NEW e \in Drain, work[d] # {}, work[e] # {}
    PROVE  d = e
  BY DEF LaneInv, InLane

-----------------------------------------------------------------------------
\* The workers: what a worker was given is what its row says, unless a recovery
\* wrote over it; and a row that waits has an attempt left.

WorkInv ==
    \A d \in Drain : \A w \in work[d] :
        \/ w.job \in blind
        \/ rows[w.job].status = "running" /\ rows[w.job].attempts = w.attempts

AttemptLeft(n) == n <= MaxRequeue \/ n < ProjectionMax

BoundInv ==
    \A j \in Row :
        /\ rows[j].status = "none" => rows[j].attempts = 0
        /\ rows[j].status = "pending" => j \in blind \/ AttemptLeft(rows[j].attempts)

SyncInv == TypeOK /\ LaneInv /\ WorkInv /\ BoundInv

Quiet == UNCHANGED <<rows, work, blind>>

\* The steps that change a row, a worker or the history.
LEMMA QuietOrNot ==
    ASSUME [Next]_vars
    PROVE  \/ Quiet
           \/ \E h \in Hook : EnqueueCreate(h)
           \/ \E j \in Row : Cancel(j) \/ GrowOld(j)
           \/ \E a \in Recoverer : Requeue(a)
           \/ \E d \in Drain : Claim(d) \/ Crash(d) \/ \E w \in work[d] : Finish(d, w)
  <1>1. CASE UNCHANGED vars \/ CoolDown \/ WebRestart
    BY <1>1 DEF vars, CoolDown, WebRestart, Quiet
  <1>2. ASSUME NEW a \in Recoverer, Recovery(a)
        PROVE  Quiet \/ Requeue(a)
    BY <1>2 DEF Recovery, ReadOrphans, ReadStale, EndStale, Quiet
  <1>3. ASSUME NEW h \in Hook, EnqueueStep(h)
        PROVE  Quiet \/ EnqueueCreate(h)
    BY <1>3 DEF EnqueueStep, EnqueueCheck, EnqueueSpawn, Quiet
  <1>4. ASSUME NEW p \in Poller, PollStep(p)
        PROVE  Quiet \/ Recovery(p)
    BY <1>4 DEF PollStep, PollBegin, PollRelease, PollRearm, Quiet
  <1>5. ASSUME NEW d \in Drain, DrainStep(d)
        PROVE  Quiet \/ Recovery(d) \/ Claim(d)
    BY <1>5 DEF DrainStep, DrainAcquire, DrainSkip, DrainIdle, DrainRelease,
       DrainRespawn, Quiet
  <1>. QED  BY <1>1, <1>2, <1>3, <1>4, <1>5 DEF Next, Recoverer

\* Only one worker can have a row whose history is clean.
LEMMA SameWorker ==
    ASSUME LaneInv, WorkInv, TypeOK, NEW d \in Drain, NEW e \in Drain,
           NEW w \in work[d], NEW x \in work[e], w.job = x.job, w.job \notin blind
    PROVE  d = e /\ w = x
  <1>1. d = e
    BY OneWorks
  <1>2. w.attempts = x.attempts
    BY DEF WorkInv
  <1>3. w \in [job : Row, attempts : Nat] /\ x \in [job : Row, attempts : Nat]
    BY DEF TypeOK
  <1>. QED  BY <1>1, <1>2, <1>3

LEMMA NobodyWorks ==
    ASSUME WorkInv, NEW j \in Row, j \notin blind, rows[j].status # "running"
    PROVE  ~Alive(j)
  BY DEF WorkInv, Alive

LEMMA InitRest == Init => WorkInv /\ BoundInv
  BY SyncBounds DEF Init, WorkInv, BoundInv, AttemptLeft

LEMMA CreateRest ==
    ASSUME SyncInv, NEW h \in Hook, EnqueueCreate(h)
    PROVE  WorkInv' /\ BoundInv'
  <1>. PICK j \in Row :
         /\ rows[j].status = "none"
         /\ rows' = [rows EXCEPT ![j].status = "pending", ![j].key = want[h]]
    BY DEF EnqueueCreate, Oldest, With
  <1>1. WorkInv'
    BY DEF SyncInv, EnqueueCreate, WorkInv, TypeOK, Job
  <1>2. BoundInv'
    <2>. SUFFICES ASSUME NEW i \in Row
                  PROVE /\ rows'[i].status = "none" => rows'[i].attempts = 0
                        /\ rows'[i].status = "pending" =>
                             i \in blind \/ AttemptLeft(rows'[i].attempts)
      BY DEF BoundInv, AttemptLeft, EnqueueCreate
    <2>1. CASE i # j
      BY <2>1 DEF SyncInv, BoundInv, TypeOK, Job
    <2>2. CASE i = j
      <3>1. rows'[j].attempts = 0
        BY DEF SyncInv, BoundInv, TypeOK, Job
      <3>2. AttemptLeft(0)
        BY SyncBounds DEF AttemptLeft
      <3>. QED  BY <2>2, <3>1, <3>2 DEF SyncInv, TypeOK, Job
    <2>. QED  BY <2>1, <2>2
  <1>. QED  BY <1>1, <1>2

LEMMA CancelRest ==
    ASSUME SyncInv, NEW j \in Row, Cancel(j) \/ GrowOld(j)
    PROVE  WorkInv' /\ BoundInv'
  <1>1. CASE Cancel(j)
    BY <1>1 DEF Cancel, SyncInv, WorkInv, BoundInv, TypeOK, Job, AttemptLeft
  <1>2. CASE GrowOld(j)
    <2>1. /\ rows' = [rows EXCEPT ![j].old = TRUE]
          /\ UNCHANGED <<work, blind>>
      BY <1>2 DEF GrowOld
    <2>. QED  BY <2>1 DEF SyncInv, WorkInv, BoundInv, TypeOK, Job, AttemptLeft
  <1>. QED  BY <1>1, <1>2

\* What a verdict is written over.
LEMMA RequeueEffect ==
    ASSUME TypeOK, NEW a \in Recoverer, Requeue(a)
    PROVE  \E v \in [job : Row, status : {"failed", "pending"}] :
             /\ \A i \in Row : i # v.job => rows'[i] = rows[i]
             /\ rows'[v.job].status = v.status
             /\ rows'[v.job].attempts = rows[v.job].attempts
             /\ rows'[v.job].key = rows[v.job].key
             /\ UNCHANGED <<work, pc, want, lock>>
             /\ \/ /\ UNCHANGED blind /\ Orphan(v.job)
                   /\ v.status = "pending" => rows[v.job].attempts <= MaxRequeue
                \/ blind' = blind \cup {v.job}
  <1>. PICK v \in todo[a] :
         /\ rows' = [rows EXCEPT ![v.job].status = v.status,
                                 ![v.job].old = FALSE, ![v.job].oom = FALSE]
         /\ blind' = IF Orphan(v.job) /\ v = Verdict(v.job)
                     THEN blind ELSE blind \cup {v.job}
    BY DEF Requeue
  <1>1. v \in [job : Row, status : {"failed", "pending"}]
    BY DEF TypeOK
  <1>2. v = Verdict(v.job) /\ v.status = "pending"
          => rows[v.job].attempts <= MaxRequeue
    BY <1>1, SyncBounds DEF Verdict, TypeOK, Job
  <1>3. /\ \A i \in Row : i # v.job => rows'[i] = rows[i]
        /\ rows'[v.job].status = v.status
        /\ rows'[v.job].attempts = rows[v.job].attempts
        /\ rows'[v.job].key = rows[v.job].key
    BY <1>1 DEF TypeOK, Job
  <1>4. \/ UNCHANGED blind /\ Orphan(v.job) /\ v = Verdict(v.job)
        \/ blind' = blind \cup {v.job}
    OBVIOUS
  <1>. QED  BY <1>1, <1>2, <1>3, <1>4 DEF Requeue

LEMMA RequeueRest ==
    ASSUME SyncInv, NEW a \in Recoverer, Requeue(a)
    PROVE  WorkInv' /\ BoundInv'
  <1>. TypeOK
    BY DEF SyncInv
  <1>. PICK v \in [job : Row, status : {"failed", "pending"}] :
         /\ \A i \in Row : i # v.job => rows'[i] = rows[i]
         /\ rows'[v.job].status = v.status
         /\ rows'[v.job].attempts = rows[v.job].attempts
         /\ UNCHANGED work
         /\ \/ /\ UNCHANGED blind /\ Orphan(v.job)
               /\ v.status = "pending" => rows[v.job].attempts <= MaxRequeue
            \/ blind' = blind \cup {v.job}
    BY RequeueEffect
  <1>1. WorkInv'
    <2>. SUFFICES ASSUME NEW d \in Drain, NEW w \in work[d]
                  PROVE  \/ w.job \in blind'
                         \/ /\ rows'[w.job].status = "running"
                            /\ rows'[w.job].attempts = w.attempts
      BY DEF WorkInv
    <2>1. w.job \in Row
      BY DEF TypeOK
    <2>2. CASE w.job # v.job
      BY <2>1, <2>2 DEF SyncInv, WorkInv
    <2>3. CASE w.job = v.job
      BY <2>3 DEF Orphan, Alive
    <2>. QED  BY <2>2, <2>3
  <1>2. BoundInv'
    BY SyncBounds DEF SyncInv, BoundInv, AttemptLeft
  <1>. QED  BY <1>1, <1>2

\* What a drain claims.
LEMMA ClaimEffect ==
    ASSUME TypeOK, NEW d \in Drain, Claim(d)
    PROVE  \E j \in Row :
             /\ rows[j].status = "pending"
             /\ \A i \in Row : i # j => rows'[i] = rows[i]
             /\ rows'[j].status = "running"
             /\ rows'[j].attempts = rows[j].attempts + 1
             /\ rows'[j].key = rows[j].key
             /\ work' = [work EXCEPT ![d] =
                  @ \cup {[job |-> j, attempts |-> rows[j].attempts + 1]}]
             /\ UNCHANGED <<blind, pc, want, lock>>
  <1>. PICK j \in Row :
         /\ rows[j].status = "pending"
         /\ rows' = [rows EXCEPT ![j] = Claimed(@)]
         /\ work' = [work EXCEPT ![d] =
              @ \cup {[job |-> j, attempts |-> rows[j].attempts + 1]}]
    BY DEF Claim, Oldest, Pending, With
  <1>1. rows'[j].status = "running" /\ rows'[j].attempts = rows[j].attempts + 1
        /\ rows'[j].key = rows[j].key
    BY DEF TypeOK, Claimed, Job
  <1>. QED  BY <1>1 DEF TypeOK, Claim

LEMMA ClaimRest ==
    ASSUME SyncInv, NEW d \in Drain, Claim(d)
    PROVE  WorkInv' /\ BoundInv'
  <1>. TypeOK
    BY DEF SyncInv
  <1>. PICK j \in Row :
         /\ rows[j].status = "pending"
         /\ \A i \in Row : i # j => rows'[i] = rows[i]
         /\ rows'[j].status = "running"
         /\ rows'[j].attempts = rows[j].attempts + 1
         /\ work' = [work EXCEPT ![d] =
              @ \cup {[job |-> j, attempts |-> rows[j].attempts + 1]}]
         /\ UNCHANGED blind
    BY ClaimEffect
  <1>1. WorkInv'
    <2>. SUFFICES ASSUME NEW e \in Drain, NEW w \in work'[e], w.job \notin blind
                  PROVE  /\ rows'[w.job].status = "running"
                         /\ rows'[w.job].attempts = w.attempts
      BY DEF WorkInv
    <2>1. CASE w \in work[e]
      <3>1. w.job \in Row
        BY <2>1 DEF TypeOK
      <3>2. /\ rows[w.job].status = "running"
            /\ rows[w.job].attempts = w.attempts
        BY <2>1 DEF SyncInv, WorkInv
      <3>. QED  BY <3>1, <3>2
    <2>2. CASE w \notin work[e]
      <3>1. w = [job |-> j, attempts |-> rows[j].attempts + 1]
        BY <2>2 DEF TypeOK
      <3>. QED  BY <3>1
    <2>. QED  BY <2>1, <2>2
  <1>2. BoundInv'
    BY DEF SyncInv, BoundInv
  <1>. QED  BY <1>1, <1>2

\* What a worker leaves.
LEMMA FinishEffect ==
    ASSUME TypeOK, NEW d \in Drain, NEW w \in work[d], Finish(d, w)
    PROVE  /\ w.job \in Row
           /\ \A i \in Row : i # w.job => rows'[i] = rows[i]
           /\ \/ rows'[w.job].status \in Ended
              \/ rows'[w.job].status = "pending" /\ w.attempts < ProjectionMax
           /\ rows'[w.job].attempts = rows[w.job].attempts
           /\ rows'[w.job].key = rows[w.job].key
           /\ work' = [work EXCEPT ![d] = @ \ {w}]
           /\ UNCHANGED <<blind, pc, want, lock>>
  <1>. PICK outcome \in Ended, oom \in BOOLEAN :
         rows' = [rows EXCEPT
              ![w.job].status = IF Retries(w, outcome) THEN "pending" ELSE outcome,
              ![w.job].oom = oom /\ Retries(w, outcome), ![w.job].old = FALSE]
    BY DEF Finish
  <1>1. w.job \in Row
    BY DEF TypeOK
  <1>2. /\ \A i \in Row : i # w.job => rows'[i] = rows[i]
        /\ rows'[w.job].status = IF Retries(w, outcome) THEN "pending" ELSE outcome
        /\ rows'[w.job].attempts = rows[w.job].attempts
        /\ rows'[w.job].key = rows[w.job].key
    BY <1>1 DEF TypeOK, Job
  <1>3. Retries(w, outcome) => w.attempts < ProjectionMax
    BY DEF Retries
  <1>. QED  BY <1>1, <1>2, <1>3 DEF Finish

LEMMA FinishRest ==
    ASSUME SyncInv, NEW d \in Drain, NEW w \in work[d], Finish(d, w)
    PROVE  WorkInv' /\ BoundInv'
  <1>. TypeOK /\ LaneInv /\ WorkInv
    BY DEF SyncInv
  <1>. /\ w.job \in Row
       /\ \A i \in Row : i # w.job => rows'[i] = rows[i]
       /\ \/ rows'[w.job].status \in Ended
          \/ rows'[w.job].status = "pending" /\ w.attempts < ProjectionMax
       /\ rows'[w.job].attempts = rows[w.job].attempts
       /\ work' = [work EXCEPT ![d] = @ \ {w}]
       /\ UNCHANGED blind
    BY FinishEffect
  <1>1. WorkInv'
    <2>. SUFFICES ASSUME NEW e \in Drain, NEW x \in work'[e], x.job \notin blind
                  PROVE  /\ rows'[x.job].status = "running"
                         /\ rows'[x.job].attempts = x.attempts
      BY DEF WorkInv
    <2>1. x \in work[e] /\ (e = d => x # w)
      BY DEF TypeOK
    <2>2. x.job # w.job
      BY <2>1, SameWorker
    <2>3. x.job \in Row
      BY <2>1 DEF TypeOK
    <2>. QED  BY <2>1, <2>2, <2>3 DEF WorkInv
  <1>2. BoundInv'
    <2>1. w.job \in blind \/ rows[w.job].attempts = w.attempts
      BY DEF WorkInv
    <2>. QED  BY <2>1 DEF SyncInv, BoundInv, AttemptLeft, Ended
  <1>. QED  BY <1>1, <1>2

LEMMA StepRest ==
    ASSUME SyncInv, [Next]_vars
    PROVE  WorkInv' /\ BoundInv'
  <1>1. CASE Quiet
    BY <1>1 DEF Quiet, SyncInv, WorkInv, BoundInv, AttemptLeft
  <1>2. ASSUME NEW d \in Drain, Crash(d)
        PROVE  WorkInv' /\ BoundInv'
    BY <1>2 DEF Crash, SyncInv, WorkInv, BoundInv, AttemptLeft, TypeOK
  <1>. QED
    BY <1>1, <1>2, QuietOrNot, CreateRest, CancelRest, RequeueRest, ClaimRest,
       FinishRest

\* The inductive invariant.
THEOREM SyncInvariant == Spec => []SyncInv
  <1>1. Init => SyncInv
    BY InitType, InitLane, InitRest DEF SyncInv
  <1>2. SyncInv /\ [Next]_vars => SyncInv'
    BY StepType, StepLane, StepRest DEF SyncInv
  <1>. QED  BY <1>1, <1>2, PTL DEF Spec

\* However many drains are started, die and are recovered, a job has one worker,
\* unless a recovery wrote over it (bot_db_sync_queue.py:264, 519).
THEOREM SyncOneWorker == Spec => []OneWorkerPerJob
  <1>1. SyncInv => OneWorkerPerJob
    BY SameWorker DEF SyncInv, OneWorkerPerJob
  <1>. QED  BY <1>1, SyncInvariant, PTL

-----------------------------------------------------------------------------
\* One thread of the web process at a time.

OnePoll == \A p, q \in Poller : p = q

PollInv == \A p \in Poller : pc[p] \in {"readOrphans", "orphans"} => lock = Web

LEMMA StepPoll ==
    ASSUME OnePoll, TypeOK, LaneInv, PollInv, [Next]_vars
    PROVE  PollInv'
  <1>1. ASSUME lock = Web => lock' = Web,
               \A p \in Poller : pc'[p] = pc[p]
        PROVE  PollInv'
    BY <1>1 DEF PollInv
  <1>2. ASSUME NEW a \in Hook \cup Drain, NEW next, Step(a, next)
        PROVE  \A p \in Poller : pc'[p] = pc[p]
    BY <1>2, SyncActors DEF Step, TypeOK, Recoverer
  <1>3. ASSUME NEW a \in Hook \cup Drain, NEW cooling, NEW next,
               Spawn(a, cooling, next)
        PROVE  \A p \in Poller : pc'[p] = pc[p]
    BY <1>3, SpawnPc, SyncActors DEF Recoverer
  <1>4. CASE UNCHANGED vars \/ CoolDown \/ \E j \in Row : Cancel(j) \/ GrowOld(j)
    <2>1. UNCHANGED <<lock, pc>>
      BY <1>4 DEF vars, CoolDown, Cancel, GrowOld
    <2>. QED  BY <2>1, <1>1
  <1>5. CASE \E h \in Hook : EnqueueStep(h)
    <2>. PICK h \in Hook : EnqueueStep(h)
      BY <1>5
    <2>1. UNCHANGED lock
      BY DEF EnqueueStep, EnqueueCheck, EnqueueCreate, EnqueueSpawn
    <2>2. \A p \in Poller : pc'[p] = pc[p]
      BY <1>2, <1>3 DEF EnqueueStep, EnqueueCheck, EnqueueCreate, EnqueueSpawn
    <2>. QED  BY <2>1, <2>2, <1>1
  <1>6. CASE \E d \in Drain : DrainStep(d) \/ Crash(d)
                              \/ \E w \in work[d] : Finish(d, w)
    <2>. PICK d \in Drain : DrainStep(d) \/ Crash(d)
                            \/ \E w \in work[d] : Finish(d, w)
      BY <1>6
    <2>1. lock = Web => lock' = Web
      BY SyncActors
      DEF DrainStep, DrainAcquire, DrainSkip, Recovery, ReadOrphans, ReadStale,
          Requeue, EndStale, Claim, DrainIdle, DrainRelease, DrainRespawn, Crash,
          Finish, LaneInv, InLane
    <2>2. \A p \in Poller : pc'[p] = pc[p]
      <3>1. CASE DrainStep(d)
        BY <3>1, <1>2, <1>3
        DEF DrainStep, DrainAcquire, DrainSkip, Recovery, ReadOrphans, ReadStale,
            Requeue, EndStale, Claim, DrainIdle, DrainRelease, DrainRespawn
      <3>2. CASE Crash(d) \/ \E w \in work[d] : Finish(d, w)
        BY <3>2, <1>2 DEF Crash, Finish
      <3>. QED  BY <3>1, <3>2
    <2>. QED  BY <2>1, <2>2, <1>1
  <1>7. CASE \E p \in Poller : PollStep(p)
    <2>. PICK p \in Poller : PollStep(p)
      BY <1>7
    <2>. SUFFICES pc'[p] \in {"readOrphans", "orphans"} => lock' = Web
      BY DEF OnePoll, PollInv
    <2>0. AfterRecovery(p) = "rearm"
      BY SyncActors DEF AfterRecovery
    <2>1. CASE PollBegin(p)
      BY <2>1 DEF PollBegin, Step, TypeOK, Recoverer
    <2>2. CASE PollRelease(p)
      BY <2>2 DEF PollRelease, Step, TypeOK, Recoverer
    <2>3. CASE PollRearm(p)
      <3>1. Spawn(p, cool, "idle") \/ Step(p, "idle")
        BY <2>3 DEF PollRearm
      <3>2. CASE Spawn(p, cool, "idle")
        BY <3>2, SpawnPc, SyncActors DEF Recoverer
      <3>3. CASE Step(p, "idle")
        BY <3>3 DEF Step, TypeOK, Recoverer
      <3>. QED  BY <3>1, <3>2, <3>3
    <2>4. CASE ReadOrphans(p) \/ Requeue(p)
      <3>1. pc[p] \in {"readOrphans", "orphans"} \/ UNCHANGED pc
        BY <2>4 DEF ReadOrphans, Requeue
      <3>. QED  BY <2>4, <3>1 DEF ReadOrphans, Requeue, PollInv
    <2>5. CASE ReadStale(p) \/ EndStale(p)
      BY <2>0, <2>5 DEF ReadStale, EndStale, Step, TypeOK, Recoverer
    <2>. QED  BY <2>1, <2>2, <2>3, <2>4, <2>5 DEF PollStep, Recovery
  <1>8. CASE WebRestart
    BY <1>8, SyncActors DEF WebRestart, PollInv, TypeOK, Recoverer
  <1>. QED  BY <1>4, <1>5, <1>6, <1>7, <1>8 DEF Next

\* With one request of the panel at a time, whoever recovers a lane finds only
\* phantoms in it (bot_db_sync_queue.py:234).
THEOREM SyncRecoversPhantoms ==
    ASSUME OnePoll
    PROVE  Spec => []RecoversPhantoms
  <1>1. Init => PollInv
    BY SyncActors DEF Init, PollInv, Recoverer
  <1>2. SyncInv /\ PollInv /\ [Next]_vars => PollInv'
    BY StepPoll DEF SyncInv
  <1>3. SyncInv /\ PollInv => RecoversPhantoms
    <2>. SUFFICES ASSUME SyncInv, PollInv, NEW a \in Recoverer, pc[a] = "orphans",
                         NEW d \in Drain, work[d] # {}
                  PROVE  FALSE
      BY DEF RecoversPhantoms, Alive
    <2>1. lock = d /\ pc[d] = "work"
      BY DEF SyncInv, LaneInv, InLane
    <2>2. a \in Poller => lock = Web
      BY DEF PollInv
    <2>3. a \in Drain => lock = a
      BY DEF SyncInv, LaneInv, InLane
    <2>. QED  BY <2>1, <2>2, <2>3, SyncActors DEF Recoverer
  <1>. QED  BY <1>1, <1>2, <1>3, SyncInvariant, PTL DEF Spec

-----------------------------------------------------------------------------
\* One active job of a key, when no two hooks enqueue the same key.

OwnKeys == \A g, h \in Hook : g # h => KeysOf[g] \cap KeysOf[h] = {}

KeyInv ==
    /\ \A h \in Hook : pc[h] = "create" =>
         /\ want[h] \in KeysOf[h]
         /\ \A j \in With(Active) \ blind : rows[j].key # want[h]
    /\ OneJobPerKey

\* Nothing but EnqueueCreate makes a row active, or gives it a key.
LEMMA ActiveStays ==
    ASSUME SyncInv, [Next]_vars, \A h \in Hook : ~EnqueueCreate(h)
    PROVE  /\ With(Active)' \ blind' \subseteq With(Active) \ blind
           /\ \A j \in With(Active)' \ blind' : rows'[j].key = rows[j].key
  <1>. TypeOK /\ WorkInv
    BY DEF SyncInv
  <1>1. CASE Quiet
    BY <1>1 DEF Quiet, With
  <1>2. ASSUME NEW j \in Row, Cancel(j)
        PROVE  /\ With(Active)' \ blind' \subseteq With(Active) \ blind
               /\ \A i \in With(Active)' \ blind' : rows'[i].key = rows[i].key
    BY <1>2 DEF Cancel, With, Active, TypeOK, Job
  <1>3. ASSUME NEW j \in Row, GrowOld(j)
        PROVE  /\ With(Active)' \ blind' \subseteq With(Active) \ blind
               /\ \A i \in With(Active)' \ blind' : rows'[i].key = rows[i].key
    <2>1. rows' = [rows EXCEPT ![j].old = TRUE] /\ UNCHANGED blind
      BY <1>3 DEF GrowOld
    <2>. QED  BY <2>1 DEF With, Active, TypeOK, Job
  <1>4. ASSUME NEW a \in Recoverer, Requeue(a)
        PROVE  /\ With(Active)' \ blind' \subseteq With(Active) \ blind
               /\ \A i \in With(Active)' \ blind' : rows'[i].key = rows[i].key
    <2>1. PICK v \in [job : Row, status : {"failed", "pending"}] :
             /\ \A i \in Row : i # v.job => rows'[i] = rows[i]
             /\ rows'[v.job].key = rows[v.job].key
             /\ \/ UNCHANGED blind /\ Orphan(v.job)
                \/ blind' = blind \cup {v.job}
      BY <1>4, RequeueEffect
    <2>2. Orphan(v.job) => v.job \in With(Active)
      BY DEF Orphan, With, Active
    <2>. QED  BY <2>1, <2>2 DEF With
  <1>5. ASSUME NEW d \in Drain, Claim(d)
        PROVE  /\ With(Active)' \ blind' \subseteq With(Active) \ blind
               /\ \A i \in With(Active)' \ blind' : rows'[i].key = rows[i].key
    <2>1. PICK j \in Row :
             /\ rows[j].status = "pending"
             /\ \A i \in Row : i # j => rows'[i] = rows[i]
             /\ rows'[j].key = rows[j].key
             /\ UNCHANGED blind
      BY <1>5, ClaimEffect
    <2>. QED  BY <2>1 DEF With, Active
  <1>6. ASSUME NEW d \in Drain, NEW w \in work[d], Finish(d, w)
        PROVE  /\ With(Active)' \ blind' \subseteq With(Active) \ blind
               /\ \A i \in With(Active)' \ blind' : rows'[i].key = rows[i].key
    <2>1. /\ w.job \in Row
          /\ \A i \in Row : i # w.job => rows'[i] = rows[i]
          /\ rows'[w.job].key = rows[w.job].key
          /\ UNCHANGED blind
      BY <1>6, FinishEffect
    <2>2. w.job \in blind \/ w.job \in With(Active)
      BY <2>1 DEF WorkInv, With, Active
    <2>. QED  BY <2>1, <2>2 DEF With
  <1>7. ASSUME NEW d \in Drain, Crash(d)
        PROVE  /\ With(Active)' \ blind' \subseteq With(Active) \ blind
               /\ \A i \in With(Active)' \ blind' : rows'[i].key = rows[i].key
    BY <1>7 DEF Crash, With
  <1>. QED  BY <1>1, <1>2, <1>3, <1>4, <1>5, <1>6, <1>7, QuietOrNot

\* A hook that is about to create was told that the key is free.
LEMMA StepWant ==
    ASSUME TypeOK, [Next]_vars, NEW h \in Hook, pc'[h] = "create"
    PROVE  \/ EnqueueCheck(h) /\ ~IsActive(want'[h]) /\ want'[h] \in KeysOf[h]
           \/ pc[h] = "create" /\ want'[h] = want[h] /\ ~EnqueueCreate(h)
  <1>1. ASSUME NEW a \in Recoverer, NEW next, Step(a, next)
        PROVE  pc'[h] = pc[h]
    BY <1>1, SyncActors DEF Step, TypeOK, Recoverer
  <1>2. ASSUME NEW a \in Recoverer, NEW cooling, NEW next, Spawn(a, cooling, next)
        PROVE  pc'[h] = pc[h]
    BY <1>2, SpawnPc, SyncActors DEF Recoverer
  <1>3. ~EnqueueCreate(h)
    BY DEF EnqueueCreate, Step, TypeOK
  <1>4. CASE UNCHANGED vars \/ CoolDown \/ \E j \in Row : Cancel(j) \/ GrowOld(j)
    <2>1. UNCHANGED <<pc, want>>
      BY <1>4 DEF vars, CoolDown, Cancel, GrowOld
    <2>. QED  BY <2>1, <1>3
  <1>5. CASE WebRestart
    BY <1>5, SyncActors DEF WebRestart, TypeOK
  <1>6. CASE \E g \in Hook : EnqueueStep(g)
    <2>. PICK g \in Hook : EnqueueStep(g)
      BY <1>6
    <2>1. CASE g # h
      <3>1. CASE EnqueueCheck(g) \/ EnqueueCreate(g)
        BY <2>1, <3>1, <1>3 DEF EnqueueCheck, EnqueueCreate, Step, TypeOK
      <3>2. CASE EnqueueSpawn(g)
        BY <2>1, <3>2, <1>3, SpawnPc DEF EnqueueSpawn
      <3>. QED  BY <3>1, <3>2 DEF EnqueueStep
    <2>2. CASE g = h
      <3>1. CASE EnqueueCheck(h)
        <4>1. PICK k \in KeysOf[h] :
                \/ Step(h, "spawn")
                \/ ~IsActive(k) /\ want' = [want EXCEPT ![h] = k]
          BY <3>1 DEF EnqueueCheck
        <4>2. ~Step(h, "spawn")
          BY DEF Step, TypeOK
        <4>. QED  BY <3>1, <4>1, <4>2 DEF TypeOK
      <3>2. CASE EnqueueSpawn(h)
        <4>1. pc'[h] = "idle"
          BY <3>2, SpawnPc, SyncActors DEF EnqueueSpawn
        <4>. QED  BY <4>1
      <3>. QED  BY <2>2, <3>1, <3>2, <1>3 DEF EnqueueStep
    <2>. QED  BY <2>1, <2>2
  <1>7. ASSUME NEW a \in Recoverer, Recovery(a)
        PROVE  pc'[h] = pc[h] /\ want' = want
    BY <1>7, <1>1 DEF Recovery, ReadOrphans, ReadStale, Requeue, EndStale
  <1>8. CASE \E p \in Poller : PollStep(p)
    <2>. PICK p \in Poller : PollStep(p)
      BY <1>8
    <2>1. pc'[h] = pc[h] /\ want' = want
      BY <1>1, <1>2, <1>7
      DEF PollStep, PollBegin, PollRelease, PollRearm, Recoverer
    <2>. QED  BY <2>1, <1>3
  <1>9. CASE \E d \in Drain : DrainStep(d) \/ Crash(d)
                              \/ \E w \in work[d] : Finish(d, w)
    <2>. PICK d \in Drain : DrainStep(d) \/ Crash(d)
                            \/ \E w \in work[d] : Finish(d, w)
      BY <1>9
    <2>1. CASE DrainStep(d)
      <3>1. pc'[h] = pc[h] /\ want' = want
        BY <2>1, <1>1, <1>2, <1>7
        DEF DrainStep, DrainAcquire, DrainSkip, Claim, DrainIdle, DrainRelease,
            DrainRespawn, Recoverer
      <3>. QED  BY <3>1, <1>3
    <2>2. CASE Crash(d) \/ \E w \in work[d] : Finish(d, w)
      <3>1. pc'[h] = pc[h] /\ want' = want
        BY <2>2, <1>1 DEF Crash, Finish, Recoverer
      <3>. QED  BY <3>1, <1>3
    <2>. QED  BY <2>1, <2>2
  <1>. QED  BY <1>4, <1>5, <1>6, <1>8, <1>9 DEF Next

LEMMA StepKey ==
    ASSUME OwnKeys, SyncInv, KeyInv, [Next]_vars
    PROVE  KeyInv'
  <1>. TypeOK
    BY DEF SyncInv
  <1>1. CASE \A h \in Hook : ~EnqueueCreate(h)
    <2>1. /\ With(Active)' \ blind' \subseteq With(Active) \ blind
          /\ \A j \in With(Active)' \ blind' : rows'[j].key = rows[j].key
      BY <1>1, ActiveStays
    <2>2. ASSUME NEW h \in Hook, pc'[h] = "create"
          PROVE  /\ want'[h] \in KeysOf[h]
                 /\ \A j \in With(Active)' \ blind' : rows'[j].key # want'[h]
      <3>1. CASE ~IsActive(want'[h]) /\ want'[h] \in KeysOf[h]
        BY <3>1, <2>1 DEF IsActive
      <3>2. CASE pc[h] = "create" /\ want'[h] = want[h]
        BY <3>2, <2>1 DEF KeyInv
      <3>. QED  BY <2>2, <3>1, <3>2, StepWant
    <2>3. OneJobPerKey'
      BY <2>1 DEF KeyInv, OneJobPerKey
    <2>. QED  BY <2>2, <2>3 DEF KeyInv
  <1>2. CASE \E h \in Hook : EnqueueCreate(h)
    <2>. PICK h \in Hook : EnqueueCreate(h)
      BY <1>2
    <2>. PICK j \in Row :
           /\ rows[j].status = "none"
           /\ rows' = [rows EXCEPT ![j].status = "pending", ![j].key = want[h]]
      BY DEF EnqueueCreate, Oldest, With
    <2>1. /\ \A i \in Row : i # j => rows'[i] = rows[i]
          /\ rows'[j].key = want[h]
          /\ UNCHANGED blind
      BY DEF EnqueueCreate, TypeOK, Job
    <2>2. \A i \in With(Active)' : i = j \/ i \in With(Active)
      BY <2>1 DEF With
    <2>3. /\ want[h] \in KeysOf[h]
          /\ \A i \in With(Active) \ blind : rows[i].key # want[h]
      BY DEF EnqueueCreate, KeyInv
    <2>4. OneJobPerKey'
      <3>. SUFFICES ASSUME NEW i \in With(Active)' \ blind,
                           NEW k \in With(Active)' \ blind,
                           rows'[i].key = rows'[k].key
                    PROVE  i = k
        BY <2>1 DEF OneJobPerKey
      <3>. i \in Row /\ k \in Row
        BY DEF With
      <3>1. CASE i = j \/ k = j
        BY <3>1, <2>1, <2>2, <2>3
      <3>2. CASE i # j /\ k # j
        BY <3>2, <2>1, <2>2 DEF KeyInv, OneJobPerKey
      <3>. QED  BY <3>1, <3>2
    <2>5. ASSUME NEW g \in Hook, pc'[g] = "create"
          PROVE  /\ want'[g] \in KeysOf[g]
                 /\ \A i \in With(Active)' \ blind' : rows'[i].key # want'[g]
      <3>1. g # h /\ pc[g] = "create" /\ want'[g] = want[g]
        BY <2>5 DEF EnqueueCreate, Step, TypeOK
      <3>2. want[g] \in KeysOf[g] /\ want[g] # want[h]
        BY <3>1, <2>3 DEF KeyInv, OwnKeys
      <3>3. \A i \in With(Active) \ blind : rows[i].key # want[g]
        BY <3>1 DEF KeyInv
      <3>4. With(Active)' \subseteq Row
        BY DEF With
      <3>. QED  BY <2>1, <2>2, <3>1, <3>2, <3>3, <3>4
    <2>. QED  BY <2>4, <2>5 DEF KeyInv
  <1>. QED  BY <1>1, <1>2

\* Retries, recoveries and new enqueues leave at most one active job of a key,
\* when no two threads enqueue the same key (bot_db_sync_queue.py:331-353).
THEOREM SyncOneJobPerKey ==
    ASSUME OwnKeys
    PROVE  Spec => []OneJobPerKey
  <1>1. Init => KeyInv
    BY SyncActors DEF Init, KeyInv, OneJobPerKey, With, Active, Recoverer
  <1>2. SyncInv /\ KeyInv /\ [Next]_vars => KeyInv'
    BY StepKey
  <1>3. KeyInv => OneJobPerKey
    BY DEF KeyInv
  <1>. QED  BY <1>1, <1>2, <1>3, SyncInvariant, PTL DEF Spec

-----------------------------------------------------------------------------
\* The queue implements its promise.

\* A step that changes one job's phase moves it as the promise says.
LEMMA PhaseTo ==
    ASSUME NEW j \in Row, NEW p, PhaseOf(j)' = p,
           \A i \in Row : i # j => PhaseOf(i)' = PhaseOf(i)
    PROVE  Promise!To(j, p)
  BY DEF Phase, Promise!To

\* The phase of a job no step touches.
LEMMA PhaseSame ==
    ASSUME NEW i \in Row, rows'[i] = rows[i], Alive(i)' <=> Alive(i),
           i \in blind' <=> i \in blind
    PROVE  PhaseOf(i)' = PhaseOf(i)
  BY DEF PhaseOf

LEMMA StartsSame ==
    ASSUME \A i \in Row : rows'[i].attempts = rows[i].attempts, UNCHANGED blind
    PROVE  UNCHANGED Starts
  BY DEF Starts

\* A row a recovery has written over is out of the promise.
LEMMA BlindPhase ==
    ASSUME NEW j \in Row, j \in blind, j \in blind'
    PROVE  PhaseOf(j)' = PhaseOf(j) /\ PhaseOf(j) = "forfeit"
  BY DEF PhaseOf

LEMMA AllSame ==
    ASSUME \A i \in Row : PhaseOf(i)' = PhaseOf(i)
    PROVE  UNCHANGED Phase
  BY DEF Phase

LEMMA CreatePromise ==
    ASSUME SyncInv, NEW h \in Hook, EnqueueCreate(h)
    PROVE  [Promise!Next]_(Promise!vars)
  <1>. TypeOK /\ WorkInv
    BY DEF SyncInv
  <1>. PICK j \in Row :
         /\ rows[j].status = "none"
         /\ rows' = [rows EXCEPT ![j].status = "pending", ![j].key = want[h]]
    BY DEF EnqueueCreate, Oldest, With
  <1>1. /\ \A i \in Row : i # j => rows'[i] = rows[i]
        /\ rows'[j].status = "pending" /\ rows'[j].attempts = rows[j].attempts
        /\ UNCHANGED <<blind, work>>
    BY DEF EnqueueCreate, TypeOK, Job
  <1>2. \A i \in Row : Alive(i)' <=> Alive(i)
    BY <1>1 DEF Alive
  <1>3. \A i \in Row : i # j => PhaseOf(i)' = PhaseOf(i)
    BY <1>1, <1>2, PhaseSame
  <1>4. UNCHANGED Starts
    BY <1>1, StartsSame
  <1>5. CASE j \in blind
    BY <1>1, <1>3, <1>4, <1>5, BlindPhase, AllSame DEF Promise!vars
  <1>6. CASE j \notin blind
    <2>1. ~Alive(j)
      BY <1>6, NobodyWorks
    <2>2. PhaseOf(j) = "none" /\ PhaseOf(j)' = "waiting"
      BY <1>1, <1>2, <1>6, <2>1 DEF PhaseOf
    <2>3. Promise!Accept(j)
      BY <1>3, <1>4, <2>2, PhaseTo DEF Promise!Accept, Phase
    <2>. QED  BY <2>3 DEF Promise!Next
  <1>. QED  BY <1>5, <1>6

LEMMA CancelPromise ==
    ASSUME SyncInv, NEW j \in Row, Cancel(j) \/ GrowOld(j)
    PROVE  [Promise!Next]_(Promise!vars)
  <1>. TypeOK /\ WorkInv
    BY DEF SyncInv
  <1>0. UNCHANGED <<blind, work>>
    BY DEF Cancel, GrowOld
  <1>1. \A i \in Row : Alive(i)' <=> Alive(i)
    BY <1>0 DEF Alive
  <1>2. CASE GrowOld(j)
    <2>1. rows' = [rows EXCEPT ![j].old = TRUE]
      BY <1>2 DEF GrowOld
    <2>2. \A i \in Row : /\ rows'[i].status = rows[i].status
                         /\ rows'[i].attempts = rows[i].attempts
      BY <2>1 DEF TypeOK, Job
    <2>3. \A i \in Row : PhaseOf(i)' = PhaseOf(i)
      BY <1>0, <1>1, <2>2 DEF PhaseOf
    <2>. QED  BY <1>0, <2>2, <2>3, AllSame, StartsSame DEF Promise!vars
  <1>3. CASE Cancel(j)
    <2>1. /\ \A i \in Row : i # j => rows'[i] = rows[i]
          /\ rows'[j].status = "skipped" /\ rows'[j].attempts = rows[j].attempts
          /\ rows[j].status = "pending"
      BY <1>3 DEF Cancel, TypeOK, Job
    <2>2. \A i \in Row : i # j => PhaseOf(i)' = PhaseOf(i)
      BY <1>0, <1>1, <2>1, PhaseSame
    <2>3. UNCHANGED Starts
      BY <1>0, <2>1, StartsSame
    <2>4. CASE j \in blind
      BY <1>0, <2>2, <2>3, <2>4, BlindPhase, AllSame DEF Promise!vars
    <2>5. CASE j \notin blind
      <3>1. ~Alive(j)
        BY <2>1, <2>5, NobodyWorks
      <3>2. PhaseOf(j) = "waiting" /\ PhaseOf(j)' = "skipped"
        BY <1>0, <1>1, <2>1, <2>5, <3>1 DEF PhaseOf
      <3>3. Promise!Withdraw(j)
        BY <2>2, <2>3, <3>2, PhaseTo DEF Promise!Withdraw, Phase
      <3>. QED  BY <3>3 DEF Promise!Next
    <2>. QED  BY <2>4, <2>5
  <1>. QED  BY <1>2, <1>3

LEMMA RequeuePromise ==
    ASSUME SyncInv, NEW a \in Recoverer, Requeue(a)
    PROVE  [Promise!Next]_(Promise!vars)
  <1>. TypeOK
    BY DEF SyncInv
  <1>. PICK v \in [job : Row, status : {"failed", "pending"}] :
         /\ \A i \in Row : i # v.job => rows'[i] = rows[i]
         /\ rows'[v.job].status = v.status
         /\ rows'[v.job].attempts = rows[v.job].attempts
         /\ UNCHANGED work
         /\ \/ /\ UNCHANGED blind /\ Orphan(v.job)
               /\ v.status = "pending" => rows[v.job].attempts <= MaxRequeue
            \/ blind' = blind \cup {v.job}
    BY RequeueEffect
  <1>. v.job \in Row
    OBVIOUS
  <1>1. \A i \in Row : Alive(i)' <=> Alive(i)
    BY DEF Alive
  <1>2. \A i \in Row : i # v.job => (i \in blind' <=> i \in blind)
    OBVIOUS
  <1>3. \A i \in Row : i # v.job => PhaseOf(i)' = PhaseOf(i)
    BY <1>1, <1>2, PhaseSame
  <1>4. CASE blind' = blind \cup {v.job}
    <2>1. PhaseOf(v.job)' = "forfeit"
      BY <1>4 DEF PhaseOf
    <2>2. Starts' = [Starts EXCEPT ![v.job] = 0]
      BY <1>4 DEF Starts
    <2>3. Promise!Forfeit(v.job)
      BY <1>3, <2>1, <2>2, PhaseTo DEF Promise!Forfeit
    <2>. QED  BY <2>3 DEF Promise!Next
  <1>5. CASE UNCHANGED blind /\ v.job \in blind
    <2>1. UNCHANGED Starts
      BY <1>5, StartsSame
    <2>. QED  BY <1>3, <1>5, <2>1, BlindPhase, AllSame DEF Promise!vars
  <1>6. CASE /\ UNCHANGED blind /\ v.job \notin blind /\ Orphan(v.job)
             /\ v.status = "pending" => rows[v.job].attempts <= MaxRequeue
    <2>1. UNCHANGED Starts
      BY <1>6, StartsSame
    <2>2. PhaseOf(v.job) = "lost" /\ ~Alive(v.job)
      BY <1>6 DEF PhaseOf, Orphan
    <2>3. PhaseOf(v.job)' = IF v.status = "pending" THEN "waiting" ELSE "failed"
      BY <1>1, <1>6, <2>2 DEF PhaseOf
    <2>4. Starts[v.job] = rows[v.job].attempts /\ Phase[v.job] = "lost"
      BY <1>6, <2>2 DEF Starts, Phase
    <2>5. CASE v.status = "pending"
      <3>1. Promise!To(v.job, "waiting")
        BY <1>3, <2>3, <2>5, PhaseTo
      <3>. QED  BY <1>6, <2>1, <2>4, <2>5, <3>1 DEF Promise!Recover, Promise!Next
    <2>6. CASE v.status = "failed"
      <3>1. Promise!To(v.job, "failed")
        BY <1>3, <2>3, <2>6, PhaseTo
      <3>. QED  BY <2>1, <2>4, <3>1 DEF Promise!Recover, Promise!Next
    <2>. QED  BY <2>5, <2>6
  <1>. QED  BY <1>4, <1>5, <1>6

LEMMA ClaimPromise ==
    ASSUME SyncInv, NEW d \in Drain, Claim(d)
    PROVE  [Promise!Next]_(Promise!vars)
  <1>. TypeOK /\ WorkInv
    BY DEF SyncInv
  <1>. PICK j \in Row :
         /\ rows[j].status = "pending"
         /\ \A i \in Row : i # j => rows'[i] = rows[i]
         /\ rows'[j].status = "running"
         /\ rows'[j].attempts = rows[j].attempts + 1
         /\ work' = [work EXCEPT ![d] =
              @ \cup {[job |-> j, attempts |-> rows[j].attempts + 1]}]
         /\ UNCHANGED blind
    BY ClaimEffect
  <1>1. \A i \in Row : i # j => (Alive(i)' <=> Alive(i))
    <2>1. \A e \in Drain : \A w \in work'[e] : w \in work[e] \/ w.job = j
      BY DEF TypeOK
    <2>2. \A e \in Drain : work[e] \subseteq work'[e]
      BY DEF TypeOK
    <2>. QED  BY <2>1, <2>2 DEF Alive
  <1>2. \A i \in Row : i # j => PhaseOf(i)' = PhaseOf(i)
    BY <1>1, PhaseSame
  <1>3. CASE j \in blind
    <2>1. UNCHANGED Starts
      BY <1>3 DEF Starts
    <2>. QED  BY <1>2, <1>3, <2>1, BlindPhase, AllSame DEF Promise!vars
  <1>4. CASE j \notin blind
    <2>1. ~Alive(j)
      BY <1>4, NobodyWorks
    <2>2. Alive(j)'
      <3>1. [job |-> j, attempts |-> rows[j].attempts + 1] \in work'[d]
        BY DEF TypeOK
      <3>. QED  BY <3>1 DEF Alive
    <2>3. Phase[j] = "waiting" /\ PhaseOf(j)' = "working"
      BY <1>4, <2>1, <2>2 DEF Phase, PhaseOf
    <2>4. Starts' = [Starts EXCEPT ![j] = @ + 1]
      BY <1>4 DEF Starts
    <2>5. Starts[j] <= MaxRequeue \/ Starts[j] < ProjectionMax
      BY <1>4 DEF SyncInv, BoundInv, AttemptLeft, Starts
    <2>6. Promise!Start(j)
      BY <1>2, <2>3, <2>4, <2>5, PhaseTo DEF Promise!Start
    <2>. QED  BY <2>6 DEF Promise!Next
  <1>. QED  BY <1>3, <1>4

LEMMA FinishPromise ==
    ASSUME SyncInv, NEW d \in Drain, NEW w \in work[d], Finish(d, w)
    PROVE  [Promise!Next]_(Promise!vars)
  <1>. TypeOK /\ WorkInv /\ LaneInv
    BY DEF SyncInv
  <1>. /\ w.job \in Row
       /\ \A i \in Row : i # w.job => rows'[i] = rows[i]
       /\ \/ rows'[w.job].status \in Ended
          \/ rows'[w.job].status = "pending" /\ w.attempts < ProjectionMax
       /\ rows'[w.job].attempts = rows[w.job].attempts
       /\ work' = [work EXCEPT ![d] = @ \ {w}]
       /\ UNCHANGED blind
    BY FinishEffect
  <1>0. UNCHANGED Starts
    BY StartsSame
  <1>1. \A i \in Row : i # w.job => (Alive(i)' <=> Alive(i))
    <2>1. \A e \in Drain : work'[e] \subseteq work[e]
      BY DEF TypeOK
    <2>2. \A e \in Drain : \A x \in work[e] : x.job # w.job => x \in work'[e]
      BY DEF TypeOK
    <2>. QED  BY <2>1, <2>2 DEF Alive
  <1>2. \A i \in Row : i # w.job => PhaseOf(i)' = PhaseOf(i)
    BY <1>1, PhaseSame
  <1>3. CASE w.job \in blind
    BY <1>0, <1>2, <1>3, BlindPhase, AllSame DEF Promise!vars
  <1>4. CASE w.job \notin blind
    <2>1. rows[w.job].status = "running" /\ rows[w.job].attempts = w.attempts
      BY <1>4 DEF WorkInv
    <2>2. Alive(w.job)
      BY DEF Alive
    <2>3. ~Alive(w.job)'
      <3>. SUFFICES ASSUME NEW e \in Drain, NEW x \in work'[e], x.job = w.job
                    PROVE  FALSE
        BY DEF Alive
      <3>1. x \in work[e] /\ (e = d => x # w)
        BY DEF TypeOK
      <3>. QED  BY <1>4, <3>1, SameWorker
    <2>4. Phase[w.job] = "working" /\ Starts[w.job] = w.attempts
      BY <1>4, <2>1, <2>2 DEF Phase, PhaseOf, Starts
    <2>5. CASE rows'[w.job].status = "pending" /\ w.attempts < ProjectionMax
      <3>1. PhaseOf(w.job)' = "waiting"
        BY <1>4, <2>3, <2>5 DEF PhaseOf
      <3>2. Promise!To(w.job, "waiting")
        BY <1>2, <3>1, PhaseTo
      <3>. QED  BY <1>0, <2>4, <2>5, <3>2 DEF Promise!Finish, Promise!Next
    <2>6. CASE rows'[w.job].status \in Ended
      <3>1. PhaseOf(w.job)' = rows'[w.job].status
        BY <1>4, <2>3, <2>6 DEF PhaseOf, Ended
      <3>2. Promise!To(w.job, rows'[w.job].status)
        BY <1>2, <3>1, PhaseTo
      <3>. QED  BY <1>0, <2>4, <2>6, <3>2
                DEF Promise!Finish, Promise!Next, Promise!Ended, Ended
    <2>. QED  BY <2>5, <2>6
  <1>. QED  BY <1>3, <1>4

LEMMA CrashPromise ==
    ASSUME SyncInv, NEW d \in Drain, Crash(d)
    PROVE  [Promise!Next]_(Promise!vars)
  <1>. TypeOK /\ WorkInv /\ LaneInv
    BY DEF SyncInv
  <1>. DEFINE S == {i \in Row : i \notin blind /\ Alive(i) /\ work[d] # {}}
  <1>1. UNCHANGED <<rows, blind>> /\ work' = [work EXCEPT ![d] = {}]
    BY DEF Crash
  <1>2. UNCHANGED Starts
    BY <1>1, StartsSame
  <1>3. work[d] # {} => \A e \in Drain : work'[e] = {}
    BY <1>1, OneWorks DEF TypeOK
  <1>4. work[d] = {} => \A e \in Drain : work'[e] = work[e]
    BY <1>1 DEF TypeOK
  <1>5. ASSUME NEW i \in Row
        PROVE  PhaseOf(i)' = IF i \in S THEN "lost" ELSE PhaseOf(i)
    <2>1. CASE i \in S
      <3>1. ~Alive(i)'
        BY <1>3, <2>1 DEF Alive
      <3>2. rows[i].status = "running"
        BY <2>1 DEF Alive, WorkInv
      <3>. QED  BY <1>1, <2>1, <3>1, <3>2 DEF PhaseOf
    <2>2. CASE i \in blind
      BY <1>1, <2>2, BlindPhase
    <2>3. CASE i \notin S /\ i \notin blind
      <3>1. Alive(i)' <=> Alive(i)
        BY <1>3, <1>4, <2>3 DEF Alive
      <3>. QED  BY <1>1, <2>3, <3>1, PhaseSame
    <2>. QED  BY <2>1, <2>2, <2>3
  <1>6. \A i \in S : Phase[i] = "working"
    BY DEF Phase, PhaseOf, Alive, WorkInv
  <1>7. Phase' = [i \in Row |-> IF i \in S THEN "lost" ELSE Phase[i]]
    BY <1>5 DEF Phase
  <1>8. CASE S = {}
    BY <1>2, <1>5, <1>8, AllSame DEF Promise!vars
  <1>9. CASE S # {}
    <2>1. Promise!Lose(S)
      BY <1>2, <1>6, <1>7, <1>9 DEF Promise!Lose
    <2>. QED  BY <2>1 DEF Promise!Next
  <1>. QED  BY <1>8, <1>9

LEMMA StepPromise ==
    ASSUME SyncInv, [Next]_vars
    PROVE  [Promise!Next]_(Promise!vars)
  <1>1. CASE Quiet
    <2>1. \A i \in Row : Alive(i)' <=> Alive(i)
      BY <1>1 DEF Quiet, Alive
    <2>2. \A i \in Row : PhaseOf(i)' = PhaseOf(i)
      BY <1>1, <2>1, PhaseSame DEF Quiet
    <2>. QED  BY <1>1, <2>2, AllSame, StartsSame DEF Quiet, Promise!vars
  <1>. QED
    BY <1>1, QuietOrNot, CreatePromise, CancelPromise, RequeuePromise,
       ClaimPromise, FinishPromise, CrashPromise

\* Job by job, the queue keeps its promise: attempts bounded, given up only when
\* the worker is dead, the end final (bot_db_sync_queue.py:128, 519, 539).
THEOREM SyncKeepsPromise == Spec => KeepsSyncPromise
  <1>1. Init => Promise!Init
    <2>. SUFFICES ASSUME Init PROVE Promise!Init
      OBVIOUS
    <2>1. \A j \in Row : ~Alive(j)
      BY DEF Init, Alive
    <2>2. \A j \in Row : PhaseOf(j) = "none"
      BY <2>1 DEF Init, PhaseOf
    <2>3. Starts = [j \in Row |-> 0]
      BY DEF Init, Starts
    <2>. QED  BY <2>2, <2>3 DEF Promise!Init, Phase
  <1>. QED  BY <1>1, StepPromise, SyncInvariant, PTL
            DEF Spec, KeepsSyncPromise, Promise!Spec
=============================================================================
