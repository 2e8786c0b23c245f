------------------------------- MODULE SyncQueue -------------------------------
(***************************************************************************)
(* One lane of the bot-to-database queue: bot_db_sync_queue.py with the    *)
(* drain command and the console's poll.  Robots enqueue, one drain        *)
(* process at a time works the lane off, and whoever polls the console     *)
(* recovers what dead drains left and starts new ones.                     *)
(***************************************************************************)
EXTENDS Naturals, FiniteSets

CONSTANTS
    Row,            \* ids of the job table's rows, in the order of creation
    Key,            \* (domain, report_type, source_path) of a job
    Projections,    \* the keys of domain qualidade_projection
    Hook,           \* threads of the web process that enqueue
    KeysOf,         \* the keys each of them may enqueue
    Poller,         \* threads of the web process that serve the queue's panel
    Drain,          \* drain processes that may be alive at once
    Concurrency,    \* workers of a drain
    MaxJobs,        \* jobs a drain takes before it ends
    MaxRequeue,     \* BOT_DB_SYNC_STALE_MAX_REQUEUE
    ProjectionMax,  \* QUALIDADE_PROJECTION_MAX_ATTEMPTS
    Web,            \* the web process, as owner of the lock
    None,
    Disturbances,   \* which of the faults may happen
    MaxFaults       \* how many of them: a bound of the model

ASSUME RowsAreNat == Row \subseteq Nat
ASSUME KeysAreKeys ==
    /\ KeysOf \in [Hook -> SUBSET Key] /\ Projections \subseteq Key
    /\ None \notin Key
ASSUME SyncBounds ==
    /\ Concurrency \in Nat \ {0} /\ MaxJobs \in Nat \ {0}
    /\ MaxRequeue \in Nat /\ ProjectionMax \in Nat \ {0} /\ MaxFaults \in Nat
ASSUME SyncActors ==
    /\ Hook \cap Poller = {} /\ Hook \cap Drain = {} /\ Poller \cap Drain = {}
    /\ Web \notin Drain \cup {None} /\ None \notin Drain

VARIABLES
    rows,    \* the table of BotDbSyncJob
    lock,    \* who holds the lane's lock file: None, Web or a drain
    cool,    \* the web process spawned a drain less than the cooldown ago
    pc,      \* where each thread or process is
    want,    \* the key a hook is enqueueing
    todo,    \* verdicts a recovery has read and not yet written
    work,    \* the running workers of each drain
    taken,   \* jobs each drain has claimed
    mute,    \* drains that do not start a successor: memory low, or a cooldown
    blind,   \* history: rows a recovery wrote over that were no such orphans
    faults

vars == <<rows, lock, cool, pc, want, todo, work, taken, mute, blind, faults>>

Recoverer == Poller \cup Drain

Active == {"pending", "running"}
Ended == {"done", "failed", "skipped"}

With(S) == {j \in Row : rows[j].status \in S}
Pending == With({"pending"})
Oldest(S) == {j \in S : \A i \in S : j <= i}

\* Somebody is executing the job of row j.
Alive(j) == \E d \in Drain : \E w \in work[d] : w.job = j

Fault(kind) ==
    /\ kind \in Disturbances
    /\ faults < MaxFaults
    /\ faults' = faults + 1

Init ==
    /\ rows = [j \in Row |-> [status |-> "none", key |-> None, attempts |-> 0,
                              old |-> FALSE, oom |-> FALSE]]
    /\ lock = None
    /\ cool = FALSE
    /\ pc = [a \in Hook \cup Recoverer |->
               IF a \in Drain THEN "off" ELSE "idle"]
    /\ want = [h \in Hook |-> None]
    /\ todo = [a \in Recoverer |-> {}]
    /\ work = [d \in Drain |-> {}]
    /\ taken = [d \in Drain |-> 0]
    /\ mute = {}
    /\ blind = {}
    /\ faults = 0

Step(a, next) == pc' = [pc EXCEPT ![a] = next]

-----------------------------------------------------------------------------
\* spawn_drain_worker, called by a in a process that is in its cooldown or not.
\* A drain is started only if nobody holds the lane; Popen may fail, and the
\* high lane is not started when memory is low.

Spawn(a, cooling, next) ==
    \/ /\ cooling \/ lock # None
       /\ Step(a, next)
       /\ UNCHANGED <<cool, faults>>
    \/ /\ ~cooling /\ lock = None
       /\ \E d \in Drain :
            /\ pc[d] = "off" \/ d = a
            /\ pc' = [pc EXCEPT ![a] = next, ![d] = "start"]
       /\ cool' = (cool \/ a \notin Drain)
       /\ UNCHANGED faults
    \/ /\ ~cooling /\ lock = None
       /\ Fault("nospawn")
       /\ Step(a, next)
       /\ UNCHANGED cool

\* Thirty seconds have passed.
CoolDown ==
    /\ cool /\ cool' = FALSE
    /\ UNCHANGED <<rows, lock, pc, want, todo, work, taken, mute, blind,
                   faults>>

-----------------------------------------------------------------------------
\* enqueue_bot_db_sync: look for an active job of the key, create one if there
\* is none, spawn.  Looking and creating are two statements.

Creating == {h \in Hook : pc[h] = "create"}

\* Wrong on purpose: a job that is running does not count.
IsActiveOnlyPending(k) == \E j \in Pending : rows[j].key = k

IsActive(k) == \E j \in With(Active) : rows[j].key = k

EnqueueCheck(h) ==
    /\ pc[h] = "idle"
    /\ Cardinality(With({"none"})) > Cardinality(Creating)
    /\ \E k \in KeysOf[h] :
         \/ IsActive(k) /\ Step(h, "spawn") /\ UNCHANGED want
         \/ /\ ~IsActive(k)
            /\ Step(h, "create") /\ want' = [want EXCEPT ![h] = k]
    /\ UNCHANGED <<rows, lock, cool, todo, work, taken, mute, blind, faults>>

EnqueueCreate(h) ==
    /\ pc[h] = "create"
    /\ \E j \in Oldest(With({"none"})) :
         rows' = [rows EXCEPT ![j].status = "pending", ![j].key = want[h]]
    /\ Step(h, "spawn")
    /\ want' = [want EXCEPT ![h] = None]
    /\ UNCHANGED <<lock, cool, todo, work, taken, mute, blind, faults>>

EnqueueSpawn(h) ==
    /\ pc[h] = "spawn"
    /\ Spawn(h, cool, "idle")
    /\ UNCHANGED <<rows, lock, want, todo, work, taken, mute, blind>>

\* cancel_pending_job, under a row lock.
Cancel(j) ==
    /\ rows[j].status = "pending"
    /\ rows' = [rows EXCEPT ![j].status = "skipped", ![j].oom = FALSE]
    /\ UNCHANGED <<lock, cool, pc, want, todo, work, taken, mute, blind, faults>>

-----------------------------------------------------------------------------
\* Recovery, in a poll or at the start of a drain: rows are read by one query
\* and written back one by one.

\* Wrong on purpose: one attempt too many.
VerdictLate(j) ==
    [job |-> j,
     status |-> IF rows[j].oom \/ rows[j].attempts > MaxRequeue + 1
                THEN "failed" ELSE "pending"]

Verdict(j) ==
    [job |-> j,
     status |-> IF rows[j].oom \/ rows[j].attempts > MaxRequeue
                THEN "failed" ELSE "pending"]

Orphan(j) == rows[j].status = "running" /\ ~Alive(j)

\* recover_orphan_running_jobs_for_lane
ReadOrphans(a) ==
    /\ pc[a] = "readOrphans"
    /\ todo' = [todo EXCEPT ![a] = {Verdict(j) : j \in With({"running"})}]
    /\ Step(a, "orphans")
    /\ UNCHANGED <<rows, lock, cool, want, work, taken, mute, blind, faults>>

\* recover_stale_running_jobs; a poll has released the lane before.
AfterRecovery(a) == IF a \in Drain THEN "work" ELSE "rearm"

ReadStale(a) ==
    /\ \/ pc[a] = "readStale"
       \/ a \in Drain /\ pc[a] = "orphans" /\ todo[a] = {}
    /\ LET stale == {j \in With({"running"}) : rows[j].old}
       IN  /\ todo' = [todo EXCEPT ![a] = {Verdict(j) : j \in stale}]
           /\ Step(a, IF stale = {} THEN AfterRecovery(a) ELSE "stale")
    /\ UNCHANGED <<rows, lock, cool, want, work, taken, mute, blind, faults>>

\* _requeue_or_fail_running_job saves its verdict without looking again.
Requeue(a) ==
    /\ pc[a] \in {"orphans", "stale"}
    /\ \E v \in todo[a] :
         /\ rows' = [rows EXCEPT ![v.job].status = v.status,
                                 ![v.job].old = FALSE, ![v.job].oom = FALSE]
         /\ todo' = [todo EXCEPT ![a] = @ \ {v}]
         /\ blind' = IF Orphan(v.job) /\ v = Verdict(v.job)
                     THEN blind ELSE blind \cup {v.job}
    /\ UNCHANGED <<lock, cool, pc, want, work, taken, mute, faults>>

EndStale(a) ==
    /\ pc[a] = "stale" /\ todo[a] = {}
    /\ Step(a, AfterRecovery(a))
    /\ UNCHANGED <<rows, lock, cool, want, todo, work, taken, mute, blind, faults>>

Recovery(a) == ReadOrphans(a) \/ ReadStale(a) \/ Requeue(a) \/ EndStale(a)

-----------------------------------------------------------------------------
\* The poll: reconcile_bot_db_sync_jobs, then a spawn if something is pending.

\* acquire_drain_process_lock is true at once if this process has the handle,
\* whichever thread opened it.
\* Wrong on purpose: the lane is not asked for.
PollBeginUnlocked(p) ==
    /\ pc[p] = "idle"
    /\ Step(p, "readOrphans")
    /\ UNCHANGED <<rows, lock, cool, want, todo, work, taken, mute, blind, faults>>

PollBegin(p) ==
    /\ pc[p] = "idle"
    /\ IF lock \in {None, Web}
       THEN lock' = Web /\ Step(p, "readOrphans")
       ELSE UNCHANGED lock /\ Step(p, "readStale")
    /\ UNCHANGED <<rows, cool, want, todo, work, taken, mute, blind, faults>>

\* release_drain_process_lock closes the process's handle, if there is one.
PollRelease(p) ==
    /\ pc[p] = "orphans" /\ todo[p] = {}
    /\ lock' = IF lock = Web THEN None ELSE lock
    /\ Step(p, "readStale")
    /\ UNCHANGED <<rows, cool, want, todo, work, taken, mute, blind, faults>>

\* Wrong on purpose: the poll recovers and starts nothing.
PollRearmNothing(p) ==
    /\ pc[p] = "rearm"
    /\ Step(p, "idle")
    /\ UNCHANGED <<rows, lock, cool, want, todo, work, taken, mute, blind, faults>>

PollRearm(p) ==
    /\ pc[p] = "rearm"
    /\ IF Pending # {}
       THEN Spawn(p, cool, "idle")
       ELSE Step(p, "idle") /\ UNCHANGED <<cool, faults>>
    /\ UNCHANGED <<rows, lock, want, todo, work, taken, mute, blind>>

\* The web process restarts: handle, cooldown and requests are gone, also a hook
\* that has not created its job or not spawned.
WebRestart ==
    /\ Fault("restart")
    /\ lock' = IF lock = Web THEN None ELSE lock
    /\ cool' = FALSE
    /\ pc' = [a \in DOMAIN pc |-> IF a \in Drain THEN pc[a] ELSE "idle"]
    /\ want' = [h \in Hook |-> None]
    /\ todo' = [a \in Recoverer |-> IF a \in Poller THEN {} ELSE todo[a]]
    /\ UNCHANGED <<rows, want, work, taken, mute, blind>>

-----------------------------------------------------------------------------
\* The drain process: drain_bot_db_sync.py and drain_pending_jobs.

\* Whoever asks if the lane is held takes the lock file for an instant.
Probed == \E a \in Poller \cup Hook : pc[a] \in {"rearm", "spawn"}

DrainAcquire(d) ==
    /\ pc[d] = "start" /\ lock = None
    /\ lock' = d
    /\ Step(d, "readOrphans")
    /\ UNCHANGED <<rows, cool, want, todo, work, taken, mute, blind, faults>>

DrainSkip(d) ==
    /\ pc[d] = "start"
    /\ lock # None \/ Probed
    /\ Step(d, "off")
    /\ UNCHANGED <<rows, lock, cool, want, todo, work, taken, mute, blind, faults>>

\* Wrong on purpose: one job more than the drain may take.
MayTakeOneMore(d) == Cardinality(work[d]) < Concurrency /\ taken[d] <= MaxJobs

MayTake(d) == Cardinality(work[d]) < Concurrency /\ taken[d] < MaxJobs

\* Wrong on purpose: the attempt is counted, the row left as it was.
ClaimedUnmarked(row) == [row EXCEPT !.attempts = @ + 1, !.old = FALSE]

Claimed(row) ==
    [row EXCEPT !.status = "running", !.attempts = @ + 1, !.old = FALSE]

\* claim_next_job: the oldest pending row, under a row lock.
Claim(d) ==
    /\ pc[d] = "work" /\ MayTake(d)
    /\ \E j \in Oldest(Pending) :
         /\ rows' = [rows EXCEPT ![j] = Claimed(@)]
         /\ work' = [work EXCEPT ![d] =
                       @ \cup {[job |-> j, attempts |-> rows[j].attempts + 1]}]
    /\ taken' = [taken EXCEPT ![d] = @ + 1]
    /\ UNCHANGED <<lock, cool, pc, want, todo, mute, blind, faults>>

\* A projection that failed is tried again.
Retries(w, outcome) ==
    /\ outcome = "failed"
    /\ rows[w.job].key \in Projections
    /\ w.attempts < ProjectionMax

\* process_job: the worker saves the outcome over the row, whatever is there. A
\* failure for lack of memory stops respawns for five minutes.
Finish(d, w) ==
    /\ w \in work[d]
    /\ \E outcome \in Ended, oom \in BOOLEAN :
         /\ oom => outcome = "failed"
         /\ rows' = [rows EXCEPT
              ![w.job].status = IF Retries(w, outcome) THEN "pending" ELSE outcome,
              ![w.job].oom = oom /\ Retries(w, outcome), ![w.job].old = FALSE]
         /\ mute' \in IF oom THEN {mute, mute \cup {d}} ELSE {mute}
    /\ work' = [work EXCEPT ![d] = @ \ {w}]
    /\ UNCHANGED <<lock, cool, pc, want, todo, taken, blind, faults>>

\* Nothing more to claim, or memory too low to claim in the high lane.
DrainIdle(d) ==
    /\ pc[d] = "work" /\ work[d] = {}
    /\ \/ /\ Pending = {} \/ taken[d] = MaxJobs
          /\ UNCHANGED <<mute, faults>>
       \/ /\ taken[d] < MaxJobs
          /\ Fault("lowMemory")
          /\ mute' = mute \cup {d}
    /\ Step(d, "release")
    /\ UNCHANGED <<rows, lock, cool, want, todo, work, taken, blind>>

DrainRelease(d) ==
    /\ pc[d] = "release"
    /\ lock' = None
    /\ Step(d, "respawn")
    /\ taken' = [taken EXCEPT ![d] = 0]
    /\ UNCHANGED <<rows, cool, want, todo, work, mute, blind, faults>>

DrainRespawn(d) ==
    /\ pc[d] = "respawn"
    /\ IF Pending # {} /\ d \notin mute
       THEN Spawn(d, FALSE, "off")
       ELSE Step(d, "off") /\ UNCHANGED <<cool, faults>>
    /\ mute' = mute \ {d}
    /\ UNCHANGED <<rows, lock, want, todo, work, taken, blind>>

\* A drain is killed: the system closes its lock file, its jobs stay running.
Crash(d) ==
    /\ pc[d] # "off"
    /\ Fault("crash")
    /\ Step(d, "off")
    /\ lock' = IF lock = d THEN None ELSE lock
    /\ todo' = [todo EXCEPT ![d] = {}]
    /\ work' = [work EXCEPT ![d] = {}]
    /\ taken' = [taken EXCEPT ![d] = 0]
    /\ mute' = mute \ {d}
    /\ UNCHANGED <<rows, cool, want, blind>>

\* A job has been running for longer than BOT_DB_SYNC_STALE_MINUTES; "slow" lets
\* this happen to one that is still being worked on.
GrowOld(j) ==
    /\ rows[j].status = "running" /\ ~rows[j].old
    /\ Alive(j) => "slow" \in Disturbances
    /\ rows' = [rows EXCEPT ![j].old = TRUE]
    /\ UNCHANGED <<lock, cool, pc, want, todo, work, taken, mute, blind, faults>>

-----------------------------------------------------------------------------
PollStep(p) == PollBegin(p) \/ PollRelease(p) \/ PollRearm(p) \/ Recovery(p)

DrainStep(d) ==
    \/ DrainAcquire(d) \/ DrainSkip(d) \/ Recovery(d)
    \/ Claim(d) \/ DrainIdle(d) \/ DrainRelease(d) \/ DrainRespawn(d)

EnqueueStep(h) == EnqueueCheck(h) \/ EnqueueCreate(h) \/ EnqueueSpawn(h)

Next ==
    \/ CoolDown \/ WebRestart
    \/ \E h \in Hook : EnqueueStep(h)
    \/ \E p \in Poller : PollStep(p)
    \/ \E d \in Drain : DrainStep(d) \/ Crash(d) \/ \E w \in work[d] : Finish(d, w)
    \/ \E j \in Row : Cancel(j) \/ GrowOld(j)

Spec == Init /\ [][Next]_vars

\* The panel is open, so polls go on; processes run; a sync ends; a drain that
\* is started again and again finds the lane free in the end.
FairSpec ==
    /\ Spec
    /\ WF_vars(CoolDown)
    /\ \A p \in Poller : WF_vars(PollStep(p))
    /\ \A d \in Drain :
         /\ WF_vars(DrainStep(d))
         /\ SF_vars(DrainAcquire(d))
         /\ WF_vars(\E w \in work[d] : Finish(d, w))
=============================================================================
