---------------------------- MODULE SyncProperties ----------------------------
(***************************************************************************)
(* What the runs check of the bot-to-database queue.                       *)
(***************************************************************************)
EXTENDS SyncQueue

HookPoint == {"idle", "create", "spawn"}
PollerPoint == {"idle", "readOrphans", "orphans", "readStale", "stale", "rearm"}
DrainPoint == {"off", "start", "readOrphans", "orphans", "stale", "work",
               "release", "respawn"}

JobStatus == {"none", "pending", "running", "done", "failed", "skipped"}
Job == [status : JobStatus, key : Key \cup {None}, attempts : Nat, old : BOOLEAN,
        oom : BOOLEAN]

\* Types of the variables (bot_db_sync_queue.py, models.py).
TypeOK ==
    /\ rows \in [Row -> Job]
    /\ lock \in {None, Web} \cup Drain
    /\ cool \in BOOLEAN
    /\ pc \in [Hook \cup Recoverer -> HookPoint \cup PollerPoint \cup DrainPoint]
    /\ \A h \in Hook : pc[h] \in HookPoint
    /\ want \in [Hook -> Key \cup {None}]
    /\ \A p \in Poller : pc[p] \in PollerPoint
    /\ \A d \in Drain : pc[d] \in DrainPoint
    /\ todo \in [Recoverer ->
                   SUBSET [job : Row, status : {"failed", "pending"}]]
    /\ work \in [Drain -> SUBSET [job : Row, attempts : Nat]]
    /\ taken \in [Drain -> 0..MaxJobs]
    /\ mute \subseteq Drain
    /\ blind \subseteq Row
    /\ faults \in Nat

\* A job has one worker at a time, however many drains are started, die and are
\* recovered; the second worker of a job needs a recovery that wrote over a
\* running one (bot_db_sync_queue.py:264, 519).
OneWorkerPerJob ==
    \A d, e \in Drain : \A w \in work[d], x \in work[e] :
        w.job = x.job => (d = e /\ w = x) \/ w.job \in blind

\* Hooks that enqueue different keys never leave two active jobs of one key,
\* whatever retries and recoveries do (bot_db_sync_queue.py:331-353).
OneJobPerKey ==
    \A i, j \in With(Active) \ blind : rows[i].key = rows[j].key => i = j

\* The queue as the promise sees it.
PhaseOf(j) ==
    IF j \in blind THEN "forfeit"
    ELSE IF Alive(j)
    THEN IF rows[j].status = "running" THEN "working" ELSE "torn"
    ELSE CASE rows[j].status = "pending" -> "waiting"
           [] rows[j].status = "running" -> "lost"
           [] OTHER -> rows[j].status

Phase == [j \in Row |-> PhaseOf(j)]

Starts == [j \in Row |-> IF j \in blind THEN 0 ELSE rows[j].attempts]

Promise == INSTANCE SyncPromise WITH Job <- Row, phase <- Phase, starts <- Starts

\* Job by job the queue keeps its promise, until a recovery writes over a row
\* that was not, or was no longer, what it had read (bot_db_sync_queue.py:128).
KeepsSyncPromise == Promise!Spec

\* While the panel is polled every job ends, and stays ended, whatever drains
\* crash, are refused or find the memory low (automacoes/views.py:903-913).
AllSettle == <>[](With(Active) = {})

\* What reconcile_bot_db_sync_jobs says of itself: whoever has the lane finds
\* only phantoms running in it, until the last verdict is written. It takes a
\* second thread of the web process to break it (bot_db_sync_queue.py:234, 267).
RecoversPhantoms ==
    \A a \in Recoverer : pc[a] = "orphans" =>
        \A v \in todo[a] : ~Alive(v.job)
=============================================================================
