# Verification of PPLID-server-ops

PPLID-server-ops runs a Windows host for an operations team. Five of its parts keep
shared state that several processes change at once, and this directory holds
TLA+ modules that model them, TLC configurations that check the models, and
proofs checked by TLAPS:

* **Deploy.** Three environments (MAIN, DEV, HOM) of one web application. A
  scheduled watcher compares each branch with the release that is live and, when
  they differ, runs a pipeline of PowerShell scripts: build, validate, promote,
  publish, prune. A Python console starts, cancels and rolls back deploys. All that
  these processes know of each other is in a handful of files, two directory
  junctions and a named mutex, and any of them may be killed at any moment.
* **Bot-to-database queue.** Robots leave files behind; jobs in a table say which of
  them to load. Short-lived drain processes work a lane of the table off, one process
  at a time, and whoever polls the console's panel recovers what dead drains
  left and starts new ones.
* **Supervisors of the robots.** The console starts one supervisor process per target
  environment; each starts a robot, watches it and stops it. They talk through state
  files, stop files and pid files.
* **Online support queue.** Requests wait in one queue; each support agent is offered
  one at a time and has a minute to accept. Handlers are database transactions that
  lock rows, skip locked rows, wait for each other and deadlock.
* **Audit queues.** Two queues of protocols to audit, each protocol a group of rows. An
  auditor works on one, may have a next one directed to him, and loses what he keeps for
  more than five minutes. Handlers are transactions as in the support queue; one lock,
  shared by both queues, keeps him online in one of them.

## 1. Inventory

### Components, their state, their operations

| Component | Source | State it keeps | Operations | Hard behaviour |
|---|---|---|---|---|
| Deploy pipeline | `deploy/deploy_pipeline.ps1`, `deploy/run_pipeline_locked.ps1` | its variables (`$oldActive`, the state read at start) | start, build, validate, promote, publish, prune, catch | killed anywhere; a failure after the release is live |
| Deploy lock | `deploy/lib/deploy_lock.ps1` | mutex `Global\PPLID-Deploy-{ENV}`, `lockHolder` in the state | enter (with zombie and stale resets), exit | decides on the state before it has the mutex |
| Deploy state | `deploy/lib/deploy_state.ps1`, `legacy_deploy_status.ps1` | `deploy-state.json`, the cancel-request file, the phase in `deploy-status.json` | get, set, sync, stale, cancel flag | read-modify-write without a lock, stale ages |
| Release store | `deploy/lib/junction.ps1`, `release_cleanup.ps1`, `deploy_paths.ps1`, `deploy/prune_releases.ps1` | `releases/{sha}`, `meta.json`, junctions `current` and `previous` | link, protect, prune | a junction is removed before it is made |
| Promote | `deploy/promote_release.ps1` | services, junctions | link, migrate, stop, start, health, restore, roll back | failure at each step needs another way back |
| Rollback | `deploy/rollback_release.ps1` | junction, services, state | choose, link, restart, record | takes no lock |
| Watcher | `deploy/watch_github.ps1`, `watch_all.ps1` | none of its own | recover stale deploys, decide, deploy | decides on what others change |
| Cancel | `deploy/cancel_deploy.ps1` | cancel-request file, state | flag, kill, reset | the deploy may survive the kill; the cancel may die |
| Recovery | `recover_stuck_deploy.ps1` | state, phase, block | reset, unblock, restart services | runs beside a deploy that is alive |
| Bootstrap | `deploy/bootstrap_env.ps1` | junction, services | repair, start | uses a state read before it has the lock |
| Console deploy actions | `ops-console/server_ops.py` | none; rewrites the state to clear a block | redeploy, clear block, cancel, roll back, cross-environment promote | checks the status, then starts a process |
| Build and validation internals | `deploy/build_staging.ps1`, `validate_staging.ps1`, `lib/backend_deploy.ps1`, `lib/deps_cache.ps1` | mirror, staging, caches | fetch, checkout, fingerprint, compile | reuse or rebuild of a release that is live |
| Sync and orchestrator locks | `lib/sync_lock.ps1`, `update_all.ps1` | two more mutexes | enter, exit | order across environments |
| Bot-to-database queue | `ops-console/automation-native/backend/apps/common/bot_db_sync_queue.py`, `management/commands/drain_bot_db_sync.py`, `apps/automacoes/views.py` | the job table, the lane's lock file, the cooldown of the web process | enqueue, spawn, claim, process, recover orphans and stale jobs, cancel, poll | check then create; a lock that is re-entrant for a whole process; verdicts written late |
| Automation supervisor | `ops-console/automation_supervisor.py`, `server_automations.py` | state file and stop file of each environment | start, stop, panel; the supervisor's loop | no lock at all; every file is read, changed and replaced |
| Robot manager | `automation-native/automacoes/app/services/robot_manager.py` | process handles, the pid file of a folder | start, stop, status, output thread | a pid file two programs write; a `taskkill` nobody checks |
| Online support queue | `apps/suporte_operacional/services/fila_online.py`, `workflow.py` | requests, presences (PostgreSQL rows) | claim, direct, accept, answer, sweep, presence, leader's decision | locks taken in several orders, unlocked reads, skipped rows |
| Audit queues | `apps/auditoria/services/reinspecao_fila.py`, `auditoria_compliance_fila.py`, `fila_presence_mutex.py` | rows of protocols, presences in two tables | import, distribute, claim, direct, start, end, return, remove, presence, expiry, patch, delete | groups of rows locked one by one; a key over two tables; rows chosen before they are locked |
| Console server, monitoring, ops store, backups, set-up, robots and reports | `ops-console/**`, `lib/ops_store.*`, `backup_main.ps1`, `setup.ps1` | SQLite log, reports | many | see section 8 |

### How they interact

* **Calls.** watcher and console → `run_pipeline_locked` → pipeline → build,
  validate, promote → rollback, all as child processes or dot-sourced scripts. The
  watcher waits for its own deploy; the console does not.
* **Shared files.** Every script reads and rewrites `deploy-state.json`. A deploy
  that lost its lock, a recovery and a cancel may all write it at once.
* **Shared junction.** Promote, restore, rollback and bootstrap write `current`.
* **Mutex.** Only `run_pipeline_locked` and `bootstrap_env` take the deploy mutex.
  Watcher, cancel, recovery and manual rollback act on the same state without it.
* **Time.** The scripts infer that a deploy is dead from the age of what it wrote:
  five minutes for the zombie test, forty-five for the stale ones. The job queue does
  the same with its running jobs, the support queue with its offers of one minute.
* **Queue.** A robot's end enqueues a job from a thread of the web process; the same process
  spawns drains and, on every poll of the panel, reconciles the table. Drains and web
  process share the table and the lane's lock file only.
* **Supervisors.** Console thread → state and stop files ← supervisor → robot. The
  portal of an environment may start a robot of the same mode through a robot manager of
  its own and shares the pid file.
* **Support.** Browsers poll; each request is a transaction of one web thread, and
  transactions meet in PostgreSQL's row locks.
* **Audits.** The same, over the rows of a protocol; a patch of the cadastre writes a
  row it has read without any lock.

The five subsystems share no state with each other: a job of the queue is
enqueued after a robot has ended, whatever started it, and deploys replace the programs,
not their data. Each is therefore a specification of its own.

### What makes it correct

One deploy at a time (lock). What is live was built and validated, and stays so
while it is live (promote, prune). State, junction and services agree once nothing
runs (all). A failed deploy leaves production alone (pipeline, build). A dead deploy
never stops later ones (watcher, lock). A cancel frees the environment and its
deploy does not come back (cancel).

A job is worked on by one worker at a time, tried a bounded number of times, and ends
once; no key has two active jobs; whatever dies, the panel's poll gets the queue going
again (bot-to-database queue). An environment has one robot of a mode, a stop reaches it,
and no state file claims for ever that something runs (supervisors). A request that was
accepted stays with its agent, one that was closed stays closed, an offer that ran out
goes back (support queue). An auditor is online in one queue, keeps nothing the general
queue gave him when he leaves, gives back what is out of time, and what was concluded does not
come back (audit queues). `PROJECT.json` lists, line by line, where each of
these is at risk (`hazards`) and which property watches it.

## 2. Modules

| Module | What it holds |
|---|---|
| `DeployEnv` | One environment: constants, variables, the record of the state file, and the helpers of `deploy/lib` as operators |
| `DeployPipeline` | `Init`, and a deploy process step by step: lock, pipeline, promote, rollback, prune, catch |
| `DeploySystem` | Everything around it: watcher, console, cancel, recovery, bootstrap, kills, reboots, time; `Next`, `Spec`, `FairSpec` |
| `DeployProperties` | The properties |
| `ReleasePromise` | The abstract specification: what an environment promises, without scripts |
| `MCDeploy` | Model values and symmetry for TLC |
| `DeployProofs` | Theorems about the lock and the pipeline, for any disturbance |
| `DeployLiveProofs` | Theorems about what is live: the refinement, and that state, junction and services agree |
| `ReleasePromiseProofs` | What the abstract promise means |
| `SyncQueue` | One lane of the bot-to-database queue: hooks that enqueue, the poll, drains, crashes, restarts; `Spec`, `FairSpec` |
| `SyncPromise` | The abstract specification: the life of one job |
| `SyncProperties`, `MCSyncQueue`, `SyncProofs` | Properties, instance, theorems |
| `BotSupervisor` | The robots of one mode: console threads, supervisors, robot managers, robots |
| `SupervisorProperties`, `MCSupervisor`, `SupervisorProofs` | Properties, instance, theorems |
| `SupportQueue` | The online support queue: transactions of web threads step by step, row locks, rollbacks |
| `SupportProperties`, `MCSupportQueue`, `SupportProofs` | Properties, instance, theorems |
| `AuditQueue` | The two audit queues: transactions of web threads step by step, row, user and presence locks |
| `AuditProperties`, `MCAuditQueue`, `AuditProofs` | Properties, instance, theorems |

`DeployEnv` ← `DeployPipeline` ← `DeploySystem` ← `DeployProperties` ← `MCDeploy`,
`DeployProofs` ← `DeployLiveProofs` (EXTENDS); `DeployProperties` instantiates `ReleasePromise`, `SyncProperties`
instantiates `SyncPromise`, each with a refinement mapping. The other subsystems are
model ← properties ← (MC, proofs).

### Deploy: state and code

| Variable | Code |
|---|---|
| `st` | `deploy-state.json`; only the fields a script decides on |
| `flag` | the cancel-request file: no file, a run's id, or an id-less one (`"any"`) |
| `legacy` | this environment's `phase` and `lastDeployStartedAt` in `deploy-status.json` |
| `current`, `previous` | targets of the junctions, `None` while a junction is missing |
| `releases`, `built` | directories under `releases/`, and those whose `meta.json` says built |
| `serving` | the release the running services were started from |
| `mutex` | owner of `Global\PPLID-Deploy-{ENV}` |
| `origin` | head of `origin/{branch}` |
| `pc`, `loc` | for each process, the point it is at and its PowerShell variables |
| `watch`, `watchRun` | the watcher between its check and its decision; its own deploy, which it waits for |
| `cancel` | a run of `cancel_deploy.ps1` and what it read at its start |
| `faults` | how many bounded disturbances have happened |
| `validated`, `cancelled` | history, read by properties only: validated artefacts, runs reported cancelled |

Processes are the actors: `Run` is a set of slots for deploys named by their run id
(an id is reused only when no file names it any more), `Operator` is the manual
rollback, `Boot` the bootstrap. An action is what a script does between two points at
which another process can change what it reads next. Every definition that stands
for code has its lines in `PROJECT.json`, under `map`; this holds for the other
subsystems too.

The watcher's two actions are one process: they run under the sync mutex, so there
is one watcher, and none while its deploy runs (`watchRun`). The state of a deploy
that goes wrong is written where the code writes it: `failing` for any throw,
`cancelling` for the throw the catch block recognises as a cancel by its text.

### Bot-to-database queue: state and code

| Variable | Code |
|---|---|
| `rows` | the table `BotDbSyncJob`: status, key, attempts; `old` is "running for longer than `BOT_DB_SYNC_STALE_MINUTES`", `oom` the mark of a failure for lack of memory |
| `lock` | the owner of the lane's lock file; the web process as a whole is one owner |
| `cool` | the web process spawned a drain less than its cooldown ago |
| `pc`, `want` | where each hook, poll and drain is; the key a hook is about to create |
| `todo` | the verdicts a recovery has read from the table and not yet written |
| `work`, `taken` | the running workers of each drain, the jobs it has claimed |
| `mute` | drains that will not start a successor |
| `blind` | history: rows a recovery wrote over that were no longer what it had read |

An action is one statement on the table, one call on the lock file or one spawn. `blind` marks
where the code itself gives its guarantees up: `_requeue_or_fail_running_job` saves
without looking again. The properties are about all other rows, and say that the damage
does not spread to them.

### Supervisors: state and code

| Variable | Code |
|---|---|
| `state`, `stop` | the state file and the stop file of each environment |
| `pidfile` | the pid file of each folder of robots |
| `sup` | each supervisor process: its point, environment and the pid it reports |
| `robot` | each robot: `alive` with the handle its manager holds, `loose` without it, `ended` while the output thread has still to clear the pid file, `dead` |
| `con` | each console thread: its request, the environments it has still to do, the file it has read |
| `torn` | history: state files written back from a copy that was out of date |

### Online support queue: state and code

| Variable | Code |
|---|---|
| `rows`, `presence` | what is committed of requests and presences: status, agent, place, offer (`running`, `expired`, or `none` once accepted), prioritised |
| `held` | the rows each transaction has locked, as it will commit them |
| `desk` | the transaction that has locked an agent's presence row |
| `th` | each web thread: its point and the variables of the handler |

Transactions are made of steps (`Expire`, `Promote`, `Look`, `Count`, `Pick`, `Take`, `Mark`, `List`,
`Release`, `Commit`), one per statement that reads or locks. A statement sees what is
committed and what its own transaction wrote; a locked row is skipped, or waited for
and looked at again, as the code asks for (`skip_locked`, `select_for_update`).

### Audit queues: state and code

| Variable | Code |
|---|---|
| `rows` | the committed rows: `analise_status` (with `absent` before the import and `gone` after promotion or deletion), `responsavel`, `fila_origem`, and `atribuido_em` as a clock that is stopped, running or over |
| `presence` | the committed status of each auditor in each queue; offline and ausente are `away` |
| `held` | the rows each transaction has locked, as it will commit them |
| `users`, `desk` | the transactions that have locked a user's row (`lock_presence_user`), and his presence row in a queue |
| `th` | each web thread: its point and the variables of the handler |
| `stale` | history: rows a patch wrote from a copy that was out of date |

An operation begins with `Call` and runs through the steps its code calls: most with the
expiry (`Survey`, `Seize`, then for each auditor `List`, `Grab`, `Activate`, `Ask` and perhaps going
offline, `LockUser`, `SetStatus`, `List`, `Grab`, `Quit`), then its own (`LockDesk`, `Count`, `Pick`;
`Invite`, `Seat`, `Load`, `Deal`; `Aim`), `Assign`, `AssignSeed`, `Mark` and `Commit`. `List` finds rows,
`Grab` locks them one at a time and looks again whether they are still the auditor's, as PostgreSQL does.
`Rank` is the order of `_group_protocolo_slots`, with ties open.

### Wrong on purpose

Operators that begin with a comment "Wrong on purpose" are not used by the
specifications. Each is a plausible bug of the definition that follows it, and
`PROJECT.json` (`mutants`) says which property finds that bug when the wrong one takes
the right one's place.

### Disturbances

What the environment may do besides deploying is a constant, so that each run asks
one question at a size TLC can finish:

`crash` kills a process; `reboot` the host; `cancel` allows the console's cancel, and
`killfail` a `taskkill` that fails; `recover` the recovery script by hand; `rollback`
the manual rollback; `boot` the logon bootstrap; `rebuild` a release whose dependency
fingerprint no longer matches; `linkfail` a `mklink` that fails; `statusfail` a status
script of the deployed repository that throws. Failures of build, validation,
migration, start, health and publication are always possible.

Of the job queue: `crash` kills a drain, `restart` the web process, `nospawn` makes a spawn fail,
`lowMemory` a drain stop early, `slow` lets a job outlast the stale limit under a live worker.
Jobs may always end done, skipped or failed, for lack of memory too.

Of the supervisors: `crash` kills one, `nokill` is a `taskkill` that fails, `setup` a robot that cannot be
prepared, `nospawn` a launch that fails, `portal` a robot started by the portal; `haste` is an
operator who presses start while a supervisor of the last run is still leaving. Robots may end
at any time.

Of the support and audit queues nothing is bounded: any transaction may crash or be rolled
back at any point, any number of times.

## 3. Properties

| Property | Says | Why it is not obvious |
|---|---|---|
| `OneAtATime` | at most one deploy or bootstrap is past the lock | resets by zombie test, stale test, watcher, recovery and cancel hit deploys that are alive |
| `PromotesValidated` | from validation on, a deploy's artefact stays built and validated | prune and rollback run from states others reset |
| `KeepsPromise` | the system implements `ReleasePromise` | relates junction, releases, validation and mutex over whole behaviours |
| `StateAgrees` | when all is quiet the state's `activeSha` is the junction's target | junction and state are written minutes apart, by six scripts |
| `ServesCurrent` | when all is quiet the services run what the junction says | each failing step of promote needs its own way back |
| `ProductionKept` | nothing a deploy does before promote touches production | build removes and recreates release directories |
| `CancelFrees` | a cancel leads to a free environment even if the kill fails | the survivor keeps writing the state |
| `DeploysEnd` | every deploy ends | retry and rollback paths |
| `Converges` | if pushes stop, the head becomes active or blocked | a crash leaves a busy state that only age frees |
| `CancelledStays` | a cancelled deploy does not publish | refuted, see section 6 |
| `OneWorkerPerJob` | a job has one worker | drains die, are spawned twice, and recoveries requeue what runs |
| `OneJobPerKey` | a key has one active job | looking and creating are two statements; retries and recoveries reactivate |
| `RecoversPhantoms` | the holder of the lane recovers only jobs nobody works on | it holds the lock while it reads, not while it writes |
| `KeepsSyncPromise` | the lane implements `SyncPromise` for every job that is not `blind` | relates attempts, status and workers over whole behaviours |
| `AllSettle` | every job ends and stays ended | skipped spawns, cooldowns, probes of the lock, retries |
| `OneRobot` | an environment never has two robots of the mode | survivors of crashes and failed kills, cleared pid files, robots of the portal |
| `StopReaches` | the console can stop what its supervisor watches | state files are written back from old copies |
| `StopIsServed` | a stop file the supervisor meets after its first line ends its robot | the stop may come before the launch |
| `PanelRecovers` | no state file claims for ever that a dead supervisor works | only the panel looks |
| `AcceptedStays` | an accepted request leaves its agent by his answer or his leaving only | sweeps, claims and directions that chose it before |
| `FinalStays` | a closed request is not reopened | a handler that picked the row before it was closed |
| `OverdueServed` | an offer that ran out is taken back | rows are skipped, sweeps deadlock with agents who leave and are rolled back |
| `OnlineOnce` | no auditor is online in both queues | the presences are in two tables and their check is a read; two requests of his meet, and an expiry sends him away in between |
| `AutoWhileOnline` | what the general queue gave is with somebody who is online | he leaves, or is sent away, while a claim or distribution that found him online is assigning |
| `ConcludedStays` | a concluded or deleted row is not brought back | rows are chosen, then locked; a fallback waits for a row that may be gone |
| `OverdueReleased` | a protocol that is out of time goes back | rows are skipped, the expiry itself deadlocks with who it sends away |

`Quiet` is: no process runs, no cancel is under way, the state is not busy. `TypeOK` of the
support queue also says which forms a row may have.

## 4. Runs

`S` is the number of commits, `R` of concurrent deploys. `KeepCount` is 0 in every
run, so that prune removes everything unprotected: the hardest case for it.
"Faults" bounds crashes, reboots and manual rollbacks together; cancels, recoveries and
bootstraps are unbounded.

| Run | S | R | Disturbances | Faults | Checks | Distinct states |
|---|---|---|---|---|---|---|
| `console` | 2 | 2 | none; console redeploys any commit | 0 | `OneAtATime`, `StateAgrees`, `ServesCurrent`, `ProductionKept` | 589 k |
| `faults` | 3 | 2 | crash, reboot, linkfail, statusfail | 2 | `PromotesValidated`, `StateAgrees`, `KeepsPromise` | 472 k |
| `recovery` | 2 | 2 | crash, recover, boot, statusfail | 1 | `TypeOK`, `OneAtATime` | 883 k |
| `cancel` | 2 | 1 | crash, boot, cancel | 1 | `OneAtATime`, `PromotesValidated` | 331 k |
| `rollback` | 2 | 1 | rollback (named or not), statusfail | 2 | `PromotesValidated` | 2.08 M |
| `liveness` | 2 | 2 | crash, reboot | 1 | `DeploysEnd`, `Converges` | 30 k |
| `cancelFrees` | 2 | 1 | cancel, killfail | 0 | `StateAgrees`, `CancelFrees` | 138 k |
| `liveCancel` | 2 | 1 | cancel, and ages | | `CancelledStays`, refuted, section 6 | |

| Run | Instance | Checks | Distinct states |
|---|---|---|---|
| `syncQueue` | 2 jobs, 2 keys (one of a projection), a hook, a poll, a drain of 2 workers, 1 fault of any kind | `TypeOK`, `OneWorkerPerJob`, `OneJobPerKey`, `RecoversPhantoms`, `KeepsSyncPromise`, `AllSettle` | 1.01 M |
| `supervisor` | 1 environment, 2 supervisors, an operator, the panel, the portal, 1 fault of any kind | `TypeOK`, `OneRobot`, `StopReaches`, `StopIsServed`, `PanelRecovers` | 627 k |
| `supportQueue` | 2 requests, 1 agent, 2 threads, directions that name their request | `TypeOK`, `AcceptedStays`, `FinalStays`, `OverdueServed` | 192 k |
| `auditQueue` | 1 row, 2 queues, 1 auditor, 2 threads | `TypeOK`, `OnlineOnce`, `AutoWhileOnline`, `ConcludedStays`, `OverdueReleased` | 260 k |

**Why these bounds are enough.** *Deploy.* Two deploys are what it takes for one to act on what
another left or is doing; the mutex and the status are the only things a third would
meet, and it would meet them as the second does (`MutualExclusion` is proved for any
number). Two commits give a live release and a target that swap roles; the third in
`faults` is needed for prune to have something to remove while `current` and
`previous` differ. Commits may be pushed back and forth without end. Each run lets its
hard case happen: the mutants, which are caught under the same configurations, need
failed promotions after resets, releases pruned under a reset state, and deploys that
live through a recovery. `StateAgrees`, `ServesCurrent` and `KeepsPromise` are checked only where section 5 also
proves them or, for `StateAgrees` with cancels, where two deploys of three commits beside the cancels were checked by hand
as well (1.58 M states, no error): with bootstraps or a console deploy that is killed they hold on instances of this size
and fail on larger ones (section 6).

*Queue.* A drain that dies is replaced by the same process slot started again, so one slot
already gives a job several lives; its two workers and the poll are the writers of a row that
can meet. One fault is enough for every kind of loss: faults are not needed for
retries, which a failure of a projection gives, nor for stale verdicts. Two drains at once
were checked by hand, with the safety properties and symmetry (3.62 M states, no
error), and the theorems hold for any number.

*Supervisors.* One supervisor leaves something behind and the second meets it. Three in a row
(3.2 M states) and two environments of one folder without the panel (0.66 M) were checked by hand.

*Support.* Two threads give every pair of handlers, and what a third does to a row is
what the second does. Two requests are needed for both places, for a claim that finds its row
gone, and for the deadlock of a sweep with an agent who leaves. Two agents (2.58 M states) were
checked by hand, for the invariant of the proofs.

*Audits.* Two threads give every pair of handlers. One row already meets every lock, wait and
rollback and every mutant; what it cannot show, a protocol of two rows of which one is locked
elsewhere and a second auditor, was checked by hand with the invariant of the proofs: one row and two
auditors (0.95 M states), and two rows of one protocol in one queue (3.42 M). Next places of an
auditor, which need two protocols, are covered by the theorems only.

**Time.** An age is on one side of its threshold or the other. It may cross it only
while every process is in a step that can really last (build, validate, migrate, start,
health, publish, prune) and no cancel, which the console kills after two minutes, is under way:
otherwise a millisecond between two lines could last an hour.

**Fairness.** *Deploy.* Weak fairness of each process's next step (the operating
system runs it), of the watcher's two actions (the scheduled task starts it every few
minutes), of a cancel that has begun, and of the ageing of a start time (a clock). Never of
pushes, console commands, disturbances or of success: a build may fail every time.

*Queue.* Weak fairness of the cooldown (a clock), of the poll's steps (the panel is
open: the code has no other driver, and without a poll a job whose spawn was refused
waits), of each drain's steps and of the end of a running sync. Strong fairness of
one thing: a drain that is started again and again takes the lock once. It is needed
because a probe of the lock, an open and close of microseconds, makes a drain that starts
just then give up.

*Supervisors.* Weak fairness of console threads that have begun a request and of
supervisors; strong fairness of the panel's look at a file, which polls while other
requests come and go. Nobody has to press a button, no robot has to end.

*Support.* Strong fairness of each thread's steps: PostgreSQL queues those who wait for a
row, so that nobody waits for ever while others get it; weak fairness of the end of a
deadlock and of the minute; strong fairness of the beginning of a sweep, since
panels poll. A sweep that is rolled back or skips a row is not repeated by
the code: the next poll is what `OverdueServed` rests on. The property leaves out behaviours in which
agents leave, or servers die, without end.

*Audits.* As for the support queue: strong fairness of each thread's steps and of the beginning of a
sweep of each queue, weak fairness of the end of a deadlock and of the five minutes. `OverdueReleased`
is about the time when only polls, claims and distributions go on, no analysis restarts the clock and
servers have stopped dying; each of the others may put the release off once more.

Symmetry is used in the deploy runs without liveness; every set of commits in those
configurations is all of `Sha` or empty, so commits are interchangeable, and so are
the slots.

## 5. Theorems

| Module | Theorem | Statement |
|---|---|---|
| `DeployProofs` | `Invariance` | `Spec => []IInv` |
| | `TypeCorrect` | `Spec => []TypeOK` |
| | `MutualExclusion` | `Spec => []OneAtATime` |
| | `ValidatedStays` | `Spec => []PromotesValidated` |
| | `ProductionSafe` | `"rebuild" \notin Disturbances => (Spec => ProductionKept)` |
| `DeployLiveProofs` | `LiveInvariance`, `NamedStaysApproved` | `Spec` implies `[]LiveInv`, `[]StoredApproved` if there are no manual rollbacks, bootstraps, cancels and rebuilds (`Unattended`) |
| | `SystemKeepsPromise` | `Spec => KeepsPromise`, the refinement, if `Unattended` |
| | `AgreesWithoutKills` | `[]StateAgrees` if `Unattended` and nothing is killed (`NoKills`) |
| | `AgreesThroughKills` | `[]StateAgrees` if `Unattended` and only the watcher deploys and recovers (`WatcherOnly`) |
| | `ServesWhatIsCurrent` | `[]ServesCurrent` if nothing is killed or started by hand and junctions can be made (`OnlyStatusFails`) |
| `ReleasePromiseProofs` | `PromiseMeansApproved` | in `ReleasePromise`: what is live is approved |
| `SyncProofs` | `SyncInvariant`, `SyncTypeOK`, `SyncOneWorker` | `Spec` implies `[]SyncInv`, `[]TypeOK`, `[]OneWorkerPerJob` |
| | `SyncKeepsPromise` | `Spec => KeepsSyncPromise`, the refinement |
| | `SyncRecoversPhantoms` | `[]RecoversPhantoms` if there is one poll at a time (`OnePoll`) |
| | `SyncOneJobPerKey` | `[]OneJobPerKey` if no two hooks share a key (`OwnKeys`) |
| `SupervisorProofs` | `SupTypeOK` | `Spec => []TypeOK` |
| | `SupInvariant`, `SupOneRobot`, `SupStopReaches` | `[]SupInv`, `[]OneRobot`, `[]StopReaches` with one operator who waits (`OneCalmOperator`) |
| `SupportProofs` | `SupportTypeOK` | `Spec => []TypeOK` |
| | `SupportInvariant`, `SupportFinalStays`, `SupportAcceptedStays` | `[]SupportInv`, `FinalStays`, `AcceptedStays` if directions name their request (`FALSE \notin Named`) |
| `AuditProofs` | `AuditInvariant`, `AuditTypeOK`, `AuditOnlineOnce`, `AuditAutoWhileOnline` | `Spec` implies `[]AuditInv`, `[]TypeOK`, `[]OnlineOnce`, `[]AutoWhileOnline` |
| | `AuditConcludedStays` | `Spec => ConcludedStays` |

All hold for every value of the constants that satisfies the named assumptions of the
model's first module: actors are distinct, `None` is not among them, sets of keys, folders and
commits are what their names say, bounds are naturals. No theorem assumes fairness or a
bound on faults. Where a theorem has a condition, TLC finds the property violated without
it. A rebuild breaks `KeepsPromise`, as does a bootstrap that was overtaken by two deploys and a kill; a rollback breaks
`StateAgrees`, as does a kill of a console deploy of more than 45 minutes; a `mklink` that fails breaks
`ServesCurrent` (section 6 tells how). Among the rest, two polls break `RecoversPhantoms` (13 states), a key two hooks share breaks
`OneJobPerKey` (5), haste (32) or a second operator (15) breaks `OneRobot`, and a direction without a
name breaks `FinalStays` (8).

**Deploy.** The inductive invariant is `IInv == TypeOK /\ TargetOK /\ OperatorOK /\ LockOK`.
`TypeOK` alone is not inductive: a validated release is `loc[r].target`, which is `None` in
an idle slot, so `TargetOK` says that a running deploy has a commit. `OneAtATime` is not
inductive either: nothing in it says that the second process cannot acquire. `LockOK` says
that whoever is past the lock *owns the mutex*; acquiring needs a free mutex, so the
others are not past the lock. `OperatorOK` says that the manual rollback is at its own
points only; without it, it could be at `exit` and release a mutex it does not own.

Steps of an actor change no other actor's program counter or
locals; a step that moves into the owning region acquires the mutex; resets, recoveries
and cancels never write the mutex of a live process; a kill frees the mutex of the one
process it ends. The lemmas named `...Move` say this once per group of actions, and
`ActorStepInv`, `AroundInv` use them for all of `LockOK`, `TargetOK` and `OperatorOK`.
`ValidatedStays` needs `LockOK`: only a process past the lock builds or prunes
(`OthersKeepArtefacts`), so a validated release cannot lose its files to another
deploy. Of its own steps, those that keep it past validation change neither set
(`OwnStepValidated`); the one that removes releases ends the range the property is about.

What is live needs more: what the junctions and the state file say at every point, after every
reset. `LiveInv` adds to `IInv`, each part for a reason the next one gives. `StoredApproved`: every release the two
junctions and the three fields of the state file name is validated and built. It is not inductive alone, since
a deploy writes what it read long before: `ReadApproved` says the same of `$oldActive`, of the state read
at the start, and of the junction target a promote would put back. And prune removes what it chose before:
`DoomedUnused` says that nothing it chose is named since; only the owner of the mutex prunes or names new
releases (`LockOK`), and a reset under it names only what was named already (`PreservedNames`, `PreservedStored`). A step is
one beside the scripts (`AsideLive`) or one of the owner (`OwnerLive`); `StepKinds` divides them.

`StateAgrees` is about quiet moments, so its invariants say what holds until then. While a deploy switches,
`InPlace` says where the junction is at each of its points. Without kills, `SettledAgrees`: outside those points the state
names the junction, always. With kills that is false: a deploy killed after the link leaves the junction ahead. Then
the status must still be busy, and `WatchInv` shows it: `Sole` (one deploy runs, and the watcher waits for it) and
`MidBusy` (from the promotion on its status is busy) give `BusyOrAgrees`: a state that does not name the junction is busy, and whatever
frees it goes by the junction (`PreservedCurrent`). For the owner's steps `OwnerKinds` has
three cases: it settles the state, works in the middle of a switch, or moves into one.
`ServesCurrent` follows in the same way: `ServedBy` says what the services run at each point of a
switch, `Contained` where a rollback may be, `Steady` that outside a switch they run the junction's release.

**Queue.** `SyncInv == TypeOK /\ LaneInv /\ WorkInv /\ BoundInv`. Neither `OneWorkerPerJob` nor the
promise is inductive: a drain that starts to work while another works would double a job.
`LaneInv` says that a drain past its lock *holds the lane*, so there is one; `WorkInv` that a
row with a worker is running with that worker's attempts, unless `blind`; `BoundInv` that
a pending row that is not `blind` has an attempt left. The refinement needs all three: a claim of the lane is a `Start` of the job,
a kill is one `Lose` for all the workers of the drain, a late verdict is a `Forfeit`.
`SyncRecoversPhantoms` adds `PollInv`: while a poll writes verdicts the lane is the web process's;
with one poll no other thread can close its handle.

**Supervisors.** `SupInv == Typed /\ Exclusive /\ Named`. `OneRobot` is not inductive, since a
start decides long before the robot is launched. `Exclusive` says that an environment has one
supervisor that is at work or has left a robot behind, that a start which is still looking has no
supervisor beside it, and that one which is launching has none in the environments it has
still to do. `Named` says that the state file of an environment holds the pids of the
supervisor that watches its robot, unless it is `torn`.

**Support.** `SupportInv == Typed /\ Exclusive /\ Drafted /\ Looking`: a row is locked by one transaction
(`Exclusive`); what a transaction has written is a legal successor of what is
committed, and stays one because others cannot write it (`Drafted`); every transaction
looks again at the request it has locked (`Looking`, which is where the condition on names comes in). Then
a commit changes each row legally at once, which is what the two action properties say. Without
`Drafted` a commit could write anything.

**Audits.** `AuditInv` is `Typed`, `Exclusive` (a row is locked by one transaction), `OnlineOnce`,
`AutoWhileOnline`, and for each thread `Own`: what its transaction may rely on at the point it is at.
`OnlineOnce` is not inductive, since the check of the other queue is a read: `Entering` says that
whoever is about to put an auditor online holds the lock of his user row, and, once he is past the
check, that the auditor is online in no other queue. `AutoWhileOnline` needs five parts. `Serving`: a claim or
distribution past its look at a presence holds that presence's lock, the auditor is online, and the
same transaction does not send him away. `Leaving`: whoever sends an auditor away holds the same lock, so that the two exclude each
other. `Releasing`: of the rows the queue gave him, as that transaction sees them, each is still to be found (`list`), on the list
of rows to lock, or locked and about to be released; none is left when it commits. `Drafted`: a
row that a transaction will commit as given by the queue is so already, with the same auditor, or goes to somebody it
serves. `NotGone`: a row that is locked is not concluded or deleted; a patch is the one operation that
writes without having looked, and its row becomes `stale`. `AuditConcludedStays` rests on the last. The
proof has a lemma for each kind of step: those that change no row, those that only lock, those that release, those
that assign, and the ends of a transaction.

**Only model-checked.** Every safety property of a passing run has a theorem; one of them, `StateAgrees`, is
checked in `cancelFrees` beside cancels, which its theorems exclude, because a cancel resets the state with what it
read before. All liveness (`CancelFrees`, `DeploysEnd`, `Converges`, `AllSettle`,
`StopIsServed`, `PanelRecovers`, `OverdueServed`, `OverdueReleased`) is out of the prover's reach, as is what a
recursive definition computes for every input (this project has no recursion).

## 6. Findings

| Run | What the run shows |
|---|---|
| `liveCancel` | a deploy of over 45 minutes loses its run id when the watcher resets its state; a cancel then kills nothing, deletes its own flag, answers "cancelled", and the deploy publishes |

Seen while reading or with TLC, and not kept as a run:

* **Deploy.** A manual rollback takes no lock (`rollback_release.ps1:85`): beside a deploy it
  leaves in the state a release the junction does not point to; with `rollback` among the
  disturbances TLC finds `StateAgrees` violated. In a new environment the rollback of a failed first deploy finds only that
  deploy, records it as last good, and the next deploy makes it `previous`. A redeploy of the live commit
  with a changed dependency fingerprint removes the live release before anything is
  validated (`build_staging.ps1:267`; `rebuild` in `Disturbances`). `deploy/README.md:36`
  says that a backend change forces a rebuild, but `build_staging.ps1:244-260` reuses the
  release when its fingerprint matches. `deploy_lock.ps1:76` logs a reset to failed where
  the code sets idle when a release is preserved; `deploy_lock.ps1:51` logs that there is no
  lock when it has only seen that `lockHolder` is empty. With a status script that throws
  at each failure, `recover_stuck_deploy.ps1:71` clears the block on the failing commit every 45
  minutes and the watcher deploys it again. Three more came from looking for the conditions of the theorems. A console
deploy of more than 45 minutes has its state reset to idle by the watcher while it runs; it moves the junction, and if
it is killed in its migrations the idle state names the old release for good (`StateAgrees`; two commits, one deploy,
`crash`). `bootstrap_env.ps1` reads the state at line 39, before it has the lock: if two deploys pass in between, the
release it read was pruned; if a third checks that commit out again and fails to compile it, and a fourth is killed between
removing and making the junction, line 68 links a release that was not built (`KeepsPromise`; three commits, two deploys,
`crash`, `boot`): improbable, but nothing in the code excludes it. And a rollback
whose `mklink` fails leaves no junction and the services on the release that was to go; the next deploy, if it fails
before it stops the services, puts the junction back on the older release and restarts nothing
(`ServesCurrent`; `linkfail`).
* **Queue.** The lane's lock is re-entrant for the web process and closed by whichever thread ends
  first (`bot_db_sync_queue.py:267`): two polls at once let a drain start while the other poll
  still writes verdicts over running jobs. Two processes that enqueue one key create two jobs.
* **Supervisors.** A stop written before the supervisor's first line
  (`automation_supervisor.py:52`) is removed by it and lost. Two operators, or one who
  starts while the last run is leaving, can get two robots in one environment. A state file
  written back from an old copy loses the robot's pid until the supervisor's next mark.
* **Support.** A direction that names no request locks the row it picked and does not look at
  it again (`fila_online.py:639`): it reopens a request that was answered or cancelled
  in between. `_timeout_excluded_ids` (`fila_online.py:157`) looks for rows whose agent is the
  one who missed an offer, but taking the offer back clears the agent, so nothing is
  ever excluded. Two claims at once put two requests on an agent's place 1.
* **Audit queues.** `_assign_protocolo_group` (`reinspecao_fila.py:455`) locks the rows of a
  protocol and excludes the concluded ones only, so a claim takes a protocol that another
  auditor has just been given. `expire_stale_fila_assignments` (:659) decides on unlocked reads and
  checks again only that the row is active: it can take a protocol from an auditor who has just
  got it, or has just restarted its clock. `iniciar_analise` (:1022) restarts the clock of one row,
  while the expiry takes the earliest of the protocol: a protocol of two rows can run out under an auditor
  who restarts it. `falha.save()` in a patch (`reinspecao_atividade_import.py:378`) inserts a row again that was concluded
  after the view read it, although the view refuses what is already answered
  (`views_reinspecao_fila.py:192`). `redistribuir_fila_auditor` (:2388) locks rows outside a
  transaction, which Django refuses.

## 7. Abstractions

**Deploy**

* `Set-DeployState` (read, change, replace) is one step. Resets, each several writes
  within milliseconds, are one step, and so is the catch block. Clearing a block is one.
* `current` is replaced in its two steps, remove and make; `previous` in one.
* A mutex abandoned by a killed process counts as free: `WaitOne` gets it with an
  exception the code treats as acquired.
* Writes to local files do not fail; scripts of the deployed repository may
  (`statusfail`), and so may the junction (`linkfail`).
* `Get-PplidCurrentReleaseSha` is `current` if it is built: `meta.json` is written last.
  The fallback to the deployed sha in `deploy-status.json` is left out.
* The order in which prune sorts releases is any order; any of its removals may fail.
* `rolled_back` and the `idle` that may follow are one update, which may end at either.
  `Join-Path` with three positional paths (`sync_workspace_repo.ps1:28`) is an error in PowerShell
  5.1, so the second does not always come.
* The branch of recovery that treats `promoting` specially is covered: a busy
  state is reset in either case. Its lines 99-108 are never reached, since
  `Set-DeployState` has made up the missing sha.
* The status `watching`, which no script sets, and environments switched off
  in the configuration are left out.
* One environment is modelled. The three share the sync mutex only, and the
  model lets the watcher start at any time that its own deploy does not run.
* In the `liveness` run status scripts do not throw; with them `Converges`
  fails, as told in section 6.

**Queue**

* One lane: lanes differ in their settings and share nothing but code. What a job does is
  an outcome; the ten domain syncs and the gate for heavy ones are left out.
* A key is (domain, report type, source path). Who asks whether the lane is held opens
  and closes its file: `Probed` stands for that instant.
* A web restart ends all hooks and polls of the process. A file that changes under a running
  job is not seen, since files have no contents here.

**Supervisors**

* One mode. Settings and bundles, which refuse to change while a robot runs, schedules, logs
  and credentials are left out. Files are replaced whole, so a read is never partial.
* The panel's look at one file is one request: what it found is used for its answer only.
* `SupStop` needs a robot to watch; without one the loop ends in the same pass.
* Process ids are never reused, and every robot of the mode that runs on the host is found by
  `_find_global_runner`.

**Support**

* Ranking is "a prioritised request first", any order among equals: priorities age with
  time, and no property depends on the rest. Events, notifications and texts are left out.
* Offline and presencial are both `away`: neither is given requests. Presence rows
  exist. Requests of the offline and presencial types never enter the queue.
* Closed requests drop who answered them. `_activate_slot_two` picks any waiting row.
* A handler of several transactions is several operations. A transaction on one row
  that nobody has locked is one step; a crash that loses nothing is no step.
* A wait for a row that, committed, is no longer to be had is skipped: it would end by
  finding that out.

**Audits**

* Both queues run one code; `auditoria_compliance_fila.py` is its twin. A row's queue is that of its protocol.
* A statement over several rows locks them one by one in any order (the code orders them by id, the
  plan of the database may not). A presence row exists. The user's row is locked by name.
* Who is kept from a protocol because he let it run out lately (`_timeout_excluded_protocolos_for_auditor`),
  which protocol is the oldest, and the limit of a distribution are free choices.
* Ranks are those of what is first, with the clock in three values; equal ranks may be in either order.
* An operation on a queue without protocols finds nothing to do and is left out (`Stocked`).
  Rows an analysis adds and promotes in the same transaction are never seen.
* A crash that loses nothing is no step, and a crash between writing and the end of a commit is one or the other.

## 8. Not modelled, and the plan

Not modelled: the read-modify-write of the deploy state file, the sync and orchestrator
mutexes across environments, fingerprints and `backendChanged`, clean-up and first release
by hand (tools for one migration), a `deploy_pipeline.ps1` started without its lock, run logs,
backups and their retention, monitoring, the console's HTTP server, the domain syncs behind the job queue,
and the settings and schedules of robots. The robots themselves, their
reports and the analytics over them, most of the repository's lines, drive browsers, read
spreadsheets and compute tables: they have no shared state but the queues above, and
their results are a matter of data, not of order.

What comes next, in this order:

1. `DeployStateFile`: the file as reads and replaces of several writers, with the
   Python writer that rewrites it in place; which fields a lost update may cost; whether
   `OneAtATime`, which rests on the mutex alone, is all that survives.
2. `StateAgrees` beside cancels as a theorem: what a cancel that read the state long ago may still write.
3. `BuildPlan`: fingerprint, `backendChanged`, skip or rebuild and what validate
   then demands, as operators checked against a definition of when reuse is safe.
4. `DeployLocks`: sync, orchestrator and deploy mutexes of three environments,
   with `update_all` and `watch_all`: no deadlock, no environment starved.

The refuted property stays as a run: it should become a passing one when the code
changes.
