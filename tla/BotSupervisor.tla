----------------------------- MODULE BotSupervisor -----------------------------
(***************************************************************************)
(* The robots of one mode that the operations console runs: the handlers   *)
(* of server_automations.py, the supervisor process of every target        *)
(* environment (automation_supervisor.py) and the robot it starts through  *)
(* robot_manager.py.  They share files only: the state and the stop file   *)
(* of an environment and the pid file of the robots' folder.               *)
(***************************************************************************)
EXTENDS Naturals, FiniteSets

CONSTANTS
    Env,            \* target environments
    Folder,         \* folders of the robots' configuration
    FolderOf,       \* the folder (ROBOT_CONFIG_DIR) of each environment
    Targets,        \* the sets of environments a start may be for
    Sup,            \* supervisor processes, as they are started; the robot of s is called s
    Portal,         \* the portal's web process and the robot it starts
    PortalFolder,   \* the folder it uses
    Operator,       \* console threads that serve a start or a stop
    Viewer,         \* console threads that serve the panel
    None,
    Disturbances,   \* which faults and which haste may happen
    MaxFaults       \* how many of the faults: a bound of the model

ASSUME Folders == FolderOf \in [Env -> Folder] /\ PortalFolder \in Folder
ASSUME TargetsAreEnvs == Targets \subseteq (SUBSET Env) \ {{}}
ASSUME NoneIsNobody == None \notin Sup \cup Env \cup {Portal} /\ Portal \notin Sup
ASSUME SupOrder == Sup \subseteq Nat
ASSUME ThreadsApart == Operator \cap Viewer = {}
ASSUME FaultBound == MaxFaults \in Nat

VARIABLES
    state,     \* the state file of each environment
    stop,      \* environments with a stop file
    pidfile,   \* the robot named in each folder's pid file
    sup,       \* each supervisor: where it is, its environment, its runnerPid
    robot,     \* each robot; "loose" is alive with nobody holding its handle
    con,       \* each console thread: its request and the file it has read
    torn,      \* history: state files written from a copy that was out of date
    faults

vars == <<state, stop, pidfile, sup, robot, con, torn, faults>>

Console == Operator \cup Viewer
Robot == Sup \cup {Portal}

InUse == {"starting", "running", "stopping"}
Missing == [status |-> "none", sup |-> None, run |-> None]

Idle == [pc |-> "idle", op |-> "status", todo |-> {}, env |-> None,
         pid |-> None, seen |-> Missing, up |-> {}]

Init ==
    /\ state = [e \in Env |-> Missing]
    /\ stop = {}
    /\ pidfile = [f \in Folder |-> None]
    /\ sup = [s \in Sup |-> [pc |-> "free", env |-> None, run |-> None]]
    /\ robot = [r \in Robot |-> IF r = Portal THEN "dead" ELSE "none"]
    /\ con = [t \in Console |-> Idle]
    /\ torn = {}
    /\ faults = 0

Fault(kind) ==
    /\ kind \in Disturbances
    /\ faults < MaxFaults
    /\ faults' = faults + 1

SupAlive(s) == s \in Sup /\ sup[s].pc \notin {"free", "off"}
RobotAlive(r) == r \in Robot /\ robot[r] \in {"alive", "loose"}

At(s, where) == sup[s].pc = where
Go(s, where) == sup' = [sup EXCEPT ![s].pc = where]
Leave(s) == sup' = [sup EXCEPT ![s].pc = "off", ![s].run = None]
FolderFor(r) == IF r = Portal THEN PortalFolder ELSE FolderOf[sup[r].env]
PidFile(r) == pidfile[FolderFor(r)]
SetPidFile(r, pid) == pidfile' = [pidfile EXCEPT ![FolderFor(r)] = pid]
SetState(e, r) == state' = [state EXCEPT ![e] = r]

\* e's file is replaced by r, made from the copy a thread read before.
WriteBack(e, copy, r) ==
    /\ SetState(e, r)
    /\ torn' = IF state[e] = copy THEN torn ELSE torn \cup {e}

Files == {e \in Env : state[e] # Missing}

-----------------------------------------------------------------------------
\* The console.  Every request begins with mode_status: each state file is read,
\* its processes are looked for, and a file found interrupted is written back.

\* An operator without haste starts when the processes of the last run are gone.
MayStart == "haste" \in Disturbances \/ \A s \in Sup : ~SupAlive(s)

\* Supervisor ids are left: a bound of the model.
Free == {s \in Sup : At(s, "free")}
Fits(targets) == Cardinality(targets) <= Cardinality(Free)

LookAll(t, op) ==
    con' = [con EXCEPT ![t] = [Idle EXCEPT !.pc = "look", !.op = op, !.todo = Files]]

Press(t) ==
    /\ con[t].pc = "idle"
    /\ \/ MayStart /\ (\E targets \in Targets : Fits(targets)) /\ LookAll(t, "start")
       \/ LookAll(t, "stop")
    /\ UNCHANGED <<state, stop, pidfile, sup, robot, faults, torn>>

Running(r) == SupAlive(r.sup) /\ (r.status = "starting" \/ RobotAlive(r.run))

\* _refresh_instance_state writes such a file back as interrupted.
Interrupted(r) == r.status = "interrupted" \/ (r.status \in InUse /\ ~Running(r))

\* The panel uses what it finds for its answer only: each file it looks at is a
\* request of its own, and no step if there is nothing to write.
View(t, e) ==
    /\ con[t].pc = "idle" /\ Interrupted(state[e])
    /\ con' = [con EXCEPT ![t].pc = "back", ![t].env = e, ![t].seen = state[e]]
    /\ UNCHANGED <<state, stop, pidfile, sup, robot, faults, torn>>

Look(t) ==
    /\ con[t].pc = "look"
    /\ \E e \in con[t].todo :
         LET c == [con[t] EXCEPT !.todo = @ \ {e},
                     !.up = IF con[t].op # "status" /\ Running(state[e])
                            THEN @ \cup {e} ELSE @]
         IN  con' = [con EXCEPT ![t] =
               IF Interrupted(state[e])
               THEN [c EXCEPT !.pc = "back", !.env = e, !.seen = state[e]] ELSE c]
    /\ UNCHANGED <<state, stop, pidfile, sup, robot, faults, torn>>

AfterBack(t) == IF t \in Viewer THEN "idle" ELSE "look"

\* Wrong on purpose: the panel tells, the file stays as it was.
BackTellsOnly(t) ==
    /\ con[t].pc = "back"
    /\ con' = [con EXCEPT ![t].pc = AfterBack(t), ![t].seen = Missing, ![t].env = None]
    /\ UNCHANGED <<state, stop, pidfile, sup, robot, faults, torn>>

Back(t) ==
    /\ con[t].pc = "back"
    /\ WriteBack(con[t].env, con[t].seen,
                 [con[t].seen EXCEPT !.status = "interrupted"])
    /\ con' = [con EXCEPT ![t].pc = AfterBack(t), ![t].seen = Missing, ![t].env = None]
    /\ UNCHANGED <<stop, pidfile, sup, robot, faults>>

\* Wrong on purpose: only the state files are asked.
IsRunningByState(t) == con[t].up # {}

\* With no instance running, _find_global_runner looks for a robot of the mode.
IsRunning(t) == con[t].up # {} \/ \E r \in Robot : RobotAlive(r)

Decide(t) ==
    /\ con[t].pc = "look" /\ con[t].todo = {}
    /\ \/ /\ \/ con[t].op = "status"
             \/ con[t].op = "start" /\ IsRunning(t)
             \/ con[t].op = "stop" /\ con[t].up = {}
          /\ con' = [con EXCEPT ![t] = Idle]
       \/ /\ con[t].op = "start" /\ ~IsRunning(t)
          /\ \E targets \in Targets :
               /\ Fits(targets)
               /\ con' = [con EXCEPT ![t].pc = "spawn", ![t].todo = targets]
       \/ /\ con[t].op = "stop" /\ con[t].up # {}
          /\ con' = [con EXCEPT ![t].pc = "touch", ![t].todo = con[t].up]
    /\ UNCHANGED <<state, stop, pidfile, sup, robot, faults, torn>>

\* _spawn_bot_instance up to Popen
Spawn(t) ==
    /\ con[t].pc = "spawn"
    /\ \E e \in con[t].todo, s \in Free :
         /\ \A u \in Free : s <= u
         /\ stop' = stop \ {e}
         /\ sup' = [sup EXCEPT ![s].pc = "begin", ![s].env = e]
         /\ con' = [con EXCEPT ![t].pc = "read", ![t].todo = @ \ {e}, ![t].env = e,
                               ![t].pid = s, ![t].up = @ \cup {e}]
    /\ UNCHANGED <<state, pidfile, robot, faults, torn>>

\* The target's settings are refused or Popen fails: those already started are
\* asked to stop.
SpawnFails(t) ==
    /\ con[t].pc = "spawn"
    /\ Fault("nospawn")
    /\ \E e \in con[t].todo :
         stop' \in {stop \cup con[t].up, (stop \ {e}) \cup con[t].up}
    /\ con' = [con EXCEPT ![t] = Idle]
    /\ UNCHANGED <<state, pidfile, sup, robot, torn>>

Touch(t) ==
    /\ con[t].pc = "touch"
    /\ \E e \in con[t].todo :
         /\ stop' = stop \cup {e}
         /\ con' = [con EXCEPT ![t].pc = "read", ![t].todo = @ \ {e}, ![t].env = e]
    /\ UNCHANGED <<state, pidfile, sup, robot, faults, torn>>

ReadState(t) ==
    /\ con[t].pc = "read"
    /\ con' = [con EXCEPT ![t].pc = "write", ![t].seen = state[con[t].env]]
    /\ UNCHANGED <<state, stop, pidfile, sup, robot, faults, torn>>

\* A start keeps what the file said, with the pid of the new supervisor.
Adopted(r, s) ==
    IF r = Missing THEN [status |-> "starting", sup |-> s, run |-> None]
    ELSE [r EXCEPT !.sup = s]

WriteState(t) ==
    /\ con[t].pc = "write"
    /\ LET r == con[t].seen
       IN  \/ /\ con[t].op = "start"
              /\ WriteBack(con[t].env, r, Adopted(r, con[t].pid))
              /\ con' = [con EXCEPT ![t].pc = "spawn", ![t].seen = Missing,
                                    ![t].env = None, ![t].pid = None]
           \/ /\ con[t].op = "stop"
              /\ WriteBack(con[t].env, r, [r EXCEPT !.status = "stopping"])
              /\ con' = [con EXCEPT ![t].pc = "touch", ![t].seen = Missing,
                                    ![t].env = None]
    /\ UNCHANGED <<stop, pidfile, sup, robot, faults>>

\* The answer holds the status: mode_status once more.
Answer(t) ==
    /\ con[t].pc \in {"spawn", "touch"} /\ con[t].todo = {}
    /\ LookAll(t, "status")
    /\ UNCHANGED <<state, stop, pidfile, sup, robot, faults, torn>>

ConsoleStep(t) ==
    \/ Look(t) \/ Back(t) \/ Decide(t) \/ Spawn(t) \/ Touch(t) \/ ReadState(t)
    \/ WriteState(t) \/ Answer(t)

-----------------------------------------------------------------------------
\* The supervisor.

SupBegin(s) ==
    /\ At(s, "begin")
    /\ stop' = stop \ {sup[s].env}
    /\ Go(s, "announce")
    /\ UNCHANGED <<state, pidfile, robot, con, faults, torn>>

Record(s, status) == [status |-> status, sup |-> s, run |-> sup[s].run]

Exit(s, status) == SetState(sup[s].env, Record(s, status)) /\ Leave(s)

\* Wrong on purpose: the stop file is removed when the start is announced.
SupAnnounceClean(s) ==
    /\ At(s, "announce")
    /\ SetState(sup[s].env, Record(s, "starting"))
    /\ stop' = stop \ {sup[s].env}
    /\ Go(s, "check")
    /\ UNCHANGED <<pidfile, robot, con, faults, torn>>

SupAnnounce(s) ==
    /\ At(s, "announce")
    /\ SetState(sup[s].env, Record(s, "starting"))
    /\ Go(s, "check")
    /\ UNCHANGED <<stop, pidfile, robot, con, faults, torn>>

\* The environment is set up, then RobotManager.start looks for a robot that runs.
SupCheck(s) ==
    /\ At(s, "check")
    /\ \/ RobotAlive(PidFile(s)) /\ Exit(s, "error") /\ UNCHANGED <<pidfile, faults>>
       \/ /\ ~RobotAlive(PidFile(s))
          /\ Go(s, "launch") /\ SetPidFile(s, None) /\ UNCHANGED <<state, faults>>
       \/ Fault("setup") /\ Exit(s, "error") /\ UNCHANGED pidfile
    /\ UNCHANGED <<stop, robot, con, torn>>

SupLaunch(s) ==
    /\ At(s, "launch")
    /\ robot' = [robot EXCEPT ![s] = "alive"]
    /\ SetPidFile(s, s)
    /\ Go(s, "report")
    /\ UNCHANGED <<state, stop, con, faults, torn>>

\* _mode_runtime: the handle this process holds, or else the pid file's robot.
Watched(r) ==
    IF robot[r] = "alive" THEN r
    ELSE IF RobotAlive(PidFile(r)) THEN PidFile(r)
    ELSE None

Forget(s) == IF Watched(s) = None THEN SetPidFile(s, None) ELSE UNCHANGED pidfile

\* Wrong on purpose: the report is made before the robot is looked for.
SupReportFirst(s) ==
    /\ At(s, "report")
    /\ SetState(sup[s].env, Record(s, "running"))
    /\ torn' = torn \ {sup[s].env}
    /\ sup' = [sup EXCEPT ![s].pc = "loop", ![s].run = Watched(s)]
    /\ Forget(s)
    /\ UNCHANGED <<stop, robot, con, faults>>

SupReport(s) ==
    /\ At(s, "report")
    /\ SetState(sup[s].env, [status |-> "running", sup |-> s, run |-> Watched(s)])
    /\ torn' = torn \ {sup[s].env}
    /\ sup' = [sup EXCEPT ![s].pc = "loop", ![s].run = Watched(s)]
    /\ Forget(s)
    /\ UNCHANGED <<stop, robot, con, faults>>

\* RobotManager.stop: taskkill, whose result nobody reads; the handle and the pid
\* file are dropped.
StopRobot(r) ==
    /\ Watched(r) # None
    /\ \/ robot' = [robot EXCEPT ![Watched(r)] = "ended"] /\ UNCHANGED faults
       \/ /\ Fault("nokill")
          /\ robot' = [robot EXCEPT ![r] = IF @ = "alive" THEN "loose" ELSE @]
    /\ SetPidFile(r, None)

SupStop(s) ==
    /\ At(s, "loop") /\ sup[s].env \in stop
    /\ StopRobot(s)
    /\ stop' = stop \ {sup[s].env}
    /\ Go(s, "mark")
    /\ UNCHANGED <<state, con, torn>>

\* Wrong on purpose: a status that the console does not know.
SupMarkStopped(s) ==
    /\ At(s, "mark")
    /\ SetState(sup[s].env, Record(s, "stopped"))
    /\ Go(s, "loop")
    /\ UNCHANGED <<stop, pidfile, robot, con, faults, torn>>

SupMark(s) ==
    /\ At(s, "mark")
    /\ SetState(sup[s].env, Record(s, "stopping"))
    /\ Go(s, "loop")
    /\ UNCHANGED <<stop, pidfile, robot, con, faults, torn>>

SupEnd(s) ==
    /\ At(s, "loop") /\ Watched(s) = None
    /\ Exit(s, "result")
    /\ SetPidFile(s, None)
    /\ UNCHANGED <<stop, robot, con, faults, torn>>

\* The thread that reads the robot's output: it clears the pid file at its end.
Tidy(r) ==
    /\ robot[r] = "ended"
    /\ robot' = [robot EXCEPT ![r] = "dead"]
    /\ SetPidFile(r, None)
    /\ UNCHANGED <<state, stop, sup, con, faults, torn>>

SupStep(s) ==
    \/ SupBegin(s) \/ SupAnnounce(s) \/ SupCheck(s) \/ SupLaunch(s) \/ SupReport(s)
    \/ SupStop(s) \/ SupMark(s) \/ SupEnd(s)
    \/ SupAlive(s) /\ Tidy(s)

\* The portal of an environment starts robots of the same mode through a
\* RobotManager of its own. Its stop kills the robot of the pid file: to the
\* console this robot has ended.
PortalStart ==
    /\ Watched(Portal) = None
    /\ Fault("portal")
    /\ robot' = [robot EXCEPT ![Portal] = "alive"]
    /\ SetPidFile(Portal, Portal)
    /\ UNCHANGED <<state, stop, sup, con, torn>>

RobotEnds(r) ==
    /\ RobotAlive(r)
    /\ robot' = [robot EXCEPT ![r] = "ended"]
    /\ UNCHANGED <<state, stop, pidfile, sup, con, faults, torn>>

\* The supervisor is killed; its robot is a process of its own and lives on.
SupCrash(s) ==
    /\ SupAlive(s)
    /\ Fault("crash")
    /\ Leave(s)
    /\ robot' = [robot EXCEPT ![s] = IF @ = "alive" THEN "loose" ELSE @]
    /\ UNCHANGED <<state, stop, pidfile, con, torn>>

-----------------------------------------------------------------------------
Next ==
    \/ \E t \in Operator : Press(t) \/ SpawnFails(t)
    \/ \E t \in Viewer, e \in Env : View(t, e)
    \/ \E t \in Console : ConsoleStep(t)
    \/ \E s \in Sup : SupStep(s) \/ SupCrash(s)
    \/ \E r \in Robot : RobotEnds(r)
    \/ PortalStart \/ Tidy(Portal)

Spec == Init /\ [][Next]_vars

\* Processes and threads run and the panel is open; nobody has to press a button
\* and no robot has to end.
FairSpec ==
    /\ Spec
    /\ WF_vars(\E t \in Console : ConsoleStep(t))
    /\ SF_vars(\E t \in Viewer, e \in Env : View(t, e))
    /\ WF_vars(\E s \in Sup : SupStep(s))
=============================================================================
