------------------------- MODULE SupervisorProperties -------------------------
(***************************************************************************)
(* What the runs check of the robots' supervisors.                         *)
(***************************************************************************)
EXTENDS BotSupervisor

SupPoint == {"free", "begin", "announce", "check", "launch", "report", "loop",
             "mark", "off"}
StateFile == [status : InUse \cup {"none", "interrupted", "result", "error"},
              sup : Sup \cup {None}, run : Robot \cup {None}]

Thread ==
    [pc : {"idle", "look", "back", "spawn", "touch", "read", "write"},
     op : {"status", "start", "stop"}, todo : SUBSET Env, env : Env \cup {None},
     pid : Sup \cup {None}, seen : StateFile, up : SUBSET Env]

Process == [pc : SupPoint, env : Env \cup {None}, run : Robot \cup {None}]

\* Types of the variables (automation_supervisor.py, server_automations.py).
TypeOK ==
    /\ state \in [Env -> StateFile]
    /\ stop \subseteq Env
    /\ pidfile \in [Folder -> Robot \cup {None}]
    /\ sup \in [Sup -> Process]
    /\ \A s \in Sup : sup[s].pc # "free" => sup[s].env \in Env
    /\ robot \in [Robot -> {"none", "alive", "loose", "ended", "dead"}]
    /\ con \in [Console -> Thread]
    /\ torn \subseteq Env
    /\ faults \in Nat

\* An environment never has two robots of a mode, although a supervisor may die
\* or fail to kill and leave one behind that no file names any more
\* (server_automations.py:381-383, 556; robot_manager.py:3606).
OneRobot ==
    \A s, u \in Sup :
        RobotAlive(s) /\ RobotAlive(u) /\ sup[s].env = sup[u].env => s = u

\* The console can stop every robot that its supervisor watches: the state file
\* names both, until a thread writes it from an outdated copy
\* (server_automations.py:506-532, 1359-1374, 1433-1435).
StopReaches ==
    \A s \in Sup : At(s, "loop") /\ robot[s] = "alive" =>
        \/ sup[s].env \in torn
        \/ Running(state[sup[s].env]) /\ state[sup[s].env].sup = s

\* A stop file that a supervisor finds after its first line ends its robot, be it
\* written before the robot is launched (automation_supervisor.py:52, 121-127).
StopIsServed ==
    \A e \in Env :
        (\E s \in Sup : SupAlive(s) /\ ~At(s, "begin") /\ sup[s].env = e /\ e \in stop)
            ~> (\A s \in Sup : SupAlive(s) /\ sup[s].env = e
                                    => robot[s] \in {"loose", "ended", "dead"})

\* While the panel is open no state file claims for ever that a dead supervisor
\* is at work (server_automations.py:511-531).
PanelRecovers ==
    \A e \in Env :
        (state[e].status \in InUse)
            ~> (state[e].status \notin InUse
                  \/ \E s \in Sup : SupAlive(s) /\ sup[s].env = e)
=============================================================================
