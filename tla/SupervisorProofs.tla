--------------------------- MODULE SupervisorProofs ---------------------------
(***************************************************************************)
(* Proofs of the robots' supervisors, for any number of environments,      *)
(* folders, supervisors and panels.                                        *)
(***************************************************************************)
EXTENDS SupervisorProperties, TLAPS

\* A thread that wrote or reads a state file has its environment, and a start the
\* supervisor it launched; the panel only looks and writes back.
ThreadsOK ==
    /\ \A t \in Console : con[t].pc \in {"back", "read", "write"} => con[t].env \in Env
    /\ \A t \in Console :
         con[t].pc \in {"read", "write"} /\ con[t].op = "start" => con[t].pid \in Sup
    /\ \A t \in Console :
         /\ con[t].pc = "spawn" => con[t].op = "start"
         /\ con[t].pc = "touch" => con[t].op = "stop"
         /\ con[t].pc \in {"read", "write"} => con[t].op # "status"
    /\ \A t \in Viewer : con[t].pc \in {"idle", "back"}

Typed == TypeOK /\ ThreadsOK

\* What of a record of one of these sets may be replaced.
LEMMA StateFields ==
    ASSUME NEW r \in StateFile
    PROVE  /\ r.status \in InUse \cup {"none", "interrupted", "result", "error"}
           /\ r.sup \in Sup \cup {None} /\ r.run \in Robot \cup {None}
           /\ [r EXCEPT !.status = "interrupted"] \in StateFile
           /\ [r EXCEPT !.status = "stopping"] \in StateFile
           /\ \A s \in Sup : [r EXCEPT !.sup = s] \in StateFile
  BY DEF StateFile, InUse

LEMMA IdleType == Idle \in Thread /\ Missing \in StateFile
  BY DEF Idle, Thread, Missing, StateFile, InUse

LEMMA LookAllType ==
    ASSUME Typed, NEW t \in Console, NEW op \in {"status", "start", "stop"}, LookAll(t, op)
    PROVE  con' = [con EXCEPT ![t] = [Idle EXCEPT !.pc = "look", !.op = op, !.todo = Files]]
           /\ [Idle EXCEPT !.pc = "look", !.op = op, !.todo = Files] \in Thread
  <1>. Files \in SUBSET Env
    BY DEF Files
  <1>. QED  BY IdleType DEF LookAll, Idle, Thread

\* One thread's record is replaced by another of its type.
LEMMA ThreadType ==
    ASSUME Typed, NEW t \in Console, NEW c \in Thread, con' = [con EXCEPT ![t] = c],
           c.pc \in {"back", "read", "write"} => c.env \in Env,
           c.pc \in {"read", "write"} /\ c.op = "start" => c.pid \in Sup,
           c.pc = "spawn" => c.op = "start",
           c.pc = "touch" => c.op = "stop",
           c.pc \in {"read", "write"} => c.op # "status",
           t \in Viewer => c.pc \in {"idle", "back"}
    PROVE  con' \in [Console -> Thread] /\ ThreadsOK'
  <1>1. con' \in [Console -> Thread]
    BY DEF Typed, TypeOK
  <1>2. \A u \in Console : con'[u] = IF u = t THEN c ELSE con[u]
    BY DEF Typed, TypeOK
  <1>. Viewer \subseteq Console
    BY DEF Console
  <1>. QED  BY <1>1, <1>2 DEF Typed, ThreadsOK

LEMMA InitTyped == Init => Typed
  <1>. SUFFICES ASSUME Init PROVE Typed
    OBVIOUS
  <1>1. con \in [Console -> Thread] /\ ThreadsOK
    BY IdleType DEF Init, ThreadsOK, Idle, Console
  <1>2. sup \in [Sup -> Process] /\ \A s \in Sup : sup[s].pc = "free"
    BY DEF Init, Process, SupPoint
  <1>. QED  BY <1>1, <1>2, IdleType DEF Init, Typed, TypeOK, Robot

LEMMA ConsoleTyped ==
    ASSUME Typed, NEW t \in Console, ConsoleStep(t)
    PROVE  Typed'
  <1>. con[t] \in Thread
    BY DEF Typed, TypeOK
  <1>. DEFINE c == con[t]
  <1>a. /\ c.pc \in {"idle", "look", "back", "spawn", "touch", "read", "write"}
        /\ c.op \in {"status", "start", "stop"} /\ c.todo \subseteq Env
        /\ c.env \in Env \cup {None} /\ c.pid \in Sup \cup {None}
        /\ c.seen \in StateFile /\ c.up \subseteq Env
    BY DEF Thread
  <1>v. t \in Viewer => c.pc \in {"idle", "back"}
    BY DEF Typed, ThreadsOK
  <1>o. /\ c.pc = "spawn" => c.op = "start"
        /\ c.pc = "touch" => c.op = "stop"
        /\ c.pc \in {"read", "write"} => c.op # "status"
    BY DEF Typed, ThreadsOK
  <1>1. CASE Look(t)
    <2>1. PICK e \in c.todo :
            LET d == [c EXCEPT !.todo = @ \ {e},
                        !.up = IF c.op # "status" /\ Running(state[e])
                               THEN @ \cup {e} ELSE @]
            IN  con' = [con EXCEPT ![t] =
                  IF Interrupted(state[e])
                  THEN [d EXCEPT !.pc = "back", !.env = e, !.seen = state[e]] ELSE d]
      BY <1>1 DEF Look
    <2>. DEFINE d == [c EXCEPT !.todo = @ \ {e},
                        !.up = IF c.op # "status" /\ Running(state[e])
                               THEN @ \cup {e} ELSE @]
    <2>. DEFINE n == IF Interrupted(state[e])
                     THEN [d EXCEPT !.pc = "back", !.env = e, !.seen = state[e]] ELSE d
    <2>. e \in Env /\ state[e] \in StateFile
      BY <1>a DEF Typed, TypeOK
    <2>2. d \in Thread /\ d.pc = "look"
      BY <1>1, <1>a DEF Look, Thread
    <2>3. n \in Thread /\ n.pc \in {"look", "back"} /\ (n.pc = "back" => n.env = e)
      BY <2>2 DEF Thread
    <2>4. con' = [con EXCEPT ![t] = n]
      BY <2>1
    <2>5. t \notin Viewer
      BY <1>1, <1>v DEF Look
    <2>. HIDE DEF n, d
    <2>6. con' \in [Console -> Thread] /\ ThreadsOK'
      BY <2>3, <2>4, <2>5, ThreadType
    <2>. QED  BY <1>1, <2>6 DEF Look, Typed, TypeOK
  <1>2. CASE Back(t)
    <2>. DEFINE n == [c EXCEPT !.pc = AfterBack(t), !.seen = Missing, !.env = None]
    <2>1. n \in Thread /\ n.pc = AfterBack(t)
      BY <1>a, IdleType DEF Thread, AfterBack
    <2>2. con' = [con EXCEPT ![t] = n]
      BY <1>2 DEF Back
    <2>. HIDE DEF n
    <2>3. con' \in [Console -> Thread] /\ ThreadsOK'
      BY <2>1, <2>2, ThreadType DEF AfterBack
    <2>4. c.env \in Env
      BY <1>2 DEF Back, Typed, ThreadsOK
    <2>5. [c.seen EXCEPT !.status = "interrupted"] \in StateFile
      BY <1>a, StateFields
    <2>6. state' \in [Env -> StateFile] /\ torn' \subseteq Env
      BY <1>2, <2>4, <2>5 DEF Back, WriteBack, SetState, Typed, TypeOK
    <2>. QED  BY <1>2, <2>3, <2>6 DEF Back, Typed, TypeOK
  <1>3. CASE Decide(t)
    <2>1. con' \in [Console -> Thread] /\ ThreadsOK'
      <3>0. t \notin Viewer
        BY <1>3, <1>v DEF Decide
      <3>1. CASE con' = [con EXCEPT ![t] = Idle]
        BY <3>1, IdleType, ThreadType DEF Idle
      <3>2. CASE c.op = "start" /\ \E targets \in Targets :
                   con' = [con EXCEPT ![t].pc = "spawn", ![t].todo = targets]
        <4>. PICK targets \in Targets :
               con' = [con EXCEPT ![t].pc = "spawn", ![t].todo = targets]
          BY <3>2
        <4>. DEFINE n == [c EXCEPT !.pc = "spawn", !.todo = targets]
        <4>1. n \in Thread /\ n.pc = "spawn" /\ n.op = "start"
          BY <1>a, <3>2, TargetsAreEnvs DEF Thread
        <4>2. con' = [con EXCEPT ![t] = n]
          BY DEF Typed, TypeOK
        <4>. HIDE DEF n
        <4>. QED  BY <4>1, <4>2, <3>0, ThreadType
      <3>3. CASE c.op = "stop" /\ con' = [con EXCEPT ![t].pc = "touch", ![t].todo = c.up]
        <4>. DEFINE n == [c EXCEPT !.pc = "touch", !.todo = c.up]
        <4>1. n \in Thread /\ n.pc = "touch" /\ n.op = "stop"
          BY <1>a, <3>3 DEF Thread
        <4>2. con' = [con EXCEPT ![t] = n]
          BY <3>3
        <4>. HIDE DEF n
        <4>. QED  BY <4>1, <4>2, <3>0, ThreadType
      <3>. QED  BY <1>3, <3>1, <3>2, <3>3 DEF Decide
    <2>. QED  BY <1>3, <2>1 DEF Decide, Typed, TypeOK
  <1>4. CASE Spawn(t)
    <2>1. PICK e \in c.todo, s \in Free :
            /\ stop' = stop \ {e}
            /\ sup' = [sup EXCEPT ![s].pc = "begin", ![s].env = e]
            /\ con' = [con EXCEPT ![t].pc = "read", ![t].todo = @ \ {e}, ![t].env = e,
                                  ![t].pid = s, ![t].up = @ \cup {e}]
      BY <1>4 DEF Spawn
    <2>. e \in Env /\ s \in Sup /\ sup[s] \in Process
      BY <1>a DEF Free, Typed, TypeOK
    <2>. DEFINE n == [c EXCEPT !.pc = "read", !.todo = @ \ {e}, !.env = e,
                               !.pid = s, !.up = @ \cup {e}]
    <2>2. n \in Thread /\ n.pc = "read" /\ n.env = e /\ n.pid = s /\ n.op = c.op
      BY <1>a DEF Thread
    <2>3. con' = [con EXCEPT ![t] = n]
      BY <2>1
    <2>4. t \notin Viewer /\ c.op = "start"
      BY <1>4, <1>o, <1>v DEF Spawn
    <2>. HIDE DEF n
    <2>5. con' \in [Console -> Thread] /\ ThreadsOK'
      BY <2>2, <2>3, <2>4, ThreadType
    <2>6. [sup[s] EXCEPT !.pc = "begin", !.env = e] \in Process
      BY DEF Process, SupPoint
    <2>7. sup' \in [Sup -> Process] /\ \A u \in Sup : sup'[u].pc # "free" => sup'[u].env \in Env
      BY <2>1, <2>6 DEF Typed, TypeOK
    <2>. QED  BY <1>4, <2>1, <2>5, <2>7 DEF Spawn, Typed, TypeOK
  <1>5. CASE Touch(t)
    <2>1. PICK e \in c.todo :
            /\ stop' = stop \cup {e}
            /\ con' = [con EXCEPT ![t].pc = "read", ![t].todo = @ \ {e}, ![t].env = e]
      BY <1>5 DEF Touch
    <2>. DEFINE n == [c EXCEPT !.pc = "read", !.todo = @ \ {e}, !.env = e]
    <2>2. n \in Thread /\ n.pc = "read" /\ n.env = e /\ n.op = c.op /\ n.pid = c.pid
      BY <1>a DEF Thread
    <2>3. con' = [con EXCEPT ![t] = n]
      BY <2>1
    <2>4. t \notin Viewer /\ c.op = "stop" /\ e \in Env
      BY <1>5, <1>a, <1>o, <1>v DEF Touch
    <2>. HIDE DEF n
    <2>5. con' \in [Console -> Thread] /\ ThreadsOK'
      BY <2>2, <2>3, <2>4, ThreadType
    <2>. QED  BY <1>5, <2>1, <2>4, <2>5 DEF Touch, Typed, TypeOK
  <1>6. CASE ReadState(t)
    <2>. DEFINE n == [c EXCEPT !.pc = "write", !.seen = state[c.env]]
    <2>1. c.env \in Env /\ t \notin Viewer /\ c.op # "status"
      BY <1>6, <1>o, <1>v DEF ReadState, Typed, ThreadsOK
    <2>2. state[c.env] \in StateFile
      BY <2>1 DEF Typed, TypeOK
    <2>3. /\ n \in Thread /\ n.pc = "write" /\ n.env = c.env /\ n.op = c.op
          /\ n.pid = c.pid
      BY <1>a, <2>2 DEF Thread
    <2>4. con' = [con EXCEPT ![t] = n]
      BY <1>6 DEF ReadState
    <2>5. c.op = "start" => c.pid \in Sup
      BY <1>6 DEF ReadState, Typed, ThreadsOK
    <2>. HIDE DEF n
    <2>6. con' \in [Console -> Thread] /\ ThreadsOK'
      BY <2>1, <2>3, <2>4, <2>5, ThreadType
    <2>. QED  BY <1>6, <2>6 DEF ReadState, Typed, TypeOK
  <1>7. CASE WriteState(t)
    <2>1. c.env \in Env /\ t \notin Viewer
      BY <1>7, <1>v DEF WriteState, Typed, ThreadsOK
    <2>2. CASE /\ c.op = "start"
               /\ WriteBack(c.env, c.seen, Adopted(c.seen, c.pid))
               /\ con' = [con EXCEPT ![t].pc = "spawn", ![t].seen = Missing,
                                     ![t].env = None, ![t].pid = None]
      <3>. DEFINE n == [c EXCEPT !.pc = "spawn", !.seen = Missing,
                                 !.env = None, !.pid = None]
      <3>1. n \in Thread /\ n.pc = "spawn" /\ n.op = "start"
        BY <1>a, <2>2, IdleType DEF Thread
      <3>2. con' = [con EXCEPT ![t] = n]
        BY <2>2
      <3>3. c.pid \in Sup
        BY <1>7, <2>2 DEF WriteState, Typed, ThreadsOK
      <3>4. Adopted(c.seen, c.pid) \in StateFile
        <4>1. [status |-> "starting", sup |-> c.pid, run |-> None] \in StateFile
          BY <3>3 DEF StateFile, InUse
        <4>. QED  BY <1>a, <3>3, <4>1, StateFields DEF Adopted
      <3>5. state' \in [Env -> StateFile] /\ torn' \subseteq Env
        BY <2>1, <2>2, <3>4 DEF WriteBack, SetState, Typed, TypeOK
      <3>. HIDE DEF n
      <3>6. con' \in [Console -> Thread] /\ ThreadsOK'
        BY <2>1, <3>1, <3>2, ThreadType
      <3>. QED  BY <1>7, <3>5, <3>6 DEF WriteState, Typed, TypeOK
    <2>3. CASE /\ c.op = "stop"
               /\ WriteBack(c.env, c.seen, [c.seen EXCEPT !.status = "stopping"])
               /\ con' = [con EXCEPT ![t].pc = "touch", ![t].seen = Missing,
                                     ![t].env = None]
      <3>. DEFINE n == [c EXCEPT !.pc = "touch", !.seen = Missing, !.env = None]
      <3>1. n \in Thread /\ n.pc = "touch" /\ n.op = "stop"
        BY <1>a, <2>3, IdleType DEF Thread
      <3>2. con' = [con EXCEPT ![t] = n]
        BY <2>3
      <3>4. [c.seen EXCEPT !.status = "stopping"] \in StateFile
        BY <1>a, StateFields
      <3>5. state' \in [Env -> StateFile] /\ torn' \subseteq Env
        BY <2>1, <2>3, <3>4 DEF WriteBack, SetState, Typed, TypeOK
      <3>. HIDE DEF n
      <3>6. con' \in [Console -> Thread] /\ ThreadsOK'
        BY <2>1, <3>1, <3>2, ThreadType
      <3>. QED  BY <1>7, <3>5, <3>6 DEF WriteState, Typed, TypeOK
    <2>. QED  BY <1>7, <2>2, <2>3 DEF WriteState
  <1>8. CASE Answer(t)
    <2>. DEFINE n == [Idle EXCEPT !.pc = "look", !.op = "status", !.todo = Files]
    <2>1. con' = [con EXCEPT ![t] = n] /\ n \in Thread
      BY <1>8, LookAllType DEF Answer
    <2>2. t \notin Viewer /\ n.pc = "look"
      BY <1>8, <1>v DEF Answer, Idle
    <2>. HIDE DEF n
    <2>3. con' \in [Console -> Thread] /\ ThreadsOK'
      BY <2>1, <2>2, ThreadType
    <2>. QED  BY <1>8, <2>3 DEF Answer, Typed, TypeOK
  <1>. QED  BY <1>1, <1>2, <1>3, <1>4, <1>5, <1>6, <1>7, <1>8 DEF ConsoleStep

LEMMA WatchedType ==
    ASSUME TypeOK, NEW r \in Robot
    PROVE  Watched(r) \in Robot \cup {None}
  BY DEF Watched, RobotAlive

LEMMA FaultType ==
    ASSUME TypeOK, NEW kind, Fault(kind)
    PROVE  faults' \in Nat
  BY DEF TypeOK, Fault

LEMMA GoType ==
    ASSUME TypeOK, NEW s \in Sup, sup[s].pc # "free", NEW where \in SupPoint,
           Go(s, where)
    PROVE  sup' \in [Sup -> Process] /\ \A u \in Sup : sup'[u].pc # "free" => sup'[u].env \in Env
  <1>1. [sup[s] EXCEPT !.pc = where] \in Process
    BY DEF TypeOK, Process
  <1>. QED  BY <1>1 DEF TypeOK, Go, Process

LEMMA LeaveType ==
    ASSUME TypeOK, NEW s \in Sup, sup[s].pc # "free", Leave(s)
    PROVE  sup' \in [Sup -> Process] /\ \A u \in Sup : sup'[u].pc # "free" => sup'[u].env \in Env
  <1>1. [sup[s] EXCEPT !.pc = "off", !.run = None] \in Process
    BY DEF TypeOK, Process, SupPoint
  <1>2. sup' = [sup EXCEPT ![s] = [sup[s] EXCEPT !.pc = "off", !.run = None]]
    BY DEF Leave, TypeOK, Process
  <1>. QED  BY <1>1, <1>2 DEF TypeOK, Process

LEMMA RecordType ==
    ASSUME TypeOK, NEW s \in Sup, NEW status \in InUse \cup {"result", "error"}
    PROVE  Record(s, status) \in StateFile
  BY DEF TypeOK, Process, Record, StateFile, InUse

LEMMA SupTyped ==
    ASSUME Typed, NEW s \in Sup, SupStep(s) \/ SupCrash(s)
    PROVE  Typed'
  <1>. TypeOK /\ ThreadsOK /\ s \in Robot
    BY DEF Typed, Robot
  <1>. Watched(s) \in Robot \cup {None}
    BY WatchedType
  <1>a. UNCHANGED con => ThreadsOK'
    BY DEF ThreadsOK
  <1>1. CASE SupBegin(s)
    <2>1. sup' \in [Sup -> Process] /\ \A u \in Sup : sup'[u].pc # "free" => sup'[u].env \in Env
      BY <1>1, GoType DEF SupBegin, At, SupPoint
    <2>. QED  BY <1>1, <1>a, <2>1 DEF SupBegin, Typed, TypeOK
  <1>2. CASE SupAnnounce(s)
    <2>1. sup' \in [Sup -> Process] /\ \A u \in Sup : sup'[u].pc # "free" => sup'[u].env \in Env
      BY <1>2, GoType DEF SupAnnounce, At, SupPoint
    <2>2. Record(s, "starting") \in StateFile
      BY RecordType DEF InUse
    <2>. QED  BY <1>2, <1>a, <2>1, <2>2 DEF SupAnnounce, SetState, Typed, TypeOK
  <1>3. CASE SupCheck(s)
    <2>1. CASE Exit(s, "error")
      <3>1. sup' \in [Sup -> Process] /\ \A u \in Sup : sup'[u].pc # "free" => sup'[u].env \in Env
        BY <1>3, <2>1, LeaveType DEF SupCheck, Exit, At
      <3>2. Record(s, "error") \in StateFile
        BY RecordType
      <3>3. state' \in [Env -> StateFile]
        BY <2>1, <3>2 DEF Exit, SetState, TypeOK
      <3>4. pidfile' \in [Folder -> Robot \cup {None}] /\ faults' \in Nat
        BY <1>3 DEF SupCheck, SetPidFile, Fault, TypeOK
      <3>. QED  BY <1>3, <1>a, <3>1, <3>3, <3>4 DEF SupCheck, Typed, TypeOK
    <2>2. CASE Go(s, "launch") /\ SetPidFile(s, None) /\ UNCHANGED <<state, faults>>
      <3>1. sup' \in [Sup -> Process] /\ \A u \in Sup : sup'[u].pc # "free" => sup'[u].env \in Env
        BY <1>3, <2>2, GoType DEF SupCheck, At, SupPoint
      <3>. QED  BY <1>3, <1>a, <2>2, <3>1 DEF SupCheck, SetPidFile, Typed, TypeOK
    <2>. QED  BY <1>3, <2>1, <2>2 DEF SupCheck
  <1>4. CASE SupLaunch(s)
    <2>1. sup' \in [Sup -> Process] /\ \A u \in Sup : sup'[u].pc # "free" => sup'[u].env \in Env
      BY <1>4, GoType DEF SupLaunch, At, SupPoint
    <2>. QED  BY <1>4, <1>a, <2>1 DEF SupLaunch, SetPidFile, Typed, TypeOK
  <1>5. CASE SupReport(s)
    <2>. DEFINE n == [sup[s] EXCEPT !.pc = "loop", !.run = Watched(s)]
    <2>1. n \in Process /\ n.env = sup[s].env
      BY DEF TypeOK, Process, SupPoint
    <2>2. sup' = [sup EXCEPT ![s] = n]
      BY <1>5 DEF SupReport, TypeOK, Process
    <2>3. sup' \in [Sup -> Process] /\ \A u \in Sup : sup'[u].pc # "free" => sup'[u].env \in Env
      <3>. HIDE DEF n
      <3>. QED  BY <1>5, <2>1, <2>2 DEF SupReport, At, TypeOK
    <2>4. [status |-> "running", sup |-> s, run |-> Watched(s)] \in StateFile
      BY DEF StateFile, InUse
    <2>5. state' \in [Env -> StateFile]
      BY <1>5, <2>4 DEF SupReport, SetState, TypeOK
    <2>6. pidfile' \in [Folder -> Robot \cup {None}] /\ torn' \subseteq Env
      BY <1>5 DEF SupReport, Forget, SetPidFile, TypeOK
    <2>. QED  BY <1>5, <1>a, <2>3, <2>5, <2>6 DEF SupReport, Typed, TypeOK
  <1>6. CASE SupStop(s)
    <2>1. sup' \in [Sup -> Process] /\ \A u \in Sup : sup'[u].pc # "free" => sup'[u].env \in Env
      BY <1>6, GoType DEF SupStop, At, SupPoint
    <2>2. robot' \in [Robot -> {"none", "alive", "loose", "ended", "dead"}]
      BY <1>6 DEF SupStop, StopRobot, TypeOK
    <2>3. pidfile' \in [Folder -> Robot \cup {None}]
      BY <1>6 DEF SupStop, StopRobot, SetPidFile, TypeOK
    <2>4. faults' \in Nat
      BY <1>6, FaultType DEF SupStop, StopRobot, TypeOK
    <2>. QED  BY <1>6, <1>a, <2>1, <2>2, <2>3, <2>4 DEF SupStop, Typed, TypeOK
  <1>7. CASE SupMark(s)
    <2>1. sup' \in [Sup -> Process] /\ \A u \in Sup : sup'[u].pc # "free" => sup'[u].env \in Env
      BY <1>7, GoType DEF SupMark, At, SupPoint
    <2>2. Record(s, "stopping") \in StateFile
      BY RecordType DEF InUse
    <2>. QED  BY <1>7, <1>a, <2>1, <2>2 DEF SupMark, SetState, Typed, TypeOK
  <1>8. CASE SupEnd(s)
    <2>1. sup' \in [Sup -> Process] /\ \A u \in Sup : sup'[u].pc # "free" => sup'[u].env \in Env
      BY <1>8, LeaveType DEF SupEnd, Exit, At
    <2>2. Record(s, "result") \in StateFile
      BY RecordType
    <2>. QED  BY <1>8, <1>a, <2>1, <2>2 DEF SupEnd, Exit, SetState, SetPidFile, Typed, TypeOK
  <1>9. CASE Tidy(s)
    BY <1>9, <1>a DEF Tidy, SetPidFile, Typed, TypeOK
  <1>10. CASE SupCrash(s)
    <2>1. sup' \in [Sup -> Process] /\ \A u \in Sup : sup'[u].pc # "free" => sup'[u].env \in Env
      BY <1>10, LeaveType DEF SupCrash, SupAlive
    <2>. QED  BY <1>10, <1>a, <2>1 DEF SupCrash, Fault, Typed, TypeOK
  <1>. QED  BY <1>1, <1>2, <1>3, <1>4, <1>5, <1>6, <1>7, <1>8, <1>9, <1>10 DEF SupStep

LEMMA StepTyped == Typed /\ [Next]_vars => Typed'
  <1>. SUFFICES ASSUME Typed, [Next]_vars PROVE Typed'
    OBVIOUS
  <1>. TypeOK /\ ThreadsOK
    BY DEF Typed
  <1>a. UNCHANGED con => ThreadsOK'
    BY DEF ThreadsOK
  <1>1. ASSUME NEW t \in Operator, Press(t) PROVE Typed'
    <2>. t \in Console
      BY DEF Console
    <2>1. PICK op \in {"start", "stop"} : LookAll(t, op)
      BY <1>1 DEF Press
    <2>. DEFINE n == [Idle EXCEPT !.pc = "look", !.op = op, !.todo = Files]
    <2>2. con' = [con EXCEPT ![t] = n] /\ n \in Thread /\ n.pc = "look"
      BY <2>1, LookAllType DEF Idle
    <2>3. t \notin Viewer
      BY ThreadsApart
    <2>. HIDE DEF n
    <2>4. con' \in [Console -> Thread] /\ ThreadsOK'
      BY <2>2, <2>3, ThreadType
    <2>. QED  BY <1>1, <2>4 DEF Press, Typed, TypeOK
  <1>2. ASSUME NEW t \in Operator, SpawnFails(t) PROVE Typed'
    <2>. t \in Console /\ con[t] \in Thread
      BY DEF Console, TypeOK
    <2>1. con' \in [Console -> Thread] /\ ThreadsOK'
      BY <1>2, IdleType, ThreadType DEF SpawnFails, Idle
    <2>2. stop' \subseteq Env /\ faults' \in Nat
      BY <1>2 DEF SpawnFails, Fault, TypeOK, Thread
    <2>. QED  BY <1>2, <2>1, <2>2 DEF SpawnFails, Typed, TypeOK
  <1>3. ASSUME NEW t \in Viewer, NEW e \in Env, View(t, e) PROVE Typed'
    <2>. t \in Console /\ con[t] \in Thread /\ state[e] \in StateFile
      BY DEF Console, TypeOK
    <2>. DEFINE n == [con[t] EXCEPT !.pc = "back", !.env = e, !.seen = state[e]]
    <2>1. n \in Thread /\ n.pc = "back" /\ n.env = e
      BY DEF Thread
    <2>2. con' = [con EXCEPT ![t] = n]
      BY <1>3 DEF View
    <2>. HIDE DEF n
    <2>3. con' \in [Console -> Thread] /\ ThreadsOK'
      BY <2>1, <2>2, ThreadType
    <2>. QED  BY <1>3, <2>3 DEF View, Typed, TypeOK
  <1>4. ASSUME NEW t \in Console, ConsoleStep(t) PROVE Typed'
    BY <1>4, ConsoleTyped
  <1>5. ASSUME NEW s \in Sup, SupStep(s) \/ SupCrash(s) PROVE Typed'
    BY <1>5, SupTyped
  <1>6. ASSUME NEW r \in Robot, RobotEnds(r) PROVE Typed'
    BY <1>6, <1>a DEF RobotEnds, Typed, TypeOK
  <1>7. CASE PortalStart
    BY <1>7, <1>a, FaultType DEF PortalStart, SetPidFile, Robot, Typed, TypeOK
  <1>8. CASE Tidy(Portal)
    BY <1>8, <1>a DEF Tidy, SetPidFile, Robot, Typed, TypeOK
  <1>9. CASE UNCHANGED vars
    BY <1>9, <1>a DEF vars, Typed, TypeOK
  <1>. QED
    BY <1>1, <1>2, <1>3, <1>4, <1>5, <1>6, <1>7, <1>8, <1>9 DEF Next

\* Every variable keeps its type: whoever writes a state file back, and however
\* late, writes one that the console can read (server_automations.py:336-358).
THEOREM SupTypeOK == Spec => []TypeOK
  <1>. Spec => []Typed
    BY InitTyped, StepTyped, PTL DEF Spec
  <1>. Typed => TypeOK
    BY DEF Typed
  <1>. QED  BY PTL

-----------------------------------------------------------------------------
\* One robot per environment.

\* One person works with the console at a time, and starts when the processes of
\* the last run are gone. With haste, or with two who start at once, there may be
\* two robots: the state and the pid file are looked at long before either exists.
OneCalmOperator ==
    /\ "haste" \notin Disturbances
    /\ \A t, u \in Operator : t = u

\* A supervisor that is at work, or that left a robot behind.
Live(s) == SupAlive(s) \/ RobotAlive(s)

Starting(t) == con[t].op = "start"

\* Nobody else is live where a start is at work.
Exclusive ==
    /\ \A s \in Sup : Live(s) => sup[s].pc # "free"
    /\ \A s, u \in Sup : Live(s) /\ Live(u) /\ sup[s].env = sup[u].env => s = u
    /\ \A t \in Operator :
         Starting(t) /\ con[t].pc \in {"look", "back"} => \A s \in Sup : ~SupAlive(s)
    /\ \A t \in Operator :
         Starting(t) /\ con[t].pc \in {"spawn", "read", "write"} =>
             \A s \in Sup : Live(s) => sup[s].env \notin con[t].todo
    /\ \A t \in Operator :
         Starting(t) /\ con[t].pc \in {"read", "write"} =>
             \A s \in Sup : Live(s) /\ sup[s].env = con[t].env => s = con[t].pid

\* The state file names the robot of a supervisor in its loop.
Named ==
    /\ \A s \in Sup : robot[s] = "alive" => sup[s].pc \in {"report", "loop"}
    /\ \A s \in Sup :
         At(s, "loop") /\ robot[s] = "alive" /\ sup[s].env \notin torn =>
             state[sup[s].env].sup = s /\ state[sup[s].env].run = s

SupInv == Typed /\ Exclusive /\ Named

\* Only Spawn adds a live supervisor.
NobodyNew ==
    \A s \in Sup :
        /\ Live(s)' => Live(s)
        /\ SupAlive(s)' => SupAlive(s)
        /\ sup'[s].env = sup[s].env
        /\ sup'[s].pc = "free" <=> sup[s].pc = "free"

LEMMA SameProcesses ==
    ASSUME UNCHANGED <<sup, robot>>
    PROVE  NobodyNew
  BY DEF NobodyNew, Live, SupAlive, RobotAlive

LEMMA SupMoves ==
    ASSUME Typed, NEW s \in Sup, SupStep(s) \/ SupCrash(s)
    PROVE  NobodyNew
  <1>. /\ sup \in [Sup -> Process] /\ s \in Robot /\ Sup \subseteq Robot
       /\ robot \in [Robot -> {"none", "alive", "loose", "ended", "dead"}]
    BY DEF Typed, TypeOK, Robot
  <1>. \A u \in Sup : sup[u] \in Process
    OBVIOUS
  <1>1. ASSUME NEW where \in SupPoint \ {"free", "off"}, Go(s, where), SupAlive(s),
               \A u \in Sup : robot'[u] \in {"alive", "loose"} /\ u # s
                              => robot[u] \in {"alive", "loose"}
        PROVE  NobodyNew
    <2>1. \A u \in Sup : sup'[u] = IF u = s THEN [sup[s] EXCEPT !.pc = where] ELSE sup[u]
      BY <1>1 DEF Go
    <2>2. \A u \in Sup : /\ sup'[u].env = sup[u].env
                         /\ u # s => sup'[u].pc = sup[u].pc
                         /\ sup'[s].pc = where
      BY <2>1 DEF Process
    <2>. QED  BY <1>1, <2>2 DEF NobodyNew, Live, SupAlive, RobotAlive, Robot
  <1>2. ASSUME Leave(s), SupAlive(s),
               \A u \in Sup : robot'[u] \in {"alive", "loose"} => robot[u] \in {"alive", "loose"}
        PROVE  NobodyNew
    <2>1. \A u \in Sup : sup'[u] = IF u = s THEN [sup[s] EXCEPT !.pc = "off", !.run = None]
                                  ELSE sup[u]
      BY <1>2 DEF Leave, Process
    <2>2. \A u \in Sup : /\ sup'[u].env = sup[u].env
                         /\ u # s => sup'[u].pc = sup[u].pc
                         /\ sup'[s].pc = "off"
      BY <2>1 DEF Process
    <2>. QED  BY <1>2, <2>2 DEF NobodyNew, Live, SupAlive, RobotAlive, Robot
  <1>3. CASE SupBegin(s)
    BY <1>1, <1>3 DEF SupBegin, At, SupPoint, SupAlive
  <1>4. CASE SupAnnounce(s)
    BY <1>1, <1>4 DEF SupAnnounce, At, SupPoint, SupAlive
  <1>5. CASE SupCheck(s)
    BY <1>1, <1>2, <1>5 DEF SupCheck, Exit, At, SupPoint, SupAlive
  <1>6. CASE SupLaunch(s)
    BY <1>1, <1>6 DEF SupLaunch, At, SupPoint, SupAlive
  <1>7. CASE SupReport(s)
    <2>1. \A u \in Sup : sup'[u] = IF u = s THEN [sup[s] EXCEPT !.pc = "loop", !.run = Watched(s)]
                                  ELSE sup[u]
      BY <1>7 DEF SupReport, Process
    <2>2. \A u \in Sup : /\ sup'[u].env = sup[u].env
                         /\ u # s => sup'[u].pc = sup[u].pc
                         /\ sup'[s].pc = "loop"
      BY <2>1 DEF Process
    <2>. QED  BY <1>7, <2>2 DEF SupReport, At, NobodyNew, Live, SupAlive, RobotAlive
  <1>8. CASE SupStop(s)
    <2>1. \A u \in Sup : robot'[u] \in {"alive", "loose"} => robot[u] \in {"alive", "loose"}
      BY <1>8 DEF SupStop, StopRobot
    <2>. QED  BY <1>1, <1>8, <2>1 DEF SupStop, At, SupPoint, SupAlive
  <1>9. CASE SupMark(s)
    BY <1>1, <1>9 DEF SupMark, At, SupPoint, SupAlive
  <1>10. CASE SupEnd(s)
    BY <1>2, <1>10 DEF SupEnd, Exit, At, SupAlive
  <1>11. CASE Tidy(s)
    BY <1>11 DEF Tidy, NobodyNew, Live, SupAlive, RobotAlive, Robot
  <1>12. CASE SupCrash(s)
    BY <1>2, <1>12 DEF SupCrash
  <1>. QED
    BY <1>3, <1>4, <1>5, <1>6, <1>7, <1>8, <1>9, <1>10, <1>11, <1>12 DEF SupStep

\* A step that makes nobody live keeps the exclusion if no start moves on.
LEMMA ExclusiveStays ==
    ASSUME Typed, Exclusive, NobodyNew, UNCHANGED con
    PROVE  Exclusive'
  BY DEF Exclusive, NobodyNew, Starting

\* The same, if the thread t only begins, looks on or ends.
LEMMA ExclusiveThread ==
    ASSUME Typed, Exclusive, NobodyNew, NEW t \in Console, NEW c \in Thread,
           con' = [con EXCEPT ![t] = c],
           t \in Operator /\ c.op = "start" =>
             \/ c.pc \in {"look", "back"} /\ \A s \in Sup : ~SupAlive(s)
             \/ c.pc = "idle"
             \/ c.pc = "spawn" /\ \A s \in Sup : ~Live(s)
             \/ /\ c.pc \in {"spawn", "write"} /\ Starting(t)
                /\ con[t].pc \in {"read", "write"} /\ c.todo = con[t].todo
                /\ c.pc = "write" => c.env = con[t].env /\ c.pid = con[t].pid
    PROVE  Exclusive'
  <1>1. \A u \in Operator : con'[u] = IF u = t THEN c ELSE con[u]
    BY DEF Typed, TypeOK, Console
  <1>2. /\ \A s \in Sup : Live(s)' => sup'[s].pc # "free"
        /\ \A s, u \in Sup : Live(s)' /\ Live(u)' /\ sup'[s].env = sup'[u].env => s = u
    BY DEF Exclusive, NobodyNew
  <1>3. \A u \in Operator :
          Starting(u)' /\ con'[u].pc \in {"look", "back"} => \A s \in Sup : ~SupAlive(s)'
    BY <1>1 DEF Exclusive, NobodyNew, Starting
  <1>4. \A u \in Operator :
          Starting(u)' /\ con'[u].pc \in {"spawn", "read", "write"} =>
            \A s \in Sup : Live(s)' => sup'[s].env \notin con'[u].todo
    BY <1>1 DEF Exclusive, NobodyNew, Starting
  <1>5. \A u \in Operator :
          Starting(u)' /\ con'[u].pc \in {"read", "write"} =>
            \A s \in Sup : Live(s)' /\ sup'[s].env = con'[u].env => s = con'[u].pid
    BY <1>1 DEF Exclusive, NobodyNew, Starting
  <1>. QED  BY <1>2, <1>3, <1>4, <1>5 DEF Exclusive

\* A new supervisor is the only one that lives for its environment.
LEMMA ExclusiveSpawn ==
    ASSUME OneCalmOperator, Typed, Exclusive, NEW t \in Operator, Spawn(t)
    PROVE  Exclusive'
  <1>. t \in Console /\ con[t] \in Thread /\ con[t].pc = "spawn"
    BY DEF Typed, TypeOK, Console, Spawn
  <1>. Starting(t)
    BY DEF Typed, ThreadsOK, Starting
  <1>1. PICK e \in con[t].todo, s \in Free :
          /\ sup' = [sup EXCEPT ![s].pc = "begin", ![s].env = e]
          /\ con' = [con EXCEPT ![t].pc = "read", ![t].todo = @ \ {e}, ![t].env = e,
                                ![t].pid = s, ![t].up = @ \cup {e}]
    BY DEF Spawn
  <1>. s \in Sup /\ sup[s].pc = "free" /\ robot' = robot
    BY DEF Free, At, Spawn
  <1>2. \A u \in Sup :
          /\ u = s => sup'[u].pc = "begin" /\ sup'[u].env = e
          /\ u # s => sup'[u] = sup[u]
    BY <1>1 DEF Typed, TypeOK, Process
  <1>3. ~Live(s) /\ \A u \in Sup : u # s => (Live(u)' <=> Live(u))
    BY <1>2 DEF Exclusive, Live, SupAlive, RobotAlive
  <1>4. \A u \in Sup : Live(u) => sup[u].env \notin con[t].todo
    BY DEF Exclusive
  <1>5. \A u \in Operator : u = t
    BY DEF OneCalmOperator
  <1>6. /\ con'[t].pc = "read" /\ con'[t].todo = con[t].todo \ {e} /\ con'[t].env = e
        /\ con'[t].pid = s
    BY <1>1 DEF Typed, TypeOK, Thread
  <1>7. \A u \in Sup : Live(u)' => sup'[u].pc # "free"
    BY <1>2, <1>3 DEF Exclusive
  <1>8. \A u, w \in Sup : Live(u)' /\ Live(w)' /\ sup'[u].env = sup'[w].env => u = w
    BY <1>2, <1>3, <1>4 DEF Exclusive
  <1>9. \A u \in Sup : Live(u)' => sup'[u].env \notin con'[t].todo
    BY <1>2, <1>3, <1>4, <1>6
  <1>10. \A u \in Sup : Live(u)' /\ sup'[u].env = con'[t].env => u = con'[t].pid
    BY <1>2, <1>3, <1>4, <1>6
  <1>. QED  BY <1>5, <1>6, <1>7, <1>8, <1>9, <1>10 DEF Exclusive

LEMMA ExclusiveConsole ==
    ASSUME OneCalmOperator, Typed, Exclusive, NEW t \in Console, ConsoleStep(t)
    PROVE  Exclusive'
  <1>. DEFINE c == con[t]
  <1>. /\ c \in Thread /\ (t \in Operator <=> t \notin Viewer)
       /\ (t \in Viewer => c.pc \in {"idle", "back"})
    BY ThreadsApart DEF Typed, TypeOK, ThreadsOK, Console
  <1>a. /\ c.pc \in {"idle", "look", "back", "spawn", "touch", "read", "write"}
        /\ c.op \in {"status", "start", "stop"} /\ c.todo \subseteq Env
        /\ c.env \in Env \cup {None} /\ c.pid \in Sup \cup {None}
        /\ c.seen \in StateFile /\ c.up \subseteq Env
    BY DEF Thread
  <1>1. CASE Look(t)
    <2>1. PICK e \in c.todo :
            LET d == [c EXCEPT !.todo = @ \ {e},
                        !.up = IF c.op # "status" /\ Running(state[e])
                               THEN @ \cup {e} ELSE @]
            IN  con' = [con EXCEPT ![t] =
                  IF Interrupted(state[e])
                  THEN [d EXCEPT !.pc = "back", !.env = e, !.seen = state[e]] ELSE d]
      BY <1>1 DEF Look
    <2>. DEFINE d == [c EXCEPT !.todo = @ \ {e},
                        !.up = IF c.op # "status" /\ Running(state[e])
                               THEN @ \cup {e} ELSE @]
    <2>. DEFINE n == IF Interrupted(state[e])
                     THEN [d EXCEPT !.pc = "back", !.env = e, !.seen = state[e]] ELSE d
    <2>. e \in Env /\ state[e] \in StateFile
      BY <1>a DEF Typed, TypeOK
    <2>2. d \in Thread /\ d.pc = "look" /\ d.op = c.op
      BY <1>1, <1>a DEF Look, Thread
    <2>3. n \in Thread /\ n.pc \in {"look", "back"} /\ n.op = c.op
      BY <2>2 DEF Thread
    <2>4. con' = [con EXCEPT ![t] = n]
      BY <2>1
    <2>. HIDE DEF n, d
    <2>5. t \in Operator /\ c.op = "start" => \A s \in Sup : ~SupAlive(s)
      BY <1>1 DEF Look, Exclusive, Starting
    <2>6. NobodyNew
      BY <1>1, SameProcesses DEF Look
    <2>. QED  BY <2>3, <2>4, <2>5, <2>6, ExclusiveThread
  <1>2. CASE Back(t)
    <2>. DEFINE n == [c EXCEPT !.pc = AfterBack(t), !.seen = Missing, !.env = None]
    <2>1. n \in Thread /\ n.pc = AfterBack(t) /\ n.op = c.op
      BY <1>a, IdleType DEF Thread, AfterBack
    <2>2. con' = [con EXCEPT ![t] = n]
      BY <1>2 DEF Back
    <2>. HIDE DEF n
    <2>3. t \in Operator /\ c.op = "start" => \A s \in Sup : ~SupAlive(s)
      BY <1>2 DEF Back, Exclusive, Starting
    <2>4. NobodyNew
      BY <1>2, SameProcesses DEF Back
    <2>. QED  BY <2>1, <2>2, <2>3, <2>4, ExclusiveThread DEF AfterBack
  <1>3. CASE Decide(t)
    <2>0. NobodyNew
      BY <1>3, SameProcesses DEF Decide
    <2>1. CASE con' = [con EXCEPT ![t] = Idle]
      BY <2>0, <2>1, IdleType, ExclusiveThread DEF Idle
    <2>2. CASE /\ c.op = "start" /\ ~IsRunning(t)
               /\ \E targets \in Targets :
                    con' = [con EXCEPT ![t].pc = "spawn", ![t].todo = targets]
      <3>. PICK targets \in Targets :
             con' = [con EXCEPT ![t].pc = "spawn", ![t].todo = targets]
        BY <2>2
      <3>. DEFINE n == [c EXCEPT !.pc = "spawn", !.todo = targets]
      <3>1. n \in Thread /\ n.pc = "spawn"
        BY <1>a, TargetsAreEnvs DEF Thread
      <3>2. con' = [con EXCEPT ![t] = n]
        BY DEF Typed, TypeOK
      <3>3. t \in Operator => \A s \in Sup : ~SupAlive(s)
        BY <1>3, <2>2 DEF Decide, Exclusive, Starting
      <3>4. \A s \in Sup : ~RobotAlive(s)
        BY <2>2 DEF IsRunning, Robot
      <3>. HIDE DEF n
      <3>. QED  BY <2>0, <3>1, <3>2, <3>3, <3>4, ExclusiveThread DEF Live
    <2>3. CASE c.op = "stop" /\ con' = [con EXCEPT ![t].pc = "touch", ![t].todo = c.up]
      <3>. DEFINE n == [c EXCEPT !.pc = "touch", !.todo = c.up]
      <3>1. n \in Thread /\ n.op = "stop"
        BY <1>a, <2>3 DEF Thread
      <3>2. con' = [con EXCEPT ![t] = n]
        BY <2>3
      <3>. HIDE DEF n
      <3>. QED  BY <2>0, <3>1, <3>2, ExclusiveThread
    <2>. QED  BY <1>3, <2>1, <2>2, <2>3 DEF Decide
  <1>4. CASE Spawn(t)
    <2>. t \in Operator
      BY <1>4 DEF Spawn
    <2>. QED  BY <1>4, ExclusiveSpawn
  <1>5. CASE Touch(t)
    <2>1. PICK e \in c.todo :
            con' = [con EXCEPT ![t].pc = "read", ![t].todo = @ \ {e}, ![t].env = e]
      BY <1>5 DEF Touch
    <2>. DEFINE n == [c EXCEPT !.pc = "read", !.todo = @ \ {e}, !.env = e]
    <2>2. n \in Thread /\ n.op = "stop"
      BY <1>5, <1>a DEF Touch, Thread, Typed, ThreadsOK
    <2>3. con' = [con EXCEPT ![t] = n]
      BY <2>1
    <2>. HIDE DEF n
    <2>4. NobodyNew
      BY <1>5, SameProcesses DEF Touch
    <2>. QED  BY <2>2, <2>3, <2>4, ExclusiveThread
  <1>6. CASE ReadState(t)
    <2>. DEFINE n == [c EXCEPT !.pc = "write", !.seen = state[c.env]]
    <2>1. c.env \in Env
      BY <1>6 DEF ReadState, Typed, ThreadsOK
    <2>2. state[c.env] \in StateFile
      BY <2>1 DEF Typed, TypeOK
    <2>3. /\ n \in Thread /\ n.pc = "write" /\ n.env = c.env /\ n.op = c.op
          /\ n.pid = c.pid /\ n.todo = c.todo
      BY <1>a, <2>2 DEF Thread
    <2>4. con' = [con EXCEPT ![t] = n]
      BY <1>6 DEF ReadState
    <2>. HIDE DEF n
    <2>5. NobodyNew
      BY <1>6, SameProcesses DEF ReadState
    <2>6. n.op = "start" => Starting(t) /\ c.pc \in {"read", "write"}
      BY <1>6, <2>3 DEF ReadState, Starting
    <2>. QED  BY <2>3, <2>4, <2>5, <2>6, ExclusiveThread
  <1>7. CASE WriteState(t)
    <2>0. NobodyNew
      BY <1>7, SameProcesses DEF WriteState
    <2>1. CASE /\ c.op = "start"
               /\ con' = [con EXCEPT ![t].pc = "spawn", ![t].seen = Missing,
                                     ![t].env = None, ![t].pid = None]
      <3>. DEFINE n == [c EXCEPT !.pc = "spawn", !.seen = Missing,
                                 !.env = None, !.pid = None]
      <3>1. n \in Thread /\ n.pc = "spawn" /\ n.todo = c.todo
        BY <1>a, IdleType DEF Thread
      <3>2. con' = [con EXCEPT ![t] = n]
        BY <2>1
      <3>3. Starting(t) /\ c.pc \in {"read", "write"}
        BY <1>7, <2>1 DEF WriteState, Starting
      <3>. HIDE DEF n
      <3>. QED  BY <2>0, <3>1, <3>2, <3>3, ExclusiveThread
    <2>2. CASE /\ c.op = "stop"
               /\ con' = [con EXCEPT ![t].pc = "touch", ![t].seen = Missing,
                                     ![t].env = None]
      <3>. DEFINE n == [c EXCEPT !.pc = "touch", !.seen = Missing, !.env = None]
      <3>1. n \in Thread /\ n.op = "stop"
        BY <1>a, <2>2, IdleType DEF Thread
      <3>2. con' = [con EXCEPT ![t] = n]
        BY <2>2
      <3>. HIDE DEF n
      <3>. QED  BY <2>0, <3>1, <3>2, ExclusiveThread
    <2>. QED  BY <1>7, <2>1, <2>2 DEF WriteState
  <1>8. CASE Answer(t)
    <2>. DEFINE n == [Idle EXCEPT !.pc = "look", !.op = "status", !.todo = Files]
    <2>1. con' = [con EXCEPT ![t] = n] /\ n \in Thread /\ n.op = "status"
      BY <1>8, LookAllType DEF Answer, Idle
    <2>. HIDE DEF n
    <2>2. NobodyNew
      BY <1>8, SameProcesses DEF Answer
    <2>. QED  BY <2>1, <2>2, ExclusiveThread
  <1>. QED  BY <1>1, <1>2, <1>3, <1>4, <1>5, <1>6, <1>7, <1>8 DEF ConsoleStep

LEMMA ExclusiveStep ==
    ASSUME OneCalmOperator, Typed, Exclusive, [Next]_vars
    PROVE  Exclusive'
  <1>1. ASSUME NEW t \in Operator, Press(t) PROVE Exclusive'
    <2>. t \in Console
      BY DEF Console
    <2>1. PICK op \in {"start", "stop"} :
            LookAll(t, op) /\ (op = "start" => \A s \in Sup : ~SupAlive(s))
      BY <1>1 DEF Press, MayStart, OneCalmOperator
    <2>. DEFINE n == [Idle EXCEPT !.pc = "look", !.op = op, !.todo = Files]
    <2>2. con' = [con EXCEPT ![t] = n] /\ n \in Thread /\ n.pc = "look" /\ n.op = op
      BY <2>1, LookAllType DEF Idle
    <2>. HIDE DEF n
    <2>3. NobodyNew
      BY <1>1, SameProcesses DEF Press
    <2>. QED  BY <2>1, <2>2, <2>3, ExclusiveThread
  <1>2. ASSUME NEW t \in Operator, SpawnFails(t) PROVE Exclusive'
    <2>. t \in Console
      BY DEF Console
    <2>1. NobodyNew
      BY <1>2, SameProcesses DEF SpawnFails
    <2>. QED  BY <1>2, <2>1, IdleType, ExclusiveThread DEF SpawnFails, Idle
  <1>3. ASSUME NEW t \in Viewer, NEW e \in Env, View(t, e) PROVE Exclusive'
    <2>. t \in Console /\ con[t] \in Thread /\ state[e] \in StateFile
      BY DEF Console, Typed, TypeOK
    <2>. DEFINE n == [con[t] EXCEPT !.pc = "back", !.env = e, !.seen = state[e]]
    <2>1. n \in Thread
      BY DEF Thread
    <2>2. con' = [con EXCEPT ![t] = n]
      BY <1>3 DEF View
    <2>3. NobodyNew
      BY <1>3, SameProcesses DEF View
    <2>. HIDE DEF n
    <2>. QED  BY <2>1, <2>2, <2>3, ThreadsApart, ExclusiveThread
  <1>4. ASSUME NEW t \in Console, ConsoleStep(t) PROVE Exclusive'
    BY <1>4, ExclusiveConsole
  <1>5. ASSUME NEW s \in Sup, SupStep(s) \/ SupCrash(s) PROVE Exclusive'
    <2>1. UNCHANGED con
      BY <1>5 DEF SupStep, SupBegin, SupAnnounce, SupCheck, SupLaunch, SupReport,
                  SupStop, SupMark, SupEnd, Tidy, SupCrash
    <2>. QED  BY <1>5, <2>1, SupMoves, ExclusiveStays
  <1>6. ASSUME NEW r \in Robot, RobotEnds(r) PROVE Exclusive'
    <2>1. NobodyNew
      BY <1>6 DEF RobotEnds, NobodyNew, Live, SupAlive, RobotAlive, Typed, TypeOK
    <2>. QED  BY <1>6, <2>1, ExclusiveStays DEF RobotEnds
  <1>7. CASE PortalStart
    <2>1. NobodyNew
      BY <1>7, NoneIsNobody
      DEF PortalStart, NobodyNew, Live, SupAlive, RobotAlive, Typed, TypeOK
    <2>. QED  BY <1>7, <2>1, ExclusiveStays DEF PortalStart
  <1>8. CASE Tidy(Portal)
    <2>1. NobodyNew
      BY <1>8 DEF Tidy, NobodyNew, Live, SupAlive, RobotAlive, Robot, Typed, TypeOK
    <2>. QED  BY <1>8, <2>1, ExclusiveStays DEF Tidy
  <1>9. CASE UNCHANGED vars
    BY <1>9, SameProcesses, ExclusiveStays DEF vars
  <1>. QED
    BY <1>1, <1>2, <1>3, <1>4, <1>5, <1>6, <1>7, <1>8, <1>9 DEF Next

-----------------------------------------------------------------------------
\* The state file names the robot.

\* A supervisor whose robot the file must name.
Shown(s) == At(s, "loop") /\ robot[s] = "alive"

Shows(s) == state[sup[s].env].sup = s /\ state[sup[s].env].run = s

\* No robot starts, no supervisor reaches its loop, no file becomes current.
LEMMA NamedStays ==
    ASSUME Typed, Named,
           \A s \in Sup : /\ robot'[s] = "alive" => robot[s] = "alive"
                         /\ sup'[s] = sup[s],
           \A s \in Sup : Shown(s) /\ sup[s].env \notin torn' =>
                           \/ sup[s].env \notin torn /\ state'[sup[s].env] = state[sup[s].env]
                           \/ Shows(s)'
    PROVE  Named'
  BY DEF Named, At, Shown, Shows

\* The supervisor s moves on; its own file says so only if it is the only live one.
LEMMA NamedMoves ==
    ASSUME Typed, Exclusive, Named, NEW s \in Sup, SupAlive(s),
           \A u \in Sup : u # s => /\ robot'[u] = "alive" => robot[u] = "alive"
                                  /\ sup'[u] = sup[u],
           \A e \in Env \ {sup[s].env} : state'[e] = state[e] /\ (e \in torn => e \in torn'),
           robot'[s] = "alive" => sup'[s].pc = "report" \/ (Shown(s) /\ Shows(s))'
    PROVE  Named'
  <1>1. ASSUME NEW u \in Sup, u # s, Shown(u)', sup'[u].env \notin torn' PROVE Shows(u)'
    <2>1. Shown(u) /\ sup'[u] = sup[u]
      BY <1>1 DEF Shown, At
    <2>2. Live(u) /\ Live(s) /\ sup[u].env \in Env
      BY <2>1 DEF Live, SupAlive, Shown, At, Typed, TypeOK
    <2>3. sup[u].env # sup[s].env
      BY <1>1, <2>2 DEF Exclusive
    <2>. QED  BY <1>1, <2>1, <2>2, <2>3 DEF Named, Shown, Shows
  <1>2. \A u \in Sup : robot'[u] = "alive" => sup'[u].pc \in {"report", "loop"}
    BY DEF Named, Shown, At
  <1>3. \A u \in Sup : u = s /\ Shown(u)' => Shows(u)'
    BY DEF Shown, At
  <1>. QED  BY <1>1, <1>2, <1>3 DEF Named, Shown, Shows

LEMMA NamedSup ==
    ASSUME Typed, Exclusive, Named, NEW s \in Sup, SupStep(s) \/ SupCrash(s)
    PROVE  Named'
  <1>. /\ sup \in [Sup -> Process] /\ s \in Robot /\ Sup \subseteq Robot
       /\ robot \in [Robot -> {"none", "alive", "loose", "ended", "dead"}]
       /\ state \in [Env -> StateFile] /\ sup[s] \in Process
       /\ (sup[s].pc # "free" => sup[s].env \in Env)
    BY DEF Typed, TypeOK, Robot
  <1>n. robot[s] = "alive" => sup[s].pc \in {"report", "loop"}
    BY DEF Named
  <1>1. CASE SupBegin(s)
    BY <1>1, <1>n, NamedMoves DEF SupBegin, At, Go, SupAlive
  <1>2. CASE SupAnnounce(s)
    BY <1>2, <1>n, NamedMoves DEF SupAnnounce, SetState, At, Go, SupAlive
  <1>3. CASE SupCheck(s)
    <2>1. SupAlive(s) /\ robot' = robot /\ robot[s] # "alive" /\ torn' = torn
      BY <1>3, <1>n DEF SupCheck, At, SupAlive
    <2>2. \A u \in Sup : u # s => sup'[u] = sup[u]
      BY <1>3 DEF SupCheck, Exit, Leave, Go
    <2>3. \A e \in Env \ {sup[s].env} : state'[e] = state[e]
      BY <1>3 DEF SupCheck, Exit, SetState
    <2>. QED  BY <2>1, <2>2, <2>3, NamedMoves
  <1>4. CASE SupLaunch(s)
    <2>1. sup'[s].pc = "report"
      BY <1>4 DEF SupLaunch, Go, Process
    <2>2. \A u \in Sup : u # s => (robot'[u] = "alive" => robot[u] = "alive") /\ sup'[u] = sup[u]
      BY <1>4 DEF SupLaunch, Go
    <2>3. SupAlive(s) /\ state' = state /\ torn' = torn
      BY <1>4 DEF SupLaunch, At, SupAlive
    <2>. QED  BY <2>1, <2>2, <2>3, NamedMoves
  <1>5. CASE SupReport(s)
    <2>0. SupAlive(s) /\ sup[s].env \in Env /\ robot' = robot
      BY <1>5 DEF SupReport, At, SupAlive
    <2>1. sup' = [sup EXCEPT ![s] = [sup[s] EXCEPT !.pc = "loop", !.run = Watched(s)]]
      BY <1>5 DEF SupReport
    <2>2. sup'[s].pc = "loop" /\ sup'[s].env = sup[s].env
      BY <2>1 DEF Process
    <2>3. \A u \in Sup : u # s => sup'[u] = sup[u]
      BY <2>1
    <2>4. state'[sup[s].env] = [status |-> "running", sup |-> s, run |-> Watched(s)]
      BY <1>5, <2>0 DEF SupReport, SetState
    <2>5. \A e \in Env \ {sup[s].env} : state'[e] = state[e] /\ (e \in torn => e \in torn')
      BY <1>5 DEF SupReport, SetState
    <2>6. robot'[s] = "alive" => Watched(s) = s
      BY <2>0 DEF Watched
    <2>7. robot'[s] = "alive" => Shown(s)' /\ Shows(s)'
      BY <2>2, <2>4, <2>6 DEF Shown, Shows, At
    <2>. QED  BY <2>0, <2>3, <2>5, <2>7, NamedMoves
  <1>6. CASE SupStop(s)
    <2>1. SupAlive(s) /\ robot'[s] # "alive"
      BY <1>6, NoneIsNobody DEF SupStop, StopRobot, At, SupAlive, Watched
    <2>2. \A u \in Sup : u # s => (robot'[u] = "alive" => robot[u] = "alive") /\ sup'[u] = sup[u]
      BY <1>6 DEF SupStop, StopRobot, Go
    <2>. QED  BY <1>6, <2>1, <2>2, NamedMoves DEF SupStop
  <1>7. CASE SupMark(s)
    <2>1. SupAlive(s) /\ robot[s] # "alive" /\ robot' = robot /\ torn' = torn
      BY <1>7, <1>n DEF SupMark, At, SupAlive
    <2>2. \A u \in Sup : u # s => sup'[u] = sup[u]
      BY <1>7 DEF SupMark, Go
    <2>3. \A e \in Env \ {sup[s].env} : state'[e] = state[e]
      BY <1>7 DEF SupMark, SetState
    <2>. QED  BY <2>1, <2>2, <2>3, NamedMoves
  <1>8. CASE SupEnd(s)
    <2>1. SupAlive(s) /\ robot[s] # "alive" /\ robot' = robot /\ torn' = torn
      BY <1>8, NoneIsNobody DEF SupEnd, At, SupAlive, Watched
    <2>2. \A u \in Sup : u # s => sup'[u] = sup[u]
      BY <1>8 DEF SupEnd, Exit, Leave
    <2>3. \A e \in Env \ {sup[s].env} : state'[e] = state[e]
      BY <1>8 DEF SupEnd, Exit, SetState
    <2>. QED  BY <2>1, <2>2, <2>3, NamedMoves
  <1>9. CASE Tidy(s)
    BY <1>9, NamedStays DEF Tidy
  <1>10. CASE SupCrash(s)
    <2>1. SupAlive(s) /\ robot'[s] # "alive"
      BY <1>10 DEF SupCrash
    <2>2. \A u \in Sup : u # s => robot'[u] = robot[u] /\ sup'[u] = sup[u]
      BY <1>10 DEF SupCrash, Leave
    <2>. QED  BY <1>10, <2>1, <2>2, NamedMoves DEF SupCrash
  <1>. QED  BY <1>1, <1>2, <1>3, <1>4, <1>5, <1>6, <1>7, <1>8, <1>9, <1>10 DEF SupStep

\* A thread writes back: what it changes of the file of a live supervisor names the
\* same processes, or the file is torn.
LEMMA NamedWriteBack ==
    ASSUME Typed, Named, UNCHANGED <<sup, robot>>, NEW e \in Env, NEW copy, NEW r,
           WriteBack(e, copy, r),
           \A s \in Sup : Shown(s) /\ sup[s].env = e /\ copy = state[e] /\ Shows(s) =>
                           r.sup = s /\ r.run = s
    PROVE  Named'
  <1>1. \A d \in Env : state'[d] = IF d = e THEN r ELSE state[d]
    BY DEF WriteBack, SetState, Typed, TypeOK
  <1>2. torn \subseteq torn' /\ (state[e] # copy => e \in torn')
    BY DEF WriteBack
  <1>3. \A s \in Sup : Shown(s) => sup[s].env \in Env
    BY DEF Shown, At, Typed, TypeOK
  <1>4. ASSUME NEW s \in Sup, Shown(s), sup[s].env \notin torn' PROVE Shows(s)'
    <2>1. Shows(s)
      BY <1>2, <1>4 DEF Named, Shown, Shows
    <2>. QED  BY <1>1, <1>2, <1>3, <1>4, <2>1 DEF Shows
  <1>. QED  BY <1>4 DEF Named, Shown, Shows, At

LEMMA NamedConsole ==
    ASSUME Typed, Exclusive, Named, NEW t \in Console, ConsoleStep(t)
    PROVE  Named'
  <1>. DEFINE c == con[t]
  <1>. /\ c \in Thread /\ (t \in Operator <=> t \notin Viewer)
       /\ (t \in Viewer => c.pc \in {"idle", "back"})
    BY ThreadsApart DEF Typed, TypeOK, ThreadsOK, Console
  <1>. c.seen \in StateFile
    BY DEF Thread
  <1>1. CASE UNCHANGED <<state, sup, robot, torn>>
    BY <1>1, NamedStays
  <1>2. CASE Back(t)
    <2>1. c.env \in Env
      BY <1>2 DEF Back, Typed, ThreadsOK
    <2>. DEFINE r == [c.seen EXCEPT !.status = "interrupted"]
    <2>2. r.sup = c.seen.sup /\ r.run = c.seen.run
      BY DEF StateFile
    <2>3. WriteBack(c.env, c.seen, r) /\ UNCHANGED <<sup, robot>>
      BY <1>2 DEF Back
    <2>. HIDE DEF r
    <2>4. \A s \in Sup : Shown(s) /\ sup[s].env = c.env /\ c.seen = state[c.env] /\ Shows(s)
                         => r.sup = s /\ r.run = s
      BY <2>2 DEF Shows
    <2>. QED  BY <2>1, <2>3, <2>4, NamedWriteBack
  <1>3. CASE Spawn(t)
    <2>1. PICK e \in c.todo, s \in Free :
            sup' = [sup EXCEPT ![s].pc = "begin", ![s].env = e]
      BY <1>3 DEF Spawn
    <2>. s \in Sup /\ sup[s].pc = "free" /\ UNCHANGED <<robot, state, torn>>
      BY <1>3 DEF Free, At, Spawn
    <2>2. robot[s] # "alive"
      BY DEF Named
    <2>3. \A u \in Sup : u # s => sup'[u] = sup[u]
      BY <2>1 DEF Typed, TypeOK
    <2>. QED  BY <2>2, <2>3 DEF Named, At
  <1>4. CASE WriteState(t)
    <2>1. c.env \in Env /\ c.pc = "write" /\ t \in Operator
      BY <1>4 DEF WriteState, Typed, ThreadsOK
    <2>2. CASE c.op = "start" /\ WriteBack(c.env, c.seen, Adopted(c.seen, c.pid))
      <3>1. ASSUME NEW s \in Sup, Shown(s), sup[s].env = c.env, c.seen = state[c.env], Shows(s)
            PROVE  Adopted(c.seen, c.pid).sup = s /\ Adopted(c.seen, c.pid).run = s
        <4>1. Live(s)
          BY <3>1 DEF Shown, At, Live, SupAlive
        <4>2. s = c.pid
          BY <2>1, <2>2, <3>1, <4>1 DEF Exclusive, Starting
        <4>3. c.seen # Missing
          BY <3>1, NoneIsNobody DEF Shows, Missing
        <4>. QED  BY <3>1, <4>2, <4>3 DEF Adopted, Shows, StateFile
      <3>. QED  BY <1>4, <2>1, <2>2, <3>1, NamedWriteBack DEF WriteState
    <2>3. CASE WriteBack(c.env, c.seen, [c.seen EXCEPT !.status = "stopping"])
      <3>. DEFINE r == [c.seen EXCEPT !.status = "stopping"]
      <3>1. r.sup = c.seen.sup /\ r.run = c.seen.run
        BY DEF StateFile
      <3>2. WriteBack(c.env, c.seen, r) /\ UNCHANGED <<sup, robot>>
        BY <1>4, <2>3 DEF WriteState
      <3>. HIDE DEF r
      <3>3. \A s \in Sup : Shown(s) /\ sup[s].env = c.env /\ c.seen = state[c.env] /\ Shows(s)
                           => r.sup = s /\ r.run = s
        BY <3>1 DEF Shows
      <3>. QED  BY <2>1, <3>2, <3>3, NamedWriteBack
    <2>. QED  BY <1>4, <2>2, <2>3 DEF WriteState
  <1>. QED
    BY <1>1, <1>2, <1>3, <1>4
    DEF ConsoleStep, Look, Decide, Touch, ReadState, Answer

LEMMA InitInv == Init => SupInv
  <1>. SUFFICES ASSUME Init PROVE SupInv
    OBVIOUS
  <1>1. Exclusive
    BY DEF Init, Exclusive, Live, SupAlive, RobotAlive, Starting, Idle, Robot, Console
  <1>2. Named
    BY NoneIsNobody DEF Init, Named, At, Robot
  <1>. QED  BY <1>1, <1>2, InitTyped DEF SupInv

LEMMA StepInv ==
    ASSUME OneCalmOperator, SupInv, [Next]_vars
    PROVE  SupInv'
  <1>. Typed /\ Exclusive /\ Named
    BY DEF SupInv
  <1>1. Typed' /\ Exclusive'
    BY StepTyped, ExclusiveStep
  <1>2. Named'
    <2>0. CASE UNCHANGED <<state, sup, robot, torn>>
      BY <2>0, NamedStays
    <2>1. ASSUME NEW t \in Console, ConsoleStep(t) PROVE Named'
      BY <2>1, NamedConsole
    <2>2. ASSUME NEW s \in Sup, SupStep(s) \/ SupCrash(s) PROVE Named'
      BY <2>2, NamedSup
    <2>3. ASSUME NEW r \in Robot, RobotEnds(r) PROVE Named'
      BY <2>3, NamedStays DEF RobotEnds, Typed, TypeOK
    <2>4. CASE PortalStart
      BY <2>4, NoneIsNobody, NamedStays DEF PortalStart, Typed, TypeOK
    <2>5. CASE Tidy(Portal)
      BY <2>5, NamedStays DEF Tidy, Typed, TypeOK
    <2>. QED
      BY <2>0, <2>1, <2>2, <2>3, <2>4, <2>5
      DEF Next, Press, LookAll, SpawnFails, View, vars
  <1>. QED  BY <1>1, <1>2 DEF SupInv

\* The inductive invariant of the supervisors: a start has its environment to
\* itself, and the state file names the robot that is watched.
THEOREM SupInvariant ==
    ASSUME OneCalmOperator
    PROVE  Spec => []SupInv
  <1>. SupInv /\ [Next]_vars => SupInv'
    BY StepInv
  <1>. QED  BY InitInv, PTL DEF Spec

\* With one person who starts a mode only when its last processes are gone, an
\* environment never has two robots of it, whatever crashes, cannot be killed or is
\* written back late (server_automations.py:381-383, 556; robot_manager.py:3606).
THEOREM SupOneRobot ==
    ASSUME OneCalmOperator
    PROVE  Spec => []OneRobot
  <1>. SupInv => OneRobot
    BY DEF SupInv, Exclusive, OneRobot, Live
  <1>. QED  BY SupInvariant, PTL

\* Unless a state file was written from an outdated copy, it names the supervisor and
\* the robot in its loop, so that a stop reaches it (server_automations.py:506-532).
THEOREM SupStopReaches ==
    ASSUME OneCalmOperator
    PROVE  Spec => []StopReaches
  <1>. SupInv => StopReaches
    <2>. SUFFICES ASSUME SupInv, NEW s \in Sup, Shown(s), sup[s].env \notin torn
                  PROVE  Running(state[sup[s].env]) /\ state[sup[s].env].sup = s
      BY DEF StopReaches, Shown
    <2>1. Shows(s)
      BY DEF SupInv, Named, Shown, Shows
    <2>2. SupAlive(s) /\ RobotAlive(s)
      BY DEF Shown, At, SupAlive, RobotAlive, Robot
    <2>. QED  BY <2>1, <2>2 DEF Shows, Running
  <1>. QED  BY SupInvariant, PTL
=============================================================================
