------------------------------- MODULE AuditQueue -------------------------------
(***************************************************************************)
(* The audit queues: reinspecao_fila.py and its twin                       *)
(* auditoria_compliance_fila.py, with the key they share,                  *)
(* fila_presence_mutex.py.  A protocol is a group of rows; an auditor has  *)
(* the protocol he works on and, directed to him, a next one; a protocol   *)
(* that he keeps for five minutes goes back to its queue and he is set     *)
(* offline.  Handlers are transactions of a READ COMMITTED database, as in *)
(* SupportQueue: a statement sees what is committed and what its own       *)
(* transaction wrote, and a row that is locked is skipped, or waited for   *)
(* and looked at again.                                                    *)
(***************************************************************************)
EXTENDS Naturals, FiniteSets

CONSTANTS
    Row,         \* rows of the two tables of pending audits
    Protocol,    \* protocols, each of one queue
    ProtocolOf,  \* the protocol of each row
    Queue,       \* the two queues
    QueueOf,     \* the queue of each protocol
    Auditor,     \* auditors
    Thread,      \* threads of the web server
    None

ASSUME AuditActors == None \notin Row \cup Auditor \cup Thread \cup Queue
ASSUME AuditGroups ==
    ProtocolOf \in [Row -> Protocol] /\ QueueOf \in [Protocol -> Queue]

VARIABLES
    rows,      \* the committed rows
    presence,  \* the committed presence of each auditor in each queue
    held,      \* rows each thread has locked, as it will commit them
    users,     \* the thread that has locked the user row of each auditor
    desk,      \* the thread that has locked his presence row of each queue
    th,        \* each thread's point in its transaction and its variables
    stale      \* history: rows that a patch wrote from a copy out of date

vars == <<rows, presence, held, users, desk, th, stale>>

\* A row that nobody has: not imported, in the general queue, concluded or deleted.
Loose(status) ==
    [status |-> status, auditor |-> None, origin |-> "none", clock |-> "none"]

Idle == [pc |-> "idle", op |-> "none", queue |-> None, user |-> None, who |-> None,
         row |-> None, act |-> "none", origin |-> "none", clock |-> "running",
         drain |-> {}, owed |-> {}, asked |-> {}, left |-> {}, copy |-> None]

Init ==
    /\ rows = [r \in Row |-> Loose("absent")]
    /\ presence = [q \in Queue |-> [a \in Auditor |-> "away"]]
    /\ held = [t \in Thread |-> [r \in Row |-> None]]
    /\ users = [a \in Auditor |-> None]
    /\ desk = [q \in Queue |-> [a \in Auditor |-> None]]
    /\ th = [t \in Thread |-> Idle]
    /\ stale = {}

-----------------------------------------------------------------------------
(* What a transaction sees and may lock. *)

RowQueue(r) == QueueOf[ProtocolOf[r]]
Rows(t) == {r \in Row : RowQueue(r) = th[t].queue}
Seen(t, r) == IF held[t][r] # None THEN held[t][r] ELSE rows[r]
Free(t, r) == \A u \in Thread \ {t} : held[u][r] = None

ANALISE_ATIVA == {"waiting", "working"}

Active(t, a) ==
    {r \in Rows(t) : Seen(t, r).status \in ANALISE_ATIVA /\ Seen(t, r).auditor = a}

\* What is neither concluded nor deleted.
Pending(t) == {r \in Rows(t) : Seen(t, r).status \in ANALISE_ATIVA \cup {"free"}}
General(t) == {r \in Rows(t) : Seen(t, r).status = "free"}
Siblings(t, r) == {s \in Pending(t) : ProtocolOf[s] = ProtocolOf[r]}

SeenOnline(t, a) ==
    presence[th[t].queue][a] = "online" /\ a \notin th[t].left

Protocols(S) == {ProtocolOf[r] : r \in S}

\* _group_protocolo_slots: a protocol in analysis is first, then the one assigned
\* earliest.  Of those whose clock is alike, either may be the earlier.
Rank(t, S, p) ==
    LET with(field, value) ==
          \E r \in S : ProtocolOf[r] = p /\ Seen(t, r)[field] = value
    IN  (IF with("status", "working") THEN 0 ELSE 3)
          + (IF with("clock", "over") THEN 0 ELSE IF with("clock", "running") THEN 1 ELSE 2)

Front(t, S) == {p \in Protocols(S) : \A x \in Protocols(S) : Rank(t, S, p) <= Rank(t, S, x)}

InGroup(S, p) == {r \in S : ProtocolOf[r] = p}

\* Rows of one transaction as it will commit them.
Put(t, S, row) ==
    held' = [held EXCEPT ![t] = [r \in Row |-> IF r \in S THEN row ELSE @[r]]]

Lock(t, r) == Put(t, {r}, Seen(t, r))

Run(t, next) == th' = [th EXCEPT ![t] = next]

\* The locks of t are released and its variables forgotten.
End(t) ==
    /\ held' = [held EXCEPT ![t] = [r \in Row |-> None]]
    /\ users' = [a \in Auditor |-> IF users[a] = t THEN None ELSE users[a]]
    /\ desk' = [q \in Queue |-> [a \in Auditor |->
                  IF desk[q][a] = t THEN None ELSE desk[q][a]]]
    /\ Run(t, Idle)

-----------------------------------------------------------------------------
(* expire_stale_fila_assignments, with which most transactions begin. *)

AfterExpiry(op) ==
    CASE op = "claim" -> "desk"
      [] op = "distribute" -> "invite"
      [] op = "direct" -> "aim"
      [] OTHER -> "commit"

\* The next auditor from whom something was taken back, or the operation itself.
Turn(t, me) ==
    \/ /\ me.owed = {}
       /\ Run(t, [me EXCEPT !.pc = AfterExpiry(me.op), !.who = None, !.act = "none"])
    \/ \E a \in me.owed :
          Run(t, [me EXCEPT !.pc = "list", !.who = a, !.act = "activate"])

\* Wrong on purpose: nobody who is in analysis is out of time.
SurveyIdle(t) ==
    /\ th[t].pc = "expire"
    /\ LET found == {r \in Rows(t) : /\ Seen(t, r).status = "waiting"
                                     /\ Seen(t, r).clock = "over"}
       IN  IF found = {}
           THEN Turn(t, th[t])
           ELSE Run(t, [th[t] EXCEPT !.pc = "seize", !.drain = found])
    /\ UNCHANGED <<rows, presence, held, users, desk, stale>>

\* The protocols that are first with somebody and out of time; nothing is locked.
Survey(t) ==
    /\ th[t].pc = "expire"
    /\ \E first \in [Auditor -> Protocol] :
         LET mine(a) == InGroup(Active(t, a), first[a])
             due == {a \in Auditor : \E r \in mine(a) : Seen(t, r).clock = "over"}
         IN  /\ \A a \in Auditor : Active(t, a) = {} \/ first[a] \in Front(t, Active(t, a))
             /\ IF due = {}
                THEN Turn(t, th[t])
                ELSE Run(t, [th[t] EXCEPT !.pc = "seize",
                                          !.drain = UNION {mine(a) : a \in due}])
    /\ UNCHANGED <<rows, presence, held, users, desk, stale>>

\* Rows that others have locked are skipped; whose the others are by now is not
\* asked.
Seize(t) ==
    LET taken == {r \in th[t].drain : Free(t, r) /\ Seen(t, r).status \in ANALISE_ATIVA}
    IN  /\ th[t].pc = "seize"
        /\ Put(t, taken, Loose("free"))
        /\ Turn(t, [th[t] EXCEPT !.drain = {}, !.owed = {Seen(t, r).auditor : r \in taken}])
        /\ UNCHANGED <<rows, presence, users, desk, stale>>

\* An auditor who let his time run out is set offline if he is read to be online.
Ask(t) ==
    /\ th[t].pc = "ask"
    /\ IF SeenOnline(t, th[t].who)
       THEN Run(t, [th[t] EXCEPT !.pc = "user", !.act = "quit"])
       ELSE Turn(t, [th[t] EXCEPT !.owed = @ \ {th[t].who}])
    /\ UNCHANGED <<rows, presence, held, users, desk, stale>>

-----------------------------------------------------------------------------
(* Statements over all the active rows of an auditor. *)

\* The rows the statement finds, to be locked one by one.
List(t) ==
    /\ th[t].pc = "list"
    /\ Run(t, [th[t] EXCEPT !.pc = "grab", !.drain = Active(t, th[t].who)])
    /\ UNCHANGED <<rows, presence, held, users, desk, stale>>

\* One of them, if it is still his once it is locked.
Grab(t) == \E r \in th[t].drain :
    /\ th[t].pc = "grab"
    /\ Free(t, r)
    /\ IF r \in Active(t, th[t].who) THEN Lock(t, r) ELSE UNCHANGED held
    /\ Run(t, [th[t] EXCEPT !.drain = @ \ {r}])
    /\ UNCHANGED <<rows, presence, users, desk, stale>>

Grabbed(t) == {r \in Active(t, th[t].who) : held[t][r] # None}

\* _activate_first_slot_sla
Activate(t) ==
    /\ th[t].pc = "grab" /\ th[t].drain = {} /\ th[t].act = "activate"
    /\ \/ Grabbed(t) = {} /\ UNCHANGED held
       \/ \E p \in Front(t, Grabbed(t)) :
             held' = [held EXCEPT ![t] = [r \in Row |->
                        IF r \in InGroup(Grabbed(t), p)
                        THEN [@[r] EXCEPT !.clock = "running"] ELSE @[r]]]
    /\ Run(t, [th[t] EXCEPT !.pc = IF th[t].owed = {} THEN "commit" ELSE "ask"])
    /\ UNCHANGED <<rows, presence, users, desk, stale>>

\* release_auditor_active_queue; in an expiry the next auditor follows.
Quit(t) ==
    /\ th[t].pc = "grab" /\ th[t].drain = {} /\ th[t].act = "quit"
    /\ Put(t, Grabbed(t), Loose("free"))
    /\ IF th[t].owed = {}
       THEN Run(t, [th[t] EXCEPT !.pc = "commit"])
       ELSE Turn(t, [th[t] EXCEPT !.owed = @ \ {th[t].who}])
    /\ UNCHANGED <<rows, presence, users, desk, stale>>

\* remover_protocolo_direcionado: the second protocol, if it was directed to the
\* auditor; remover_protocolo_fila_controle: any of them.
Second(t, p) == \E f \in Front(t, Grabbed(t)) :
    p \in Front(t, Grabbed(t) \ InGroup(Grabbed(t), f))

Removable(t) ==
    IF th[t].act = "remove"
    THEN Protocols(Grabbed(t))
    ELSE {p \in {ProtocolOf[th[t].row]} :
            /\ Second(t, p)
            /\ \E r \in InGroup(Grabbed(t), p) : Seen(t, r).origin = "directed"}

Remove(t) ==
    /\ th[t].pc = "grab" /\ th[t].drain = {} /\ th[t].act \in {"return", "remove"}
    /\ \/ \E p \in Removable(t) :
             /\ Put(t, InGroup(Grabbed(t), p), Loose("free"))
             /\ Run(t, IF th[t].act = "remove"
                       THEN [th[t] EXCEPT !.pc = "list", !.act = "activate"]
                       ELSE [th[t] EXCEPT !.pc = "commit"])
             /\ UNCHANGED <<users, desk>>
       \/ Removable(t) = {} /\ End(t)
    /\ UNCHANGED <<rows, presence, stale>>

\* concluir_analise: the rows of the protocol that are his are promoted and leave
\* the table.
Finish(t) ==
    /\ th[t].pc = "grab" /\ th[t].drain = {} /\ th[t].act = "finish"
    /\ Put(t, InGroup(Grabbed(t), ProtocolOf[th[t].row]), Loose("gone"))
    /\ Run(t, [th[t] EXCEPT !.pc = "list", !.act = "activate"])
    /\ UNCHANGED <<rows, presence, users, desk, stale>>

-----------------------------------------------------------------------------
(* set_auditor_status. *)

\* Wrong on purpose: the user is read and not locked.
LockUserRead(t) ==
    /\ th[t].pc = "user"
    /\ Run(t, [th[t] EXCEPT !.pc = "status"])
    /\ UNCHANGED <<rows, presence, held, users, desk, stale>>

\* lock_presence_user
LockUser(t) ==
    LET a == th[t].who IN
    /\ th[t].pc = "user"
    /\ users[a] \in {None, t}
    /\ users' = [users EXCEPT ![a] = t]
    /\ Run(t, [th[t] EXCEPT !.pc = "status"])
    /\ UNCHANGED <<rows, presence, held, desk, stale>>

\* assert_can_go_online finds him online in the other queue.
Conflict(q, a) == \E other \in Queue \ {q} : presence[other][a] = "online"

SetStatus(t) ==
    LET a == th[t].who
        q == th[t].queue
    IN  /\ th[t].pc = "status"
        /\ desk[q][a] \in {None, t}
        /\ \/ /\ th[t].act = "quit"
              /\ desk' = [desk EXCEPT ![q][a] = t]
              /\ Run(t, [th[t] EXCEPT !.pc = "list", !.left = @ \cup {a}])
              /\ UNCHANGED <<held, users>>
           \/ /\ th[t].act = "online"
              /\ presence[q][a] = "online" \/ ~Conflict(q, a)
              /\ desk' = [desk EXCEPT ![q][a] = t]
              /\ Run(t, [th[t] EXCEPT !.pc = "commit"])
              /\ UNCHANGED <<held, users>>
           \/ /\ th[t].act = "online"
              /\ presence[q][a] # "online" /\ Conflict(q, a)
              /\ End(t)
        /\ UNCHANGED <<rows, presence, stale>>

-----------------------------------------------------------------------------
(* claim_next_for_auditor, distribuir_protocolos, direcionar_protocolo. *)

\* Wrong on purpose: the presence is read and not locked.
LockDeskRead(t) ==
    LET a == th[t].user IN
    /\ th[t].pc = "desk"
    /\ Run(t, [th[t] EXCEPT !.pc = IF SeenOnline(t, a) THEN "count" ELSE "commit"])
    /\ UNCHANGED <<rows, presence, held, users, desk, stale>>

\* The auditor's presence row is locked until the end.
LockDesk(t) ==
    LET a == th[t].user IN
    /\ th[t].pc = "desk"
    /\ desk[th[t].queue][a] \in {None, t}
    /\ desk' = [desk EXCEPT ![th[t].queue][a] = t]
    /\ Run(t, [th[t] EXCEPT !.pc = IF SeenOnline(t, a) THEN "count" ELSE "commit"])
    /\ UNCHANGED <<rows, presence, held, users, stale>>

Count(t) ==
    /\ th[t].pc = "count"
    /\ Run(t, [th[t] EXCEPT !.pc = IF Active(t, th[t].user) = {} THEN "pick" ELSE "commit"])
    /\ UNCHANGED <<rows, presence, held, users, desk, stale>>

\* A protocol of the general queue; one he let run out lately is not for him.
Pick(t) ==
    /\ th[t].pc = "pick"
    /\ \/ \E r \in General(t) : Run(t, [th[t] EXCEPT !.pc = "assign", !.row = r])
       \/ Run(t, [th[t] EXCEPT !.pc = "commit"])
    /\ UNCHANGED <<rows, presence, held, users, desk, stale>>

\* A distribution locks the presence of all who are online.
Invite(t) ==
    LET online == {a \in Auditor : SeenOnline(t, a)}
    IN  /\ th[t].pc = "invite"
        /\ Run(t, [th[t] EXCEPT !.pc = IF online = {} THEN "commit" ELSE "seat",
                                !.owed = online])
        /\ UNCHANGED <<rows, presence, held, users, desk, stale>>

Seat(t) == \E a \in th[t].owed :
    /\ th[t].pc = "seat"
    /\ desk[th[t].queue][a] \in {None, t}
    /\ desk' = [desk EXCEPT ![th[t].queue][a] = t]
    /\ Run(t, [th[t] EXCEPT !.owed = @ \ {a},
                            !.asked = IF SeenOnline(t, a) THEN @ \cup {a} ELSE @])
    /\ UNCHANGED <<rows, presence, held, users, stale>>

\* Those of them who have nothing, and a seed of every protocol that is free.
Load(t) ==
    LET eligible == {a \in th[t].asked : Active(t, a) = {}}
    IN  /\ th[t].pc = "seat" /\ th[t].owed = {}
        /\ Run(t, IF eligible = {} \/ General(t) = {}
                  THEN [th[t] EXCEPT !.pc = "commit", !.asked = {}]
                  ELSE [th[t] EXCEPT !.pc = "deal", !.asked = eligible, !.drain = General(t)])
        /\ UNCHANGED <<rows, presence, held, users, desk, stale>>

\* Each protocol goes to one of them who is not kept from it; the limit may end this.
Deal(t) ==
    /\ th[t].pc = "deal"
    /\ \/ \E r \in th[t].drain, a \in th[t].asked :
             Run(t, [th[t] EXCEPT !.pc = "assign", !.user = a, !.row = r,
                       !.drain = @ \ InGroup(@, ProtocolOf[r]), !.asked = @ \ {a}])
       \/ Run(t, [th[t] EXCEPT !.pc = "commit", !.drain = {}, !.asked = {}])
    /\ UNCHANGED <<rows, presence, held, users, desk, stale>>

\* direcionar_protocolo waits for the row and counts what else the auditor has.
Aim(t) ==
    LET r == th[t].row
        a == th[t].user
        others == Protocols(Active(t, a)) \ {ProtocolOf[r]}
        new == Seen(t, r).auditor # a
    IN  /\ th[t].pc = "aim"
        /\ IF r \in Pending(t) /\ ~(new /\ Cardinality(others) >= 2)
           THEN /\ Free(t, r)
                /\ Lock(t, r)
                /\ Run(t, [th[t] EXCEPT !.pc = "assign", !.origin = "directed",
                             !.clock = IF new /\ others # {} THEN "none" ELSE "running"])
                /\ UNCHANGED <<users, desk>>
           ELSE End(t)
        /\ UNCHANGED <<rows, presence, stale>>

\* Wrong on purpose: the auditor of the expiry before instead of the claim's.
AssignedToLast(t) ==
    [status |-> "waiting", auditor |-> th[t].who, origin |-> th[t].origin,
     clock |-> th[t].clock]

Assigned(t) ==
    [status |-> "waiting", auditor |-> th[t].user, origin |-> th[t].origin,
     clock |-> th[t].clock]

AfterAssign(op) ==
    CASE op = "claim" -> "commit" [] op = "distribute" -> "deal" [] OTHER -> "mark"

\* _assign_protocolo_group: all rows of the protocol that are not concluded, those
\* locked by others excepted; if they all are, the seed once it is free.
Assign(t) ==
    LET group == {s \in Siblings(t, th[t].row) : Free(t, s)}
    IN  /\ th[t].pc = "assign"
        /\ Put(t, group, Assigned(t))
        /\ Run(t, [th[t] EXCEPT !.pc = IF group = {} THEN "seed" ELSE AfterAssign(th[t].op)])
        /\ UNCHANGED <<rows, presence, users, desk, stale>>

\* Wrong on purpose: the seed is taken as it was picked.
AssignSeedBlind(t) ==
    /\ th[t].pc = "seed"
    /\ Free(t, th[t].row)
    /\ Put(t, {th[t].row}, Assigned(t))
    /\ Run(t, [th[t] EXCEPT !.pc = AfterAssign(th[t].op)])
    /\ UNCHANGED <<rows, presence, users, desk, stale>>

AssignSeed(t) ==
    LET r == th[t].row
    IN  /\ th[t].pc = "seed"
        /\ \/ /\ r \in Pending(t) /\ Free(t, r)
              /\ Put(t, {r}, Assigned(t))
              /\ Run(t, [th[t] EXCEPT !.pc = AfterAssign(th[t].op)])
              /\ UNCHANGED <<users, desk>>
           \/ /\ r \notin Pending(t) /\ th[t].op = "claim"
              /\ Run(t, [th[t] EXCEPT !.pc = "commit"])
              /\ UNCHANGED <<held, users, desk>>
           \/ r \notin Pending(t) /\ th[t].op # "claim" /\ End(t)
        /\ UNCHANGED <<rows, presence, stale>>

\* The end of _assign_falha: last_assigned_at in the presence row.
Mark(t) ==
    LET a == th[t].user IN
    /\ th[t].pc = "mark"
    /\ desk[th[t].queue][a] \in {None, t}
    /\ desk' = [desk EXCEPT ![th[t].queue][a] = t]
    /\ Run(t, [th[t] EXCEPT !.pc = "commit"])
    /\ UNCHANGED <<rows, presence, held, users, stale>>

-----------------------------------------------------------------------------
(* The ends of a transaction. *)

Commit(t) ==
    LET q == th[t].queue IN
    /\ th[t].pc = "commit"
    /\ rows' = [r \in Row |-> Seen(t, r)]
    /\ presence' = [presence EXCEPT ![q] = [a \in Auditor |->
                      IF a \in th[t].left THEN "away"
                      ELSE IF th[t].act = "online" /\ a = th[t].who THEN "online"
                      ELSE @[a]]]
    /\ End(t)
    /\ UNCHANGED stale

\* update_reinspecao_falha: the whole row is saved from the copy the view read; a
\* row that was deleted meanwhile is inserted again.
Save(t) ==
    LET r == th[t].row IN
    /\ th[t].pc = "save"
    /\ Free(t, r)
    /\ rows' = [rows EXCEPT ![r] = th[t].copy]
    /\ stale' = IF rows[r] = th[t].copy THEN stale ELSE stale \cup {r}
    /\ End(t)
    /\ UNCHANGED presence

Step(t) ==
    \/ Survey(t) \/ Seize(t) \/ Ask(t)
    \/ List(t) \/ Grab(t) \/ Activate(t) \/ Quit(t) \/ Remove(t) \/ Finish(t)
    \/ LockUser(t) \/ SetStatus(t)
    \/ LockDesk(t) \/ Count(t) \/ Pick(t) \/ Invite(t) \/ Seat(t) \/ Load(t) \/ Deal(t)
    \/ Aim(t) \/ Assign(t) \/ AssignSeed(t) \/ Mark(t) \/ Commit(t) \/ Save(t)

\* Threads t waits for.
Waits(t) == {u \in Thread \ {t} :
    \/ th[t].pc = "grab" /\ \E r \in th[t].drain : held[u][r] # None
    \/ th[t].pc \in {"aim", "seed", "save"} /\ held[u][th[t].row] # None
    \/ th[t].pc = "user" /\ users[th[t].who] = u
    \/ th[t].pc = "status" /\ desk[th[t].queue][th[t].who] = u
    \/ th[t].pc \in {"desk", "mark"} /\ desk[th[t].queue][th[t].user] = u
    \/ th[t].pc = "seat" /\ \E a \in th[t].owed : desk[th[t].queue][a] = u}

Deadlocked(t) == \E C \in SUBSET Thread :
    t \in C /\ \A u \in C : Waits(u) \cap C # {}

\* The database ends one transaction of a cycle of waits, or a server dies.
Rollback(t) ==
    /\ th[t].pc # "idle"
    /\ End(t)
    /\ UNCHANGED <<rows, presence, stale>>

Victim(t) == Deadlocked(t) /\ Rollback(t)

\* A death that loses nothing is no different from a call that has not been made.
Crash(t) ==
    /\ \E r \in Row : held[t][r] # None
    /\ th[t].pc # "commit"
    /\ ~Deadlocked(t)
    /\ Rollback(t)

-----------------------------------------------------------------------------
(* The operations. *)

Begin(pc, op, q) ==
    [Idle EXCEPT !.pc = pc, !.op = op, !.queue = q,
                 !.origin = IF op \in {"claim", "distribute"} THEN "auto" ELSE "none"]

\* Each begins in a thread that is idle.
Calls(t, me) ==
    /\ th[t].pc = "idle"
    /\ Run(t, me)
    /\ UNCHANGED <<rows, presence, users, desk, stale>>

\* list_minha_fila and list_auditor_fila
Sweep(t, q) == Calls(t, Begin("expire", "sweep", q)) /\ UNCHANGED held

Claim(t, q, a) ==
    /\ Calls(t, [Begin("expire", "claim", q) EXCEPT !.user = a])
    /\ UNCHANGED held

Distribute(t, q) == Calls(t, Begin("expire", "distribute", q)) /\ UNCHANGED held

\* An import creates rows and distributes in the same transaction.
Import(t, r) ==
    /\ Calls(t, Begin("expire", "distribute", RowQueue(r)))
    /\ rows[r].status = "absent" /\ \A u \in Thread : held[u][r] = None
    /\ Put(t, {r}, Loose("free"))

Direct(t, a, r) ==
    /\ rows[r].status \in ANALISE_ATIVA \cup {"free"}
    /\ Calls(t, [Begin("expire", "direct", RowQueue(r)) EXCEPT !.user = a, !.row = r])
    /\ UNCHANGED held

SetAuditorStatus(t, q, a, act) ==
    /\ Calls(t, [Begin("user", "status", q) EXCEPT !.who = a, !.act = act])
    /\ UNCHANGED held

\* remover_protocolo_direcionado and concluir_analise lock the row they are for
\* first, then all the rows of its auditor that they need.
OnRow(t, r, act) ==
    LET a == rows[r].auditor
        q == RowQueue(r)
        mine == {s \in Row : /\ RowQueue(s) = q /\ rows[s].auditor = a
                             /\ act = "finish" => ProtocolOf[s] = ProtocolOf[r]}
    IN  /\ rows[r].status \in ANALISE_ATIVA
        /\ Free(t, r)
        /\ Calls(t, [Begin("grab", act, q) EXCEPT !.who = a, !.row = r, !.act = act,
                                                     !.drain = mine \ {r}])
        /\ Lock(t, r)

RemoveByControl(t, q, a) ==
    /\ Calls(t, [Begin("list", "remove", q) EXCEPT !.who = a, !.act = "remove"])
    /\ UNCHANGED held

PatchRead(t, r) ==
    /\ rows[r].status \notin {"absent", "gone"}
    /\ Calls(t, [Begin("save", "patch", RowQueue(r)) EXCEPT !.row = r,
                                                               !.copy = rows[r]])
    /\ UNCHANGED held

\* The queues that have protocols; in others these operations find nothing to do.
Stocked == {QueueOf[p] : p \in Protocol}

Call(t) ==
    \/ \E q \in Stocked : Sweep(t, q) \/ Distribute(t, q)
    \/ \E q \in Stocked, a \in Auditor : Claim(t, q, a) \/ RemoveByControl(t, q, a)
    \/ \E q \in Queue, a \in Auditor, act \in {"online", "quit"} :
          SetAuditorStatus(t, q, a, act)
    \/ \E r \in Row :
          \/ Import(t, r) \/ PatchRead(t, r)
          \/ \E act \in {"return", "finish"} : OnRow(t, r, act)
          \/ \E a \in Auditor : Direct(t, a, r)

\* Transactions on one row that nobody has locked are one step.
Change(r, row) ==
    /\ \A t \in Thread : held[t][r] = None
    /\ rows' = [rows EXCEPT ![r] = row]
    /\ UNCHANGED <<presence, held, users, desk, th, stale>>

IniciarAnalise(r) ==
    /\ rows[r].status \in ANALISE_ATIVA
    /\ Change(r, [rows[r] EXCEPT !.status = "working", !.clock = "running"])

Delete(r) ==
    /\ rows[r].status \notin {"absent", "gone"}
    /\ Change(r, Loose("gone"))

\* Five minutes have passed.
Tick(r) ==
    /\ rows[r].clock = "running"
    /\ Change(r, [rows[r] EXCEPT !.clock = "over"])

Next ==
    \/ \E t \in Thread : Step(t) \/ Victim(t) \/ Crash(t) \/ Call(t)
    \/ \E r \in Row : IniciarAnalise(r) \/ Delete(r) \/ Tick(r)

Spec == Init /\ [][Next]_vars

\* Threads run on and the database ends deadlocks; time passes; panels are open and
\* poll, so that sweeps go on beginning.
FairSpec ==
    /\ Spec
    /\ \A t \in Thread : SF_vars(Step(t)) /\ WF_vars(Victim(t))
    /\ \A r \in Row : WF_vars(Tick(r))
    /\ \A q \in Stocked : SF_vars(\E t \in Thread : Sweep(t, q))
=============================================================================
