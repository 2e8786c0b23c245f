------------------------------ MODULE SupportQueue ------------------------------
(***************************************************************************)
(* The online queue of the operational support: fila_online.py with the    *)
(* handlers of workflow.py that change its rows.  Requests wait in one     *)
(* general queue; each support agent has a place 1, whose offer times out  *)
(* until it is accepted, and a place 2 for a directed request.  Handlers   *)
(* are transactions of a READ COMMITTED database: a thread reads what is   *)
(* committed, or what it wrote itself, locks the rows it writes until its  *)
(* transaction ends, and looks again at a row it had to wait for.          *)
(***************************************************************************)
EXTENDS Naturals, FiniteSets

CONSTANTS
    Req,      \* support requests
    Agent,    \* support agents
    Thread,   \* threads of the web server
    None,
    Named     \* may a direction name its request, may it leave it out

ASSUME SupportActors == None \notin Req \cup Agent \cup Thread
ASSUME NamedIsChoice == Named \subseteq BOOLEAN

VARIABLES
    rows,      \* the committed table of OperationalSupportRequest
    presence,  \* the committed OperationalSupportAgentPresence
    held,      \* rows each thread has locked, as it will commit them
    desk,      \* the thread that has locked the presence row of each agent
    th         \* each thread's point in its transaction and its variables

vars == <<rows, presence, held, desk, th>>

Outside == {"absent", "leader", "pending"}
Final == {"answered", "cancelled", "rejected"}

\* _clear_queue_fields, with the status a request then has.
Unassigned(status) ==
    [status |-> status, agent |-> None, slot |-> 0, sla |-> "none", prio |-> FALSE]

Offered(a, slot) ==
    [status |-> "analysis", agent |-> a, slot |-> slot,
     sla |-> IF slot = 1 THEN "running" ELSE "none", prio |-> FALSE]

Idle == [pc |-> "idle", op |-> "none", user |-> None, req |-> None,
         slot |-> 0, checks |-> TRUE, owed |-> {}, asked |-> {},
         claims |-> {}, drain |-> {}]

\* A transaction of kind op that begins at point p.
Begun(p, op) == [Idle EXCEPT !.pc = p, !.op = op]

Init ==
    /\ rows = [r \in Req |-> Unassigned("absent")]
    /\ presence = [a \in Agent |-> "away"]
    /\ held = [t \in Thread |-> [r \in Req |-> None]]
    /\ desk = [a \in Agent |-> None]
    /\ th = [t \in Thread |-> Idle]

-----------------------------------------------------------------------------
\* What thread t sees of row r, and whether it may lock it.
Seen(t, r) == IF held[t][r] # None THEN held[t][r] ELSE rows[r]
Free(t, r) == \A u \in Thread \ {t} : held[u][r] = None

Active(t, a) ==
    {r \in Req : Seen(t, r).status = "analysis" /\ Seen(t, r).agent = a}
Waiting(t, a) == {r \in Active(t, a) : Seen(t, r).slot = 2}
General(t) == {r \in Req : Seen(t, r).status = "pending"}

\* rank_online_queue_requests: a prioritised request first; any may rank next.
First(t) ==
    {r \in General(t) : \A q \in General(t) : Seen(t, q).prio => Seen(t, r).prio}

Write(t, r, row) == held' = [held EXCEPT ![t][r] = row]
Run(t, next) == th' = [th EXCEPT ![t] = next]

\* The locks of t are released and its variables forgotten.
End(t) ==
    /\ held' = [held EXCEPT ![t] = [r \in Req |-> None]]
    /\ desk' = [a \in Agent |-> IF desk[a] = t THEN None ELSE desk[a]]
    /\ Run(t, Idle)

-----------------------------------------------------------------------------
(* The steps the transactions are made of. *)

\* Where a transaction goes on once it has released offers: to the places it
\* owes a promotion, then to the claim it makes for a user, or to its next claims.
After(me) ==
    IF me.owed # {} THEN "promote" ELSE IF me.user # None THEN "look" ELSE "gather"

\* The next claim_next_for_agent of this transaction, or its end.
Turn(t, me, claims) ==
    \/ /\ claims = {}
       /\ Run(t, [me EXCEPT !.pc = "commit"])
    \/ \E a \in claims :
          Run(t, [me EXCEPT !.pc = "expire", !.user = a, !.slot = 1,
                            !.req = None, !.claims = claims \ {a}])

\* Wrong on purpose: "not offered within the last minute", which an accepted
\* request, whose start is null, is not either.
OverdueOrAccepted(t) ==
    {r \in Req : Free(t, r) /\ Seen(t, r).status = "analysis"
                            /\ Seen(t, r).slot = 1 /\ Seen(t, r).sla # "running"}

\* Wrong on purpose: only the offers of agents who are online.
OverdueOnline(t) ==
    {r \in Req : Free(t, r) /\ Seen(t, r).status = "analysis"
                            /\ Seen(t, r).slot = 1 /\ Seen(t, r).sla = "expired"
                            /\ presence[Seen(t, r).agent] = "online"}

\* The offers that ran out and that nobody else has locked.
Overdue(t) ==
    {r \in Req : Free(t, r) /\ Seen(t, r).status = "analysis"
                            /\ Seen(t, r).slot = 1 /\ Seen(t, r).sla = "expired"}

\* expire_stale_assignments: rows that others have locked are skipped.
Expire(t) ==
    /\ th[t].pc = "expire"
    /\ held' = [held EXCEPT ![t] = [r \in Req |->
                  IF r \in Overdue(t) THEN Unassigned("pending") ELSE @[r]]]
    /\ LET me == [th[t] EXCEPT !.owed = {Seen(t, r).agent : r \in Overdue(t)}]
       IN  Run(t, [me EXCEPT !.pc = After(me)])
    /\ UNCHANGED <<rows, presence, desk>>

\* Wrong on purpose: the offer begins, the request keeps its place 2.
PromoteInPlace(t) == \E a \in th[t].owed :
    LET me == [th[t] EXCEPT !.owed = @ \ {a}] IN
    /\ th[t].pc = "promote"
    /\ \/ Waiting(t, a) = {} /\ UNCHANGED held
       \/ \E r \in Waiting(t, a) :
             Free(t, r) /\ Write(t, r, [Seen(t, r) EXCEPT !.sla = "running"])
    /\ Run(t, [me EXCEPT !.pc = After(me)])
    /\ UNCHANGED <<rows, presence, desk>>

\* _activate_slot_two for one of the agents; it waits for a row that is locked.
Promote(t) == \E a \in th[t].owed :
    LET me == [th[t] EXCEPT !.owed = @ \ {a}] IN
    /\ th[t].pc = "promote"
    /\ \/ Waiting(t, a) = {} /\ UNCHANGED held
       \/ \E r \in Waiting(t, a) : Free(t, r) /\ Write(t, r, Offered(a, 1))
    /\ Run(t, [me EXCEPT !.pc = After(me)])
    /\ UNCHANGED <<rows, presence, desk>>

\* Of the agents it was asked to serve, those it reads to be online.
Gather(t) ==
    /\ th[t].pc = "gather"
    /\ Turn(t, [th[t] EXCEPT !.asked = {}],
               {a \in th[t].asked : presence[a] = "online"})
    /\ UNCHANGED <<rows, presence, held, desk>>

\* claim_next_for_agent: is the user online, has he room, what is next?
Look(t) ==
    /\ th[t].pc = "look"
    /\ IF presence[th[t].user] = "online"
       THEN Run(t, [th[t] EXCEPT !.pc = "count"])
       ELSE Turn(t, th[t], th[t].claims)
    /\ UNCHANGED <<rows, presence, held, desk>>

Count(t) ==
    /\ th[t].pc = "count"
    /\ IF Active(t, th[t].user) = {}
       THEN Run(t, [th[t] EXCEPT !.pc = "pick"])
       ELSE Turn(t, th[t], th[t].claims)
    /\ UNCHANGED <<rows, presence, held, desk>>

\* No request is to be had: a direction is an error, a claim ends without one.
Miss(t) ==
    IF th[t].op = "direct"
    THEN End(t)
    ELSE Turn(t, th[t], th[t].claims) /\ UNCHANGED <<held, desk>>

\* _next_unassigned.
Pick(t) ==
    /\ th[t].pc = "pick"
    /\ \/ /\ \E r \in First(t) : Run(t, [th[t] EXCEPT !.pc = "take", !.req = r])
          /\ UNCHANGED <<held, desk>>
       \/ General(t) = {} /\ Miss(t)
    /\ UNCHANGED <<rows, presence>>

\* Wrong on purpose: the row is not looked at again.
AvailableWhenPicked(t, r) == TRUE

\* The row once locked: still to be had?  A direction that names no request
\* does not ask.
Available(t, r) == r \in General(t) \/ ~th[t].checks

\* Lock the request and assign it, or find that it is gone.
Take(t) ==
    LET r == th[t].req IN
    /\ th[t].pc = "take"
    /\ IF Available(t, r)
       THEN /\ Free(t, r)
            /\ Write(t, r, Offered(th[t].user, th[t].slot))
            /\ Run(t, [th[t] EXCEPT !.pc = "mark"])
            /\ UNCHANGED desk
       ELSE Miss(t)
    /\ UNCHANGED <<rows, presence>>

\* The end of _assign_to_agent: last_assigned_at in the presence row.
Mark(t) ==
    LET a == th[t].user IN
    /\ th[t].pc = "mark"
    /\ desk[a] \in {None, t}
    /\ desk' = [desk EXCEPT ![a] = t]
    /\ Turn(t, th[t], th[t].claims)
    /\ UNCHANGED <<rows, presence, held>>

\* release_agent_active_queue: the rows its statement finds, then one by one
\* in the order of their places, each looked at again once it is locked.
List(t) ==
    /\ th[t].pc = "list"
    /\ LET found == Active(t, th[t].user) IN
       Run(t, [th[t] EXCEPT !.drain = found,
                            !.pc = IF found = {} THEN "commit" ELSE "release"])
    /\ UNCHANGED <<rows, presence, held, desk>>

Release(t) == \E r \in th[t].drain :
    LET rest == th[t].drain \ {r} IN
    /\ th[t].pc = "release"
    /\ Free(t, r)
    /\ \A q \in rest : Seen(t, q).slot = 1 => Seen(t, r).slot # 2
    /\ IF r \in Active(t, th[t].user)
       THEN Write(t, r, Unassigned("pending"))
       ELSE UNCHANGED held
    /\ Run(t, [th[t] EXCEPT !.drain = rest,
                            !.pc = IF rest = {} THEN "commit" ELSE "release"])
    /\ UNCHANGED <<rows, presence, desk>>

Commit(t) ==
    /\ th[t].pc = "commit"
    /\ rows' = [r \in Req |-> Seen(t, r)]
    /\ presence' = IF th[t].op \in {"online", "away"}
                   THEN [presence EXCEPT ![th[t].user] = th[t].op]
                   ELSE presence
    /\ End(t)

Step(t) ==
    \/ Expire(t) \/ Promote(t) \/ Gather(t) \/ Look(t) \/ Count(t) \/ Pick(t)
    \/ Take(t) \/ Mark(t) \/ List(t) \/ Release(t) \/ Commit(t)

-----------------------------------------------------------------------------
(* Transactions that are rolled back. *)

\* Threads t waits for.
Waits(t) == {u \in Thread \ {t} :
    \/ th[t].pc = "promote" /\ \E a \in th[t].owed :
          \E r \in Waiting(t, a) : held[u][r] # None
    \/ /\ th[t].pc = "take" /\ Available(t, th[t].req)
       /\ held[u][th[t].req] # None
    \/ th[t].pc = "mark" /\ desk[th[t].user] = u
    \/ th[t].pc = "release" /\ \E r \in th[t].drain : held[u][r] # None}

Deadlocked(t) == \E C \in SUBSET Thread :
    t \in C /\ \A u \in C : Waits(u) \cap C # {}

Rollback(t) == th[t].pc # "idle" /\ End(t) /\ UNCHANGED <<rows, presence>>

\* The database ends one transaction of a cycle of waits.
Victim(t) == Deadlocked(t) /\ Rollback(t)

\* The server process dies with what its thread has written.  A death that loses
\* nothing is no different from a call that has not been made, and one at the
\* commit no different from one a step earlier.
Crash(t) ==
    /\ th[t].pc # "commit"
    /\ \E r \in Req : held[t][r] # None
    /\ ~Deadlocked(t)
    /\ Rollback(t)

-----------------------------------------------------------------------------
(* The operations. *)

Begin(t, next) ==
    /\ th[t].pc = "idle"
    /\ Run(t, next)

\* list_minha_fila and build_controle_operacoes begin with it.
Sweep(t) ==
    /\ Begin(t, Begun("expire", "sweep"))
    /\ UNCHANGED <<rows, presence, held, desk>>

Claim(t, a) ==
    /\ Begin(t, [Begun("expire", "claim") EXCEPT !.user = a, !.slot = 1])
    /\ UNCHANGED <<rows, presence, held, desk>>

\* direcionar_solicitacao, of request r or of whatever is next.
Direct(t, a, r, named) ==
    /\ Cardinality(Active(t, a)) < 2
    /\ Begin(t, [Begun(IF named THEN "take" ELSE "pick", "direct") EXCEPT
                !.user = a, !.slot = IF Active(t, a) = {} THEN 1 ELSE 2,
                !.req = IF named THEN r ELSE None, !.checks = named])
    /\ UNCHANGED <<rows, presence, held, desk>>

\* set_agent_status: "away" is offline or presencial.
SetAgentStatus(t, a, status) ==
    /\ desk[a] = None
    /\ Begin(t, [Begun(IF status = "away" THEN "list" ELSE "commit", status)
                             EXCEPT !.user = a])
    /\ desk' = [desk EXCEPT ![a] = t]
    /\ UNCHANGED <<rows, presence, held>>

\* answer_request, up to on_answer_completed.
Answer(t, r) ==
    LET a == rows[r].agent IN
    /\ Free(t, r)
    /\ rows[r].status = "analysis"
    /\ Write(t, r, Unassigned("answered"))
    /\ Begin(t, [Begun("promote", "answer") EXCEPT !.owed = {a}, !.asked = {a}])
    /\ UNCHANGED <<rows, presence, desk>>

\* leader_decision, approved: the request is sent to whoever is online.
Approve(t, r) ==
    /\ Free(t, r)
    /\ rows[r].status = "leader"
    /\ Write(t, r, Unassigned("pending"))
    /\ Begin(t, [Begun("expire", "approve") EXCEPT !.asked = Agent])
    /\ UNCHANGED <<rows, presence, desk>>

\* assumir_protocolo of an offer whose time is over.
AcceptLate(t, r) ==
    /\ Free(t, r)
    /\ rows[r].status = "analysis" /\ rows[r].slot = 1 /\ rows[r].sla = "expired"
    /\ Write(t, r, Unassigned("pending"))
    /\ Begin(t, [Begun("promote", "accept") EXCEPT !.owed = {rows[r].agent}])
    /\ UNCHANGED <<rows, presence, desk>>

\* Transactions on one row that nobody has locked are one step.
Change(r, from, row) ==
    /\ \A t \in Thread : held[t][r] = None
    /\ from
    /\ rows' = [rows EXCEPT ![r] = row]
    /\ UNCHANGED <<presence, held, desk, th>>

AcceptInTime(r) ==
    Change(r, rows[r].status = "analysis" /\ rows[r].slot = 1
                                                    /\ rows[r].sla = "running",
           [rows[r] EXCEPT !.sla = "none"])

Create(r) == \E status \in {"leader", "pending"} :
    Change(r, rows[r].status = "absent", Unassigned(status))

Reject(r) ==
    Change(r, rows[r].status = "leader", Unassigned("rejected"))

Cancel(r) ==
    Change(r, rows[r].status \in {"leader", "pending"}, Unassigned("cancelled"))

Prioritise(r) ==
    Change(r, rows[r].status = "pending", [rows[r] EXCEPT !.prio = TRUE])

RemoveDirected(r) ==
    Change(r, rows[r].status = "analysis" /\ rows[r].slot = 2,
           Unassigned("pending"))

\* A minute passes since the offer.
Tick(r) ==
    /\ \A t \in Thread : held[t][r] = None
    /\ rows[r].sla = "running"
    /\ rows' = [rows EXCEPT ![r].sla = "expired"]
    /\ UNCHANGED <<presence, held, desk, th>>

Call(t) ==
    \/ Sweep(t)
    \/ \E a \in Agent :
          \/ Claim(t, a)
          \/ \E r \in Req, named \in Named : Direct(t, a, r, named)
          \/ \E status \in {"online", "away"} : SetAgentStatus(t, a, status)
    \/ \E r \in Req : Answer(t, r) \/ Approve(t, r) \/ AcceptLate(t, r)

Serve(r) ==
    \/ AcceptInTime(r) \/ Create(r) \/ Reject(r) \/ Cancel(r)
    \/ Prioritise(r) \/ RemoveDirected(r)

Next ==
    \/ \E t \in Thread : Step(t) \/ Victim(t) \/ Crash(t) \/ Call(t)
    \/ \E r \in Req : Serve(r) \/ Tick(r)

Spec == Init /\ [][Next]_vars

\* Threads run on and the database ends deadlocks; time passes; agents have the
\* panel open, which polls, so that sweeps go on beginning.
FairSpec ==
    /\ Spec
    /\ \A t \in Thread : SF_vars(Step(t)) /\ WF_vars(Victim(t))
    /\ \A r \in Req : WF_vars(Tick(r))
    /\ SF_vars(\E t \in Thread : Sweep(t))
=============================================================================
