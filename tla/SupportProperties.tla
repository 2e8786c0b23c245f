---------------------------- MODULE SupportProperties ----------------------------
(***************************************************************************)
(* What is expected of the online support queue.                           *)
(***************************************************************************)
EXTENDS SupportQueue

\* What a row may be: outside the personal queues, an offer or an accepted request
\* on place 1, a directed request that waits on place 2.
Row ==
    [status : Outside \cup Final, agent : {None}, slot : {0}, sla : {"none"},
     prio : BOOLEAN]
    \cup [status : {"analysis"}, agent : Agent, slot : {1},
          sla : {"none", "running", "expired"}, prio : {FALSE}]
    \cup [status : {"analysis"}, agent : Agent, slot : {2}, sla : {"none"},
          prio : {FALSE}]

Point == {"idle", "expire", "promote", "gather", "look", "count", "pick", "take",
          "mark", "list", "release", "commit"}

Variables ==
    [pc : Point,
     op : {"none", "sweep", "claim", "direct", "online", "away", "answer", "approve",
           "accept"},
     user : Agent \cup {None}, req : Req \cup {None}, slot : 0 .. 2,
     checks : BOOLEAN, owed : SUBSET Agent, asked : SUBSET Agent,
     claims : SUBSET Agent, drain : SUBSET Req]

\* Type correctness: a request on place 2 never has a running offer, one outside the
\* personal queues has no agent, and so in what transactions are about to commit.
TypeOK ==
    /\ rows \in [Req -> Row]
    /\ presence \in [Agent -> {"online", "away"}]
    /\ held \in [Thread -> [Req -> Row \cup {None}]]
    /\ desk \in [Agent -> Thread \cup {None}]
    /\ th \in [Thread -> Variables]

Accepted(row) == row.status = "analysis" /\ row.slot = 1 /\ row.sla = "none"

\* A request somebody has accepted (assumir_protocolo) is taken from him by no
\* timeout, claim, direction or clean-up of somebody else: it stays his until it is
\* answered, or until he himself leaves (set_agent_status).
AcceptedStays == [][\A r \in Req :
    Accepted(rows[r]) =>
        \/ rows'[r] = rows[r]
        \/ rows'[r].status = "answered"
        \/ rows'[r].status = "pending" /\ presence'[rows[r].agent] = "away"]_vars

\* FINAL_STATUSES: what is answered, cancelled or rejected is never reopened by a
\* transaction that chose the request before it was closed.
FinalStays == [][\A r \in Req :
    rows[r].status \in Final => rows'[r] = rows[r]]_vars

\* expire_stale_assignments: an offer that ran out is taken back, or answered, however
\* rows are skipped and transactions rolled back, once agents stop leaving and
\* servers stop dying.
OverdueServed ==
    /\ <>[](\A t \in Thread : th[t].op # "away")
    /\ <>[][\A t \in Thread : ~Crash(t)]_vars
    => \A r \in Req : rows[r].sla = "expired" ~> rows[r].sla # "expired"
=============================================================================
