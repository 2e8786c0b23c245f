---------------------------- MODULE AuditProperties ----------------------------
(***************************************************************************)
(* What is expected of the two audit queues.                               *)
(***************************************************************************)
EXTENDS AuditQueue

\* What a row may be: nobody's, or somebody's who was given it by the queue ("auto")
\* or by a direction ("directed").
RowForm ==
    [status : {"absent", "free", "gone"}, auditor : {None}, origin : {"none"},
     clock : {"none"}]
    \cup [status : ANALISE_ATIVA, auditor : Auditor, origin : {"auto", "directed"},
          clock : {"none", "running", "over"}]

ASSUME AuditRows == None \notin RowForm

Point == {"idle", "expire", "seize", "ask", "list", "grab", "user", "status", "desk",
          "count", "pick", "invite", "seat", "deal", "aim", "assign", "seed", "mark",
          "commit", "save"}

Variables ==
    [pc : Point,
     op : {"none", "sweep", "claim", "distribute", "direct", "status", "return",
           "finish", "remove", "patch"},
     queue : Queue \cup {None}, user : Auditor \cup {None},
     who : Auditor \cup {None}, row : Row \cup {None},
     act : {"none", "activate", "quit", "return", "remove", "finish", "online"},
     origin : {"none", "auto", "directed"}, clock : {"none", "running"},
     drain : SUBSET Row, owed : SUBSET Auditor, asked : SUBSET Auditor,
     left : SUBSET Auditor, copy : RowForm \cup {None}]

\* Type correctness: a row that is nobody's has no auditor, origin or clock, and so in
\* what transactions are about to commit and in the copy a patch has read.
TypeOK ==
    /\ rows \in [Row -> RowForm]
    /\ presence \in [Queue -> [Auditor -> {"online", "away"}]]
    /\ held \in [Thread -> [Row -> RowForm \cup {None}]]
    /\ users \in [Auditor -> Thread \cup {None}]
    /\ desk \in [Queue -> [Auditor -> Thread \cup {None}]]
    /\ th \in [Thread -> Variables]
    /\ stale \subseteq Row

\* assert_can_go_online: nobody is online in both queues, whose presences are in
\* different tables, however two requests of his meet.
OnlineOnce ==
    \A a \in Auditor, p, q \in Queue :
        presence[p][a] = "online" /\ presence[q][a] = "online" => p = q

\* What claim_next_for_auditor and distribuir_protocolos hand out is with somebody who
\* is online: one who goes away, or is sent away by an expiry, leaves nothing of it
\* behind, although it may be handed to him at that moment.  A row that a patch wrote
\* from a copy out of date is left out.
AutoWhileOnline ==
    \A r \in Row \ stale :
        rows[r].origin = "auto" => presence[RowQueue(r)][rows[r].auditor] = "online"

\* What concluir_analise promoted, or was deleted, is not brought back by whoever picked
\* the row before, other than by such a patch.
ConcludedStays == [][\A r \in Row :
    rows[r].status = "gone" /\ r \notin stale' => rows'[r] = rows[r]]_vars

\* expire_stale_fila_assignments: a protocol that is out of time goes back, or is
\* concluded, however its rows are skipped and transactions rolled back, once only
\* polls, claims and distributions go on and servers stop dying.
OverdueReleased ==
    /\ <>[](\A t \in Thread : th[t].op \in {"none", "sweep", "claim", "distribute"})
    /\ <>[][\A t \in Thread : ~Crash(t)]_vars
    /\ <>[][\A r \in Row : ~IniciarAnalise(r)]_vars
    => \A r \in Row : rows[r].clock = "over" ~> rows[r].clock # "over"
=============================================================================
