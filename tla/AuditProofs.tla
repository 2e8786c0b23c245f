------------------------------ MODULE AuditProofs ------------------------------
(***************************************************************************)
(* Proofs of the audit queues, for any number of rows, protocols, queues,  *)
(* auditors and threads.                                                   *)
(***************************************************************************)
EXTENDS AuditProperties, TLAPS

\* The operations that begin with an expiry.
Expiring == {"sweep", "claim", "distribute", "direct"}

\* The variables of a transaction fit the point it is at.
Fits(me) ==
    /\ me.pc # "idle" => me.queue \in Queue
    /\ me.pc \in {"ask", "list", "grab", "user", "status"} => me.who \in Auditor
    /\ me.pc \in {"user", "status"} => me.act \in {"quit", "online"}
    /\ me.act = "online" => me.pc \in {"user", "status", "commit"} /\ me.who \in Auditor
    /\ me.act \in {"return", "finish"} => me.row \in Row
    /\ me.op = "claim" => me.user \in Auditor
    /\ me.op = "direct" => me.user \in Auditor /\ me.row \in Row
    /\ me.op \in {"claim", "distribute"} <=> me.origin = "auto"
    /\ me.pc \in {"expire", "seize", "ask"} \/ me.owed # {} => me.op \in Expiring
    /\ me.pc \in {"desk", "count", "pick"} => me.op = "claim"
    /\ me.pc \in {"invite", "seat", "deal"} => me.op = "distribute"
    /\ me.pc \in {"aim", "mark"} => me.op = "direct"
    /\ me.pc \in {"assign", "seed"} =>
          /\ me.op \in {"claim", "distribute", "direct"} /\ me.origin # "none"
          /\ me.user \in Auditor /\ me.row \in Row
    /\ me.pc = "save" => me.row \in Row /\ me.copy \in RowForm

\* A record a thread may have.
Sound(me) == me \in Variables /\ Fits(me)

Typed == TypeOK /\ \A t \in Thread : Fits(th[t])

LEMMA Points ==
    /\ "idle" \in Point /\ "expire" \in Point /\ "seize" \in Point /\ "ask" \in Point
    /\ "list" \in Point /\ "grab" \in Point /\ "user" \in Point /\ "status" \in Point
    /\ "desk" \in Point /\ "count" \in Point /\ "pick" \in Point /\ "invite" \in Point
    /\ "seat" \in Point /\ "deal" \in Point /\ "aim" \in Point /\ "assign" \in Point
    /\ "seed" \in Point /\ "mark" \in Point /\ "commit" \in Point /\ "save" \in Point
  BY DEF Point

-----------------------------------------------------------------------------
(* Rows. *)

LEMMA RowFields ==
    ASSUME NEW row \in RowForm
    PROVE  /\ row.status \in ANALISE_ATIVA =>
                 row.auditor \in Auditor /\ row.origin \in {"auto", "directed"}
           /\ row.status \notin ANALISE_ATIVA =>
                 row.origin = "none" /\ row.clock = "none" /\ row.auditor = None
           /\ row.status \in {"absent", "free", "gone", "waiting", "working"}
  BY DEF RowForm, ANALISE_ATIVA

LEMMA LooseForm ==
    \A s \in {"absent", "free", "gone"} :
        /\ Loose(s) \in RowForm
        /\ Loose(s).origin = "none" /\ Loose(s).status = s
  BY DEF RowForm, Loose

LEMMA RowChanged ==
    ASSUME NEW row \in RowForm, row.status \in ANALISE_ATIVA
    PROVE  /\ [row EXCEPT !.clock = "running"] \in RowForm
           /\ [row EXCEPT !.status = "working", !.clock = "running"] \in RowForm
           /\ [row EXCEPT !.clock = "over"] \in RowForm
  BY DEF RowForm, ANALISE_ATIVA

LEMMA RowKept ==
    ASSUME NEW row \in RowForm, NEW s, NEW c
    PROVE  /\ [row EXCEPT !.clock = c].origin = row.origin
           /\ [row EXCEPT !.clock = c].auditor = row.auditor
           /\ [row EXCEPT !.clock = c].status = row.status
           /\ [row EXCEPT !.status = s, !.clock = c].origin = row.origin
           /\ [row EXCEPT !.status = s, !.clock = c].auditor = row.auditor
           /\ [row EXCEPT !.status = s, !.clock = c].status = s
  BY DEF RowForm

LEMMA SeenForm ==
    ASSUME TypeOK, NEW t \in Thread, NEW r \in Row
    PROVE  Seen(t, r) \in RowForm
  BY DEF TypeOK, Seen

LEMMA Self ==
    ASSUME Typed, NEW t \in Thread
    PROVE  /\ th[t] \in Variables /\ Fits(th[t])
           /\ th[t].owed \in SUBSET Auditor /\ th[t].asked \in SUBSET Auditor
           /\ th[t].left \in SUBSET Auditor /\ th[t].drain \in SUBSET Row
  <1>1. th[t] \in Variables /\ Fits(th[t])
    BY DEF Typed, TypeOK
  <1> QED  BY <1>1 DEF Variables

LEMMA ActiveOwner ==
    ASSUME Typed, NEW t \in Thread, NEW a, NEW r \in Active(t, a)
    PROVE  r \in Row /\ a \in Auditor /\ Seen(t, r).status \in ANALISE_ATIVA
           /\ RowQueue(r) = th[t].queue
  BY SeenForm, RowFields DEF Typed, Active, Rows

-----------------------------------------------------------------------------
(* Locks. *)

LEMMA RunTyped ==
    ASSUME Typed, NEW t \in Thread, NEW me, Sound(me), Run(t, me)
    PROVE  /\ th' \in [Thread -> Variables]
           /\ \A u \in Thread : Fits(th'[u])
           /\ th'[t] = me
           /\ \A u \in Thread \ {t} : th'[u] = th[u]
  <1>1. th \in [Thread -> Variables] /\ me \in Variables
    BY DEF Typed, TypeOK, Sound
  <1>2. th' = [th EXCEPT ![t] = me]
    BY DEF Run
  <1>3. \A u \in Thread : th'[u] = IF u = t THEN me ELSE th[u]
    BY <1>1, <1>2
  <1>4. th' \in [Thread -> Variables]
    BY <1>1, <1>2
  <1> QED  BY <1>3, <1>4 DEF Typed, Sound

LEMMA PutTyped ==
    ASSUME Typed, NEW t \in Thread, NEW S, NEW row \in RowForm, Put(t, S, row)
    PROVE  /\ held' \in [Thread -> [Row -> RowForm \cup {None}]]
           /\ \A r \in Row : held'[t][r] = IF r \in S THEN row ELSE held[t][r]
           /\ \A u \in Thread \ {t} : held'[u] = held[u]
  BY DEF Typed, TypeOK, Put

LEMMA EndTyped ==
    ASSUME Typed, NEW t \in Thread, End(t)
    PROVE  /\ held' \in [Thread -> [Row -> RowForm \cup {None}]]
           /\ users' \in [Auditor -> Thread \cup {None}]
           /\ desk' \in [Queue -> [Auditor -> Thread \cup {None}]]
           /\ Run(t, Idle)
           /\ \A r \in Row : held'[t][r] = None
           /\ \A u \in Thread \ {t} : held'[u] = held[u]
           /\ \A a \in Auditor, u \in Thread \ {t} : users[a] = u => users'[a] = u
           /\ \A q \in Queue, a \in Auditor, u \in Thread \ {t} :
                 desk[q][a] = u => desk'[q][a] = u
  BY DEF Typed, TypeOK, End

LEMMA IdleSound == Sound(Idle)
  BY AuditActors DEF Sound, Idle, Variables, Point, Fits, Expiring

-----------------------------------------------------------------------------
(* Where a thread goes. *)

Goes(t) == \E next : Sound(next) /\ Run(t, next)

\* What goes on with an expiry, or with the operation after it, is sound.
LEMMA TurnGoes ==
    ASSUME NEW t \in Thread, NEW me \in Variables, me.op \in Expiring,
           me.queue \in Queue, me.op = "claim" => me.user \in Auditor,
           me.op = "direct" => me.user \in Auditor /\ me.row \in Row,
           me.op \in {"claim", "distribute"} <=> me.origin = "auto",
           Turn(t, me)
    PROVE  Goes(t)
  <1>1. CASE me.owed = {} /\ Run(t, [me EXCEPT !.pc = AfterExpiry(me.op), !.who = None,
                                               !.act = "none"])
    <2> DEFINE p == AfterExpiry(me.op)
               next == [me EXCEPT !.pc = p, !.who = None, !.act = "none"]
    <2>1. /\ p \in Point /\ p \in {"desk", "invite", "aim", "commit"}
          /\ p = "desk" => me.op = "claim"
          /\ p = "invite" => me.op = "distribute"
          /\ p = "aim" => me.op = "direct"
      BY DEF AfterExpiry, Point
    <2> HIDE DEF p
    <2>2. next \in Variables
      BY <2>1 DEF Variables
    <2>3. Fits(next)
      BY <1>1, <2>1 DEF Variables, Fits
    <2> QED  BY <1>1, <2>2, <2>3 DEF Goes, Sound, p
  <1>2. ASSUME NEW a \in me.owed,
               Run(t, [me EXCEPT !.pc = "list", !.who = a, !.act = "activate"])
        PROVE  Goes(t)
    <2> DEFINE next == [me EXCEPT !.pc = "list", !.who = a, !.act = "activate"]
    <2>0. a \in Auditor
      BY DEF Variables
    <2>1. next \in Variables
      BY <2>0, Points DEF Variables
    <2>2. Fits(next)
      BY <2>0 DEF Variables, Fits, Expiring
    <2> QED  BY <1>2, <2>1, <2>2 DEF Goes, Sound
  <1> QED  BY <1>1, <1>2 DEF Turn

\* The tables but rows and presence keep their types.
Kept ==
    /\ held' \in [Thread -> [Row -> RowForm \cup {None}]]
    /\ users' \in [Auditor -> Thread \cup {None}]
    /\ desk' \in [Queue -> [Auditor -> Thread \cup {None}]]

\* The steps of an expiry.
LEMMA ExpiryGoes ==
    ASSUME Typed, NEW t \in Thread, Survey(t) \/ Seize(t) \/ Ask(t)
    PROVE  Goes(t) /\ Kept
  <1>0. Kept \/ ~UNCHANGED <<held, users, desk>>
    BY DEF Kept, Typed, TypeOK
  <1>s. th[t] \in Variables /\ Fits(th[t])
    BY Self
  <1>o. \A r \in Row : Seen(t, r) \in RowForm
    BY SeenForm DEF Typed
  <1>1. CASE Survey(t)
    <2>1. th[t].pc = "expire" /\ UNCHANGED <<held, users, desk>>
      BY <1>1 DEF Survey
    <2>2. PICK first \in [Auditor -> Protocol] :
            LET mine(a) == InGroup(Active(t, a), first[a])
                due == {a \in Auditor : \E r \in mine(a) : Seen(t, r).clock = "over"}
            IN  IF due = {}
                THEN Turn(t, th[t])
                ELSE Run(t, [th[t] EXCEPT !.pc = "seize",
                                          !.drain = UNION {mine(a) : a \in due}])
      BY <1>1 DEF Survey
    <2>3. CASE Turn(t, th[t])
      BY <1>0, <1>s, <2>1, <2>3, TurnGoes DEF Fits
    <2>4. ASSUME NEW D \in SUBSET Row, Run(t, [th[t] EXCEPT !.pc = "seize", !.drain = D])
          PROVE  Goes(t)
      <3> DEFINE next == [th[t] EXCEPT !.pc = "seize", !.drain = D]
      <3>1. next \in Variables
        BY <1>s, Points DEF Variables
      <3>2. Fits(next)
        BY <1>s, <2>1 DEF Variables, Fits
      <3> QED  BY <2>4, <3>1, <3>2 DEF Goes, Sound
    <2>5. \A A \in SUBSET Auditor :
             UNION {InGroup(Active(t, a), first[a]) : a \in A} \in SUBSET Row
      BY DEF InGroup, Active, Rows
    <2> QED  BY <1>0, <2>1, <2>2, <2>3, <2>4, <2>5
  <1>2. CASE Seize(t)
    <2> DEFINE taken == {r \in th[t].drain : Free(t, r) /\ Seen(t, r).status \in ANALISE_ATIVA}
               owed == {Seen(t, r).auditor : r \in taken}
               me == [th[t] EXCEPT !.drain = {}, !.owed = owed]
    <2>1. /\ th[t].pc = "seize" /\ Put(t, taken, Loose("free")) /\ Turn(t, me)
          /\ UNCHANGED <<users, desk>>
      BY <1>2 DEF Seize
    <2>2. owed \in SUBSET Auditor
      BY <1>o, Self, RowFields
    <2>3. Kept
      BY <2>1, LooseForm, PutTyped DEF Kept, Typed, TypeOK
    <2> HIDE DEF taken, owed
    <2>4. me \in Variables /\ me.op = th[t].op /\ me.queue = th[t].queue
          /\ me.user = th[t].user /\ me.row = th[t].row /\ me.origin = th[t].origin
      BY <1>s, <2>2 DEF Variables
    <2> HIDE DEF me
    <2>5. Goes(t)
      BY <1>s, <2>1, <2>4, TurnGoes DEF Fits
    <2> QED  BY <2>3, <2>5
  <1>3. CASE Ask(t)
    <2> DEFINE next == [th[t] EXCEPT !.pc = "user", !.act = "quit"]
               me == [th[t] EXCEPT !.owed = @ \ {th[t].who}]
    <2>1. th[t].pc = "ask" /\ (Run(t, next) \/ Turn(t, me)) /\ UNCHANGED <<held, users, desk>>
      BY <1>3 DEF Ask
    <2>2. CASE Run(t, next)
      <3>1. next \in Variables
        BY <1>s, Points DEF Variables
      <3>2. Fits(next)
        BY <1>s, <2>1 DEF Variables, Fits
      <3> QED  BY <1>0, <2>1, <2>2, <3>1, <3>2 DEF Goes, Sound
    <2>3. CASE Turn(t, me)
      <3>1. me \in Variables /\ me.op = th[t].op /\ me.queue = th[t].queue
            /\ me.user = th[t].user /\ me.row = th[t].row /\ me.origin = th[t].origin
        BY <1>s DEF Variables
      <3> HIDE DEF me
      <3> QED  BY <1>0, <1>s, <2>1, <2>3, <3>1, TurnGoes DEF Fits
    <2> QED  BY <2>1, <2>2, <2>3
  <1> QED  BY <1>1, <1>2, <1>3

\* The statements over an auditor's rows.
LEMMA RowsGo ==
    ASSUME Typed, NEW t \in Thread,
           List(t) \/ Grab(t) \/ Activate(t) \/ Quit(t) \/ Remove(t) \/ Finish(t)
    PROVE  Goes(t) /\ Kept
  <1>0. Kept \/ ~UNCHANGED <<held, users, desk>>
    BY DEF Kept, Typed, TypeOK
  <1>s. th[t] \in Variables /\ Fits(th[t])
    BY Self
  <1>k. ASSUME NEW S, NEW row \in RowForm, Put(t, S, row), UNCHANGED <<users, desk>>
        PROVE  Kept
    BY <1>k, PutTyped DEF Kept, Typed, TypeOK
  <1>o. \A r \in Row : Seen(t, r) \in RowForm
    BY SeenForm DEF Typed
  <1>1. CASE List(t)
    <2> DEFINE D == Active(t, th[t].who)
               next == [th[t] EXCEPT !.pc = "grab", !.drain = D]
    <2>1. D \in SUBSET Row
      BY DEF Active, Rows
    <2>2. th[t].pc = "list" /\ Run(t, next) /\ UNCHANGED <<held, users, desk>>
      BY <1>1 DEF List
    <2> HIDE DEF D
    <2>3. next \in Variables
      BY <1>s, <2>1, Points DEF Variables
    <2>4. Fits(next)
      BY <1>s, <2>2 DEF Variables, Fits
    <2> QED  BY <1>0, <2>2, <2>3, <2>4 DEF Goes, Sound
  <1>2. CASE Grab(t)
    <2>1. PICK r \in th[t].drain :
            /\ th[t].pc = "grab"
            /\ IF r \in Active(t, th[t].who) THEN Lock(t, r) ELSE UNCHANGED held
            /\ Run(t, [th[t] EXCEPT !.drain = @ \ {r}])
            /\ UNCHANGED <<users, desk>>
      BY <1>2 DEF Grab
    <2> DEFINE next == [th[t] EXCEPT !.drain = @ \ {r}]
    <2>2. next \in Variables
      BY <1>s, Points DEF Variables
    <2>3. Fits(next)
      BY <1>s, <2>1 DEF Variables, Fits
    <2>4. Kept
      BY <1>0, <1>k, <1>o, <2>1, Self DEF Lock
    <2> QED  BY <2>1, <2>2, <2>3, <2>4 DEF Goes, Sound
  <1>3. CASE Activate(t)
    <2> DEFINE p == IF th[t].owed = {} THEN "commit" ELSE "ask"
               next == [th[t] EXCEPT !.pc = p]
    <2>1. th[t].pc = "grab" /\ th[t].act = "activate" /\ Run(t, next) /\ UNCHANGED <<users, desk>>
      BY <1>3 DEF Activate
    <2>2. p \in Point /\ p \in {"commit", "ask"} /\ (p = "ask" => th[t].owed # {})
      BY Points
    <2> HIDE DEF p
    <2>3. next \in Variables
      BY <1>s, <2>2, Points DEF Variables
    <2>4. Fits(next)
      BY <1>s, <2>1, <2>2 DEF Variables, Fits
    <2>5. Kept
      <3>1. CASE UNCHANGED held
        BY <1>0, <2>1, <3>1
      <3>2. ASSUME NEW p_1, held' = [held EXCEPT ![t] = [r \in Row |->
                              IF r \in InGroup(Grabbed(t), p_1)
                              THEN [@[r] EXCEPT !.clock = "running"] ELSE @[r]]]
            PROVE  Kept
        <4>1. \A r \in InGroup(Grabbed(t), p_1) :
                 held[t][r] \in RowForm /\ held[t][r].status \in ANALISE_ATIVA
          BY ActiveOwner DEF InGroup, Grabbed, Seen, Typed, TypeOK
        <4>2. \A r \in InGroup(Grabbed(t), p_1) : [held[t][r] EXCEPT !.clock = "running"] \in RowForm
          BY <4>1, RowChanged
        <4>3. held' \in [Thread -> [Row -> RowForm \cup {None}]]
          BY <3>2, <4>2 DEF Typed, TypeOK
        <4> QED  BY <2>1, <4>3 DEF Kept, Typed, TypeOK
      <3> QED  BY <1>3, <3>1, <3>2 DEF Activate
    <2> QED  BY <2>1, <2>3, <2>4, <2>5 DEF Goes, Sound
  <1>4. CASE Quit(t)
    <2>1. /\ th[t].pc = "grab" /\ th[t].act = "quit" /\ Put(t, Grabbed(t), Loose("free"))
          /\ UNCHANGED <<users, desk>>
      BY <1>4 DEF Quit
    <2>2. Kept
      BY <1>k, <2>1, LooseForm
    <2>3. CASE Run(t, [th[t] EXCEPT !.pc = "commit"])
      <3> DEFINE next == [th[t] EXCEPT !.pc = "commit"]
      <3>1. next \in Variables
        BY <1>s, Points DEF Variables
      <3>2. Fits(next)
        BY <1>s, <2>1 DEF Variables, Fits
      <3> QED  BY <2>2, <2>3, <3>1, <3>2 DEF Goes, Sound
    <2>4. CASE th[t].owed # {} /\ Turn(t, [th[t] EXCEPT !.owed = @ \ {th[t].who}])
      <3> DEFINE me == [th[t] EXCEPT !.owed = @ \ {th[t].who}]
      <3>1. me \in Variables /\ me.op = th[t].op /\ me.queue = th[t].queue
            /\ me.user = th[t].user /\ me.row = th[t].row /\ me.origin = th[t].origin
        BY <1>s DEF Variables
      <3> HIDE DEF me
      <3>2. Turn(t, me)
        BY <2>4 DEF me
      <3> QED  BY <1>s, <2>1, <2>2, <2>4, <3>1, <3>2, TurnGoes DEF Fits
    <2> QED  BY <1>4, <2>3, <2>4 DEF Quit
  <1>5. CASE Remove(t)
    <2>1. th[t].pc = "grab" /\ th[t].act \in {"return", "remove"}
      BY <1>5 DEF Remove
    <2>2. CASE End(t)
      BY <2>2, EndTyped, IdleSound DEF Goes, Kept
    <2>3. ASSUME NEW p_1, Put(t, InGroup(Grabbed(t), p_1), Loose("free")),
                 Run(t, IF th[t].act = "remove"
                        THEN [th[t] EXCEPT !.pc = "list", !.act = "activate"]
                        ELSE [th[t] EXCEPT !.pc = "commit"]),
                 UNCHANGED <<users, desk>>
          PROVE  Goes(t) /\ Kept
      <3>1. Kept
        BY <1>k, <2>3, LooseForm
      <3>2. CASE Run(t, [th[t] EXCEPT !.pc = "list", !.act = "activate"])
        <4> DEFINE next == [th[t] EXCEPT !.pc = "list", !.act = "activate"]
        <4>1. next \in Variables
          BY <1>s, Points DEF Variables
        <4>2. Fits(next)
          BY <1>s, <2>1 DEF Variables, Fits
        <4> QED  BY <3>1, <3>2, <4>1, <4>2 DEF Goes, Sound
      <3>3. CASE Run(t, [th[t] EXCEPT !.pc = "commit"])
        <4> DEFINE next == [th[t] EXCEPT !.pc = "commit"]
        <4>1. next \in Variables
          BY <1>s, Points DEF Variables
        <4>2. Fits(next)
          BY <1>s, <2>1 DEF Variables, Fits
        <4> QED  BY <3>1, <3>3, <4>1, <4>2 DEF Goes, Sound
      <3> QED  BY <2>3, <3>2, <3>3
    <2> QED  BY <1>5, <2>2, <2>3 DEF Remove
  <1>6. CASE Finish(t)
    <2> DEFINE next == [th[t] EXCEPT !.pc = "list", !.act = "activate"]
    <2>1. /\ th[t].pc = "grab" /\ th[t].act = "finish" /\ Run(t, next)
          /\ Put(t, InGroup(Grabbed(t), ProtocolOf[th[t].row]), Loose("gone"))
          /\ UNCHANGED <<users, desk>>
      BY <1>6 DEF Finish
    <2>2. Kept
      BY <1>k, <2>1, LooseForm
    <2>3. next \in Variables
      BY <1>s, Points DEF Variables
    <2>4. Fits(next)
      BY <1>s, <2>1 DEF Variables, Fits
    <2> QED  BY <2>1, <2>2, <2>3, <2>4 DEF Goes, Sound
  <1> QED  BY <1>1, <1>2, <1>3, <1>4, <1>5, <1>6

\* The lock on the user, and the status.
LEMMA StatusGoes ==
    ASSUME Typed, NEW t \in Thread, LockUser(t) \/ SetStatus(t)
    PROVE  Goes(t) /\ Kept
  <1>s. th[t] \in Variables /\ Fits(th[t])
    BY Self
  <1>k. /\ held \in [Thread -> [Row -> RowForm \cup {None}]]
        /\ users \in [Auditor -> Thread \cup {None}]
        /\ desk \in [Queue -> [Auditor -> Thread \cup {None}]]
    BY DEF Typed, TypeOK
  <1>1. CASE LockUser(t)
    <2> DEFINE next == [th[t] EXCEPT !.pc = "status"]
    <2>1. th[t].pc = "user" /\ Run(t, next)
      BY <1>1 DEF LockUser
    <2>2. Kept
      BY <1>1, <1>k DEF LockUser, Kept
    <2>3. next \in Variables
      BY <1>s, Points DEF Variables
    <2>4. Fits(next)
      BY <1>s, <2>1 DEF Variables, Fits
    <2> QED  BY <2>1, <2>2, <2>3, <2>4 DEF Goes, Sound
  <1>2. CASE SetStatus(t)
    <2>1. th[t].pc = "status"
      BY <1>2 DEF SetStatus
    <2>2. CASE End(t)
      BY <2>2, EndTyped, IdleSound DEF Goes, Kept
    <2>3. ASSUME desk' = [desk EXCEPT ![th[t].queue][th[t].who] = t], UNCHANGED <<held, users>>
          PROVE  Kept
      BY <1>k, <2>3 DEF Kept
    <2>4. CASE th[t].act = "quit" /\ Run(t, [th[t] EXCEPT !.pc = "list",
                                                          !.left = @ \cup {th[t].who}])
      <3> DEFINE next == [th[t] EXCEPT !.pc = "list", !.left = @ \cup {th[t].who}]
      <3>0. th[t].who \in Auditor
        BY <1>s, <2>1 DEF Fits
      <3>1. next \in Variables
        BY <1>s, <3>0, Points DEF Variables
      <3>2. Fits(next)
        BY <1>s, <2>1, <2>4 DEF Variables, Fits
      <3> QED  BY <1>2, <2>2, <2>3, <2>4, <3>1, <3>2 DEF Goes, Sound, SetStatus
    <2>5. CASE th[t].act = "online" /\ Run(t, [th[t] EXCEPT !.pc = "commit"])
      <3> DEFINE next == [th[t] EXCEPT !.pc = "commit"]
      <3>1. next \in Variables
        BY <1>s, Points DEF Variables
      <3>2. Fits(next)
        BY <1>s, <2>1, <2>5 DEF Variables, Fits
      <3> QED  BY <1>2, <2>2, <2>3, <2>5, <3>1, <3>2 DEF Goes, Sound, SetStatus
    <2> QED  BY <1>2, <2>2, <2>4, <2>5 DEF SetStatus
  <1> QED  BY <1>1, <1>2

\* Claims.
LEMMA ClaimGoes ==
    ASSUME Typed, NEW t \in Thread, LockDesk(t) \/ Count(t) \/ Pick(t)
    PROVE  Goes(t) /\ Kept
  <1>s. th[t] \in Variables /\ Fits(th[t])
    BY Self
  <1>k. /\ held \in [Thread -> [Row -> RowForm \cup {None}]]
        /\ users \in [Auditor -> Thread \cup {None}]
        /\ desk \in [Queue -> [Auditor -> Thread \cup {None}]]
    BY DEF Typed, TypeOK
  <1>m. ASSUME NEW p \in {"count", "pick", "commit"}, Run(t, [th[t] EXCEPT !.pc = p]),
               th[t].pc \in {"desk", "count", "pick"}
        PROVE  Goes(t)
    <2> DEFINE next == [th[t] EXCEPT !.pc = p]
    <2>0. p \in Point
      BY Points
    <2>1. next \in Variables
      BY <1>s, <2>0 DEF Variables
    <2>2. Fits(next)
      BY <1>s, <1>m DEF Variables, Fits
    <2> QED  BY <1>m, <2>1, <2>2 DEF Goes, Sound
  <1>1. CASE LockDesk(t)
    <2>1. Goes(t)
      BY <1>1, <1>m DEF LockDesk
    <2>2. Kept
      BY <1>1, <1>k DEF LockDesk, Kept
    <2> QED  BY <2>1, <2>2
  <1>2. CASE Count(t)
    BY <1>2, <1>k, <1>m DEF Count, Kept
  <1>3. CASE Pick(t)
    <2>1. Kept /\ th[t].pc = "pick"
      BY <1>3, <1>k DEF Pick, Kept
    <2>2. ASSUME NEW r \in General(t), Run(t, [th[t] EXCEPT !.pc = "assign", !.row = r])
          PROVE  Goes(t)
      <3> DEFINE next == [th[t] EXCEPT !.pc = "assign", !.row = r]
      <3>0. r \in Row
        BY DEF General, Rows
      <3>1. next \in Variables
        BY <1>s, <3>0, Points DEF Variables
      <3>2. Fits(next)
        BY <1>s, <2>1, <3>0 DEF Variables, Fits
      <3> QED  BY <2>2, <3>1, <3>2 DEF Goes, Sound
    <2>3. CASE Run(t, [th[t] EXCEPT !.pc = "commit"])
      BY <1>m, <2>1, <2>3
    <2> QED  BY <1>3, <2>1, <2>2, <2>3 DEF Pick
  <1> QED  BY <1>1, <1>2, <1>3

\* Distributions.
LEMMA DistributionGoes ==
    ASSUME Typed, NEW t \in Thread, Invite(t) \/ Seat(t) \/ Load(t) \/ Deal(t)
    PROVE  Goes(t) /\ Kept
  <1>s. th[t] \in Variables /\ Fits(th[t])
    BY Self
  <1>k. /\ held \in [Thread -> [Row -> RowForm \cup {None}]]
        /\ users \in [Auditor -> Thread \cup {None}]
        /\ desk \in [Queue -> [Auditor -> Thread \cup {None}]]
    BY DEF Typed, TypeOK
  <1>1. CASE Invite(t)
    <2> DEFINE online == {a \in Auditor : SeenOnline(t, a)}
               p == IF online = {} THEN "commit" ELSE "seat"
               next == [th[t] EXCEPT !.pc = p, !.owed = online]
    <2>1. th[t].pc = "invite" /\ Run(t, next)
      BY <1>1 DEF Invite
    <2>2. p \in {"commit", "seat"} /\ p \in Point /\ online \in SUBSET Auditor
      BY Points
    <2> HIDE DEF p, online
    <2>3. next \in Variables
      BY <1>s, <2>2 DEF Variables
    <2>4. Fits(next)
      BY <1>s, <2>1, <2>2 DEF Variables, Fits, Expiring
    <2> QED  BY <1>1, <1>k, <2>1, <2>3, <2>4 DEF Goes, Sound, Invite, Kept
  <1>2. CASE Seat(t)
    <2>1. PICK a \in th[t].owed :
            /\ th[t].pc = "seat"
            /\ desk' = [desk EXCEPT ![th[t].queue][a] = t]
            /\ Run(t, [th[t] EXCEPT !.owed = @ \ {a},
                                    !.asked = IF SeenOnline(t, a) THEN @ \cup {a} ELSE @])
            /\ UNCHANGED <<held, users>>
      BY <1>2 DEF Seat
    <2> DEFINE asked == IF SeenOnline(t, a) THEN th[t].asked \cup {a} ELSE th[t].asked
               next == [th[t] EXCEPT !.owed = @ \ {a}, !.asked = asked]
    <2>2. a \in Auditor /\ asked \in SUBSET Auditor
      BY Self
    <2> HIDE DEF asked
    <2>3. next \in Variables
      BY <1>s, <2>2 DEF Variables
    <2>4. Fits(next)
      BY <1>s, <2>1 DEF Variables, Fits
    <2>5. Kept
      BY <1>k, <2>1 DEF Kept
    <2> QED  BY <2>1, <2>3, <2>4, <2>5 DEF Goes, Sound, asked
  <1>3. CASE Load(t)
    <2>1. th[t].pc = "seat" /\ Kept
      BY <1>3, <1>k DEF Load, Kept
    <2>2. ASSUME NEW p \in {"commit", "deal"}, NEW A \in SUBSET Auditor, NEW D \in SUBSET Row,
                 Run(t, [th[t] EXCEPT !.pc = p, !.asked = A, !.drain = D])
          PROVE  Goes(t)
      <3> DEFINE next == [th[t] EXCEPT !.pc = p, !.asked = A, !.drain = D]
      <3>0. p \in Point
        BY Points
      <3>1. next \in Variables
        BY <1>s, <3>0 DEF Variables
      <3>2. Fits(next)
        BY <1>s, <2>1 DEF Variables, Fits
      <3> QED  BY <2>2, <3>1, <3>2 DEF Goes, Sound
    <2>3. CASE Run(t, [th[t] EXCEPT !.pc = "commit", !.asked = {}])
      <3> DEFINE next == [th[t] EXCEPT !.pc = "commit", !.asked = {}]
      <3>1. next \in Variables
        BY <1>s, Points DEF Variables
      <3>2. Fits(next)
        BY <1>s, <2>1 DEF Variables, Fits
      <3> QED  BY <2>1, <2>3, <3>1, <3>2 DEF Goes, Sound
    <2>4. {a \in th[t].asked : Active(t, a) = {}} \in SUBSET Auditor /\ General(t) \in SUBSET Row
      BY Self DEF General, Rows
    <2> QED  BY <1>3, <2>1, <2>2, <2>3, <2>4 DEF Load
  <1>4. CASE Deal(t)
    <2>1. th[t].pc = "deal" /\ Kept
      BY <1>4, <1>k DEF Deal, Kept
    <2>2. ASSUME NEW r \in th[t].drain, NEW a \in th[t].asked,
                 Run(t, [th[t] EXCEPT !.pc = "assign", !.user = a, !.row = r,
                           !.drain = @ \ InGroup(@, ProtocolOf[r]), !.asked = @ \ {a}])
          PROVE  Goes(t)
      <3> DEFINE D == th[t].drain \ InGroup(th[t].drain, ProtocolOf[r])
                 A == th[t].asked \ {a}
                 next == [th[t] EXCEPT !.pc = "assign", !.user = a, !.row = r,
                                       !.drain = D, !.asked = A]
      <3>0. r \in Row /\ a \in Auditor /\ D \in SUBSET Row /\ A \in SUBSET Auditor
        BY Self
      <3>r. Run(t, next)
        BY <2>2
      <3> HIDE DEF D, A
      <3>1. next \in Variables
        BY <1>s, <3>0, Points DEF Variables
      <3>2. Fits(next)
        BY <1>s, <2>1, <3>0 DEF Variables, Fits
      <3> QED  BY <3>r, <3>1, <3>2 DEF Goes, Sound
    <2>3. CASE Run(t, [th[t] EXCEPT !.pc = "commit", !.drain = {}, !.asked = {}])
      <3> DEFINE next == [th[t] EXCEPT !.pc = "commit", !.drain = {}, !.asked = {}]
      <3>1. next \in Variables
        BY <1>s, Points DEF Variables
      <3>2. Fits(next)
        BY <1>s, <2>1 DEF Variables, Fits
      <3> QED  BY <2>1, <2>3, <3>1, <3>2 DEF Goes, Sound
    <2> QED  BY <1>4, <2>1, <2>2, <2>3 DEF Deal
  <1> QED  BY <1>1, <1>2, <1>3, <1>4

LEMMA AssignedForm ==
    ASSUME Typed, NEW t \in Thread, th[t].pc \in {"assign", "seed"}
    PROVE  Assigned(t) \in RowForm /\ Assigned(t).status = "waiting"
  <1>1. th[t] \in Variables /\ Fits(th[t])
    BY Self
  <1>2. th[t].user \in Auditor /\ th[t].origin \in {"auto", "directed"}
        /\ th[t].clock \in {"none", "running"}
    BY <1>1 DEF Fits, Variables
  <1> QED  BY <1>2 DEF Assigned, RowForm, ANALISE_ATIVA

\* Directions, and the assignment of a protocol.
LEMMA AssignGoes ==
    ASSUME Typed, NEW t \in Thread, Aim(t) \/ Assign(t) \/ AssignSeed(t) \/ Mark(t)
    PROVE  Goes(t) /\ Kept
  <1>s. th[t] \in Variables /\ Fits(th[t])
    BY Self
  <1>k. /\ held \in [Thread -> [Row -> RowForm \cup {None}]]
        /\ users \in [Auditor -> Thread \cup {None}]
        /\ desk \in [Queue -> [Auditor -> Thread \cup {None}]]
    BY DEF Typed, TypeOK
  <1>p. ASSUME NEW S, NEW row \in RowForm, Put(t, S, row), UNCHANGED <<users, desk>>
        PROVE  Kept
    BY <1>p, <1>k, PutTyped DEF Kept
  <1>e. ASSUME End(t)
        PROVE  Goes(t) /\ Kept
    BY <1>e, EndTyped, IdleSound DEF Goes, Kept
  <1>1. CASE Aim(t)
    <2>1. th[t].pc = "aim"
      BY <1>1 DEF Aim
    <2>2. ASSUME NEW c \in {"none", "running"}, Lock(t, th[t].row),
                 Run(t, [th[t] EXCEPT !.pc = "assign", !.origin = "directed", !.clock = c]),
                 UNCHANGED <<users, desk>>
          PROVE  Goes(t) /\ Kept
      <3> DEFINE next == [th[t] EXCEPT !.pc = "assign", !.origin = "directed", !.clock = c]
      <3>0. th[t].row \in Row /\ th[t].user \in Auditor
        BY <1>s, <2>1 DEF Fits
      <3>1. next \in Variables
        BY <1>s, Points DEF Variables
      <3>2. Fits(next)
        BY <1>s, <2>1, <3>0 DEF Variables, Fits
      <3>3. Kept
        BY <1>p, <2>2, <3>0, SeenForm DEF Lock, Typed
      <3> QED  BY <2>2, <3>1, <3>2, <3>3 DEF Goes, Sound
    <2> DEFINE new == Seen(t, th[t].row).auditor # th[t].user
               others == Protocols(Active(t, th[t].user)) \ {ProtocolOf[th[t].row]}
               c == IF new /\ others # {} THEN "none" ELSE "running"
    <2>3. \/ End(t)
          \/ /\ Lock(t, th[t].row) /\ UNCHANGED <<users, desk>>
             /\ Run(t, [th[t] EXCEPT !.pc = "assign", !.origin = "directed", !.clock = c])
      BY <1>1 DEF Aim
    <2>4. c \in {"none", "running"}
      OBVIOUS
    <2> HIDE DEF c
    <2> QED  BY <1>e, <2>2, <2>3, <2>4
  <1>2. CASE Assign(t)
    <2> DEFINE group == {s \in Siblings(t, th[t].row) : Free(t, s)}
               p == IF group = {} THEN "seed" ELSE AfterAssign(th[t].op)
               next == [th[t] EXCEPT !.pc = p]
    <2>1. /\ th[t].pc = "assign" /\ Put(t, group, Assigned(t)) /\ Run(t, next)
          /\ UNCHANGED <<users, desk>>
      BY <1>2 DEF Assign
    <2>2. p \in {"seed", "commit", "deal", "mark"}
          /\ (p = "deal" => th[t].op = "distribute") /\ (p = "mark" => th[t].op = "direct")
      BY <1>s, <2>1 DEF AfterAssign, Fits
    <2>3. p \in Point
      BY <2>2, Points
    <2> HIDE DEF group, p
    <2>4. next \in Variables
      BY <1>s, <2>3 DEF Variables
    <2>5. Fits(next)
      BY <1>s, <2>1, <2>2 DEF Variables, Fits
    <2>6. Kept
      BY <1>p, <2>1, AssignedForm
    <2> QED  BY <2>1, <2>4, <2>5, <2>6 DEF Goes, Sound
  <1>3. CASE AssignSeed(t)
    <2>1. th[t].pc = "seed"
      BY <1>3 DEF AssignSeed
    <2>2. ASSUME NEW p, Run(t, [th[t] EXCEPT !.pc = p]),
                 p = "commit" \/ p = AfterAssign(th[t].op)
          PROVE  Goes(t)
      <3> DEFINE next == [th[t] EXCEPT !.pc = p]
      <3>1. p \in {"commit", "deal", "mark"}
            /\ (p = "deal" => th[t].op = "distribute") /\ (p = "mark" => th[t].op = "direct")
        BY <1>s, <2>1, <2>2 DEF AfterAssign, Fits
      <3>2. p \in Point
        BY <3>1, Points
      <3>3. next \in Variables
        BY <1>s, <3>2 DEF Variables
      <3>4. Fits(next)
        BY <1>s, <2>1, <3>1 DEF Variables, Fits
      <3> QED  BY <2>2, <3>3, <3>4 DEF Goes, Sound
    <2>3. CASE Put(t, {th[t].row}, Assigned(t)) /\ Run(t, [th[t] EXCEPT !.pc = AfterAssign(th[t].op)])
               /\ UNCHANGED <<users, desk>>
      BY <1>p, <2>1, <2>2, <2>3, AssignedForm
    <2>4. CASE Run(t, [th[t] EXCEPT !.pc = "commit"]) /\ UNCHANGED <<held, users, desk>>
      BY <1>k, <2>2, <2>4 DEF Kept
    <2>5. \/ End(t)
          \/ /\ Put(t, {th[t].row}, Assigned(t)) /\ UNCHANGED <<users, desk>>
             /\ Run(t, [th[t] EXCEPT !.pc = AfterAssign(th[t].op)])
          \/ Run(t, [th[t] EXCEPT !.pc = "commit"]) /\ UNCHANGED <<held, users, desk>>
      BY <1>3 DEF AssignSeed
    <2> QED  BY <1>e, <2>3, <2>4, <2>5
  <1>4. CASE Mark(t)
    <2> DEFINE next == [th[t] EXCEPT !.pc = "commit"]
    <2>1. th[t].pc = "mark" /\ Run(t, next)
      BY <1>4 DEF Mark
    <2>2. Kept
      BY <1>4, <1>k DEF Mark, Kept
    <2>3. next \in Variables
      BY <1>s, Points DEF Variables
    <2>4. Fits(next)
      BY <1>s, <2>1 DEF Variables, Fits
    <2> QED  BY <2>1, <2>2, <2>3, <2>4 DEF Goes, Sound
  <1> QED  BY <1>1, <1>2, <1>3, <1>4

-----------------------------------------------------------------------------
(* Types. *)

\* The steps inside a transaction.
Inside(t) ==
    \/ Survey(t) \/ Seize(t) \/ Ask(t)
    \/ List(t) \/ Grab(t) \/ Activate(t) \/ Quit(t) \/ Remove(t) \/ Finish(t)
    \/ LockUser(t) \/ SetStatus(t)
    \/ LockDesk(t) \/ Count(t) \/ Pick(t) \/ Invite(t) \/ Seat(t) \/ Load(t) \/ Deal(t)
    \/ Aim(t) \/ Assign(t) \/ AssignSeed(t) \/ Mark(t)

LEMMA InsideQuiet ==
    ASSUME NEW t \in Thread, Inside(t)
    PROVE  UNCHANGED <<rows, presence, stale>>
  BY DEF Inside, Survey, Seize, Ask, List, Grab, Activate, Quit, Remove, Finish, LockUser,
         SetStatus, LockDesk, Count, Pick, Invite, Seat, Load, Deal, Aim, Assign,
         AssignSeed, Mark

LEMMA InsideGoes ==
    ASSUME Typed, NEW t \in Thread, Inside(t)
    PROVE  Goes(t) /\ Kept
  BY ExpiryGoes, RowsGo, StatusGoes, ClaimGoes, DistributionGoes, AssignGoes DEF Inside

LEMMA GoneTyped ==
    ASSUME Typed, NEW t \in Thread, Goes(t), Kept, rows' \in [Row -> RowForm],
           presence' \in [Queue -> [Auditor -> {"online", "away"}]], stale' \subseteq Row
    PROVE  Typed'
  BY RunTyped DEF Goes, Kept, Typed, TypeOK

LEMMA EndGoes ==
    ASSUME Typed, NEW t \in Thread, End(t)
    PROVE  Goes(t) /\ Kept
  BY EndTyped, IdleSound DEF Goes, Kept

LEMMA StepTyped ==
    ASSUME Typed, NEW t \in Thread, Step(t) \/ Rollback(t)
    PROVE  Typed'
  <1>0. /\ rows \in [Row -> RowForm] /\ stale \subseteq Row
        /\ presence \in [Queue -> [Auditor -> {"online", "away"}]]
    BY DEF Typed, TypeOK
  <1>1. CASE Inside(t)
    BY <1>0, <1>1, InsideQuiet, InsideGoes, GoneTyped
  <1>2. CASE Commit(t)
    <2>1. rows' \in [Row -> RowForm]
      BY <1>2, SeenForm DEF Commit, Typed
    <2>2. presence' \in [Queue -> [Auditor -> {"online", "away"}]]
      BY <1>0, <1>2 DEF Commit
    <2> QED  BY <1>0, <1>2, <2>1, <2>2, EndGoes, GoneTyped DEF Commit
  <1>3. CASE Save(t)
    <2>1. th[t].row \in Row /\ th[t].copy \in RowForm
      BY <1>3, Self DEF Save, Fits
    <2>2. rows' \in [Row -> RowForm] /\ stale' \subseteq Row
      BY <1>0, <1>3, <2>1 DEF Save
    <2> QED  BY <1>0, <1>3, <2>2, EndGoes, GoneTyped DEF Save
  <1>4. CASE Rollback(t)
    BY <1>0, <1>4, EndGoes, GoneTyped DEF Rollback
  <1> QED  BY <1>1, <1>2, <1>3, <1>4 DEF Step, Inside

\* What a call begins with.
LEMMA BegunSound ==
    ASSUME NEW q \in Queue
    PROVE  /\ Sound(Begin("expire", "sweep", q)) /\ Sound(Begin("expire", "distribute", q))
           /\ \A a \in Auditor :
                 /\ Sound([Begin("expire", "claim", q) EXCEPT !.user = a])
                 /\ Sound([Begin("list", "remove", q) EXCEPT !.who = a, !.act = "remove"])
                 /\ \A act \in {"online", "quit"} :
                       Sound([Begin("user", "status", q) EXCEPT !.who = a, !.act = act])
           /\ \A a \in Auditor, r \in Row :
                 /\ Sound([Begin("expire", "direct", q) EXCEPT !.user = a, !.row = r])
                 /\ \A act \in {"return", "finish"}, D \in SUBSET Row :
                       Sound([Begin("grab", act, q) EXCEPT !.who = a, !.row = r, !.act = act,
                                                           !.drain = D])
           /\ \A r \in Row, row \in RowForm :
                 Sound([Begin("save", "patch", q) EXCEPT !.row = r, !.copy = row])
  <1> USE Points DEF Begin, Idle
  <1>1. Sound(Begin("expire", "sweep", q)) /\ Sound(Begin("expire", "distribute", q))
    BY DEF Sound, Variables, Fits, Expiring
  <1>2. ASSUME NEW a \in Auditor
        PROVE  /\ Sound([Begin("expire", "claim", q) EXCEPT !.user = a])
               /\ Sound([Begin("list", "remove", q) EXCEPT !.who = a, !.act = "remove"])
    BY DEF Sound, Variables, Fits, Expiring
  <1>3. ASSUME NEW a \in Auditor, NEW act \in {"online", "quit"}
        PROVE  Sound([Begin("user", "status", q) EXCEPT !.who = a, !.act = act])
    BY DEF Sound, Variables, Fits, Expiring
  <1>4. ASSUME NEW a \in Auditor, NEW r \in Row
        PROVE  Sound([Begin("expire", "direct", q) EXCEPT !.user = a, !.row = r])
    BY DEF Sound, Variables, Fits, Expiring
  <1>5. ASSUME NEW a \in Auditor, NEW r \in Row, NEW act \in {"return", "finish"},
               NEW D \in SUBSET Row
        PROVE  Sound([Begin("grab", act, q) EXCEPT !.who = a, !.row = r, !.act = act,
                                                   !.drain = D])
    BY DEF Sound, Variables, Fits, Expiring
  <1>6. ASSUME NEW r \in Row, NEW row \in RowForm
        PROVE  Sound([Begin("save", "patch", q) EXCEPT !.row = r, !.copy = row])
    BY DEF Sound, Variables, Fits, Expiring
  <1> QED  BY <1>1, <1>2, <1>3, <1>4, <1>5, <1>6

LEMMA QueueTypes ==
    Stocked \subseteq Queue /\ \A r \in Row : RowQueue(r) \in Queue
  BY AuditGroups DEF Stocked, RowQueue

\* A call begins in a thread that is idle.
LEMMA CallGoes ==
    ASSUME Typed, NEW t \in Thread, Call(t)
    PROVE  /\ th[t].pc = "idle" /\ Goes(t) /\ Kept
           /\ UNCHANGED <<rows, presence, users, desk, stale>>
  <1>0. Kept \/ ~UNCHANGED <<held, users, desk>>
    BY DEF Kept, Typed, TypeOK
  <1>c. ASSUME NEW me, Sound(me), Calls(t, me)
        PROVE  /\ th[t].pc = "idle" /\ Goes(t)
               /\ UNCHANGED <<rows, presence, users, desk, stale>>
    BY <1>c DEF Calls, Goes
  <1>1. ASSUME NEW q \in Queue, Sweep(t, q) \/ Distribute(t, q)
        PROVE  /\ th[t].pc = "idle" /\ Goes(t) /\ Kept
               /\ UNCHANGED <<rows, presence, users, desk, stale>>
    BY <1>0, <1>1, <1>c, BegunSound DEF Sweep, Distribute, Calls
  <1>2. ASSUME NEW q \in Queue, NEW a \in Auditor, Claim(t, q, a) \/ RemoveByControl(t, q, a)
        PROVE  /\ th[t].pc = "idle" /\ Goes(t) /\ Kept
               /\ UNCHANGED <<rows, presence, users, desk, stale>>
    BY <1>0, <1>2, <1>c, BegunSound DEF Claim, RemoveByControl, Calls
  <1>3. ASSUME NEW q \in Queue, NEW a \in Auditor, NEW act \in {"online", "quit"},
               SetAuditorStatus(t, q, a, act)
        PROVE  /\ th[t].pc = "idle" /\ Goes(t) /\ Kept
               /\ UNCHANGED <<rows, presence, users, desk, stale>>
    BY <1>0, <1>3, <1>c, BegunSound DEF SetAuditorStatus, Calls
  <1>4. ASSUME NEW r \in Row, Import(t, r)
        PROVE  /\ th[t].pc = "idle" /\ Goes(t) /\ Kept
               /\ UNCHANGED <<rows, presence, users, desk, stale>>
    <2>1. Calls(t, Begin("expire", "distribute", RowQueue(r))) /\ Put(t, {r}, Loose("free"))
      BY <1>4 DEF Import
    <2>2. th[t].pc = "idle" /\ Goes(t) /\ UNCHANGED <<rows, presence, users, desk, stale>>
      BY <1>c, <2>1, BegunSound, QueueTypes
    <2> QED  BY <2>1, <2>2, LooseForm, PutTyped DEF Kept, Typed, TypeOK
  <1>5. ASSUME NEW r \in Row, PatchRead(t, r)
        PROVE  /\ th[t].pc = "idle" /\ Goes(t) /\ Kept
               /\ UNCHANGED <<rows, presence, users, desk, stale>>
    <2>1. /\ Calls(t, [Begin("save", "patch", RowQueue(r)) EXCEPT !.row = r, !.copy = rows[r]])
          /\ UNCHANGED held
      BY <1>5 DEF PatchRead
    <2>2. rows[r] \in RowForm /\ RowQueue(r) \in Queue
      BY QueueTypes DEF Typed, TypeOK
    <2> QED  BY <1>0, <1>c, <2>1, <2>2, BegunSound
  <1>6. ASSUME NEW r \in Row, NEW act \in {"return", "finish"}, OnRow(t, r, act)
        PROVE  /\ th[t].pc = "idle" /\ Goes(t) /\ Kept
               /\ UNCHANGED <<rows, presence, users, desk, stale>>
    <2> DEFINE a == rows[r].auditor
               q == RowQueue(r)
               mine == {s \in Row : /\ RowQueue(s) = q /\ rows[s].auditor = a
                                    /\ act = "finish" => ProtocolOf[s] = ProtocolOf[r]}
               D == mine \ {r}
    <2>1. /\ rows[r].status \in ANALISE_ATIVA /\ Lock(t, r)
          /\ Calls(t, [Begin("grab", act, q) EXCEPT !.who = a, !.row = r, !.act = act,
                                                    !.drain = D])
      BY <1>6 DEF OnRow
    <2>2. a \in Auditor /\ q \in Queue /\ D \in SUBSET Row
      BY <2>1, QueueTypes, RowFields DEF Typed, TypeOK
    <2> HIDE DEF D, a, q
    <2> DEFINE me == [Begin("grab", act, q) EXCEPT !.who = a, !.row = r, !.act = act,
                                                   !.drain = D]
    <2>a. Sound(me)
      BY <2>2, BegunSound
    <2>b. Calls(t, me)
      BY <2>1
    <2> HIDE DEF me
    <2>3. th[t].pc = "idle" /\ Goes(t) /\ UNCHANGED <<rows, presence, users, desk, stale>>
      BY <1>c, <2>a, <2>b
    <2>4. held' \in [Thread -> [Row -> RowForm \cup {None}]]
      BY <2>1, SeenForm, PutTyped DEF Lock, Typed
    <2> QED  BY <2>3, <2>4 DEF Kept, Typed, TypeOK
  <1>7. ASSUME NEW r \in Row, NEW a \in Auditor, Direct(t, a, r)
        PROVE  /\ th[t].pc = "idle" /\ Goes(t) /\ Kept
               /\ UNCHANGED <<rows, presence, users, desk, stale>>
    BY <1>0, <1>7, <1>c, BegunSound, QueueTypes DEF Direct, Calls
  <1> QED  BY <1>1, <1>2, <1>3, <1>4, <1>5, <1>6, <1>7, QueueTypes DEF Call

\* One row that nobody has locked.
LEMMA AloneTyped ==
    ASSUME Typed, NEW r \in Row, IniciarAnalise(r) \/ Delete(r) \/ Tick(r)
    PROVE  /\ rows' \in [Row -> RowForm] /\ \A s \in Row \ {r} : rows'[s] = rows[s]
           /\ rows[r].status # "gone"
           /\ \A t \in Thread : held[t][r] = None
           /\ rows'[r].origin # "none" =>
                 rows'[r].origin = rows[r].origin /\ rows'[r].auditor = rows[r].auditor
           /\ UNCHANGED <<presence, held, users, desk, th, stale>>
  <1>0. rows \in [Row -> RowForm]
    BY DEF Typed, TypeOK
  <1>1. rows[r].clock # "none" => rows[r].status \in ANALISE_ATIVA
    BY <1>0, RowFields
  <1>2. CASE IniciarAnalise(r)
    <2> DEFINE row == [rows[r] EXCEPT !.status = "working", !.clock = "running"]
    <2>1. rows[r].status \in ANALISE_ATIVA
      BY <1>2 DEF IniciarAnalise
    <2>a. rows[r] \in RowForm
      BY <1>0
    <2>b. row \in RowForm
      BY <2>a, <2>1, RowChanged
    <2>c. row.origin = rows[r].origin /\ row.auditor = rows[r].auditor
      BY <2>a, RowKept
    <2>2. row \in RowForm /\ row.origin = rows[r].origin /\ row.auditor = rows[r].auditor
      BY <2>b, <2>c
    <2> HIDE DEF row
    <2>3. Change(r, row)
      BY <1>2 DEF IniciarAnalise, row
    <2> QED  BY <1>0, <2>1, <2>2, <2>3 DEF Change, ANALISE_ATIVA
  <1>3. CASE Delete(r)
    <2>1. Change(r, Loose("gone")) /\ rows[r].status # "gone"
      BY <1>3 DEF Delete
    <2>2. Loose("gone") \in RowForm /\ Loose("gone").origin = "none"
      BY LooseForm
    <2> QED  BY <1>0, <2>1, <2>2 DEF Change
  <1>4. CASE Tick(r)
    <2> DEFINE row == [rows[r] EXCEPT !.clock = "over"]
    <2>1. rows[r].status \in ANALISE_ATIVA
      BY <1>1, <1>4 DEF Tick
    <2>a. rows[r] \in RowForm
      BY <1>0
    <2>b. row \in RowForm
      BY <2>a, <2>1, RowChanged
    <2>c. row.origin = rows[r].origin /\ row.auditor = rows[r].auditor
      BY <2>a, RowKept
    <2>2. row \in RowForm /\ row.origin = rows[r].origin /\ row.auditor = rows[r].auditor
      BY <2>b, <2>c
    <2> HIDE DEF row
    <2>3. Change(r, row)
      BY <1>4 DEF Tick, row
    <2> QED  BY <1>0, <2>1, <2>2, <2>3 DEF Change, ANALISE_ATIVA
  <1> QED  BY <1>2, <1>3, <1>4

-----------------------------------------------------------------------------
(* What the locks are for. *)

\* A row is locked by one transaction.
Exclusive == \A t, u \in Thread, r \in Row : held[t][r] # None /\ held[u][r] # None => t = u

\* Who is about to go online has his user locked and is not online elsewhere.
Entering(t) ==
    /\ th[t].act = "online" /\ th[t].pc \in {"status", "commit"} => users[th[t].who] = t
    /\ th[t].act = "online" /\ th[t].pc = "commit" =>
          \A p \in Queue : presence[p][th[t].who] = "online" => p = th[t].queue

\* Who is about to go away has his presence locked.
Leaving(t) ==
    /\ th[t].pc = "idle" => th[t].left = {}
    /\ \A a \in th[t].left : desk[th[t].queue][a] = t

\* The presence of an auditor is locked by t, which leaves him online.
OnDesk(t, a) ==
    /\ desk[th[t].queue][a] = t
    /\ presence[th[t].queue][a] = "online"
    /\ a \notin th[t].left

\* Whom a claim or a distribution is for is online and stays so.
Serving(t) ==
    /\ th[t].pc \in {"count", "pick"} => OnDesk(t, th[t].user)
    /\ th[t].pc \in {"assign", "seed"} /\ th[t].op # "direct" => OnDesk(t, th[t].user)
    /\ \A a \in th[t].asked : OnDesk(t, a)
    /\ th[t].asked # {} =>
          th[t].pc \in {"seat", "deal", "assign", "seed"} /\ th[t].op = "distribute"

Dealing == {"deal", "assign", "seed", "mark", "commit"}

\* What is about to be somebody's by the queue is so already, or he stays online.
Drafted(t) == \A r \in Row \ stale :
    held[t][r] # None /\ held[t][r].origin = "auto" =>
        \/ rows[r].origin = "auto" /\ rows[r].auditor = held[t][r].auditor
        \/ /\ th[t].pc \in Dealing /\ RowQueue(r) = th[t].queue
           /\ OnDesk(t, held[t][r].auditor)

\* What the queue gave to somebody who is about to go away is being taken from him.
Releasing(t) == \A r \in Row \ stale :
    RowQueue(r) = th[t].queue /\ Seen(t, r).origin = "auto"
            /\ Seen(t, r).auditor \in th[t].left =>
        /\ th[t].act = "quit" /\ th[t].who = Seen(t, r).auditor
        /\ \/ th[t].pc = "list"
           \/ th[t].pc = "grab" /\ (r \in th[t].drain \/ held[t][r] # None)

\* No transaction has locked a row that is concluded, and only transactions lock.
NotGone(t) == \A r \in Row :
    held[t][r] # None => rows[r].status # "gone" /\ th[t].pc # "idle"

Own(t) ==
    Entering(t) /\ Leaving(t) /\ Serving(t) /\ Drafted(t) /\ Releasing(t) /\ NotGone(t)

AuditInv ==
    /\ Typed
    /\ Exclusive /\ OnlineOnce /\ AutoWhileOnline
    /\ \A t \in Thread : Own(t)

-----------------------------------------------------------------------------
(* What the steps inside a transaction leave alone. *)

\* No lock is given back.
LocksKept ==
    /\ \A a \in Auditor, u \in Thread : users[a] = u => users'[a] = u
    /\ \A q \in Queue, a \in Auditor, u \in Thread : desk[q][a] = u => desk'[q][a] = u

\* Only rows that nobody else has locked and that are not concluded are written.
Touched(t) ==
    /\ \A u \in Thread \ {t} : held'[u] = held[u]
    /\ \A r \in Row :
          \/ held'[t][r] = held[t][r]
          \/ held'[t][r] # None /\ Free(t, r) /\ Seen(t, r).status # "gone"

\* They are nobody's by the queue, or whose they were.
Owners(t) == \A r \in Row :
    \/ held'[t][r] = held[t][r]
    \/ held'[t][r].origin = "none"
    \/ /\ held'[t][r].origin = Seen(t, r).origin
       /\ held'[t][r].auditor = Seen(t, r).auditor

LEMMA PutTouched ==
    ASSUME Typed, NEW t \in Thread, NEW S, NEW row \in RowForm, Put(t, S, row),
           \A r \in S : Free(t, r) /\ Seen(t, r).status # "gone"
    PROVE  /\ Touched(t)
           /\ row.origin = "none" => Owners(t)
  BY PutTyped, AuditRows DEF Touched, Owners

LEMMA LockTouched ==
    ASSUME Typed, NEW t \in Thread, NEW r \in Row, Lock(t, r),
           Free(t, r), Seen(t, r).status # "gone"
    PROVE  Touched(t) /\ Owners(t)
  <1>1. Seen(t, r) \in RowForm
    BY SeenForm DEF Typed
  <1>2. /\ \A s \in Row : held'[t][s] = IF s \in {r} THEN Seen(t, r) ELSE held[t][s]
        /\ \A u \in Thread \ {t} : held'[u] = held[u]
    BY <1>1, PutTyped DEF Lock
  <1> QED  BY <1>1, <1>2, AuditRows DEF Touched, Owners

LEMMA HeldTouched ==
    ASSUME NEW t \in Thread, UNCHANGED held
    PROVE  Touched(t) /\ Owners(t)
  BY DEF Touched, Owners

LEMMA FreeOfHeld ==
    ASSUME Exclusive, NEW t \in Thread, NEW r \in Row, held[t][r] # None
    PROVE  Free(t, r)
  BY DEF Exclusive, Free

LEMMA GrabbedFree ==
    ASSUME Typed, Exclusive, NEW t \in Thread, NEW r \in Grabbed(t)
    PROVE  /\ r \in Row /\ held[t][r] # None /\ Free(t, r)
           /\ Seen(t, r) = held[t][r] /\ Seen(t, r).status \in ANALISE_ATIVA
           /\ Seen(t, r).status # "gone"
  <1>1. r \in Active(t, th[t].who) /\ held[t][r] # None
    BY DEF Grabbed
  <1>2. r \in Row /\ Seen(t, r).status \in ANALISE_ATIVA
    BY <1>1, ActiveOwner
  <1> QED  BY <1>1, <1>2, FreeOfHeld DEF Seen, ANALISE_ATIVA

LEMMA PendingRow ==
    ASSUME NEW t \in Thread, NEW r \in Pending(t)
    PROVE  r \in Row /\ RowQueue(r) = th[t].queue /\ Seen(t, r).status # "gone"
  BY DEF Pending, Rows, ANALISE_ATIVA

\* The steps that write no row, or release rows, or change their clocks.
LEMMA RowsTouched ==
    ASSUME Typed, Exclusive, NEW t \in Thread, Inside(t)
    PROVE  \/ End(t)
           \/ Touched(t) /\ (Owners(t) \/ Assign(t) \/ AssignSeed(t))
  <1>1. CASE UNCHANGED held
    BY <1>1, HeldTouched
  <1>2. CASE Seize(t)
    <2> DEFINE taken == {r \in th[t].drain : Free(t, r) /\ Seen(t, r).status \in ANALISE_ATIVA}
    <2>1. Put(t, taken, Loose("free"))
      BY <1>2 DEF Seize
    <2>2. \A r \in taken : Free(t, r) /\ Seen(t, r).status # "gone"
      BY DEF ANALISE_ATIVA
    <2> HIDE DEF taken
    <2> QED  BY <2>1, <2>2, LooseForm, PutTouched
  <1>3. CASE Grab(t)
    <2>1. PICK r \in th[t].drain : /\ Free(t, r)
                                   /\ IF r \in Active(t, th[t].who) THEN Lock(t, r)
                                                                    ELSE UNCHANGED held
      BY <1>3 DEF Grab
    <2>2. CASE r \in Active(t, th[t].who) /\ Lock(t, r)
      <3>1. r \in Row /\ Seen(t, r).status # "gone"
        BY <2>2, ActiveOwner DEF ANALISE_ATIVA
      <3> QED  BY <2>1, <2>2, <3>1, LockTouched
    <2> QED  BY <1>1, <2>1, <2>2
  <1>4. CASE Activate(t)
    <2>1. ASSUME NEW p, held' = [held EXCEPT ![t] = [r \in Row |->
                              IF r \in InGroup(Grabbed(t), p)
                              THEN [@[r] EXCEPT !.clock = "running"] ELSE @[r]]]
          PROVE  Touched(t) /\ Owners(t)
      <3>0. held \in [Thread -> [Row -> RowForm \cup {None}]]
        BY DEF Typed, TypeOK
      <3>1. /\ \A u \in Thread \ {t} : held'[u] = held[u]
            /\ \A r \in Row : held'[t][r] = IF r \in InGroup(Grabbed(t), p)
                                            THEN [held[t][r] EXCEPT !.clock = "running"]
                                            ELSE held[t][r]
        BY <2>1, <3>0
      <3>2. ASSUME NEW r \in InGroup(Grabbed(t), p)
            PROVE  /\ r \in Row /\ Free(t, r) /\ Seen(t, r).status # "gone"
                   /\ [held[t][r] EXCEPT !.clock = "running"] # None
                   /\ [held[t][r] EXCEPT !.clock = "running"].origin = Seen(t, r).origin
                   /\ [held[t][r] EXCEPT !.clock = "running"].auditor = Seen(t, r).auditor
        <4>1. r \in Grabbed(t)
          BY DEF InGroup
        <4>2. /\ r \in Row /\ held[t][r] # None /\ Free(t, r)
              /\ Seen(t, r) = held[t][r] /\ held[t][r].status \in ANALISE_ATIVA
              /\ Seen(t, r).status # "gone"
          BY <4>1, GrabbedFree
        <4>3. held[t][r] \in RowForm
          BY <4>2, <3>0
        <4>4. [held[t][r] EXCEPT !.clock = "running"] \in RowForm
          BY <4>2, <4>3, RowChanged
        <4>5. [held[t][r] EXCEPT !.clock = "running"] # None
          BY <4>4, AuditRows
        <4>6. /\ [held[t][r] EXCEPT !.clock = "running"].origin = held[t][r].origin
              /\ [held[t][r] EXCEPT !.clock = "running"].auditor = held[t][r].auditor
          BY <4>3, RowKept
        <4> QED  BY <4>2, <4>5, <4>6
      <3> QED  BY <3>1, <3>2 DEF Touched, Owners
    <2> QED  BY <1>1, <1>4, <2>1 DEF Activate
  <1>5. ASSUME NEW S, NEW s \in {"free", "gone"}, Put(t, S, Loose(s)), S \subseteq Grabbed(t)
        PROVE  Touched(t) /\ Owners(t)
    <2>1. \A r \in S : Free(t, r) /\ Seen(t, r).status # "gone"
      BY <1>5, GrabbedFree
    <2> QED  BY <1>5, <2>1, LooseForm, PutTouched
  <1>6. CASE Quit(t)
    BY <1>5, <1>6 DEF Quit
  <1>7. CASE Remove(t)
    <2>1. \A p : InGroup(Grabbed(t), p) \subseteq Grabbed(t)
      BY DEF InGroup
    <2> QED  BY <1>5, <1>7, <2>1 DEF Remove
  <1>8. CASE Finish(t)
    <2>1. \A p : InGroup(Grabbed(t), p) \subseteq Grabbed(t)
      BY DEF InGroup
    <2> QED  BY <1>5, <1>8, <2>1 DEF Finish
  <1>9. CASE Aim(t)
    <2>1. ASSUME ~End(t)
          PROVE  th[t].row \in Pending(t) /\ Free(t, th[t].row) /\ Lock(t, th[t].row)
      BY <1>9, <2>1 DEF Aim
    <2> QED  BY <2>1, PendingRow, LockTouched
  <1>10. CASE Assign(t)
    <2> DEFINE group == {s \in Siblings(t, th[t].row) : Free(t, s)}
    <2>1. Put(t, group, Assigned(t)) /\ th[t].pc = "assign"
      BY <1>10 DEF Assign
    <2>2. \A r \in group : Free(t, r) /\ Seen(t, r).status # "gone"
      BY PendingRow DEF Siblings
    <2> HIDE DEF group
    <2> QED  BY <1>10, <2>1, <2>2, AssignedForm, PutTouched
  <1>11. CASE AssignSeed(t)
    <2>1. ASSUME ~End(t), ~UNCHANGED held
          PROVE  /\ th[t].pc = "seed" /\ th[t].row \in Pending(t) /\ Free(t, th[t].row)
                 /\ Put(t, {th[t].row}, Assigned(t))
      BY <1>11, <2>1 DEF AssignSeed
    <2> QED  BY <1>1, <1>11, <2>1, PendingRow, AssignedForm, PutTouched
  <1>12. CASE SetStatus(t)
    BY <1>1, <1>12 DEF SetStatus
  <1>13. ASSUME \/ Survey(t) \/ Ask(t) \/ List(t) \/ LockUser(t) \/ LockDesk(t) \/ Count(t)
                \/ Pick(t) \/ Invite(t) \/ Seat(t) \/ Load(t) \/ Deal(t) \/ Mark(t)
         PROVE  UNCHANGED held
    BY <1>13 DEF Survey, Ask, List, LockUser, LockDesk, Count, Pick, Invite, Seat, Load,
                 Deal, Mark
  <1> QED  BY <1>1, <1>2, <1>3, <1>4, <1>6, <1>7, <1>8, <1>9, <1>10, <1>11, <1>12, <1>13
           DEF Inside

LEMMA LocksInside ==
    ASSUME Typed, NEW t \in Thread, Inside(t)
    PROVE  End(t) \/ LocksKept
  <1>0. /\ users \in [Auditor -> Thread \cup {None}]
        /\ desk \in [Queue -> [Auditor -> Thread \cup {None}]]
        /\ None \notin Thread
    BY AuditActors DEF Typed, TypeOK
  <1>3. ASSUME UNCHANGED <<users, desk>>
        PROVE  LocksKept
    BY <1>3 DEF LocksKept
  <1>4. CASE LockUser(t)
    <2>1. /\ users[th[t].who] \in {None, t} /\ UNCHANGED desk
          /\ users' = [users EXCEPT ![th[t].who] = t]
      BY <1>4 DEF LockUser
    <2> QED  BY <1>0, <2>1 DEF LocksKept
  <1>5. CASE SetStatus(t)
    <2>1. \/ End(t)
          \/ /\ desk[th[t].queue][th[t].who] \in {None, t} /\ UNCHANGED users
             /\ desk' = [desk EXCEPT ![th[t].queue][th[t].who] = t]
      BY <1>5 DEF SetStatus
    <2> QED  BY <1>0, <2>1 DEF LocksKept
  <1>6. CASE LockDesk(t) \/ Mark(t)
    <2>1. /\ desk[th[t].queue][th[t].user] \in {None, t} /\ UNCHANGED users
          /\ desk' = [desk EXCEPT ![th[t].queue][th[t].user] = t]
      BY <1>6 DEF LockDesk, Mark
    <2> QED  BY <1>0, <2>1 DEF LocksKept
  <1>9. CASE Seat(t)
    <2>1. PICK a \in th[t].owed : /\ desk[th[t].queue][a] \in {None, t} /\ UNCHANGED users
                                  /\ desk' = [desk EXCEPT ![th[t].queue][a] = t]
      BY <1>9 DEF Seat
    <2> QED  BY <1>0, <2>1 DEF LocksKept
  <1>7. CASE Remove(t) \/ Aim(t) \/ AssignSeed(t)
    BY <1>3, <1>7 DEF Remove, Aim, AssignSeed
  <1>8. ASSUME \/ Survey(t) \/ Seize(t) \/ Ask(t) \/ List(t) \/ Grab(t) \/ Activate(t)
               \/ Quit(t) \/ Finish(t) \/ Count(t) \/ Pick(t) \/ Invite(t) \/ Load(t)
               \/ Deal(t) \/ Assign(t)
        PROVE  LocksKept
    BY <1>3, <1>8 DEF Survey, Seize, Ask, List, Grab, Activate, Quit, Finish, Count, Pick,
                      Invite, Load, Deal, Assign
  <1> QED  BY <1>4, <1>5, <1>6, <1>7, <1>8, <1>9 DEF Inside

-----------------------------------------------------------------------------
(* Threads that stand by, and threads at their end. *)

\* What others may do to the rows: nothing to those u has locked, and nothing that
\* gives a row to somebody by the queue.
Gentle(u) ==
    /\ stale \subseteq stale'
    /\ \A r \in Row : held[u][r] # None => rows'[r] = rows[r]
    /\ \A r \in Row \ stale' : rows'[r].origin = "auto" =>
          rows[r].origin = "auto" /\ rows[r].auditor = rows'[r].auditor

LEMMA Bystander ==
    ASSUME Typed, NEW u \in Thread, Own(u), Gentle(u), UNCHANGED presence,
           th'[u] = th[u], held'[u] = held[u],
           \A a \in Auditor : users[a] = u => users'[a] = u,
           \A q \in Queue, a \in Auditor : desk[q][a] = u => desk'[q][a] = u
    PROVE  Own(u)'
  <1>s. th[u] \in Variables /\ Fits(th[u])
    BY Self
  <1>l. th[u].left \in SUBSET Auditor /\ th[u].asked \in SUBSET Auditor
    BY Self
  <1>q. th[u].pc # "idle" => th[u].queue \in Queue
    BY <1>s DEF Fits
  <1>r. ASSUME NEW r \in Row \ stale', Seen(u, r)'.origin = "auto"
        PROVE  /\ r \in Row \ stale /\ Seen(u, r).origin = "auto"
               /\ Seen(u, r).auditor = Seen(u, r)'.auditor
    BY <1>r DEF Seen, Gentle
  <1>d. \A a \in Auditor : th[u].pc # "idle" /\ OnDesk(u, a) => OnDesk(u, a)'
    BY <1>q DEF OnDesk
  <1>1. Entering(u)'
    <2>1. th[u].act = "online" => th[u].who \in Auditor
      BY <1>s DEF Fits
    <2> QED  BY <2>1 DEF Own, Entering
  <1>2. Leaving(u)'
    <2>1. th[u].pc = "idle" => th[u].left = {}
      BY DEF Own, Leaving
    <2> QED  BY <1>l, <1>q, <2>1 DEF Own, Leaving
  <1>3. Serving(u)'
    <2>1. /\ th[u].pc \in {"count", "pick"} => th[u].user \in Auditor
          /\ th[u].pc \in {"assign", "seed"} => th[u].user \in Auditor
      BY <1>s DEF Fits
    <2>2. th[u].asked # {} => th[u].pc # "idle"
      BY DEF Own, Serving
    <2> QED  BY <1>d, <1>l, <2>1, <2>2 DEF Own, Serving
  <1>4. Drafted(u)'
    <2>1. ASSUME NEW r \in Row \ stale, held[u][r] # None, held[u][r].origin = "auto"
          PROVE  held[u][r].auditor \in Auditor
      BY <2>1, RowFields DEF Typed, TypeOK
    <2>2. "idle" \notin Dealing
      BY DEF Dealing
    <2>3. ASSUME NEW r \in Row \ stale', held[u][r] # None, held[u][r].origin = "auto"
          PROVE  \/ rows'[r].origin = "auto" /\ rows'[r].auditor = held[u][r].auditor
                 \/ /\ th[u].pc \in Dealing /\ RowQueue(r) = th[u].queue
                    /\ OnDesk(u, held[u][r].auditor)'
      <3>1. r \in Row \ stale /\ rows'[r] = rows[r]
        BY <2>3 DEF Gentle
      <3>2. \A x \in Auditor : x = held[u][r].auditor /\ th[u].pc \in Dealing /\ OnDesk(u, x)
                                  => OnDesk(u, held[u][r].auditor)'
        BY <1>d, <2>2 DEF OnDesk
      <3> QED  BY <2>1, <2>3, <3>1, <3>2 DEF Own, Drafted
    <2> QED  BY <2>3 DEF Drafted
  <1>5. Releasing(u)'
    BY <1>r DEF Own, Releasing
  <1>6. NotGone(u)'
    BY DEF Own, NotGone, Gentle
  <1> QED  BY <1>1, <1>2, <1>3, <1>4, <1>5, <1>6 DEF Own

LEMMA OwnIdle ==
    ASSUME Typed, NEW t \in Thread, End(t)
    PROVE  Own(t)'
  <1>1. Run(t, Idle) /\ \A r \in Row : held'[t][r] = None
    BY EndTyped
  <1>2. th'[t] = Idle
    BY <1>1, IdleSound, RunTyped
  <1>3. /\ th'[t].pc = "idle" /\ th'[t].act = "none" /\ th'[t].left = {}
        /\ th'[t].asked = {}
    BY <1>2 DEF Idle
  <1> QED  BY <1>1, <1>3 DEF Own, Entering, Leaving, Serving, Drafted, Releasing, NotGone

LEMMA StillExclusive ==
    ASSUME Typed, Exclusive, NEW t \in Thread, Touched(t)
    PROVE  Exclusive'
  BY DEF Exclusive, Touched, Free

LEMMA EndExclusive ==
    ASSUME Typed, Exclusive, NEW t \in Thread, End(t)
    PROVE  Exclusive'
  BY EndTyped DEF Exclusive

-----------------------------------------------------------------------------
(* Threads that go on. *)

\* What most steps do to the variables that the invariants are about.
Onward(t) ==
    /\ th'[t].pc # "idle"
    /\ th'[t].queue = th[t].queue /\ th'[t].left = th[t].left
    /\ th[t].pc \in Dealing => th'[t].pc \in Dealing

LEMMA DeskKept ==
    ASSUME Typed, NEW t \in Thread, th[t].pc # "idle", LocksKept, UNCHANGED presence,
           th'[t].queue = th[t].queue, th'[t].left = th[t].left,
           NEW a \in Auditor, OnDesk(t, a)
    PROVE  OnDesk(t, a)'
  <1>1. th[t].queue \in Queue
    BY Self DEF Fits
  <1> QED  BY <1>1 DEF OnDesk, LocksKept

LEMMA LeavingKept ==
    ASSUME Typed, NEW t \in Thread, Leaving(t), th[t].pc # "idle", LocksKept,
           Onward(t)
    PROVE  Leaving(t)'
  <1>1. th[t].queue \in Queue /\ th[t].left \in SUBSET Auditor
    BY Self DEF Fits
  <1> QED  BY <1>1 DEF Leaving, LocksKept, Onward

LEMMA NotGoneKept ==
    ASSUME NEW t \in Thread, NotGone(t), Touched(t), Onward(t), UNCHANGED rows
    PROVE  NotGone(t)'
  BY DEF NotGone, Touched, Seen, Onward

LEMMA DraftedKept ==
    ASSUME Typed, NEW t \in Thread, Drafted(t), Touched(t), Owners(t), LocksKept,
           th[t].pc # "idle", Onward(t), UNCHANGED <<rows, presence, stale>>
    PROVE  Drafted(t)'
  <1> SUFFICES ASSUME NEW r \in Row \ stale, held'[t][r] # None, held'[t][r].origin = "auto"
               PROVE  \/ rows[r].origin = "auto" /\ rows[r].auditor = held'[t][r].auditor
                      \/ /\ th'[t].pc \in Dealing /\ RowQueue(r) = th'[t].queue
                         /\ OnDesk(t, held[t][r].auditor)'
    BY DEF Drafted
  <1>1. CASE held[t][r] = None
    BY <1>1 DEF Owners, Seen
  <1>2. CASE held[t][r] # None
    <2>1. held[t][r].origin = "auto" /\ held[t][r].auditor = held'[t][r].auditor
      BY <1>2 DEF Owners, Seen
    <2>2. held[t][r].auditor \in Auditor
      BY <1>2, <2>1, RowFields DEF Typed, TypeOK
    <2>3. OnDesk(t, held[t][r].auditor) => OnDesk(t, held[t][r].auditor)'
      <3> DEFINE a == held[t][r].auditor
      <3>1. a' = a
        BY <2>1
      <3>2. \A x \in Auditor : OnDesk(t, x) => OnDesk(t, x)'
        BY DeskKept DEF Onward
      <3> QED  BY <2>2, <3>1, <3>2 DEF OnDesk
    <2> QED  BY <1>2, <2>1, <2>3 DEF Drafted, Onward
  <1> QED  BY <1>1, <1>2

\* What t sees to be an auditor's by the queue, it saw to be so.
LEMMA SeenBefore ==
    ASSUME NEW t \in Thread, Touched(t), Owners(t), UNCHANGED rows, NEW r \in Row,
           Seen(t, r)'.origin = "auto"
    PROVE  /\ Seen(t, r).origin = "auto" /\ Seen(t, r).auditor = Seen(t, r)'.auditor
           /\ held[t][r] # None => held'[t][r] # None
  BY DEF Touched, Owners, Seen

\* Unless t is taking rows from somebody.
LEMMA ReleasingKept ==
    ASSUME NEW t \in Thread, Releasing(t), Touched(t), Owners(t), Onward(t),
           UNCHANGED <<rows, stale>>, th[t].act # "quit" \/ th[t].pc \notin {"list", "grab"}
    PROVE  Releasing(t)'
  <1>1. ASSUME NEW r \in Row \ stale, RowQueue(r) = th'[t].queue, Seen(t, r)'.origin = "auto",
               Seen(t, r)'.auditor \in th'[t].left
        PROVE  FALSE
    BY <1>1, SeenBefore DEF Releasing, Onward
  <1> QED  BY <1>1 DEF Releasing

\* All but what is said of those who come or are served.
Settled(t) == Leaving(t) /\ Drafted(t) /\ Releasing(t) /\ NotGone(t)

LEMMA SettledKept ==
    ASSUME Typed, NEW t \in Thread, Own(t), Touched(t), Owners(t), LocksKept,
           th[t].pc # "idle", Onward(t), UNCHANGED <<rows, presence, stale>>,
           th[t].act # "quit" \/ th[t].pc \notin {"list", "grab"}
    PROVE  Settled(t)'
  BY LeavingKept, DraftedKept, ReleasingKept, NotGoneKept DEF Own, Settled, Onward

LEMMA RunTo ==
    ASSUME Typed, NEW t \in Thread, NEW me, Run(t, me)
    PROVE  th'[t] = me
  BY DEF Typed, TypeOK, Run

LEMMA TurnTo ==
    ASSUME Typed, NEW t \in Thread, NEW me \in Variables, Turn(t, me)
    PROVE  /\ th'[t].queue = me.queue /\ th'[t].left = me.left /\ th'[t].asked = me.asked
           /\ th'[t].pc \in {"list", "desk", "invite", "aim", "commit"}
           /\ th'[t].act \in {"none", "activate"}
  <1>1. CASE me.owed = {} /\ Run(t, [me EXCEPT !.pc = AfterExpiry(me.op), !.who = None,
                                               !.act = "none"])
    <2> DEFINE p == AfterExpiry(me.op)
    <2>1. p \in {"desk", "invite", "aim", "commit"}
      BY DEF AfterExpiry
    <2>2. th'[t] = [me EXCEPT !.pc = p, !.who = None, !.act = "none"]
      BY <1>1, RunTo
    <2> HIDE DEF p
    <2> QED  BY <2>1, <2>2 DEF Variables
  <1>2. ASSUME NEW a \in me.owed,
               Run(t, [me EXCEPT !.pc = "list", !.who = a, !.act = "activate"])
        PROVE  /\ th'[t].queue = me.queue /\ th'[t].left = me.left
               /\ th'[t].asked = me.asked /\ th'[t].pc = "list"
               /\ th'[t].act = "activate"
    <2>1. th'[t] = [me EXCEPT !.pc = "list", !.who = a, !.act = "activate"]
      BY <1>2, RunTo
    <2> QED  BY <2>1 DEF Variables
  <1> QED  BY <1>1, <1>2 DEF Turn

\* A step by which nobody is served and nobody is about to go online.
Plain(t) ==
    /\ th'[t].queue = th[t].queue /\ th'[t].left = th[t].left /\ th'[t].asked = th[t].asked
    /\ th'[t].act # "online"
    /\ th[t].pc \notin {"idle", "seat", "deal", "assign", "seed", "commit"}
    /\ th'[t].pc \notin {"idle", "count", "pick", "assign", "seed"}
    /\ th[t].pc \in Dealing => th'[t].pc \in Dealing
    /\ th[t].act # "quit" \/ th[t].pc \notin {"list", "grab"}

LEMMA PlainOwn ==
    ASSUME Typed, NEW t \in Thread, Own(t), Touched(t), Owners(t), LocksKept,
           Plain(t), UNCHANGED <<rows, presence, stale>>
    PROVE  Own(t)'
  <1>1. Settled(t)'
    BY SettledKept DEF Plain, Onward
  <1>2. Entering(t)'
    BY DEF Entering, Plain
  <1>3. th'[t].asked = {}
    BY DEF Own, Serving, Plain
  <1>4. Serving(t)'
    BY <1>3 DEF Serving, Plain
  <1> QED  BY <1>1, <1>2, <1>4 DEF Own, Settled

LEMMA NotOnline ==
    ASSUME Typed, NEW t \in Thread, th[t].pc \notin {"user", "status", "commit"}
    PROVE  th[t].act # "online"
  BY Self DEF Fits

\* An expiry, and the statements over an auditor's rows that release none.
LEMMA PlainSteps ==
    ASSUME Typed, NEW t \in Thread,
           \/ Survey(t) \/ Seize(t) \/ Ask(t) \/ Activate(t) \/ Finish(t) \/ Invite(t) \/ Mark(t)
           \/ (List(t) \/ Grab(t)) /\ th[t].act # "quit"
           \/ Remove(t) /\ ~End(t)
    PROVE  Plain(t)
  <1>s. th[t] \in Variables
    BY Self
  <1>d. \A p \in {"deal", "assign", "seed", "mark", "commit"} : p \in Dealing
    BY DEF Dealing
  <1>n. \A p \in {"expire", "seize", "ask", "grab", "list", "invite"} : p \notin Dealing
    BY DEF Dealing
  <1>1. CASE Survey(t)
    <2>1. th[t].pc = "expire"
      BY <1>1 DEF Survey
    <2>2. CASE Turn(t, th[t])
      BY <1>s, <1>n, <2>1, <2>2, TurnTo DEF Plain
    <2>3. ASSUME NEW D, Run(t, [th[t] EXCEPT !.pc = "seize", !.drain = D])
          PROVE  Plain(t)
      <3>1. th'[t] = [th[t] EXCEPT !.pc = "seize", !.drain = D]
        BY <2>3, RunTo
      <3>2. /\ th'[t].queue = th[t].queue /\ th'[t].left = th[t].left
            /\ th'[t].asked = th[t].asked /\ th'[t].act = th[t].act /\ th'[t].pc = "seize"
        BY <1>s, <3>1 DEF Variables
      <3> QED  BY <1>n, <2>1, <3>2, NotOnline DEF Plain
    <2> QED  BY <1>1, <2>2, <2>3 DEF Survey
  <1>2. CASE Seize(t)
    <2> DEFINE owed == {Seen(t, r).auditor : r \in {r \in th[t].drain :
                           Free(t, r) /\ Seen(t, r).status \in ANALISE_ATIVA}}
               me == [th[t] EXCEPT !.drain = {}, !.owed = owed]
    <2>1. th[t].pc = "seize" /\ Turn(t, me)
      BY <1>2 DEF Seize
    <2>2. owed \in SUBSET Auditor
      BY Self, SeenForm, RowFields DEF Typed
    <2> HIDE DEF owed
    <2>3. me \in Variables /\ me.queue = th[t].queue /\ me.left = th[t].left
          /\ me.asked = th[t].asked
      BY <1>s, <2>2 DEF Variables
    <2> HIDE DEF me
    <2> QED  BY <1>n, <2>1, <2>3, TurnTo DEF Plain
  <1>3. CASE Ask(t)
    <2> DEFINE next == [th[t] EXCEPT !.pc = "user", !.act = "quit"]
               me == [th[t] EXCEPT !.owed = @ \ {th[t].who}]
    <2>1. th[t].pc = "ask" /\ (Run(t, next) \/ Turn(t, me))
      BY <1>3 DEF Ask
    <2>2. me \in Variables /\ me.queue = th[t].queue /\ me.left = th[t].left
          /\ me.asked = th[t].asked
      BY <1>s DEF Variables
    <2>3. /\ next.queue = th[t].queue /\ next.left = th[t].left
          /\ next.asked = th[t].asked /\ next.act = "quit" /\ next.pc = "user"
      BY <1>s DEF Variables
    <2> HIDE DEF me, next
    <2>4. CASE Run(t, next)
      <3>1. th'[t] = next
        BY <2>4, RunTo
      <3> QED  BY <1>n, <2>1, <2>3, <3>1 DEF Plain
    <2>5. CASE Turn(t, me)
      BY <1>n, <2>1, <2>2, <2>5, TurnTo DEF Plain
    <2> QED  BY <2>1, <2>4, <2>5
  <1>4. CASE Activate(t)
    <2> DEFINE p == IF th[t].owed = {} THEN "commit" ELSE "ask"
               next == [th[t] EXCEPT !.pc = p]
    <2>1. th[t].pc = "grab" /\ th[t].act = "activate" /\ th'[t] = next
      BY <1>4, RunTo DEF Activate
    <2>2. p \in {"commit", "ask"}
      OBVIOUS
    <2> HIDE DEF p
    <2>3. /\ th'[t].queue = th[t].queue /\ th'[t].left = th[t].left
          /\ th'[t].asked = th[t].asked /\ th'[t].act = "activate" /\ th'[t].pc = p
      BY <1>s, <2>1 DEF Variables
    <2> QED  BY <1>n, <2>1, <2>2, <2>3 DEF Plain
  <1>5. ASSUME th[t].pc = "grab", th[t].act # "quit",
               Run(t, [th[t] EXCEPT !.pc = "list", !.act = "activate"])
        PROVE  Plain(t)
    <2>1. th'[t] = [th[t] EXCEPT !.pc = "list", !.act = "activate"]
      BY <1>5, RunTo
    <2>2. /\ th'[t].queue = th[t].queue /\ th'[t].left = th[t].left
          /\ th'[t].asked = th[t].asked /\ th'[t].act = "activate" /\ th'[t].pc = "list"
      BY <1>s, <2>1 DEF Variables
    <2> QED  BY <1>n, <1>5, <2>2 DEF Plain
  <1>6. CASE Finish(t)
    BY <1>5, <1>6 DEF Finish
  <1>8. CASE Remove(t) /\ ~End(t)
    <2>1. th[t].pc = "grab" /\ th[t].act \in {"return", "remove"}
      BY <1>8 DEF Remove
    <2>2. CASE Run(t, [th[t] EXCEPT !.pc = "list", !.act = "activate"])
      BY <1>5, <2>1, <2>2
    <2>3. CASE Run(t, [th[t] EXCEPT !.pc = "commit"])
      <3>1. th'[t] = [th[t] EXCEPT !.pc = "commit"]
        BY <2>3, RunTo
      <3>2. /\ th'[t].queue = th[t].queue /\ th'[t].left = th[t].left
            /\ th'[t].asked = th[t].asked /\ th'[t].act = th[t].act /\ th'[t].pc = "commit"
        BY <1>s, <3>1 DEF Variables
      <3> QED  BY <1>n, <2>1, <3>2, NotOnline DEF Plain
    <2> QED  BY <1>8, <2>2, <2>3 DEF Remove
  <1>9. CASE List(t) /\ th[t].act # "quit"
    <2>1. th[t].pc = "list"
          /\ Run(t, [th[t] EXCEPT !.pc = "grab", !.drain = Active(t, th[t].who)])
      BY <1>9 DEF List
    <2>2. th'[t] = [th[t] EXCEPT !.pc = "grab", !.drain = Active(t, th[t].who)]
      BY <2>1, RunTo
    <2>3. /\ th'[t].queue = th[t].queue /\ th'[t].left = th[t].left
          /\ th'[t].asked = th[t].asked /\ th'[t].act = th[t].act /\ th'[t].pc = "grab"
      BY <1>s, <2>1, <2>2 DEF Variables
    <2> QED  BY <1>n, <1>9, <2>1, <2>3, NotOnline DEF Plain
  <1>10. CASE Grab(t) /\ th[t].act # "quit"
    <2>1. PICK r \in th[t].drain : /\ th[t].pc = "grab"
                                   /\ Run(t, [th[t] EXCEPT !.drain = @ \ {r}])
      BY <1>10 DEF Grab
    <2>2. th'[t] = [th[t] EXCEPT !.drain = th[t].drain \ {r}]
      BY <2>1, RunTo
    <2>3. /\ th'[t].queue = th[t].queue /\ th'[t].left = th[t].left
          /\ th'[t].asked = th[t].asked /\ th'[t].act = th[t].act /\ th'[t].pc = "grab"
      BY <1>s, <2>1, <2>2 DEF Variables
    <2> QED  BY <1>n, <1>10, <2>1, <2>3, NotOnline DEF Plain
  <1>11. CASE Mark(t)
    <2>1. th[t].pc = "mark" /\ Run(t, [th[t] EXCEPT !.pc = "commit"])
      BY <1>11 DEF Mark
    <2>2. th'[t] = [th[t] EXCEPT !.pc = "commit"]
      BY <2>1, RunTo
    <2>3. /\ th'[t].queue = th[t].queue /\ th'[t].left = th[t].left
          /\ th'[t].asked = th[t].asked /\ th'[t].act = th[t].act /\ th'[t].pc = "commit"
      BY <1>s, <2>1, <2>2 DEF Variables
    <2> QED  BY <1>n, <1>d, <2>1, <2>3, NotOnline DEF Plain
  <1>12. CASE Invite(t)
    <2> DEFINE online == {a \in Auditor : SeenOnline(t, a)}
               p == IF online = {} THEN "commit" ELSE "seat"
    <2>1. th[t].pc = "invite" /\ th'[t] = [th[t] EXCEPT !.pc = p, !.owed = online]
      BY <1>12, RunTo DEF Invite
    <2>2. p \in {"commit", "seat"}
      OBVIOUS
    <2> HIDE DEF p, online
    <2>3. /\ th'[t].queue = th[t].queue /\ th'[t].left = th[t].left
          /\ th'[t].asked = th[t].asked /\ th'[t].act = th[t].act /\ th'[t].pc = p
      BY <1>s, <2>1 DEF Variables
    <2> QED  BY <1>n, <2>1, <2>2, <2>3, NotOnline DEF Plain
  <1> QED  BY <1>1, <1>2, <1>3, <1>4, <1>6, <1>8, <1>9, <1>10, <1>11, <1>12

\* A step that rows, presence and the history see nothing of.
Unseen == UNCHANGED <<rows, presence, stale>>

LEMMA Deals ==
    /\ "deal" \in Dealing /\ "assign" \in Dealing /\ "seed" \in Dealing
    /\ "mark" \in Dealing /\ "commit" \in Dealing
    /\ \A p \in {"idle", "list", "grab", "user", "status", "desk", "count", "pick", "seat",
                 "aim"} : p \notin Dealing
  BY DEF Dealing

\* A row that is somebody's by the queue is among his active rows.
LEMMA AutoActive ==
    ASSUME Typed, NEW t \in Thread, NEW r \in Row, RowQueue(r) = th[t].queue,
           Seen(t, r).origin = "auto"
    PROVE  r \in Active(t, Seen(t, r).auditor)
  <1>1. Seen(t, r) \in RowForm
    BY SeenForm DEF Typed
  <1>2. Seen(t, r).status \in ANALISE_ATIVA
    BY <1>1, RowFields
  <1> QED  BY <1>2 DEF Active, Rows

LEMMA LockUserOwn ==
    ASSUME Typed, NEW t \in Thread, Own(t), LockUser(t), LocksKept
    PROVE  Own(t)'
  <1>s. th[t] \in Variables /\ Fits(th[t])
    BY Self
  <1>1. /\ th[t].pc = "user" /\ users' = [users EXCEPT ![th[t].who] = t]
        /\ Unseen /\ UNCHANGED held /\ th'[t] = [th[t] EXCEPT !.pc = "status"]
    BY RunTo DEF LockUser, Unseen
  <1>2. /\ th'[t].queue = th[t].queue /\ th'[t].left = th[t].left
        /\ th'[t].asked = th[t].asked /\ th'[t].act = th[t].act /\ th'[t].pc = "status"
        /\ th'[t].who = th[t].who
    BY <1>s, <1>1 DEF Variables
  <1>3. Settled(t)'
    BY <1>1, <1>2, Deals, HeldTouched, SettledKept DEF Onward, Unseen
  <1>4. th[t].who \in Auditor /\ users \in [Auditor -> Thread \cup {None}]
    BY <1>s, <1>1 DEF Fits, Typed, TypeOK
  <1>5. users'[th'[t].who] = t
    BY <1>1, <1>2, <1>4
  <1>6. Entering(t)'
    BY <1>2, <1>5 DEF Entering
  <1>7. Serving(t)'
    BY <1>1, <1>2 DEF Own, Serving
  <1> QED  BY <1>3, <1>6, <1>7 DEF Own, Settled

LEMMA SetStatusOwn ==
    ASSUME Typed, OnlineOnce, NEW t \in Thread, Own(t), SetStatus(t), ~End(t), LocksKept
    PROVE  Own(t)'
  <1> DEFINE a == th[t].who
             q == th[t].queue
  <1>s. th[t] \in Variables /\ Fits(th[t])
    BY Self
  <1>1. /\ th[t].pc = "status" /\ desk' = [desk EXCEPT ![q][a] = t]
        /\ Unseen /\ UNCHANGED <<held, users>>
    BY DEF SetStatus, Unseen
  <1>2. /\ a \in Auditor /\ q \in Queue
        /\ desk \in [Queue -> [Auditor -> Thread \cup {None}]]
    BY <1>s, <1>1 DEF Fits, Typed, TypeOK
  <1>3. th[t].asked = {}
    BY <1>1 DEF Own, Serving
  <1>4. CASE th[t].act = "online"
    <2>1. /\ presence[q][a] = "online" \/ ~Conflict(q, a)
          /\ th'[t] = [th[t] EXCEPT !.pc = "commit"]
      BY <1>4, RunTo DEF SetStatus
    <2>2. /\ th'[t].queue = q /\ th'[t].left = th[t].left /\ th'[t].asked = th[t].asked
          /\ th'[t].act = "online" /\ th'[t].pc = "commit" /\ th'[t].who = a
      BY <1>s, <1>4, <2>1 DEF Variables
    <2>3. Settled(t)'
      BY <1>1, <2>2, Deals, HeldTouched, SettledKept DEF Onward, Unseen
    <2>4. \A p \in Queue : presence[p][a] = "online" => p = q
      BY <1>2, <2>1 DEF OnlineOnce, Conflict
    <2>5. users[a] = t
      BY <1>1, <1>4 DEF Own, Entering
    <2>6. Entering(t)'
      BY <1>1, <2>2, <2>4, <2>5 DEF Entering, Unseen
    <2>7. Serving(t)'
      BY <1>3, <2>2 DEF Serving
    <2> QED  BY <2>3, <2>6, <2>7 DEF Own, Settled
  <1>5. CASE th[t].act = "quit"
    <2>1. th'[t] = [th[t] EXCEPT !.pc = "list", !.left = @ \cup {a}]
      BY <1>5, RunTo DEF SetStatus
    <2>2. /\ th'[t].queue = q /\ th'[t].left = th[t].left \cup {a}
          /\ th'[t].asked = th[t].asked /\ th'[t].act = "quit" /\ th'[t].pc = "list"
          /\ th'[t].who = a
      BY <1>s, <1>5, <2>1 DEF Variables
    <2> HIDE DEF a, q
    <2>3. Leaving(t)'
      <3>1. \A x \in th[t].left : desk'[q][x] = t
        BY <1>2, Self DEF Own, Leaving, LocksKept, q
      <3>2. desk'[q][a] = t
        BY <1>1, <1>2 DEF a, q
      <3> QED  BY <2>2, <3>1, <3>2 DEF Leaving
    <2>4. Drafted(t)'
      BY <1>1, <2>2, Deals DEF Own, Drafted, Unseen
    <2>5. Releasing(t)'
      <3>1. ASSUME NEW r \in Row \ stale, RowQueue(r) = th[t].queue,
                   Seen(t, r).origin = "auto"
            PROVE  Seen(t, r).auditor \notin th[t].left
        BY <1>1, <3>1 DEF Own, Releasing
      <3>2. \A r \in Row : Seen(t, r)' = Seen(t, r)
        BY <1>1 DEF Seen, Unseen
      <3> QED  BY <1>1, <2>2, <3>1, <3>2 DEF Releasing, Unseen, q
    <2>6. Entering(t)' /\ Serving(t)' /\ NotGone(t)'
      BY <1>1, <1>3, <2>2 DEF Own, Entering, Serving, NotGone, Unseen
    <2> QED  BY <2>3, <2>4, <2>5, <2>6 DEF Own
  <1> QED  BY <1>4, <1>5 DEF SetStatus

\* The release of the rows of one who goes away.
LEMMA ListQuitOwn ==
    ASSUME Typed, NEW t \in Thread, Own(t), List(t), th[t].act = "quit", LocksKept
    PROVE  Own(t)'
  <1>s. th[t] \in Variables
    BY Self
  <1>1. /\ th[t].pc = "list" /\ Unseen /\ UNCHANGED held
        /\ th'[t] = [th[t] EXCEPT !.pc = "grab", !.drain = Active(t, th[t].who)]
    BY RunTo DEF List, Unseen
  <1>2. /\ th'[t].queue = th[t].queue /\ th'[t].left = th[t].left
        /\ th'[t].asked = th[t].asked /\ th'[t].act = "quit" /\ th'[t].pc = "grab"
        /\ th'[t].who = th[t].who /\ th'[t].drain = Active(t, th[t].who)
    BY <1>s, <1>1 DEF Variables
  <1>3. Onward(t) /\ Touched(t) /\ Owners(t)
    BY <1>1, <1>2, Deals, HeldTouched DEF Onward
  <1>4. Leaving(t)' /\ Drafted(t)' /\ NotGone(t)'
    BY <1>1, <1>3, LeavingKept, DraftedKept, NotGoneKept DEF Own, Unseen
  <1>5. Entering(t)' /\ Serving(t)'
    BY <1>1, <1>2 DEF Own, Entering, Serving
  <1>6. Releasing(t)'
    <2>1. ASSUME NEW r \in Row \ stale, RowQueue(r) = th[t].queue,
                 Seen(t, r).origin = "auto", Seen(t, r).auditor \in th[t].left
          PROVE  th[t].who = Seen(t, r).auditor /\ r \in Active(t, th[t].who)
      BY <2>1, AutoActive DEF Own, Releasing
    <2>2. \A r \in Row : Seen(t, r)' = Seen(t, r)
      BY <1>1 DEF Seen, Unseen
    <2> QED  BY <1>1, <1>2, <2>1, <2>2 DEF Releasing, Unseen
  <1> QED  BY <1>4, <1>5, <1>6 DEF Own

LEMMA GrabQuitOwn ==
    ASSUME Typed, NEW t \in Thread, Own(t), Grab(t), th[t].act = "quit", LocksKept,
           Touched(t), Owners(t)
    PROVE  Own(t)'
  <1>s. th[t] \in Variables
    BY Self
  <1>1. PICK r \in th[t].drain :
          /\ th[t].pc = "grab" /\ Unseen
          /\ IF r \in Active(t, th[t].who) THEN Lock(t, r) ELSE UNCHANGED held
          /\ th'[t] = [th[t] EXCEPT !.drain = th[t].drain \ {r}]
    BY RunTo DEF Grab, Unseen
  <1>2. /\ th'[t].queue = th[t].queue /\ th'[t].left = th[t].left
        /\ th'[t].asked = th[t].asked /\ th'[t].act = "quit" /\ th'[t].pc = "grab"
        /\ th'[t].who = th[t].who /\ th'[t].drain = th[t].drain \ {r}
    BY <1>s, <1>1 DEF Variables
  <1>3. Onward(t)
    BY <1>1, <1>2, Deals DEF Onward
  <1>4. Leaving(t)' /\ Drafted(t)' /\ NotGone(t)'
    BY <1>1, <1>3, LeavingKept, DraftedKept, NotGoneKept DEF Own, Unseen
  <1>5. Entering(t)' /\ Serving(t)'
    BY <1>1, <1>2 DEF Own, Entering, Serving
  <1>6. Releasing(t)'
    <2>1. ASSUME NEW s \in Row \ stale, RowQueue(s) = th[t].queue,
                 Seen(t, s)'.origin = "auto", Seen(t, s)'.auditor \in th[t].left
          PROVE  /\ th[t].who = Seen(t, s)'.auditor
                 /\ s \in th[t].drain \ {r} \/ held'[t][s] # None
      <3>1. /\ Seen(t, s).origin = "auto" /\ Seen(t, s).auditor = Seen(t, s)'.auditor
            /\ held[t][s] # None => held'[t][s] # None
        BY <1>1, <2>1, SeenBefore DEF Unseen
      <3>2. /\ th[t].who = Seen(t, s).auditor
            /\ s \in th[t].drain \/ held[t][s] # None
        BY <1>1, <2>1, <3>1 DEF Own, Releasing
      <3>3. s \in Active(t, th[t].who)
        BY <2>1, <3>1, <3>2, AutoActive
      <3>4. ASSUME s = r
            PROVE  held'[t][s] # None
        <4>1. Lock(t, s) /\ Seen(t, s) \in RowForm
          BY <1>1, <3>3, <3>4, SeenForm DEF Typed
        <4>2. held'[t][s] = Seen(t, s)
          BY <4>1, PutTyped DEF Lock
        <4> QED  BY <4>1, <4>2, AuditRows
      <3> QED  BY <3>1, <3>2, <3>4
    <2> QED  BY <1>1, <1>2, <2>1 DEF Releasing, Unseen
  <1> QED  BY <1>4, <1>5, <1>6 DEF Own

LEMMA QuitOwn ==
    ASSUME Typed, NEW t \in Thread, Own(t), Quit(t), LocksKept, Touched(t), Owners(t)
    PROVE  Own(t)'
  <1>s. th[t] \in Variables
    BY Self
  <1>1. /\ th[t].pc = "grab" /\ th[t].drain = {} /\ th[t].act = "quit" /\ Unseen
        /\ Put(t, Grabbed(t), Loose("free"))
    BY DEF Quit, Unseen
  <1>2. /\ th'[t].queue = th[t].queue /\ th'[t].left = th[t].left
        /\ th'[t].asked = th[t].asked /\ th'[t].act # "online"
        /\ th'[t].pc \in {"list", "desk", "invite", "aim", "commit"}
    <2>1. CASE Run(t, [th[t] EXCEPT !.pc = "commit"])
      <3>1. th'[t] = [th[t] EXCEPT !.pc = "commit"]
        BY <2>1, RunTo
      <3>2. /\ th'[t].queue = th[t].queue /\ th'[t].left = th[t].left
            /\ th'[t].asked = th[t].asked /\ th'[t].act = th[t].act /\ th'[t].pc = "commit"
        BY <1>s, <3>1 DEF Variables
      <3> QED  BY <1>1, <3>2
    <2>2. CASE Turn(t, [th[t] EXCEPT !.owed = @ \ {th[t].who}])
      <3> DEFINE me == [th[t] EXCEPT !.owed = @ \ {th[t].who}]
      <3>1. me \in Variables /\ me.queue = th[t].queue /\ me.left = th[t].left
            /\ me.asked = th[t].asked
        BY <1>s DEF Variables
      <3>2. Turn(t, me)
        BY <2>2
      <3> HIDE DEF me
      <3> QED  BY <3>1, <3>2, TurnTo
    <2> QED  BY <2>1, <2>2 DEF Quit
  <1>3. Onward(t)
    BY <1>1, <1>2, Deals DEF Onward
  <1>4. Leaving(t)' /\ Drafted(t)' /\ NotGone(t)'
    BY <1>1, <1>3, LeavingKept, DraftedKept, NotGoneKept DEF Own, Unseen
  <1>5. Entering(t)' /\ Serving(t)'
    BY <1>1, <1>2 DEF Own, Entering, Serving
  <1>6. Releasing(t)'
    <2>1. ASSUME NEW s \in Row \ stale, RowQueue(s) = th[t].queue,
                 Seen(t, s)'.origin = "auto", Seen(t, s)'.auditor \in th[t].left
          PROVE  FALSE
      <3>1. Seen(t, s).origin = "auto" /\ Seen(t, s).auditor = Seen(t, s)'.auditor
        BY <1>1, <2>1, SeenBefore DEF Unseen
      <3>2. th[t].who = Seen(t, s).auditor /\ held[t][s] # None
        BY <1>1, <2>1, <3>1 DEF Own, Releasing
      <3>3. s \in Grabbed(t)
        BY <2>1, <3>1, <3>2, AutoActive DEF Grabbed
      <3>4. held'[t][s] = Loose("free") /\ Loose("free") \in RowForm
            /\ Loose("free").origin = "none"
        BY <1>1, <3>3, LooseForm, PutTyped
      <3> QED  BY <2>1, <3>4, AuditRows DEF Seen
    <2> QED  BY <1>1, <1>2, <2>1 DEF Releasing, Unseen
  <1> QED  BY <1>4, <1>5, <1>6 DEF Own

\* A claim.
LEMMA ClaimOwn ==
    ASSUME Typed, NEW t \in Thread, Own(t), LockDesk(t) \/ Count(t) \/ Pick(t), LocksKept
    PROVE  Own(t)'
  <1>s. th[t] \in Variables /\ Fits(th[t])
    BY Self
  <1>1. /\ th[t].pc \in {"desk", "count", "pick"} /\ Unseen /\ UNCHANGED held
    BY DEF LockDesk, Count, Pick, Unseen
  <1>2. /\ th[t].user \in Auditor /\ th[t].queue \in Queue /\ th[t].op = "claim"
        /\ desk \in [Queue -> [Auditor -> Thread \cup {None}]]
    BY <1>s, <1>1 DEF Fits, Typed, TypeOK
  <1>3. PICK p \in {"count", "pick", "assign", "commit"} :
          /\ \/ th'[t] = [th[t] EXCEPT !.pc = p]
             \/ \E r : th'[t] = [th[t] EXCEPT !.pc = p, !.row = r]
          /\ p = "commit" \/ OnDesk(t, th[t].user)'
          /\ p = "assign" => th[t].pc = "pick"
    <2>1. CASE LockDesk(t)
      <3> DEFINE a == th[t].user
                 p == IF SeenOnline(t, a) THEN "count" ELSE "commit"
      <3>1. /\ desk' = [desk EXCEPT ![th[t].queue][a] = t]
            /\ th'[t] = [th[t] EXCEPT !.pc = p]
        BY <2>1, RunTo DEF LockDesk
      <3>2. th'[t].queue = th[t].queue /\ th'[t].left = th[t].left
        BY <1>s, <3>1 DEF Variables
      <3>3. SeenOnline(t, a) => OnDesk(t, a)'
        BY <1>1, <1>2, <3>1, <3>2 DEF SeenOnline, OnDesk, Unseen
      <3>4. a' = a
        <4>1. th'[t].user = th[t].user
          BY <1>s, <3>1 DEF Variables
        <4> QED  BY <4>1
      <3>5. SeenOnline(t, th[t].user) => OnDesk(t, th[t].user)'
        BY <3>3, <3>4
      <3> QED  BY <3>1, <3>5
    <2>2. ASSUME OnDesk(t, th[t].user), th'[t].queue = th[t].queue,
                 th'[t].left = th[t].left, th'[t].user = th[t].user
          PROVE  OnDesk(t, th[t].user)'
      <3>1. \A x \in Auditor : OnDesk(t, x) => OnDesk(t, x)'
        BY <1>1, <2>2, DeskKept DEF Unseen
      <3> QED  BY <1>2, <2>2, <3>1 DEF OnDesk
    <2>3. CASE Count(t)
      <3> DEFINE p == IF Active(t, th[t].user) = {} THEN "pick" ELSE "commit"
      <3>1. th[t].pc = "count" /\ th'[t] = [th[t] EXCEPT !.pc = p]
        BY <2>3, RunTo DEF Count
      <3> HIDE DEF p
      <3>2. /\ th'[t].queue = th[t].queue /\ th'[t].left = th[t].left
            /\ th'[t].user = th[t].user
        BY <1>s, <3>1 DEF Variables
      <3>3. OnDesk(t, th[t].user)'
        BY <2>2, <3>1, <3>2 DEF Own, Serving
      <3> QED  BY <3>1, <3>3 DEF p
    <2>4. CASE Pick(t)
      <3>1. th[t].pc = "pick"
        BY <2>4 DEF Pick
      <3>2. ASSUME NEW r, th'[t] = [th[t] EXCEPT !.pc = "assign", !.row = r]
            PROVE  OnDesk(t, th[t].user)'
        <4>1. /\ th'[t].queue = th[t].queue /\ th'[t].left = th[t].left
              /\ th'[t].user = th[t].user
          BY <1>s, <3>2 DEF Variables
        <4> QED  BY <2>2, <3>1, <4>1 DEF Own, Serving
      <3> QED  BY <2>4, <3>1, <3>2, RunTo DEF Pick
    <2> QED  BY <2>1, <2>3, <2>4
  <1>4. /\ th'[t].queue = th[t].queue /\ th'[t].left = th[t].left
        /\ th'[t].asked = th[t].asked /\ th'[t].act = th[t].act /\ th'[t].pc = p
        /\ th'[t].user = th[t].user
    BY <1>s, <1>3 DEF Variables
  <1>5. Settled(t)'
    BY <1>1, <1>4, Deals, HeldTouched, SettledKept DEF Onward, Unseen
  <1>6. Entering(t)'
    BY <1>1, <1>4, NotOnline DEF Entering
  <1>7. th'[t].asked = {}
    BY <1>1, <1>4 DEF Own, Serving
  <1>8. Serving(t)'
    BY <1>3, <1>4, <1>7 DEF Serving, OnDesk
  <1> QED  BY <1>5, <1>6, <1>8 DEF Own, Settled

\* A distribution.
LEMMA SeatOwn ==
    ASSUME Typed, NEW t \in Thread, Own(t), Seat(t), LocksKept
    PROVE  Own(t)'
  <1>s. th[t] \in Variables /\ Fits(th[t])
    BY Self
  <1>1. PICK a \in th[t].owed :
          /\ th[t].pc = "seat" /\ Unseen /\ UNCHANGED held
          /\ desk' = [desk EXCEPT ![th[t].queue][a] = t]
          /\ Run(t, [th[t] EXCEPT !.owed = @ \ {a},
                                  !.asked = IF SeenOnline(t, a) THEN @ \cup {a} ELSE @])
    BY DEF Seat, Unseen
  <1> DEFINE asked == IF SeenOnline(t, a) THEN th[t].asked \cup {a} ELSE th[t].asked
  <1>2. th'[t] = [th[t] EXCEPT !.owed = @ \ {a}, !.asked = asked]
    BY <1>1, RunTo
  <1>3. /\ a \in Auditor /\ th[t].queue \in Queue /\ th[t].op = "distribute"
        /\ th[t].asked \in SUBSET Auditor
        /\ desk \in [Queue -> [Auditor -> Thread \cup {None}]]
    BY <1>1, Self DEF Fits, Typed, TypeOK
  <1> HIDE DEF asked
  <1>4. /\ th'[t].queue = th[t].queue /\ th'[t].left = th[t].left
        /\ th'[t].asked = asked /\ th'[t].act = th[t].act /\ th'[t].pc = "seat"
        /\ th'[t].op = "distribute"
    BY <1>s, <1>1, <1>2, <1>3 DEF Variables
  <1>5. Settled(t)'
    BY <1>1, <1>4, Deals, HeldTouched, SettledKept DEF Onward, Unseen
  <1>6. Entering(t)'
    BY <1>4 DEF Entering
  <1>7. SeenOnline(t, a) => OnDesk(t, a)'
    BY <1>1, <1>3, <1>4 DEF SeenOnline, OnDesk, Unseen
  <1>8. \A x \in th[t].asked : OnDesk(t, x)'
    <2>1. \A x \in Auditor : OnDesk(t, x) => OnDesk(t, x)'
      BY <1>1, <1>4, DeskKept DEF Unseen
    <2> QED  BY <1>3, <2>1 DEF Own, Serving
  <1>9. \A x \in asked : OnDesk(t, x)'
    BY <1>7, <1>8 DEF asked
  <1>10. Serving(t)'
    BY <1>4, <1>9 DEF Serving
  <1> QED  BY <1>5, <1>6, <1>10 DEF Own, Settled

LEMMA DealOwn ==
    ASSUME Typed, NEW t \in Thread, Own(t), Load(t) \/ Deal(t), LocksKept
    PROVE  Own(t)'
  <1>s. th[t] \in Variables /\ Fits(th[t])
    BY Self
  <1>1. th[t].pc \in {"seat", "deal"} /\ Unseen /\ UNCHANGED held
    BY DEF Load, Deal, Unseen
  <1>2. th[t].queue \in Queue /\ th[t].op = "distribute" /\ th[t].asked \in SUBSET Auditor
    BY <1>1, Self DEF Fits
  <1>3. \E A \in SUBSET th[t].asked :
          /\ th'[t].queue = th[t].queue /\ th'[t].left = th[t].left
          /\ th'[t].asked = A /\ th'[t].act = th[t].act /\ th'[t].op = th[t].op
          /\ \/ th'[t].pc = "commit" /\ A = {}
             \/ th'[t].pc = "deal"
             \/ th'[t].pc = "assign" /\ th'[t].user \in th[t].asked
          /\ th[t].pc \in Dealing => th'[t].pc \in Dealing
    <2>1. CASE Load(t)
      <3> DEFINE eligible == {a \in th[t].asked : Active(t, a) = {}}
                 D == General(t)
      <3>1. \/ th'[t] = [th[t] EXCEPT !.pc = "commit", !.asked = {}]
            \/ th'[t] = [th[t] EXCEPT !.pc = "deal", !.asked = eligible, !.drain = D]
        BY <2>1, RunTo DEF Load
      <3>2. eligible \in SUBSET th[t].asked
        OBVIOUS
      <3> HIDE DEF eligible, D
      <3>3. CASE th'[t] = [th[t] EXCEPT !.pc = "commit", !.asked = {}]
        <4>1. /\ th'[t].queue = th[t].queue /\ th'[t].left = th[t].left /\ th'[t].op = th[t].op
              /\ th'[t].asked = {} /\ th'[t].act = th[t].act /\ th'[t].pc = "commit"
          BY <1>s, <3>3 DEF Variables
        <4> QED  BY <4>1, Deals
      <3>4. CASE th'[t] = [th[t] EXCEPT !.pc = "deal", !.asked = eligible, !.drain = D]
        <4>1. /\ th'[t].queue = th[t].queue /\ th'[t].left = th[t].left /\ th'[t].op = th[t].op
              /\ th'[t].asked = eligible /\ th'[t].act = th[t].act /\ th'[t].pc = "deal"
          BY <1>s, <3>4 DEF Variables
        <4> QED  BY <3>2, <4>1, Deals
      <3> QED  BY <3>1, <3>3, <3>4
    <2>2. CASE Deal(t)
      <3>2. ASSUME th'[t] = [th[t] EXCEPT !.pc = "commit", !.drain = {}, !.asked = {}]
            PROVE  /\ th'[t].queue = th[t].queue /\ th'[t].left = th[t].left
                   /\ th'[t].op = th[t].op /\ th'[t].asked = {}
                   /\ th'[t].act = th[t].act /\ th'[t].pc = "commit"
        BY <1>s, <3>2 DEF Variables
      <3>3. \/ th'[t] = [th[t] EXCEPT !.pc = "commit", !.drain = {}, !.asked = {}]
            \/ \E r \in th[t].drain, a \in th[t].asked :
                  th'[t] = [th[t] EXCEPT !.pc = "assign", !.user = a, !.row = r,
                              !.drain = @ \ InGroup(@, ProtocolOf[r]), !.asked = @ \ {a}]
        BY <2>2, RunTo DEF Deal
      <3>4. CASE th'[t] = [th[t] EXCEPT !.pc = "commit", !.drain = {}, !.asked = {}]
        BY <3>2, <3>4, Deals
      <3>5. CASE \E r \in th[t].drain, a \in th[t].asked :
                  th'[t] = [th[t] EXCEPT !.pc = "assign", !.user = a, !.row = r,
                              !.drain = @ \ InGroup(@, ProtocolOf[r]), !.asked = @ \ {a}]
        <4>1. PICK r \in th[t].drain, a \in th[t].asked :
                  th'[t] = [th[t] EXCEPT !.pc = "assign", !.user = a, !.row = r,
                              !.drain = @ \ InGroup(@, ProtocolOf[r]), !.asked = @ \ {a}]
          BY <3>5
        <4> DEFINE D == th[t].drain \ InGroup(th[t].drain, ProtocolOf[r])
        <4>2. th'[t] = [th[t] EXCEPT !.pc = "assign", !.user = a, !.row = r,
                                     !.drain = D, !.asked = @ \ {a}]
          BY <4>1
        <4> HIDE DEF D
        <4>3. /\ th'[t].queue = th[t].queue /\ th'[t].left = th[t].left
              /\ th'[t].op = th[t].op /\ th'[t].asked = th[t].asked \ {a}
              /\ th'[t].act = th[t].act /\ th'[t].pc = "assign" /\ th'[t].user = a
          BY <1>s, <4>2 DEF Variables
        <4> QED  BY <4>3, Deals
      <3> QED  BY <3>3, <3>4, <3>5
    <2> QED  BY <2>1, <2>2
  <1>4. Settled(t)'
    BY <1>1, <1>3, HeldTouched, SettledKept DEF Onward, Unseen
  <1>5. Entering(t)'
    BY <1>1, <1>3, NotOnline DEF Entering
  <1>6. \A x \in th[t].asked : OnDesk(t, x)'
    <2>1. \A x \in Auditor : OnDesk(t, x) => OnDesk(t, x)'
      BY <1>1, <1>3, DeskKept DEF Unseen
    <2> QED  BY <1>2, <2>1 DEF Own, Serving
  <1>7. Serving(t)'
    <2>1. th'[t].pc = "assign" => OnDesk(t, th[t].user)'
      BY <1>3, <1>6 DEF OnDesk
    <2>2. \A x \in th'[t].asked : OnDesk(t, x)'
      BY <1>3, <1>6
    <2>3. th'[t].asked # {} => th'[t].pc \in {"deal", "assign"} /\ th'[t].op = "distribute"
      BY <1>2, <1>3
    <2> QED  BY <1>3, <2>1, <2>2, <2>3 DEF Serving
  <1> QED  BY <1>4, <1>5, <1>7 DEF Own, Settled

\* A direction.
LEMMA AimOwn ==
    ASSUME Typed, NEW t \in Thread, Own(t), Aim(t), ~End(t), LocksKept,
           Touched(t), Owners(t)
    PROVE  Own(t)'
  <1>s. th[t] \in Variables /\ Fits(th[t])
    BY Self
  <1> DEFINE new == Seen(t, th[t].row).auditor # th[t].user
             others == Protocols(Active(t, th[t].user)) \ {ProtocolOf[th[t].row]}
             c == IF new /\ others # {} THEN "none" ELSE "running"
  <1>1. /\ th[t].pc = "aim" /\ Unseen
        /\ th'[t] = [th[t] EXCEPT !.pc = "assign", !.origin = "directed", !.clock = c]
    BY RunTo DEF Aim, Unseen
  <1> HIDE DEF c
  <1>2. th[t].op = "direct"
    BY <1>s, <1>1 DEF Fits
  <1>3. /\ th'[t].queue = th[t].queue /\ th'[t].left = th[t].left /\ th'[t].op = "direct"
        /\ th'[t].asked = th[t].asked /\ th'[t].act = th[t].act /\ th'[t].pc = "assign"
    BY <1>s, <1>1, <1>2 DEF Variables
  <1>4. Settled(t)'
    BY <1>1, <1>3, Deals, SettledKept DEF Onward, Unseen
  <1>5. Entering(t)'
    BY <1>3 DEF Entering
  <1>6. th'[t].asked = {}
    BY <1>1, <1>3 DEF Own, Serving
  <1>7. Serving(t)'
    BY <1>3, <1>6 DEF Serving
  <1> QED  BY <1>4, <1>5, <1>7 DEF Own, Settled

\* The assignment of rows.
LEMMA HandsOwn ==
    ASSUME Typed, NEW t \in Thread, Own(t), Unseen, LocksKept, Touched(t),
           th[t].pc \in {"assign", "seed"},
           NEW S \in SUBSET Pending(t), Put(t, S, Assigned(t)) \/ (S = {} /\ UNCHANGED held),
           NEW p, p \in {"seed", AfterAssign(th[t].op)} \/ (p = "commit" /\ th[t].op = "claim"),
           Run(t, [th[t] EXCEPT !.pc = p])
    PROVE  Own(t)'
  <1>s. th[t] \in Variables /\ Fits(th[t])
    BY Self
  <1>1. /\ th[t].op \in {"claim", "distribute", "direct"} /\ th[t].user \in Auditor
        /\ th[t].origin = "auto" <=> th[t].op \in {"claim", "distribute"}
        /\ th[t].queue \in Queue
    BY <1>s DEF Fits
  <1>2. /\ p \in {"seed", "commit", "deal", "mark"}
        /\ p = "deal" => th[t].op = "distribute"
        /\ p \in {"commit", "mark"} => th[t].op # "distribute"
    BY <1>1 DEF AfterAssign
  <1>3. th'[t] = [th[t] EXCEPT !.pc = p]
    BY RunTo
  <1>4. /\ th'[t].queue = th[t].queue /\ th'[t].left = th[t].left /\ th'[t].op = th[t].op
        /\ th'[t].asked = th[t].asked /\ th'[t].act = th[t].act /\ th'[t].pc = p
        /\ th'[t].user = th[t].user
    BY <1>s, <1>3 DEF Variables
  <1>5. Onward(t)
    BY <1>2, <1>4, Deals DEF Onward
  <1>6. Leaving(t)' /\ NotGone(t)'
    BY <1>5, LeavingKept, NotGoneKept DEF Own, Unseen
  <1>7. Entering(t)'
    BY <1>4, NotOnline DEF Entering
  <1>8. \A x \in Auditor : OnDesk(t, x) => OnDesk(t, x)'
    BY <1>4, DeskKept DEF Unseen
  <1>9. th[t].op # "direct" => OnDesk(t, th[t].user)
    BY DEF Own, Serving
  <1>10. Serving(t)'
    <2>1. th'[t].pc = "seed" /\ th'[t].op # "direct" => OnDesk(t, th[t].user)'
      BY <1>1, <1>4, <1>8, <1>9 DEF OnDesk
    <2>2. \A x \in th[t].asked : OnDesk(t, x)'
      BY <1>8, Self DEF Own, Serving
    <2>3. th[t].asked # {} => th[t].op = "distribute"
      BY DEF Own, Serving
    <2> QED  BY <1>2, <1>4, <2>1, <2>2, <2>3 DEF Serving
  <1>11. \A r \in Row : r \notin S => held'[t][r] = held[t][r]
    BY AssignedForm, PutTyped
  <1>12. ASSUME NEW r \in S
         PROVE  /\ r \in Row /\ RowQueue(r) = th[t].queue
                /\ held'[t][r] = Assigned(t) /\ Assigned(t) # None
    BY AssignedForm, PutTyped, PendingRow, AuditRows
  <1>13. Assigned(t).auditor = th[t].user /\ Assigned(t).origin = th[t].origin
    BY DEF Assigned
  <1>14. Drafted(t)'
    <2> SUFFICES ASSUME NEW r \in Row \ stale, held'[t][r] # None,
                        held'[t][r].origin = "auto",
                        ~(rows[r].origin = "auto" /\ rows[r].auditor = held'[t][r].auditor)
                 PROVE  RowQueue(r) = th[t].queue /\ OnDesk(t, held[t][r].auditor)'
      BY <1>4, <1>5, Deals, <1>2 DEF Drafted, Unseen
    <2>1. \E x \in Auditor : held'[t][r].auditor = x /\ OnDesk(t, x)
                             /\ RowQueue(r) = th[t].queue
      <3>1. CASE r \in S
        BY <1>1, <1>9, <1>12, <1>13, <3>1
      <3>2. CASE r \notin S
        <4>1. held'[t][r] = held[t][r]
          BY <1>11, <3>2
        <4>2. held[t][r].auditor \in Auditor
          BY <4>1, RowFields DEF Typed, TypeOK
        <4> QED  BY <4>1, <4>2 DEF Own, Drafted
      <3> QED  BY <3>1, <3>2
    <2> QED  BY <1>8, <2>1 DEF OnDesk
  <1>15. Releasing(t)'
    <2>1. ASSUME NEW r \in Row \ stale, RowQueue(r) = th[t].queue,
                 Seen(t, r)'.origin = "auto", Seen(t, r)'.auditor \in th[t].left
          PROVE  FALSE
      <3>1. CASE r \in S
        <4>1. Seen(t, r)' = Assigned(t)
          BY <1>12, <3>1 DEF Seen
        <4> QED  BY <1>1, <1>9, <1>13, <2>1, <4>1 DEF OnDesk
      <3>2. CASE r \notin S
        <4>1. Seen(t, r)' = Seen(t, r)
          BY <1>11, <3>2 DEF Seen, Unseen
        <4> QED  BY <2>1, <4>1 DEF Own, Releasing
      <3> QED  BY <3>1, <3>2
    <2> QED  BY <1>4, <2>1 DEF Releasing, Unseen
  <1> QED  BY <1>6, <1>7, <1>10, <1>14, <1>15 DEF Own

LEMMA AssignOwn ==
    ASSUME Typed, NEW t \in Thread, Own(t), Assign(t), LocksKept, Touched(t)
    PROVE  Own(t)'
  <1> DEFINE group == {s \in Siblings(t, th[t].row) : Free(t, s)}
             p == IF group = {} THEN "seed" ELSE AfterAssign(th[t].op)
  <1>1. /\ th[t].pc = "assign" /\ Put(t, group, Assigned(t)) /\ Unseen
        /\ Run(t, [th[t] EXCEPT !.pc = p])
    BY DEF Assign, Unseen
  <1>2. group \in SUBSET Pending(t) /\ p \in {"seed", AfterAssign(th[t].op)}
    BY DEF Siblings
  <1> HIDE DEF group, p
  <1> QED  BY <1>1, <1>2, HandsOwn

LEMMA AssignSeedOwn ==
    ASSUME Typed, NEW t \in Thread, Own(t), AssignSeed(t), ~End(t), LocksKept, Touched(t)
    PROVE  Own(t)'
  <1>1. th[t].pc = "seed" /\ Unseen
    BY DEF AssignSeed, Unseen
  <1>2. CASE /\ th[t].row \in Pending(t) /\ Put(t, {th[t].row}, Assigned(t))
             /\ Run(t, [th[t] EXCEPT !.pc = AfterAssign(th[t].op)])
    <2> DEFINE S == {th[t].row}
               p == AfterAssign(th[t].op)
    <2>1. S \in SUBSET Pending(t) /\ Put(t, S, Assigned(t)) /\ Run(t, [th[t] EXCEPT !.pc = p])
          /\ p \in {"seed", AfterAssign(th[t].op)}
      BY <1>2
    <2> HIDE DEF S, p
    <2> QED  BY <1>1, <2>1, HandsOwn
  <1>3. CASE th[t].op = "claim" /\ UNCHANGED held /\ Run(t, [th[t] EXCEPT !.pc = "commit"])
    <2> DEFINE S == {}
               p == "commit"
    <2>1. S \in SUBSET Pending(t) /\ S = {} /\ p = "commit" /\ Run(t, [th[t] EXCEPT !.pc = p])
      BY <1>3
    <2> HIDE DEF S, p
    <2> QED  BY <1>1, <1>3, <2>1, HandsOwn
  <1> QED  BY <1>2, <1>3 DEF AssignSeed

\* Every step inside a transaction.
LEMMA InsideOwn ==
    ASSUME Typed, Exclusive, OnlineOnce, NEW t \in Thread, Own(t), Inside(t)
    PROVE  Own(t)'
  <1>1. CASE End(t)
    BY <1>1, OwnIdle
  <1>2. CASE ~End(t)
    <2>1. /\ Unseen /\ LocksKept /\ Touched(t)
          /\ (Owners(t) \/ Assign(t) \/ AssignSeed(t))
      BY <1>2, InsideQuiet, LocksInside, RowsTouched DEF Unseen
    <2>2. CASE Assign(t)
      BY <2>1, <2>2, AssignOwn
    <2>3. CASE AssignSeed(t)
      BY <1>2, <2>1, <2>3, AssignSeedOwn
    <2>4. ASSUME Owners(t), Plain(t)
          PROVE  Own(t)'
      BY <2>1, <2>4, PlainOwn DEF Unseen
    <2>5. CASE Owners(t)
      <3>1. CASE \/ Survey(t) \/ Seize(t) \/ Ask(t) \/ Activate(t) \/ Finish(t)
                 \/ Invite(t) \/ Mark(t) \/ Remove(t)
                 \/ (List(t) \/ Grab(t)) /\ th[t].act # "quit"
        BY <1>2, <2>4, <2>5, <3>1, PlainSteps
      <3>2. CASE List(t) /\ th[t].act = "quit"
        BY <2>1, <3>2, ListQuitOwn
      <3>3. CASE Grab(t) /\ th[t].act = "quit"
        BY <2>1, <2>5, <3>3, GrabQuitOwn
      <3>4. CASE Quit(t)
        BY <2>1, <2>5, <3>4, QuitOwn
      <3>5. CASE LockUser(t)
        BY <2>1, <3>5, LockUserOwn
      <3>6. CASE SetStatus(t)
        BY <1>2, <2>1, <3>6, SetStatusOwn
      <3>7. CASE LockDesk(t) \/ Count(t) \/ Pick(t)
        BY <2>1, <3>7, ClaimOwn
      <3>8. CASE Seat(t)
        BY <2>1, <3>8, SeatOwn
      <3>9. CASE Load(t) \/ Deal(t)
        BY <2>1, <3>9, DealOwn
      <3>10. CASE Aim(t)
        BY <1>2, <2>1, <2>5, <3>10, AimOwn
      <3> QED  BY <2>2, <2>3, <3>1, <3>2, <3>3, <3>4, <3>5, <3>6, <3>7, <3>8, <3>9, <3>10
               DEF Inside
    <2> QED  BY <2>1, <2>2, <2>3, <2>5
  <1> QED  BY <1>1, <1>2

LEMMA InsideInv ==
    ASSUME AuditInv, NEW t \in Thread, Inside(t)
    PROVE  AuditInv'
  <1>0. Typed /\ Exclusive /\ OnlineOnce /\ AutoWhileOnline
    BY DEF AuditInv
  <1>1. Typed'
    BY <1>0, StepTyped DEF Step, Inside
  <1>2. UNCHANGED <<rows, presence, stale>>
    BY InsideQuiet
  <1>3. Exclusive'
    BY <1>0, RowsTouched, StillExclusive, EndExclusive
  <1>4. OnlineOnce' /\ AutoWhileOnline'
    BY <1>0, <1>2 DEF OnlineOnce, AutoWhileOnline
  <1>5. Own(t)'
    BY <1>0, InsideOwn DEF AuditInv
  <1>6. ASSUME NEW u \in Thread \ {t}
        PROVE  Own(u)'
    <2>1. th'[u] = th[u]
      <3>1. Goes(t)
        BY <1>0, InsideGoes
      <3> QED  BY <1>0, <3>1, RunTyped DEF Goes
    <2>2. held'[u] = held[u]
      BY <1>0, RowsTouched, EndTyped DEF Touched
    <2>3. /\ \A a \in Auditor : users[a] = u => users'[a] = u
          /\ \A q \in Queue, a \in Auditor : desk[q][a] = u => desk'[q][a] = u
      BY <1>0, LocksInside, EndTyped DEF LocksKept
    <2>4. Gentle(u)
      BY <1>2 DEF Gentle
    <2> QED  BY <1>0, <1>2, <2>1, <2>2, <2>3, <2>4, Bystander DEF AuditInv
  <1> QED  BY <1>1, <1>3, <1>4, <1>5, <1>6 DEF AuditInv

-----------------------------------------------------------------------------
(* The beginnings and the ends of transactions. *)

\* A transaction begins with nothing but, in some, a first row locked.
LEMMA CallMoves ==
    ASSUME Typed, NEW t \in Thread, Own(t), Call(t)
    PROVE  /\ Touched(t) /\ Owners(t)
           /\ th'[t].left = {} /\ th'[t].asked = {}
           /\ th'[t].pc \in {"expire", "user", "list", "grab", "save"}
  <1>0. \A r \in Row : held[t][r] = None /\ Seen(t, r) = rows[r]
    BY CallGoes DEF Own, NotGone, Seen
  <1>a. ASSUME NEW me, Calls(t, me), me.left = {}, me.asked = {},
               me.pc \in {"expire", "user", "list", "grab", "save"}
        PROVE  /\ th'[t].left = {} /\ th'[t].asked = {}
               /\ th'[t].pc \in {"expire", "user", "list", "grab", "save"}
    BY <1>a, RunTo DEF Calls
  <1>b. ASSUME NEW me, Calls(t, me), UNCHANGED held, me.left = {}, me.asked = {},
               me.pc \in {"expire", "user", "list", "grab", "save"}
        PROVE  /\ Touched(t) /\ Owners(t)
               /\ th'[t].left = {} /\ th'[t].asked = {}
               /\ th'[t].pc \in {"expire", "user", "list", "grab", "save"}
    BY <1>a, <1>b, HeldTouched
  <1>1. ASSUME NEW q, Sweep(t, q)
        PROVE  /\ Touched(t) /\ Owners(t)
               /\ th'[t].left = {} /\ th'[t].asked = {}
               /\ th'[t].pc \in {"expire", "user", "list", "grab", "save"}
    <2> DEFINE me == Begin("expire", "sweep", q)
    <2>1. /\ me.left = {} /\ me.asked = {}
          /\ me.pc \in {"expire", "user", "list", "grab", "save"}
      BY DEF Begin, Idle
    <2>2. Calls(t, me) /\ UNCHANGED held
      BY <1>1 DEF Sweep
    <2> HIDE DEF me
    <2> QED  BY <1>b, <2>1, <2>2
  <1>8. ASSUME NEW q, Distribute(t, q)
        PROVE  /\ Touched(t) /\ Owners(t)
               /\ th'[t].left = {} /\ th'[t].asked = {}
               /\ th'[t].pc \in {"expire", "user", "list", "grab", "save"}
    <2> DEFINE me == Begin("expire", "distribute", q)
    <2>1. /\ me.left = {} /\ me.asked = {}
          /\ me.pc \in {"expire", "user", "list", "grab", "save"}
      BY DEF Begin, Idle
    <2>2. Calls(t, me) /\ UNCHANGED held
      BY <1>8 DEF Distribute
    <2> HIDE DEF me
    <2> QED  BY <1>b, <2>1, <2>2
  <1>2. ASSUME NEW q, NEW a, Claim(t, q, a)
        PROVE  /\ Touched(t) /\ Owners(t)
               /\ th'[t].left = {} /\ th'[t].asked = {}
               /\ th'[t].pc \in {"expire", "user", "list", "grab", "save"}
    <2> DEFINE me == [Begin("expire", "claim", q) EXCEPT !.user = a]
    <2>1. /\ me.left = {} /\ me.asked = {}
          /\ me.pc \in {"expire", "user", "list", "grab", "save"}
      BY DEF Begin, Idle
    <2>2. Calls(t, me) /\ UNCHANGED held
      BY <1>2 DEF Claim
    <2> HIDE DEF me
    <2> QED  BY <1>b, <2>1, <2>2
  <1>9. ASSUME NEW q, NEW a, RemoveByControl(t, q, a)
        PROVE  /\ Touched(t) /\ Owners(t)
               /\ th'[t].left = {} /\ th'[t].asked = {}
               /\ th'[t].pc \in {"expire", "user", "list", "grab", "save"}
    <2> DEFINE me == [Begin("list", "remove", q) EXCEPT !.who = a, !.act = "remove"]
    <2>1. /\ me.left = {} /\ me.asked = {}
          /\ me.pc \in {"expire", "user", "list", "grab", "save"}
      BY DEF Begin, Idle
    <2>2. Calls(t, me) /\ UNCHANGED held
      BY <1>9 DEF RemoveByControl
    <2> HIDE DEF me
    <2> QED  BY <1>b, <2>1, <2>2
  <1>3. ASSUME NEW q, NEW a, NEW act, SetAuditorStatus(t, q, a, act)
        PROVE  /\ Touched(t) /\ Owners(t)
               /\ th'[t].left = {} /\ th'[t].asked = {}
               /\ th'[t].pc \in {"expire", "user", "list", "grab", "save"}
    <2> DEFINE me == [Begin("user", "status", q) EXCEPT !.who = a, !.act = act]
    <2>1. /\ me.left = {} /\ me.asked = {}
          /\ me.pc \in {"expire", "user", "list", "grab", "save"}
      BY DEF Begin, Idle
    <2>2. Calls(t, me) /\ UNCHANGED held
      BY <1>3 DEF SetAuditorStatus
    <2> HIDE DEF me
    <2> QED  BY <1>b, <2>1, <2>2
  <1>4. ASSUME NEW r \in Row, Import(t, r)
        PROVE  /\ Touched(t) /\ Owners(t)
               /\ th'[t].left = {} /\ th'[t].asked = {}
               /\ th'[t].pc \in {"expire", "user", "list", "grab", "save"}
    <2>1. /\ Calls(t, Begin("expire", "distribute", RowQueue(r)))
          /\ rows[r].status = "absent" /\ \A u \in Thread : held[u][r] = None
          /\ Put(t, {r}, Loose("free"))
      BY <1>4 DEF Import
    <2>2. \A s \in {r} : Free(t, s) /\ Seen(t, s).status # "gone"
      BY <1>0, <2>1 DEF Free
    <2>3. Touched(t) /\ Owners(t)
      BY <2>1, <2>2, LooseForm, PutTouched
    <2> DEFINE me == Begin("expire", "distribute", RowQueue(r))
    <2>4. /\ me.left = {} /\ me.asked = {}
          /\ me.pc \in {"expire", "user", "list", "grab", "save"}
      BY DEF Begin, Idle
    <2>5. Calls(t, me)
      BY <2>1
    <2> HIDE DEF me
    <2> QED  BY <1>a, <2>3, <2>4, <2>5
  <1>5. ASSUME NEW r \in Row, PatchRead(t, r)
        PROVE  /\ Touched(t) /\ Owners(t)
               /\ th'[t].left = {} /\ th'[t].asked = {}
               /\ th'[t].pc \in {"expire", "user", "list", "grab", "save"}
    <2> DEFINE me == [Begin("save", "patch", RowQueue(r)) EXCEPT !.row = r, !.copy = rows[r]]
    <2>1. /\ me.left = {} /\ me.asked = {}
          /\ me.pc \in {"expire", "user", "list", "grab", "save"}
      BY DEF Begin, Idle
    <2>2. Calls(t, me) /\ UNCHANGED held
      BY <1>5 DEF PatchRead
    <2> HIDE DEF me
    <2> QED  BY <1>b, <2>1, <2>2
  <1>6. ASSUME NEW r \in Row, NEW act, OnRow(t, r, act)
        PROVE  /\ Touched(t) /\ Owners(t)
               /\ th'[t].left = {} /\ th'[t].asked = {}
               /\ th'[t].pc \in {"expire", "user", "list", "grab", "save"}
    <2> DEFINE a == rows[r].auditor
               q == RowQueue(r)
               mine == {s \in Row : /\ RowQueue(s) = q /\ rows[s].auditor = a
                                    /\ act = "finish" => ProtocolOf[s] = ProtocolOf[r]}
               D == mine \ {r}
    <2>1. /\ rows[r].status \in ANALISE_ATIVA /\ Free(t, r) /\ Lock(t, r)
          /\ Calls(t, [Begin("grab", act, q) EXCEPT !.who = a, !.row = r, !.act = act,
                                                    !.drain = D])
      BY <1>6 DEF OnRow
    <2> HIDE DEF a, q, D
    <2>2. Touched(t) /\ Owners(t)
      BY <1>0, <2>1, LockTouched DEF ANALISE_ATIVA
    <2> DEFINE me == [Begin("grab", act, q) EXCEPT !.who = a, !.row = r, !.act = act,
                                                   !.drain = D]
    <2>4. /\ me.left = {} /\ me.asked = {}
          /\ me.pc \in {"expire", "user", "list", "grab", "save"}
      BY DEF Begin, Idle
    <2>5. Calls(t, me)
      BY <2>1
    <2> HIDE DEF me
    <2> QED  BY <1>a, <2>2, <2>4, <2>5
  <1>7. ASSUME NEW r, NEW a, Direct(t, a, r)
        PROVE  /\ Touched(t) /\ Owners(t)
               /\ th'[t].left = {} /\ th'[t].asked = {}
               /\ th'[t].pc \in {"expire", "user", "list", "grab", "save"}
    <2> DEFINE me == [Begin("expire", "direct", RowQueue(r)) EXCEPT !.user = a, !.row = r]
    <2>1. /\ me.left = {} /\ me.asked = {}
          /\ me.pc \in {"expire", "user", "list", "grab", "save"}
      BY DEF Begin, Idle
    <2>2. Calls(t, me) /\ UNCHANGED held
      BY <1>7 DEF Direct
    <2> HIDE DEF me
    <2> QED  BY <1>b, <2>1, <2>2
  <1> QED  BY <1>1, <1>2, <1>3, <1>4, <1>5, <1>6, <1>7, <1>8, <1>9 DEF Call

LEMMA CallInv ==
    ASSUME AuditInv, NEW t \in Thread, Call(t)
    PROVE  AuditInv'
  <1>0. Typed /\ Exclusive /\ OnlineOnce /\ AutoWhileOnline /\ Own(t)
    BY DEF AuditInv
  <1>1. /\ th[t].pc = "idle" /\ Goes(t) /\ Kept
        /\ UNCHANGED <<rows, presence, users, desk, stale>>
    BY <1>0, CallGoes
  <1>2. Typed'
    BY <1>0, <1>1, GoneTyped DEF Typed, TypeOK
  <1>3. /\ Touched(t) /\ Owners(t)
        /\ th'[t].left = {} /\ th'[t].asked = {}
        /\ th'[t].pc \in {"expire", "user", "list", "grab", "save"}
    BY <1>0, CallMoves
  <1>4. Exclusive' /\ OnlineOnce' /\ AutoWhileOnline'
    BY <1>0, <1>1, <1>3, StillExclusive DEF OnlineOnce, AutoWhileOnline
  <1>5. Own(t)'
    <2>1. \A r \in Row : held[t][r] = None /\ Seen(t, r) = rows[r]
      BY <1>0, <1>1 DEF Own, NotGone, Seen
    <2>2. Drafted(t)'
      BY <1>1, <1>3, <2>1 DEF Drafted, Owners
    <2>3. NotGone(t)'
      BY <1>1, <1>3, <2>1 DEF NotGone, Touched
    <2>4. Entering(t)' /\ Leaving(t)' /\ Serving(t)' /\ Releasing(t)'
      BY <1>3 DEF Entering, Leaving, Serving, Releasing
    <2> QED  BY <2>2, <2>3, <2>4 DEF Own
  <1>6. ASSUME NEW u \in Thread \ {t}
        PROVE  Own(u)'
    <2>1. th'[u] = th[u]
      BY <1>0, <1>1, RunTyped DEF Goes
    <2>2. held'[u] = held[u] /\ Gentle(u)
      BY <1>1, <1>3 DEF Touched, Gentle
    <2> QED  BY <1>0, <1>1, <2>1, <2>2, Bystander DEF AuditInv
  <1> QED  BY <1>2, <1>4, <1>5, <1>6 DEF AuditInv

\* The end of t leaves the others as they are.
LEMMA EndOthers ==
    ASSUME Typed, NEW t \in Thread, End(t), NEW u \in Thread \ {t}
    PROVE  /\ th'[u] = th[u] /\ held'[u] = held[u]
           /\ \A a \in Auditor : users[a] = u => users'[a] = u
           /\ \A q \in Queue, a \in Auditor : desk[q][a] = u => desk'[q][a] = u
  <1>1. th'[u] = th[u]
    <2>1. Run(t, Idle)
      BY EndTyped
    <2> QED  BY <2>1, IdleSound, RunTyped
  <1>2. held'[u] = held[u]
    BY EndTyped
  <1>3. \A a \in Auditor : users[a] = u => users'[a] = u
    BY EndTyped
  <1>4. \A q \in Queue, a \in Auditor : desk[q][a] = u => desk'[q][a] = u
    BY EndTyped
  <1> QED  BY <1>1, <1>2, <1>3, <1>4

\* What a commit makes of the presence: only who is set online gets online.
LEMMA PresenceMoves ==
    ASSUME Typed, NEW t \in Thread, Commit(t), NEW p \in Queue, NEW a \in Auditor
    PROVE  /\ presence'[p][a] = "online" =>
                 \/ presence[p][a] = "online"
                 \/ p = th[t].queue /\ th[t].act = "online" /\ a = th[t].who
           /\ presence[p][a] = "online" /\ ~(p = th[t].queue /\ a \in th[t].left) =>
                 presence'[p][a] = "online"
  <1>1. th[t].queue \in Queue /\ presence \in [Queue -> [Auditor -> {"online", "away"}]]
    BY Self DEF Commit, Fits, Typed, TypeOK
  <1> QED  BY <1>1 DEF Commit

LEMMA CommitInv ==
    ASSUME AuditInv, NEW t \in Thread, Commit(t)
    PROVE  AuditInv'
  <1>0. /\ Typed /\ Exclusive /\ OnlineOnce /\ AutoWhileOnline
        /\ \A u \in Thread : Own(u)
    BY DEF AuditInv
  <1>1. /\ th[t].pc = "commit" /\ End(t) /\ stale' = stale
        /\ rows' = [r \in Row |-> Seen(t, r)]
    BY DEF Commit
  <1>2. Typed' /\ Exclusive' /\ Own(t)'
    BY <1>0, <1>1, StepTyped, EndExclusive, OwnIdle DEF Step
  <1>3. th[t].queue \in Queue
    BY <1>0, <1>1, Self DEF Fits
  <1>4. OnlineOnce'
    BY <1>0, <1>1, PresenceMoves DEF OnlineOnce, Own, Entering
  <1>5. AutoWhileOnline'
    <2> SUFFICES ASSUME NEW r \in Row \ stale, rows'[r].origin = "auto"
                 PROVE  presence'[RowQueue(r)][rows'[r].auditor] = "online"
      BY <1>1 DEF AutoWhileOnline
    <2> DEFINE a == Seen(t, r).auditor
    <2>1. rows'[r] = Seen(t, r) /\ Seen(t, r) \in RowForm
      BY <1>0, <1>1, SeenForm DEF Typed
    <2>2. a \in Auditor /\ RowQueue(r) \in Queue
      BY <2>1, RowFields, QueueTypes
    <2>3. presence[RowQueue(r)][a] = "online"
      BY <1>0, <2>1 DEF Seen, AutoWhileOnline, Own, Drafted, OnDesk
    <2>4. ~(RowQueue(r) = th[t].queue /\ a \in th[t].left)
      BY <1>0, <1>1, <2>1 DEF Own, Releasing
    <2> QED  BY <1>0, <2>1, <2>2, <2>3, <2>4, PresenceMoves
  <1>6. ASSUME NEW u \in Thread \ {t}
        PROVE  Own(u)'
    <2>1. /\ th'[u] = th[u] /\ held'[u] = held[u]
          /\ \A a \in Auditor : users[a] = u => users'[a] = u
          /\ \A q \in Queue, a \in Auditor : desk[q][a] = u => desk'[q][a] = u
      BY <1>0, <1>1, EndOthers
    <2>2. \A r \in Row : held[u][r] # None => held[t][r] = None /\ rows'[r] = rows[r]
      BY <1>0, <1>1 DEF Exclusive, Seen
    <2>s. th[u] \in Variables /\ Fits(th[u]) /\ Own(u)
          /\ th[u].left \in SUBSET Auditor /\ th[u].asked \in SUBSET Auditor
      BY <1>0, Self
    <2>q. th[u].pc # "idle" => th[u].queue \in Queue
      BY <2>s DEF Fits
    <2>3. Entering(u)'
      <3>1. th[u].act = "online" => th[u].who \in Auditor
        BY <2>s DEF Fits
      <3>2. ASSUME th[u].act = "online", th[u].pc = "commit", NEW p \in Queue,
                   presence'[p][th[u].who] = "online"
            PROVE  p = th[u].queue
        <4>1. users[th[u].who] = u
          BY <2>s, <3>2 DEF Own, Entering
        <4>2. ~(th[t].act = "online" /\ th[u].who = th[t].who)
          BY <1>0, <1>1, <4>1 DEF Own, Entering
        <4>3. presence[p][th[u].who] = "online"
          BY <1>0, <3>1, <3>2, <4>2, PresenceMoves
        <4> QED  BY <2>s, <3>2, <4>3 DEF Own, Entering
      <3> QED  BY <2>1, <2>s, <3>1, <3>2 DEF Own, Entering
    <2>4. Leaving(u)'
      BY <2>1, <2>s, <2>q DEF Own, Leaving
    <2>5. \A a \in Auditor : th[u].pc # "idle" /\ OnDesk(u, a) => OnDesk(u, a)'
      <3> SUFFICES ASSUME NEW a \in Auditor, th[u].pc # "idle", OnDesk(u, a)
                   PROVE  OnDesk(u, a)'
        OBVIOUS
      <3>1. desk[th[u].queue][a] = u /\ presence[th[u].queue][a] = "online"
        BY DEF OnDesk
      <3>2. ~(th[u].queue = th[t].queue /\ a \in th[t].left)
        BY <1>0, <3>1 DEF Own, Leaving
      <3>3. presence'[th[u].queue][a] = "online"
        BY <1>0, <2>q, <3>1, <3>2, PresenceMoves
      <3> QED  BY <2>1, <2>q, <3>1, <3>3 DEF OnDesk
    <2>6. Serving(u)'
      <3>1. /\ th[u].pc \in {"count", "pick"} => th[u].user \in Auditor
            /\ th[u].pc \in {"assign", "seed"} => th[u].user \in Auditor
        BY <2>s DEF Fits
      <3>2. th[u].asked # {} => th[u].pc # "idle"
        BY <2>s DEF Own, Serving
      <3> QED  BY <2>1, <2>5, <2>s, <3>1, <3>2 DEF Own, Serving
    <2>7. Drafted(u)'
      <3>1. ASSUME NEW r \in Row \ stale, held[u][r] # None, held[u][r].origin = "auto"
            PROVE  \/ rows'[r].origin = "auto" /\ rows'[r].auditor = held[u][r].auditor
                   \/ /\ th[u].pc \in Dealing /\ RowQueue(r) = th[u].queue
                      /\ OnDesk(u, held[u][r].auditor)'
        <4>1. held[u][r].auditor \in Auditor
          BY <1>0, <3>1, RowFields DEF Typed, TypeOK
        <4>2. \A x \in Auditor : x = held[u][r].auditor /\ th[u].pc \in Dealing /\ OnDesk(u, x)
                                    => OnDesk(u, held[u][r].auditor)'
          BY <2>1, <2>5, Deals DEF OnDesk
        <4> QED  BY <2>2, <2>s, <3>1, <4>1, <4>2 DEF Own, Drafted
      <3> QED  BY <1>1, <2>1, <3>1 DEF Drafted
    <2>8. Releasing(u)'
      <3>1. ASSUME NEW r \in Row \ stale, RowQueue(r) = th[u].queue,
                   Seen(u, r)'.origin = "auto", Seen(u, r)'.auditor \in th[u].left
            PROVE  Seen(u, r).origin = "auto" /\ Seen(u, r).auditor = Seen(u, r)'.auditor
        <4>1. CASE held[u][r] # None
          BY <2>1, <3>1, <4>1 DEF Seen
        <4>2. CASE held[u][r] = None
          <5>1. Seen(u, r)' = Seen(t, r) /\ Seen(u, r) = rows[r]
            BY <1>1, <2>1, <4>2 DEF Seen
          <5>2. CASE held[t][r] = None
            BY <3>1, <5>1, <5>2 DEF Seen
          <5>3. CASE held[t][r] # None
            <6> DEFINE b == held[t][r].auditor
            <6>1. held[t][r].origin = "auto" /\ b \in th[u].left
              BY <3>1, <5>1, <5>3 DEF Seen
            <6>2. ~(RowQueue(r) = th[t].queue /\ OnDesk(t, b))
              BY <2>s, <3>1, <6>1 DEF Own, Leaving, OnDesk
            <6> QED  BY <1>0, <5>1, <5>3, <6>1, <6>2 DEF Own, Drafted, Seen
          <5> QED  BY <5>2, <5>3
        <4> QED  BY <4>1, <4>2
      <3> QED  BY <1>1, <2>1, <2>s, <3>1 DEF Own, Releasing
    <2>9. NotGone(u)'
      BY <2>1, <2>2, <2>s DEF Own, NotGone
    <2> QED  BY <2>3, <2>4, <2>6, <2>7, <2>8, <2>9 DEF Own
  <1> QED  BY <1>2, <1>4, <1>5, <1>6 DEF AuditInv

\* A patch is about a row that nobody has locked, and the history remembers it if its
\* copy was out of date.
LEMMA SaveMoves ==
    ASSUME Typed, NEW t \in Thread, Save(t)
    PROVE  /\ End(t) /\ UNCHANGED presence /\ stale \subseteq stale'
           /\ \A r \in Row \ stale' : rows'[r] = rows[r]
           /\ \A u \in Thread \ {t}, r \in Row : held[u][r] # None => rows'[r] = rows[r]
  <1>1. rows \in [Row -> RowForm] /\ th[t].row \in Row
    BY Self DEF Save, Fits, Typed, TypeOK
  <1> QED  BY <1>1 DEF Save, Free

LEMMA SaveInv ==
    ASSUME AuditInv, NEW t \in Thread, Save(t) \/ Rollback(t)
    PROVE  AuditInv'
  <1>0. Typed /\ Exclusive /\ OnlineOnce /\ AutoWhileOnline
    BY DEF AuditInv
  <1>1. /\ End(t) /\ UNCHANGED presence /\ stale \subseteq stale'
        /\ \A r \in Row \ stale' : rows'[r] = rows[r]
        /\ \A u \in Thread \ {t}, r \in Row : held[u][r] # None => rows'[r] = rows[r]
    BY <1>0, SaveMoves DEF Rollback
  <1>2. Typed' /\ Exclusive' /\ Own(t)'
    BY <1>0, <1>1, StepTyped, EndExclusive, OwnIdle DEF Step
  <1>3. OnlineOnce' /\ AutoWhileOnline'
    BY <1>0, <1>1 DEF OnlineOnce, AutoWhileOnline
  <1>4. ASSUME NEW u \in Thread \ {t}
        PROVE  Own(u)'
    <2>1. Gentle(u)
      BY <1>1 DEF Gentle
    <2> QED  BY <1>0, <1>1, <2>1, EndOthers, Bystander DEF AuditInv
  <1> QED  BY <1>2, <1>3, <1>4 DEF AuditInv

LEMMA AloneInv ==
    ASSUME AuditInv, NEW r \in Row, IniciarAnalise(r) \/ Delete(r) \/ Tick(r)
    PROVE  AuditInv'
  <1>0. Typed /\ Exclusive /\ OnlineOnce /\ AutoWhileOnline
    BY DEF AuditInv
  <1>1. /\ rows' \in [Row -> RowForm] /\ \A s \in Row \ {r} : rows'[s] = rows[s]
        /\ \A t \in Thread : held[t][r] = None
        /\ rows'[r].origin # "none" =>
              rows'[r].origin = rows[r].origin /\ rows'[r].auditor = rows[r].auditor
        /\ UNCHANGED <<presence, held, users, desk, th, stale>>
    BY <1>0, AloneTyped
  <1>2. Typed' /\ Exclusive' /\ OnlineOnce'
    BY <1>0, <1>1 DEF Typed, TypeOK, Exclusive, OnlineOnce
  <1>3. AutoWhileOnline'
    BY <1>0, <1>1 DEF AutoWhileOnline
  <1>4. ASSUME NEW u \in Thread
        PROVE  Own(u)'
    <2>1. Gentle(u)
      BY <1>1 DEF Gentle
    <2> QED  BY <1>0, <1>1, <2>1, Bystander DEF AuditInv
  <1> QED  BY <1>2, <1>3, <1>4 DEF AuditInv

-----------------------------------------------------------------------------
(* The theorems. *)

\* What the locks are for holds at every step, for any number of rows, protocols,
\* queues, auditors and threads.
THEOREM AuditInvariant == Spec => []AuditInv
  <1>1. Init => AuditInv
    <2> SUFFICES ASSUME Init PROVE AuditInv
      OBVIOUS
    <2>1. Typed
      <3>1. Idle \in Variables /\ Fits(Idle)
        BY IdleSound DEF Sound
      <3> QED  BY <3>1, LooseForm DEF Init, Typed, TypeOK
    <2>2. Exclusive /\ OnlineOnce /\ AutoWhileOnline
      BY LooseForm DEF Init, Exclusive, OnlineOnce, AutoWhileOnline
    <2>3. ASSUME NEW t \in Thread
          PROVE  Own(t)
      <3>1. /\ th[t].pc = "idle" /\ th[t].act = "none" /\ th[t].left = {}
            /\ th[t].asked = {} /\ \A r \in Row : held[t][r] = None
        BY DEF Init, Idle
      <3> QED  BY <3>1 DEF Own, Entering, Leaving, Serving, Drafted, Releasing, NotGone
    <2> QED  BY <2>1, <2>2, <2>3 DEF AuditInv
  <1>2. AuditInv /\ [Next]_vars => AuditInv'
    <2> SUFFICES ASSUME AuditInv, [Next]_vars PROVE AuditInv'
      OBVIOUS
    <2>1. ASSUME NEW t \in Thread, Step(t)
          PROVE  AuditInv'
      <3>1. Inside(t) \/ Commit(t) \/ Save(t)
        BY <2>1 DEF Step, Inside
      <3> QED  BY <3>1, InsideInv, CommitInv, SaveInv
    <2>2. ASSUME NEW t \in Thread, Victim(t) \/ Crash(t)
          PROVE  AuditInv'
      BY <2>2, SaveInv DEF Victim, Crash
    <2>3. ASSUME NEW t \in Thread, Call(t)
          PROVE  AuditInv'
      BY <2>3, CallInv
    <2>4. ASSUME NEW r \in Row, IniciarAnalise(r) \/ Delete(r) \/ Tick(r)
          PROVE  AuditInv'
      BY <2>4, AloneInv
    <2>5. CASE UNCHANGED vars
      <3>1. UNCHANGED <<rows, presence, held, users, desk, th, stale>>
        BY <2>5 DEF vars
      <3>2. Typed' /\ Exclusive' /\ OnlineOnce' /\ AutoWhileOnline'
        BY <3>1 DEF AuditInv, Typed, TypeOK, Exclusive, OnlineOnce, AutoWhileOnline
      <3>3. \A u \in Thread : Own(u)'
        BY <3>1, Bystander DEF AuditInv, Gentle
      <3> QED  BY <3>2, <3>3 DEF AuditInv
    <2> QED  BY <2>1, <2>2, <2>3, <2>4, <2>5 DEF Next
  <1> QED  BY <1>1, <1>2, PTL DEF Spec

\* Every variable has its type.
THEOREM AuditTypeOK == Spec => []TypeOK
  <1>1. AuditInv => TypeOK
    BY DEF AuditInv, Typed
  <1> QED  BY <1>1, AuditInvariant, PTL

\* Nobody is online in both queues: the lock on the user is enough.
THEOREM AuditOnlineOnce == Spec => []OnlineOnce
  <1>1. AuditInv => OnlineOnce
    BY DEF AuditInv
  <1> QED  BY <1>1, AuditInvariant, PTL

\* What the queue hands out is with somebody who is online.
THEOREM AuditAutoWhileOnline == Spec => []AutoWhileOnline
  <1>1. AuditInv => AutoWhileOnline
    BY DEF AuditInv
  <1> QED  BY <1>1, AuditInvariant, PTL

\* No step brings back a row that was concluded or deleted, but an outdated patch.
THEOREM AuditConcludedStays == Spec => ConcludedStays
  <1> DEFINE A == \A r \in Row : rows[r].status = "gone" /\ r \notin stale' => rows'[r] = rows[r]
  <1>1. AuditInv /\ [Next]_vars => [A]_vars
    <2> SUFFICES ASSUME AuditInv, Next, NEW r \in Row, rows[r].status = "gone", r \notin stale'
                 PROVE  rows'[r] = rows[r]
      OBVIOUS
    <2>0. Typed /\ \A t \in Thread : NotGone(t)
      BY DEF AuditInv, Own
    <2>1. ASSUME NEW t \in Thread, Step(t)
          PROVE  rows'[r] = rows[r]
      <3>1. CASE Inside(t)
        BY <3>1, InsideQuiet
      <3>2. CASE Commit(t)
        BY <2>0, <3>2 DEF Commit, NotGone, Seen
      <3>3. CASE Save(t)
        BY <2>0, <3>3, SaveMoves
      <3> QED  BY <2>1, <3>1, <3>2, <3>3 DEF Step, Inside
    <2>2. ASSUME NEW t \in Thread, Victim(t) \/ Crash(t) \/ Call(t)
          PROVE  rows'[r] = rows[r]
      BY <2>0, <2>2, CallGoes DEF Victim, Crash, Rollback
    <2>3. ASSUME NEW s \in Row, IniciarAnalise(s) \/ Delete(s) \/ Tick(s)
          PROVE  rows'[r] = rows[r]
      BY <2>0, <2>3, AloneTyped
    <2> QED  BY <2>1, <2>2, <2>3 DEF Next
  <1> QED  BY <1>1, AuditInvariant, PTL DEF Spec, ConcludedStays
=============================================================================
