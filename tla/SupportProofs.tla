----------------------------- MODULE SupportProofs -----------------------------
(***************************************************************************)
(* Proofs of the online support queue, for any number of requests, agents  *)
(* and threads.                                                            *)
(***************************************************************************)
EXTENDS SupportProperties, TLAPS

\* The variables of a transaction fit the point it is at.
Fits(me) ==
    /\ me.pc \in {"look", "count", "pick", "take", "mark"} => me.user \in Agent
    /\ me.user # None => me.slot \in {1, 2} \/ me.op \in {"online", "away"}
    /\ me.pc = "take" => me.req \in Req
    /\ me.pc \in {"list", "release"} => me.op = "away"
    /\ me.op \in {"online", "away"} =>
          me.pc \in {"list", "release", "commit"} /\ me.user \in Agent

\* A record a thread may have.
Sound(me) == me \in Variables /\ Fits(me)

Typed == TypeOK /\ \A t \in Thread : Fits(th[t])

\* What a transaction may have made of a row when it commits.  A row that is closed
\* is left alone; an accepted one too, or answered, or given back by its agent.
Firm(old, new) ==
    /\ old.status \in Final => new = old
    /\ Accepted(old) => new = old \/ new.status = "answered"

GivenBack(me, old, new) ==
    /\ me.op = "away" /\ me.user = old.agent
    /\ old.status = "analysis" /\ new.status = "pending"

Kept(me, old, new) == Firm(old, new) \/ GivenBack(me, old, new)

\* One thread at most has locked a row.
Exclusive == \A t, u \in Thread, r \in Req :
    t # u => held[t][r] = None \/ held[u][r] = None

\* Rows change only under their lock: what a thread is about to commit was made of
\* what is committed now.
Drafted == \A t \in Thread, r \in Req :
    held[t][r] # None => Kept(th[t], rows[r], held[t][r])

\* Every transaction looks again at the request it has locked.
Looking == \A t \in Thread : th[t].checks

SupportInv == Typed /\ Exclusive /\ Drafted /\ Looking

-----------------------------------------------------------------------------
(* Rows. *)

LEMMA RowFields ==
    ASSUME NEW row \in Row
    PROVE  /\ row.status \in Outside \cup Final \cup {"analysis"}
           /\ row.status = "analysis" => row.agent \in Agent
           /\ row.status \in Final => row.sla = "none"
           /\ row.sla # "none" => row.status = "analysis" /\ row.slot = 1
  BY DEF Row, Outside, Final

LEMMA RowMade ==
    /\ \A s \in Outside \cup Final : Unassigned(s) \in Row
    /\ \A a \in Agent, k \in {1, 2} : Offered(a, k) \in Row
  BY DEF Row, Unassigned, Offered

LEMMA RowChanged ==
    ASSUME NEW row \in Row
    PROVE  /\ row.status = "pending" => [row EXCEPT !.prio = TRUE] \in Row
           /\ row.status = "analysis" /\ row.slot = 1 =>
                 /\ [row EXCEPT !.sla = "none"] \in Row
                 /\ [row EXCEPT !.sla = "expired"] \in Row
  BY DEF Row, Outside, Final

LEMMA SeenRow ==
    ASSUME TypeOK, NEW t \in Thread, NEW r \in Req
    PROVE  Seen(t, r) \in Row
  BY DEF TypeOK, Seen

-----------------------------------------------------------------------------
(* Types. *)

LEMMA RunTyped ==
    ASSUME Typed, NEW t \in Thread, NEW me, Sound(me), Run(t, me)
    PROVE  /\ th' \in [Thread -> Variables]
           /\ \A u \in Thread : Fits(th'[u])
           /\ th'[t] = me
           /\ \A u \in Thread \ {t} : th'[u] = th[u]
  <1>1. th \in [Thread -> Variables] /\ me \in Variables
    BY DEF Typed, TypeOK, Sound
  <1>2. th' = [th EXCEPT ![t] = me]
    BY DEF Run
  <1>3. \A u \in Thread : th'[u] = IF u = t THEN me ELSE th[u]
    BY <1>1, <1>2
  <1>4. th' \in [Thread -> Variables]
    BY <1>1, <1>2
  <1> QED  BY <1>3, <1>4 DEF Typed, Sound

LEMMA NextClaimTyped ==
    ASSUME NEW me \in Variables, NEW p \in Point, NEW a \in Agent, NEW k \in 0 .. 2,
           NEW c \in SUBSET Agent
    PROVE  [me EXCEPT !.pc = p, !.user = a, !.slot = k, !.req = None, !.claims = c]
             \in Variables
  BY DEF Variables

\* What goes on with a claim, or ends, is sound.
LEMMA TurnSound ==
    ASSUME NEW t \in Thread, NEW me \in Variables, NEW claims \in SUBSET Agent,
           me.op \notin {"online", "away"}, me.user # None => me.slot \in {1, 2},
           Turn(t, me, claims)
    PROVE  \E next : Sound(next) /\ Run(t, next) /\ next.op = me.op
                                  /\ next.checks = me.checks
  <1>1. CASE claims = {} /\ Run(t, [me EXCEPT !.pc = "commit"])
    <2> DEFINE next == [me EXCEPT !.pc = "commit"]
    <2>1. next \in Variables
      BY DEF Variables, Point
    <2>2. Fits(next)
      BY DEF Variables, Fits
    <2> QED  BY <1>1, <2>1, <2>2 DEF Sound, Variables
  <1>2. ASSUME NEW a \in claims,
               Run(t, [me EXCEPT !.pc = "expire", !.user = a, !.slot = 1,
                                 !.req = None, !.claims = claims \ {a}])
        PROVE  \E next : Sound(next) /\ Run(t, next) /\ next.op = me.op
                                      /\ next.checks = me.checks
    <2> DEFINE next == [me EXCEPT !.pc = "expire", !.user = a, !.slot = 1,
                                  !.req = None, !.claims = claims \ {a}]
    <2>0. /\ "expire" \in Point /\ 1 \in 0 .. 2
          /\ a \in Agent /\ claims \ {a} \in SUBSET Agent
      BY DEF Point
    <2>1. next \in Variables
      BY <2>0, NextClaimTyped
    <2>2. Fits(next)
      BY DEF Variables, Fits
    <2> QED  BY <1>2, <2>1, <2>2 DEF Sound, Variables
  <1> QED  BY <1>1, <1>2 DEF Turn

LEMMA IdleSound == Sound(Idle) /\ Idle.op = "none" /\ Idle.checks
  BY DEF Sound, Idle, Variables, Point, Fits

\* One row of a transaction is written.
LEMMA WriteTyped ==
    ASSUME Typed, NEW t \in Thread, NEW r \in Req, NEW row \in Row, Write(t, r, row)
    PROVE  /\ held' \in [Thread -> [Req -> Row \cup {None}]]
           /\ held'[t][r] = row
           /\ \A u \in Thread, q \in Req :
                 u # t \/ q # r => held'[u][q] = held[u][q]
  BY DEF Typed, TypeOK, Write

LEMMA EndTyped ==
    ASSUME Typed, NEW t \in Thread, End(t)
    PROVE  /\ held' \in [Thread -> [Req -> Row \cup {None}]]
           /\ desk' \in [Agent -> Thread \cup {None}]
           /\ Run(t, Idle)
           /\ \A r \in Req : held'[t][r] = None
           /\ \A u \in Thread \ {t} : held'[u] = held[u]
  BY DEF Typed, TypeOK, End

-----------------------------------------------------------------------------
(* Where a thread goes. *)

\* A step of a transaction leaves its kind, and whose status it changes, alone.
Follows(t, next) ==
    \/ next = Idle
    \/ /\ next.op = th[t].op /\ next.checks = th[t].checks
       /\ next.op = "away" => next.user = th[t].user

Advance(t) == \E next : Sound(next) /\ Run(t, next) /\ Follows(t, next)

LEMMA Self ==
    ASSUME Typed, NEW t \in Thread
    PROVE  /\ th[t] \in Variables /\ Fits(th[t])
           /\ th[t].owed \in SUBSET Agent /\ th[t].asked \in SUBSET Agent
           /\ th[t].claims \in SUBSET Agent /\ th[t].drain \in SUBSET Req
  <1>1. th[t] \in Variables /\ Fits(th[t])
    BY DEF Typed, TypeOK
  <1> QED  BY <1>1 DEF Variables

LEMMA AfterAdvance ==
    ASSUME Typed, NEW t \in Thread, th[t].pc \in {"expire", "promote"},
           NEW owed \in SUBSET Agent, NEW me, me = [th[t] EXCEPT !.owed = owed],
           Run(t, [me EXCEPT !.pc = After(me)])
    PROVE  Advance(t)
  <1> DEFINE next == [me EXCEPT !.pc = After(me)]
  <1>1. th[t] \in Variables /\ Fits(th[t])
    BY Self
  <1>2. me \in Variables /\ me.user = th[t].user /\ me.op = th[t].op
        /\ me.slot = th[t].slot /\ me.checks = th[t].checks
    BY <1>1 DEF Variables
  <1>3. After(me) \in {"promote", "look", "gather"}
        /\ (After(me) = "look" => me.user # None)
    BY DEF After
  <1>4. After(me) \in Point
    BY <1>3 DEF Point
  <1>5. next \in Variables /\ next.pc = After(me) /\ next.user = me.user
        /\ next.op = me.op /\ next.slot = me.slot /\ next.checks = me.checks
    BY <1>2, <1>4 DEF Variables
  <1>6. me.user # None => me.user \in Agent
    BY <1>2 DEF Variables
  <1>7. Fits(next)
    BY <1>1, <1>2, <1>3, <1>5, <1>6 DEF Fits
  <1> QED  BY <1>1, <1>2, <1>5, <1>7 DEF Advance, Follows, Sound, Fits

LEMMA TurnAdvance ==
    ASSUME Typed, NEW t \in Thread,
           th[t].pc \in {"gather", "look", "count", "pick", "take", "mark"},
           NEW me \in Variables, NEW claims \in SUBSET Agent,
           me.op = th[t].op, me.user = th[t].user, me.slot = th[t].slot,
           me.checks = th[t].checks, Turn(t, me, claims)
    PROVE  Advance(t)
  <1>1. th[t] \in Variables /\ Fits(th[t])
    BY Self
  <1>2. me.op \notin {"online", "away"} /\ (me.user # None => me.slot \in {1, 2})
    BY <1>1 DEF Fits
  <1>3. PICK next : Sound(next) /\ Run(t, next) /\ next.op = me.op
                    /\ next.checks = me.checks
    BY <1>2, TurnSound
  <1> QED  BY <1>2, <1>3 DEF Advance, Follows

LEMMA MissAdvance ==
    ASSUME Typed, NEW t \in Thread, th[t].pc \in {"pick", "take", "look", "count"}, Miss(t)
    PROVE  Advance(t) /\ held' \in [Thread -> [Req -> Row \cup {None}]]
                      /\ desk' \in [Agent -> Thread \cup {None}]
  <1>1. CASE End(t)
    BY <1>1, EndTyped, IdleSound DEF Advance, Follows
  <1>2. CASE Turn(t, th[t], th[t].claims) /\ UNCHANGED <<held, desk>>
    BY <1>2, Self, TurnAdvance DEF Typed, TypeOK
  <1> QED  BY <1>1, <1>2 DEF Miss

\* Every step moves its thread so, and keeps the tables typed.
LEMMA StepAdvance ==
    ASSUME Typed, NEW t \in Thread, Step(t)
    PROVE  /\ Advance(t)
           /\ rows' \in [Req -> Row] /\ presence' \in [Agent -> {"online", "away"}]
           /\ held' \in [Thread -> [Req -> Row \cup {None}]]
           /\ desk' \in [Agent -> Thread \cup {None}]
  <1> USE DEF Typed
  <1>0. /\ rows \in [Req -> Row] /\ presence \in [Agent -> {"online", "away"}]
        /\ held \in [Thread -> [Req -> Row \cup {None}]]
        /\ desk \in [Agent -> Thread \cup {None}]
    BY DEF TypeOK
  <1>s. th[t] \in Variables /\ Fits(th[t])
    BY Self
  <1>o. \A r \in Req : Seen(t, r) \in Row
    BY SeenRow
  <1>1. CASE Expire(t)
    <2> DEFINE owed == {Seen(t, r).agent : r \in Overdue(t)}
               me == [th[t] EXCEPT !.owed = owed]
    <2>1. owed \in SUBSET Agent
      BY <1>o, RowFields DEF Overdue
    <2>2. Run(t, [me EXCEPT !.pc = After(me)]) /\ th[t].pc \in {"expire", "promote"}
      BY <1>1 DEF Expire
    <2>3. Advance(t)
      <3> HIDE DEF owed, me
      <3> QED  BY <2>1, <2>2, AfterAdvance DEF me
    <2>4. Unassigned("pending") \in Row
      BY RowMade DEF Outside
    <2> QED  BY <1>1, <1>0, <2>3, <2>4 DEF Expire
  <1>2. CASE Promote(t)
    <2>1. PICK a \in th[t].owed :
            LET me == [th[t] EXCEPT !.owed = @ \ {a}] IN
            /\ th[t].pc = "promote"
            /\ \/ Waiting(t, a) = {} /\ UNCHANGED held
               \/ \E r \in Waiting(t, a) : Free(t, r) /\ Write(t, r, Offered(a, 1))
            /\ Run(t, [me EXCEPT !.pc = After(me)])
            /\ UNCHANGED <<rows, presence, desk>>
      BY <1>2 DEF Promote
    <2> DEFINE owed == th[t].owed \ {a}
               me == [th[t] EXCEPT !.owed = owed]
    <2>2. owed \in SUBSET Agent /\ a \in Agent
      BY Self
    <2>3. Run(t, [me EXCEPT !.pc = After(me)]) /\ th[t].pc \in {"expire", "promote"}
      BY <2>1
    <2>4. Advance(t)
      <3> HIDE DEF owed, me
      <3> QED  BY <2>2, <2>3, AfterAdvance DEF me
    <2>5. Offered(a, 1) \in Row
      BY <2>2, RowMade
    <2>6. held' \in [Thread -> [Req -> Row \cup {None}]]
      BY <1>0, <2>1, <2>5, WriteTyped DEF Waiting, Active
    <2> QED  BY <1>0, <2>1, <2>4, <2>6
  <1>3. CASE Gather(t)
    <2> DEFINE me == [th[t] EXCEPT !.asked = {}]
               claims == {a \in th[t].asked : presence[a] = "online"}
    <2>1. me \in Variables /\ me.op = th[t].op /\ me.user = th[t].user
          /\ me.slot = th[t].slot /\ me.checks = th[t].checks
      BY <1>s DEF Variables
    <2>2. claims \in SUBSET Agent
      BY Self
    <2>3. Turn(t, me, claims)
      BY <1>3 DEF Gather
    <2>4. Advance(t)
      <3> HIDE DEF me, claims
      <3> QED  BY <1>3, <2>1, <2>2, <2>3, TurnAdvance DEF Gather
    <2> QED  BY <1>0, <1>3, <2>4 DEF Gather
  <1>4. CASE Look(t)
    <2> DEFINE next == [th[t] EXCEPT !.pc = "count"]
    <2>1. CASE Run(t, next)
      <3>1. next \in Variables
        BY <1>s DEF Variables, Point
      <3>2. Fits(next) /\ Follows(t, next)
        BY <1>4, <1>s DEF Look, Fits, Follows, Variables
      <3> QED  BY <1>0, <1>4, <2>1, <3>1, <3>2 DEF Look, Advance, Sound
    <2>2. CASE Turn(t, th[t], th[t].claims)
      BY <1>0, <1>4, <1>s, <2>2, Self, TurnAdvance DEF Look
    <2> QED  BY <1>4, <2>1, <2>2 DEF Look
  <1>5. CASE Count(t)
    <2> DEFINE next == [th[t] EXCEPT !.pc = "pick"]
    <2>1. CASE Run(t, next)
      <3>1. next \in Variables
        BY <1>s DEF Variables, Point
      <3>2. Fits(next) /\ Follows(t, next)
        BY <1>5, <1>s DEF Count, Fits, Follows, Variables
      <3> QED  BY <1>0, <1>5, <2>1, <3>1, <3>2 DEF Count, Advance, Sound
    <2>2. CASE Turn(t, th[t], th[t].claims)
      BY <1>0, <1>5, <1>s, <2>2, Self, TurnAdvance DEF Count
    <2> QED  BY <1>5, <2>1, <2>2 DEF Count
  <1>6. CASE Pick(t)
    <2>1. ASSUME NEW r \in First(t), Run(t, [th[t] EXCEPT !.pc = "take", !.req = r]),
                 UNCHANGED <<held, desk>>
          PROVE  Advance(t)
      <3> DEFINE next == [th[t] EXCEPT !.pc = "take", !.req = r]
      <3>1. r \in Req
        BY DEF First, General
      <3>2. next \in Variables
        BY <1>s, <3>1 DEF Variables, Point
      <3>3. Fits(next) /\ Follows(t, next)
        BY <1>6, <1>s, <3>1 DEF Pick, Fits, Follows, Variables
      <3> QED  BY <2>1, <3>2, <3>3 DEF Advance, Sound
    <2>2. CASE Miss(t)
      BY <1>0, <1>6, <2>2, MissAdvance DEF Pick
    <2> QED  BY <1>0, <1>6, <2>1, <2>2 DEF Pick
  <1>7. CASE Take(t)
    <2> DEFINE r == th[t].req
               next == [th[t] EXCEPT !.pc = "mark"]
    <2>1. CASE Write(t, r, Offered(th[t].user, th[t].slot)) /\ Run(t, next) /\ UNCHANGED desk
      <3>1. next \in Variables
        BY <1>s DEF Variables, Point
      <3>2. Fits(next) /\ Follows(t, next)
        BY <1>7, <1>s DEF Take, Fits, Follows, Variables
      <3>3. r \in Req /\ Offered(th[t].user, th[t].slot) \in Row
        <4>1. th[t].user \in Agent /\ th[t].slot \in {1, 2} /\ r \in Req
          BY <1>7, <1>s, SupportActors DEF Take, Fits
        <4> QED  BY <4>1, RowMade
      <3>4. held' \in [Thread -> [Req -> Row \cup {None}]]
        BY <2>1, <3>3, WriteTyped
      <3> QED  BY <1>0, <1>7, <2>1, <3>1, <3>2, <3>4 DEF Take, Advance, Sound
    <2>2. CASE Miss(t)
      BY <1>0, <1>7, <2>2, MissAdvance DEF Take
    <2> QED  BY <1>7, <2>1, <2>2 DEF Take
  <1>8. CASE Mark(t)
    <2>1. Advance(t)
      BY <1>8, <1>s, Self, TurnAdvance DEF Mark
    <2>2. desk' \in [Agent -> Thread \cup {None}]
      BY <1>0, <1>8 DEF Mark
    <2> QED  BY <1>0, <1>8, <2>1, <2>2 DEF Mark
  <1>9. CASE List(t)
    <2> DEFINE found == Active(t, th[t].user)
               p == IF found = {} THEN "commit" ELSE "release"
               next == [th[t] EXCEPT !.drain = found, !.pc = p]
    <2>1. found \in SUBSET Req /\ p \in {"commit", "release"}
      BY DEF Active
    <2>2. next \in Variables
      BY <1>s, <2>1 DEF Variables, Point
    <2>3. Fits(next) /\ Follows(t, next)
      BY <1>9, <1>s, <2>1 DEF List, Fits, Follows, Variables
    <2> QED  BY <1>0, <1>9, <2>2, <2>3 DEF List, Advance, Sound
  <1>10. CASE Release(t)
    <2>1. PICK r \in th[t].drain :
            LET rest == th[t].drain \ {r} IN
            /\ th[t].pc = "release"
            /\ IF r \in Active(t, th[t].user)
               THEN Write(t, r, Unassigned("pending"))
               ELSE UNCHANGED held
            /\ Run(t, [th[t] EXCEPT !.drain = rest,
                                    !.pc = IF rest = {} THEN "commit" ELSE "release"])
            /\ UNCHANGED <<rows, presence, desk>>
      BY <1>10 DEF Release
    <2> DEFINE rest == th[t].drain \ {r}
               p == IF rest = {} THEN "commit" ELSE "release"
               next == [th[t] EXCEPT !.drain = rest, !.pc = p]
    <2>2. rest \in SUBSET Req /\ r \in Req /\ p \in {"commit", "release"}
      BY Self
    <2>3. next \in Variables
      BY <1>s, <2>2 DEF Variables, Point
    <2>4. Fits(next) /\ Follows(t, next)
      BY <1>s, <2>1, <2>2 DEF Fits, Follows, Variables
    <2>5. Unassigned("pending") \in Row
      BY RowMade DEF Outside
    <2>6. held' \in [Thread -> [Req -> Row \cup {None}]]
      BY <1>0, <2>1, <2>2, <2>5, WriteTyped
    <2> QED  BY <1>0, <2>1, <2>3, <2>4, <2>6 DEF Advance, Sound
  <1>11. CASE Commit(t)
    <2>1. rows' \in [Req -> Row]
      BY <1>11, <1>o DEF Commit
    <2>2. presence' \in [Agent -> {"online", "away"}]
      BY <1>0, <1>11, <1>s DEF Commit, Fits
    <2> QED  BY <1>11, <2>1, <2>2, EndTyped, IdleSound DEF Commit, Advance, Follows
  <1> QED  BY <1>1, <1>2, <1>3, <1>4, <1>5, <1>6, <1>7, <1>8, <1>9, <1>10, <1>11 DEF Step

LEMMA RunTypes ==
    ASSUME Typed, NEW t \in Thread, NEW me, Sound(me), Run(t, me),
           rows' \in [Req -> Row], presence' \in [Agent -> {"online", "away"}],
           held' \in [Thread -> [Req -> Row \cup {None}]],
           desk' \in [Agent -> Thread \cup {None}]
    PROVE  Typed'
  BY RunTyped DEF Typed, TypeOK

LEMMA StepTyped ==
    ASSUME Typed, NEW t \in Thread, Step(t)
    PROVE  Typed'
  <1>1. PICK next : Sound(next) /\ Run(t, next)
    BY StepAdvance DEF Advance
  <1> QED  BY <1>1, StepAdvance, RunTypes

LEMMA RollbackTyped ==
    ASSUME Typed, NEW t \in Thread, Rollback(t)
    PROVE  Typed'
  <1>1. End(t) /\ UNCHANGED <<rows, presence>>
    BY DEF Rollback
  <1> QED  BY <1>1, EndTyped, IdleSound, RunTypes DEF Typed, TypeOK

\* A call begins with sound variables of a new kind.
Opens(t, next) ==
    /\ Sound(next) /\ Run(t, next) /\ th[t].pc = "idle"
    /\ FALSE \notin Named => next.checks

LEMMA BegunFields ==
    ASSUME NEW p \in Point,
           NEW op \in {"sweep", "claim", "direct", "online", "away", "answer", "approve",
                      "accept"}
    PROVE  LET me == Begun(p, op) IN
           /\ me \in Variables /\ me.pc = p /\ me.op = op /\ me.checks
           /\ me.user = None /\ me.slot = 0
  <1>1. Idle \in Variables
    BY DEF Idle, Variables, Point
  <1> QED  BY <1>1 DEF Begun, Idle, Variables

LEMMA CallOpens ==
    ASSUME Typed, NEW t \in Thread, Call(t)
    PROVE  /\ \E next : Opens(t, next)
           /\ rows' \in [Req -> Row] /\ presence' \in [Agent -> {"online", "away"}]
           /\ held' \in [Thread -> [Req -> Row \cup {None}]]
           /\ desk' \in [Agent -> Thread \cup {None}]
  <1> USE DEF Typed
  <1>0. /\ rows \in [Req -> Row] /\ presence \in [Agent -> {"online", "away"}]
        /\ held \in [Thread -> [Req -> Row \cup {None}]]
        /\ desk \in [Agent -> Thread \cup {None}]
    BY DEF TypeOK
  <1>p. /\ {"expire", "take", "pick", "list", "commit", "promote"} \subseteq Point
        /\ 1 \in 0 .. 2 /\ 2 \in 0 .. 2
    BY DEF Point
  <1>1. CASE Sweep(t)
    <2>1. Sound(Begun("expire", "sweep")) /\ Begun("expire", "sweep").checks
      BY <1>p, BegunFields DEF Sound, Fits
    <2> QED  BY <1>0, <1>1, <2>1 DEF Sweep, Begin, Opens
  <1>2. ASSUME NEW a \in Agent, Claim(t, a)
        PROVE  \E next : Opens(t, next)
    <2> DEFINE me == Begun("expire", "claim")
               next == [me EXCEPT !.user = a, !.slot = 1]
    <2>1. Sound(next) /\ next.checks
      <3>1. me \in Variables /\ me.pc = "expire" /\ me.op = "claim" /\ me.checks
        BY <1>p, BegunFields
      <3> HIDE DEF me
      <3> QED  BY <1>p, <3>1 DEF Sound, Variables, Fits
    <2> QED  BY <1>2, <2>1 DEF Claim, Begin, Opens
  <1>3. ASSUME NEW a \in Agent, NEW r \in Req, NEW named \in Named, Direct(t, a, r, named)
        PROVE  \E next : Opens(t, next)
    <2> DEFINE p == IF named THEN "take" ELSE "pick"
               k == IF Active(t, a) = {} THEN 1 ELSE 2
               q == IF named THEN r ELSE None
               me == Begun(p, "direct")
               next == [me EXCEPT !.user = a, !.slot = k, !.req = q, !.checks = named]
    <2>1. named \in BOOLEAN
      BY NamedIsChoice
    <2>2. /\ p \in {"take", "pick"} /\ (p = "take" => q \in Req)
          /\ k \in {1, 2} /\ q \in Req \cup {None}
      OBVIOUS
    <2>3. Sound(next) /\ next.checks = named
      <3>1. me \in Variables /\ me.pc = p /\ me.op = "direct"
        BY <1>p, <2>2, BegunFields
      <3>2. k \in 0 .. 2
        BY <2>2
      <3> HIDE DEF p, k, q, me
      <3> QED  BY <2>1, <2>2, <3>1, <3>2 DEF Sound, Variables, Fits
    <2>4. FALSE \notin Named => named
      BY <2>1
    <2> QED  BY <1>3, <2>3, <2>4 DEF Direct, Begin, Opens
  <1>4. ASSUME NEW a \in Agent, NEW status \in {"online", "away"},
               SetAgentStatus(t, a, status)
        PROVE  /\ \E next : Opens(t, next)
               /\ desk' \in [Agent -> Thread \cup {None}]
    <2> DEFINE p == IF status = "away" THEN "list" ELSE "commit"
               me == Begun(p, status)
               next == [me EXCEPT !.user = a]
    <2>1. Sound(next) /\ next.checks
      <3>1. /\ p \in {"list", "commit"} /\ (p = "list" => status = "away")
            /\ me \in Variables /\ me.pc = p /\ me.op = status /\ me.checks
        BY <1>p, BegunFields
      <3> HIDE DEF me, p
      <3> QED  BY <3>1 DEF Sound, Variables, Fits
    <2> QED  BY <1>0, <1>4, <2>1 DEF SetAgentStatus, Begin, Opens
  <1>5. ASSUME NEW r \in Req, Answer(t, r)
        PROVE  /\ \E next : Opens(t, next)
               /\ held' \in [Thread -> [Req -> Row \cup {None}]]
    <2> DEFINE a == rows[r].agent
               me == Begun("promote", "answer")
               next == [me EXCEPT !.owed = {a}, !.asked = {a}]
    <2>1. a \in Agent /\ Unassigned("answered") \in Row
      BY <1>0, <1>5, RowFields, RowMade DEF Answer, Final
    <2>2. Sound(next) /\ next.checks
      <3>1. /\ me \in Variables /\ me.pc = "promote" /\ me.op = "answer"
            /\ me.user = None /\ me.checks /\ {a} \in SUBSET Agent
        BY <1>p, <2>1, BegunFields
      <3> HIDE DEF me, a
      <3> QED  BY <3>1 DEF Sound, Variables, Fits
    <2> QED  BY <1>5, <2>1, <2>2, WriteTyped DEF Answer, Begin, Opens
  <1>6. ASSUME NEW r \in Req, Approve(t, r)
        PROVE  /\ \E next : Opens(t, next)
               /\ held' \in [Thread -> [Req -> Row \cup {None}]]
    <2> DEFINE me == Begun("expire", "approve")
               next == [me EXCEPT !.asked = Agent]
    <2>1. Unassigned("pending") \in Row
      BY RowMade DEF Outside
    <2>2. Sound(next) /\ next.checks
      <3>1. /\ me \in Variables /\ me.pc = "expire" /\ me.op = "approve"
            /\ me.user = None /\ me.checks
        BY <1>p, BegunFields
      <3> HIDE DEF me
      <3> QED  BY <3>1 DEF Sound, Variables, Fits
    <2> QED  BY <1>6, <2>1, <2>2, WriteTyped DEF Approve, Begin, Opens
  <1>7. ASSUME NEW r \in Req, AcceptLate(t, r)
        PROVE  /\ \E next : Opens(t, next)
               /\ held' \in [Thread -> [Req -> Row \cup {None}]]
    <2> DEFINE a == rows[r].agent
               me == Begun("promote", "accept")
               next == [me EXCEPT !.owed = {a}]
    <2>1. a \in Agent /\ Unassigned("pending") \in Row
      BY <1>0, <1>7, RowFields, RowMade DEF AcceptLate, Outside
    <2>2. Sound(next) /\ next.checks
      <3>1. /\ me \in Variables /\ me.pc = "promote" /\ me.op = "accept"
            /\ me.user = None /\ me.checks /\ {a} \in SUBSET Agent
        BY <1>p, <2>1, BegunFields
      <3> HIDE DEF me, a
      <3> QED  BY <3>1 DEF Sound, Variables, Fits
    <2> QED  BY <1>7, <2>1, <2>2, WriteTyped DEF AcceptLate, Begin, Opens
  <1>8. /\ Sweep(t) => UNCHANGED <<rows, presence, held, desk>>
        /\ \A a \in Agent : Claim(t, a) => UNCHANGED <<rows, presence, held, desk>>
        /\ \A a \in Agent, r \in Req, named \in Named :
              Direct(t, a, r, named) => UNCHANGED <<rows, presence, held, desk>>
        /\ \A a \in Agent, status \in {"online", "away"} :
              SetAgentStatus(t, a, status) => UNCHANGED <<rows, presence, held>>
        /\ \A r \in Req : Answer(t, r) \/ Approve(t, r) \/ AcceptLate(t, r) =>
              UNCHANGED <<rows, presence, desk>>
    BY DEF Sweep, Claim, Direct, SetAgentStatus, Answer, Approve, AcceptLate
  <1> QED  BY <1>0, <1>1, <1>2, <1>3, <1>4, <1>5, <1>6, <1>7, <1>8 DEF Call

LEMMA CallTyped ==
    ASSUME Typed, NEW t \in Thread, Call(t)
    PROVE  Typed'
  <1>1. PICK next : Sound(next) /\ Run(t, next)
    BY CallOpens DEF Opens
  <1> QED  BY <1>1, CallOpens, RunTypes

\* A transaction on one row that nobody has locked.
LEMMA ServeTyped ==
    ASSUME Typed, NEW r \in Req, Serve(r) \/ Tick(r)
    PROVE  /\ Typed' /\ UNCHANGED <<presence, held, desk, th>>
           /\ \A t \in Thread : held[t][r] = None
           /\ \A q \in Req \ {r} : rows'[q] = rows[q]
           /\ rows[r].status \notin Final /\ ~Accepted(rows[r])
  <1>0. rows \in [Req -> Row] /\ rows[r] \in Row
    BY DEF Typed, TypeOK
  <1>1. PICK row \in Row : /\ rows' = [rows EXCEPT ![r] = row]
                           /\ \A t \in Thread : held[t][r] = None
                           /\ UNCHANGED <<presence, held, desk, th>>
                           /\ rows[r].status \notin Final /\ ~Accepted(rows[r])
    <2>1. CASE AcceptInTime(r)
      BY <1>0, <2>1, RowChanged DEF AcceptInTime, Change, Final, Accepted
    <2>2. ASSUME NEW status \in {"leader", "pending"},
                 Change(r, rows[r].status = "absent", Unassigned(status))
          PROVE  Unassigned(status) \in Row
      BY RowMade DEF Outside
    <2>3. CASE Create(r)
      BY <2>2, <2>3 DEF Create, Change, Final, Accepted
    <2>4. CASE Reject(r)
      BY <2>4, RowMade DEF Reject, Change, Final, Accepted
    <2>5. CASE Cancel(r)
      BY <2>5, RowMade DEF Cancel, Change, Final, Accepted
    <2>6. CASE Prioritise(r)
      BY <1>0, <2>6, RowChanged DEF Prioritise, Change, Final, Accepted
    <2>7. CASE RemoveDirected(r)
      <3>1. Unassigned("pending") \in Row
        BY RowMade DEF Outside
      <3>2. /\ rows[r].status = "analysis" /\ rows[r].slot = 2
            /\ rows' = [rows EXCEPT ![r] = Unassigned("pending")]
            /\ \A t \in Thread : held[t][r] = None
            /\ UNCHANGED <<presence, held, desk, th>>
        BY <2>7 DEF RemoveDirected, Change
      <3>3. rows[r].status \notin Final /\ ~Accepted(rows[r])
        BY <3>2 DEF Final, Accepted
      <3> QED  BY <3>1, <3>2, <3>3
    <2>8. CASE Tick(r)
      <3>1. rows[r].status = "analysis" /\ rows[r].slot = 1
        BY <1>0, <2>8, RowFields DEF Tick
      <3>2. [rows[r] EXCEPT !.sla = "expired"] \in Row
        BY <1>0, <3>1, RowChanged
      <3>3. rows' = [rows EXCEPT ![r] = [rows[r] EXCEPT !.sla = "expired"]]
        BY <1>0, <2>8 DEF Tick
      <3> QED  BY <2>8, <3>1, <3>2, <3>3 DEF Tick, Final, Accepted
    <2> QED  BY <2>1, <2>3, <2>4, <2>5, <2>6, <2>7, <2>8 DEF Serve
  <1> QED  BY <1>0, <1>1 DEF Typed, TypeOK

\* Type correctness, with the variables of each transaction fit for its point.
THEOREM SupportTyped == Spec => []Typed
  <1>1. Init => Typed
    <2> SUFFICES ASSUME Init PROVE Typed
      OBVIOUS
    <2>1. Unassigned("absent") \in Row
      BY RowMade DEF Outside
    <2> QED  BY <2>1, IdleSound DEF Init, Typed, TypeOK, Sound
  <1>2. Typed /\ [Next]_vars => Typed'
    <2> SUFFICES ASSUME Typed, [Next]_vars PROVE Typed'
      OBVIOUS
    <2>1. CASE UNCHANGED vars
      BY <2>1 DEF vars, Typed, TypeOK, Fits
    <2>2. ASSUME NEW t \in Thread, Step(t) PROVE Typed'
      BY <2>2, StepTyped
    <2>3. ASSUME NEW t \in Thread, Victim(t) \/ Crash(t) PROVE Typed'
      BY <2>3, RollbackTyped DEF Victim, Crash
    <2>4. ASSUME NEW t \in Thread, Call(t) PROVE Typed'
      BY <2>4, CallTyped
    <2>5. ASSUME NEW r \in Req, Serve(r) \/ Tick(r) PROVE Typed'
      BY <2>5, ServeTyped
    <2> QED  BY <2>1, <2>2, <2>3, <2>4, <2>5 DEF Next
  <1> QED  BY <1>1, <1>2, PTL DEF Spec

\* Rows, locks and threads are what the code may make of them, for every instance.
THEOREM SupportTypeOK == Spec => []TypeOK
  <1>1. Typed => TypeOK
    BY DEF Typed
  <1> QED  BY <1>1, SupportTyped, PTL

-----------------------------------------------------------------------------
(* Closed and accepted requests. *)

\* A row that waits, or is offered and not accepted, may become anything.
LEMMA LooseFirm ==
    ASSUME NEW me, NEW old, NEW seen, NEW new, Kept(me, old, seen), me.op # "away",
           seen.status \notin Final, ~Accepted(seen)
    PROVE  Firm(old, new)
  BY DEF Kept, Firm, GivenBack, Final

LEMMA SeenKept ==
    ASSUME SupportInv, NEW t \in Thread, NEW r \in Req
    PROVE  Kept(th[t], rows[r], Seen(t, r))
  BY DEF SupportInv, Drafted, Seen, Kept, Firm

\* What a thread writes, it had locked or locks now, and made of the committed row.
Drafts(t) == \A r \in Req :
    \/ held'[t][r] = None
    \/ held'[t][r] = held[t][r] /\ Kept(th'[t], rows[r], held[t][r])
    \/ Free(t, r) /\ Kept(th'[t], rows[r], held'[t][r])

\* Whatever is not a departure keeps to Firm, and so do its earlier drafts.
LEMMA WroteFirm ==
    ASSUME SupportInv, NEW t \in Thread, th[t].op # "away",
           \A r \in Req : \/ held'[t][r] \in {None, held[t][r]}
                          \/ Free(t, r) /\ Firm(rows[r], held'[t][r])
    PROVE  Drafts(t)
  BY DEF SupportInv, Drafted, Drafts, Kept, GivenBack

LEMMA WroteOne ==
    ASSUME SupportInv, NEW t \in Thread, th[t].op # "away", NEW r \in Req,
           NEW row \in Row, Write(t, r, row), Free(t, r), Firm(rows[r], row)
    PROVE  Drafts(t) /\ \A u \in Thread \ {t} : held'[u] = held[u]
  <1>1. held \in [Thread -> [Req -> Row \cup {None}]] /\ Typed
    BY DEF SupportInv, Typed, TypeOK
  <1>2. held' = [held EXCEPT ![t][r] = row]
    BY DEF Write
  <1>3. \A u \in Thread \ {t} : held'[u] = held[u]
    BY <1>1, <1>2
  <1>4. \A q \in Req : held'[t][q] = IF q = r THEN row ELSE held[t][q]
    BY <1>1, <1>2
  <1>5. Drafts(t)
    BY <1>4, WroteFirm
  <1> QED  BY <1>3, <1>5

LEMMA WroteNothing ==
    ASSUME SupportInv, NEW t \in Thread, th[t].op # "away", UNCHANGED held
    PROVE  Drafts(t) /\ \A u \in Thread \ {t} : held'[u] = held[u]
  BY WroteFirm

LEMMA WroteEnd ==
    ASSUME SupportInv, NEW t \in Thread, End(t)
    PROVE  Drafts(t) /\ \A u \in Thread \ {t} : held'[u] = held[u]
  BY EndTyped DEF SupportInv, Drafts

\* Every step but the commit writes under a lock of its own.
LEMMA StepDrafts ==
    ASSUME SupportInv, NEW t \in Thread, Step(t)
    PROVE  /\ Drafts(t)
           /\ \A u \in Thread \ {t} : held'[u] = held[u]
           /\ Commit(t) \/ UNCHANGED rows
  <1>0. Typed /\ TypeOK /\ th[t] \in Variables /\ Fits(th[t])
        /\ held \in [Thread -> [Req -> Row \cup {None}]]
    BY Self DEF SupportInv, Typed, TypeOK
  <1>f. th[t].pc \notin {"list", "release", "commit"} => th[t].op # "away"
    BY <1>0 DEF Fits
  <1>k. \A r \in Req : Kept(th[t], rows[r], Seen(t, r))
    BY SeenKept
  <1>1. CASE Expire(t)
    <2>1. th[t].op # "away"
      BY <1>1, <1>f DEF Expire
    <2>2. \A r \in Overdue(t) : Free(t, r) /\ Firm(rows[r], Unassigned("pending"))
      <3> TAKE r \in Overdue(t)
      <3>1. /\ r \in Req /\ Free(t, r) /\ Seen(t, r).status = "analysis"
            /\ Seen(t, r).sla = "expired"
        BY DEF Overdue
      <3>2. Seen(t, r).status \notin Final /\ ~Accepted(Seen(t, r))
        BY <3>1 DEF Final, Accepted
      <3> QED  BY <1>k, <2>1, <3>1, <3>2, LooseFirm
    <2>3. /\ \A u \in Thread \ {t} : held'[u] = held[u]
          /\ \A r \in Req : held'[t][r] = IF r \in Overdue(t)
                                          THEN Unassigned("pending") ELSE held[t][r]
      BY <1>0, <1>1 DEF Expire
    <2>4. Drafts(t)
      BY <2>1, <2>2, <2>3, WroteFirm
    <2> QED  BY <1>1, <2>3, <2>4 DEF Expire
  <1>2. CASE Promote(t)
    <2>1. th[t].op # "away" /\ UNCHANGED rows
      BY <1>2, <1>f DEF Promote
    <2>2. PICK a \in th[t].owed :
            \/ UNCHANGED held
            \/ \E r \in Waiting(t, a) : Free(t, r) /\ Write(t, r, Offered(a, 1))
      BY <1>2 DEF Promote
    <2>3. ASSUME NEW r \in Waiting(t, a), Free(t, r), Write(t, r, Offered(a, 1))
          PROVE  Drafts(t) /\ \A u \in Thread \ {t} : held'[u] = held[u]
      <3>1. /\ r \in Req /\ Seen(t, r).status = "analysis" /\ Seen(t, r).slot = 2
        BY DEF Waiting, Active
      <3>2. Seen(t, r).status \notin Final /\ ~Accepted(Seen(t, r))
        BY <3>1 DEF Final, Accepted
      <3>3. Firm(rows[r], Offered(a, 1))
        BY <1>k, <2>1, <3>1, <3>2, LooseFirm
      <3>4. a \in Agent /\ Offered(a, 1) \in Row
        BY <1>0, Self, RowMade
      <3> QED  BY <2>1, <2>3, <3>1, <3>3, <3>4, WroteOne
    <2> QED  BY <2>1, <2>2, <2>3, WroteNothing
  <1>3. CASE Gather(t) \/ Look(t) \/ Count(t) \/ Mark(t)
    BY <1>3, <1>f, WroteNothing DEF Gather, Look, Count, Mark
  <1>4. CASE Pick(t)
    BY <1>4, <1>f, WroteNothing, WroteEnd DEF Pick, Miss
  <1>5. CASE Take(t)
    <2> DEFINE r == th[t].req
               row == Offered(th[t].user, th[t].slot)
    <2>1. th[t].pc = "take" /\ th[t].op # "away" /\ UNCHANGED rows
      BY <1>5, <1>f DEF Take
    <2>2. CASE Available(t, r) /\ Free(t, r) /\ Write(t, r, row)
      <3>1. r \in Req /\ Seen(t, r).status = "pending"
        BY <2>2 DEF SupportInv, Looking, Available, General
      <3>2. Seen(t, r).status \notin Final /\ ~Accepted(Seen(t, r))
        BY <3>1 DEF Final, Accepted
      <3>3. Firm(rows[r], row)
        BY <1>k, <2>1, <3>1, <3>2, LooseFirm
      <3>4. row \in Row
        <4>1. th[t].user \in Agent /\ th[t].slot \in {1, 2}
          BY <1>0, <2>1, SupportActors DEF Fits
        <4> QED  BY <4>1, RowMade
      <3> QED  BY <2>1, <2>2, <3>1, <3>3, <3>4, WroteOne
    <2>3. CASE Miss(t)
      BY <2>1, <2>3, WroteNothing, WroteEnd DEF Miss
    <2> QED  BY <1>5, <2>1, <2>2, <2>3 DEF Take
  <1>6. CASE List(t)
    <2>1. UNCHANGED <<rows, held>> /\ th'[t].op = th[t].op /\ th'[t].user = th[t].user
      BY <1>0, <1>6 DEF List, Run, TypeOK, Variables
    <2> QED  BY <2>1 DEF SupportInv, Drafted, Drafts, Kept, GivenBack
  <1>7. CASE Release(t)
    <2>1. PICK r \in th[t].drain :
            /\ th[t].pc = "release" /\ Free(t, r)
            /\ IF r \in Active(t, th[t].user)
               THEN Write(t, r, Unassigned("pending"))
               ELSE UNCHANGED held
      BY <1>7 DEF Release
    <2>2. UNCHANGED rows /\ th'[t].op = th[t].op /\ th'[t].user = th[t].user
      BY <1>0, <1>7 DEF Release, Run, TypeOK, Variables
    <2>3. r \in Req /\ th[t].op = "away"
      BY <1>0, <2>1, Self DEF Fits
    <2>4. \A q \in Req : held[t][q] # None => Kept(th'[t], rows[q], held[t][q])
      BY <2>2 DEF SupportInv, Drafted, Kept, GivenBack
    <2>5. CASE UNCHANGED held
      BY <2>2, <2>4, <2>5 DEF Drafts
    <2>6. CASE r \in Active(t, th[t].user) /\ Write(t, r, Unassigned("pending"))
      <3>1. Seen(t, r).status = "analysis" /\ Seen(t, r).agent = th[t].user
        BY <2>6 DEF Active
      <3>2. Unassigned("pending").status = "pending"
        BY DEF Unassigned
      <3>3. Kept(th'[t], rows[r], Unassigned("pending"))
        BY <1>k, <2>2, <2>3, <3>1, <3>2 DEF Kept, Firm, GivenBack, Final, Accepted
      <3>4. /\ \A u \in Thread \ {t} : held'[u] = held[u]
            /\ \A q \in Req : held'[t][q] = IF q = r THEN Unassigned("pending")
                                                    ELSE held[t][q]
        BY <1>0, <2>6 DEF Write
      <3>5. Drafts(t)
        BY <2>1, <2>4, <3>3, <3>4 DEF Drafts
      <3> QED  BY <2>2, <3>4, <3>5
    <2> QED  BY <2>1, <2>5, <2>6
  <1>8. CASE Commit(t)
    BY <1>8, WroteEnd DEF Commit
  <1> QED  BY <1>1, <1>2, <1>3, <1>4, <1>5, <1>6, <1>7, <1>8 DEF Step

LEMMA CallDrafts ==
    ASSUME SupportInv, NEW t \in Thread, Call(t)
    PROVE  /\ Drafts(t) /\ UNCHANGED rows
           /\ \A u \in Thread \ {t} : held'[u] = held[u]
  <1>0. Typed /\ TypeOK /\ Fits(th[t]) /\ rows \in [Req -> Row]
    BY Self DEF SupportInv, Typed, TypeOK
  <1>1. th[t].op # "away"
    <2>1. th[t].pc = "idle"
      BY CallOpens, <1>0 DEF Opens
    <2> QED  BY <1>0, <2>1 DEF Fits
  <1>2. ASSUME NEW r \in Req, NEW s \in {"answered", "pending"}, Free(t, r),
               rows[r].status \notin Final, Accepted(rows[r]) => s = "answered",
               Write(t, r, Unassigned(s))
        PROVE  Drafts(t) /\ \A u \in Thread \ {t} : held'[u] = held[u]
    <2>1. Unassigned(s) \in Row /\ Unassigned(s).status = s
      BY RowMade DEF Outside, Final, Unassigned
    <2>2. Firm(rows[r], Unassigned(s))
      BY <1>2, <2>1 DEF Firm
    <2> QED  BY <1>1, <1>2, <2>1, <2>2, WroteOne
  <1>3. ASSUME NEW r \in Req, Answer(t, r)
        PROVE  Drafts(t) /\ \A u \in Thread \ {t} : held'[u] = held[u]
    BY <1>2, <1>3 DEF Answer, Final
  <1>4. ASSUME NEW r \in Req, Approve(t, r)
        PROVE  Drafts(t) /\ \A u \in Thread \ {t} : held'[u] = held[u]
    BY <1>2, <1>4 DEF Approve, Final, Accepted
  <1>5. ASSUME NEW r \in Req, AcceptLate(t, r)
        PROVE  Drafts(t) /\ \A u \in Thread \ {t} : held'[u] = held[u]
    BY <1>2, <1>5 DEF AcceptLate, Final, Accepted
  <1>6. Sweep(t) => UNCHANGED <<rows, held>>
    BY DEF Sweep
  <1>7. \A a \in Agent : Claim(t, a) => UNCHANGED <<rows, held>>
    BY DEF Claim
  <1>8. \A a \in Agent, r \in Req, named \in Named :
          Direct(t, a, r, named) => UNCHANGED <<rows, held>>
    BY DEF Direct
  <1>9. \A a \in Agent, status \in {"online", "away"} :
          SetAgentStatus(t, a, status) => UNCHANGED <<rows, held>>
    BY DEF SetAgentStatus
  <1>10. \A r \in Req : Answer(t, r) \/ Approve(t, r) \/ AcceptLate(t, r)
                          => UNCHANGED rows
    BY DEF Answer, Approve, AcceptLate
  <1> QED  BY <1>1, <1>3, <1>4, <1>5, <1>6, <1>7, <1>8, <1>9, <1>10, WroteNothing DEF Call

\* Locks stay exclusive, and drafts made of what is committed, when one thread
\* moves and the rows stay.
LEMMA DraftsKept ==
    ASSUME SupportInv, NEW t \in Thread, Drafts(t), UNCHANGED rows,
           \A u \in Thread \ {t} : held'[u] = held[u] /\ th'[u] = th[u]
    PROVE  Exclusive' /\ Drafted'
  <1>1. Exclusive'
    <2> SUFFICES ASSUME NEW u \in Thread, NEW v \in Thread, NEW r \in Req, u # v
                 PROVE  held'[u][r] = None \/ held'[v][r] = None
      BY DEF Exclusive
    <2>1. held[u][r] = None \/ held[v][r] = None
      BY DEF SupportInv, Exclusive
    <2>2. CASE u = t
      BY <2>1, <2>2 DEF Drafts, Free
    <2>3. CASE v = t
      BY <2>1, <2>3 DEF Drafts, Free
    <2> QED  BY <2>1, <2>2, <2>3
  <1>2. Drafted'
    <2> SUFFICES ASSUME NEW u \in Thread, NEW r \in Req, held'[u][r] # None
                 PROVE  Kept(th'[u], rows'[r], held'[u][r])
      BY DEF Drafted
    <2>1. CASE u = t
      BY <2>1 DEF Drafts
    <2>2. CASE u # t
      BY <2>2 DEF SupportInv, Drafted
    <2> QED  BY <2>1, <2>2
  <1> QED  BY <1>1, <1>2

\* The commit writes what the thread has locked, and releases it.
LEMMA CommitKept ==
    ASSUME SupportInv, NEW t \in Thread, Commit(t)
    PROVE  /\ Exclusive' /\ Drafted'
           /\ \A r \in Req : Kept(th[t], rows[r], rows'[r])
           /\ \A r \in Req : GivenBack(th[t], rows[r], rows'[r]) =>
                 presence'[rows[r].agent] = "away"
  <1>1. /\ \A r \in Req : held'[t][r] = None
        /\ \A u \in Thread \ {t} : held'[u] = held[u]
        /\ \A u \in Thread \ {t} : th'[u] = th[u]
        /\ \A r \in Req : rows'[r] = Seen(t, r)
    BY EndTyped, RunTyped, IdleSound DEF SupportInv, Commit
  <1>2. Exclusive'
    BY <1>1 DEF SupportInv, Exclusive
  <1>3. Drafted'
    <2> SUFFICES ASSUME NEW u \in Thread, NEW r \in Req, held'[u][r] # None
                 PROVE  Kept(th'[u], rows'[r], held'[u][r])
      BY DEF Drafted
    <2>1. u # t /\ held[u][r] # None /\ th'[u] = th[u]
      BY <1>1
    <2>2. held[t][r] = None
      BY <2>1 DEF SupportInv, Exclusive
    <2>3. rows'[r] = rows[r] /\ held'[u][r] = held[u][r]
      BY <1>1, <2>1, <2>2 DEF Seen
    <2> QED  BY <2>1, <2>3 DEF SupportInv, Drafted
  <1>4. \A r \in Req : Kept(th[t], rows[r], rows'[r])
    BY <1>1, SeenKept
  <1>5. ASSUME NEW r \in Req, GivenBack(th[t], rows[r], rows'[r])
        PROVE  presence'[rows[r].agent] = "away"
    <2>1. th[t].op = "away" /\ th[t].user = rows[r].agent /\ th[t].user \in Agent
      BY <1>5, Self DEF SupportInv, GivenBack, Fits
    <2>2. presence' = [presence EXCEPT ![th[t].user] = th[t].op]
      BY <2>1 DEF Commit
    <2> QED  BY <2>1, <2>2 DEF SupportInv, Typed, TypeOK
  <1> QED  BY <1>2, <1>3, <1>4, <1>5

\* A transaction keeps asking whether its request is still to be had.
LEMMA LookingKept ==
    ASSUME SupportInv, NEW t \in Thread, NEW next, Sound(next), Run(t, next), next.checks
    PROVE  Looking' /\ \A u \in Thread \ {t} : th'[u] = th[u]
  BY RunTyped DEF SupportInv, Looking

LEMMA SupportStep ==
    ASSUME FALSE \notin Named, SupportInv, [Next]_vars
    PROVE  /\ SupportInv'
           /\ \A r \in Req : \/ Firm(rows[r], rows'[r])
                             \/ /\ rows[r].status = "analysis"
                                /\ rows'[r].status = "pending"
                                /\ presence'[rows[r].agent] = "away"
  <1> DEFINE Honest == \A r \in Req :
                \/ Firm(rows[r], rows'[r])
                \/ /\ rows[r].status = "analysis"
                   /\ rows'[r].status = "pending"
                   /\ presence'[rows[r].agent] = "away"
  <1>a. Typed
    BY DEF SupportInv
  <1>b. UNCHANGED rows => Honest
    BY DEF Firm
  <1>1. CASE UNCHANGED vars
    <2>1. SupportInv'
      BY <1>1 DEF SupportInv, vars, Typed, TypeOK, Fits, Exclusive, Drafted, Looking,
                  Kept, Firm, GivenBack
    <2> QED  BY <1>1, <1>b, <2>1 DEF vars
  <1>2. ASSUME NEW t \in Thread, Step(t)
        PROVE  SupportInv' /\ Honest
    <2>1. PICK next : Sound(next) /\ Run(t, next) /\ Follows(t, next)
      BY <1>2, <1>a, StepAdvance DEF Advance
    <2>2. next.checks
      BY <2>1, IdleSound DEF SupportInv, Looking, Follows
    <2>3. Typed' /\ Looking' /\ \A u \in Thread \ {t} : th'[u] = th[u]
      BY <1>2, <1>a, <2>1, <2>2, StepTyped, LookingKept
    <2>4. CASE Commit(t)
      <3>1. Honest
        BY <2>4, CommitKept DEF Kept, GivenBack
      <3> QED  BY <2>3, <2>4, <3>1, CommitKept DEF SupportInv
    <2>5. CASE ~Commit(t)
      BY <1>2, <1>b, <2>3, <2>5, StepDrafts, DraftsKept DEF SupportInv
    <2> QED  BY <2>4, <2>5
  <1>3. ASSUME NEW t \in Thread, Victim(t) \/ Crash(t)
        PROVE  SupportInv' /\ Honest
    <2>1. Rollback(t) /\ End(t) /\ UNCHANGED rows
      BY <1>3 DEF Victim, Crash, Rollback
    <2>2. Run(t, Idle)
      BY <1>a, <2>1, EndTyped
    <2>3. Looking' /\ \A u \in Thread \ {t} : th'[u] = th[u]
      BY <2>2, IdleSound, LookingKept
    <2>4. Typed'
      BY <1>a, <2>1, RollbackTyped
    <2>5. Exclusive' /\ Drafted'
      BY <2>1, <2>3, WroteEnd, DraftsKept
    <2> QED  BY <1>b, <2>1, <2>3, <2>4, <2>5 DEF SupportInv
  <1>4. ASSUME NEW t \in Thread, Call(t)
        PROVE  SupportInv' /\ Honest
    <2>1. PICK next : Opens(t, next)
      BY <1>4, <1>a, CallOpens
    <2>2. Typed' /\ Looking' /\ \A u \in Thread \ {t} : th'[u] = th[u]
      BY <1>4, <1>a, <2>1, CallTyped, LookingKept DEF Opens
    <2>3. Exclusive' /\ Drafted' /\ UNCHANGED rows
      BY <1>4, <2>2, CallDrafts, DraftsKept
    <2> QED  BY <1>b, <2>2, <2>3 DEF SupportInv
  <1>5. ASSUME NEW r \in Req, Serve(r) \/ Tick(r)
        PROVE  SupportInv' /\ Honest
    <2>1. /\ Typed' /\ UNCHANGED <<presence, held, desk, th>>
          /\ \A t \in Thread : held[t][r] = None
          /\ \A q \in Req \ {r} : rows'[q] = rows[q]
          /\ rows[r].status \notin Final /\ ~Accepted(rows[r])
      BY <1>5, <1>a, ServeTyped
    <2>2. Exclusive' /\ Looking'
      BY <2>1 DEF SupportInv, Exclusive, Looking
    <2>3. Drafted'
      <3> SUFFICES ASSUME NEW t \in Thread, NEW q \in Req, held'[t][q] # None
                   PROVE  Kept(th'[t], rows'[q], held'[t][q])
        BY DEF Drafted
      <3>1. q # r /\ rows'[q] = rows[q]
        BY <2>1
      <3> QED  BY <2>1, <3>1 DEF SupportInv, Drafted
    <2>4. Honest
      BY <2>1 DEF Firm
    <2> QED  BY <2>1, <2>2, <2>3, <2>4 DEF SupportInv
  <1> QED  BY <1>1, <1>2, <1>3, <1>4, <1>5 DEF Next

\* The inductive invariant: rows change only under their lock, and what a transaction
\* is about to commit was made of what is committed now.
THEOREM SupportInvariant ==
    ASSUME FALSE \notin Named
    PROVE  Spec => []SupportInv
  <1>1. Init => SupportInv
    <2> SUFFICES ASSUME Init PROVE SupportInv
      OBVIOUS
    <2>1. Unassigned("absent") \in Row
      BY RowMade DEF Outside
    <2>2. Typed
      BY <2>1, IdleSound DEF Init, Typed, TypeOK, Sound
    <2> QED  BY <2>2, IdleSound DEF Init, SupportInv, Exclusive, Drafted, Looking
  <1>2. SupportInv /\ [Next]_vars => SupportInv'
    BY SupportStep
  <1> QED  BY <1>1, <1>2, PTL DEF Spec

\* A closed request is never reopened, provided every direction names its request.
THEOREM SupportFinalStays ==
    ASSUME FALSE \notin Named
    PROVE  Spec => FinalStays
  <1> DEFINE Stays == \A r \in Req : rows[r].status \in Final => rows'[r] = rows[r]
  <1>1. SupportInv /\ [Next]_vars => [Stays]_vars
    BY SupportStep DEF Firm, Final
  <1>2. Spec => []SupportInv
    BY SupportInvariant
  <1>3. Spec => [][Stays]_vars
    BY <1>1, <1>2, PTL DEF Spec
  <1> QED  BY <1>3 DEF FinalStays

\* A request somebody has accepted stays his, under the same proviso.
THEOREM SupportAcceptedStays ==
    ASSUME FALSE \notin Named
    PROVE  Spec => AcceptedStays
  <1> DEFINE Stays == \A r \in Req : Accepted(rows[r]) =>
                \/ rows'[r] = rows[r]
                \/ rows'[r].status = "answered"
                \/ rows'[r].status = "pending" /\ presence'[rows[r].agent] = "away"
  <1>1. SupportInv /\ [Next]_vars => [Stays]_vars
    BY SupportStep DEF Firm
  <1>2. Spec => []SupportInv
    BY SupportInvariant
  <1>3. Spec => [][Stays]_vars
    BY <1>1, <1>2, PTL DEF Spec
  <1> QED  BY <1>3 DEF AcceptedStays
=============================================================================
