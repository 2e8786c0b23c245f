------------------------------ MODULE SyncPromise ------------------------------
(***************************************************************************)
(* What the bot-to-database queue promises for each job: it runs one       *)
(* attempt at a time, an attempt is given up only when its worker is dead, *)
(* the attempts are bounded, and a job that ended stays ended.  A job that *)
(* a recovery has written over without looking is out of the promise.      *)
(***************************************************************************)
EXTENDS Naturals
CONSTANTS Job, MaxRequeue, ProjectionMax
VARIABLES phase,   \* where each job is
          starts   \* how many attempts of it have begun

Ended == {"done", "failed", "skipped"}

Init == phase = [j \in Job |-> "none"] /\ starts = [j \in Job |-> 0]

To(j, p) == phase' = [phase EXCEPT ![j] = p]

Accept(j) == phase[j] = "none" /\ To(j, "waiting") /\ UNCHANGED starts

Start(j) ==
    /\ phase[j] = "waiting"
    /\ starts[j] <= MaxRequeue \/ starts[j] < ProjectionMax
    /\ To(j, "working")
    /\ starts' = [starts EXCEPT ![j] = @ + 1]

Finish(j) ==
    /\ phase[j] = "working"
    /\ \/ \E e \in Ended : To(j, e)
       \/ starts[j] < ProjectionMax /\ To(j, "waiting")
    /\ UNCHANGED starts

Withdraw(j) == phase[j] = "waiting" /\ To(j, "skipped") /\ UNCHANGED starts

\* The process dies with everything it was working on.
Lose(S) ==
    /\ S # {} /\ \A j \in S : phase[j] = "working"
    /\ phase' = [j \in Job |-> IF j \in S THEN "lost" ELSE phase[j]]
    /\ UNCHANGED starts

Recover(j) ==
    /\ phase[j] = "lost"
    /\ \/ starts[j] <= MaxRequeue /\ To(j, "waiting")
       \/ To(j, "failed")
    /\ UNCHANGED starts

\* From here on nothing is promised of j.
Forfeit(j) ==
    /\ To(j, "forfeit")
    /\ starts' = [starts EXCEPT ![j] = 0]

Next ==
    \/ \E j \in Job : \/ Accept(j) \/ Start(j) \/ Finish(j) \/ Withdraw(j)
                      \/ Recover(j) \/ Forfeit(j)
    \/ \E S \in SUBSET Job : Lose(S)

vars == <<phase, starts>>

Spec == Init /\ [][Next]_vars
=============================================================================
