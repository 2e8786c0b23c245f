------------------------- MODULE ReleasePromiseProofs -------------------------
(***************************************************************************)
(* What a reader may conclude of any system that keeps the promise.        *)
(***************************************************************************)
EXTENDS ReleasePromise, TLAPS

\* What is live is approved.
LiveApproved == live \in approved \cup {None}

\* Users never get a release that was not built and validated, or that was
\* removed or rebuilt since: whoever implements ReleasePromise shows this too.
THEOREM PromiseMeansApproved == Spec => []LiveApproved
<1>1. Init => LiveApproved
  BY DEF Init, LiveApproved
<1>2. LiveApproved /\ [Next]_state => LiveApproved'
  <2> SUFFICES ASSUME LiveApproved, [Next]_state
               PROVE  LiveApproved'
    OBVIOUS
  <2>1. CASE Acquire \/ Leave \/ UNCHANGED state
    BY <2>1 DEF Acquire, Leave, state, LiveApproved
  <2>2. CASE Approve
    BY <2>2 DEF Approve, LiveApproved
  <2>3. CASE Discard
    BY <2>3 DEF Discard, LiveApproved
  <2>4. CASE Switch
    BY <2>4 DEF Switch, LiveApproved
  <2> QED
    BY <2>1, <2>2, <2>3, <2>4 DEF Next
<1> QED
  BY <1>1, <1>2, PTL DEF Spec
=============================================================================
