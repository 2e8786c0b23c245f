---------------------------- MODULE ReleasePromise ----------------------------
(***************************************************************************)
(* What a deploy environment promises, without its scripts: one process at *)
(* a time holds the environment, only the holder decides what is live, and *)
(* what is live has been approved and stays approved while it is live.     *)
(***************************************************************************)
CONSTANTS Release, Process, None

VARIABLES
    live,       \* the release users get, None while there is none
    approved,   \* releases that are built and validated
    holder      \* the process at work in the environment

state == <<live, approved, holder>>

Init ==
    /\ live \in Release \cup {None}
    /\ approved = {live} \ {None}
    /\ holder = None

Acquire ==
    /\ holder = None
    /\ holder' \in Process
    /\ UNCHANGED <<live, approved>>

\* The holder lets go, or is killed.
Leave ==
    /\ holder # None
    /\ holder' = None
    /\ UNCHANGED <<live, approved>>

Approve ==
    /\ holder # None
    /\ \E r \in Release : approved' = approved \cup {r}
    /\ UNCHANGED <<live, holder>>

\* Never what is live.
Discard ==
    /\ holder # None
    /\ approved' \in SUBSET approved
    /\ live \in approved' \cup {None}
    /\ UNCHANGED <<live, holder>>

Switch ==
    /\ holder # None
    /\ live' \in approved \cup {None}
    /\ UNCHANGED <<approved, holder>>

Next == Acquire \/ Leave \/ Approve \/ Discard \/ Switch

Spec == Init /\ [][Next]_state
===============================================================================
