--------------------------- MODULE OperationCycle ---------------------------
(***************************************************************************)
(* What the user is promised of the operations: one at a time is begun, it *)
(* comes to an outcome of its own, that outcome is what gets reported, and *)
(* only then can the next one begin.  UpdiApp implements this with a menu, *)
(* a thread, a timer and a queue of events.                                *)
(***************************************************************************)
CONSTANTS
    Operations,     \* what can be begun
    Outcomes        \* how it can end

VARIABLES
    state,      \* "idle", "running", "ended" and not yet reported, or "reported"
    what,       \* the operation, "None" at first
    outcome     \* of it, "none" while there is none

vars == <<state, what, outcome>>

Init == state = "idle" /\ what = "None" /\ outcome = "none"

Begin ==
    /\ state = "idle"
    /\ state' = "running" /\ what' \in Operations /\ outcome' = "none"

End ==
    /\ state = "running"
    /\ state' = "ended" /\ outcome' \in Outcomes
    /\ UNCHANGED what

Report ==
    /\ state = "ended"
    /\ state' = "reported"
    /\ UNCHANGED <<what, outcome>>

Dismiss ==
    /\ state = "reported"
    /\ state' = "idle" /\ outcome' = "none"
    /\ UNCHANGED what

Next == Begin \/ End \/ Report \/ Dismiss

Safety == Init /\ [][Next]_vars

\* What was begun ends, and its end is reported; the user need not do anything.
Spec == Safety /\ WF_vars(End) /\ WF_vars(Report)
=============================================================================
