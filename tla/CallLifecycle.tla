--------------------------- MODULE CallLifecycle ----------------------------
(***************************************************************************)
(* What the table subagent_calls promises the audit panel: the row of a    *)
(* call is inserted pending, goes through running to complete or failed,   *)
(* and never moves again.                                                  *)
(***************************************************************************)

CONSTANTS
    Call     \* the calls of one run_subagent

VARIABLES
    row      \* status of each call's row; "absent": not inserted

Settled == {"complete", "failed"}

Init == row = [c \in Call |-> "absent"]

Advance(c, from, to) ==
    /\ row[c] \in from
    /\ \E s \in to : row' = [row EXCEPT ![c] = s]

Next == \E c \in Call :
    \/ Advance(c, {"absent"}, {"pending"})
    \/ Advance(c, {"pending"}, {"running"})
    \/ Advance(c, {"running"}, Settled)

Spec == Init /\ [][Next]_row
=============================================================================
