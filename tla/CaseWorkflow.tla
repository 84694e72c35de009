---------------------------- MODULE CaseWorkflow ----------------------------
(***************************************************************************)
(* What the Dispute Center promises of a case, without screens: a case     *)
(* goes through its stages one at a time, leaves a stage only while that   *)
(* stage is cleared, closes only at its last stage and does nothing more   *)
(* once closed.  Reviewers clear stages and take clearances back as they   *)
(* like.  All of it lives in one browser tab: reloading the tab starts     *)
(* every case over.                                                        *)
(***************************************************************************)
EXTENDS Naturals

CONSTANTS
    Case,           \* the cases of the book
    FirstStage,     \* FirstStage[c]: the stage the book files c under
    LastStage,      \* LastStage[c]: the stage at which c can be closed
    FirstOpen,      \* the cases the book holds open
    FirstCleared    \* the cases whose first stage the book holds cleared

VARIABLES
    stage,
    open,
    cleared         \* the cases that may leave the stage they are at

vars == <<stage, open, cleared>>

Init ==
    /\ stage = FirstStage
    /\ open = FirstOpen
    /\ cleared = FirstCleared

Review ==
    /\ cleared' # cleared
    /\ UNCHANGED <<stage, open>>

Advance(c) ==
    /\ c \in open
    /\ stage[c] < LastStage[c]
    /\ c \in cleared
    /\ stage' = [stage EXCEPT ![c] = @ + 1]
    /\ cleared' \ {c} = cleared \ {c}
    /\ UNCHANGED open

Close(c) ==
    /\ c \in open
    /\ stage[c] = LastStage[c]
    /\ c \in cleared
    /\ open' = open \ {c}
    /\ UNCHANGED <<stage, cleared>>

StartOver ==
    /\ stage' = FirstStage
    /\ open' = FirstOpen
    /\ cleared' = FirstCleared

Next ==
    \/ Review
    \/ StartOver
    \/ \E c \in Case : Advance(c) \/ Close(c)

Spec == Init /\ [][Next]_vars
=============================================================================
