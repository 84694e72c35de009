--------------------------- MODULE MCDisputeDesk ---------------------------
(***************************************************************************)
(* The Dispute Center over cases of the real book, as the configuration    *)
(* picks them: a draft at its intake, one at its decision, and a fraud     *)
(* case past its intake, with a sign-off on record.                        *)
(***************************************************************************)
EXTENDS CaseScreens

CONSTANTS MaxEdits      \* bound: sign-offs recorded beyond those of the book

MCBook == [c \in Case |-> FiledEntry(c)]

Edited == {p \in Case \X StageIndex : signoffs[p[1]][p[2]] # Book[p[1]].signoffs[p[2]]}

EditBound == Cardinality(Edited) <= MaxEdits
=============================================================================
