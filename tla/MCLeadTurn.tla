----------------------------- MODULE MCLeadTurn -----------------------------
(* Symmetry of the finite instances of LeadTurn (safety runs only).         *)
EXTENDS LeadTurn, TLC

InterchangeableConns == Permutations(Conn)
InterchangeableProcesses == Permutations(Conn) \cup Permutations(Instance)
=============================================================================
