---------------------------- MODULE MCThreadPage ----------------------------
(* Instances of the page: the constants are model values of the cfgs.       *)
EXTENDS ThreadPage, TLC

Symmetric == Permutations(Conn)
=============================================================================
