-------------------------- MODULE MCResearchPlans ---------------------------
(* Leads of the finite instances: all of them work on the same thread.     *)
EXTENDS ResearchPlans, TLC

SameThread == [l \in Lead |-> CHOOSE th \in Thread : TRUE]

Symmetric == Permutations(Lead) \cup Permutations(Request)
=============================================================================
