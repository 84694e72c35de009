-------------------------- MODULE MCSubagentBatch ---------------------------
(* The finite instance gives the three caps small values in its cfg.       *)
EXTENDS SubagentBatch
=============================================================================
