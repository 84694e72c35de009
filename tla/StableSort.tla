------------------------------ MODULE StableSort ------------------------------
(***************************************************************************)
(* [...xs].sort((a, b) => b[field] - a[field]), as two pages sort what the *)
(* API sent.  Array.prototype.sort is stable: each element in its turn     *)
(* goes behind all that are at least as large.                             *)
(***************************************************************************)
EXTENDS Integers, Sequences, SequencesExt, FiniteSetsExt

Placed(s, x, field) ==
    InsertAt(s, 1 + Cardinality({i \in 1..Len(s) : s[i][field] >= x[field]}), x)

LargestFirst(xs, field) ==
    LET upTo[i \in 0..Len(xs)] ==
          IF i = 0 THEN <<>> ELSE Placed(upTo[i - 1], xs[i], field)
    IN  upTo[Len(xs)]
=============================================================================
