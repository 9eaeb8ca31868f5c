--------------------------- MODULE MCMetadataLocks ---------------------------
(***************************************************************************)
(* An instance of MetadataLocks.tla for TLC: two runs and a delete of one  *)
(* connection, a delete of another, which they meet on whole tables only,  *)
(* and a question.                                                         *)
(***************************************************************************)
EXTENDS MetadataLocks, TLC

CONSTANTS r1, r2, d1, d2, q1, c1, c2

MCTarget == [a \in {r1, r2, d1, d2} |-> IF a = d2 THEN c2 ELSE c1]
MCIndexes == <<"tables", "columns">>

\* The runs differ in nothing but their names.
MCSymmetry == Permutations({r1, r2})
=============================================================================
