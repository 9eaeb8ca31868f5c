-------------------------- MODULE MCQueryPipeline --------------------------
(***************************************************************************)
(* Instances of QueryPipeline.tla for TLC: one question, which shares no   *)
(* state with others, against a metadata database that changes under it.   *)
(***************************************************************************)
EXTENDS QueryPipeline

CONSTANTS t1, t2, t3, cat, x, y, z, public, other, system

\* Two tables of one name, one that shares a schema with the second, and a
\* system catalogue.
MCName == [t \in Table |-> CASE t = t3 -> y [] t = cat -> z [] OTHER -> x]
MCSchema == [t \in Table |-> CASE t = t1 -> public [] t = cat -> system [] OTHER -> other]

\* For runs about tables: statements that differ in their one table and names
\* only (a table is checked by itself), and maps without the catalogue, which
\* discovery does not list.
MCPlain ==
  /\ \A q \in Question : /\ plan[q].form \in {"none", "plain"} /\ ~plan[q].added
                        /\ Cardinality(plan[q].tables) <= 1
  /\ cat \notin stored

\* A LIMIT below the cap and one above it.
MCLimits == {1, 3}
=============================================================================
