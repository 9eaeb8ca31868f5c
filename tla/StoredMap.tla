------------------------------ MODULE StoredMap ------------------------------
(***************************************************************************)
(* One connection in the metadata database, as a question sees it: whether *)
(* its row exists, whether a knowledge map is stored for it, and the       *)
(* tables of that map.  Discovery.tla implements this module for each of   *)
(* its connections; QueryPipeline.tla runs questions against it.           *)
(***************************************************************************)
CONSTANT Table    \* tables of the target database

VARIABLES
  alive,     \* the connection's row exists
  mapped,    \* a context version is stored; what is stored is READY
  stored     \* its tables

Init == alive \in BOOLEAN /\ mapped = FALSE /\ stored = {}

\* Bug: a save replaces the tables that are stored.
TablesAfterSave_Replaced(ts) == ts

\* save_context_full adds tables to the ones that are stored.
TablesAfterSave(ts) == stored \cup ts

\* A discovery run commits a map: new tables only, maybe none.
Publish ==
  /\ alive' = TRUE
  /\ mapped' = TRUE
  /\ \E ts \in SUBSET (Table \ stored) : stored' = TablesAfterSave(ts)

\* The row is created by connecting, or re-created by a discovery run as a
\* placeholder.
Appear == alive' = TRUE /\ UNCHANGED <<mapped, stored>>

\* The connection is deleted, and its map with it.
Drop ==
  /\ alive
  /\ alive' = FALSE
  /\ mapped' = FALSE
  /\ stored' = {}

Next == Publish \/ Appear \/ Drop

view == <<alive, mapped, stored>>

Spec == Init /\ [][Next]_view
=============================================================================
