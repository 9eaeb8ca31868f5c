--------------------------- MODULE PublishedMaps ---------------------------
(***************************************************************************)
(* What the metadata database promises about knowledge maps, seen by a     *)
(* reader: for every connection a catalogue of tables, each attributed to  *)
(* the discovery run that published it.  A run publishes its whole map in  *)
(* one step or not at all, never on top of a table another run published,  *)
(* and the catalogue of a connection is only ever emptied as a whole.      *)
(* Discovery.tla implements this module.                                   *)
(***************************************************************************)
CONSTANTS
  Conn,    \* connection ids
  Run,     \* discovery runs
  Table,   \* tables of the target databases
  NoRun    \* "no run published this table"

VARIABLE owner    \* owner[c][t]: the run whose map holds table t of connection c

Empty == [t \in Table |-> NoRun]

Init == owner = [c \in Conn |-> Empty]

\* Run r publishes the map ts of connection c.
Publish(c, r, ts) ==
  /\ \A t \in Table : owner[c][t] # r
  /\ \A t \in ts : owner[c][t] = NoRun
  /\ owner' = [owner EXCEPT ![c] = [t \in Table |-> IF t \in ts THEN r ELSE @[t]]]

\* The connection is removed and its catalogue with it.
Drop(c) == owner' = [owner EXCEPT ![c] = Empty]

Next == \E c \in Conn : \/ Drop(c)
                        \/ \E r \in Run, ts \in SUBSET Table : Publish(c, r, ts)

Spec == Init /\ [][Next]_owner
=============================================================================
