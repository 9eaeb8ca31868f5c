---------------------------- MODULE MCDiscovery ----------------------------
(***************************************************************************)
(* Instances of Discovery.tla for TLC: one connection, two runs, one or    *)
(* two tables, and the steps whose effects differ.                         *)
(***************************************************************************)
EXTENDS Discovery

CONSTANT c1

\* A step that cannot fail, the two that read the connection, the save.
MCSteps == <<"SchemaDiscovery", "SampleDiscovery", "ContextPersistence">>
MCShortSteps == <<"SchemaDiscovery", "ContextPersistence">>

\* Every run on one connection: runs on two connections share no state.
MCSameTarget == [r \in Run |-> c1]

\* Clients that wait for one discovery to end before they ask for the next.
SerialSpec ==
  Init /\ [][Next /\ \A c \in Conn : Cardinality(ActiveOn(c)') <= 1]_vars

\* Runs of one connection differ in nothing but their names: First is the
\* first to start.
First == CHOOSE r \in Run : TRUE
InOrder == pc[First] # "idle" \/ \A r \in Run : pc[r] = "idle"
OrderedSpec ==
  Init /\ [][Next /\ InOrder']_vars /\ \A r \in Run : WF_vars(Progress(r))
=============================================================================
