---------------------------- MODULE MCPlacement ----------------------------
(* Small instances of Placement.                                           *)
EXTENDS Placement, TLC

CONSTANTS n1, e1

\* The one entry is assigned to the backend n1.
EntryOfN1 == [n \in Nodes |-> Entries \cap (IF n = n1 THEN {e1} ELSE {})]

NoEntries == [n \in Nodes |-> {}]

Symmetry == Permutations(Rows)
=============================================================================
