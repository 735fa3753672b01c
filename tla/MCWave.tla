------------------------------ MODULE MCWave -------------------------------
(***************************************************************************)
(* Small instances of Wave for TLC.                                        *)
(***************************************************************************)
EXTENDS Wave

CONSTANTS i, a, b

\* Everybody connected to everybody, and i and b out of each other's reach.
FullMesh == [p \in Peer |-> Peer \ {p}]
Line == [p \in Peer |-> (IF p = a THEN {i, b} ELSE {a}) \cap Peer]

=============================================================================
