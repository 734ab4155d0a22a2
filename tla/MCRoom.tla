------------------------------- MODULE MCRoom -------------------------------
(* Instances of Room for TLC.  Each device is a node of its own.            *)
EXTENDS Room, TLC

CONSTANTS k1, k2, c1, c2

OwnUid == [k \in Keys |-> k]

Symmetry == Permutations({k1, k2}) \cup Permutations({c1, c2})
=============================================================================
