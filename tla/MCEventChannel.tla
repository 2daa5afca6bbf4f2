--------------------------- MODULE MCEventChannel ---------------------------
(* Instances of EventChannel for TLC. *)
EXTENDS EventChannel, TLC

\* Connections are interchangeable, and pull loops are.
Symmetry == Permutations(Conns) \cup Permutations(PullLoops)
=============================================================================
