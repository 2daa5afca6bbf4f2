---------------------------- MODULE MCFileUpload ----------------------------
(* Instances of FileUpload for TLC. *)
EXTENDS FileUpload, TLC

\* Every stream has a transfer id of its own.
OwnTransfer == [s \in Streams |-> s]

\* Streams are interchangeable, their transfer ids with them.
Symmetry == Permutations(Streams)
=============================================================================
