------------------------- MODULE MCUploadLifecycle -------------------------
(* Instances of UploadLifecycle for TLC. *)
EXTENDS UploadLifecycle

\* Every stream has a transfer id of its own.
OwnTransfer == [s \in Streams |-> s]
=============================================================================
