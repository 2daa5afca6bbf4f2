--------------------------- MODULE AtomicPublish ---------------------------
(***************************************************************************)
(* What the upload operations promise, without streams, sessions, locks or *)
(* restarts: chunks are staged away from the target, may be thrown away at *)
(* any moment, and a target path goes over to an upload in one step, all   *)
(* chunks of it together.                                                  *)
(***************************************************************************)
EXTENDS Integers

CONSTANTS Uploads, Paths, Chunks, NoUpload

VARIABLES
  staged,     \* the chunks held for an upload to a path
  published   \* the upload each path shows, NoUpload for what was there before

vars == <<staged, published>>

Init ==
  /\ staged = [k \in Uploads \X Paths |-> {}]
  /\ published = [p \in Paths |-> NoUpload]

\* upload_stream: one more chunk is safe, or is safe once more.
Stage(k, c) ==
  /\ staged' = [staged EXCEPT ![k] = @ \cup {c}]
  /\ UNCHANGED published

\* upload_cancel, or a new session over what a lost one left.
Discard(k) ==
  /\ staged' = [staged EXCEPT ![k] = {}]
  /\ UNCHANGED published

\* upload_commit: possible with every chunk only; staged for p, shown at p.
Publish(u, p) ==
  /\ staged[<<u, p>>] = Chunks
  /\ published' = [published EXCEPT ![p] = u]
  /\ staged' = [staged EXCEPT ![<<u, p>>] = {}]

Next ==
  \/ \E k \in Uploads \X Paths : Discard(k) \/ \E c \in Chunks : Stage(k, c)
  \/ \E u \in Uploads, p \in Paths : Publish(u, p)

Spec == Init /\ [][Next]_vars
=============================================================================
