----------------------------- MODULE MCSSHLease -----------------------------
(* Instances of SSHLease for TLC. *)
EXTENDS SSHLease

CONSTANTS root, alice, t1, t2, t3

\* The agent runs as root: its file is the first and the last of the walk.
RootAgent == <<root, alice, root>>

\* No ticket is a prefix of another one.
OwnNames == {<<t, t>> : t \in Tickets}

\* Every ticket is for one user, given by name or by default; two share a file.
OneUserEach == {<<t1, alice>>, <<t2, NoUser>>, <<t3, alice>>}

\* Handlers are numbered, and the first that is free takes a request: which
\* goroutine it is makes no difference.  Nor does it which of t1 and t3, that are
\* for the same user, comes first.  No other step is left out: only a request can
\* make InOrder false, and fairness asks for none.
InOrder ==
  /\ \A h, k \in Handlers : h < k /\ op[Handler(k)].kind # "idle" => op[Handler(h)].kind # "idle"
  /\ sent[t3] # "none" => sent[t1] # "none"

OrderedSpec == Init /\ [][Next /\ InOrder']_vars /\ Fairness

\* So that the panel is the one the theorems of SSHLeaseProofs are about.
ASSUME OwnTickets == OwnFiles
=============================================================================
