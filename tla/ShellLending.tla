---------------------------- MODULE ShellLending ----------------------------
(***************************************************************************)
(* What web terminals promise, without timers, goroutines and sockets: a   *)
(* shell is started, offered under a request id, lent to one client after  *)
(* another, taken back, withdrawn and closed.  A request id has one shell, *)
(* a client gets one and only when it comes, nobody gets a shell that was  *)
(* withdrawn, and the agent closes a shell once, when nobody has it.       *)
(***************************************************************************)
EXTENDS Naturals

CONSTANTS Shells, Clients, Requests, NoShell, NoClient

VARIABLES
  shell,    \* "none", "running" or "exited"
  offered,  \* the shell of a request id
  lent,     \* the client that has the shell
  past,     \* the shells that are offered no more, or never were
  served,   \* the clients that were lent a shell
  closes    \* how often the agent has closed a shell

vars == <<shell, offered, lent, past, served, closes>>

Init ==
  /\ shell = [s \in Shells |-> "none"]
  /\ offered = [r \in Requests |-> NoShell]
  /\ lent = [s \in Shells |-> NoClient]
  /\ past = {} /\ served = {}
  /\ closes = [s \in Shells |-> 0]

Offered(s) == \E r \in Requests : offered[r] = s

\* A shell that was started and waits to be offered.
Spare(s) == shell[s] # "none" /\ s \notin past /\ ~Offered(s)

Start(s) ==
  /\ shell[s] = "none"
  /\ shell' = [shell EXCEPT ![s] = "running"]
  /\ UNCHANGED <<offered, lent, past, served, closes>>

\* A client is served, with shell s.
Lend(s, c) ==
  /\ c \notin served
  /\ served' = served \cup {c}
  /\ lent' = [lent EXCEPT ![s] = c]
  /\ UNCHANGED <<shell, closes>>

\* acquireSession, where the request id has no shell ...
Offer(s, r, c) ==
  /\ Spare(s)
  /\ offered[r] = NoShell
  /\ offered' = [offered EXCEPT ![r] = s]
  /\ Lend(s, c)
  /\ UNCHANGED past

\* ... where it has one, which the client takes over from whoever has it ...
TakeOver(r, c) ==
  /\ offered[r] # NoShell
  /\ Lend(offered[r], c)
  /\ UNCHANGED <<offered, past>>

\* ... and where it has one by the time the client's own has been started.
TurnDown(s, r, c) ==
  /\ Spare(s)
  /\ offered[r] # NoShell
  /\ past' = past \cup {s}
  /\ Lend(offered[r], c)
  /\ UNCHANGED offered

TakeBack(s) ==
  /\ lent[s] # NoClient
  /\ lent' = [lent EXCEPT ![s] = NoClient]
  /\ UNCHANGED <<shell, offered, past, served, closes>>

Withdraw(r) ==
  /\ offered[r] # NoShell
  /\ past' = past \cup {offered[r]}
  /\ offered' = [offered EXCEPT ![r] = NoShell]
  /\ UNCHANGED <<shell, lent, served, closes>>

Exit(s) ==
  /\ shell[s] = "running"
  /\ shell' = [shell EXCEPT ![s] = "exited"]
  /\ UNCHANGED <<offered, lent, past, served, closes>>

\* gracefulClose.
Close(s) ==
  /\ s \in past
  /\ lent[s] = NoClient
  /\ closes[s] = 0
  /\ shell' = [shell EXCEPT ![s] = "exited"]
  /\ closes' = [closes EXCEPT ![s] = 1]
  /\ UNCHANGED <<offered, lent, past, served>>

Next ==
  \/ \E s \in Shells : Start(s) \/ TakeBack(s) \/ Exit(s) \/ Close(s)
  \/ \E r \in Requests : Withdraw(r)
  \/ \E r \in Requests, c \in Clients : TakeOver(r, c)
  \/ \E s \in Shells, r \in Requests, c \in Clients : Offer(s, r, c) \/ TurnDown(s, r, c)

Spec == Init /\ [][Next]_vars

\* What it comes to: two request ids have different shells and a client has one
\* shell; what is offered has been started, and is neither withdrawn nor closed; a
\* shell is closed at most once, and then nobody has it and it runs no more.
Promise ==
  /\ \A r, q \in Requests : offered[r] # NoShell /\ offered[r] = offered[q] => r = q
  /\ \A s, t \in Shells : lent[s] # NoClient /\ lent[s] = lent[t] => s = t
  /\ \A s \in Shells : Offered(s) => shell[s] # "none" /\ s \notin past
  /\ \A s \in Shells : closes[s] # 0 =>
       closes[s] = 1 /\ s \in past /\ lent[s] = NoClient /\ shell[s] = "exited"
=============================================================================
