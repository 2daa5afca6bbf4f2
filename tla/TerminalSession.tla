-------------------------- MODULE TerminalSession --------------------------
(***************************************************************************)
(* Web terminals, terminal/terminal.go.  A session keeps a shell on a      *)
(* pseudo terminal alive for a while after its WebSocket dropped, and a    *)
(* new connection with the same request id takes it over.                  *)
(*                                                                         *)
(* Four kinds of goroutine work on a session: StartTerminal of every       *)
(* connection (which reads the input), readOutput, the callback of the     *)
(* retention timer and the closer of a shell that was started in vain.     *)
(* sessionsMu guards the map and session.mu the session; they nest only in *)
(* acquireSession.  A step is one critical section or one blocking call.   *)
(*                                                                         *)
(* A connection makes at most one session, so sessions bear the name of    *)
(* the connection that made them.                                          *)
(***************************************************************************)
EXTENDS Naturals

CONSTANTS
  Conns,     \* WebSocket connections, each served by one StartTerminal
  Quitters,  \* those of them whose user ends the terminal with a "close" message
  Requests,  \* request ids
  NoConn, NoSession, NoRequest

ASSUME QuittersTyped == Quitters \subseteq Conns
ASSUME Sentinels == NoConn \notin Conns /\ NoSession \notin Conns /\ NoRequest \notin Requests

VARIABLES
  sessions,  \* request id -> session, NoSession when the key is absent
  conn,      \* session.conn
  timer,     \* session.timer: "nil", "running", or "fired" but not yet reset
  removed,   \* the sessions whose removed flag is set
  shell,     \* the pseudo terminal of a session
  closes,    \* how often term.Close was called
  sock,      \* each connection, as the agent sees it
  pc,        \* where StartTerminal is
  req,       \* its request id
  ses,       \* the session acquireSession returned
  old,       \* the connection acquireSession displaced
  rpc,       \* where readOutput of a session is
  rconn,     \* the connection readOutput is writing to
  cl,        \* where each goroutine that may close a session is in closeSession
  clConn     \* the connection closeSession took out of the session

sessionVars == <<sessions, conn, timer, removed>>
startVars == <<pc, req, ses, old>>
readerVars == <<rpc, rconn>>
closeVars == <<cl, clConn>>
vars == <<sessions, conn, timer, removed, shell, closes, sock, pc, req, ses, old,
          rpc, rconn, cl, clConn>>

Sessions == Conns

\* Who may run closeSession, or gracefulClose for an orphan, on which session.
Closers == {"input", "reader", "timer", "orphan"} \X Conns

Init ==
  /\ sessions = [r \in Requests |-> NoSession]
  /\ conn = [s \in Sessions |-> NoConn]
  /\ timer = [s \in Sessions |-> "nil"]
  /\ removed = {}
  /\ shell = [s \in Sessions |-> "none"]
  /\ closes = [s \in Sessions |-> 0]
  /\ sock = [c \in Conns |-> "none"]
  /\ pc = [c \in Conns |-> "idle"]
  /\ req = [c \in Conns |-> NoRequest]
  /\ ses = [c \in Conns |-> NoSession]
  /\ old = [c \in Conns |-> NoConn]
  /\ rpc = [s \in Sessions |-> "none"]
  /\ rconn = [s \in Sessions |-> NoConn]
  /\ cl = [a \in Closers |-> "none"]
  /\ clConn = [a \in Closers |-> NoConn]

(***************************************************************************)
(* StartTerminal and acquireSession.  A connection that is refused (web     *)
(* terminals are disabled, the request id is empty, no shell starts) is    *)
(* closed and leaves no trace.                                             *)
(***************************************************************************)

\* Mutant: the timer is stopped but the pointer is not reset.
AttachKeepsTimer(s, c) ==
  /\ removed' = removed \ {s}
  /\ timer' = [timer EXCEPT ![s] = IF @ = "nil" THEN "nil" ELSE "fired"]
  /\ conn' = [conn EXCEPT ![s] = c]
  /\ old' = [old EXCEPT ![c] = conn[s]]
  /\ ses' = [ses EXCEPT ![c] = s]
  /\ pc' = [pc EXCEPT ![c] = "displace"]

\* What acquireSession does to session s with both mutexes held.
Attach(s, c) ==
  /\ removed' = removed \ {s}
  /\ timer' = [timer EXCEPT ![s] = "nil"]
  /\ conn' = [conn EXCEPT ![s] = c]
  /\ old' = [old EXCEPT ![c] = conn[s]]
  /\ ses' = [ses EXCEPT ![c] = s]
  /\ pc' = [pc EXCEPT ![c] = "displace"]

\* A connection for request id r, which has a session.
Reattach(c, r) ==
  /\ pc[c] = "idle"
  /\ sessions[r] # NoSession
  /\ Attach(sessions[r], c)
  /\ sock' = [sock EXCEPT ![c] = "open"]
  /\ req' = [req EXCEPT ![c] = r]
  /\ UNCHANGED <<sessions, shell, closes, readerVars, closeVars>>

\* It has none: sessionsMu is released and a shell is started.
Spawn(c, r) ==
  /\ pc[c] = "idle"
  /\ sessions[r] = NoSession
  /\ shell' = [shell EXCEPT ![c] = "running"]
  /\ sock' = [sock EXCEPT ![c] = "open"]
  /\ req' = [req EXCEPT ![c] = r]
  /\ pc' = [pc EXCEPT ![c] = "publish"]
  /\ UNCHANGED <<sessionVars, closes, ses, old, readerVars, closeVars>>

\* Mutant: the map is not looked at again after the shell was started.
PublishUnchecked(c) ==
  /\ pc[c] = "publish"
  /\ sessions' = [sessions EXCEPT ![req[c]] = c]
  /\ Attach(c, c)
  /\ UNCHANGED <<shell, closes, sock, req, readerVars, closeVars>>

\* The new session is put into the map, still without one for the request id.
Publish(c) ==
  /\ pc[c] = "publish"
  /\ sessions[req[c]] = NoSession
  /\ sessions' = [sessions EXCEPT ![req[c]] = c]
  /\ Attach(c, c)
  /\ UNCHANGED <<shell, closes, sock, req, readerVars, closeVars>>

\* Another connection was faster: its session is used, the new shell is an orphan.
Yield(c) ==
  /\ pc[c] = "publish"
  /\ sessions[req[c]] # NoSession
  /\ Attach(sessions[req[c]], c)
  /\ cl' = [cl EXCEPT ![<<"orphan", c>>] = "term"]
  /\ UNCHANGED <<sessions, shell, closes, sock, req, readerVars, clConn>>

\* The displaced connection is closed, and a new session gets its readOutput.
Displace(c) ==
  /\ pc[c] = "displace"
  /\ sock' = IF old[c] = NoConn THEN sock ELSE [sock EXCEPT ![old[c]] = "closed"]
  /\ rpc' = IF ses[c] = c THEN [rpc EXCEPT ![c] = "read"] ELSE rpc
  /\ old' = [old EXCEPT ![c] = NoConn]
  /\ pc' = [pc EXCEPT ![c] = "input"]
  /\ UNCHANGED <<sessionVars, shell, closes, req, ses, rconn, closeVars>>

(***************************************************************************)
(* handleInput.  What is written to the shell changes nothing here.        *)
(***************************************************************************)

\* Mutant: any failing connection detaches the session.
DetachAny(s, c) ==
  IF s \in removed
  THEN UNCHANGED <<conn, timer>>
  ELSE /\ conn' = [conn EXCEPT ![s] = NoConn]
       /\ timer' = [timer EXCEPT ![s] = IF @ = "nil" THEN "running" ELSE @]

\* detach: only the connection the session still has counts.
Detach(s, c) ==
  IF s \in removed \/ conn[s] # c
  THEN UNCHANGED <<conn, timer>>
  ELSE /\ conn' = [conn EXCEPT ![s] = NoConn]
       /\ timer' = [timer EXCEPT ![s] = IF @ = "nil" THEN "running" ELSE @]

\* ReadMessage fails, the peer being gone or the agent having closed the
\* connection: StartTerminal detaches it, closes it and returns.
InputFails(c) ==
  /\ pc[c] = "input"
  /\ sock[c] # "open"
  /\ Detach(ses[c], c)
  /\ sock' = [sock EXCEPT ![c] = "closed"]
  /\ ses' = [ses EXCEPT ![c] = NoSession]
  /\ pc' = [pc EXCEPT ![c] = "done"]
  /\ UNCHANGED <<sessions, removed, shell, closes, req, old, readerVars, closeVars>>

\* A "close" message.
InputCloses(c) ==
  /\ c \in Quitters
  /\ pc[c] = "input"
  /\ sock[c] = "open"
  /\ pc' = [pc EXCEPT ![c] = "close"]
  /\ cl' = [cl EXCEPT ![<<"input", c>>] = "enter"]
  /\ UNCHANGED <<sessionVars, shell, closes, sock, req, ses, old, readerVars, clConn>>

\* closeSession is over: StartTerminal closes the connection and returns.
InputReturns(c) ==
  /\ pc[c] = "close"
  /\ cl[<<"input", c>>] = "none"
  /\ sock' = [sock EXCEPT ![c] = "closed"]
  /\ ses' = [ses EXCEPT ![c] = NoSession]
  /\ pc' = [pc EXCEPT ![c] = "done"]
  /\ UNCHANGED <<sessionVars, shell, closes, req, old, readerVars, closeVars>>

(***************************************************************************)
(* readOutput.                                                             *)
(***************************************************************************)

\* The shell wrote something; without a connection it is thrown away.
ReadOutput(s) ==
  /\ rpc[s] = "read"
  /\ shell[s] = "running"
  /\ conn[s] # NoConn
  /\ rconn' = [rconn EXCEPT ![s] = conn[s]]
  /\ rpc' = [rpc EXCEPT ![s] = "write"]
  /\ UNCHANGED <<sessionVars, shell, closes, sock, startVars, closeVars>>

\* WriteMessage succeeds, as it may for a while on a connection that is lost.
OutputWritten(s) ==
  /\ rpc[s] = "write"
  /\ sock[rconn[s]] # "closed"
  /\ rpc' = [rpc EXCEPT ![s] = "read"]
  /\ rconn' = [rconn EXCEPT ![s] = NoConn]
  /\ UNCHANGED <<sessionVars, shell, closes, sock, startVars, closeVars>>

OutputFails(s) ==
  /\ rpc[s] = "write"
  /\ sock[rconn[s]] # "open"
  /\ Detach(s, rconn[s])
  /\ rpc' = [rpc EXCEPT ![s] = "read"]
  /\ rconn' = [rconn EXCEPT ![s] = NoConn]
  /\ UNCHANGED <<sessions, removed, shell, closes, sock, startVars, closeVars>>

\* The shell is gone: Read fails and readOutput closes the session.
OutputEnds(s) ==
  /\ rpc[s] = "read"
  /\ shell[s] = "exited"
  /\ rpc' = [rpc EXCEPT ![s] = "done"]
  /\ cl' = [cl EXCEPT ![<<"reader", s>>] = "enter"]
  /\ UNCHANGED <<sessionVars, shell, closes, sock, startVars, rconn, clConn>>

(***************************************************************************)
(* closeSession, by closer a.                                              *)
(***************************************************************************)

SessionOf(a) == IF a[1] = "input" THEN ses[a[2]] ELSE a[2]

\* Under sessionsMu: whoever takes the session out of the map closes it.
CloseEnter(a) ==
  LET s == SessionOf(a)
      r == req[s]
  IN /\ cl[a] = "enter"
     /\ IF sessions[r] = s
        THEN sessions' = [sessions EXCEPT ![r] = NoSession] /\ cl' = [cl EXCEPT ![a] = "mark"]
        ELSE cl' = [cl EXCEPT ![a] = "none"] /\ UNCHANGED sessions
     /\ UNCHANGED <<conn, timer, removed, shell, closes, sock, startVars, readerVars, clConn>>

\* Mutant: the session keeps its connection.
CloseMarkKeepsConn(a) ==
  LET s == SessionOf(a)
  IN /\ cl[a] = "mark"
     /\ IF s \in removed
        THEN /\ cl' = [cl EXCEPT ![a] = "none"]
             /\ UNCHANGED <<timer, removed, clConn>>
        ELSE /\ removed' = removed \cup {s}
             /\ timer' = [timer EXCEPT ![s] = "nil"]
             /\ clConn' = [clConn EXCEPT ![a] = conn[s]]
             /\ cl' = [cl EXCEPT ![a] = "conn"]
     /\ UNCHANGED <<sessions, conn, shell, closes, sock, startVars, readerVars>>

\* Under session.mu: no timer, no connection, and no second closer.
CloseMark(a) ==
  LET s == SessionOf(a)
  IN /\ cl[a] = "mark"
     /\ IF s \in removed
        THEN /\ cl' = [cl EXCEPT ![a] = "none"]
             /\ UNCHANGED <<conn, timer, removed, clConn>>
        ELSE /\ removed' = removed \cup {s}
             /\ timer' = [timer EXCEPT ![s] = "nil"]
             /\ conn' = [conn EXCEPT ![s] = NoConn]
             /\ clConn' = [clConn EXCEPT ![a] = conn[s]]
             /\ cl' = [cl EXCEPT ![a] = "conn"]
     /\ UNCHANGED <<sessions, shell, closes, sock, startVars, readerVars>>

CloseConn(a) ==
  /\ cl[a] = "conn"
  /\ sock' = IF clConn[a] = NoConn THEN sock ELSE [sock EXCEPT ![clConn[a]] = "closed"]
  /\ clConn' = [clConn EXCEPT ![a] = NoConn]
  /\ cl' = [cl EXCEPT ![a] = "term"]
  /\ UNCHANGED <<sessionVars, shell, closes, startVars, readerVars>>

\* gracefulClose: the shell is asked, then killed.
CloseTerm(a) ==
  LET s == SessionOf(a)
  IN /\ cl[a] = "term"
     /\ shell' = [shell EXCEPT ![s] = "exited"]
     /\ closes' = [closes EXCEPT ![s] = @ + 1]
     /\ cl' = [cl EXCEPT ![a] = "none"]
     /\ UNCHANGED <<sessionVars, sock, startVars, readerVars, clConn>>

(***************************************************************************)
(* The timer, the network and the shell.                                   *)
(***************************************************************************)

\* disconnectedRetention is over.  A callback that was started five minutes
\* ago is through.
TimerFires(s) ==
  /\ timer[s] = "running"
  /\ cl[<<"timer", s>>] = "none"
  /\ timer' = [timer EXCEPT ![s] = "fired"]
  /\ cl' = [cl EXCEPT ![<<"timer", s>>] = "enter"]
  /\ UNCHANGED <<sessions, conn, removed, shell, closes, sock, startVars, readerVars, clConn>>

\* A loss is noticed by whoever reads or writes next.
ConnectionLost(c) ==
  /\ sock[c] = "open"
  /\ pc[c] # "publish"
  /\ sock' = [sock EXCEPT ![c] = "lost"]
  /\ UNCHANGED <<sessionVars, shell, closes, startVars, readerVars, closeVars>>

ShellExits(s) ==
  /\ shell[s] = "running"
  /\ shell' = [shell EXCEPT ![s] = "exited"]
  /\ UNCHANGED <<sessionVars, closes, sock, startVars, readerVars, closeVars>>

StartStep(c) ==
  Publish(c) \/ Yield(c) \/ Displace(c) \/ InputFails(c) \/ InputReturns(c)

ReaderStep(s) ==
  \/ ReadOutput(s) \/ OutputWritten(s) \/ OutputFails(s) \/ OutputEnds(s)

CloseStep(a) == CloseEnter(a) \/ CloseMark(a) \/ CloseConn(a) \/ CloseTerm(a)

Next ==
  \/ \E c \in Conns :
       \/ \E r \in Requests : Reattach(c, r) \/ Spawn(c, r)
       \/ StartStep(c) \/ InputCloses(c) \/ ConnectionLost(c)
  \/ \E s \in Sessions : ReaderStep(s) \/ TimerFires(s) \/ ShellExits(s)
  \/ \E a \in Closers : CloseStep(a)

\* The scheduler runs every goroutine that can run and timers fire.  Nobody has
\* to connect, to close, to lose a connection or to leave a shell.
Fairness ==
  /\ \A c \in Conns : WF_vars(StartStep(c))
  /\ \A s \in Sessions : WF_vars(ReaderStep(s)) /\ WF_vars(TimerFires(s))
  /\ \A a \in Closers : WF_vars(CloseStep(a))

Spec == Init /\ [][Next]_vars
FairSpec == Spec /\ Fairness

(***************************************************************************)
(* Properties.                                                             *)
(***************************************************************************)

\* Every variable has the type the code gives it.
TypeOK ==
  /\ sessions \in [Requests -> Sessions \cup {NoSession}]
  /\ conn \in [Sessions -> Conns \cup {NoConn}]
  /\ timer \in [Sessions -> {"nil", "running", "fired"}]
  /\ removed \subseteq Sessions
  /\ shell \in [Sessions -> {"none", "running", "exited"}]
  /\ closes \in [Sessions -> Nat]
  /\ sock \in [Conns -> {"none", "open", "lost", "closed"}]
  /\ pc \in [Conns -> {"idle", "publish", "displace", "input", "close", "done"}]
  /\ req \in [Conns -> Requests \cup {NoRequest}]
  /\ ses \in [Conns -> Sessions \cup {NoSession}]
  /\ old \in [Conns -> Conns \cup {NoConn}]
  /\ rpc \in [Sessions -> {"none", "read", "write", "done"}]
  /\ rconn \in [Sessions -> Conns \cup {NoConn}]
  /\ cl \in [Closers -> {"none", "enter", "mark", "conn", "term"}]
  /\ clConn \in [Closers -> Conns \cup {NoConn}]

Live(s) == \E r \in Requests : sessions[r] = s
ClosedBy(s) == {a \in Closers : SessionOf(a) = s /\ cl[a] \in {"mark", "conn", "term"}}

\* A shell is closed at most once, whoever gets to closeSession in which order:
\* a second Close waits for a process that was reaped and signals a process
\* group that may be another one by then.
ClosedOnce == \A s \in Sessions : closes[s] <= 1

\* A running shell is about to be published, or a session of the map has it, or
\* somebody is closing it: no race of connections leaves one behind.
NoShellLeak ==
  \A s \in Sessions : shell[s] = "running" => pc[s] = "publish" \/ Live(s) \/ ClosedBy(s) # {}

\* A session of the map without a connection has a timer that will close it, and
\* one with a connection has none that still runs.
TimerGuardsDetached ==
  \A s \in Sessions : Live(s) =>
    /\ conn[s] = NoConn => timer[s] = "running" \/ cl[<<"timer", s>>] # "none"
    /\ conn[s] # NoConn => timer[s] # "running"

\* Whatever connections, timers and shells do, no shell is closed twice or left
\* behind, every session without a connection has something that ends it, and
\* readOutput never writes to nil (acquireSession, detach, closeSession).
SessionsAccounted ==
  /\ ClosedOnce /\ NoShellLeak /\ TimerGuardsDetached
  /\ \A s \in Sessions : rpc[s] = "write" => rconn[s] # NoConn

\* What a client types and what it sees belong together: an open connection whose
\* input is read is the one its session writes to, or somebody is about to close it,
\* and the connection a session writes to is not one whose StartTerminal has already
\* detached from the session or returned.
InputMatchesOutput ==
  /\ \A c \in Conns : (pc[c] = "input" /\ sock[c] = "open" /\ conn[ses[c]] # c) =>
       \/ \E d \in Conns : pc[d] = "displace" /\ old[d] = c
       \/ \E a \in Closers : cl[a] = "conn" /\ clConn[a] = c
  /\ \A s \in Sessions : (Live(s) /\ conn[s] # NoConn) =>
       /\ ses[conn[s]] = s
       /\ pc[conn[s]] \in {"displace", "input", "close"}
          \/ ClosedBy(s) # {}

\* For ShellLending: a connection is served once acquireSession has a session for it; a
\* session is past when its shell was started and it neither is about to enter the map
\* nor is in it.
Served == {c \in Conns : pc[c] \notin {"idle", "publish"}}
Past == {s \in Sessions : shell[s] # "none" /\ pc[s] \notin {"idle", "publish"} /\ ~Live(s)}

Lending ==
  INSTANCE ShellLending WITH
    Shells <- Sessions, Clients <- Conns, NoShell <- NoSession, NoClient <- NoConn,
    offered <- sessions, lent <- conn, past <- Past, served <- Served

\* Every step of StartTerminal, readOutput, closeSession, the timers and the network is
\* one of ShellLending or shows nothing: no connection gets a session that closeSession
\* has taken out of the map, and a shell is closed once, with no connection to it.
LendingSpec == Lending!Spec

\* "A new connection with the same request ID reattaches the existing shell"
\* (terminal.go): the retention timer ends only sessions that are detached.
TimerSparesReattached ==
  [][\A s \in Sessions :
       (cl[<<"timer", s>>] = "enter" /\ cl'[<<"timer", s>>] = "mark") => conn[s] = NoConn]_vars

\* A detached session is taken over or its shell ends.
DetachedEnds ==
  \A s \in Sessions : (Live(s) /\ conn[s] = NoConn) ~> (conn[s] # NoConn \/ shell[s] = "exited")

\* StartTerminal returns once its connection is lost or closed.
StartReturns == \A c \in Conns : sock[c] \in {"lost", "closed"} ~> pc[c] = "done"

\* Nothing lingers: a detached session is taken over or ends (detach), and a
\* handler whose connection is gone returns (handleInput).
SessionsEnd == DetachedEnds /\ StartReturns
=============================================================================
