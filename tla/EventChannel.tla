---------------------------- MODULE EventChannel ----------------------------
(***************************************************************************)
(* The agent's channel to the panel: server/websocket.go.                  *)
(*                                                                         *)
(* EstablishWebSocketConnection keeps one WebSocket open and reads it in a *)
(* goroutine of its own.  When it cannot connect it falls back to POST     *)
(* requests: a pull loop in another goroutine asks for events, and every   *)
(* report's answer brings events too.  Both send the ids of the events     *)
(* that were dispatched, until an answer shows that the panel has them;    *)
(* v2AckMu guards those ids and the set of events seen.  A pull loop that  *)
(* is cancelled may outlive the fallback that started it.                  *)
(*                                                                         *)
(* The panel answers a POST with all events it has no acknowledgement for. *)
(* What comes over the WebSocket has no id and is dispatched as it comes;  *)
(* it leaves no trace here.                                                *)
(***************************************************************************)
EXTENDS Naturals, Sequences, FiniteSets

CONSTANTS
  Events,      \* event ids
  Malformed,   \* those whose method is unknown or whose parameters do not bind
  Conns,       \* identities of WebSocket connections
  PullLoops,   \* identities of runV2PullLoop goroutines
  MaxRetries,  \* flags.MaxRetries
  SeenLimit,   \* v2SeenEventLimit
  Report,      \* the goroutine of runPostFallback, as a sender of requests
  NoConn, NoEvent

ASSUME EventsTyped == Malformed \subseteq Events /\ NoEvent \notin Events
ASSUME Identities == NoConn \notin Conns /\ Report \notin PullLoops
ASSUME Limits == MaxRetries \in Nat /\ SeenLimit \in Nat \ {0}

VARIABLES
  main,      \* where EstablishWebSocketConnection is: "select", "dial" or "fallback"
  retry,
  conn,      \* its connection
  readDone,  \* the channel it selects on, by the connection whose reader closes it
  sock,      \* each connection, as the agent sees it
  reader,    \* handleWebSocketMessages of each connection
  post,      \* what each sender of POST requests is doing
  canceled,  \* the pull loops whose context is cancelled
  acks,      \* v2AckEventIDs
  seen,      \* v2SeenEvents, the oldest first
  executed,  \* the events that were dispatched
  repeated,  \* history: those that were dispatched more than once
  queued,    \* the panel: the events it has
  acked,     \* the panel: those it was told are done
  evicted,   \* history: the events the seen-map gave up for lack of room
  crashed    \* history: the events a crash made the agent forget

connVars == <<main, retry, conn, readDone, sock, reader>>
handlerVars == <<executed, repeated>>
eventVars == <<acks, seen, handlerVars, evicted>>
panelVars == <<queued, acked>>
vars == <<connVars, post, canceled, eventVars, panelVars, crashed>>

Senders == {Report} \cup PullLoops
Silent == [pc |-> "idle", sent |-> {}, events |-> {}, marked |-> NoEvent, done |-> NoEvent]
Off == [Silent EXCEPT !.pc = "off"]

Init ==
  /\ main = "select"
  /\ retry = 0
  /\ conn = NoConn
  /\ readDone = NoConn
  /\ sock = [c \in Conns |-> "closed"]
  /\ reader = [c \in Conns |-> "done"]
  /\ post = [p \in Senders |-> Off]
  /\ canceled = {}
  /\ acks = {}
  /\ seen = <<>>
  /\ executed = {}
  /\ repeated = {}
  /\ queued = {}
  /\ acked = {}
  /\ evicted = {}
  /\ crashed = {}

(***************************************************************************)
(* EstablishWebSocketConnection and handleWebSocketMessages.               *)
(***************************************************************************)

\* dataTicker without a connection.
StartDial ==
  /\ main = "select"
  /\ conn = NoConn
  /\ main' = "dial"
  /\ UNCHANGED <<retry, conn, readDone, sock, reader, post, canceled, eventVars, panelVars, crashed>>

\* A connection nobody holds any more, to be made anew.
Unused(c) == sock[c] = "closed" /\ reader[c] = "done" /\ readDone # c

\* Mutant: the main loop goes on waiting for the old reader.
ConnectKeepingDone(c) ==
  /\ Unused(c)
  /\ conn' = c
  /\ UNCHANGED readDone
  /\ sock' = [sock EXCEPT ![c] = "open"]
  /\ reader' = [reader EXCEPT ![c] = "reading"]
  /\ main' = "select"

\* The new connection, its done channel and its reader.
Connect(c) ==
  /\ Unused(c)
  /\ conn' = c
  /\ readDone' = c
  /\ sock' = [sock EXCEPT ![c] = "open"]
  /\ reader' = [reader EXCEPT ![c] = "reading"]
  /\ main' = "select"

DialSucceeds(c) ==
  /\ main = "dial"
  /\ Connect(c)
  /\ retry' = 0
  /\ UNCHANGED <<post, canceled, eventVars, panelVars, crashed>>

\* The last failure enters the fallback, which starts a pull loop and a ticker
\* for reports.
DialFails ==
  /\ main = "dial"
  /\ IF retry < MaxRetries
     THEN retry' = retry + 1 /\ UNCHANGED <<main, post, canceled>>
     ELSE /\ main' = "fallback"
          /\ retry' = 0
          /\ \E l \in PullLoops :
               /\ post[l].pc = "off"
               /\ post' = [post EXCEPT ![l] = Silent, ![Report] = Silent]
               /\ canceled' = canceled \ {l}
  /\ UNCHANGED <<conn, readDone, sock, reader, eventVars, panelVars, crashed>>

\* reconnectTicker, between two reports: the fallback ends and cancels its loop.
Recover(c) ==
  /\ main = "fallback"
  /\ post[Report].pc = "idle"
  /\ Connect(c)
  /\ post' = [post EXCEPT ![Report] = Off]
  /\ canceled' = canceled \cup {l \in PullLoops : post[l].pc # "off"}
  /\ UNCHANGED <<retry, eventVars, panelVars, crashed>>

\* A report or a heartbeat fails.  Over a lost connection it may succeed for a while.
WriteFails ==
  /\ main = "select"
  /\ conn # NoConn
  /\ sock[conn] = "lost"
  /\ sock' = [sock EXCEPT ![conn] = "closed"]
  /\ conn' = NoConn
  /\ readDone' = NoConn
  /\ UNCHANGED <<main, retry, reader, post, canceled, eventVars, panelVars, crashed>>

\* Mutant: the connection is dropped but not closed.
ReadDoneUnclosed ==
  /\ main = "select"
  /\ readDone # NoConn
  /\ reader[readDone] = "done"
  /\ UNCHANGED sock
  /\ conn' = NoConn
  /\ readDone' = NoConn
  /\ UNCHANGED <<main, retry, reader, post, canceled, eventVars, panelVars, crashed>>

\* The reader has ended.
ReadDone ==
  /\ main = "select"
  /\ readDone # NoConn
  /\ reader[readDone] = "done"
  /\ sock' = IF conn = NoConn THEN sock ELSE [sock EXCEPT ![conn] = "closed"]
  /\ conn' = NoConn
  /\ readDone' = NoConn
  /\ UNCHANGED <<main, retry, reader, post, canceled, eventVars, panelVars, crashed>>

ConnectionLost(c) ==
  /\ sock[c] = "open"
  /\ sock' = [sock EXCEPT ![c] = "lost"]
  /\ UNCHANGED <<main, retry, conn, readDone, reader, post, canceled, eventVars, panelVars, crashed>>

ReadFails(c) ==
  /\ reader[c] = "reading"
  /\ sock[c] # "open"
  /\ reader' = [reader EXCEPT ![c] = "done"]
  /\ UNCHANGED <<main, retry, conn, readDone, sock, post, canceled, eventVars, panelVars, crashed>>

(***************************************************************************)
(* Requests of sender p: a pull loop or the ticker of reports.             *)
(***************************************************************************)

\* snapshotV2AckEventIDs and the request made with it.
SendRequest(p) ==
  /\ post[p].pc = "idle"
  /\ p \notin canceled
  /\ post' = [post EXCEPT ![p] = [post[p] EXCEPT !.pc = "request", !.sent = acks]]
  /\ UNCHANGED <<connVars, canceled, eventVars, panelVars, crashed>>

\* The panel takes the acknowledgements and answers.
PanelAnswers(p) ==
  /\ post[p].pc = "request"
  /\ acked' = acked \cup post[p].sent
  /\ post' = [post EXCEPT ![p] = [post[p] EXCEPT !.pc = "answer", !.events = queued \ acked']]
  /\ UNCHANGED <<connVars, canceled, eventVars, queued, crashed>>

\* Mutant: everything that is pending counts as sent.
AnswerClearingAll(p) ==
  /\ post[p].pc = "answer"
  /\ acks' = {}
  /\ post' = [post EXCEPT ![p] = [post[p] EXCEPT !.pc = "events", !.sent = {}]]
  /\ UNCHANGED <<connVars, canceled, seen, handlerVars, evicted, panelVars, crashed>>

\* Mutant: what an answer brings is acknowledged at once.
AnswerAckingAll(p) ==
  /\ post[p].pc = "answer"
  /\ acks' = (acks \ post[p].sent) \cup post[p].events
  /\ post' = [post EXCEPT ![p] = [post[p] EXCEPT !.pc = "events", !.sent = {}]]
  /\ UNCHANGED <<connVars, canceled, seen, handlerVars, evicted, panelVars, crashed>>

\* The answer arrives: what was sent is cleared before its events are looked at.
AnswerArrives(p) ==
  /\ post[p].pc = "answer"
  /\ acks' = acks \ post[p].sent
  /\ post' = [post EXCEPT ![p] = [post[p] EXCEPT !.pc = "events", !.sent = {}]]
  /\ UNCHANGED <<connVars, canceled, seen, handlerVars, evicted, panelVars, crashed>>

\* The request or its answer is lost, or the context of the pull loop is done.
RequestFails(p) ==
  /\ post[p].pc \in {"request", "answer"}
  /\ post' = [post EXCEPT ![p] = Silent]
  /\ UNCHANGED <<connVars, canceled, eventVars, panelVars, crashed>>

(***************************************************************************)
(* processV2ResponseEvents: one event after the other.  Marking an event   *)
(* as seen is a step under v2AckMu, starting its handler comes after it,   *)
(* the acknowledgement is a step of its own under v2AckMu again.           *)
(***************************************************************************)

IsSeen(e) == \E i \in DOMAIN seen : seen[i] = e

\* p turns to its next event.
Takes(p, e) ==
  /\ post[p].pc = "events" /\ post[p].marked = NoEvent /\ post[p].done = NoEvent
  /\ e \in post[p].events

\* Mutant: events are not remembered.
RememberNothing(e) == UNCHANGED <<seen, evicted>>

\* A new event takes the room of the oldest one.
Remember(e) ==
  IF Len(seen) >= SeenLimit
  THEN seen' = Append(Tail(seen), e) /\ evicted' = evicted \cup {Head(seen)}
  ELSE seen' = Append(seen, e) /\ UNCHANGED evicted

\* Mutant: an event seen before is dropped without an acknowledgement.
SkipSilently(p, e) ==
  /\ Takes(p, e)
  /\ IsSeen(e)
  /\ post' = [post EXCEPT ![p] = [post[p] EXCEPT !.events = @ \ {e}]]
  /\ UNCHANGED <<connVars, canceled, eventVars, panelVars, crashed>>

\* processV2Event of an event seen before: it is acknowledged again.
SkipEvent(p, e) ==
  /\ Takes(p, e)
  /\ IsSeen(e)
  /\ post' = [post EXCEPT ![p] = [post[p] EXCEPT !.events = @ \ {e}, !.done = e]]
  /\ UNCHANGED <<connVars, canceled, eventVars, panelVars, crashed>>

\* markV2EventSeen of a new one.
MarkEvent(p, e) ==
  /\ Takes(p, e)
  /\ ~IsSeen(e)
  /\ Remember(e)
  /\ post' = [post EXCEPT ![p] = [post[p] EXCEPT !.events = @ \ {e}, !.marked = e]]
  /\ UNCHANGED <<connVars, canceled, acks, handlerVars, panelVars, crashed>>

\* Its handler is started.
Dispatch(p) ==
  /\ post[p].marked \in Events \ Malformed
  /\ executed' = executed \cup {post[p].marked}
  /\ repeated' = repeated \cup ({post[p].marked} \cap executed)
  /\ post' = [post EXCEPT ![p] = [post[p] EXCEPT !.marked = NoEvent, !.done = post[p].marked]]
  /\ UNCHANGED <<connVars, canceled, acks, seen, evicted, panelVars, crashed>>

\* Its method is unknown or its parameters do not bind: it stays marked.
Reject(p) ==
  /\ post[p].marked \in Malformed
  /\ post' = [post EXCEPT ![p] = [post[p] EXCEPT !.marked = NoEvent]]
  /\ UNCHANGED <<connVars, canceled, eventVars, panelVars, crashed>>

\* addV2AckEventID.
AddAck(p) ==
  /\ post[p].done # NoEvent
  /\ acks' = acks \cup {post[p].done}
  /\ post' = [post EXCEPT ![p] = [post[p] EXCEPT !.done = NoEvent]]
  /\ UNCHANGED <<connVars, canceled, seen, handlerVars, evicted, panelVars, crashed>>

AnswerDone(p) ==
  /\ post[p].pc = "events" /\ post[p].events = {}
  /\ post[p].marked = NoEvent /\ post[p].done = NoEvent
  /\ post' = [post EXCEPT ![p] = Silent]
  /\ UNCHANGED <<connVars, canceled, eventVars, panelVars, crashed>>

\* A cancelled pull loop ends.
PullEnds(l) ==
  /\ post[l].pc = "idle"
  /\ l \in canceled
  /\ post' = [post EXCEPT ![l] = Off]
  /\ UNCHANGED <<connVars, canceled, eventVars, panelVars, crashed>>

\* The panel takes the acknowledgement, or had it, of every request that may
\* still bring e.
Settled(e) ==
  \A p \in Senders : post[p].pc # "off" =>
    /\ e \notin post[p].events \cup {post[p].marked, post[p].done}
    /\ post[p].pc = "request" => e \in post[p].sent \cup acked

\* v2SeenEventTTL: ten minutes after the event every request of its time has
\* ended, 35 seconds being the limit.  Later ones carry its acknowledgement, if
\* it has one.
Forget(e) ==
  /\ Settled(e)
  /\ \E i \in DOMAIN seen :
       /\ seen[i] = e
       /\ seen' = [j \in 1 .. Len(seen) - 1 |-> IF j < i THEN seen[j] ELSE seen[j + 1]]
  /\ UNCHANGED <<connVars, post, canceled, acks, handlerVars, evicted, panelVars, crashed>>

\* The panel has something for the agent.
Queue(e) ==
  /\ e \notin queued
  /\ queued' = queued \cup {e}
  /\ UNCHANGED <<connVars, post, canceled, eventVars, acked, crashed>>

\* The agent has begun with e, and the panel does not know that or it has not
\* come to the end of it.
Unfinished(e) ==
  \/ e \notin acked /\ (IsSeen(e) \/ e \in acks)
  \/ \E p \in Senders : e \in {post[p].marked, post[p].done}

\* The agent ends, or is ended, and starts again: it keeps nothing.
Crash ==
  /\ main' = "select" /\ retry' = 0 /\ conn' = NoConn /\ readDone' = NoConn
  /\ sock' = [c \in Conns |-> "closed"]
  /\ reader' = [c \in Conns |-> "done"]
  /\ post' = [p \in Senders |-> Off]
  /\ canceled' = {}
  /\ acks' = {}
  /\ seen' = <<>>
  /\ crashed' = crashed \cup {e \in Events : Unfinished(e)}
  /\ UNCHANGED <<handlerVars, evicted, panelVars>>

EventStep(p) ==
  \/ \E e \in Events : SkipEvent(p, e) \/ MarkEvent(p, e)
  \/ Dispatch(p) \/ Reject(p) \/ AddAck(p) \/ AnswerDone(p)

SenderStep(p) == SendRequest(p) \/ AnswerArrives(p) \/ RequestFails(p) \/ EventStep(p)

MainStep ==
  StartDial \/ DialFails \/ WriteFails \/ ReadDone \/ \E c \in Conns : DialSucceeds(c) \/ Recover(c)

Next ==
  \/ MainStep
  \/ \E c \in Conns : ConnectionLost(c) \/ ReadFails(c)
  \/ \E p \in Senders : SenderStep(p) \/ PanelAnswers(p)
  \/ \E l \in PullLoops : PullEnds(l)
  \/ \E e \in Events : Forget(e) \/ Queue(e)
  \/ Crash

\* Goroutines that can run do, and a request that is made again and again gets
\* through to the panel and back at last.  No WebSocket need ever be had.
Fairness ==
  /\ WF_vars(StartDial \/ DialFails) /\ WF_vars(ReadDone)
  /\ \A c \in Conns : WF_vars(ReadFails(c))
  /\ \A p \in Senders :
       /\ WF_vars(SendRequest(p)) /\ WF_vars(EventStep(p))
       /\ WF_vars(RequestFails(p) \/ PanelAnswers(p) \/ AnswerArrives(p))
       /\ SF_vars(PanelAnswers(p)) /\ SF_vars(AnswerArrives(p))
  /\ \A l \in PullLoops : WF_vars(PullEnds(l))

Spec == Init /\ [][Next]_vars
FairSpec == Spec /\ Fairness

(***************************************************************************)
(* Properties.                                                             *)
(***************************************************************************)

\* The values the code can give its variables.
TypeOK ==
  /\ main \in {"select", "dial", "fallback"}
  /\ retry \in 0 .. MaxRetries
  /\ conn \in Conns \cup {NoConn} /\ readDone \in Conns \cup {NoConn}
  /\ sock \in [Conns -> {"open", "lost", "closed"}]
  /\ reader \in [Conns -> {"reading", "done"}]
  /\ post \in [Senders -> [pc : {"off", "idle", "request", "answer", "events"},
                           sent : SUBSET Events, events : SUBSET Events,
                           marked : Events \cup {NoEvent}, done : Events \cup {NoEvent}]]
  /\ canceled \subseteq PullLoops
  /\ acks \subseteq Events
  /\ seen \in Seq(Events) /\ Len(seen) <= SeenLimit
  /\ executed \subseteq Events /\ repeated \subseteq executed
  /\ queued \subseteq Events /\ acked \subseteq Events
  /\ evicted \subseteq Events /\ crashed \subseteq Events

\* The main loop listens to the reader of the connection it has, and to no other
\* one: the end of an old reader never closes a new connection.  No connection
\* is left open beside it.
OneConnection ==
  /\ readDone = conn
  /\ \A c \in Conns : sock[c] # "closed" => c = conn

\* An event is executed once, however often and over whichever of the two
\* requests it comes, unless the seen-map gave it up for lack of room or a crash
\* made the agent forget it.
ExecutedOnce == repeated \subseteq evicted \cup crashed

\* The acknowledgement of an executed event is pending, or about to be, until the
\* panel has it: neither task clears what it has not sent.  Only a crash loses it.
AckNotLost ==
  \A e \in executed \ crashed :
    e \in acks \cup acked \/ \E p \in Senders : post[p].done = e

\* What the panel was told is done has been executed, or never can be, or the
\* sender that marked it is about to start it: the other one may acknowledge it
\* in between, and then a crash may come.
AckedWasExecuted ==
  \A e \in acked \ (executed \cup Malformed \cup crashed) : \E p \in Senders : post[p].marked = e

\* The events that senders have marked and not yet dispatched are taken up; lost is
\* what the seen-map gave up or a crash made the agent forget.
Delivery ==
  INSTANCE EventDelivery WITH
    taken <- {post[p].marked : p \in Senders} \ {NoEvent},
    lost <- evicted \cup crashed

\* Whatever the two tasks, lost requests, expired marks and crashes do, every step is
\* one of EventDelivery or shows nothing: an event is marked again after its execution
\* only if it was lost, and at the moment the panel is told of an event it has been
\* executed, or a sender has marked it, or it never can be executed.
DeliverySpec == Delivery!Spec

\* Only the pull loop of the present fallback goes on asking.
StalePullsCanceled ==
  Cardinality({l \in PullLoops : post[l].pc # "off" /\ l \notin canceled})
    = (IF main = "fallback" THEN 1 ELSE 0)

\* As long as the fallback lasts every event gets to the agent and its
\* acknowledgement to the panel, one that does not bind on its second delivery;
\* this fails only if its mark expires, again and again, before the next delivery.
EventsAcknowledged ==
  \A e \in Events :
    \/ []<><<Forget(e)>>_vars
    \/ (e \in queued) ~> (e \in acked \/ main # "fallback")

\* A connection that is lost is noticed and given up.
LossNoticed == \A c \in Conns : (sock[c] = "lost") ~> (sock[c] = "closed")
=============================================================================
