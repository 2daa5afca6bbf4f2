------------------------- MODULE EventChannelProofs -------------------------
(***************************************************************************)
(* Proofs about EventChannel, for any number of events, connections, pull  *)
(* loops and retries and any room in the seen-map.                         *)
(***************************************************************************)
EXTENDS EventChannel, FiniteSetTheorems, TLAPS

\* What a sender is at.
Post == [pc : {"off", "idle", "request", "answer", "events"},
         sent : SUBSET Events, events : SUBSET Events,
         marked : Events \cup {NoEvent}, done : Events \cup {NoEvent}]

\* A sender that starts, rests or ends is well typed.
LEMMA SilentTyped == Silent \in Post /\ Off \in Post
BY DEF Silent, Off, Post

(***************************************************************************)
(* What a step makes of the sender that takes it, field by field.          *)
(***************************************************************************)

\* Sender p goes on like this and the others stay as they are.
Becomes(p, pc, sent, events, marked, done) ==
  /\ post' \in [Senders -> Post]
  /\ \A q \in Senders \ {p} : post'[q] = post[q]
  /\ post'[p].pc = pc /\ post'[p].sent = sent /\ post'[p].events = events
  /\ post'[p].marked = marked /\ post'[p].done = done

\* Replacing the record of p leaves the others.
LEMMA Replaced ==
  ASSUME post \in [Senders -> Post], NEW p \in Senders, NEW r \in Post, post' = [post EXCEPT ![p] = r]
  PROVE  Becomes(p, r.pc, r.sent, r.events, r.marked, r.done)
BY DEF Becomes

\* A request carries the pending acknowledgements.
LEMMA SendRequestEffect ==
  ASSUME TypeOK, NEW p \in Senders, SendRequest(p)
  PROVE  Becomes(p, "request", acks, post[p].events, post[p].marked, post[p].done)
<1> DEFINE r == [post[p] EXCEPT !.pc = "request", !.sent = acks]
<1>1. post \in [Senders -> Post]
  BY DEF TypeOK, Post
<1>2. /\ r \in Post /\ r.pc = "request" /\ r.sent = acks
      /\ r.events = post[p].events /\ r.marked = post[p].marked /\ r.done = post[p].done
  BY <1>1 DEF Post, TypeOK
<1>3. post' = [post EXCEPT ![p] = r]
  BY DEF SendRequest
<1> QED BY <1>1, <1>2, <1>3, Replaced

\* The answer brings what the panel has no acknowledgement for.
LEMMA PanelAnswersEffect ==
  ASSUME TypeOK, NEW p \in Senders, PanelAnswers(p)
  PROVE  Becomes(p, "answer", post[p].sent, queued \ acked', post[p].marked, post[p].done)
<1> DEFINE r == [post[p] EXCEPT !.pc = "answer", !.events = queued \ acked']
<1>1. post \in [Senders -> Post]
  BY DEF TypeOK, Post
<1>2. /\ r \in Post /\ r.pc = "answer" /\ r.sent = post[p].sent
      /\ r.events = queued \ acked' /\ r.marked = post[p].marked /\ r.done = post[p].done
  BY <1>1 DEF Post, TypeOK
<1>3. post' = [post EXCEPT ![p] = r]
  BY DEF PanelAnswers
<1> QED BY <1>1, <1>2, <1>3, Replaced

\* What was sent is cleared from the sender.
LEMMA AnswerArrivesEffect ==
  ASSUME TypeOK, NEW p \in Senders, AnswerArrives(p)
  PROVE  Becomes(p, "events", {}, post[p].events, post[p].marked, post[p].done)
<1> DEFINE r == [post[p] EXCEPT !.pc = "events", !.sent = {}]
<1>1. post \in [Senders -> Post]
  BY DEF TypeOK, Post
<1>2. /\ r \in Post /\ r.pc = "events" /\ r.sent = {}
      /\ r.events = post[p].events /\ r.marked = post[p].marked /\ r.done = post[p].done
  BY <1>1 DEF Post, TypeOK
<1>3. post' = [post EXCEPT ![p] = r]
  BY DEF AnswerArrives
<1> QED BY <1>1, <1>2, <1>3, Replaced

\* An event seen before is to be acknowledged.
LEMMA SkipEventEffect ==
  ASSUME TypeOK, NEW p \in Senders, NEW e \in Events, SkipEvent(p, e)
  PROVE  Becomes(p, post[p].pc, post[p].sent, post[p].events \ {e}, post[p].marked, e)
<1> DEFINE r == [post[p] EXCEPT !.events = @ \ {e}, !.done = e]
<1>1. post \in [Senders -> Post]
  BY DEF TypeOK, Post
<1>2. /\ r \in Post /\ r.pc = post[p].pc /\ r.sent = post[p].sent
      /\ r.events = post[p].events \ {e} /\ r.marked = post[p].marked /\ r.done = e
  BY <1>1 DEF Post, TypeOK
<1>3. post' = [post EXCEPT ![p] = r]
  BY DEF SkipEvent
<1> QED BY <1>1, <1>2, <1>3, Replaced

\* A new event is marked.
LEMMA MarkEventEffect ==
  ASSUME TypeOK, NEW p \in Senders, NEW e \in Events, MarkEvent(p, e)
  PROVE  Becomes(p, post[p].pc, post[p].sent, post[p].events \ {e}, e, post[p].done)
<1> DEFINE r == [post[p] EXCEPT !.events = @ \ {e}, !.marked = e]
<1>1. post \in [Senders -> Post]
  BY DEF TypeOK, Post
<1>2. /\ r \in Post /\ r.pc = post[p].pc /\ r.sent = post[p].sent
      /\ r.events = post[p].events \ {e} /\ r.marked = e /\ r.done = post[p].done
  BY <1>1 DEF Post, TypeOK
<1>3. post' = [post EXCEPT ![p] = r]
  BY DEF MarkEvent
<1> QED BY <1>1, <1>2, <1>3, Replaced

\* An executed event is to be acknowledged.
LEMMA DispatchEffect ==
  ASSUME TypeOK, NEW p \in Senders, Dispatch(p)
  PROVE  Becomes(p, post[p].pc, post[p].sent, post[p].events, NoEvent, post[p].marked)
<1> DEFINE r == [post[p] EXCEPT !.marked = NoEvent, !.done = post[p].marked]
<1>1. post \in [Senders -> Post]
  BY DEF TypeOK, Post
<1>2. /\ r \in Post /\ r.pc = post[p].pc /\ r.sent = post[p].sent
      /\ r.events = post[p].events /\ r.marked = NoEvent /\ r.done = post[p].marked
  BY <1>1 DEF Post, TypeOK
<1>3. post' = [post EXCEPT ![p] = r]
  BY DEF Dispatch
<1> QED BY <1>1, <1>2, <1>3, Replaced

\* A rejected one is not.
LEMMA RejectEffect ==
  ASSUME TypeOK, NEW p \in Senders, Reject(p)
  PROVE  Becomes(p, post[p].pc, post[p].sent, post[p].events, NoEvent, post[p].done)
<1> DEFINE r == [post[p] EXCEPT !.marked = NoEvent]
<1>1. post \in [Senders -> Post]
  BY DEF TypeOK, Post
<1>2. /\ r \in Post /\ r.pc = post[p].pc /\ r.sent = post[p].sent
      /\ r.events = post[p].events /\ r.marked = NoEvent /\ r.done = post[p].done
  BY <1>1 DEF Post, TypeOK
<1>3. post' = [post EXCEPT ![p] = r]
  BY DEF Reject
<1> QED BY <1>1, <1>2, <1>3, Replaced

\* The acknowledgement has been added.
LEMMA AddAckEffect ==
  ASSUME TypeOK, NEW p \in Senders, AddAck(p)
  PROVE  Becomes(p, post[p].pc, post[p].sent, post[p].events, post[p].marked, NoEvent)
<1> DEFINE r == [post[p] EXCEPT !.done = NoEvent]
<1>1. post \in [Senders -> Post]
  BY DEF TypeOK, Post
<1>2. /\ r \in Post /\ r.pc = post[p].pc /\ r.sent = post[p].sent
      /\ r.events = post[p].events /\ r.marked = post[p].marked /\ r.done = NoEvent
  BY <1>1 DEF Post, TypeOK
<1>3. post' = [post EXCEPT ![p] = r]
  BY DEF AddAck
<1> QED BY <1>1, <1>2, <1>3, Replaced

\* A request that fails and an answer that is through leave the sender silent.
LEMMA SilentEffect ==
  ASSUME TypeOK, NEW p \in Senders, RequestFails(p) \/ AnswerDone(p)
  PROVE  Becomes(p, "idle", {}, {}, NoEvent, NoEvent)
<1>1. post \in [Senders -> Post]
  BY DEF TypeOK, Post
<1>2. /\ Silent.pc = "idle" /\ Silent.sent = {} /\ Silent.events = {}
      /\ Silent.marked = NoEvent /\ Silent.done = NoEvent
  BY DEF Silent
<1>3. post' = [post EXCEPT ![p] = Silent]
  BY DEF RequestFails, AnswerDone
<1> QED BY <1>1, <1>2, <1>3, SilentTyped, Replaced

\* The seen-map keeps its type and its limit when an event is remembered.
LEMMA RememberTyped ==
  ASSUME TypeOK, NEW e \in Events, Remember(e)
  PROVE  seen' \in Seq(Events) /\ Len(seen') <= SeenLimit /\ evicted' \subseteq Events
<1>1. CASE Len(seen) >= SeenLimit
  <2>1. seen # <<>> /\ Len(seen) = SeenLimit
    BY <1>1, Limits DEF TypeOK
  <2>2. Head(seen) \in Events /\ Tail(seen) \in Seq(Events) /\ Len(Tail(seen)) = Len(seen) - 1
    BY <2>1 DEF TypeOK
  <2>3. seen' = Append(Tail(seen), e) /\ evicted' = evicted \cup {Head(seen)}
    BY <1>1 DEF Remember
  <2> QED BY <2>1, <2>2, <2>3, Limits DEF TypeOK
<1>2. CASE ~(Len(seen) >= SeenLimit)
  <2>1. seen' = Append(seen, e) /\ evicted' = evicted
    BY <1>2 DEF Remember
  <2> QED BY <1>2, <2>1, Limits DEF TypeOK
<1> QED BY <1>1, <1>2

\* ... when a mark expires.
LEMMA ForgetTyped ==
  ASSUME TypeOK, NEW e \in Events, Forget(e)
  PROVE  seen' \in Seq(Events) /\ Len(seen') <= SeenLimit
<1>1. PICK i \in DOMAIN seen :
        seen' = [j \in 1 .. Len(seen) - 1 |-> IF j < i THEN seen[j] ELSE seen[j + 1]]
  BY DEF Forget
<1>2. Len(seen) \in Nat /\ Len(seen) - 1 \in Nat
  BY <1>1 DEF TypeOK
<1>3. \A j \in 1 .. Len(seen) - 1 : (IF j < i THEN seen[j] ELSE seen[j + 1]) \in Events
  BY <1>1, <1>2 DEF TypeOK
<1>4. seen' \in Seq(Events) /\ Len(seen') = Len(seen) - 1
  BY <1>1, <1>2, <1>3
<1> QED BY <1>2, <1>4, Limits DEF TypeOK

\* The type invariant is inductive.
LEMMA TypeStep == TypeOK /\ [Next]_vars => TypeOK'
<1> SUFFICES ASSUME TypeOK, [Next]_vars PROVE TypeOK'
  OBVIOUS
<1>0. post \in [Senders -> Post]
  BY DEF TypeOK, Post
<1>a. ASSUME post' \in [Senders -> Post], UNCHANGED <<eventVars, panelVars, crashed>>,
             main' \in {"select", "dial", "fallback"}, retry' \in 0 .. MaxRetries,
             conn' \in Conns \cup {NoConn}, readDone' \in Conns \cup {NoConn},
             sock' \in [Conns -> {"open", "lost", "closed"}],
             reader' \in [Conns -> {"reading", "done"}], canceled' \subseteq PullLoops
      PROVE  TypeOK'
  BY <1>a DEF TypeOK, Post, eventVars, handlerVars, panelVars
<1>b. ASSUME post' \in [Senders -> Post], UNCHANGED <<connVars, canceled>>,
             acks' \subseteq Events, seen' \in Seq(Events), Len(seen') <= SeenLimit,
             executed' \subseteq Events, repeated' \subseteq executed',
             queued' \subseteq Events, acked' \subseteq Events,
             evicted' \subseteq Events, crashed' \subseteq Events
      PROVE  TypeOK'
  BY <1>b DEF TypeOK, Post, connVars
<1>1. ASSUME MainStep PROVE TypeOK'
  <2>1. CASE StartDial
    BY <1>0, <1>a, <2>1 DEF StartDial, TypeOK
  <2>2. CASE DialFails
    <3>1. retry' \in 0 .. MaxRetries /\ main' \in {"select", "dial", "fallback"}
      BY <2>2, Limits DEF DialFails, TypeOK
    <3>2. post' \in [Senders -> Post] /\ canceled' \subseteq PullLoops
      BY <1>0, <2>2, SilentTyped DEF DialFails, TypeOK
    <3> QED BY <1>a, <2>2, <3>1, <3>2 DEF DialFails, TypeOK
  <2>3. CASE WriteFails
    BY <1>0, <1>a, <2>3 DEF WriteFails, TypeOK
  <2>4. CASE ReadDone
    BY <1>0, <1>a, <2>4 DEF ReadDone, TypeOK
  <2>5. ASSUME NEW c \in Conns, DialSucceeds(c) PROVE TypeOK'
    BY <1>0, <1>a, <2>5, Limits DEF DialSucceeds, Connect, TypeOK
  <2>6. ASSUME NEW c \in Conns, Recover(c) PROVE TypeOK'
    <3>1. post' \in [Senders -> Post] /\ canceled' \subseteq PullLoops
      BY <1>0, <2>6, SilentTyped DEF Recover, TypeOK
    <3> QED BY <1>a, <2>6, <3>1 DEF Recover, Connect, TypeOK
  <2> QED BY <1>1, <2>1, <2>2, <2>3, <2>4, <2>5, <2>6 DEF MainStep
<1>2. ASSUME NEW c \in Conns, ConnectionLost(c) \/ ReadFails(c) PROVE TypeOK'
  BY <1>0, <1>a, <1>2 DEF ConnectionLost, ReadFails, TypeOK
<1>3. ASSUME NEW p \in Senders, SenderStep(p) \/ PanelAnswers(p) PROVE TypeOK'
  <2> USE DEF TypeOK, eventVars, handlerVars, panelVars, Becomes
  <2>1. CASE RequestFails(p) \/ AnswerDone(p)
    BY <1>b, <2>1, SilentEffect DEF RequestFails, AnswerDone
  <2>2. CASE SendRequest(p)
    BY <1>b, <2>2, SendRequestEffect DEF SendRequest
  <2>3. CASE PanelAnswers(p)
    BY <1>b, <2>3, PanelAnswersEffect DEF PanelAnswers
  <2>4. CASE AnswerArrives(p)
    BY <1>b, <2>4, AnswerArrivesEffect DEF AnswerArrives
  <2>5. ASSUME NEW e \in Events, SkipEvent(p, e) PROVE TypeOK'
    BY <1>b, <2>5, SkipEventEffect DEF SkipEvent
  <2>6. ASSUME NEW e \in Events, MarkEvent(p, e) PROVE TypeOK'
    BY <1>b, <2>6, MarkEventEffect, RememberTyped DEF MarkEvent
  <2>7. CASE Dispatch(p)
    BY <1>b, <2>7, DispatchEffect DEF Dispatch
  <2>8. CASE Reject(p)
    BY <1>b, <2>8, RejectEffect DEF Reject
  <2>9. CASE AddAck(p)
    <3>1. post[p].done \in Events
      BY <1>0, <2>9 DEF AddAck, Post
    <3> QED BY <1>b, <2>9, <3>1, AddAckEffect DEF AddAck
  <2> QED BY <1>3, <2>1, <2>2, <2>3, <2>4, <2>5, <2>6, <2>7, <2>8, <2>9 DEF SenderStep, EventStep
<1>4. ASSUME NEW l \in PullLoops, PullEnds(l) PROVE TypeOK'
  <2>1. post' \in [Senders -> Post]
    BY <1>0, <1>4, SilentTyped DEF PullEnds
  <2> QED BY <1>b, <1>4, <2>1 DEF PullEnds, TypeOK, eventVars, handlerVars, panelVars
<1>5. ASSUME NEW e \in Events, Forget(e) \/ Queue(e) PROVE TypeOK'
  BY <1>0, <1>b, <1>5, ForgetTyped DEF Forget, Queue, TypeOK, eventVars, handlerVars, panelVars
<1>6. ASSUME Crash PROVE TypeOK'
  BY <1>6, SilentTyped, Limits DEF Crash, TypeOK, Post, handlerVars, panelVars
<1>7. ASSUME UNCHANGED vars PROVE TypeOK'
  BY <1>7 DEF vars, connVars, eventVars, handlerVars, panelVars, TypeOK
<1> QED BY <1>1, <1>2, <1>3, <1>4, <1>5, <1>6, <1>7 DEF Next

\* Every variable keeps its type; the seen-map never outgrows v2SeenEventLimit.
THEOREM TypeCorrect == Spec => []TypeOK
<1>1. Init => TypeOK
  BY Limits DEF Init, TypeOK, Off, Silent
<1> QED BY <1>1, TypeStep, PTL DEF Spec

(***************************************************************************)
(* Connections.                                                            *)
(***************************************************************************)

\* The main loop has a connection only while it selects; so nothing is open when
\* the next one is made.
Wiring == OneConnection /\ (main # "select" => conn = NoConn)

\* Every step keeps the connection and its reader together.
LEMMA WiringStep == TypeOK /\ Wiring /\ [Next]_vars => Wiring'
<1> SUFFICES ASSUME TypeOK, Wiring, [Next]_vars PROVE Wiring'
  OBVIOUS
<1> USE DEF Wiring, OneConnection, TypeOK
<1>a. ASSUME UNCHANGED connVars PROVE Wiring'
  BY <1>a DEF connVars
<1>1. ASSUME MainStep PROVE Wiring'
  <2>1. CASE StartDial \/ DialFails
    BY <2>1 DEF StartDial, DialFails
  <2>2. CASE WriteFails \/ ReadDone
    BY <2>2, Identities DEF WriteFails, ReadDone
  <2>3. ASSUME NEW c \in Conns, DialSucceeds(c) \/ Recover(c) PROVE Wiring'
    <3>1. \A d \in Conns : sock[d] = "closed"
      BY <2>3, Identities DEF DialSucceeds, Recover
    <3> QED BY <2>3, <3>1 DEF DialSucceeds, Recover, Connect
  <2> QED BY <1>1, <2>1, <2>2, <2>3 DEF MainStep
<1>2. ASSUME NEW c \in Conns, ConnectionLost(c) \/ ReadFails(c) PROVE Wiring'
  BY <1>2 DEF ConnectionLost, ReadFails
<1>3. ASSUME NEW p \in Senders, SenderStep(p) \/ PanelAnswers(p) PROVE Wiring'
  BY <1>a, <1>3 DEF SenderStep, EventStep, SendRequest, AnswerArrives, RequestFails, SkipEvent, MarkEvent,
                    Dispatch, Reject, AddAck, AnswerDone, PanelAnswers
<1>4. ASSUME NEW l \in PullLoops, PullEnds(l) PROVE Wiring'
  BY <1>a, <1>4 DEF PullEnds
<1>5. ASSUME NEW e \in Events, Forget(e) \/ Queue(e) PROVE Wiring'
  BY <1>a, <1>5 DEF Forget, Queue
<1>6. ASSUME Crash PROVE Wiring'
  BY <1>6 DEF Crash
<1>7. ASSUME UNCHANGED vars PROVE Wiring'
  BY <1>a, <1>7 DEF vars
<1> QED BY <1>1, <1>2, <1>3, <1>4, <1>5, <1>6, <1>7 DEF Next

\* The main loop listens to its own reader and leaves no other connection open.
THEOREM ConnectionsCorrect == Spec => []OneConnection
<1>1. Init => Wiring
  BY DEF Init, Wiring, OneConnection
<1>2. Wiring => OneConnection
  BY DEF Wiring
<1> QED BY <1>1, <1>2, WiringStep, TypeCorrect, PTL DEF Spec

(***************************************************************************)
(* Acknowledgements.                                                       *)
(***************************************************************************)

\* A sender holds one event at a time, while it goes through an answer; it clears what
\* the panel has, and the report ticker runs in the fallback only.
Orderly ==
  /\ \A p \in Senders : post[p].pc # "events" => post[p].marked = NoEvent /\ post[p].done = NoEvent
  /\ \A p \in Senders : post[p].marked = NoEvent \/ post[p].done = NoEvent
  /\ \A p \in Senders : post[p].pc = "answer" => post[p].sent \subseteq acked
  /\ main # "fallback" => post[Report].pc = "off"

\* Every step keeps the senders in order.
LEMMA OrderlyStep == TypeOK /\ Orderly /\ [Next]_vars => Orderly'
<1> SUFFICES ASSUME TypeOK, Orderly, [Next]_vars PROVE Orderly'
  OBVIOUS
<1> USE DEF Orderly, TypeOK
<1>a. ASSUME UNCHANGED post, acked \subseteq acked', main' = "fallback" => main = "fallback",
             main # "fallback" \/ main' = main
      PROVE  Orderly'
  BY <1>a
<1>b. /\ Off.pc = "off" /\ Off.marked = NoEvent /\ Off.done = NoEvent
      /\ Silent.pc = "idle" /\ Silent.marked = NoEvent /\ Silent.done = NoEvent
  BY DEF Off, Silent
<1>c. Report \in Senders /\ \A l \in PullLoops : l \in Senders /\ l # Report
  BY Identities DEF Senders
<1>1. ASSUME MainStep PROVE Orderly'
  <2>1. CASE StartDial \/ WriteFails \/ ReadDone
    BY <1>a, <2>1 DEF StartDial, WriteFails, ReadDone, panelVars
  <2>2. CASE DialFails
    BY <1>b, <1>c, <2>2 DEF DialFails, panelVars
  <2>3. ASSUME NEW c \in Conns, DialSucceeds(c) PROVE Orderly'
    BY <2>3 DEF DialSucceeds, Connect, panelVars
  <2>4. ASSUME NEW c \in Conns, Recover(c) PROVE Orderly'
    BY <1>b, <1>c, <2>4 DEF Recover, Connect, panelVars
  <2> QED BY <1>1, <2>1, <2>2, <2>3, <2>4 DEF MainStep
<1>2. ASSUME NEW c \in Conns, ConnectionLost(c) \/ ReadFails(c) PROVE Orderly'
  BY <1>a, <1>2 DEF ConnectionLost, ReadFails, panelVars
<1>3. ASSUME NEW p \in Senders, SenderStep(p) \/ PanelAnswers(p) PROVE Orderly'
  <2>a. ASSUME \A q \in Senders \ {p} : post'[q] = post[q], post[p].pc # "off",
               acked \subseteq acked', UNCHANGED connVars,
               post'[p].pc # "events" => post'[p].marked = NoEvent /\ post'[p].done = NoEvent,
               post'[p].marked = NoEvent \/ post'[p].done = NoEvent,
               post'[p].pc = "answer" => post'[p].sent \subseteq acked'
        PROVE  Orderly'
    BY <1>c, <2>a DEF connVars
  <2> USE EventsTyped DEF panelVars, Becomes
  <2>1. CASE RequestFails(p) \/ AnswerDone(p)
    BY <2>1, <2>a, SilentEffect DEF RequestFails, AnswerDone
  <2>2. CASE SendRequest(p)
    BY <2>2, <2>a, SendRequestEffect DEF SendRequest
  <2>3. CASE PanelAnswers(p)
    BY <2>3, <2>a, PanelAnswersEffect DEF PanelAnswers
  <2>4. CASE AnswerArrives(p)
    BY <2>4, <2>a, AnswerArrivesEffect DEF AnswerArrives
  <2>5. ASSUME NEW e \in Events, SkipEvent(p, e) PROVE Orderly'
    BY <2>5, <2>a, SkipEventEffect DEF SkipEvent, Takes
  <2>6. ASSUME NEW e \in Events, MarkEvent(p, e) PROVE Orderly'
    BY <2>6, <2>a, MarkEventEffect DEF MarkEvent, Takes
  <2>7. CASE Dispatch(p)
    <3>1. post[p].pc = "events"
      BY <2>7 DEF Dispatch
    <3> QED BY <2>7, <2>a, <3>1, DispatchEffect DEF Dispatch
  <2>8. CASE Reject(p)
    BY <2>8, <2>a, RejectEffect DEF Reject
  <2>9. CASE AddAck(p)
    <3>1. post[p].pc = "events"
      BY <2>9 DEF AddAck
    <3> QED BY <2>9, <2>a, <3>1, AddAckEffect DEF AddAck
  <2> QED BY <1>3, <2>1, <2>2, <2>3, <2>4, <2>5, <2>6, <2>7, <2>8, <2>9 DEF SenderStep, EventStep
<1>4. ASSUME NEW l \in PullLoops, PullEnds(l) PROVE Orderly'
  BY <1>4, <1>b, <1>c DEF PullEnds, connVars, panelVars
<1>5. ASSUME NEW e \in Events, Forget(e) \/ Queue(e) PROVE Orderly'
  BY <1>a, <1>5 DEF Forget, Queue, connVars, panelVars
<1>6. ASSUME Crash PROVE Orderly'
  BY <1>6, <1>b, <1>c DEF Crash
<1>7. ASSUME UNCHANGED vars PROVE Orderly'
  BY <1>a, <1>7 DEF vars, connVars, panelVars
<1> QED BY <1>1, <1>2, <1>3, <1>4, <1>5, <1>6, <1>7 DEF Next

\* No step loses an acknowledgement: a clear takes only what the panel has.
LEMMA AckStep == TypeOK /\ Orderly /\ AckNotLost /\ [Next]_vars => AckNotLost'
<1> SUFFICES ASSUME TypeOK, Orderly, AckNotLost, [Next]_vars PROVE AckNotLost'
  OBVIOUS
<1> USE EventsTyped DEF AckNotLost, TypeOK
\* What was acknowledged or is about to be stays so.
<1>a. ASSUME executed' = executed, crashed' = crashed, acks \cup acked \subseteq acks' \cup acked',
             \A q \in Senders : post[q].done \in {post'[q].done, NoEvent} \cup acks'
      PROVE  AckNotLost'
  BY <1>a
<1>b. Off.done = NoEvent /\ Silent.done = NoEvent
  BY DEF Off, Silent
<1>c. Report \in Senders /\ \A l \in PullLoops : l \in Senders
  BY DEF Senders
<1>1. ASSUME MainStep PROVE AckNotLost'
  <2>1. CASE StartDial \/ WriteFails \/ ReadDone
    BY <1>a, <2>1 DEF StartDial, WriteFails, ReadDone, eventVars, handlerVars, panelVars
  <2>2. CASE DialFails
    <3>1. \A q \in Senders : post[q].done \in {post'[q].done, NoEvent}
      BY <1>b, <1>c, <2>2 DEF DialFails, Orderly
    <3> QED BY <1>a, <2>2, <3>1 DEF DialFails, eventVars, handlerVars, panelVars
  <2>3. ASSUME NEW c \in Conns, DialSucceeds(c) \/ Recover(c) PROVE AckNotLost'
    <3>1. \A q \in Senders : post[q].done \in {post'[q].done, NoEvent}
      BY <1>b, <1>c, <2>3 DEF DialSucceeds, Recover, Orderly
    <3> QED BY <1>a, <2>3, <3>1 DEF DialSucceeds, Recover, eventVars, handlerVars, panelVars
  <2> QED BY <1>1, <2>1, <2>2, <2>3 DEF MainStep
<1>2. ASSUME NEW c \in Conns, ConnectionLost(c) \/ ReadFails(c) PROVE AckNotLost'
  BY <1>a, <1>2 DEF ConnectionLost, ReadFails, eventVars, handlerVars, panelVars
<1>3. ASSUME NEW p \in Senders, SenderStep(p) \/ PanelAnswers(p) PROVE AckNotLost'
  <2> USE DEF eventVars, handlerVars, panelVars, Becomes, Orderly
  <2>1. CASE RequestFails(p) \/ AnswerDone(p)
    BY <1>a, <2>1, SilentEffect DEF RequestFails, AnswerDone
  <2>2. CASE SendRequest(p)
    BY <1>a, <2>2, SendRequestEffect DEF SendRequest
  <2>3. CASE PanelAnswers(p)
    BY <1>a, <2>3, PanelAnswersEffect DEF PanelAnswers
  <2>4. CASE AnswerArrives(p)
    BY <1>a, <2>4, AnswerArrivesEffect DEF AnswerArrives
  <2>5. ASSUME NEW e \in Events, SkipEvent(p, e) PROVE AckNotLost'
    <3>1. post[p].done = NoEvent
      BY <2>5 DEF SkipEvent, Takes
    <3>2. \A q \in Senders : post[q].done \in {post'[q].done, NoEvent}
      BY <2>5, <3>1, SkipEventEffect
    <3> QED BY <1>a, <2>5, <3>2 DEF SkipEvent
  <2>6. ASSUME NEW e \in Events, MarkEvent(p, e) PROVE AckNotLost'
    <3>1. post[p].done = NoEvent
      BY <2>6 DEF MarkEvent, Takes
    <3>2. \A q \in Senders : post[q].done \in {post'[q].done, NoEvent}
      BY <2>6, <3>1, MarkEventEffect
    <3> QED BY <1>a, <2>6, <3>2 DEF MarkEvent
  <2>7. CASE Dispatch(p)
    <3>1. executed' = executed \cup {post[p].marked} /\ UNCHANGED <<acks, acked, crashed>>
      BY <2>7 DEF Dispatch
    <3>2. post[p].done = NoEvent
      BY <2>7 DEF Dispatch
    <3> QED BY <2>7, <3>1, <3>2, DispatchEffect
  <2>8. CASE Reject(p)
    BY <1>a, <2>8, RejectEffect DEF Reject
  <2>9. CASE AddAck(p)
    BY <1>a, <2>9, AddAckEffect DEF AddAck
  <2> QED BY <1>3, <2>1, <2>2, <2>3, <2>4, <2>5, <2>6, <2>7, <2>8, <2>9 DEF SenderStep, EventStep
<1>4. ASSUME NEW l \in PullLoops, PullEnds(l) PROVE AckNotLost'
  <2>1. \A q \in Senders : post[q].done \in {post'[q].done, NoEvent}
    BY <1>b, <1>c, <1>4 DEF PullEnds, Orderly
  <2> QED BY <1>a, <1>4, <2>1 DEF PullEnds, eventVars, handlerVars, panelVars
<1>5. ASSUME NEW e \in Events, Forget(e) \/ Queue(e) PROVE AckNotLost'
  BY <1>a, <1>5 DEF Forget, Queue, eventVars, handlerVars, panelVars
<1>6. ASSUME Crash PROVE AckNotLost'
  <2>1. executed' = executed /\ acked' = acked /\ crashed' = crashed \cup {e \in Events : Unfinished(e)}
    BY <1>6 DEF Crash, handlerVars, panelVars
  <2>2. ASSUME NEW e \in executed \ crashed' PROVE e \in acked
    <3>1. e \in Events /\ ~Unfinished(e) /\ e \notin crashed
      BY <2>1, <2>2
    <3>2. e \in acks \cup acked \/ \E q \in Senders : post[q].done = e
      BY <2>1, <2>2, <3>1
    <3> QED BY <3>1, <3>2 DEF Unfinished
  <2> QED BY <2>1, <2>2
<1>7. ASSUME UNCHANGED vars PROVE AckNotLost'
  BY <1>7 DEF vars, eventVars, handlerVars, panelVars
<1> QED BY <1>1, <1>2, <1>3, <1>4, <1>5, <1>6, <1>7 DEF Next

\* The acknowledgement of an executed event stays pending until the panel has it.
THEOREM AcksCorrect == Spec => []AckNotLost
<1>1. Init => Orderly /\ AckNotLost
  BY DEF Init, Orderly, AckNotLost, Off, Silent, Senders
<1> QED BY <1>1, OrderlyStep, AckStep, TypeCorrect, PTL DEF Spec

(***************************************************************************)
(* The seen-map.                                                           *)
(***************************************************************************)

\* Remembering e makes it seen, and of the others only evicted ones are not.
LEMMA RememberSeen ==
  ASSUME TypeOK, NEW e \in Events, Remember(e)
  PROVE  /\ IsSeen(e)'
         /\ \A x \in Events : IsSeen(x)' => IsSeen(x) \/ x = e
         /\ \A x \in Events : IsSeen(x) => IsSeen(x)' \/ x \in evicted'
         /\ evicted \subseteq evicted'
<1> USE DEF IsSeen
<1>0. seen \in Seq(Events) /\ Len(seen) \in Nat
  BY DEF TypeOK
<1>1. CASE Len(seen) >= SeenLimit
  <2>1. seen' = Append(Tail(seen), e) /\ evicted' = evicted \cup {Head(seen)}
    BY <1>1 DEF Remember
  <2>2. Len(seen) \in Nat \ {0}
    BY <1>0, <1>1, Limits
  <2> DEFINE n == Len(seen)
  <2>3. /\ Len(seen') = n
        /\ \A i \in 1 .. n - 1 : seen'[i] = seen[i + 1]
        /\ seen'[n] = e
    BY <1>0, <2>1, <2>2
  <2>4. DOMAIN seen' = 1 .. n /\ DOMAIN seen = 1 .. n
    BY <1>0, <2>1, <2>2, <2>3
  <2>5. Head(seen) = seen[1]
    BY <1>0, <2>2
  <2>6. IsSeen(e)'
    BY <2>2, <2>3, <2>4
  <2>7. ASSUME NEW x \in Events, IsSeen(x)' PROVE IsSeen(x) \/ x = e
    <3>1. PICK i \in 1 .. n : seen'[i] = x
      BY <2>4, <2>7
    <3>2. CASE i = n
      BY <2>3, <3>1, <3>2
    <3>3. CASE i # n
      <4>1. i \in 1 .. n - 1 /\ i + 1 \in 1 .. n
        BY <2>2, <3>3
      <4> QED BY <2>3, <2>4, <3>1, <4>1
    <3> QED BY <3>2, <3>3
  <2>8. ASSUME NEW x \in Events, IsSeen(x) PROVE IsSeen(x)' \/ x \in evicted'
    <3>1. PICK i \in 1 .. n : seen[i] = x
      BY <2>4, <2>8
    <3>2. CASE i = 1
      BY <2>1, <2>5, <3>1, <3>2
    <3>3. CASE i # 1
      <4>1. i - 1 \in 1 .. n - 1 /\ i - 1 \in 1 .. n /\ (i - 1) + 1 = i
        BY <2>2, <3>3
      <4>2. seen'[i - 1] = x
        BY <2>3, <3>1, <4>1
      <4> QED BY <2>4, <4>1, <4>2
    <3> QED BY <3>2, <3>3
  <2> QED BY <2>1, <2>6, <2>7, <2>8
<1>2. CASE ~(Len(seen) >= SeenLimit)
  <2>1. seen' = Append(seen, e) /\ evicted' = evicted
    BY <1>2 DEF Remember
  <2>2. /\ DOMAIN seen' = 1 .. Len(seen) + 1 /\ DOMAIN seen = 1 .. Len(seen)
        /\ seen'[Len(seen) + 1] = e
        /\ \A i \in 1 .. Len(seen) : seen'[i] = seen[i]
    BY <1>0, <2>1
  <2>3. IsSeen(e)'
    BY <1>0, <2>2
  <2>4. \A x \in Events : IsSeen(x)' => IsSeen(x) \/ x = e
    BY <1>0, <2>2
  <2>5. \A x \in Events : IsSeen(x) => IsSeen(x)'
    BY <1>0, <2>2
  <2> QED BY <2>1, <2>3, <2>4, <2>5
<1> QED BY <1>1, <1>2

\* A mark that expires takes no other one with it.
LEMMA ForgetSeen ==
  ASSUME TypeOK, NEW e \in Events, Forget(e)
  PROVE  /\ \A x \in Events : IsSeen(x)' => IsSeen(x)
         /\ \A x \in Events : IsSeen(x) => IsSeen(x)' \/ x = e
<1> USE DEF IsSeen
<1> DEFINE n == Len(seen)
<1>0. n \in Nat /\ DOMAIN seen = 1 .. n
  BY DEF TypeOK
<1>1. PICK i \in 1 .. n :
        /\ seen[i] = e
        /\ seen' = [j \in 1 .. n - 1 |-> IF j < i THEN seen[j] ELSE seen[j + 1]]
  BY <1>0 DEF Forget
<1>2. DOMAIN seen' = 1 .. n - 1
  BY <1>1
<1>3. ASSUME NEW x \in Events, IsSeen(x)' PROVE IsSeen(x)
  <2>1. PICK j \in 1 .. n - 1 : seen'[j] = x
    BY <1>2, <1>3
  <2>2. seen[j] = x \/ seen[j + 1] = x
    BY <1>1, <2>1
  <2>3. j \in 1 .. n /\ j + 1 \in 1 .. n
    BY <1>0
  <2> QED BY <1>0, <2>2, <2>3
<1>4. ASSUME NEW x \in Events, IsSeen(x), x # e PROVE IsSeen(x)'
  <2>1. PICK j \in 1 .. n : seen[j] = x
    BY <1>0, <1>4
  <2>2. j # i
    BY <1>1, <1>4, <2>1
  <2>3. CASE j < i
    <3>1. j \in 1 .. n - 1
      BY <1>0, <2>3
    <3> QED BY <1>1, <1>2, <2>1, <2>3, <3>1
  <2>4. CASE j > i
    <3>1. j - 1 \in 1 .. n - 1 /\ ~(j - 1 < i) /\ (j - 1) + 1 = j
      BY <1>0, <2>4
    <3> QED BY <1>1, <1>2, <2>1, <3>1
  <2> QED BY <2>2, <2>3, <2>4
<1> QED BY <1>3, <1>4

(***************************************************************************)
(* Executions.                                                             *)
(***************************************************************************)

\* Event e has been executed, cannot be, or is about to be.
Started(e) ==
  e \in executed \cup Malformed \/ \E p \in Senders : post[p].marked = e

\* Whatever is about to be acknowledged has been started; what the panel was told of
\* may have been lost in a crash since.
Backed ==
  /\ \A e \in Events : e \in acks \/ IsSeen(e) => Started(e)
  /\ \A e \in acked : Started(e) \/ e \in crashed
  /\ \A p \in Senders : \A e \in Events : e \in post[p].sent \/ e = post[p].done => Started(e)

\* What has been started stays so: only a crash makes a sender give up an event it has
\* marked without executing or rejecting it.
LEMMA StartedStays ==
  ASSUME TypeOK, Orderly, [Next]_vars, ~Crash, NEW e \in Events, Started(e)
  PROVE  Started(e)'
<1> USE EventsTyped DEF Started, TypeOK, Orderly
<1>a. ASSUME executed \subseteq executed',
             \A q \in Senders : post[q].marked \in {post'[q].marked, NoEvent} \cup executed' \cup Malformed
      PROVE  Started(e)'
  BY <1>a
<1>b. Off.marked = NoEvent /\ Silent.marked = NoEvent
  BY DEF Off, Silent
<1>c. Report \in Senders /\ \A l \in PullLoops : l \in Senders
  BY DEF Senders
<1>1. ASSUME MainStep PROVE Started(e)'
  <2>1. CASE StartDial \/ WriteFails \/ ReadDone
    BY <1>a, <2>1 DEF StartDial, WriteFails, ReadDone, eventVars, handlerVars
  <2>2. CASE DialFails
    <3>1. \A q \in Senders : post[q].marked \in {post'[q].marked, NoEvent}
      BY <1>b, <1>c, <2>2 DEF DialFails
    <3> QED BY <1>a, <2>2, <3>1 DEF DialFails, eventVars, handlerVars
  <2>3. ASSUME NEW c \in Conns, DialSucceeds(c) \/ Recover(c) PROVE Started(e)'
    <3>1. \A q \in Senders : post[q].marked \in {post'[q].marked, NoEvent}
      BY <1>b, <1>c, <2>3 DEF DialSucceeds, Recover
    <3> QED BY <1>a, <2>3, <3>1 DEF DialSucceeds, Recover, eventVars, handlerVars
  <2> QED BY <1>1, <2>1, <2>2, <2>3 DEF MainStep
<1>2. ASSUME NEW c \in Conns, ConnectionLost(c) \/ ReadFails(c) PROVE Started(e)'
  BY <1>a, <1>2 DEF ConnectionLost, ReadFails, eventVars, handlerVars
<1>3. ASSUME NEW p \in Senders, SenderStep(p) \/ PanelAnswers(p) PROVE Started(e)'
  <2> USE DEF eventVars, handlerVars, Becomes
  <2>1. CASE RequestFails(p) \/ AnswerDone(p)
    BY <1>a, <2>1, SilentEffect DEF RequestFails, AnswerDone
  <2>2. CASE SendRequest(p)
    BY <1>a, <2>2, SendRequestEffect DEF SendRequest
  <2>3. CASE PanelAnswers(p)
    BY <1>a, <2>3, PanelAnswersEffect DEF PanelAnswers
  <2>4. CASE AnswerArrives(p)
    BY <1>a, <2>4, AnswerArrivesEffect DEF AnswerArrives
  <2>5. ASSUME NEW x \in Events, SkipEvent(p, x) PROVE Started(e)'
    BY <1>a, <2>5, SkipEventEffect DEF SkipEvent
  <2>6. ASSUME NEW x \in Events, MarkEvent(p, x) PROVE Started(e)'
    <3>1. post[p].marked = NoEvent
      BY <2>6 DEF MarkEvent, Takes
    <3>2. \A q \in Senders : post[q].marked \in {post'[q].marked, NoEvent}
      BY <2>6, <3>1, MarkEventEffect
    <3> QED BY <1>a, <2>6, <3>2 DEF MarkEvent
  <2>7. CASE Dispatch(p)
    BY <1>a, <2>7, DispatchEffect DEF Dispatch
  <2>8. CASE Reject(p)
    BY <1>a, <2>8, RejectEffect DEF Reject
  <2>9. CASE AddAck(p)
    BY <1>a, <2>9, AddAckEffect DEF AddAck
  <2> QED BY <1>3, <2>1, <2>2, <2>3, <2>4, <2>5, <2>6, <2>7, <2>8, <2>9 DEF SenderStep, EventStep
<1>4. ASSUME NEW l \in PullLoops, PullEnds(l) PROVE Started(e)'
  <2>1. \A q \in Senders : post[q].marked \in {post'[q].marked, NoEvent}
    BY <1>b, <1>c, <1>4 DEF PullEnds
  <2> QED BY <1>a, <1>4, <2>1 DEF PullEnds, eventVars, handlerVars
<1>5. ASSUME NEW x \in Events, Forget(x) \/ Queue(x) PROVE Started(e)'
  BY <1>a, <1>5 DEF Forget, Queue, eventVars, handlerVars
<1>6. ASSUME UNCHANGED vars PROVE Started(e)'
  BY <1>a, <1>6 DEF vars, eventVars, handlerVars
<1> QED BY <1>1, <1>2, <1>3, <1>4, <1>5, <1>6 DEF Next

\* A crash leaves nothing to be acknowledged, and of what was acknowledged it loses
\* only what a sender had marked.
LEMMA BackedCrash == TypeOK /\ Backed /\ Crash => Backed'
<1> SUFFICES ASSUME TypeOK, Backed, Crash PROVE Backed'
  OBVIOUS
<1> USE EventsTyped DEF TypeOK
<1>1. /\ acks' = {} /\ acked' = acked /\ seen' = <<>> /\ post' = [p \in Senders |-> Off]
      /\ executed' = executed /\ crashed' = crashed \cup {e \in Events : Unfinished(e)}
  BY DEF Crash, handlerVars, panelVars
<1>2. Off.sent = {} /\ Off.done = NoEvent
  BY DEF Off, Silent
<1>3. \A e \in Events : e \in acks' \/ IsSeen(e)' => Started(e)'
  BY <1>1 DEF IsSeen
<1>4. \A p \in Senders : \A e \in Events : e \in post'[p].sent \/ e = post'[p].done => Started(e)'
  BY <1>1, <1>2
<1>5. ASSUME NEW e \in acked' PROVE Started(e)' \/ e \in crashed'
  <2>1. e \in Events /\ (Started(e) \/ e \in crashed)
    BY <1>1, <1>5 DEF Backed
  <2>2. CASE \E p \in Senders : post[p].marked = e
    BY <1>1, <2>1, <2>2 DEF Unfinished
  <2>3. CASE e \in executed \cup Malformed \cup crashed
    BY <1>1, <2>3 DEF Started
  <2> QED BY <2>1, <2>2, <2>3 DEF Started
<1> QED BY <1>3, <1>4, <1>5 DEF Backed

\* No other step acknowledges or remembers an event nobody has started.
LEMMA BackedStep == TypeOK /\ Orderly /\ Backed /\ [Next]_vars /\ ~Crash => Backed'
<1> SUFFICES ASSUME TypeOK, Orderly, Backed, [Next]_vars, ~Crash PROVE Backed'
  OBVIOUS
<1>s. \A e \in Events : Started(e) => Started(e)'
  BY StartedStays
\* It suffices that what is new was backed before or is started now.
<1>a. ASSUME \A e \in Events : e \in acks' \/ IsSeen(e)' =>
               \/ Started(e) \/ Started(e)'
               \/ e \in acks \/ IsSeen(e)
               \/ \E p \in Senders : e \in post[p].sent \/ e = post[p].done,
             \A e \in acked' : e \in acked \/ \E p \in Senders : e \in post[p].sent,
             crashed \subseteq crashed',
             \A p \in Senders : \A e \in Events : e \in post'[p].sent \/ e = post'[p].done =>
               \/ e \in post[p].sent \/ e = post[p].done
               \/ e \in acks \/ IsSeen(e) \/ Started(e)
      PROVE  Backed'
  <2>1. acked \subseteq Events /\ \A p \in Senders : post[p].sent \subseteq Events
    BY DEF TypeOK
  <2>2. \A e \in acked' : Started(e)' \/ e \in crashed'
    BY <1>a, <1>s, <2>1 DEF Backed
  <2> QED BY <1>a, <1>s, <2>2 DEF Backed
<1>b. /\ Off.sent = {} /\ Off.done = NoEvent /\ Silent.sent = {} /\ Silent.done = NoEvent
  BY DEF Off, Silent
<1>c. Report \in Senders /\ \A l \in PullLoops : l \in Senders
  BY DEF Senders
<1>d. UNCHANGED <<acks, acked, seen>> =>
        \A e \in Events : e \in acks' \/ IsSeen(e)' => e \in acks \/ IsSeen(e)
  BY DEF IsSeen
<1> USE EventsTyped DEF TypeOK
<1>1. ASSUME MainStep PROVE Backed'
  <2>1. CASE StartDial \/ WriteFails \/ ReadDone
    BY <1>a, <1>d, <2>1 DEF StartDial, WriteFails, ReadDone, eventVars, panelVars
  <2>2. CASE DialFails
    <3>1. \A q \in Senders : post'[q] \in {post[q], Silent}
      BY <1>c, <2>2 DEF DialFails
    <3>2. \A q \in Senders : \A e \in Events :
            e \in post'[q].sent \/ e = post'[q].done => e \in post[q].sent \/ e = post[q].done
      BY <1>b, <3>1
    <3>3. UNCHANGED <<acks, acked, seen, crashed>>
      BY <2>2 DEF DialFails, eventVars, panelVars
    <3> QED BY <1>a, <1>d, <3>2, <3>3
  <2>3. ASSUME NEW c \in Conns, DialSucceeds(c) \/ Recover(c) PROVE Backed'
    <3>1. \A q \in Senders : post'[q] \in {post[q], Off}
      BY <1>c, <2>3 DEF DialSucceeds, Recover
    <3>2. \A q \in Senders : \A e \in Events :
            e \in post'[q].sent \/ e = post'[q].done => e \in post[q].sent \/ e = post[q].done
      BY <1>b, <3>1
    <3>3. UNCHANGED <<acks, acked, seen, crashed>>
      BY <2>3 DEF DialSucceeds, Recover, eventVars, panelVars
    <3> QED BY <1>a, <1>d, <3>2, <3>3
  <2> QED BY <1>1, <2>1, <2>2, <2>3 DEF MainStep
<1>2. ASSUME NEW c \in Conns, ConnectionLost(c) \/ ReadFails(c) PROVE Backed'
  BY <1>a, <1>d, <1>2 DEF ConnectionLost, ReadFails, eventVars, panelVars
<1>3. ASSUME NEW p \in Senders, SenderStep(p) \/ PanelAnswers(p) PROVE Backed'
  <2> USE DEF eventVars, panelVars, Becomes
  <2>1. CASE RequestFails(p) \/ AnswerDone(p)
    <3>1. UNCHANGED <<acks, acked, seen, crashed>>
      BY <2>1 DEF RequestFails, AnswerDone
    <3>2. \A q \in Senders : \A e \in Events :
            e \in post'[q].sent \/ e = post'[q].done => e \in post[q].sent \/ e = post[q].done
      BY <2>1, SilentEffect
    <3> QED BY <1>a, <1>d, <3>1, <3>2
  <2>2. CASE SendRequest(p)
    BY <1>a, <1>d, <2>2, SendRequestEffect DEF SendRequest
  <2>3. CASE PanelAnswers(p)
    <3>1. acks' = acks /\ acked' = acked \cup post[p].sent /\ seen' = seen /\ crashed' = crashed
      BY <2>3 DEF PanelAnswers
    <3>2. \A e \in Events : IsSeen(e)' <=> IsSeen(e)
      BY <3>1 DEF IsSeen
    <3> QED BY <1>a, <2>3, <3>1, <3>2, PanelAnswersEffect
  <2>4. CASE AnswerArrives(p)
    <3>1. acks' \subseteq acks /\ acked' = acked /\ seen' = seen /\ crashed' = crashed
      BY <2>4 DEF AnswerArrives
    <3>2. \A e \in Events : IsSeen(e)' <=> IsSeen(e)
      BY <3>1 DEF IsSeen
    <3> QED BY <1>a, <2>4, <3>1, <3>2, AnswerArrivesEffect
  <2>5. ASSUME NEW x \in Events, SkipEvent(p, x) PROVE Backed'
    <3>1. IsSeen(x) /\ UNCHANGED <<acks, acked, seen, crashed>>
      BY <2>5 DEF SkipEvent
    <3>2. \A q \in Senders : \A e \in Events :
            e \in post'[q].sent \/ e = post'[q].done => e \in post[q].sent \/ e = post[q].done \/ e = x
      BY <2>5, SkipEventEffect
    <3> QED BY <1>a, <1>d, <3>1, <3>2
  <2>6. ASSUME NEW x \in Events, MarkEvent(p, x) PROVE Backed'
    <3>1. Remember(x) /\ acks' = acks /\ acked' = acked /\ crashed' = crashed
      BY <2>6 DEF MarkEvent
    <3>2. Started(x)'
      BY <2>6, MarkEventEffect DEF Started
    <3>3. \A e \in Events : IsSeen(e)' => IsSeen(e) \/ e = x
      BY <3>1, RememberSeen
    <3> QED BY <1>a, <2>6, <3>1, <3>2, <3>3, MarkEventEffect
  <2>7. CASE Dispatch(p)
    <3>1. Started(post[p].marked)
      BY DEF Started
    <3>2. UNCHANGED <<acks, acked, seen, crashed>>
      BY <2>7 DEF Dispatch
    <3>3. \A q \in Senders : \A e \in Events :
            e \in post'[q].sent \/ e = post'[q].done =>
              e \in post[q].sent \/ e = post[q].done \/ e = post[p].marked
      BY <2>7, DispatchEffect
    <3>4. \A q \in Senders : \A e \in Events :
            e \in post'[q].sent \/ e = post'[q].done =>
              e \in post[q].sent \/ e = post[q].done \/ Started(e)
      BY <3>1, <3>3
    <3> QED BY <1>a, <1>d, <3>2, <3>4
  <2>8. CASE Reject(p)
    BY <1>a, <1>d, <2>8, RejectEffect DEF Reject
  <2>9. CASE AddAck(p)
    <3>1. acks' = acks \cup {post[p].done} /\ acked' = acked /\ seen' = seen /\ crashed' = crashed
      BY <2>9 DEF AddAck
    <3>2. \A e \in Events : IsSeen(e)' <=> IsSeen(e)
      BY <3>1 DEF IsSeen
    <3> QED BY <1>a, <2>9, <3>1, <3>2, AddAckEffect
  <2> QED BY <1>3, <2>1, <2>2, <2>3, <2>4, <2>5, <2>6, <2>7, <2>8, <2>9 DEF SenderStep, EventStep
<1>4. ASSUME NEW l \in PullLoops, PullEnds(l) PROVE Backed'
  <2>1. \A q \in Senders : \A e \in Events :
          e \in post'[q].sent \/ e = post'[q].done => e \in post[q].sent \/ e = post[q].done
    BY <1>b, <1>c, <1>4 DEF PullEnds
  <2> QED BY <1>a, <1>d, <1>4, <2>1 DEF PullEnds, eventVars, panelVars
<1>5. ASSUME NEW x \in Events, Forget(x) PROVE Backed'
  <2>1. \A e \in Events : IsSeen(e)' => IsSeen(e)
    BY <1>5, ForgetSeen
  <2> QED BY <1>a, <1>5, <2>1 DEF Forget, panelVars
<1>6. ASSUME NEW x \in Events, Queue(x) PROVE Backed'
  BY <1>a, <1>d, <1>6 DEF Queue, eventVars
<1>7. ASSUME UNCHANGED vars PROVE Backed'
  BY <1>a, <1>d, <1>7 DEF vars, eventVars, panelVars
<1> QED BY <1>1, <1>2, <1>3, <1>4, <1>5, <1>6, <1>7 DEF Next

\* What the panel was told is done has been started, unless it never can be.
THEOREM AckedCorrect == Spec => []AckedWasExecuted
<1>1. Init => Orderly /\ Backed
  BY EventsTyped DEF Init, Orderly, Backed, IsSeen, Off, Silent, Senders
<1>2. TypeOK /\ Backed => AckedWasExecuted
  BY DEF TypeOK, Backed, Started, AckedWasExecuted
<1>3. TypeOK /\ Orderly /\ Backed /\ [Next]_vars => Backed'
  BY BackedStep, BackedCrash
<1> QED BY <1>1, <1>2, <1>3, OrderlyStep, TypeCorrect, PTL DEF Spec

(***************************************************************************)
(* Executions are not repeated.                                            *)
(***************************************************************************)

\* Neither the seen-map nor a crash gave e up.
Remembered(e) == e \notin evicted \cup crashed

\* An event that is marked is in the seen-map, not executed before, and marked by one
\* sender; once executed it stays in the map until no request can bring it again.
Once ==
  /\ \A p \in Senders : \A e \in Events :
       post[p].marked = e /\ Remembered(e) => IsSeen(e) /\ e \notin executed
  /\ \A p, q \in Senders : \A e \in Events :
       post[p].marked = e /\ post[q].marked = e /\ Remembered(e) => p = q
  /\ \A e \in executed : Remembered(e) => IsSeen(e) \/ Settled(e)
  /\ ExecutedOnce

\* A sender that rests or ends brings nothing.
LEMMA SettledStays ==
  ASSUME TypeOK, NEW e \in Events, Settled(e), acked \subseteq acked',
         \A q \in Senders : post'[q] \in {post[q], Silent, Off}
  PROVE  Settled(e)'
<1>1. /\ Off.pc = "off" /\ Silent.pc = "idle" /\ Silent.events = {}
      /\ Silent.marked = NoEvent /\ Silent.done = NoEvent
  BY DEF Off, Silent
<1> QED BY <1>1, EventsTyped DEF Settled

\* An executed event no request brings is acknowledged or about to be sent as such.
LEMMA SettledAcked ==
  ASSUME TypeOK, Orderly, AckNotLost, NEW e \in executed \ crashed, Settled(e)
  PROVE  e \in acks \cup acked
<1>1. e \in Events
  BY DEF TypeOK
<1>2. \A p \in Senders : post[p].done # e
  BY <1>1, EventsTyped DEF Settled, Orderly
<1> QED BY <1>2 DEF AckNotLost

\* No step marks an event again that is remembered: before its mark goes, no request
\* can bring it any more.
LEMMA OnceStep == TypeOK /\ Orderly /\ AckNotLost /\ Once /\ [Next]_vars => Once'
<1> SUFFICES ASSUME TypeOK, Orderly, AckNotLost, Once, [Next]_vars PROVE Once'
  OBVIOUS
\* It suffices that nothing is marked and that what is settled stays so.
<1>a. ASSUME UNCHANGED <<handlerVars, seen, evicted, crashed>>,
             \A q \in Senders : post'[q].marked \in {post[q].marked, NoEvent},
             \A e \in Events : e \in executed /\ Remembered(e) /\ Settled(e) => IsSeen(e) \/ Settled(e)'
      PROVE  Once'
  <2>1. \A e \in Events : (Remembered(e)' <=> Remembered(e)) /\ (IsSeen(e)' <=> IsSeen(e))
    BY <1>a DEF Remembered, IsSeen
  <2>2. executed' = executed /\ repeated' = repeated /\ executed \subseteq Events
    BY <1>a DEF handlerVars, TypeOK
  <2>3. ExecutedOnce'
    BY <1>a, <2>2 DEF Once, ExecutedOnce
  <2>4. \A p \in Senders : \A e \in Events : post'[p].marked = e => post[p].marked = e
    BY <1>a, EventsTyped
  <2>5. \A p \in Senders : \A e \in Events :
          post'[p].marked = e /\ Remembered(e)' => IsSeen(e)' /\ e \notin executed'
    BY <2>1, <2>2, <2>4 DEF Once
  <2>6. \A p, q \in Senders : \A e \in Events :
          post'[p].marked = e /\ post'[q].marked = e /\ Remembered(e)' => p = q
    BY <2>1, <2>4 DEF Once
  <2>7. \A e \in executed' : Remembered(e)' => IsSeen(e)' \/ Settled(e)'
    BY <1>a, <2>1, <2>2 DEF Once
  <2> QED BY <2>3, <2>5, <2>6, <2>7 DEF Once
\* So it does that senders rest or end.
<1>b. ASSUME UNCHANGED <<handlerVars, seen, evicted, acked, crashed>>,
             \A q \in Senders : post'[q] \in {post[q], Silent, Off}
      PROVE  Once'
  <2>1. Silent.marked = NoEvent /\ Off.marked = NoEvent
    BY DEF Silent, Off
  <2>2. \A q \in Senders : post'[q].marked \in {post[q].marked, NoEvent}
    BY <1>b, <2>1
  <2>3. \A e \in Events : Settled(e) => Settled(e)'
    BY <1>b, SettledStays
  <2>4. UNCHANGED <<handlerVars, seen, evicted, crashed>>
    BY <1>b
  <2> QED BY <1>a, <2>2, <2>3, <2>4
<1>c. Report \in Senders /\ \A l \in PullLoops : l \in Senders
  BY DEF Senders
<1>1. ASSUME MainStep PROVE Once'
  <2>1. CASE StartDial \/ WriteFails \/ ReadDone
    BY <1>b, <2>1 DEF StartDial, WriteFails, ReadDone, eventVars, panelVars
  <2>2. CASE DialFails
    <3>1. \A q \in Senders : post'[q] \in {post[q], Silent}
      BY <1>c, <2>2 DEF DialFails, TypeOK
    <3>2. UNCHANGED <<handlerVars, seen, evicted, acked, crashed>>
      BY <2>2 DEF DialFails, eventVars, panelVars
    <3> QED BY <1>b, <3>1, <3>2
  <2>3. ASSUME NEW c \in Conns, DialSucceeds(c) PROVE Once'
    BY <1>b, <2>3 DEF DialSucceeds, eventVars, panelVars
  <2>4. ASSUME NEW c \in Conns, Recover(c) PROVE Once'
    BY <1>b, <1>c, <2>4 DEF Recover, eventVars, panelVars
  <2> QED BY <1>1, <2>1, <2>2, <2>3, <2>4 DEF MainStep
<1>2. ASSUME NEW c \in Conns, ConnectionLost(c) \/ ReadFails(c) PROVE Once'
  BY <1>b, <1>2 DEF ConnectionLost, ReadFails, eventVars, panelVars
<1>3. ASSUME NEW p \in Senders, SenderStep(p) \/ PanelAnswers(p) PROVE Once'
  <2>1. CASE RequestFails(p) \/ AnswerDone(p)
    <3>1. \A q \in Senders : post'[q] \in {post[q], Silent}
      BY <2>1 DEF RequestFails, AnswerDone, TypeOK
    <3>2. UNCHANGED <<handlerVars, seen, evicted, acked, crashed>>
      BY <2>1 DEF RequestFails, AnswerDone, eventVars, panelVars
    <3> QED BY <1>b, <3>1, <3>2
  <2>2. CASE SendRequest(p)
    <3>1. UNCHANGED <<handlerVars, seen, evicted, acked, crashed>>
      BY <2>2 DEF SendRequest, eventVars, panelVars
    <3>2. \A q \in Senders : post'[q].marked = post[q].marked
      BY <2>2, SendRequestEffect DEF Becomes
    <3>3. ASSUME NEW e \in Events, e \in executed, Remembered(e), Settled(e) PROVE Settled(e)'
      <4>1. e \in acks \cup acked
        BY <3>3, SettledAcked DEF Remembered
      <4>2. post[p].pc # "off"
        BY <2>2 DEF SendRequest
      <4> QED BY <2>2, <3>1, <3>3, <4>1, <4>2, SendRequestEffect DEF Becomes, Settled
    <3> QED BY <1>a, <3>1, <3>2, <3>3
  <2>3. CASE PanelAnswers(p)
    <3>1. UNCHANGED <<handlerVars, seen, evicted, crashed>> /\ acked' = acked \cup post[p].sent
      BY <2>3 DEF PanelAnswers, eventVars
    <3>2. \A q \in Senders : post'[q].marked = post[q].marked
      BY <2>3, PanelAnswersEffect DEF Becomes
    <3>3. ASSUME NEW e \in Events, Settled(e) PROVE Settled(e)'
      <4>1. post[p].pc = "request"
        BY <2>3 DEF PanelAnswers
      <4>2. e \in acked'
        BY <3>1, <3>3, <4>1 DEF Settled
      <4> QED BY <2>3, <3>1, <3>3, <4>1, <4>2, PanelAnswersEffect DEF Becomes, Settled
    <3> QED BY <1>a, <3>1, <3>2, <3>3
  <2>4. CASE AnswerArrives(p)
    <3>1. UNCHANGED <<handlerVars, seen, evicted, acked, crashed>>
      BY <2>4 DEF AnswerArrives, panelVars
    <3>2. \A q \in Senders : post'[q].marked = post[q].marked
      BY <2>4, AnswerArrivesEffect DEF Becomes
    <3>3. ASSUME NEW e \in Events, Settled(e) PROVE Settled(e)'
      <4>1. post[p].pc = "answer"
        BY <2>4 DEF AnswerArrives
      <4> QED BY <2>4, <3>1, <3>3, <4>1, AnswerArrivesEffect DEF Becomes, Settled
    <3> QED BY <1>a, <3>1, <3>2, <3>3
  <2>5. ASSUME NEW x \in Events, SkipEvent(p, x) PROVE Once'
    <3>1. UNCHANGED <<handlerVars, seen, evicted, acked, crashed>>
      BY <2>5 DEF SkipEvent, eventVars, panelVars
    <3>2. \A q \in Senders : post'[q].marked = post[q].marked
      BY <2>5, SkipEventEffect DEF Becomes
    <3>3. ASSUME NEW e \in Events, Settled(e) PROVE IsSeen(e) \/ Settled(e)'
      <4>1. IsSeen(x) /\ post[p].pc = "events"
        BY <2>5 DEF SkipEvent, Takes
      <4>2. CASE e = x
        BY <4>1, <4>2
      <4>3. CASE e # x
        BY <2>5, <3>1, <3>3, <4>1, <4>3, SkipEventEffect DEF Becomes, Settled
      <4> QED BY <4>2, <4>3
    <3> QED BY <1>a, <3>1, <3>2, <3>3
  <2>6. ASSUME NEW x \in Events, MarkEvent(p, x) PROVE Once'
    <3>1. /\ ~IsSeen(x) /\ Remember(x) /\ UNCHANGED <<handlerVars, acked, crashed>>
          /\ post[p].pc = "events" /\ x \in post[p].events /\ post[p].marked = NoEvent
      BY <2>6 DEF MarkEvent, Takes, panelVars
    <3>2. ~Settled(x)
      BY <3>1 DEF Settled
    <3>3. /\ post'[p].marked = x
          /\ \A q \in Senders \ {p} : post'[q].marked = post[q].marked
      BY <2>6, MarkEventEffect DEF Becomes
    <3>4. \A e \in Events : Remembered(e)' => Remembered(e)
      BY <3>1, RememberSeen DEF Remembered
    <3>5. \A e \in Events : Remembered(e)' /\ IsSeen(e) => IsSeen(e)'
      BY <3>1, RememberSeen DEF Remembered
    <3>6. IsSeen(x)'
      BY <3>1, RememberSeen
    <3>7. executed' = executed /\ repeated' = repeated /\ executed \subseteq Events
      BY <3>1 DEF handlerVars, TypeOK
    <3>8. \A q \in Senders : \A e \in Events :
            post'[q].marked = e /\ Remembered(e)' => IsSeen(e)' /\ e \notin executed'
      BY <3>1, <3>2, <3>3, <3>4, <3>5, <3>6, <3>7 DEF Once
    <3>9. \A q, r \in Senders : \A e \in Events :
            post'[q].marked = e /\ post'[r].marked = e /\ Remembered(e)' => q = r
      BY <3>1, <3>3, <3>4 DEF Once
    <3>10. ASSUME NEW e \in Events, e \in executed, Remembered(e)' PROVE IsSeen(e)' \/ Settled(e)'
      <4>1. CASE IsSeen(e)
        BY <3>5, <3>10, <4>1
      <4>2. CASE Settled(e)
        BY <2>6, <3>1, <3>2, <4>2, MarkEventEffect DEF Becomes, Settled
      <4> QED BY <3>4, <3>10, <4>1, <4>2 DEF Once
    <3>11. ExecutedOnce'
      BY <3>1, <3>7, RememberSeen DEF Once, ExecutedOnce
    <3> QED BY <3>7, <3>8, <3>9, <3>10, <3>11 DEF Once
  <2>7. CASE Dispatch(p)
    <3> DEFINE m == post[p].marked
    <3>1. /\ m \in Events /\ UNCHANGED <<seen, evicted, acked, crashed>>
          /\ executed' = executed \cup {m} /\ repeated' = repeated \cup ({m} \cap executed)
      BY <2>7 DEF Dispatch, panelVars
    <3>2. /\ post'[p].marked = NoEvent
          /\ \A q \in Senders \ {p} : post'[q].marked = post[q].marked
      BY <2>7, DispatchEffect DEF Becomes
    <3>3. \A e \in Events : (Remembered(e)' <=> Remembered(e)) /\ (IsSeen(e)' <=> IsSeen(e))
      BY <3>1 DEF Remembered, IsSeen
    <3>4. Remembered(m) => IsSeen(m) /\ m \notin executed
      BY <3>1 DEF Once
    <3>5. \A q \in Senders : \A e \in Events :
            post'[q].marked = e /\ Remembered(e)' => IsSeen(e)' /\ e \notin executed'
      BY <3>1, <3>2, <3>3, EventsTyped DEF Once
    <3>6. \A q, r \in Senders : \A e \in Events :
            post'[q].marked = e /\ post'[r].marked = e /\ Remembered(e)' => q = r
      BY <3>2, <3>3, EventsTyped DEF Once
    <3>7. ASSUME NEW e \in executed', Remembered(e)' PROVE IsSeen(e)' \/ Settled(e)'
      <4>0. e \in Events
        BY <3>1 DEF TypeOK
      <4>1. CASE e = m
        BY <3>1, <3>3, <3>4, <3>7, <4>1
      <4>2. CASE IsSeen(e)
        BY <3>3, <4>0, <4>2
      <4>3. CASE e # m /\ Settled(e)
        BY <2>7, <3>1, <4>0, <4>3, DispatchEffect, EventsTyped DEF Becomes, Settled
      <4> QED BY <3>1, <3>3, <3>7, <4>0, <4>1, <4>2, <4>3 DEF Once
    <3>8. ExecutedOnce'
      BY <3>1, <3>4 DEF Once, ExecutedOnce, Remembered
    <3> QED BY <3>5, <3>6, <3>7, <3>8 DEF Once
  <2>8. CASE Reject(p)
    <3>1. UNCHANGED <<handlerVars, seen, evicted, acked, crashed>>
      BY <2>8 DEF Reject, eventVars, panelVars
    <3>2. \A q \in Senders : post'[q].marked \in {post[q].marked, NoEvent}
      BY <2>8, RejectEffect DEF Becomes
    <3>3. ASSUME NEW e \in Events, Settled(e) PROVE Settled(e)'
      BY <2>8, <3>1, <3>3, RejectEffect, EventsTyped DEF Becomes, Settled
    <3> QED BY <1>a, <3>1, <3>2, <3>3
  <2>9. CASE AddAck(p)
    <3>1. UNCHANGED <<handlerVars, seen, evicted, acked, crashed>>
      BY <2>9 DEF AddAck, panelVars
    <3>2. \A q \in Senders : post'[q].marked = post[q].marked
      BY <2>9, AddAckEffect DEF Becomes
    <3>3. ASSUME NEW e \in Events, Settled(e) PROVE Settled(e)'
      BY <2>9, <3>1, <3>3, AddAckEffect, EventsTyped DEF Becomes, Settled
    <3> QED BY <1>a, <3>1, <3>2, <3>3
  <2> QED BY <1>3, <2>1, <2>2, <2>3, <2>4, <2>5, <2>6, <2>7, <2>8, <2>9 DEF SenderStep, EventStep
<1>4. ASSUME NEW l \in PullLoops, PullEnds(l) PROVE Once'
  BY <1>b, <1>4 DEF PullEnds, eventVars, panelVars
<1>5. ASSUME NEW x \in Events, Forget(x) PROVE Once'
  <2>1. Settled(x) /\ UNCHANGED <<post, handlerVars, evicted, acked, crashed>>
    BY <1>5 DEF Forget, panelVars
  <2>2. \A e \in Events : Remembered(e)' <=> Remembered(e)
    BY <2>1 DEF Remembered
  <2>3. \A e \in Events : Settled(e)' <=> Settled(e)
    BY <2>1 DEF Settled
  <2>4. \A e \in Events : IsSeen(e) => IsSeen(e)' \/ e = x
    BY <1>5, ForgetSeen
  <2>5. \A p \in Senders : post[p].marked # x
    BY <2>1, EventsTyped DEF Settled, Orderly
  <2>6. executed' = executed /\ repeated' = repeated /\ executed \subseteq Events
    BY <2>1 DEF handlerVars, TypeOK
  <2>7. ExecutedOnce'
    BY <2>1, <2>6 DEF Once, ExecutedOnce
  <2>8. \A p \in Senders : \A e \in Events :
          post'[p].marked = e /\ Remembered(e)' => IsSeen(e)' /\ e \notin executed'
    BY <2>1, <2>2, <2>4, <2>5, <2>6 DEF Once
  <2>9. \A p, q \in Senders : \A e \in Events :
          post'[p].marked = e /\ post'[q].marked = e /\ Remembered(e)' => p = q
    BY <2>1, <2>2 DEF Once
  <2>10. \A e \in executed' : Remembered(e)' => IsSeen(e)' \/ Settled(e)'
    BY <2>1, <2>2, <2>3, <2>4, <2>6 DEF Once
  <2> QED BY <2>7, <2>8, <2>9, <2>10 DEF Once
<1>6. ASSUME NEW x \in Events, Queue(x) PROVE Once'
  BY <1>b, <1>6 DEF Queue, eventVars
<1>7. ASSUME Crash PROVE Once'
  <2>1. /\ post' = [p \in Senders |-> Off] /\ executed' = executed /\ repeated' = repeated
        /\ evicted' = evicted /\ crashed \subseteq crashed'
    BY <1>7 DEF Crash, handlerVars
  <2>2. Off.pc = "off" /\ Off.marked = NoEvent
    BY DEF Off, Silent
  <2>3. \A e : Settled(e)'
    BY <2>1, <2>2 DEF Settled
  <2>4. ExecutedOnce'
    BY <2>1 DEF Once, ExecutedOnce
  <2> QED BY <2>1, <2>2, <2>3, <2>4, EventsTyped DEF Once
<1>8. ASSUME UNCHANGED vars PROVE Once'
  BY <1>b, <1>8 DEF vars, eventVars, panelVars
<1> QED BY <1>1, <1>2, <1>3, <1>4, <1>5, <1>6, <1>7, <1>8 DEF Next

\* An event is executed once, unless the seen-map or a crash gave it up.
THEOREM ExecutionsCorrect == Spec => []ExecutedOnce
<1>1. Init => Orderly /\ AckNotLost /\ Once
  BY EventsTyped DEF Init, Orderly, AckNotLost, Once, ExecutedOnce, Off, Silent, Senders
<1>2. Once => ExecutedOnce
  BY DEF Once
<1> QED BY <1>1, <1>2, OrderlyStep, AckStep, OnceStep, TypeCorrect, PTL DEF Spec

(***************************************************************************)
(* The channel implements EventDelivery.                                   *)
(***************************************************************************)

\* The agent has heard only of events the panel has.
Offered ==
  /\ executed \cup acked \cup acks \subseteq queued
  /\ \A e \in Events : IsSeen(e) => e \in queued
  /\ \A p \in Senders :
       /\ post[p].sent \cup post[p].events \subseteq queued
       /\ {post[p].marked, post[p].done} \subseteq queued \cup {NoEvent}

\* The fallback and its end leave every sender with the event it had marked.
LEMMA MainLeavesMarks ==
  ASSUME TypeOK, Orderly, MainStep
  PROVE  /\ UNCHANGED <<eventVars, panelVars, crashed>>
         /\ \A q \in Senders : post'[q] \in {post[q], Silent, Off}
         /\ \A q \in Senders : post'[q].marked = post[q].marked
<1> USE DEF TypeOK, Orderly
<1>a. Off.marked = NoEvent /\ Silent.marked = NoEvent
  BY DEF Off, Silent
<1>b. Report \in Senders /\ \A l \in PullLoops : l \in Senders
  BY DEF Senders
<1>1. CASE StartDial \/ WriteFails \/ ReadDone
  BY <1>1 DEF StartDial, WriteFails, ReadDone
<1>2. CASE DialFails
  BY <1>a, <1>b, <1>2 DEF DialFails
<1>3. ASSUME NEW c \in Conns, DialSucceeds(c)
      PROVE  UNCHANGED <<post, eventVars, panelVars, crashed>>
  BY <1>3 DEF DialSucceeds
<1>4. ASSUME NEW c \in Conns, Recover(c)
      PROVE  /\ UNCHANGED <<eventVars, panelVars, crashed>>
             /\ \A q \in Senders : post'[q] \in {post[q], Off} /\ post'[q].marked = post[q].marked
  BY <1>a, <1>b, <1>4 DEF Recover
<1> QED BY <1>1, <1>2, <1>3, <1>4 DEF MainStep

\* No step brings up an event the panel has not.
LEMMA OfferedStep == TypeOK /\ Orderly /\ Offered /\ [Next]_vars => Offered'
<1> SUFFICES ASSUME TypeOK, Orderly, Offered, [Next]_vars PROVE Offered'
  OBVIOUS
<1> USE DEF Offered
\* Senders that rest or end bring up nothing.
<1>a. ASSUME UNCHANGED <<executed, acked, acks, seen>>, queued \subseteq queued',
             \A q \in Senders : post'[q] \in {post[q], Silent, Off}
      PROVE  Offered'
  <2>1. /\ Off.sent = {} /\ Off.events = {} /\ Off.marked = NoEvent /\ Off.done = NoEvent
        /\ Silent.sent = {} /\ Silent.events = {} /\ Silent.marked = NoEvent /\ Silent.done = NoEvent
    BY DEF Off, Silent
  <2>2. \A q \in Senders :
          /\ post'[q].sent \cup post'[q].events \subseteq queued'
          /\ {post'[q].marked, post'[q].done} \subseteq queued' \cup {NoEvent}
    BY <1>a, <2>1
  <2>3. \A e \in Events : IsSeen(e)' => e \in queued'
    BY <1>a DEF IsSeen
  <2> QED BY <1>a, <2>2, <2>3
<1>1. ASSUME MainStep PROVE Offered'
  BY <1>1, <1>a, MainLeavesMarks DEF eventVars, handlerVars, panelVars
<1>2. ASSUME NEW c \in Conns, ConnectionLost(c) \/ ReadFails(c) PROVE Offered'
  BY <1>2, <1>a DEF ConnectionLost, ReadFails, eventVars, handlerVars, panelVars
<1>3. ASSUME NEW p \in Senders, SenderStep(p) \/ PanelAnswers(p) PROVE Offered'
  \* The others stay, and what p does is to be looked at.
  <2>a. ASSUME queued' = queued, executed' \cup acked' \cup acks' \subseteq queued,
               \A e \in Events : IsSeen(e)' => e \in queued,
               \A q \in Senders \ {p} : post'[q] = post[q],
               post'[p].sent \cup post'[p].events \subseteq queued,
               {post'[p].marked, post'[p].done} \subseteq queued \cup {NoEvent}
        PROVE  Offered'
    BY <2>a
  <2>b. seen' = seen => \A e \in Events : IsSeen(e)' => e \in queued
    BY DEF IsSeen
  <2> USE DEF eventVars, handlerVars, panelVars, Becomes
  <2>1. CASE RequestFails(p) \/ AnswerDone(p)
    BY <2>1, <2>a, <2>b, SilentEffect DEF RequestFails, AnswerDone
  <2>2. CASE SendRequest(p)
    <3>1. UNCHANGED <<executed, acked, acks, seen, queued>>
      BY <2>2 DEF SendRequest
    <3>2. /\ \A q \in Senders \ {p} : post'[q] = post[q]
          /\ post'[p].sent = acks /\ post'[p].events = post[p].events
          /\ post'[p].marked = post[p].marked /\ post'[p].done = post[p].done
      BY <2>2, SendRequestEffect
    <3> QED BY <2>a, <2>b, <3>1, <3>2
  <2>3. CASE PanelAnswers(p)
    <3>1. UNCHANGED <<executed, acks, seen, queued>> /\ acked' = acked \cup post[p].sent
      BY <2>3 DEF PanelAnswers
    <3>2. /\ \A q \in Senders \ {p} : post'[q] = post[q]
          /\ post'[p].sent = post[p].sent /\ post'[p].events = queued \ acked'
          /\ post'[p].marked = post[p].marked /\ post'[p].done = post[p].done
      BY <2>3, PanelAnswersEffect
    <3> QED BY <2>a, <2>b, <3>1, <3>2
  <2>4. CASE AnswerArrives(p)
    <3>1. UNCHANGED <<executed, acked, seen, queued>> /\ acks' = acks \ post[p].sent
      BY <2>4 DEF AnswerArrives
    <3>2. /\ \A q \in Senders \ {p} : post'[q] = post[q]
          /\ post'[p].sent = {} /\ post'[p].events = post[p].events
          /\ post'[p].marked = post[p].marked /\ post'[p].done = post[p].done
      BY <2>4, AnswerArrivesEffect
    <3> QED BY <2>a, <2>b, <3>1, <3>2
  <2>5. ASSUME NEW x \in Events, SkipEvent(p, x) PROVE Offered'
    <3>1. UNCHANGED <<executed, acked, acks, seen, queued>> /\ x \in post[p].events
      BY <2>5 DEF SkipEvent, Takes
    <3>2. /\ \A q \in Senders \ {p} : post'[q] = post[q]
          /\ post'[p].sent = post[p].sent /\ post'[p].events = post[p].events \ {x}
          /\ post'[p].marked = post[p].marked /\ post'[p].done = x
      BY <2>5, SkipEventEffect
    <3> QED BY <2>a, <2>b, <3>1, <3>2
  <2>6. ASSUME NEW x \in Events, MarkEvent(p, x) PROVE Offered'
    <3>1. /\ UNCHANGED <<executed, acked, acks, queued>>
          /\ x \in post[p].events /\ Remember(x)
      BY <2>6 DEF MarkEvent, Takes
    <3>2. /\ \A q \in Senders \ {p} : post'[q] = post[q]
          /\ post'[p].sent = post[p].sent /\ post'[p].events = post[p].events \ {x}
          /\ post'[p].marked = x /\ post'[p].done = post[p].done
      BY <2>6, MarkEventEffect
    <3>3. \A e \in Events : IsSeen(e)' => e \in queued
      BY <3>1, RememberSeen
    <3> QED BY <2>a, <3>1, <3>2, <3>3
  <2>7. CASE Dispatch(p)
    <3>1. /\ UNCHANGED <<acked, acks, seen, queued>> /\ executed' = executed \cup {post[p].marked}
          /\ post[p].marked \in Events
      BY <2>7 DEF Dispatch
    <3>2. /\ \A q \in Senders \ {p} : post'[q] = post[q]
          /\ post'[p].sent = post[p].sent /\ post'[p].events = post[p].events
          /\ post'[p].marked = NoEvent /\ post'[p].done = post[p].marked
      BY <2>7, DispatchEffect
    <3> QED BY <2>a, <2>b, <3>1, <3>2, EventsTyped
  <2>8. CASE Reject(p)
    BY <2>8, <2>a, <2>b, RejectEffect DEF Reject
  <2>9. CASE AddAck(p)
    BY <2>9, <2>a, <2>b, AddAckEffect DEF AddAck
  <2> QED BY <1>3, <2>1, <2>2, <2>3, <2>4, <2>5, <2>6, <2>7, <2>8, <2>9 DEF SenderStep, EventStep
<1>4. ASSUME NEW l \in PullLoops, PullEnds(l) PROVE Offered'
  BY <1>4, <1>a DEF PullEnds, TypeOK, eventVars, handlerVars, panelVars
<1>5. ASSUME NEW x \in Events, Forget(x) PROVE Offered'
  <2>1. \A e \in Events : IsSeen(e)' => e \in queued
    BY <1>5, ForgetSeen
  <2> QED BY <1>5, <2>1 DEF Forget, handlerVars, panelVars
<1>6. ASSUME NEW x \in Events, Queue(x) PROVE Offered'
  BY <1>6, <1>a DEF Queue, eventVars, handlerVars
<1>7. ASSUME Crash PROVE Offered'
  <2>1. /\ acks' = {} /\ seen' = <<>> /\ post' = [p \in Senders |-> Off]
        /\ UNCHANGED <<executed, acked, queued>>
    BY <1>7 DEF Crash, handlerVars, panelVars
  <2>2. \A e \in Events : ~IsSeen(e)'
    BY <2>1 DEF IsSeen
  <2>3. Off.sent = {} /\ Off.events = {} /\ Off.marked = NoEvent /\ Off.done = NoEvent
    BY DEF Off, Silent
  <2> QED BY <2>1, <2>2, <2>3
<1>8. ASSUME UNCHANGED vars PROVE Offered'
  BY <1>8, <1>a DEF vars, eventVars, handlerVars, panelVars
<1> QED BY <1>1, <1>2, <1>3, <1>4, <1>5, <1>6, <1>7, <1>8 DEF Next

\* The events that are taken up.
Taken == {post[p].marked : p \in Senders} \ {NoEvent}

\* What the abstract specification does not see.
LEMMA DeliveryStutters ==
  ASSUME UNCHANGED <<handlerVars, panelVars, evicted, crashed>>,
         \A q \in Senders : post'[q].marked = post[q].marked
  PROVE  UNCHANGED Delivery!vars
<1>1. Taken' = Taken
  BY DEF Taken
<1> QED BY <1>1 DEF Delivery!vars, Taken, handlerVars, panelVars

\* A sender that gives up its mark releases the event, unless another one holds it too;
\* then the event was lost.
LEMMA MarkReleased ==
  ASSUME TypeOK, Once, NEW p \in Senders, NEW e \in Events,
         post[p].marked = e, post'[p].marked = NoEvent,
         \A q \in Senders \ {p} : post'[q].marked = post[q].marked
  PROVE  /\ e \in Taken
         /\ Taken' = Taken \ {e} \/ (e \in evicted \cup crashed /\ Taken' = Taken)
<1>1. e \in Taken
  BY EventsTyped DEF Taken
<1>2. CASE \E q \in Senders \ {p} : post[q].marked = e
  <2>1. e \in evicted \cup crashed
    BY <1>2 DEF Once, Remembered
  <2>2. Taken' = Taken
    BY <1>2 DEF Taken
  <2> QED BY <1>1, <2>1, <2>2
<1>3. CASE ~\E q \in Senders \ {p} : post[q].marked = e
  <2>1. Taken' = Taken \ {e}
    BY <1>3 DEF Taken
  <2> QED BY <1>1, <2>1
<1> QED BY <1>2, <1>3

\* Marking an event takes it up: the seen-map has no mark of it, so it is not executed
\* and no sender has marked it, unless it was lost.
LEMMA MarkTakesUp ==
  ASSUME TypeOK, Offered, Once, NEW p \in Senders, NEW x \in Events, MarkEvent(p, x)
  PROVE  Delivery!TakeUp(x)
<1>1. /\ ~IsSeen(x) /\ Remember(x) /\ UNCHANGED <<handlerVars, panelVars, crashed>>
      /\ x \in post[p].events /\ post[p].marked = NoEvent /\ post[p].pc = "events"
  BY DEF MarkEvent, Takes
<1>2. x \in queued
  BY <1>1 DEF Offered
<1>3. x \in executed \cup Taken => x \in evicted \cup crashed
  <2>1. ~Settled(x)
    BY <1>1 DEF Settled
  <2> QED BY <1>1, <2>1 DEF Once, Remembered, Taken
<1>4. Taken' = Taken \cup {x}
  <2>1. post'[p].marked = x /\ \A q \in Senders \ {p} : post'[q].marked = post[q].marked
    BY MarkEventEffect DEF Becomes
  <2> QED BY <1>1, <2>1, EventsTyped DEF Taken
<1>5. PICK out \in {{}} \cup {{o} : o \in queued} :
        (evicted \cup crashed)' = (evicted \cup crashed) \cup out
  <2>1. CASE Len(seen) >= SeenLimit
    <3>1. seen # <<>> /\ seen \in Seq(Events)
      BY <2>1, Limits DEF TypeOK
    <3>2. Head(seen) = seen[1] /\ 1 \in DOMAIN seen /\ Head(seen) \in Events
      BY <3>1
    <3>3. Head(seen) \in queued
      BY <3>2 DEF Offered, IsSeen
    <3>4. evicted' = evicted \cup {Head(seen)}
      BY <1>1, <2>1 DEF Remember
    <3> QED BY <1>1, <3>3, <3>4
  <2>2. CASE ~(Len(seen) >= SeenLimit)
    BY <1>1, <2>2 DEF Remember
  <2> QED BY <2>1, <2>2
<1> QED BY <1>1, <1>2, <1>3, <1>4, <1>5 DEF Delivery!TakeUp, Taken, handlerVars, panelVars

\* Every step of a sender, and of the panel that answers it, is one of EventDelivery.
LEMMA SenderDelivers ==
  ASSUME TypeOK, Orderly, Backed, Offered, Once,
         NEW p \in Senders, SenderStep(p) \/ PanelAnswers(p)
  PROVE  [Delivery!Next]_(Delivery!vars)
<1>a. ASSUME UNCHANGED <<handlerVars, panelVars, evicted, crashed>>,
             \A q \in Senders : post'[q].marked = post[q].marked
      PROVE  [Delivery!Next]_(Delivery!vars)
  BY <1>a, DeliveryStutters
<1> USE DEF eventVars
<1>1. CASE RequestFails(p) \/ AnswerDone(p)
  <2>1. post[p].marked = NoEvent
    BY <1>1 DEF RequestFails, AnswerDone, Orderly
  <2> QED BY <1>1, <1>a, <2>1, SilentEffect DEF RequestFails, AnswerDone, Becomes
<1>2. CASE SendRequest(p)
  BY <1>2, <1>a, SendRequestEffect DEF SendRequest, Becomes
<1>3. CASE PanelAnswers(p)
  <2>1. /\ acked' = acked \cup post[p].sent
        /\ UNCHANGED <<handlerVars, queued, evicted, crashed>>
    BY <1>3 DEF PanelAnswers
  <2>2. Taken' = Taken
    BY <1>3, PanelAnswersEffect DEF Becomes, Taken
  <2>3. post[p].sent \subseteq executed \cup Taken \cup Malformed
    BY EventsTyped DEF TypeOK, Backed, Started, Taken
  <2>4. Delivery!Acknowledge(post[p].sent)
    BY <2>1, <2>2, <2>3 DEF Delivery!Acknowledge, Taken, handlerVars
  <2>5. post[p].sent \in SUBSET queued
    BY DEF Offered
  <2> QED BY <2>4, <2>5 DEF Delivery!Next
<1>4. CASE AnswerArrives(p)
  BY <1>4, <1>a, AnswerArrivesEffect DEF AnswerArrives, Becomes
<1>5. ASSUME NEW x \in Events, SkipEvent(p, x) PROVE [Delivery!Next]_(Delivery!vars)
  BY <1>5, <1>a, SkipEventEffect DEF SkipEvent, Becomes
<1>6. ASSUME NEW x \in Events, MarkEvent(p, x) PROVE [Delivery!Next]_(Delivery!vars)
  BY <1>6, MarkTakesUp DEF Delivery!Next
<1>7. CASE Dispatch(p)
  <2>0. PICK e \in Events \ Malformed : e = post[p].marked
    BY <1>7 DEF Dispatch
  <2>1. /\ UNCHANGED <<panelVars, evicted, crashed>>
        /\ executed' = executed \cup {e} /\ repeated' = repeated \cup ({e} \cap executed)
    BY <1>7, <2>0 DEF Dispatch
  <2>2. post'[p].marked = NoEvent /\ \A q \in Senders \ {p} : post'[q].marked = post[q].marked
    BY <1>7, DispatchEffect DEF Becomes
  <2>3. /\ e \in Taken
        /\ Taken' = Taken \ {e} \/ (e \in evicted \cup crashed /\ Taken' = Taken)
    BY <2>0, <2>1, <2>2, MarkReleased
  <2>4. Delivery!Execute(e)
    BY <2>0, <2>1, <2>3 DEF Delivery!Execute, Delivery!Release, Taken, panelVars
  <2> QED BY <2>1, <2>4 DEF Delivery!Next
<1>8. CASE Reject(p)
  <2>0. PICK e \in Malformed : e = post[p].marked
    BY <1>8 DEF Reject
  <2>1. e \in Events /\ UNCHANGED <<handlerVars, panelVars, evicted, crashed>>
    BY <1>8, EventsTyped DEF Reject
  <2>2. post'[p].marked = NoEvent /\ \A q \in Senders \ {p} : post'[q].marked = post[q].marked
    BY <1>8, RejectEffect DEF Becomes
  <2>3. /\ e \in Taken
        /\ Taken' = Taken \ {e} \/ (e \in evicted \cup crashed /\ Taken' = Taken)
    BY <2>0, <2>1, <2>2, MarkReleased
  <2>4. Delivery!Drop(e)
    BY <2>0, <2>1, <2>3 DEF Delivery!Drop, Delivery!Release, Taken, handlerVars, panelVars
  <2> QED BY <2>1, <2>4 DEF Delivery!Next
<1>9. CASE AddAck(p)
  BY <1>9, <1>a, AddAckEffect DEF AddAck, Becomes
<1> QED BY <1>1, <1>2, <1>3, <1>4, <1>5, <1>6, <1>7, <1>8, <1>9 DEF SenderStep, EventStep

\* A crash loses what was taken up and what is in memory.
LEMMA CrashLoses ==
  ASSUME TypeOK, Offered, Crash
  PROVE  \E L \in SUBSET queued : Delivery!Lose(L)
<1>1. {e \in Events : Unfinished(e)} \in SUBSET queued
  BY EventsTyped DEF Offered, Unfinished
<1>2. PICK L \in SUBSET queued : L = {e \in Events : Unfinished(e)}
  BY <1>1
<1>3. /\ post' = [p \in Senders |-> Off] /\ crashed' = crashed \cup L
      /\ UNCHANGED <<handlerVars, panelVars, evicted>>
  BY <1>2 DEF Crash
<1>4. Taken' = {}
  <2>1. Off.marked = NoEvent
    BY DEF Off, Silent
  <2> QED BY <1>3, <2>1 DEF Taken
<1>5. Taken \subseteq L
  BY <1>2 DEF TypeOK, Taken, Unfinished
<1>6. (evicted \cup crashed)' = (evicted \cup crashed) \cup L
  BY <1>3
<1>7. Delivery!Lose(L)
  BY <1>3, <1>4, <1>5, <1>6 DEF Delivery!Lose, Taken, handlerVars, panelVars
<1> QED BY <1>7

\* Every step of the channel is one of EventDelivery, or shows nothing.
LEMMA DeliveryStep ==
  ASSUME TypeOK, Orderly, Backed, Offered, Once, [Next]_vars
  PROVE  [Delivery!Next]_(Delivery!vars)
<1>a. ASSUME UNCHANGED <<handlerVars, panelVars, evicted, crashed>>,
             \A q \in Senders : post'[q].marked = post[q].marked
      PROVE  [Delivery!Next]_(Delivery!vars)
  BY <1>a, DeliveryStutters
<1> USE DEF eventVars
<1>1. ASSUME MainStep PROVE [Delivery!Next]_(Delivery!vars)
  BY <1>1, <1>a, MainLeavesMarks
<1>2. ASSUME NEW c \in Conns, ConnectionLost(c) \/ ReadFails(c) PROVE [Delivery!Next]_(Delivery!vars)
  BY <1>2, <1>a DEF ConnectionLost, ReadFails
<1>3. ASSUME NEW p \in Senders, SenderStep(p) \/ PanelAnswers(p) PROVE [Delivery!Next]_(Delivery!vars)
  BY <1>3, SenderDelivers
<1>4. ASSUME NEW l \in PullLoops, PullEnds(l) PROVE [Delivery!Next]_(Delivery!vars)
  <2>1. post[l].marked = NoEvent /\ Off.marked = NoEvent
    BY <1>4 DEF PullEnds, Orderly, Senders, Off, Silent
  <2>2. \A q \in Senders : post'[q].marked = post[q].marked
    BY <1>4, <2>1 DEF PullEnds, TypeOK
  <2> QED BY <1>4, <1>a, <2>2 DEF PullEnds
<1>5. ASSUME NEW x \in Events, Forget(x) PROVE [Delivery!Next]_(Delivery!vars)
  BY <1>5, <1>a DEF Forget
<1>6. ASSUME NEW x \in Events, Queue(x) PROVE [Delivery!Next]_(Delivery!vars)
  <2>1. Taken' = Taken
    BY <1>6 DEF Queue, Taken
  <2>2. Delivery!Offer(x)
    BY <1>6, <2>1 DEF Queue, Delivery!Offer, Taken, handlerVars
  <2> QED BY <2>2 DEF Delivery!Next
<1>7. ASSUME Crash PROVE [Delivery!Next]_(Delivery!vars)
  BY <1>7, CrashLoses DEF Delivery!Next
<1>8. ASSUME UNCHANGED vars PROVE [Delivery!Next]_(Delivery!vars)
  BY <1>8, <1>a DEF vars
<1> QED BY <1>1, <1>2, <1>3, <1>4, <1>5, <1>6, <1>7, <1>8 DEF Next

\* The channel implements EventDelivery: events are taken up, executed and acknowledged
\* as it says, for any number of events, senders and connections, any room in the
\* seen-map and any sequence of lost requests, expired marks and crashes.
THEOREM DeliveryCorrect == Spec => DeliverySpec
<1>1. Init => Orderly /\ AckNotLost /\ Once /\ Backed /\ Offered
  BY EventsTyped DEF Init, Orderly, AckNotLost, Once, ExecutedOnce, Backed, Offered, IsSeen,
                     Off, Silent, Senders
<1>2. Init => Delivery!Init
  <2> SUFFICES ASSUME Init PROVE Delivery!Init
    OBVIOUS
  <2>1. Taken = {}
    BY DEF Init, Taken, Off, Silent
  <2> QED BY <2>1 DEF Init, Delivery!Init, Taken
<1>3. TypeOK /\ Orderly /\ Backed /\ [Next]_vars => Backed'
  BY BackedStep, BackedCrash
<1>4. TypeOK /\ Orderly /\ Backed /\ Offered /\ Once /\ [Next]_vars => [Delivery!Next]_(Delivery!vars)
  BY DeliveryStep
<1> QED
  BY <1>1, <1>2, <1>3, <1>4, TypeCorrect, OrderlyStep, AckStep, OnceStep, OfferedStep, PTL
  DEF Spec, DeliverySpec, Delivery!Spec

\* What EventDelivery comes to, wherever it is implemented.
LEMMA PromiseKept == DeliverySpec => []Delivery!Promise
<1>1. Delivery!Init => Delivery!Promise
  BY DEF Delivery!Init, Delivery!Promise
<1>2. Delivery!Promise /\ [Delivery!Next]_(Delivery!vars) => Delivery!Promise'
  BY DEF Delivery!Promise, Delivery!Next, Delivery!vars, Delivery!Offer, Delivery!TakeUp,
         Delivery!Release, Delivery!Execute, Delivery!Drop, Delivery!Acknowledge, Delivery!Lose
<1> QED BY <1>1, <1>2, PTL DEF DeliverySpec, Delivery!Spec

\* Only the panel's events are executed and acknowledged, no event is executed twice
\* that was not lost, and none is acknowledged that is neither executed nor on its way.
THEOREM PromiseCorrect == Spec => []Delivery!Promise
BY DeliveryCorrect, PromiseKept, PTL

(***************************************************************************)
(* Pull loops.                                                             *)
(***************************************************************************)

\* The pull loops that go on asking.
Live == {l \in PullLoops : post[l].pc # "off" /\ l \notin canceled}

\* There is one while the fallback lasts, and none at any other time.
OnePull == IF main = "fallback" THEN \E l \in PullLoops : Live = {l} ELSE Live = {}

\* A fallback begins with one pull loop and its end cancels it.
LEMMA PullStep == TypeOK /\ OnePull /\ [Next]_vars => OnePull'
<1> SUFFICES ASSUME TypeOK, OnePull, [Next]_vars PROVE OnePull'
  OBVIOUS
<1> USE DEF OnePull
<1>a. ASSUME main' = main, \A l \in PullLoops : l \in Live' <=> l \in Live PROVE OnePull'
  <2>1. Live' = Live
    BY <1>a DEF Live
  <2> QED BY <1>a, <2>1
<1>b. Off.pc = "off" /\ Silent.pc = "idle"
  BY DEF Off, Silent
<1>1. ASSUME MainStep PROVE OnePull'
  <2>1. CASE WriteFails \/ ReadDone
    BY <1>a, <2>1 DEF WriteFails, ReadDone, Live
  <2>2. CASE StartDial
    <3>1. main # "fallback" /\ main' # "fallback" /\ Live' = Live
      BY <2>2 DEF StartDial, Live
    <3> QED BY <3>1
  <2>3. CASE DialFails /\ retry < MaxRetries
    BY <1>a, <2>3 DEF DialFails, Live
  <2>4. CASE DialFails /\ ~(retry < MaxRetries)
    <3>1. /\ main = "dial" /\ main' = "fallback" /\ Live = {}
          /\ \E l \in PullLoops : /\ post' = [post EXCEPT ![l] = Silent, ![Report] = Silent]
                                  /\ canceled' = canceled \ {l}
      BY <2>4 DEF DialFails
    <3>2. PICK l \in PullLoops : /\ post' = [post EXCEPT ![l] = Silent, ![Report] = Silent]
                                 /\ canceled' = canceled \ {l}
      BY <3>1
    <3>3. \A k \in PullLoops : post'[k] = IF k = l THEN Silent ELSE post[k]
      BY <3>2, Identities DEF Senders, TypeOK
    <3>4. \A k \in PullLoops : k \in Live' <=> k = l
      BY <1>b, <3>1, <3>2, <3>3 DEF Live
    <3>5. Live' = {l}
      BY <3>4 DEF Live
    <3> QED BY <3>1, <3>5
  <2>5. ASSUME NEW c \in Conns, DialSucceeds(c) PROVE OnePull'
    <3>1. main # "fallback" /\ main' # "fallback" /\ Live' = Live
      BY <2>5 DEF DialSucceeds, Connect, Live
    <3> QED BY <3>1
  <2>6. ASSUME NEW c \in Conns, Recover(c) PROVE OnePull'
    <3>1. /\ main' # "fallback" /\ post' = [post EXCEPT ![Report] = Off]
          /\ canceled' = canceled \cup {l \in PullLoops : post[l].pc # "off"}
      BY <2>6 DEF Recover, Connect
    <3>2. \A l \in PullLoops : post'[l] = post[l]
      BY <3>1, Identities DEF Senders, TypeOK
    <3>3. Live' = {}
      BY <3>1, <3>2 DEF Live
    <3> QED BY <3>1, <3>3
  <2> QED BY <1>1, <2>1, <2>2, <2>3, <2>4, <2>5, <2>6 DEF MainStep
<1>2. ASSUME NEW c \in Conns, ConnectionLost(c) \/ ReadFails(c) PROVE OnePull'
  BY <1>a, <1>2 DEF ConnectionLost, ReadFails, Live
<1>3. ASSUME NEW p \in Senders, SenderStep(p) \/ PanelAnswers(p) PROVE OnePull'
  <2>a. ASSUME UNCHANGED <<connVars, canceled>>, \A q \in Senders \ {p} : post'[q] = post[q],
               post[p].pc # "off", post'[p].pc # "off"
        PROVE  OnePull'
    BY <1>a, <2>a DEF connVars, Live, Senders
  <2> USE DEF Becomes
  <2>1. CASE RequestFails(p) \/ AnswerDone(p)
    BY <2>1, <2>a, SilentEffect DEF RequestFails, AnswerDone
  <2>2. CASE SendRequest(p)
    BY <2>2, <2>a, SendRequestEffect DEF SendRequest
  <2>3. CASE PanelAnswers(p)
    BY <2>3, <2>a, PanelAnswersEffect DEF PanelAnswers
  <2>4. CASE AnswerArrives(p)
    BY <2>4, <2>a, AnswerArrivesEffect DEF AnswerArrives
  <2>5. ASSUME NEW x \in Events, SkipEvent(p, x) PROVE OnePull'
    BY <2>5, <2>a, SkipEventEffect DEF SkipEvent, Takes
  <2>6. ASSUME NEW x \in Events, MarkEvent(p, x) PROVE OnePull'
    BY <2>6, <2>a, MarkEventEffect DEF MarkEvent, Takes
  <2>7. CASE Dispatch(p) \/ Reject(p) \/ AddAck(p)
    <3>1. post'[p].pc = post[p].pc /\ \A q \in Senders \ {p} : post'[q] = post[q]
      BY <2>7, DispatchEffect, RejectEffect, AddAckEffect
    <3>2. \A l \in PullLoops : l \in Live' <=> l \in Live
      BY <2>7, <3>1 DEF Dispatch, Reject, AddAck, Live, Senders
    <3> QED BY <1>a, <2>7, <3>2 DEF Dispatch, Reject, AddAck, connVars
  <2> QED BY <1>3, <2>1, <2>2, <2>3, <2>4, <2>5, <2>6, <2>7 DEF SenderStep, EventStep
<1>4. ASSUME NEW l \in PullLoops, PullEnds(l) PROVE OnePull'
  BY <1>a, <1>4 DEF PullEnds, connVars, Live, TypeOK, Senders
<1>5. ASSUME NEW x \in Events, Forget(x) \/ Queue(x) PROVE OnePull'
  BY <1>a, <1>5 DEF Forget, Queue, connVars, Live
<1>6. ASSUME Crash PROVE OnePull'
  <2>1. main' # "fallback" /\ Live' = {}
    BY <1>6, <1>b DEF Crash, Live, Senders
  <2> QED BY <2>1
<1>7. ASSUME UNCHANGED vars PROVE OnePull'
  BY <1>a, <1>7 DEF vars, connVars, Live
<1> QED BY <1>1, <1>2, <1>3, <1>4, <1>5, <1>6, <1>7 DEF Next

\* Only the pull loop of the present fallback goes on asking.
THEOREM PullsCorrect == Spec => []StalePullsCanceled
<1>1. Init => OnePull
  BY DEF Init, OnePull, Live, Off, Silent, Senders
<1>2. OnePull => StalePullsCanceled
  <2> SUFFICES ASSUME OnePull PROVE StalePullsCanceled
    OBVIOUS
  <2>1. CASE main = "fallback"
    BY <2>1, FS_Singleton DEF OnePull, Live, StalePullsCanceled
  <2>2. CASE main # "fallback"
    BY <2>2, FS_EmptySet DEF OnePull, Live, StalePullsCanceled
  <2> QED BY <2>1, <2>2
<1> QED BY <1>1, <1>2, PullStep, TypeCorrect, PTL DEF Spec
=============================================================================
