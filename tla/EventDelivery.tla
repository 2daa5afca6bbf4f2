--------------------------- MODULE EventDelivery ---------------------------
(***************************************************************************)
(* What the event channel promises, without connections, requests or lists *)
(* of ids: the panel's events are taken up, executed and acknowledged.     *)
(* None is taken up again after its execution unless the agent lost it,    *)
(* and the panel is told only of events the agent has at least taken up.   *)
(***************************************************************************)
CONSTANTS
  Events,
  Malformed    \* those that cannot be executed

VARIABLES
  queued,      \* the events the panel has for the agent
  taken,       \* those that are taken up and not yet begun
  executed,
  repeated,    \* those that were executed more than once
  acked,       \* those the panel was told are done
  lost         \* those the agent lost track of

vars == <<queued, taken, executed, repeated, acked, lost>>

Init ==
  /\ queued = {} /\ taken = {} /\ executed = {}
  /\ repeated = {} /\ acked = {} /\ lost = {}

\* The panel has something for the agent.
Offer(e) ==
  /\ e \notin queued
  /\ queued' = queued \cup {e}
  /\ UNCHANGED <<taken, executed, repeated, acked, lost>>

\* markV2EventSeen: at most one event is given up for it.
TakeUp(e) ==
  /\ e \in queued
  /\ e \in executed \cup taken => e \in lost
  /\ taken' = taken \cup {e}
  /\ \E out \in {{}} \cup {{o} : o \in queued} : lost' = lost \cup out
  /\ UNCHANGED <<queued, executed, repeated, acked>>

\* One that was lost may have been taken up twice.
Release(e) == taken' = taken \ {e} \/ (e \in lost /\ UNCHANGED taken)

\* processV2Event starts the handler of e ...
Execute(e) ==
  /\ e \in taken \ Malformed
  /\ executed' = executed \cup {e}
  /\ repeated' = repeated \cup ({e} \cap executed)
  /\ Release(e)
  /\ UNCHANGED <<queued, acked, lost>>

\* ... or cannot.
Drop(e) ==
  /\ e \in taken \cap Malformed
  /\ Release(e)
  /\ UNCHANGED <<queued, executed, repeated, acked, lost>>

\* The panel is told that the events of E are done.
Acknowledge(E) ==
  /\ E \subseteq executed \cup taken \cup Malformed
  /\ acked' = acked \cup E
  /\ UNCHANGED <<queued, taken, executed, repeated, lost>>

\* The agent ends: it loses what it had taken up, and its memory of other events.
Lose(L) ==
  /\ taken \subseteq L
  /\ taken' = {}
  /\ lost' = lost \cup L
  /\ UNCHANGED <<queued, executed, repeated, acked>>

Next ==
  \/ \E e \in Events : Offer(e) \/ TakeUp(e) \/ Execute(e) \/ Drop(e)
  \/ \E E \in SUBSET queued : Acknowledge(E) \/ Lose(E)

Spec == Init /\ [][Next]_vars

\* What it comes to: only the panel's events are executed and acknowledged, none is
\* executed twice that was not lost, and none is acknowledged that is neither
\* executed nor on its way, unless it cannot be executed or was lost.
Promise ==
  /\ taken \cup executed \cup acked \subseteq queued
  /\ repeated \cup (taken \cap executed) \subseteq lost
  /\ acked \subseteq executed \cup taken \cup Malformed \cup lost
=============================================================================
