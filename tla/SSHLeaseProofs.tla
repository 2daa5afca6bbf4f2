--------------------------- MODULE SSHLeaseProofs ---------------------------
(***************************************************************************)
(* Proofs about SSHLease, for any number of tickets, users and handlers:   *)
(* the types, and for a serial panel that keeps every ticket to one file   *)
(* (Serial, OwnFiles: what the run ssh_lease assumes) that every lease is  *)
(* guarded, that a revoked one is gone and that none is taken too early.   *)
(*                                                                         *)
(* None of the three is inductive.  A timer that fires must have been set  *)
(* for the lease that is there (OnTime), which takes that no lease is      *)
(* granted while one can fire (Undisturbed) and that a restart finds one   *)
(* lease per ticket (Single) before anything else sets a timer             *)
(* (ScannedFirst); a revocation takes the timer at its first file, so the  *)
(* lease has to be before it on its walk (Ahead).                          *)
(***************************************************************************)
EXTENDS SSHLease, TLAPS

(***************************************************************************)
(* The inductive invariant.                                                *)
(***************************************************************************)

\* What is in a file, in a timer or asked of a goroutine is where its ticket
\* belongs.
AtHome ==
  /\ \A f \in Users : \A l \in leases[f] : Home(l.ticket, f)
  /\ \A t \in Tickets : timers[t] # NoTimer => Home(t, FileOf(timers[t].user))
  /\ \A h \in Handlers : op[Handler(h)].kind = "authorize" =>
       Home(op[Handler(h)].ticket, FileOf(op[Handler(h)].user))
  /\ \A t \in Tickets : Busy(Callback(t)) => Home(t, FileOf(op[Callback(t)].user))

\* Handlers work for the last request of their ticket, which no other one has,
\* and not before the start is through.
Asked ==
  /\ \A h \in Handlers : Busy(Handler(h)) =>
       /\ sent[op[Handler(h)].ticket] = op[Handler(h)].kind
       /\ boot = {}
  /\ \A h \in Handlers : op[Handler(h)].kind = "revoke" => op[Handler(h)].user = NoUser
  /\ \A h, g \in Handlers :
       Busy(Handler(h)) /\ Busy(Handler(g)) /\ op[Handler(h)].ticket = op[Handler(g)].ticket => h = g

\* A callback revokes its own ticket, and a fired timer has one.
Called ==
  \A t \in Tickets :
    /\ Busy(Callback(t)) => op[Callback(t)].kind = "revoke" /\ op[Callback(t)].ticket = t
    /\ timers[t] # NoTimer /\ timers[t].fired => Busy(Callback(t))

\* A lease is granted while no timer of its ticket can go off.
Undisturbed ==
  \A h \in Handlers : \A t \in Tickets :
    op[Handler(h)].kind = "authorize" /\ op[Handler(h)].ticket = t =>
      /\ ~Busy(Callback(t))
      /\ timers[t] # NoTimer => timers[t].exp > now

\* A ticket with a timer or a callback has had its file scanned.
ScannedFirst ==
  \A t \in Tickets : \A f \in Users :
    (timers[t] # NoTimer \/ Busy(Callback(t))) /\ Home(t, f) => f \notin boot

\* The leases of ticket t that no failed read or write is to blame for.
Sound(t, f) == {l \in leases[f] : l.ticket = t /\ t \notin failed}

Single == \A t \in Tickets : \A f \in Users : \A l, m \in Sound(t, f) : l = m

\* The timer of a ticket ends its lease at its time; a callback under way has
\* not come too early.
OnTime ==
  \A t \in Tickets : \A f \in Users : \A l \in Sound(t, f) :
    /\ timers[t] # NoTimer => l.exp = timers[t].exp
    /\ Busy(Callback(t)) => l.exp <= now

\* Whoever revokes a ticket has not passed a lease of it.
Ahead ==
  \A a \in Actors : \A t \in Tickets : op[a].kind = "revoke" /\ op[a].ticket = t =>
    \A f \in Users : Sound(t, f) # {} =>
      \E i \in op[a].at .. Len(Walk(op[a].user)) : Walk(op[a].user)[i] = f

\* Every lease has something that ends it.
Watched ==
  \A t \in Tickets : \A f \in Users : Sound(t, f) # {} =>
    \/ f \in boot
    \/ timers[t] # NoTimer
    \/ \E a \in Actors : op[a].kind = "revoke" /\ op[a].ticket = t

\* A revoked ticket is being revoked or gone.
Gone ==
  \A t \in Tickets : \A f \in Users : sent[t] = "revoke" /\ Sound(t, f) # {} =>
    \E h \in Handlers : op[Handler(h)].kind = "revoke" /\ op[Handler(h)].ticket = t

LeaseInv ==
  /\ AtHome
  /\ Asked
  /\ Called
  /\ Undisturbed
  /\ ScannedFirst
  /\ Single
  /\ OnTime
  /\ Ahead
  /\ Watched
  /\ Gone

(***************************************************************************)
(* Types.                                                                  *)
(***************************************************************************)

\* Handlers and callbacks are different actors, and there are no others.
LEMMA ActorNames ==
  /\ \A h \in Handlers : Handler(h) \in Actors /\ Handler(h)[1] = "handler"
  /\ \A t \in Tickets : Callback(t) \in Actors /\ Callback(t)[1] = "timer"
  /\ \A h, g \in Handlers : Handler(h) = Handler(g) => h = g
  /\ \A t, u \in Tickets : Callback(t) = Callback(u) => t = u
  /\ \A h \in Handlers, t \in Tickets : Handler(h) # Callback(t)
  /\ \A a \in Actors : \/ \E h \in Handlers : a = Handler(h)
                       \/ \E t \in Tickets : a = Callback(t)
BY DEF Handler, Callback, Actors

\* A walk is a sequence of files, the one the ticket was granted in among them.
LEMMA Walks ==
  ASSUME NEW u \in Users \cup {NoUser}
  PROVE  /\ FileOf(u) \in Users
         /\ Walk(u) \in Seq(Users)
         /\ Len(Walk(u)) \in Nat
         /\ 1 \in DOMAIN Walk(u)
         /\ DOMAIN Walk(u) = 1 .. Len(Walk(u))
         /\ \A i \in DOMAIN Walk(u) : Walk(u)[i] \in Users
         /\ \E i \in DOMAIN Walk(u) : Walk(u)[i] = FileOf(u)
<1>1. CASE u = NoUser
  BY <1>1, DefaultTyped, ScanOrderTyped DEF FileOf, Walk
<1>2. CASE u # NoUser
  BY <1>2, DefaultTyped DEF FileOf, Walk
<1>3. QED
  BY <1>1, <1>2

\* What is left of a file's leases are leases of it.
LEMMA WithoutSubset ==
  ASSUME NEW L, NEW t
  PROVE  Without(L, t) \subseteq L
BY DEF Without

\* The next step of a revocation: a file further, or the end.
LEMMA Advances ==
  ASSUME TypeOK, NEW a \in Actors, op[a].kind = "revoke", op' = Advance(a)
  PROVE  /\ op' \in [Actors -> Ops]
         /\ \A b \in Actors : b # a => op'[b] = op[b]
         /\ \/ /\ op[a].at < Len(Walk(op[a].user))
               /\ op'[a].kind = "revoke"
               /\ op'[a].ticket = op[a].ticket
               /\ op'[a].user = op[a].user
               /\ op'[a].exp = op[a].exp
               /\ op'[a].at = op[a].at + 1
            \/ /\ op[a].at = Len(Walk(op[a].user))
               /\ op'[a].kind \in {"idle", "done"}
<1>1. op \in [Actors -> Ops] /\ op[a] \in Ops /\ op[a].user \in Users \cup {NoUser} /\ op[a].at \in Nat
  BY DEF TypeOK, Ops
<1>2. op[a].at \in 1 .. Len(Walk(op[a].user)) /\ Len(Walk(op[a].user)) \in Nat
  BY <1>1, Walks DEF TypeOK
<1>3. CASE op[a].at < Len(Walk(op[a].user))
  <2>1. op' = [op EXCEPT ![a].at = @ + 1]
    BY <1>3 DEF Advance
  <2>2. QED
    BY <1>1, <1>3, <2>1 DEF Ops
<1>4. CASE ~(op[a].at < Len(Walk(op[a].user))) /\ a[1] = "timer"
  <2>1. op' = [op EXCEPT ![a] = Idle]
    BY <1>4 DEF Advance
  <2>2. QED
    BY <1>1, <1>2, <1>4, <2>1 DEF Ops, Idle
<1>5. CASE ~(op[a].at < Len(Walk(op[a].user))) /\ a[1] # "timer"
  <2>1. op' = [op EXCEPT ![a].kind = "done"]
    BY <1>5 DEF Advance, Finish
  <2>2. QED
    BY <1>1, <1>2, <1>5, <2>1 DEF Ops
<1>6. QED
  BY <1>3, <1>4, <1>5

\* The end of an authorize request.
LEMMA Finishes ==
  ASSUME TypeOK, NEW a \in Actors, op' = Finish(a)
  PROVE  /\ op' \in [Actors -> Ops]
         /\ \A b \in Actors : b # a => op'[b] = op[b]
         /\ op'[a].kind = "done"
BY DEF TypeOK, Finish, Ops

LEMMA InitTyped == Init => TypeOK
<1> SUFFICES ASSUME Init PROVE TypeOK
  OBVIOUS
<1>1. op \in [Actors -> Ops] /\ \A a \in Actors : op[a].kind = "idle"
  BY DEF Init, Idle, Ops
<1>2. QED
  BY <1>1, BoundsTyped DEF Init, TypeOK, Busy

LEMMA SendTyped ==
  ASSUME TypeOK, NEW h \in Handlers, NEW t \in Tickets,
         (\E u \in Users \cup {NoUser}, e \in Expiries : SendAuthorize(h, t, u, e)) \/ SendRevoke(h, t)
  PROVE  TypeOK'
<1>1. Handler(h) \in Actors
  BY ActorNames
<1>2. CASE \E u \in Users \cup {NoUser}, e \in Expiries : SendAuthorize(h, t, u, e)
  <2>1. PICK u \in Users \cup {NoUser}, e \in Expiries : SendAuthorize(h, t, u, e)
    BY <1>2
  <2>2. op' \in [Actors -> Ops] /\ sent' \in [Tickets -> {"none", "authorize", "revoke", "lost"}]
    BY <1>1, <2>1 DEF TypeOK, SendAuthorize, Ops
  <2>3. \A a \in Actors : \/ op'[a] = op[a]
                          \/ op'[a].kind = "authorize" /\ op'[a].ticket = t /\ op'[a].exp = e
    BY <1>1, <2>1 DEF TypeOK, SendAuthorize
  <2>4. QED
    BY <2>1, <2>2, <2>3 DEF TypeOK, SendAuthorize, Busy
<1>3. CASE SendRevoke(h, t)
  <2>1. op' \in [Actors -> Ops] /\ sent' \in [Tickets -> {"none", "authorize", "revoke", "lost"}]
    BY <1>1, <1>3 DEF TypeOK, SendRevoke, Ops
  <2>2. \A a \in Actors :
          \/ op'[a] = op[a]
          \/ op'[a].kind = "revoke" /\ op'[a].ticket = t /\ op'[a].user = NoUser /\ op'[a].at = 1
    BY <1>1, <1>3 DEF TypeOK, SendRevoke
  <2>3. \A a \in Actors :
          /\ Busy(a)' => op'[a].ticket \in Tickets
          /\ op'[a].kind = "authorize" => op'[a].exp \in Expiries
          /\ op'[a].kind = "revoke" => op'[a].at \in DOMAIN Walk(op'[a].user)
    BY <2>2, Walks DEF TypeOK, Busy
  <2>4. QED
    BY <1>3, <2>1, <2>3 DEF TypeOK, SendRevoke
<1>4. QED
  BY <1>2, <1>3


LEMMA AuthorizeTyped ==
  ASSUME TypeOK, NEW a \in Actors, Authorize(a) \/ AuthorizeBeside(a) \/ AuthorizeClobbers(a) \/ AuthorizeFails(a)
  PROVE  TypeOK'
<1> DEFINE f == FileOf(op[a].user)
<1>1. /\ op[a].kind = "authorize" /\ op' = Finish(a)
      /\ op[a] \in Ops /\ op[a].user \in Users \cup {NoUser}
      /\ op[a].ticket \in Tickets /\ op[a].exp \in Expiries
  BY DEF Authorize, AuthorizeBeside, AuthorizeClobbers, AuthorizeFails, TypeOK, Busy, Ops
<1>2. op' \in [Actors -> Ops] /\ \A b \in Actors : b # a => op'[b] = op[b]
  BY <1>1, Finishes
<1>3. op'[a].kind = "done"
  BY <1>1, Finishes
<1>4. f \in Users
  BY <1>1, Walks
<1>5. leases' \in [Users -> SUBSET Leases]
  <2>1. [ticket |-> op[a].ticket, exp |-> op[a].exp] \in Leases
    BY <1>1 DEF Leases
  <2>2. leases \in [Users -> SUBSET Leases] /\ Without(leases[f], op[a].ticket) \subseteq leases[f]
    BY WithoutSubset DEF TypeOK
  <2>3. CASE Authorize(a)
    BY <1>4, <2>1, <2>2, <2>3 DEF Authorize
  <2>4. CASE AuthorizeBeside(a)
    BY <1>4, <2>1, <2>2, <2>4 DEF AuthorizeBeside
  <2>5. CASE AuthorizeClobbers(a)
    BY <1>4, <2>1, <2>2, <2>5 DEF AuthorizeClobbers
  <2>6. CASE AuthorizeFails(a)
    BY <1>4, <2>2, <2>6 DEF AuthorizeFails
  <2>7. QED
    BY <2>3, <2>4, <2>5, <2>6
<1>6. timers' \in [Tickets -> Timers \cup {NoTimer}]
  <2>1. NewTimer(op[a].user, op[a].exp) \in Timers
    BY <1>1 DEF NewTimer, Timers
  <2>2. QED
    BY <1>1, <2>1 DEF Authorize, AuthorizeBeside, AuthorizeClobbers, AuthorizeFails, TypeOK
<1>7. failed' \subseteq Tickets /\ UNCHANGED <<now, boot, crashes, sent>>
  <2>1. \A l \in leases[f] : l.ticket \in Tickets
    BY <1>4 DEF TypeOK, Leases
  <2>2. QED
    BY <1>1, <2>1 DEF Authorize, AuthorizeBeside, AuthorizeClobbers, AuthorizeFails, TypeOK
<1>8. \A b \in Actors :
        /\ Busy(b)' => op'[b].ticket \in Tickets
        /\ op'[b].kind = "authorize" => op'[b].exp \in Expiries
        /\ op'[b].kind = "revoke" => op'[b].at \in DOMAIN Walk(op'[b].user)
  <2> SUFFICES ASSUME NEW b \in Actors
               PROVE  /\ Busy(b)' => op'[b].ticket \in Tickets
                      /\ op'[b].kind = "authorize" => op'[b].exp \in Expiries
                      /\ op'[b].kind = "revoke" => op'[b].at \in DOMAIN Walk(op'[b].user)
    OBVIOUS
  <2>1. CASE b = a
    BY <1>3, <2>1 DEF Busy
  <2>2. CASE b # a
    <3>1. op'[b] = op[b]
      BY <1>2, <2>2
    <3>2. QED
      BY <3>1 DEF TypeOK, Busy
  <2>3. QED
    BY <2>1, <2>2
<1>9. QED
  BY <1>2, <1>5, <1>6, <1>7, <1>8 DEF TypeOK

LEMMA RevokeTyped ==
  ASSUME TypeOK, NEW a \in Actors, RevokeFile(a) \/ RevokeFails(a)
  PROVE  TypeOK'
<1> DEFINE f == Walk(op[a].user)[op[a].at]
<1>1. /\ op[a].kind = "revoke" /\ op' = Advance(a)
      /\ op[a] \in Ops /\ op[a].user \in Users \cup {NoUser} /\ op[a].ticket \in Tickets
      /\ op[a].at \in DOMAIN Walk(op[a].user)
  BY DEF RevokeFile, RevokeFails, TypeOK, Busy, Ops
<1>2. op' \in [Actors -> Ops] /\ \A b \in Actors : b # a => op'[b] = op[b]
  BY <1>1, Advances
<1>3. \/ /\ op[a].at < Len(Walk(op[a].user))
         /\ op'[a].kind = "revoke"
         /\ op'[a].ticket = op[a].ticket
         /\ op'[a].user = op[a].user
         /\ op'[a].at = op[a].at + 1
      \/ op'[a].kind \in {"idle", "done"}
  BY <1>1, Advances
<1>4. f \in Users
  BY <1>1, Walks
<1>5. leases' \in [Users -> SUBSET Leases] /\ failed' \subseteq Tickets
  <2>1. leases \in [Users -> SUBSET Leases] /\ Without(leases[f], op[a].ticket) \subseteq leases[f]
    BY WithoutSubset DEF TypeOK
  <2>2. \A l \in leases[f] : l.ticket \in Tickets
    BY <1>4, <2>1 DEF Leases
  <2>3. CASE RevokeFile(a)
    BY <1>4, <2>1, <2>3 DEF RevokeFile, TypeOK
  <2>4. CASE RevokeFails(a)
    BY <2>1, <2>2, <2>4 DEF RevokeFails, TypeOK
  <2>5. QED
    BY <2>3, <2>4
<1>6. timers' \in [Tickets -> Timers \cup {NoTimer}] /\ UNCHANGED <<now, boot, crashes, sent>>
  BY <1>1 DEF RevokeFile, RevokeFails, TypeOK
<1>7. \A b \in Actors :
        /\ Busy(b)' => op'[b].ticket \in Tickets
        /\ op'[b].kind = "authorize" => op'[b].exp \in Expiries
        /\ op'[b].kind = "revoke" => op'[b].at \in DOMAIN Walk(op'[b].user)
  <2> SUFFICES ASSUME NEW b \in Actors
               PROVE  /\ Busy(b)' => op'[b].ticket \in Tickets
                      /\ op'[b].kind = "authorize" => op'[b].exp \in Expiries
                      /\ op'[b].kind = "revoke" => op'[b].at \in DOMAIN Walk(op'[b].user)
    OBVIOUS
  <2>1. CASE b = a
    <3>1. DOMAIN Walk(op[a].user) = 1 .. Len(Walk(op[a].user)) /\ Len(Walk(op[a].user)) \in Nat
      BY <1>1, Walks
    <3>2. QED
      BY <1>1, <1>3, <2>1, <3>1 DEF Busy
  <2>2. CASE b # a
    <3>1. op'[b] = op[b]
      BY <1>2, <2>2
    <3>2. QED
      BY <3>1 DEF TypeOK, Busy
  <2>3. QED
    BY <2>1, <2>2
<1>8. QED
  BY <1>2, <1>5, <1>6, <1>7 DEF TypeOK

LEMMA FireTyped ==
  ASSUME TypeOK, NEW t \in Tickets, Fire(t)
  PROVE  TypeOK'
<1>1. Callback(t) \in Actors
  BY ActorNames
<1>2. timers[t] \in Timers /\ timers[t].user \in Users \cup {NoUser}
  BY DEF Fire, TypeOK, Timers
<1>3. timers' \in [Tickets -> Timers \cup {NoTimer}]
  BY <1>2 DEF Fire, TypeOK, Timers
<1>4. op' \in [Actors -> Ops]
  BY <1>1, <1>2 DEF Fire, TypeOK, Ops
<1>5. \A a \in Actors :
        op'[a] = op[a] \/ (op'[a].kind = "revoke" /\ op'[a].ticket = t
                           /\ op'[a].user \in Users \cup {NoUser} /\ op'[a].at = 1)
  BY <1>1, <1>2 DEF Fire, TypeOK
<1>6. \A a \in Actors :
        /\ Busy(a)' => op'[a].ticket \in Tickets
        /\ op'[a].kind = "authorize" => op'[a].exp \in Expiries
        /\ op'[a].kind = "revoke" => op'[a].at \in DOMAIN Walk(op'[a].user)
  BY <1>5, Walks DEF TypeOK, Busy
<1>7. QED
  BY <1>3, <1>4, <1>6 DEF Fire, TypeOK

LEMMA CrashTyped == TypeOK /\ Crash => TypeOK'
<1> SUFFICES ASSUME TypeOK, Crash PROVE TypeOK'
  OBVIOUS
<1>1. op' \in [Actors -> Ops] /\ \A a \in Actors : op'[a] = op[a] \/ op'[a].kind \in {"idle", "done"}
  BY DEF Crash, TypeOK, Ops, Idle
<1>2. \A a \in Actors : op'[a] = op[a] => ~Busy(a) \/ a[1] = "timer"
  BY DEF Crash, TypeOK, Ops, Busy
<1>3. \A a \in Actors : ~Busy(a)'
  BY DEF Crash, TypeOK, Ops, Busy, Idle
<1>4. boot' \subseteq Users
  BY ScanOrderTyped DEF Crash, Scanned
<1>5. sent' \in [Tickets -> {"none", "authorize", "revoke", "lost"}] /\ failed' \subseteq Tickets
  BY DEF Crash, TypeOK, Doubled
<1>6. QED
  BY <1>1, <1>3, <1>4, <1>5, BoundsTyped DEF Crash, TypeOK, Busy

LEMMA ReconcileTyped ==
  ASSUME TypeOK, NEW f \in Users, Reconcile(f) \/ ReconcileFails(f)
  PROVE  TypeOK'
<1>1. leases[f] \subseteq Leases /\ Active(f) \subseteq leases[f]
  BY DEF TypeOK, Active
<1>2. leases' \in [Users -> SUBSET Leases] /\ boot' \subseteq Users /\ failed' \subseteq Tickets
  BY <1>1 DEF Reconcile, ReconcileFails, TypeOK, Leases
<1>3. timers' \in [Tickets -> Timers \cup {NoTimer}]
  <2>1. CASE Reconcile(f)
    <3>1. PICK p \in [{l.ticket : l \in Active(f)} -> Active(f)] :
            timers' = [t \in Tickets |-> IF timers[t] = NoTimer /\ t \in DOMAIN p
                        THEN NewTimer(IF f = DefaultUser THEN NoUser ELSE f, p[t].exp) ELSE timers[t]]
      BY <2>1 DEF Reconcile, Rearmed
    <3>2. \A t \in DOMAIN p : p[t].exp \in Expiries
      BY <1>1 DEF Leases
    <3>3. QED
      BY <3>1, <3>2 DEF TypeOK, NewTimer, Timers
  <2>2. CASE ReconcileFails(f)
    BY <2>2 DEF ReconcileFails, TypeOK
  <2>3. QED
    BY <2>1, <2>2
<1>4. UNCHANGED <<now, op, crashes, sent>>
  BY DEF Reconcile, ReconcileFails
<1>5. QED
  BY <1>2, <1>3, <1>4 DEF TypeOK, Busy

LEMMA TickTyped == TypeOK /\ Tick => TypeOK'
<1> SUFFICES ASSUME TypeOK, Tick PROVE TypeOK'
  OBVIOUS
<1>1. now' \in 0 .. MaxTime
  BY BoundsTyped DEF TypeOK, Tick
<1>2. QED
  BY <1>1 DEF TypeOK, Tick, Busy

LEMMA StepTyped == TypeOK /\ [Next]_vars => TypeOK'
<1> SUFFICES ASSUME TypeOK, [Next]_vars PROVE TypeOK'
  OBVIOUS
<1>1. CASE PanelNext
  BY <1>1, SendTyped DEF PanelNext
<1>2. CASE \E a \in Actors : ActorStep(a)
  BY <1>2, AuthorizeTyped, RevokeTyped DEF ActorStep
<1>3. CASE \E t \in Tickets : Fire(t)
  BY <1>3, FireTyped
<1>4. CASE \E f \in Users : ReconcileStep(f)
  BY <1>4, ReconcileTyped DEF ReconcileStep
<1>5. CASE Crash
  BY <1>5, CrashTyped
<1>6. CASE Tick
  BY <1>6, TickTyped
<1>7. CASE UNCHANGED vars
  BY <1>7 DEF vars, TypeOK, Busy
<1>8. QED
  BY <1>1, <1>2, <1>3, <1>4, <1>5, <1>6, <1>7 DEF Next

\* The variables have the values the code can give them; who is at work has a
\* ticket, and a revocation is at a file of its walk.
THEOREM TypeCorrect == Spec => []TypeOK
<1>1. QED
  BY InitTyped, StepTyped, PTL DEF Spec

(***************************************************************************)
(* The leases, step by step.                                               *)
(***************************************************************************)

\* An actor at work is a handler or the callback of a ticket; a callback
\* revokes its own ticket, and only handlers grant leases.
LEMMA Workers ==
  ASSUME TypeOK, Called, NEW a \in Actors, Busy(a)
  PROVE  \/ \E h \in Handlers : a = Handler(h)
         \/ a = Callback(op[a].ticket) /\ op[a].kind = "revoke"
BY ActorNames DEF Called, Busy

\* A file a ticket belongs to is on the walk of who revokes the ticket.
LEMMA OnTheWalk ==
  ASSUME OwnFiles, NEW t \in Tickets, NEW f \in Users, Home(t, f),
         NEW u \in Users \cup {NoUser}, u = NoUser \/ Home(t, FileOf(u))
  PROVE  \E i \in DOMAIN Walk(u) : Walk(u)[i] = f
<1>1. CASE u = NoUser
  <2>1. f \in Scanned
    BY DEF OwnFiles
  <2>2. QED
    BY <1>1, <2>1 DEF Scanned, Walk
<1>2. CASE u # NoUser
  <2>1. FileOf(u) = f
    BY <1>2, Walks DEF OwnFiles
  <2>2. QED
    BY <2>1, Walks
<1>3. QED
  BY <1>1, <1>2

\* Of a ticket's leases those are taken that are its own.
LEMMA OwnOnly ==
  ASSUME OwnFiles, NEW t \in Tickets, NEW L \in SUBSET Leases
  PROVE  Without(L, t) = {l \in L : l.ticket # t}
BY NamePrefixTyped DEF OwnFiles, Without, Leases

LEMMA InitHolds == Init => LeaseInv
<1> SUFFICES ASSUME Init PROVE LeaseInv
  OBVIOUS
<1>1. /\ \A f \in Users : leases[f] = {}
      /\ \A t \in Tickets : timers[t] = NoTimer
      /\ \A t \in Tickets : sent[t] = "none"
      /\ \A a \in Actors : op[a].kind = "idle"
  BY DEF Init, Idle
<1>2. \A t \in Tickets, f \in Users : Sound(t, f) = {}
  BY <1>1 DEF Sound
<1>3. AtHome /\ Asked /\ Called /\ Undisturbed
  BY <1>1, ActorNames DEF AtHome, Asked, Called, Undisturbed, Busy
<1>4. ScannedFirst /\ Single /\ OnTime /\ Ahead /\ Watched /\ Gone
  BY <1>1, <1>2, ActorNames DEF ScannedFirst, Single, OnTime, Ahead, Watched, Gone, Busy
<1>5. QED
  BY <1>3, <1>4 DEF LeaseInv

LEMMA SendAuthorizeKeeps ==
  ASSUME OwnFiles, Serial, TypeOK, LeaseInv,
         NEW h \in Handlers, NEW t \in Tickets, NEW u \in Users \cup {NoUser}, NEW e \in Expiries,
         SendAuthorize(h, t, u, e)
  PROVE  LeaseInv'
<1> DEFINE a == Handler(h)
<1>1. /\ a \in Actors /\ boot = {} /\ op[a].kind = "idle" /\ ~InFlight(t)
      /\ <<t, u>> \in Grants
      /\ timers[t] # NoTimer => timers[t].exp > now
  BY ActorNames DEF SendAuthorize, MaySend
<1>2. /\ op'[a].kind = "authorize" /\ op'[a].ticket = t /\ op'[a].user = u
      /\ \A b \in Actors : b # a => op'[b] = op[b]
  BY <1>1 DEF SendAuthorize, TypeOK
<1>3. /\ sent'[t] = "authorize"
      /\ \A v \in Tickets : v # t => sent'[v] = sent[v]
      /\ UNCHANGED <<now, leases, timers, boot, failed>>
  BY DEF SendAuthorize, TypeOK
<1>4. /\ \A g \in Handlers : g # h => Handler(g) # a /\ op'[Handler(g)] = op[Handler(g)]
      /\ \A v \in Tickets : Callback(v) # a /\ op'[Callback(v)] = op[Callback(v)]
  BY <1>2, ActorNames
<1>5. ~Busy(Callback(t)) /\ \A g \in Handlers : ~(Busy(Handler(g)) /\ op[Handler(g)].ticket = t)
  BY <1>1, ActorNames DEF InFlight, LeaseInv, Called
<1>6. AtHome'
  <2>1. Home(t, FileOf(u))
    BY <1>1 DEF Home
  <2>2. \A f \in Users : \A l \in leases'[f] : Home(l.ticket, f)
    BY <1>3 DEF LeaseInv, AtHome
  <2>3. \A v \in Tickets : timers'[v] # NoTimer => Home(v, FileOf(timers'[v].user))
    BY <1>3 DEF LeaseInv, AtHome
  <2>4. \A g \in Handlers : op'[Handler(g)].kind = "authorize" =>
          Home(op'[Handler(g)].ticket, FileOf(op'[Handler(g)].user))
    BY <1>2, <1>4, <2>1 DEF LeaseInv, AtHome
  <2>5. \A v \in Tickets : Busy(Callback(v))' => Home(v, FileOf(op'[Callback(v)].user))
    BY <1>4 DEF LeaseInv, AtHome, Busy
  <2>6. QED
    BY <2>2, <2>3, <2>4, <2>5 DEF AtHome
<1>7. Asked'
  <2>1. \A g \in Handlers : g # h /\ Busy(Handler(g)) =>
          op[Handler(g)].ticket \in Tickets /\ op[Handler(g)].ticket # t
    BY <1>5, ActorNames DEF TypeOK
  <2>2. \A g \in Handlers : Busy(Handler(g))' =>
          sent'[op'[Handler(g)].ticket] = op'[Handler(g)].kind /\ boot' = {}
    BY <1>1, <1>2, <1>3, <1>4, <2>1 DEF LeaseInv, Asked, Busy
  <2>3. \A g \in Handlers : op'[Handler(g)].kind = "revoke" => op'[Handler(g)].user = NoUser
    BY <1>2, <1>4 DEF LeaseInv, Asked
  <2>4. \A g, k \in Handlers :
          Busy(Handler(g))' /\ Busy(Handler(k))' /\ op'[Handler(g)].ticket = op'[Handler(k)].ticket => g = k
    BY <1>2, <1>4, <2>1 DEF LeaseInv, Asked, Busy
  <2>5. QED
    BY <2>2, <2>3, <2>4 DEF Asked
<1>8. Called'
  BY <1>3, <1>4 DEF LeaseInv, Called, Busy
<1>9. Undisturbed'
  BY <1>1, <1>2, <1>3, <1>4, <1>5 DEF LeaseInv, Undisturbed, Busy
<1>10. ScannedFirst' /\ Single' /\ OnTime'
  BY <1>3, <1>4 DEF LeaseInv, ScannedFirst, Single, OnTime, Sound, Busy
<1>11. Ahead'
  BY <1>2, <1>3 DEF LeaseInv, Ahead, Sound
<1>12. Watched'
  BY <1>1, <1>2, <1>3 DEF LeaseInv, Watched, Sound
<1>13. Gone'
  BY <1>1, <1>2, <1>3, <1>4 DEF LeaseInv, Gone, Sound
<1>14. QED
  BY <1>6, <1>7, <1>8, <1>9, <1>10, <1>11, <1>12, <1>13 DEF LeaseInv

LEMMA SendRevokeKeeps ==
  ASSUME OwnFiles, Serial, TypeOK, LeaseInv,
         NEW h \in Handlers, NEW t \in Tickets, SendRevoke(h, t)
  PROVE  LeaseInv'
<1> DEFINE a == Handler(h)
<1>1. a \in Actors /\ boot = {} /\ op[a].kind = "idle" /\ ~InFlight(t)
  BY ActorNames DEF SendRevoke, MaySend
<1>2. /\ op'[a].kind = "revoke" /\ op'[a].ticket = t /\ op'[a].user = NoUser /\ op'[a].at = 1
      /\ \A b \in Actors : b # a => op'[b] = op[b]
  BY <1>1 DEF SendRevoke, TypeOK
<1>3. /\ sent'[t] = "revoke"
      /\ \A v \in Tickets : v # t => sent'[v] = sent[v]
      /\ UNCHANGED <<now, leases, timers, boot, failed>>
  BY DEF SendRevoke, TypeOK
<1>4. /\ \A g \in Handlers : g # h => Handler(g) # a /\ op'[Handler(g)] = op[Handler(g)]
      /\ \A v \in Tickets : Callback(v) # a /\ op'[Callback(v)] = op[Callback(v)]
  BY <1>2, ActorNames
<1>5. ~Busy(Callback(t)) /\ \A g \in Handlers : ~(Busy(Handler(g)) /\ op[Handler(g)].ticket = t)
  BY <1>1, ActorNames DEF InFlight, LeaseInv, Called
<1>6. AtHome'
  <2>1. \A f \in Users : \A l \in leases'[f] : Home(l.ticket, f)
    BY <1>3 DEF LeaseInv, AtHome
  <2>2. \A v \in Tickets : timers'[v] # NoTimer => Home(v, FileOf(timers'[v].user))
    BY <1>3 DEF LeaseInv, AtHome
  <2>3. \A g \in Handlers : op'[Handler(g)].kind = "authorize" =>
          Home(op'[Handler(g)].ticket, FileOf(op'[Handler(g)].user))
    BY <1>2, <1>4 DEF LeaseInv, AtHome
  <2>4. \A v \in Tickets : Busy(Callback(v))' => Home(v, FileOf(op'[Callback(v)].user))
    BY <1>4 DEF LeaseInv, AtHome, Busy
  <2>5. QED
    BY <2>1, <2>2, <2>3, <2>4 DEF AtHome
<1>7. Asked'
  <2>1. \A g \in Handlers : g # h /\ Busy(Handler(g)) =>
          op[Handler(g)].ticket \in Tickets /\ op[Handler(g)].ticket # t
    BY <1>5, ActorNames DEF TypeOK
  <2>2. \A g \in Handlers : Busy(Handler(g))' =>
          sent'[op'[Handler(g)].ticket] = op'[Handler(g)].kind /\ boot' = {}
    BY <1>1, <1>2, <1>3, <1>4, <2>1 DEF LeaseInv, Asked, Busy
  <2>3. \A g \in Handlers : op'[Handler(g)].kind = "revoke" => op'[Handler(g)].user = NoUser
    BY <1>2, <1>4 DEF LeaseInv, Asked
  <2>4. \A g, k \in Handlers :
          Busy(Handler(g))' /\ Busy(Handler(k))' /\ op'[Handler(g)].ticket = op'[Handler(k)].ticket => g = k
    BY <1>2, <1>4, <2>1 DEF LeaseInv, Asked, Busy
  <2>5. QED
    BY <2>2, <2>3, <2>4 DEF Asked
<1>8. Called'
  BY <1>3, <1>4 DEF LeaseInv, Called, Busy
<1>9. Undisturbed'
  BY <1>1, <1>2, <1>3, <1>4, <1>5 DEF LeaseInv, Undisturbed, Busy
<1>10. ScannedFirst' /\ Single' /\ OnTime'
  BY <1>3, <1>4 DEF LeaseInv, ScannedFirst, Single, OnTime, Sound, Busy
<1>11. Ahead'
  <2> SUFFICES ASSUME NEW b \in Actors, NEW v \in Tickets, NEW f \in Users,
                      op'[b].kind = "revoke", op'[b].ticket = v, Sound(v, f)' # {}
               PROVE  \E i \in op'[b].at .. Len(Walk(op'[b].user)) : Walk(op'[b].user)[i] = f
    BY DEF Ahead
  <2>1. Sound(v, f) # {}
    BY <1>3 DEF Sound
  <2>2. CASE b = a
    <3>1. Home(t, f)
      BY <1>2, <2>1, <2>2 DEF Sound, LeaseInv, AtHome
    <3>2. \E i \in DOMAIN Walk(NoUser) : Walk(NoUser)[i] = f
      BY <3>1, OnTheWalk
    <3>3. QED
      BY <1>2, <2>2, <3>2, Walks
  <2>3. CASE b # a
    <3>1. op'[b] = op[b]
      BY <1>2, <2>3
    <3>2. \E i \in op[b].at .. Len(Walk(op[b].user)) : Walk(op[b].user)[i] = f
      BY <2>1, <3>1 DEF LeaseInv, Ahead
    <3>3. QED
      BY <3>1, <3>2
  <2>4. QED
    BY <2>2, <2>3
<1>12. Watched'
  BY <1>1, <1>2, <1>3 DEF LeaseInv, Watched, Sound
<1>13. Gone'
  BY <1>1, <1>2, <1>3, <1>4 DEF LeaseInv, Gone, Sound
<1>14. QED
  BY <1>6, <1>7, <1>8, <1>9, <1>10, <1>11, <1>12, <1>13 DEF LeaseInv

\* An authorize step sets the timer to the lease it writes, or leaves a ticket
\* that a failed write is to blame for, or leaves the timer and adds nothing; of
\* the other tickets it adds nothing, and drops what it could not read.
LEMMA GrantKeeps ==
  ASSUME OwnFiles, Serial, TypeOK, LeaseInv, NEW a \in Actors,
         Authorize(a) \/ AuthorizeBeside(a) \/ AuthorizeClobbers(a) \/ AuthorizeFails(a)
  PROVE  LeaseInv'
<1> DEFINE u == op[a].user
           e == op[a].exp
<1>1. op[a].kind = "authorize" /\ op' = Finish(a) /\ UNCHANGED <<now, boot, sent>>
  BY DEF Authorize, AuthorizeBeside, AuthorizeClobbers, AuthorizeFails
<1>2. PICK h \in Handlers : a = Handler(h)
  BY <1>1, Workers DEF LeaseInv, Busy
<1>3. PICK t \in Tickets : t = op[a].ticket
  BY <1>1 DEF TypeOK, Busy
<1>4. PICK f \in Users : f = FileOf(u)
  BY <1>1, Walks DEF TypeOK, Ops
<1>5. /\ op'[a].kind = "done"
      /\ \A b \in Actors : b # a => op'[b] = op[b]
      /\ \A g \in Handlers : g # h => Handler(g) # a /\ op'[Handler(g)] = op[Handler(g)]
      /\ \A v \in Tickets : Callback(v) # a /\ op'[Callback(v)] = op[Callback(v)]
  BY <1>1, <1>2, Finishes, ActorNames
<1>6. /\ Home(t, f) /\ u \in Users \cup {NoUser} /\ e \in Expiries
      /\ boot = {} /\ sent[t] = "authorize" /\ ~Busy(Callback(t))
      /\ \A g \in Handlers : Busy(Handler(g)) /\ op[Handler(g)].ticket = t => g = h
  BY <1>1, <1>2, <1>3, <1>4 DEF LeaseInv, AtHome, Asked, Undisturbed, Busy, TypeOK, Ops
<1>7. /\ leases \in [Users -> SUBSET Leases]
      /\ Without(leases[f], t) = {l \in leases[f] : l.ticket # t}
  BY OwnOnly DEF TypeOK
<1>8. /\ \A g \in Users : \A l \in leases'[g] : l \in leases[g] \/ (g = f /\ l.ticket = t)
      /\ \A v \in Tickets : v # t => timers'[v] = timers[v]
      /\ \A v \in Tickets, g \in Users : v # t => Sound(v, g)' \subseteq Sound(v, g)
  <2>1. CASE Authorize(a)
    BY <1>3, <1>4, <1>7, <2>1 DEF Authorize, Sound, TypeOK
  <2>2. CASE AuthorizeBeside(a)
    BY <1>3, <1>4, <1>7, <2>2 DEF AuthorizeBeside, Sound, TypeOK
  <2>3. CASE AuthorizeClobbers(a)
    BY <1>3, <1>4, <1>7, <2>3 DEF AuthorizeClobbers, Sound, TypeOK
  <2>4. CASE AuthorizeFails(a)
    BY <1>3, <1>4, <1>7, <2>4 DEF AuthorizeFails, Sound, TypeOK
  <2>5. QED
    BY <2>1, <2>2, <2>3, <2>4
<1>9. \/ /\ timers'[t] = NewTimer(u, e)
         /\ \A g \in Users : Sound(t, g)' \subseteq {[ticket |-> t, exp |-> e]}
      \/ /\ timers'[t] = timers[t]
         /\ \A g \in Users : Sound(t, g)' \subseteq Sound(t, g)
  <2>1. CASE Authorize(a)
    <3>1. timers'[t] = NewTimer(u, e)
      BY <1>3, <2>1 DEF Authorize, TypeOK
    <3>2. \A g \in Users : g # f => Sound(t, g)' = {}
      BY <1>3, <1>4, <1>6, <2>1 DEF Authorize, Sound, LeaseInv, AtHome, OwnFiles
    <3>3. Sound(t, f)' \subseteq {[ticket |-> t, exp |-> e]}
      BY <1>3, <1>4, <1>7, <2>1 DEF Authorize, Sound
    <3>4. QED
      BY <3>1, <3>2, <3>3
  <2>2. CASE AuthorizeBeside(a)
    BY <1>3, <2>2 DEF AuthorizeBeside, Sound, TypeOK
  <2>3. CASE AuthorizeClobbers(a)
    <3>1. timers'[t] = NewTimer(u, e)
      BY <1>3, <2>3 DEF AuthorizeClobbers, TypeOK
    <3>2. \A g \in Users : g # f => Sound(t, g)' = {}
      <4>1. \A g \in Users : g # f => leases'[g] = leases[g]
        BY <1>4, <2>3 DEF AuthorizeClobbers, TypeOK
      <4>2. \A g \in Users : g # f => \A l \in leases[g] : l.ticket # t
        BY <1>6 DEF LeaseInv, AtHome, OwnFiles
      <4>3. QED
        BY <4>1, <4>2 DEF Sound
    <3>3. Sound(t, f)' \subseteq {[ticket |-> t, exp |-> e]}
      BY <1>3, <1>4, <1>7, <2>3 DEF AuthorizeClobbers, Sound
    <3>4. QED
      BY <3>1, <3>2, <3>3
  <2>4. CASE AuthorizeFails(a)
    BY <1>3, <1>4, <1>7, <2>4 DEF AuthorizeFails, Sound
  <2>5. QED
    BY <2>1, <2>2, <2>3, <2>4
<1>10. NewTimer(u, e) # NoTimer
  <2>1. NewTimer(u, e) \in Timers
    BY <1>6 DEF NewTimer, Timers
  <2>2. QED
    BY <2>1, NoTimerTyped
<1>11. AtHome'
  <2>1. \A g \in Users : \A l \in leases'[g] : Home(l.ticket, g)
    BY <1>6, <1>8 DEF LeaseInv, AtHome
  <2>2. \A v \in Tickets : timers'[v] # NoTimer => Home(v, FileOf(timers'[v].user))
    BY <1>4, <1>6, <1>8, <1>9 DEF LeaseInv, AtHome, NewTimer
  <2>3. \A g \in Handlers : op'[Handler(g)].kind = "authorize" =>
          Home(op'[Handler(g)].ticket, FileOf(op'[Handler(g)].user))
    BY <1>2, <1>5 DEF LeaseInv, AtHome
  <2>4. \A v \in Tickets : Busy(Callback(v))' => Home(v, FileOf(op'[Callback(v)].user))
    BY <1>5 DEF LeaseInv, AtHome, Busy
  <2>5. QED
    BY <2>1, <2>2, <2>3, <2>4 DEF AtHome
<1>12. Asked'
  BY <1>1, <1>2, <1>5 DEF LeaseInv, Asked, Busy
<1>13. Called'
  BY <1>5, <1>8, <1>9 DEF LeaseInv, Called, Busy, NewTimer
<1>14. Undisturbed'
  BY <1>1, <1>2, <1>5, <1>6, <1>8 DEF LeaseInv, Undisturbed, Busy
<1>15. ScannedFirst'
  BY <1>1, <1>6 DEF ScannedFirst
<1>16. Single'
  BY <1>8, <1>9 DEF LeaseInv, Single
<1>17. OnTime'
  BY <1>1, <1>5, <1>6, <1>8, <1>9 DEF LeaseInv, OnTime, Busy, NewTimer
<1>18. \A v \in Tickets, g \in Users : Sound(v, g)' # {} => Sound(v, g) # {} \/ (v = t /\ timers'[t] = NewTimer(u, e))
  BY <1>8, <1>9
<1>19. \A b \in Actors : op'[b].kind = "revoke" => op'[b] = op[b] /\ op[b].ticket # t
  BY <1>2, <1>5, <1>6, ActorNames DEF LeaseInv, Called, Busy
<1>20. Ahead'
  BY <1>8, <1>19 DEF LeaseInv, Ahead
<1>21. Watched'
  <2> SUFFICES ASSUME NEW v \in Tickets, NEW g \in Users, Sound(v, g)' # {}
               PROVE  timers'[v] # NoTimer \/ \E b \in Actors : op'[b].kind = "revoke" /\ op'[b].ticket = v
    BY DEF Watched
  <2>1. CASE v = t /\ timers'[t] = NewTimer(u, e)
    BY <1>10, <2>1
  <2>2. CASE ~(v = t /\ timers'[t] = NewTimer(u, e))
    <3>1. Sound(v, g) # {} /\ timers'[v] = timers[v]
      BY <1>8, <1>9, <2>2
    <3>2. timers[v] # NoTimer \/ \E b \in Actors : op[b].kind = "revoke" /\ op[b].ticket = v
      BY <1>6, <3>1 DEF LeaseInv, Watched
    <3>3. QED
      BY <1>1, <1>5, <3>1, <3>2
  <2>3. QED
    BY <2>1, <2>2
<1>22. Gone'
  BY <1>1, <1>2, <1>5, <1>6, <1>8 DEF LeaseInv, Gone
<1>23. QED
  BY <1>11, <1>12, <1>13, <1>14, <1>15, <1>16, <1>17, <1>20, <1>21, <1>22 DEF LeaseInv

\* A revocation takes the timer and what the file has of the ticket, or leaves a
\* ticket that a failed write is to blame for; the files it has yet to come to
\* are still before it.
LEMMA RevokeKeeps ==
  ASSUME OwnFiles, TypeOK, LeaseInv, NEW a \in Actors, RevokeFile(a) \/ RevokeFails(a)
  PROVE  LeaseInv'
<1>1. op[a].kind = "revoke" /\ op' = Advance(a) /\ UNCHANGED <<now, boot, sent>>
  BY DEF RevokeFile, RevokeFails
<1>2. PICK t \in Tickets : t = op[a].ticket
  BY <1>1 DEF TypeOK, Busy
<1>3. /\ op[a].user \in Users \cup {NoUser}
      /\ op[a].at \in 1 .. Len(Walk(op[a].user))
      /\ Len(Walk(op[a].user)) \in Nat
  BY <1>1, Walks DEF TypeOK, Ops
<1>4. PICK f \in Users : f = Walk(op[a].user)[op[a].at]
  BY <1>3, Walks
<1>5. /\ \A b \in Actors : b # a => op'[b] = op[b]
      /\ \/ /\ op'[a].kind = "revoke" /\ op'[a].ticket = t
            /\ op'[a].user = op[a].user /\ op'[a].at = op[a].at + 1
         \/ op'[a].kind \in {"idle", "done"}
      /\ op[a].at < Len(Walk(op[a].user)) => op'[a].kind = "revoke"
  BY <1>1, <1>2, <1>3, Advances
<1>6. /\ leases \in [Users -> SUBSET Leases]
      /\ Without(leases[f], t) = {l \in leases[f] : l.ticket # t}
  BY OwnOnly DEF TypeOK
<1>7. /\ timers'[t] = NoTimer
      /\ \A v \in Tickets : v # t => timers'[v] = timers[v]
      /\ \A g \in Users : leases'[g] \subseteq leases[g]
      /\ \A v \in Tickets, g \in Users : v # t => Sound(v, g)' = Sound(v, g)
      /\ \A g \in Users : Sound(t, g)' \subseteq Sound(t, g)
      /\ Sound(t, f)' = {}
  <2>1. CASE RevokeFile(a)
    BY <1>2, <1>4, <1>6, <2>1 DEF RevokeFile, Sound, TypeOK
  <2>2. CASE RevokeFails(a)
    <3>1. {l.ticket : l \in leases[f] \ Without(leases[f], t)} = {t}
      <4>1. Without(leases[f], t) # leases[f]
        BY <1>2, <1>4, <2>2 DEF RevokeFails
      <4>2. PICK l \in leases[f] : l.ticket = t
        BY <1>6, <4>1
      <4>3. QED
        BY <1>6, <4>2
    <3>2. failed' = failed \cup {t}
      BY <1>2, <1>4, <2>2, <3>1 DEF RevokeFails
    <3>3. QED
      BY <1>2, <2>2, <3>2 DEF RevokeFails, Sound, TypeOK
  <2>3. QED
    BY <2>1, <2>2
<1>8. \A b \in Actors :
        \/ b # a /\ op'[b] = op[b]
        \/ op'[b].kind = op[b].kind /\ op'[b].ticket = op[b].ticket /\ op'[b].user = op[b].user
        \/ op'[b].kind \in {"idle", "done"}
  BY <1>1, <1>2, <1>5
<1>9. \A b \in Actors : Busy(b)' =>
        /\ Busy(b) /\ op'[b].kind = op[b].kind
        /\ op'[b].ticket = op[b].ticket /\ op'[b].user = op[b].user
  BY <1>8 DEF Busy
<1>10. AtHome'
  <2>1. \A g \in Users : \A l \in leases'[g] : Home(l.ticket, g)
    BY <1>7 DEF LeaseInv, AtHome
  <2>2. \A v \in Tickets : timers'[v] # NoTimer => Home(v, FileOf(timers'[v].user))
    BY <1>7 DEF LeaseInv, AtHome
  <2>3. \A g \in Handlers : op'[Handler(g)].kind = "authorize" =>
          Home(op'[Handler(g)].ticket, FileOf(op'[Handler(g)].user))
    BY <1>9, ActorNames DEF LeaseInv, AtHome, Busy
  <2>4. \A v \in Tickets : Busy(Callback(v))' => Home(v, FileOf(op'[Callback(v)].user))
    BY <1>9, ActorNames DEF LeaseInv, AtHome
  <2>5. QED
    BY <2>1, <2>2, <2>3, <2>4 DEF AtHome
<1>11. Asked'
  <2>1. \A g \in Handlers : Busy(Handler(g))' =>
          sent'[op'[Handler(g)].ticket] = op'[Handler(g)].kind /\ boot' = {}
    BY <1>1, <1>9, ActorNames DEF LeaseInv, Asked
  <2>2. \A g \in Handlers : op'[Handler(g)].kind = "revoke" => op'[Handler(g)].user = NoUser
    BY <1>9, ActorNames DEF LeaseInv, Asked, Busy
  <2>3. \A g, k \in Handlers :
          Busy(Handler(g))' /\ Busy(Handler(k))' /\ op'[Handler(g)].ticket = op'[Handler(k)].ticket => g = k
    BY <1>9, ActorNames DEF LeaseInv, Asked
  <2>4. QED
    BY <2>1, <2>2, <2>3 DEF Asked
<1>12. Called'
  <2> SUFFICES ASSUME NEW v \in Tickets
               PROVE  /\ Busy(Callback(v))' => op'[Callback(v)].kind = "revoke" /\ op'[Callback(v)].ticket = v
                      /\ timers'[v] # NoTimer /\ timers'[v].fired => Busy(Callback(v))'
    BY DEF Called
  <2>1. Busy(Callback(v))' => op'[Callback(v)].kind = "revoke" /\ op'[Callback(v)].ticket = v
    BY <1>9, ActorNames DEF LeaseInv, Called
  <2>2. ASSUME timers'[v] # NoTimer, timers'[v].fired PROVE Busy(Callback(v))'
    <3>1. v # t /\ Busy(Callback(v)) /\ op[Callback(v)].ticket = v
      BY <1>7, <2>2 DEF LeaseInv, Called
    <3>2. op'[Callback(v)] = op[Callback(v)]
      BY <1>2, <1>5, <3>1, ActorNames
    <3>3. QED
      BY <3>1, <3>2 DEF Busy
  <2>3. QED
    BY <2>1, <2>2
<1>13. Undisturbed'
  BY <1>1, <1>7, <1>9, ActorNames DEF LeaseInv, Undisturbed, Busy
<1>14. ScannedFirst'
  BY <1>1, <1>7, <1>9, ActorNames DEF LeaseInv, ScannedFirst
<1>15. Single' /\ OnTime'
  BY <1>1, <1>7, <1>9, ActorNames DEF LeaseInv, Single, OnTime
<1>16. \A v \in Tickets, g \in Users : Sound(v, g)' # {} => Sound(v, g) # {}
  BY <1>7
<1>17. \A g \in Users : Sound(t, g)' # {} =>
         \E i \in op[a].at + 1 .. Len(Walk(op[a].user)) : Walk(op[a].user)[i] = g
  <2> SUFFICES ASSUME NEW g \in Users, Sound(t, g)' # {}
               PROVE  \E i \in op[a].at + 1 .. Len(Walk(op[a].user)) : Walk(op[a].user)[i] = g
    OBVIOUS
  <2>1. PICK i \in op[a].at .. Len(Walk(op[a].user)) : Walk(op[a].user)[i] = g
    BY <1>1, <1>2, <1>16 DEF LeaseInv, Ahead
  <2>2. i # op[a].at
    BY <1>4, <1>7, <2>1
  <2>3. QED
    BY <1>3, <2>1, <2>2
<1>18. \A g \in Users : Sound(t, g)' # {} => op'[a].kind = "revoke" /\ op'[a].ticket = t
  BY <1>3, <1>5, <1>17
<1>19. Ahead'
  <2> SUFFICES ASSUME NEW b \in Actors, NEW v \in Tickets, NEW g \in Users,
                      op'[b].kind = "revoke", op'[b].ticket = v, Sound(v, g)' # {}
               PROVE  \E i \in op'[b].at .. Len(Walk(op'[b].user)) : Walk(op'[b].user)[i] = g
    BY DEF Ahead
  <2>1. CASE b = a
    BY <1>5, <1>17, <2>1
  <2>2. CASE b # a
    <3>1. op'[b] = op[b] /\ Sound(v, g) # {}
      BY <1>5, <1>16, <2>2
    <3>2. \E i \in op[b].at .. Len(Walk(op[b].user)) : Walk(op[b].user)[i] = g
      BY <3>1 DEF LeaseInv, Ahead
    <3>3. QED
      BY <3>1, <3>2
  <2>3. QED
    BY <2>1, <2>2
<1>20. Watched'
  <2> SUFFICES ASSUME NEW v \in Tickets, NEW g \in Users, Sound(v, g)' # {}
               PROVE  \/ g \in boot \/ timers'[v] # NoTimer
                      \/ \E b \in Actors : op'[b].kind = "revoke" /\ op'[b].ticket = v
    BY <1>1 DEF Watched
  <2>1. CASE v = t
    BY <1>18, <2>1
  <2>2. CASE v # t
    BY <1>2, <1>5, <1>7, <1>16, <2>2 DEF LeaseInv, Watched
  <2>3. QED
    BY <2>1, <2>2
<1>21. Gone'
  <2> SUFFICES ASSUME NEW v \in Tickets, NEW g \in Users, sent[v] = "revoke", Sound(v, g)' # {}
               PROVE  \E h \in Handlers : op'[Handler(h)].kind = "revoke" /\ op'[Handler(h)].ticket = v
    BY <1>1 DEF Gone
  <2>1. PICK h \in Handlers : op[Handler(h)].kind = "revoke" /\ op[Handler(h)].ticket = v
    BY <1>16 DEF LeaseInv, Gone
  <2>2. CASE Handler(h) = a
    BY <1>2, <1>18, <2>1, <2>2
  <2>3. CASE Handler(h) # a
    BY <1>5, <2>1, <2>3, ActorNames
  <2>4. QED
    BY <2>2, <2>3
<1>22. QED
  BY <1>10, <1>11, <1>12, <1>13, <1>14, <1>15, <1>19, <1>20, <1>21 DEF LeaseInv

\* A timer goes off at the time of its ticket's lease, while nobody grants one.
LEMMA FireKeeps ==
  ASSUME OwnFiles, TypeOK, LeaseInv, NEW t \in Tickets, Fire(t)
  PROVE  LeaseInv'
<1> DEFINE a == Callback(t)
           u == timers[t].user
<1>1. /\ a \in Actors /\ timers[t] # NoTimer /\ timers[t].exp <= now /\ ~Busy(a)
      /\ u \in Users \cup {NoUser} /\ timers[t].exp \in Nat /\ now \in Nat
  BY ActorNames, ExpiriesTyped DEF Fire, TypeOK, Timers
<1>2. /\ op'[a].kind = "revoke" /\ op'[a].ticket = t /\ op'[a].user = u /\ op'[a].at = 1
      /\ \A b \in Actors : b # a => op'[b] = op[b]
      /\ \A h \in Handlers : op'[Handler(h)] = op[Handler(h)]
      /\ \A v \in Tickets : v # t => Callback(v) # a /\ op'[Callback(v)] = op[Callback(v)]
  BY <1>1, ActorNames DEF Fire, TypeOK
<1>3. /\ \A v \in Tickets : v # t => timers'[v] = timers[v]
      /\ timers'[t] = [timers[t] EXCEPT !.fired = TRUE]
      /\ UNCHANGED <<now, leases, boot, sent, failed>>
  BY DEF Fire, TypeOK
<1>4. \A v \in Tickets : timers'[v] # NoTimer =>
        timers[v] # NoTimer /\ timers'[v].user = timers[v].user /\ timers'[v].exp = timers[v].exp
  BY <1>1, <1>3 DEF TypeOK, Timers
<1>5. \A v \in Tickets, g \in Users : Sound(v, g)' = Sound(v, g)
  BY <1>3 DEF Sound
<1>6. Home(t, FileOf(u))
  BY <1>1 DEF LeaseInv, AtHome
<1>7. AtHome'
  <2>1. \A g \in Users : \A l \in leases'[g] : Home(l.ticket, g)
    BY <1>3 DEF LeaseInv, AtHome
  <2>2. \A v \in Tickets : timers'[v] # NoTimer => Home(v, FileOf(timers'[v].user))
    BY <1>4 DEF LeaseInv, AtHome
  <2>3. \A g \in Handlers : op'[Handler(g)].kind = "authorize" =>
          Home(op'[Handler(g)].ticket, FileOf(op'[Handler(g)].user))
    BY <1>2 DEF LeaseInv, AtHome
  <2>4. \A v \in Tickets : Busy(Callback(v))' => Home(v, FileOf(op'[Callback(v)].user))
    BY <1>2, <1>6 DEF LeaseInv, AtHome, Busy
  <2>5. QED
    BY <2>1, <2>2, <2>3, <2>4 DEF AtHome
<1>8. Asked'
  BY <1>2, <1>3 DEF LeaseInv, Asked, Busy
<1>9. Called'
  BY <1>2, <1>3 DEF LeaseInv, Called, Busy
<1>10. Undisturbed'
  BY <1>1, <1>2, <1>3, <1>4 DEF LeaseInv, Undisturbed, Busy
<1>11. ScannedFirst'
  BY <1>1, <1>2, <1>3, <1>4 DEF LeaseInv, ScannedFirst, Busy
<1>12. Single'
  BY <1>5 DEF LeaseInv, Single
<1>13. OnTime'
  BY <1>1, <1>2, <1>3, <1>4, <1>5 DEF LeaseInv, OnTime, Busy
<1>14. Ahead'
  <2> SUFFICES ASSUME NEW b \in Actors, NEW v \in Tickets, NEW g \in Users,
                      op'[b].kind = "revoke", op'[b].ticket = v, Sound(v, g)' # {}
               PROVE  \E i \in op'[b].at .. Len(Walk(op'[b].user)) : Walk(op'[b].user)[i] = g
    BY DEF Ahead
  <2>1. CASE b = a
    <3>1. Home(t, g)
      BY <1>2, <1>5, <2>1 DEF Sound, LeaseInv, AtHome
    <3>2. \E i \in DOMAIN Walk(u) : Walk(u)[i] = g
      BY <1>1, <1>6, <3>1, OnTheWalk
    <3>3. QED
      BY <1>1, <1>2, <2>1, <3>2, Walks
  <2>2. CASE b # a
    <3>1. op'[b] = op[b] /\ Sound(v, g) # {}
      BY <1>2, <1>5, <2>2
    <3>2. \E i \in op[b].at .. Len(Walk(op[b].user)) : Walk(op[b].user)[i] = g
      BY <3>1 DEF LeaseInv, Ahead
    <3>3. QED
      BY <3>1, <3>2
  <2>3. QED
    BY <2>1, <2>2
<1>15. Watched'
  BY <1>1, <1>2, <1>3, <1>5 DEF LeaseInv, Watched, Busy
<1>16. Gone'
  BY <1>2, <1>3, <1>5 DEF LeaseInv, Gone
<1>17. QED
  BY <1>7, <1>8, <1>9, <1>10, <1>11, <1>12, <1>13, <1>14, <1>15, <1>16 DEF LeaseInv

\* After a crash every file with a lease is yet to be scanned, and of what is in
\* flight or was written badly nothing is promised.
LEMMA CrashKeeps == OwnFiles /\ TypeOK /\ LeaseInv /\ Crash => LeaseInv'
<1> SUFFICES ASSUME OwnFiles, TypeOK, LeaseInv, Crash PROVE LeaseInv'
  OBVIOUS
<1>1. \A a \in Actors : ~Busy(a)'
  BY DEF Crash, TypeOK, Ops, Busy, Idle
<1>2. /\ \A h \in Handlers : ~Busy(Handler(h))'
      /\ \A t \in Tickets : ~Busy(Callback(t))'
  BY <1>1, ActorNames
<1>3. /\ \A t \in Tickets : timers'[t] = NoTimer
      /\ \A t \in Tickets : sent'[t] = "revoke" => ~InFlight(t) /\ t \notin failed /\ sent[t] = "revoke"
      /\ UNCHANGED <<now, leases>> /\ boot' = Scanned /\ failed' = Doubled
  BY DEF Crash
<1>4. AtHome' /\ Asked' /\ Called' /\ Undisturbed'
  BY <1>2, <1>3 DEF LeaseInv, AtHome, Asked, Called, Undisturbed, Busy
<1>5. ScannedFirst' /\ OnTime'
  BY <1>2, <1>3 DEF ScannedFirst, OnTime
<1>6. Single'
  BY <1>3 DEF Single, Sound, Doubled
<1>7. Ahead'
  BY <1>1 DEF Ahead, Busy
<1>8. Watched'
  BY <1>3 DEF LeaseInv, AtHome, OwnFiles, Watched, Sound
<1>9. Gone'
  <2> SUFFICES ASSUME NEW t \in Tickets, NEW f \in Users, sent'[t] = "revoke", Sound(t, f)' # {}
               PROVE  FALSE
    BY DEF Gone
  <2>1. Sound(t, f) # {}
    BY <1>3 DEF Sound
  <2>2. PICK h \in Handlers : op[Handler(h)].kind = "revoke" /\ op[Handler(h)].ticket = t
    BY <1>3, <2>1 DEF LeaseInv, Gone
  <2>3. QED
    BY <1>3, <2>2, ActorNames DEF InFlight, Busy
<1>10. QED
  BY <1>4, <1>5, <1>6, <1>7, <1>8, <1>9 DEF LeaseInv

\* While files are left to scan no handler works, and a ticket whose file is
\* scanned gets the timer of its only lease.
LEMMA ReconcileKeeps ==
  ASSUME OwnFiles, TypeOK, LeaseInv, NEW f \in Users, Reconcile(f) \/ ReconcileFails(f)
  PROVE  LeaseInv'
<1>1. f \in boot /\ boot' = boot \ {f} /\ UNCHANGED <<now, op, sent>>
  BY DEF Reconcile, ReconcileFails
<1>2. \A h \in Handlers : ~Busy(Handler(h))
  BY <1>1 DEF LeaseInv, Asked
<1>3. /\ leases \in [Users -> SUBSET Leases]
      /\ \A g \in Users : leases'[g] \subseteq leases[g]
      /\ \A v \in Tickets, g \in Users : Sound(v, g)' \subseteq Sound(v, g)
  <2>1. Active(f) \subseteq leases[f]
    BY DEF Active
  <2>2. CASE Reconcile(f)
    BY <2>1, <2>2 DEF Reconcile, Sound, TypeOK
  <2>3. CASE ReconcileFails(f)
    BY <2>3 DEF ReconcileFails, Sound, TypeOK
  <2>4. QED
    BY <2>2, <2>3 DEF TypeOK
<1>4. \A v \in Tickets : Home(v, f) => timers[v] = NoTimer /\ ~Busy(Callback(v))
  BY <1>1 DEF LeaseInv, ScannedFirst
<1>5. \A v \in Tickets :
        \/ timers'[v] = timers[v]
        \/ \E l \in leases[f] : /\ l.ticket = v
                                /\ timers'[v] = NewTimer(IF f = DefaultUser THEN NoUser ELSE f, l.exp)
  <2>1. CASE Reconcile(f)
    <3>1. PICK p \in [{l.ticket : l \in Active(f)} -> Active(f)] :
            /\ \A t \in DOMAIN p : p[t].ticket = t
            /\ timers' = [t \in Tickets |-> IF timers[t] = NoTimer /\ t \in DOMAIN p
                        THEN NewTimer(IF f = DefaultUser THEN NoUser ELSE f, p[t].exp) ELSE timers[t]]
      BY <2>1 DEF Reconcile, Rearmed
    <3>2. \A t \in DOMAIN p : p[t] \in leases[f]
      BY DEF Active
    <3>3. QED
      BY <3>1, <3>2
  <2>2. CASE ReconcileFails(f)
    BY <2>2 DEF ReconcileFails
  <2>3. QED
    BY <2>1, <2>2
<1>6. \A v \in Tickets : Sound(v, f)' # {} => timers'[v] # NoTimer
  <2> SUFFICES ASSUME NEW v \in Tickets, Sound(v, f)' # {} PROVE timers'[v] # NoTimer
    OBVIOUS
  <2>1. Reconcile(f)
    BY DEF Reconcile, ReconcileFails, Sound
  <2>2. v \in {l.ticket : l \in Active(f)}
    BY <1>3, <2>1 DEF Reconcile, Sound
  <2>3. PICK p \in [{l.ticket : l \in Active(f)} -> Active(f)] :
          timers' = [t \in Tickets |-> IF timers[t] = NoTimer /\ t \in DOMAIN p
                      THEN NewTimer(IF f = DefaultUser THEN NoUser ELSE f, p[t].exp) ELSE timers[t]]
    BY <2>1 DEF Reconcile, Rearmed
  <2>4. NewTimer(IF f = DefaultUser THEN NoUser ELSE f, p[v].exp) \in Timers
    BY <1>3, <2>2 DEF NewTimer, Timers, Active, Leases
  <2>5. QED
    BY <2>2, <2>3, <2>4, NoTimerTyped
<1>7. AtHome'
  <2>1. \A g \in Users : \A l \in leases'[g] : Home(l.ticket, g)
    BY <1>3 DEF LeaseInv, AtHome
  <2>2. \A v \in Tickets : timers'[v] # NoTimer => Home(v, FileOf(timers'[v].user))
    <3>1. FileOf(IF f = DefaultUser THEN NoUser ELSE f) = f
      BY DefaultTyped DEF FileOf
    <3>2. SUFFICES ASSUME NEW v \in Tickets, timers'[v] # NoTimer
                   PROVE  Home(v, FileOf(timers'[v].user))
      OBVIOUS
    <3>3. CASE timers'[v] = timers[v]
      BY <3>2, <3>3 DEF LeaseInv, AtHome
    <3>4. CASE timers'[v] # timers[v]
      <4>1. PICK l \in leases[f] :
              l.ticket = v /\ timers'[v] = NewTimer(IF f = DefaultUser THEN NoUser ELSE f, l.exp)
        BY <1>5, <3>4
      <4>2. timers'[v].user = IF f = DefaultUser THEN NoUser ELSE f
        BY <4>1 DEF NewTimer
      <4>3. QED
        BY <3>1, <4>1, <4>2 DEF LeaseInv, AtHome
    <3>5. QED
      BY <3>3, <3>4
  <2>3. \A g \in Handlers : op'[Handler(g)].kind = "authorize" =>
          Home(op'[Handler(g)].ticket, FileOf(op'[Handler(g)].user))
    BY <1>1 DEF LeaseInv, AtHome
  <2>4. \A v \in Tickets : Busy(Callback(v))' => Home(v, FileOf(op'[Callback(v)].user))
    BY <1>1 DEF LeaseInv, AtHome, Busy
  <2>5. QED
    BY <2>1, <2>2, <2>3, <2>4 DEF AtHome
<1>8. Asked'
  BY <1>1, <1>2 DEF Asked, Busy
<1>9. Called'
  <2>1. \A v \in Tickets : timers'[v] = timers[v] \/ ~timers'[v].fired
    <3>1. \A u, e : ~NewTimer(u, e).fired
      BY DEF NewTimer
    <3>2. QED
      BY <1>5, <3>1
  <2>2. QED
    BY <1>1, <2>1 DEF LeaseInv, Called, Busy
<1>10. Undisturbed'
  BY <1>1, <1>2 DEF Undisturbed, Busy
<1>11. ScannedFirst'
  <2> SUFFICES ASSUME NEW v \in Tickets, NEW g \in Users, Home(v, g),
                      timers'[v] # NoTimer \/ Busy(Callback(v))
               PROVE  g \notin boot'
    BY <1>1 DEF ScannedFirst, Busy
  <2>1. CASE timers[v] # NoTimer \/ Busy(Callback(v))
    BY <1>1, <2>1 DEF LeaseInv, ScannedFirst
  <2>2. CASE ~(timers[v] # NoTimer \/ Busy(Callback(v)))
    <3>1. Home(v, f)
      BY <1>5, <2>2 DEF LeaseInv, AtHome
    <3>2. QED
      BY <1>1, <3>1 DEF OwnFiles
  <2>3. QED
    BY <2>1, <2>2
<1>12. Single'
  BY <1>3 DEF LeaseInv, Single
<1>13. OnTime'
  <2> SUFFICES ASSUME NEW v \in Tickets, NEW g \in Users, NEW l \in Sound(v, g)'
               PROVE  /\ timers'[v] # NoTimer => l.exp = timers'[v].exp
                      /\ Busy(Callback(v)) => l.exp <= now
    BY <1>1 DEF OnTime, Busy
  <2>1. l \in Sound(v, g)
    BY <1>3
  <2>2. Busy(Callback(v)) => l.exp <= now
    BY <2>1 DEF LeaseInv, OnTime
  <2>3. CASE timers'[v] = timers[v]
    BY <2>1, <2>2, <2>3 DEF LeaseInv, OnTime
  <2>4. CASE timers'[v] # timers[v]
    <3>1. PICK m \in leases[f] :
            m.ticket = v /\ timers'[v] = NewTimer(IF f = DefaultUser THEN NoUser ELSE f, m.exp)
      BY <1>5, <2>4
    <3>2. g = f
      BY <2>1, <3>1 DEF LeaseInv, AtHome, OwnFiles, Sound
    <3>3. m = l
      BY <2>1, <3>1, <3>2 DEF LeaseInv, Single, Sound
    <3>4. QED
      BY <2>2, <3>1, <3>3 DEF NewTimer
  <2>5. QED
    BY <2>3, <2>4
<1>14. Ahead'
  BY <1>1, <1>3 DEF LeaseInv, Ahead
<1>15. Watched'
  <2> SUFFICES ASSUME NEW v \in Tickets, NEW g \in Users, Sound(v, g)' # {}
               PROVE  \/ g \in boot' \/ timers'[v] # NoTimer
                      \/ \E b \in Actors : op[b].kind = "revoke" /\ op[b].ticket = v
    BY <1>1 DEF Watched
  <2>1. CASE g = f
    BY <1>6, <2>1
  <2>2. CASE g # f
    <3>1. \/ g \in boot' \/ timers[v] # NoTimer
          \/ \E b \in Actors : op[b].kind = "revoke" /\ op[b].ticket = v
      BY <1>1, <1>3, <2>2 DEF LeaseInv, Watched
    <3>2. timers[v] # NoTimer => timers'[v] # NoTimer
      BY <1>4, <1>5 DEF LeaseInv, AtHome
    <3>3. QED
      BY <3>1, <3>2
  <2>3. QED
    BY <2>1, <2>2
<1>16. Gone'
  BY <1>1, <1>3 DEF LeaseInv, Gone
<1>17. QED
  BY <1>7, <1>8, <1>9, <1>10, <1>11, <1>12, <1>13, <1>14, <1>15, <1>16 DEF LeaseInv

LEMMA TickKeeps == Serial /\ TypeOK /\ LeaseInv /\ Tick => LeaseInv'
<1> SUFFICES ASSUME Serial, TypeOK, LeaseInv, Tick PROVE LeaseInv'
  OBVIOUS
<1>1. /\ now' = now + 1 /\ now \in Nat
      /\ \A h \in Handlers : ~Busy(Handler(h))
      /\ UNCHANGED <<leases, timers, op, boot, sent, failed>>
  BY DEF Tick, TypeOK
<1>2. \A v \in Tickets, g \in Users : Sound(v, g)' = Sound(v, g)
  BY <1>1 DEF Sound
<1>3. AtHome' /\ Asked' /\ Called' /\ Undisturbed'
  BY <1>1 DEF LeaseInv, AtHome, Asked, Called, Undisturbed, Busy
<1>4. ScannedFirst' /\ Single' /\ Ahead'
  BY <1>1, <1>2 DEF LeaseInv, ScannedFirst, Single, Ahead, Busy
<1>5. OnTime'
  <2>1. \A v \in Tickets, g \in Users : \A l \in Sound(v, g) : l.exp \in Nat
    <3>1. \A g \in Users : leases[g] \subseteq Leases
      BY DEF TypeOK
    <3>2. QED
      BY <3>1, ExpiriesTyped DEF Sound, Leases
  <2>2. QED
    BY <1>1, <1>2, <2>1 DEF LeaseInv, OnTime, Busy
<1>6. Watched' /\ Gone'
  BY <1>1, <1>2 DEF LeaseInv, Watched, Gone
<1>7. QED
  BY <1>3, <1>4, <1>5, <1>6 DEF LeaseInv

LEMMA StepKeeps == OwnFiles /\ Serial /\ TypeOK /\ LeaseInv /\ [Next]_vars => LeaseInv'
<1> SUFFICES ASSUME OwnFiles, Serial, TypeOK, LeaseInv, [Next]_vars PROVE LeaseInv'
  OBVIOUS
<1>1. CASE PanelNext
  BY <1>1, SendAuthorizeKeeps, SendRevokeKeeps DEF PanelNext
<1>2. CASE \E a \in Actors : ActorStep(a)
  BY <1>2, GrantKeeps, RevokeKeeps DEF ActorStep
<1>3. CASE \E t \in Tickets : Fire(t)
  BY <1>3, FireKeeps
<1>4. CASE \E f \in Users : ReconcileStep(f)
  BY <1>4, ReconcileKeeps DEF ReconcileStep
<1>5. CASE Crash
  BY <1>5, CrashKeeps
<1>6. CASE Tick
  BY <1>6, TickKeeps
<1>7. CASE UNCHANGED vars
  <2>1. UNCHANGED <<now, leases, timers, op, boot, sent, failed>>
    BY <1>7 DEF vars
  <2>2. \A v \in Tickets, g \in Users : Sound(v, g)' = Sound(v, g)
    BY <2>1 DEF Sound
  <2>3. AtHome' /\ Asked' /\ Called' /\ Undisturbed'
    BY <2>1 DEF LeaseInv, AtHome, Asked, Called, Undisturbed, Busy
  <2>4. ScannedFirst' /\ Single' /\ OnTime' /\ Ahead' /\ Watched' /\ Gone'
    BY <2>1, <2>2 DEF LeaseInv, ScannedFirst, Single, OnTime, Ahead, Watched, Gone, Busy
  <2>5. QED
    BY <2>3, <2>4 DEF LeaseInv
<1>8. QED
  BY <1>1, <1>2, <1>3, <1>4, <1>5, <1>6, <1>7 DEF Next

LEMMA LeasesKept == ASSUME OwnFiles, Serial PROVE Spec => [](TypeOK /\ LeaseInv)
<1>1. Init => TypeOK /\ LeaseInv
  BY InitTyped, InitHolds
<1>2. TypeOK /\ LeaseInv /\ [Next]_vars => (TypeOK /\ LeaseInv)'
  BY StepTyped, StepKeeps
<1>3. QED
  BY <1>1, <1>2, PTL DEF Spec

\* A lease on disk has a timer that ends it, not later than it was granted for,
\* is being revoked, or is in a file the start has yet to scan, unless a read or
\* write of its file failed.
THEOREM GuardedCorrect == ASSUME OwnFiles, Serial PROVE Spec => []LeaseGuarded
<1>1. TypeOK /\ LeaseInv => LeaseGuarded
  <2> SUFFICES ASSUME TypeOK, LeaseInv, NEW f \in Users, NEW l \in leases[f],
                      l.ticket \notin failed, f \notin boot
               PROVE  TimerGuards(l, f) \/ RevokeGuards(l, f)
    BY DEF LeaseGuarded
  <2>1. PICK t \in Tickets : t = l.ticket
    BY DEF TypeOK, Leases
  <2>2. l \in Sound(t, f) /\ Home(t, f) /\ l.exp \in Nat
    <3>1. leases[f] \subseteq Leases
      BY DEF TypeOK
    <3>2. QED
      BY <2>1, <3>1, ExpiriesTyped DEF Sound, LeaseInv, AtHome, Leases
  <2>3. ASSUME NEW a \in Actors, op[a].kind = "revoke", op[a].ticket = t
        PROVE  RevokeGuards(l, f)
    BY <2>1, <2>2, <2>3 DEF LeaseInv, Ahead, RevokeGuards
  <2>4. CASE timers[t] # NoTimer /\ ~timers[t].fired
    <3>1. timers[t].user \in Users \cup {NoUser} /\ Home(t, FileOf(timers[t].user))
      BY <2>4 DEF TypeOK, Timers, LeaseInv, AtHome
    <3>2. \E i \in DOMAIN Walk(timers[t].user) : Walk(timers[t].user)[i] = f
      BY <2>2, <3>1, OnTheWalk
    <3>3. timers[t].exp <= l.exp
      BY <2>2, <2>4 DEF LeaseInv, OnTime
    <3>4. QED
      BY <2>1, <2>4, <3>2, <3>3 DEF TimerGuards
  <2>5. CASE timers[t] # NoTimer /\ timers[t].fired
    <3>1. op[Callback(t)].kind = "revoke" /\ op[Callback(t)].ticket = t
      BY <2>5 DEF LeaseInv, Called
    <3>2. QED
      BY <2>3, <3>1, ActorNames
  <2>6. CASE timers[t] = NoTimer
    <3>1. \E a \in Actors : op[a].kind = "revoke" /\ op[a].ticket = t
      BY <2>2, <2>6 DEF LeaseInv, Watched
    <3>2. QED
      BY <2>3, <3>1
  <2>7. QED
    BY <2>4, <2>5, <2>6
<1>2. QED
  BY <1>1, LeasesKept, PTL

\* What the panel revoked last is nowhere once every request for it is through,
\* whatever crashed in between, unless a read or write of its file failed.
THEOREM RevokedCorrect == ASSUME OwnFiles, Serial PROVE Spec => []RevokedIsGone
<1>1. TypeOK /\ LeaseInv => RevokedIsGone
  <2> SUFFICES ASSUME LeaseInv, NEW t \in Tickets, NEW f \in Users, NEW l \in leases[f],
                      sent[t] = "revoke", ~InFlight(t), t \notin failed, l.ticket = t
               PROVE  FALSE
    BY DEF RevokedIsGone
  <2>1. l \in Sound(t, f)
    BY DEF Sound
  <2>2. PICK h \in Handlers : op[Handler(h)].kind = "revoke" /\ op[Handler(h)].ticket = t
    BY <2>1 DEF LeaseInv, Gone
  <2>3. QED
    BY <2>2, ActorNames DEF InFlight, Busy
<1>2. QED
  BY <1>1, LeasesKept, PTL

\* A lease with time left is taken by who works for its ticket, and that is a
\* handler.
LEMMA TakenByHandlers ==
  ASSUME OwnFiles, TypeOK, LeaseInv, [Next]_vars, NEW f \in Users,
         NEW l \in leases[f], l \notin leases'[f], ~(l.exp <= now), l.ticket \notin failed'
  PROVE  \E h \in Handlers : op[Handler(h)].ticket = l.ticket /\ op'[Handler(h)] # op[Handler(h)]
<1>1. PICK t \in Tickets : t = l.ticket
  BY DEF TypeOK, Leases
<1>2. l \in Sound(t, f)
  <2>1. failed \subseteq failed' \/ leases' = leases
    BY DEF Next, vars, PanelNext, SendAuthorize, SendRevoke, ActorStep, Authorize, AuthorizeBeside,
           AuthorizeClobbers, AuthorizeFails, RevokeFile, RevokeFails, Fire, ReconcileStep,
           Reconcile, ReconcileFails, Crash, Tick
  <2>2. QED
    BY <1>1, <2>1 DEF Sound
<1>3. ASSUME NEW a \in Actors, Busy(a), op[a].ticket = t, op'[a] # op[a]
      PROVE  \E h \in Handlers : op[Handler(h)].ticket = l.ticket /\ op'[Handler(h)] # op[Handler(h)]
  <2>1. ~Busy(Callback(t))
    BY <1>2 DEF LeaseInv, OnTime
  <2>2. \E h \in Handlers : a = Handler(h)
    BY <1>3, <2>1, Workers DEF LeaseInv
  <2>3. QED
    BY <1>1, <1>3, <2>2
<1>4. ASSUME NEW a \in Actors, Authorize(a) \/ AuthorizeFails(a)
      PROVE  \E h \in Handlers : op[Handler(h)].ticket = l.ticket /\ op'[Handler(h)] # op[Handler(h)]
  <2>1. op[a].kind = "authorize" /\ op[a].ticket \in Tickets /\ op'[a].kind = "done"
    BY <1>4, Finishes DEF Authorize, AuthorizeFails, TypeOK, Busy
  <2>2. leases'[f] = leases[f] \/ Without(leases[f], op[a].ticket) \subseteq leases'[f]
    BY <1>4 DEF Authorize, AuthorizeFails, TypeOK
  <2>3. Without(leases[f], op[a].ticket) = {m \in leases[f] : m.ticket # op[a].ticket}
    BY <2>1, OwnOnly DEF TypeOK
  <2>4. op[a].ticket = t
    BY <1>1, <2>2, <2>3
  <2>5. QED
    BY <1>3, <2>1, <2>4 DEF Busy
<1>5. ASSUME NEW a \in Actors, RevokeFile(a)
      PROVE  \E h \in Handlers : op[Handler(h)].ticket = l.ticket /\ op'[Handler(h)] # op[Handler(h)]
  <2>1. op[a].kind = "revoke" /\ op[a].ticket \in Tickets /\ op' = Advance(a) /\ op[a].at \in Nat
    BY <1>5 DEF RevokeFile, TypeOK, Busy, Ops
  <2>2. op'[a] # op[a]
    BY <2>1, Advances
  <2>3. leases'[f] = leases[f] \/ leases'[f] = Without(leases[f], op[a].ticket)
    BY <1>5 DEF RevokeFile, TypeOK
  <2>4. Without(leases[f], op[a].ticket) = {m \in leases[f] : m.ticket # op[a].ticket}
    BY <2>1, OwnOnly DEF TypeOK
  <2>5. op[a].ticket = t
    BY <1>1, <2>3, <2>4
  <2>6. QED
    BY <1>3, <2>1, <2>2, <2>5 DEF Busy
<1>6. ASSUME NEW a \in Actors, AuthorizeClobbers(a)
      PROVE  \E h \in Handlers : op[Handler(h)].ticket = l.ticket /\ op'[Handler(h)] # op[Handler(h)]
  <2>1. op[a].kind = "authorize" /\ op'[a].kind = "done"
    BY <1>6, Finishes DEF AuthorizeClobbers, TypeOK, Busy
  <2>2. op[a].ticket = t
    BY <1>1, <1>6 DEF AuthorizeClobbers, TypeOK
  <2>3. QED
    BY <1>3, <2>1, <2>2 DEF Busy
<1>7. ASSUME NEW a \in Actors, AuthorizeBeside(a) \/ RevokeFails(a) PROVE FALSE
  BY <1>7 DEF AuthorizeBeside, RevokeFails, TypeOK
<1>8. ASSUME NEW g \in Users, ReconcileStep(g) PROVE FALSE
  BY <1>8 DEF ReconcileStep, Reconcile, ReconcileFails, Active, Expired, TypeOK
<1>9. ~PanelNext /\ ~Crash /\ ~Tick /\ ~UNCHANGED vars /\ \A v \in Tickets : ~Fire(v)
  BY DEF PanelNext, SendAuthorize, SendRevoke, Crash, Tick, vars, Fire
<1>10. QED
  BY <1>4, <1>5, <1>6, <1>7, <1>8, <1>9 DEF Next, ActorStep

\* No timer of an earlier lease takes a lease away, nor does a request for another
\* ticket unless a read or write of its file failed: it goes when its time has
\* come or its own ticket's request says so.
THEOREM LifetimeCorrect == ASSUME OwnFiles, Serial PROVE Spec => LivesToExpiry
<1> DEFINE Lives(f) ==
      \A l \in leases[f] \ leases'[f] :
        \/ l.exp <= now
        \/ l.ticket \in failed'
        \/ \E h \in Handlers : op[Handler(h)].ticket = l.ticket /\ op'[Handler(h)] # op[Handler(h)]
<1>1. TypeOK /\ LeaseInv /\ [Next]_vars => \A f \in Users : Lives(f)
  BY TakenByHandlers
<1>2. Spec => [](TypeOK /\ LeaseInv)
  BY LeasesKept
<1>3. Spec => [][\A f \in Users : Lives(f)]_vars
  <2>1. TypeOK /\ LeaseInv /\ [Next]_vars => [\A f \in Users : Lives(f)]_vars
    BY <1>1
  <2>2. QED
    BY <1>2, <2>1, PTL DEF Spec
<1>4. QED
  BY <1>3 DEF LivesToExpiry
=============================================================================
