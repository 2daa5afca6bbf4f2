------------------------------ MODULE SSHLease ------------------------------
(***************************************************************************)
(* Leased SSH keys: sshauth/sshauth.go and the two handlers of             *)
(* server/websocket.go that call it, on Unix.                              *)
(*                                                                         *)
(* A lease is a tag line "# MANGOHUB_TICKET:<ticket> EXP:<time>" in an     *)
(* authorized_keys file and the key line that follows it.  AuthorizeKey    *)
(* writes one and starts a timer that revokes it; RevokeKey removes the    *)
(* leases of a ticket; ReconcileLeases restores timers after a restart.    *)
(* Each of them holds leaseMu for one file at a time, and a file is        *)
(* replaced by a rename, so a step is one file and a crash comes between   *)
(* steps.  Timers are kept by ticket, not by file.                         *)
(*                                                                         *)
(* A file is the set of its leases: the other lines stay as they are.  The *)
(* files are named after their users.                                      *)
(***************************************************************************)
EXTENDS Naturals, Sequences

CONSTANTS
  Tickets, Users,
  Handlers,     \* goroutines of agent.ssh.authorize and agent.ssh.revoke events
  DefaultUser,  \* the user the agent runs as
  ScanOrder,    \* the files RevokeKey walks when it knows no user: the default
                \* one, /home/*/.ssh/authorized_keys and /root's
  NamePrefix,   \* the pairs <<t, u>> of tickets where t is a prefix of u
  Grants,       \* the pairs <<ticket, user>> the panel may ask for
  Expiries,     \* the times a lease may end at
  Serial,       \* does the panel wait until its last request for a ticket is through?
  MaxTime, MaxCrashes,
  NoUser, NoTimer, NoTicket

ASSUME DefaultTyped == DefaultUser \in Users /\ NoUser \notin Users
ASSUME ScanOrderTyped ==
  /\ ScanOrder \in Seq(Users) /\ Len(ScanOrder) > 0
  /\ ScanOrder[1] = DefaultUser
ASSUME NamePrefixTyped ==
  /\ NamePrefix \subseteq Tickets \X Tickets
  /\ \A t \in Tickets : <<t, t>> \in NamePrefix
ASSUME GrantsTyped == Grants \subseteq Tickets \X (Users \cup {NoUser})
ASSUME ExpiriesTyped == Expiries \subseteq Nat \ {0}
ASSUME BoundsTyped == MaxTime \in Nat /\ MaxCrashes \in Nat /\ Serial \in BOOLEAN
ASSUME NoTicketTyped == NoTicket \notin Tickets

VARIABLES
  now,      \* the clock
  leases,   \* user -> the leases of that user's file
  timers,   \* leaseTimers; a timer that fired stays until its callback deletes it
  op,       \* what each handler and each timer callback is doing
  boot,     \* the files ReconcileLeases has yet to scan; {} when the agent runs
  crashes,
  sent,     \* history: the last request for a ticket, "lost" if it has failed
  failed    \* history: the tickets a failed read or write has left behind, doubled
            \* or dropped

vars == <<now, leases, timers, op, boot, crashes, sent, failed>>

Leases == [ticket : Tickets, exp : Expiries]
Timers == [user : Users \cup {NoUser}, exp : Expiries, fired : BOOLEAN]
ASSUME NoTimerTyped == NoTimer \notin Timers

Handler(h) == <<"handler", h>>
Callback(t) == <<"timer", t>>
Actors == ({"handler"} \X Handlers) \cup ({"timer"} \X Tickets)
Ops == [kind : {"idle", "authorize", "revoke", "done"}, ticket : Tickets \cup {NoTicket},
        user : Users \cup {NoUser}, exp : Expiries \cup {0}, at : Nat]
Scanned == {ScanOrder[i] : i \in DOMAIN ScanOrder}

\* ResolveAuthorizedKeysPath.
FileOf(u) == IF u = NoUser THEN DefaultUser ELSE u

\* The files RevokeKey(ticket, u) visits one after the other.
Walk(u) == IF u = NoUser THEN ScanOrder ELSE <<u>>

\* f is a file the panel may ask for ticket t to be put into.
Home(t, f) == \E u \in Users \cup {NoUser} : <<t, u>> \in Grants /\ FileOf(u) = f

\* A ticket is for one file, which is one RevokeKey walks to without a user, and
\* no ticket is a prefix of another one.
OwnFiles ==
  /\ \A t \in Tickets : \A f, g \in Users : Home(t, f) /\ Home(t, g) => f = g
  /\ \A t \in Tickets : \A f \in Users : Home(t, f) => f \in Scanned
  /\ \A t, u \in Tickets : <<t, u>> \in NamePrefix => t = u

Idle == [kind |-> "idle", ticket |-> NoTicket, user |-> NoUser, exp |-> 0, at |-> 1]
Busy(a) == op[a].kind \in {"authorize", "revoke"}
InFlight(t) == \E a \in Actors : Busy(a) /\ op[a].ticket = t

Init ==
  /\ now = 0
  /\ leases = [u \in Users |-> {}]
  /\ timers = [t \in Tickets |-> NoTimer]
  /\ op = [a \in Actors |-> Idle]
  /\ boot = {}
  /\ crashes = 0
  /\ sent = [t \in Tickets |-> "none"]
  /\ failed = {}

\* removeKeyByTicketLocked: every tag line that starts with the ticket goes, and
\* the key line after it.
Without(L, t) == {l \in L : <<t, l.ticket>> \notin NamePrefix}

(***************************************************************************)
(* The panel's requests.  A serial panel sends one when its last one for   *)
(* the ticket is through, and renews a lease before it has run out.        *)
(***************************************************************************)

MaySend(h, t) ==
  /\ boot = {}
  /\ op[Handler(h)].kind = "idle"
  /\ Serial => ~InFlight(t)

SendAuthorize(h, t, u, e) ==
  /\ MaySend(h, t)
  /\ <<t, u>> \in Grants
  /\ Serial => (timers[t] # NoTimer => timers[t].exp > now)
  /\ op' = [op EXCEPT ![Handler(h)] =
              [kind |-> "authorize", ticket |-> t, user |-> u, exp |-> e, at |-> 1]]
  /\ sent' = [sent EXCEPT ![t] = "authorize"]
  /\ UNCHANGED <<now, leases, timers, boot, crashes, failed>>

SendRevoke(h, t) ==
  /\ MaySend(h, t)
  /\ op' = [op EXCEPT ![Handler(h)] =
              [kind |-> "revoke", ticket |-> t, user |-> NoUser, exp |-> 0, at |-> 1]]
  /\ sent' = [sent EXCEPT ![t] = "revoke"]
  /\ UNCHANGED <<now, leases, timers, boot, crashes, failed>>

(***************************************************************************)
(* authorizeKeyAtPath.                                                     *)
(***************************************************************************)

NewTimer(u, e) == [user |-> u, exp |-> e, fired |-> FALSE]
Finish(a) == [op EXCEPT ![a].kind = "done"]

\* Mutant: a timer the ticket already has is kept.
AuthorizeKeepsTimer(a) ==
  LET o == op[a]
  IN /\ o.kind = "authorize"
     /\ leases' = [leases EXCEPT ![FileOf(o.user)] =
                     Without(@, o.ticket) \cup {[ticket |-> o.ticket, exp |-> o.exp]}]
     /\ timers' = [timers EXCEPT ![o.ticket] = IF @ = NoTimer THEN NewTimer(o.user, o.exp) ELSE @]
     /\ op' = Finish(a)
     /\ UNCHANGED <<now, boot, crashes, sent, failed>>

\* The old lease is removed, the new one written and the timer set.
Authorize(a) ==
  LET o == op[a]
  IN /\ o.kind = "authorize"
     /\ leases' = [leases EXCEPT ![FileOf(o.user)] =
                     Without(@, o.ticket) \cup {[ticket |-> o.ticket, exp |-> o.exp]}]
     /\ timers' = [timers EXCEPT ![o.ticket] = NewTimer(o.user, o.exp)]
     /\ op' = Finish(a)
     /\ UNCHANGED <<now, boot, crashes, sent, failed>>

\* The error of the removal is ignored: a lease of the ticket stays beside the
\* new one.
AuthorizeBeside(a) ==
  LET o == op[a]
  IN /\ o.kind = "authorize"
     /\ Without(leases[FileOf(o.user)], o.ticket) # leases[FileOf(o.user)]
     /\ leases' = [leases EXCEPT ![FileOf(o.user)] =
                     @ \cup {[ticket |-> o.ticket, exp |-> o.exp]}]
     /\ timers' = [timers EXCEPT ![o.ticket] = NewTimer(o.user, o.exp)]
     /\ op' = Finish(a)
     /\ failed' = failed \cup {o.ticket}
     /\ UNCHANGED <<now, boot, crashes, sent>>

\* The file cannot be read, which is taken for an empty one, and can be written:
\* the new lease replaces all there was.
AuthorizeClobbers(a) ==
  LET o == op[a]
      f == FileOf(o.user)
  IN /\ o.kind = "authorize"
     /\ leases' = [leases EXCEPT ![f] = {[ticket |-> o.ticket, exp |-> o.exp]}]
     /\ timers' = [timers EXCEPT ![o.ticket] = NewTimer(o.user, o.exp)]
     /\ op' = Finish(a)
     /\ failed' = failed \cup ({l.ticket : l \in leases[f]} \ {o.ticket})
     /\ UNCHANGED <<now, boot, crashes, sent>>

\* The new lease cannot be written: the timer is left as it was.
AuthorizeFails(a) ==
  LET o == op[a]
      f == FileOf(o.user)
  IN /\ o.kind = "authorize"
     /\ \E L \in {leases[f], Without(leases[f], o.ticket)} : leases' = [leases EXCEPT ![f] = L]
     /\ op' = Finish(a)
     /\ UNCHANGED <<now, timers, boot, crashes, sent, failed>>

(***************************************************************************)
(* RevokeKey, for the panel and for a timer.                               *)
(***************************************************************************)

\* On to the next file, or the end.
Advance(a) ==
  IF op[a].at < Len(Walk(op[a].user)) THEN [op EXCEPT ![a].at = @ + 1]
  ELSE IF a[1] = "timer" THEN [op EXCEPT ![a] = Idle]
  ELSE Finish(a)

\* Mutant: the first file is the last.
RevokeOneFile(a) ==
  LET o == op[a]
      f == Walk(o.user)[o.at]
  IN /\ o.kind = "revoke"
     /\ timers' = [timers EXCEPT ![o.ticket] = NoTimer]
     /\ leases' = [leases EXCEPT ![f] = Without(@, o.ticket)]
     /\ op' = IF a[1] = "timer" THEN [op EXCEPT ![a] = Idle] ELSE Finish(a)
     /\ UNCHANGED <<now, boot, crashes, sent, failed>>

\* revokeKeyAtPath: the timer goes first, whatever file it was for.
RevokeFile(a) ==
  LET o == op[a]
      f == Walk(o.user)[o.at]
  IN /\ o.kind = "revoke"
     /\ timers' = [timers EXCEPT ![o.ticket] = NoTimer]
     /\ leases' = [leases EXCEPT ![f] = Without(@, o.ticket)]
     /\ op' = Advance(a)
     /\ UNCHANGED <<now, boot, crashes, sent, failed>>

\* The file cannot be read or written: the timer is gone, and nobody tries again.
RevokeFails(a) ==
  LET o == op[a]
      f == Walk(o.user)[o.at]
  IN /\ o.kind = "revoke"
     /\ Without(leases[f], o.ticket) # leases[f]
     /\ timers' = [timers EXCEPT ![o.ticket] = NoTimer]
     /\ op' = Advance(a)
     /\ failed' = failed \cup {l.ticket : l \in leases[f] \ Without(leases[f], o.ticket)}
     /\ UNCHANGED <<now, leases, boot, crashes, sent>>

\* A timer starts its callback, which waits for leaseMu like everybody.  The
\* last callback of the ticket is through by then.
Fire(t) ==
  /\ timers[t] # NoTimer
  /\ ~timers[t].fired
  /\ timers[t].exp <= now
  /\ ~Busy(Callback(t))
  /\ timers' = [timers EXCEPT ![t].fired = TRUE]
  /\ op' = [op EXCEPT ![Callback(t)] =
              [kind |-> "revoke", ticket |-> t, user |-> timers[t].user, exp |-> 0, at |-> 1]]
  /\ UNCHANGED <<now, leases, boot, crashes, sent, failed>>

(***************************************************************************)
(* Crashes, and ReconcileLeases at the next start.                         *)
(***************************************************************************)

\* The tickets with two leases in one file.
Doubled ==
  {t \in Tickets : \E f \in Users : \E l, m \in leases[f] : l # m /\ l.ticket = t /\ m.ticket = t}

\* Only the files survive.
Crash ==
  /\ crashes < MaxCrashes
  /\ crashes' = crashes + 1
  /\ timers' = [t \in Tickets |-> NoTimer]
  /\ op' = [a \in Actors |->
              IF a[1] = "timer" THEN Idle ELSE IF Busy(a) THEN [op[a] EXCEPT !.kind = "done"] ELSE op[a]]
  /\ sent' = [t \in Tickets |-> IF InFlight(t) \/ t \in failed THEN "lost" ELSE sent[t]]
  /\ boot' = Scanned
  /\ failed' = Doubled
  /\ UNCHANGED <<now, leases>>

Expired(f) == {l \in leases[f] : l.exp <= now}
Active(f) == leases[f] \ Expired(f)

\* The timers of the leases that are left, for tickets without a timer; of two
\* leases of one ticket the later line counts, which may be either.
Rearmed(f) ==
  {[t \in Tickets |-> IF timers[t] = NoTimer /\ t \in DOMAIN pick
                      THEN NewTimer(IF f = DefaultUser THEN NoUser ELSE f, pick[t].exp)
                      ELSE timers[t]] :
     pick \in {p \in [{l.ticket : l \in Active(f)} -> Active(f)] :
                 \A t \in DOMAIN p : p[t].ticket = t}}

\* Mutant: timers are not restored.
ReconcileForgets(f) ==
  /\ f \in boot
  /\ leases' = [leases EXCEPT ![f] = Active(f)]
  /\ boot' = boot \ {f}
  /\ UNCHANGED <<now, timers, op, crashes, sent, failed>>

Reconcile(f) ==
  /\ f \in boot
  /\ leases' = [leases EXCEPT ![f] = Active(f)]
  /\ timers' \in Rearmed(f)
  /\ boot' = boot \ {f}
  /\ UNCHANGED <<now, op, crashes, sent, failed>>

\* The file cannot be read, or what has expired cannot be taken out of it: no
\* timer is restored, whether or not its lease has expired.
ReconcileFails(f) ==
  /\ f \in boot
  /\ boot' = boot \ {f}
  /\ failed' = failed \cup {l.ticket : l \in leases[f]}
  /\ UNCHANGED <<now, leases, timers, op, crashes, sent>>

\* For a serial panel handlers are prompt: no second passes while one works.
Tick ==
  /\ now < MaxTime
  /\ Serial => \A h \in Handlers : ~Busy(Handler(h))
  /\ now' = now + 1
  /\ UNCHANGED <<leases, timers, op, boot, crashes, sent, failed>>

PanelNext ==
  \E h \in Handlers, t \in Tickets :
    \/ \E u \in Users \cup {NoUser}, e \in Expiries : SendAuthorize(h, t, u, e)
    \/ SendRevoke(h, t)

ActorStep(a) ==
  \/ Authorize(a) \/ AuthorizeBeside(a) \/ AuthorizeClobbers(a) \/ AuthorizeFails(a)
  \/ RevokeFile(a) \/ RevokeFails(a)

ReconcileStep(f) == Reconcile(f) \/ ReconcileFails(f)

Next ==
  \/ PanelNext
  \/ \E a \in Actors : ActorStep(a)
  \/ \E t \in Tickets : Fire(t)
  \/ \E f \in Users : ReconcileStep(f)
  \/ Crash
  \/ Tick

\* Goroutines that can run do, timers fire and the start goes on.  Nobody has to
\* send a request, and time need not pass: the properties are about what follows
\* once it has.
Fairness ==
  /\ \A a \in Actors : WF_vars(ActorStep(a))
  /\ \A t \in Tickets : WF_vars(Fire(t))
  /\ \A f \in Users : WF_vars(ReconcileStep(f))

Spec == Init /\ [][Next]_vars
FairSpec == Spec /\ Fairness

(***************************************************************************)
(* Properties.                                                             *)
(***************************************************************************)

\* The values the code can give its variables.
TypeOK ==
  /\ now \in 0..MaxTime
  /\ leases \in [Users -> SUBSET Leases]
  /\ timers \in [Tickets -> Timers \cup {NoTimer}]
  /\ op \in [Actors -> Ops]
  /\ \A a \in Actors :
       /\ Busy(a) => op[a].ticket \in Tickets
       /\ op[a].kind = "authorize" => op[a].exp \in Expiries
       /\ op[a].kind = "revoke" => op[a].at \in DOMAIN Walk(op[a].user)
  /\ boot \subseteq Users
  /\ crashes \in 0..MaxCrashes
  /\ sent \in [Tickets -> {"none", "authorize", "revoke", "lost"}]
  /\ failed \subseteq Tickets

\* A timer that will revoke lease l of file f, and not too late.
TimerGuards(l, f) ==
  LET timer == timers[l.ticket]
  IN /\ timer # NoTimer
     /\ ~timer.fired
     /\ timer.exp <= l.exp
     /\ \E i \in DOMAIN Walk(timer.user) : Walk(timer.user)[i] = f

\* A RevokeKey under way that has yet to come to lease l of file f.
RevokeGuards(l, f) ==
  \E a \in Actors :
    /\ op[a].kind = "revoke"
    /\ op[a].ticket = l.ticket
    /\ \E i \in op[a].at .. Len(Walk(op[a].user)) : Walk(op[a].user)[i] = f

\* "Inject the public key as a lease and set its expiry" (AuthorizeKey): a lease
\* on disk always has a timer that will end it, is being revoked, or is in a
\* file the start has yet to scan, unless a read or write of its file failed.
LeaseGuarded ==
  \A f \in Users : \A l \in leases[f] :
    l.ticket \in failed \/ f \in boot \/ TimerGuards(l, f) \/ RevokeGuards(l, f)

\* A lease ends because its time has come or because the panel asked for it or
\* for another one of its ticket; no timer of an earlier lease takes it away, nor
\* does a request for another ticket, unless a read or write of its file failed.
LivesToExpiry ==
  [][\A f \in Users : \A l \in leases[f] \ leases'[f] :
       \/ l.exp <= now
       \/ l.ticket \in failed'
       \/ \E h \in Handlers : op[Handler(h)].ticket = l.ticket /\ op'[Handler(h)] # op[Handler(h)]]_vars

\* What the panel revoked last is nowhere once every request for it is through,
\* whatever crashed in between, unless a read or write of its file failed.
RevokedIsGone ==
  \A t \in Tickets : (sent[t] = "revoke" /\ ~InFlight(t) /\ t \notin failed) =>
    \A f \in Users : \A l \in leases[f] : l.ticket # t

\* A lease that has run out ends, over crashes and restarts, unless a read or
\* write of its file failed.
ExpiredEnds ==
  \A f \in Users : \A t \in Tickets :
    (\E l \in leases[f] : l.ticket = t /\ l.exp <= now)
      ~> (t \in failed \/ \A l \in leases[f] : l.ticket = t => l.exp > now)
=============================================================================
