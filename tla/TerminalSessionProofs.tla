------------------------ MODULE TerminalSessionProofs ------------------------
(***************************************************************************)
(* TerminalSession for any number of connections and request ids: its      *)
(* types, that its shells, timers and connections are accounted for, and   *)
(* that input and output belong together.                                  *)
(*                                                                         *)
(* A session is unborn (its shell starts), then in the map, then taken out *)
(* of it by one closer, then closed; or its shell is an orphan's.  What    *)
(* makes the invariant inductive is that no session goes back.  Its parts  *)
(* are stated for a session s and whoever works on it.                     *)
(***************************************************************************)
EXTENDS TerminalSession, TLAPS

Unborn(s) == pc[s] \in {"idle", "publish"}
Busy(a) == cl[a] \in {"mark", "conn", "term"}
By(a, kind, c) == a[1] = kind /\ a[2] = c
Of(a, s) == cl[a] # "none" /\ (IF a[1] = "input" THEN ses[a[2]] = s ELSE a[2] = s)

\* The map: a session is there under the request id of its own connection.
Owner(s) == \A r \in Requests : sessions[r] = s => req[s] = r /\ ~Unborn(s)

\* StartTerminal: who works on a session, and who closes one.
Handler(c) ==
  /\ ses[c] # NoSession <=> pc[c] \in {"displace", "input", "close"}
  /\ pc[c] # "idle" => req[c] \in Requests
  /\ pc[c] = "displace" /\ ses[c] = c => rpc[c] = "none"
  /\ \A a \in Closers : By(a, "input", c) /\ cl[a] # "none" => pc[c] = "close"

Handles(c, s) ==
  ses[c] = s =>
    /\ ~Unborn(s)
    /\ (pc[c] = "close" /\ Live(s)) => \E a \in Closers : By(a, "input", c) /\ cl[a] = "enter"

\* The session of a closer is or was in the map; beyond it the closer is alone with it.
Closing(a, s) ==
  Of(a, s) =>
    /\ ~Unborn(s)
    /\ Busy(a) =>
         /\ ~Live(s) /\ closes[s] = 0
         /\ cl[a] = "mark" => s \notin removed
         /\ \A b \in Closers : Busy(b) /\ Of(b, s) => b = a

Counted(s) ==
  /\ closes[s] <= 1 /\ (Live(s) => closes[s] = 0)
  /\ Unborn(s) => closes[s] = 0 /\ timer[s] = "nil" /\ rpc[s] = "none"

Guarded(s) ==
  Live(s) =>
    /\ s \notin removed
    /\ conn[s] = NoConn => timer[s] = "running" \/ \E a \in Closers : By(a, "timer", s) /\ cl[a] # "none"
    /\ conn[s] # NoConn => timer[s] = "nil"
    /\ \A c \in Conns : conn[s] = c => ses[c] = s

Kept(s) ==
  shell[s] = "running" => pc[s] = "publish" \/ Live(s) \/ \E a \in Closers : Busy(a) /\ Of(a, s)

\* readOutput has a connection to write to, and closes the session after its last step only.
Writes(s) ==
  /\ rpc[s] = "write" => rconn[s] # NoConn
  /\ \A a \in Closers : By(a, "reader", s) /\ cl[a] # "none" => rpc[s] = "done"

\* An open connection that does not have its session any more is being closed.
Displaced(c, s) ==
  (ses[c] = s /\ pc[c] \in {"displace", "input"} /\ sock[c] = "open" /\ conn[s] # c) =>
    \/ \E d \in Conns : pc[d] = "displace" /\ old[d] = c
    \/ \E a \in Closers : cl[a] = "conn" /\ clConn[a] = c

SessionInv ==
  /\ TypeOK
  /\ \A c \in Conns : Handler(c)
  /\ \A c \in Conns, s \in Sessions : Handles(c, s) /\ Displaced(c, s)
  /\ \A a \in Closers, s \in Sessions : Closing(a, s)
  /\ \A s \in Sessions : Owner(s) /\ Counted(s) /\ Guarded(s) /\ Kept(s) /\ Writes(s)

(***************************************************************************)
(* Closers are pairs.                                                      *)
(***************************************************************************)

LEMMA Pairs ==
  /\ \A c \in Conns :
       /\ <<"input", c>> \in Closers /\ <<"input", c>>[1] = "input" /\ <<"input", c>>[2] = c
       /\ <<"reader", c>> \in Closers /\ <<"reader", c>>[1] = "reader" /\ <<"reader", c>>[2] = c
       /\ <<"timer", c>> \in Closers /\ <<"timer", c>>[1] = "timer" /\ <<"timer", c>>[2] = c
       /\ <<"orphan", c>> \in Closers /\ <<"orphan", c>>[1] = "orphan" /\ <<"orphan", c>>[2] = c
  /\ \A a \in Closers : a = <<a[1], a[2]>> /\ a[1] \in {"input", "reader", "timer", "orphan"} /\ a[2] \in Conns
  /\ \A a, b \in Closers : a[1] = b[1] /\ a[2] = b[2] => a = b
BY DEF Closers

LEMMA InitHolds == Init => SessionInv
<1> SUFFICES ASSUME Init PROVE SessionInv
  OBVIOUS
<1> USE Sentinels DEF Sessions
<1>1. TypeOK
  BY DEF Init, TypeOK
<1>2. ASSUME NEW c \in Conns PROVE Handler(c) /\ \A s \in Sessions : Handles(c, s) /\ Displaced(c, s)
  BY Pairs DEF Init, Handler, Handles, Displaced
<1>3. ASSUME NEW a \in Closers, NEW s \in Sessions PROVE Closing(a, s)
  BY DEF Init, Closing, Of
<1>4. ASSUME NEW s \in Sessions PROVE Owner(s) /\ Counted(s) /\ Guarded(s) /\ Kept(s) /\ Writes(s)
  BY DEF Init, Owner, Counted, Guarded, Kept, Writes, Live
<1> QED BY <1>1, <1>2, <1>3, <1>4 DEF SessionInv

\* A session in the map is one of its request id; a closer and an attached connection have one.
LEMMA Standing ==
  ASSUME SessionInv
  PROVE  /\ \A s \in Conns : Live(s) => sessions[req[s]] = s /\ req[s] \in Requests /\ ~Unborn(s)
         /\ \A c \in Conns : pc[c] \in {"displace", "input", "close"} => ses[c] \in Conns
         /\ \A a \in Closers : cl[a] # "none" => SessionOf(a) \in Conns /\ Of(a, SessionOf(a))
<1>1. \A s \in Conns : Live(s) => sessions[req[s]] = s /\ req[s] \in Requests /\ ~Unborn(s)
  BY DEF SessionInv, Owner, Live, Sessions
<1>2. \A c \in Conns : pc[c] \in {"displace", "input", "close"} => ses[c] \in Conns
  BY DEF SessionInv, TypeOK, Sessions, Handler
<1>3. \A a \in Closers : cl[a] # "none" => SessionOf(a) \in Conns /\ Of(a, SessionOf(a))
  <2> SUFFICES ASSUME NEW a \in Closers, cl[a] # "none" PROVE SessionOf(a) \in Conns /\ Of(a, SessionOf(a))
    OBVIOUS
  <2>1. a[2] \in Conns /\ a = <<a[1], a[2]>>
    BY Pairs
  <2>2. CASE a[1] = "input"
    <3>1. pc[a[2]] = "close"
      BY <2>1, <2>2 DEF SessionInv, Handler, By
    <3> QED BY <1>2, <2>1, <2>2, <3>1 DEF SessionOf, Of
  <2>3. CASE a[1] # "input"
    BY <2>1, <2>3 DEF SessionOf, Of
  <2> QED BY <2>2, <2>3
<1> QED BY <1>1, <1>2, <1>3

(***************************************************************************)
(* StartTerminal.                                                          *)
(***************************************************************************)

LEMMA ReattachKeeps ==
  ASSUME SessionInv, NEW c \in Conns, NEW r \in Requests, Reattach(c, r)
  PROVE  SessionInv'
<1> USE Sentinels DEF Sessions
<1> DEFINE x == sessions[r]
<1>1. TypeOK /\ Handler(c) /\ x \in Conns /\ pc[c] = "idle" /\ Unborn(c) /\ (\A a \in Closers : By(a, "input", c) => cl[a] = "none")
  <2>1. TypeOK /\ Handler(c) /\ pc[c] = "idle" /\ x # NoSession
    BY DEF SessionInv, Reattach
  <2>2. x \in Conns
    BY <2>1 DEF TypeOK
  <2> QED BY <2>1, <2>2 DEF Handler, Unborn
<1>2. Live(x) /\ ~Unborn(x) /\ req[x] = r /\ ~Live(c)
  BY <1>1, Standing DEF SessionInv, Owner, Live
<1>3. /\ sessions' = sessions /\ shell' = shell /\ closes' = closes /\ rpc' = rpc /\ rconn' = rconn
      /\ cl' = cl /\ clConn' = clConn /\ removed' = removed \ {x}
      /\ pc' = [pc EXCEPT ![c] = "displace"] /\ ses' = [ses EXCEPT ![c] = x] /\ req' = [req EXCEPT ![c] = r]
      /\ old' = [old EXCEPT ![c] = conn[x]] /\ conn' = [conn EXCEPT ![x] = c]
      /\ timer' = [timer EXCEPT ![x] = "nil"] /\ sock' = [sock EXCEPT ![c] = "open"]
  BY DEF Reattach, Attach, readerVars, closeVars
<1> HIDE DEF x
<1>4. TypeOK'
  BY <1>1, <1>3 DEF TypeOK
<1>5. /\ pc'[c] = "displace" /\ ses'[c] = x /\ req'[c] = r /\ old'[c] = conn[x] /\ conn'[x] = c /\ timer'[x] = "nil"
      /\ \A d \in Conns \ {c} : pc'[d] = pc[d] /\ ses'[d] = ses[d] /\ req'[d] = req[d] /\ old'[d] = old[d] /\ sock'[d] = sock[d]
      /\ \A s \in Conns \ {x} : conn'[s] = conn[s] /\ timer'[s] = timer[s]
  BY <1>1, <1>3 DEF TypeOK
<1>6. /\ \A s \in Conns : Live(s)' <=> Live(s)
      /\ \A s \in Conns : Unborn(s)' <=> Unborn(s) /\ s # c
      /\ \A a \in Closers : Busy(a)' <=> Busy(a)
      /\ \A a \in Closers, s \in Conns : Of(a, s)' <=> Of(a, s)
  BY <1>1, <1>3, <1>5, Pairs DEF Live, Unborn, Busy, Of, By
<1>7. ASSUME NEW d \in Conns PROVE Handler(d)' /\ \A s \in Sessions : Handles(d, s)'
  BY <1>1, <1>2, <1>3, <1>5, <1>6 DEF SessionInv, Handler, Handles
<1>8. ASSUME NEW a \in Closers, NEW s \in Sessions PROVE Closing(a, s)'
  BY <1>3, <1>6 DEF SessionInv, Closing
<1>9. ASSUME NEW s \in Sessions PROVE Owner(s)' /\ Counted(s)'
  BY <1>1, <1>2, <1>3, <1>5, <1>6 DEF SessionInv, Owner, Counted
<1>10. ASSUME NEW s \in Sessions PROVE Guarded(s)' /\ Kept(s)' /\ Writes(s)'
  BY <1>1, <1>2, <1>3, <1>5, <1>6 DEF SessionInv, Handler, Guarded, Kept, Writes
<1>11. ASSUME NEW d \in Conns, NEW s \in Sessions PROVE Displaced(d, s)'
  BY <1>1, <1>2, <1>3, <1>5, <1>6 DEF SessionInv, Displaced
<1> QED BY <1>4, <1>7, <1>8, <1>9, <1>10, <1>11 DEF SessionInv

\* A new session joins the map.
LEMMA PublishKeeps ==
  ASSUME SessionInv, NEW c \in Conns, Publish(c)
  PROVE  SessionInv'
<1> USE Sentinels DEF Sessions
<1>1. TypeOK /\ Handler(c) /\ pc[c] = "publish" /\ Unborn(c) /\ (\A a \in Closers : By(a, "input", c) => cl[a] = "none")
      /\ req[c] \in Requests /\ sessions[req[c]] = NoSession
  BY Pairs DEF SessionInv, TypeOK, Handler, Publish, Unborn
<1>2. /\ ~Live(c) /\ closes[c] = 0 /\ rpc[c] = "none" /\ \A a \in Closers : ~Of(a, c)
      /\ \A d \in Conns : ses[d] # c
  BY <1>1, Standing DEF SessionInv, Counted, Closing, Handles
<1>3. /\ shell' = shell /\ closes' = closes /\ rpc' = rpc /\ rconn' = rconn /\ sock' = sock /\ req' = req
      /\ cl' = cl /\ clConn' = clConn /\ removed' = removed \ {c}
      /\ pc' = [pc EXCEPT ![c] = "displace"] /\ ses' = [ses EXCEPT ![c] = c]
      /\ sessions' = [sessions EXCEPT ![req[c]] = c]
      /\ old' = [old EXCEPT ![c] = conn[c]] /\ conn' = [conn EXCEPT ![c] = c]
      /\ timer' = [timer EXCEPT ![c] = "nil"]
  BY DEF Publish, Attach, readerVars, closeVars
<1>4. TypeOK'
  BY <1>1, <1>3 DEF TypeOK
<1>5. /\ pc'[c] = "displace" /\ ses'[c] = c /\ old'[c] = conn[c] /\ conn'[c] = c /\ timer'[c] = "nil"
      /\ \A d \in Conns \ {c} : /\ pc'[d] = pc[d] /\ ses'[d] = ses[d] /\ old'[d] = old[d]
                                /\ conn'[d] = conn[d] /\ timer'[d] = timer[d]
      /\ sessions'[req[c]] = c /\ \A r \in Requests \ {req[c]} : sessions'[r] = sessions[r]
  BY <1>1, <1>3 DEF TypeOK
<1>6. /\ \A s \in Conns : Live(s)' <=> Live(s) \/ s = c
      /\ \A s \in Conns : Unborn(s)' <=> Unborn(s) /\ s # c
      /\ \A a \in Closers : Busy(a)' <=> Busy(a)
      /\ \A a \in Closers, s \in Conns : Of(a, s)' <=> Of(a, s)
  BY <1>1, <1>2, <1>3, <1>5, Pairs DEF Live, Unborn, Busy, Of, By
<1>7. ASSUME NEW d \in Conns PROVE Handler(d)' /\ \A s \in Sessions : Handles(d, s)'
  <2>1. Handler(d)'
    BY <1>1, <1>2, <1>3, <1>5 DEF SessionInv, Handler
  <2>2. ASSUME NEW s \in Sessions PROVE Handles(d, s)'
    BY <1>1, <1>2, <1>3, <1>5, <1>6 DEF SessionInv, Handles
  <2> QED BY <2>1, <2>2
<1>8. ASSUME NEW a \in Closers, NEW s \in Sessions PROVE Closing(a, s)'
  BY <1>2, <1>3, <1>6 DEF SessionInv, Closing
<1>9. ASSUME NEW s \in Sessions PROVE Owner(s)' /\ Counted(s)'
  BY <1>1, <1>2, <1>3, <1>5, <1>6 DEF SessionInv, Owner, Counted
<1>10. ASSUME NEW s \in Sessions PROVE Guarded(s)' /\ Kept(s)' /\ Writes(s)'
  BY <1>1, <1>2, <1>3, <1>5, <1>6 DEF SessionInv, Handler, Guarded, Kept, Writes
<1>11. ASSUME NEW d \in Conns, NEW s \in Sessions PROVE Displaced(d, s)'
  BY <1>1, <1>2, <1>3, <1>5, <1>6 DEF SessionInv, Displaced
<1> QED BY <1>4, <1>7, <1>8, <1>9, <1>10, <1>11 DEF SessionInv

\* Another connection was faster: its session is taken over, the new shell has a closer.
LEMMA YieldKeeps ==
  ASSUME SessionInv, NEW c \in Conns, Yield(c)
  PROVE  SessionInv'
<1> USE Sentinels DEF Sessions
<1> DEFINE x == sessions[req[c]]
           o == <<"orphan", c>>
<1>0. o \in Closers /\ o[1] = "orphan" /\ o[2] = c
  BY Pairs
<1>1. TypeOK /\ Handler(c) /\ pc[c] = "publish" /\ Unborn(c) /\ (\A a \in Closers : By(a, "input", c) => cl[a] = "none")
      /\ req[c] \in Requests /\ x \in Conns
  <2>1. TypeOK /\ Handler(c) /\ pc[c] = "publish" /\ x # NoSession
    BY DEF SessionInv, Yield
  <2>2. req[c] \in Requests
    BY <2>1 DEF Handler
  <2>3. x \in Conns
    BY <2>1, <2>2 DEF TypeOK
  <2> QED BY <2>1, <2>2, <2>3 DEF Handler, Unborn
<1>2. /\ ~Live(c) /\ closes[c] = 0 /\ \A a \in Closers : ~Of(a, c)
      /\ Live(x) /\ ~Unborn(x) /\ cl[o] = "none"
  <2>1. Live(x)
    BY <1>1 DEF Live
  <2>2. /\ ~Live(c) /\ closes[c] = 0 /\ \A a \in Closers : ~Of(a, c)
        /\ ~Unborn(x)
    BY <2>1, <1>1, Standing DEF SessionInv, Counted, Closing
  <2>3. cl[o] = "none"
    BY <1>0, <2>2 DEF Of
  <2> QED BY <2>1, <2>2, <2>3
<1>3. /\ shell' = shell /\ closes' = closes /\ rpc' = rpc /\ rconn' = rconn /\ sock' = sock /\ req' = req
      /\ sessions' = sessions /\ clConn' = clConn /\ removed' = removed \ {x}
      /\ pc' = [pc EXCEPT ![c] = "displace"] /\ ses' = [ses EXCEPT ![c] = x]
      /\ old' = [old EXCEPT ![c] = conn[x]] /\ conn' = [conn EXCEPT ![x] = c]
      /\ timer' = [timer EXCEPT ![x] = "nil"] /\ cl' = [cl EXCEPT ![o] = "term"]
  BY DEF Yield, Attach, readerVars
<1> HIDE DEF x, o
<1>4. TypeOK'
  BY <1>0, <1>1, <1>3 DEF TypeOK
<1>5. /\ pc'[c] = "displace" /\ ses'[c] = x /\ old'[c] = conn[x] /\ conn'[x] = c /\ timer'[x] = "nil"
      /\ \A d \in Conns \ {c} : pc'[d] = pc[d] /\ ses'[d] = ses[d] /\ old'[d] = old[d]
      /\ \A s \in Conns \ {x} : conn'[s] = conn[s] /\ timer'[s] = timer[s]
      /\ o \in Closers /\ cl'[o] = "term" /\ \A a \in Closers \ {o} : cl'[a] = cl[a]
  BY <1>0, <1>1, <1>3 DEF TypeOK
<1>6. /\ \A s \in Conns : Live(s)' <=> Live(s)
      /\ \A s \in Conns : Unborn(s)' <=> Unborn(s) /\ s # c
      /\ \A a \in Closers : Busy(a)' <=> Busy(a) \/ a = o
      /\ \A a \in Closers, s \in Conns : Of(a, s)' <=> (a # o /\ Of(a, s)) \/ (a = o /\ s = c)
  <2>1. \A a \in Closers, s \in Conns : Of(a, s)' <=> (a # o /\ Of(a, s)) \/ (a = o /\ s = c)
    BY <1>0, <1>1, <1>3, <1>5, Pairs DEF Of, By
  <2> QED BY <1>0, <1>1, <1>3, <1>5, <2>1 DEF Live, Unborn, Busy
<1>7. ASSUME NEW d \in Conns PROVE Handler(d)' /\ \A s \in Sessions : Handles(d, s)'
  <2>1. \A a \in Closers : By(a, "input", d) => cl'[a] = cl[a]
    BY <1>0, <1>5 DEF By
  <2> QED BY <1>1, <1>2, <1>3, <1>5, <1>6, <2>1 DEF SessionInv, Handler, Handles
<1>8. ASSUME NEW a \in Closers, NEW s \in Sessions PROVE Closing(a, s)'
  BY <1>2, <1>3, <1>5, <1>6 DEF SessionInv, Closing
<1>9. ASSUME NEW s \in Sessions PROVE Owner(s)' /\ Counted(s)'
  BY <1>1, <1>2, <1>3, <1>5, <1>6 DEF SessionInv, Owner, Counted
<1>10. ASSUME NEW s \in Sessions PROVE Guarded(s)' /\ Kept(s)' /\ Writes(s)'
  <2>1. \A a \in Closers : By(a, "timer", s) => cl'[a] = cl[a]
    BY <1>0, <1>5 DEF By
  <2>4. Writes(s)'
    BY <1>0, <1>3, <1>5 DEF SessionInv, Writes, By
  <2>2. Guarded(s)'
    BY <1>1, <1>2, <1>3, <1>5, <1>6, <2>1 DEF SessionInv, Handler, Guarded
  <2>3. Kept(s)'
    <3>1. CASE s = c
      BY <1>0, <1>6, <3>1 DEF Kept
    <3>2. CASE s # c
      <4>1. Kept(s)
        BY DEF SessionInv
      <4>2. ASSUME NEW a \in Closers, Busy(a), Of(a, s) PROVE Busy(a)' /\ Of(a, s)'
        BY <1>2, <1>6, <4>2 DEF Busy
      <4> QED BY <1>3, <1>5, <1>6, <3>2, <4>1, <4>2 DEF Kept
    <3> QED BY <3>1, <3>2
  <2> QED BY <2>2, <2>3, <2>4
<1>11. ASSUME NEW d \in Conns, NEW s \in Sessions PROVE Displaced(d, s)'
  BY <1>1, <1>2, <1>3, <1>5, <1>6 DEF SessionInv, Displaced
<1> QED BY <1>4, <1>7, <1>8, <1>9, <1>10, <1>11 DEF SessionInv

\* No session: the shell is started under no lock.
LEMMA SpawnKeeps ==
  ASSUME SessionInv, NEW c \in Conns, NEW r \in Requests, Spawn(c, r)
  PROVE  SessionInv'
<1> USE Sentinels DEF Sessions
<1>1. TypeOK /\ Handler(c) /\ pc[c] = "idle" /\ Unborn(c) /\ ~Live(c) /\ ses[c] = NoSession
  BY Standing DEF SessionInv, Spawn, Unborn, Handler
<1>2. /\ sessionVars' = sessionVars /\ closes' = closes /\ ses' = ses /\ old' = old /\ readerVars' = readerVars /\ closeVars' = closeVars
      /\ shell' = [shell EXCEPT ![c] = "running"] /\ sock' = [sock EXCEPT ![c] = "open"]
      /\ req' = [req EXCEPT ![c] = r] /\ pc' = [pc EXCEPT ![c] = "publish"]
  BY DEF Spawn
<1>3. sessions' = sessions /\ conn' = conn /\ timer' = timer /\ removed' = removed /\ rpc' = rpc /\ rconn' = rconn /\ cl' = cl /\ clConn' = clConn
  BY <1>2 DEF sessionVars, readerVars, closeVars
<1>4. TypeOK'
  BY <1>1, <1>2, <1>3 DEF TypeOK
<1>5. /\ pc'[c] = "publish" /\ req'[c] = r
      /\ \A d \in Conns \ {c} : pc'[d] = pc[d] /\ req'[d] = req[d] /\ sock'[d] = sock[d] /\ shell'[d] = shell[d]
  BY <1>1, <1>2 DEF TypeOK
<1>6. /\ \A s \in Conns : (Live(s)' <=> Live(s)) /\ (Unborn(s)' <=> Unborn(s))
      /\ \A a \in Closers : Busy(a)' <=> Busy(a)
      /\ \A a \in Closers, s \in Conns : Of(a, s)' <=> Of(a, s)
  BY <1>1, <1>2, <1>3, <1>5 DEF Live, Unborn, Busy, Of
<1>7. ASSUME NEW d \in Conns PROVE Handler(d)' /\ \A s \in Sessions : Handles(d, s)'
  BY <1>1, <1>2, <1>3, <1>5, <1>6 DEF SessionInv, Handler, Handles
<1>8. ASSUME NEW a \in Closers, NEW s \in Sessions PROVE Closing(a, s)'
  BY <1>2, <1>3, <1>6 DEF SessionInv, Closing
<1>9. ASSUME NEW s \in Sessions PROVE Owner(s)' /\ Counted(s)'
  BY <1>1, <1>2, <1>3, <1>5, <1>6 DEF SessionInv, Owner, Counted, Live
<1>10. ASSUME NEW s \in Sessions PROVE Guarded(s)' /\ Kept(s)' /\ Writes(s)'
  <2>1. Guarded(s)' /\ Writes(s)'
    BY <1>2, <1>3, <1>6 DEF SessionInv, Guarded, Writes
  <2>2. Kept(s)'
    BY <1>3, <1>5, <1>6 DEF SessionInv, Kept
  <2> QED BY <2>1, <2>2
<1>11. ASSUME NEW d \in Conns, NEW s \in Sessions PROVE Displaced(d, s)'
  BY <1>1, <1>2, <1>3, <1>5 DEF SessionInv, Displaced
<1> QED BY <1>4, <1>7, <1>8, <1>9, <1>10, <1>11 DEF SessionInv

\* The displaced connection is closed and a new session gets its reader.
LEMMA DisplaceKeeps ==
  ASSUME SessionInv, NEW c \in Conns, Displace(c)
  PROVE  SessionInv'
<1> USE Sentinels DEF Sessions
<1>1. TypeOK /\ Handler(c) /\ pc[c] = "displace" /\ ~Unborn(c) /\ ses[c] \in Conns
  BY Standing DEF SessionInv, Displace, Unborn
<1>2. /\ sessions' = sessions /\ conn' = conn /\ timer' = timer /\ removed' = removed /\ shell' = shell /\ closes' = closes
      /\ req' = req /\ ses' = ses /\ rconn' = rconn /\ cl' = cl /\ clConn' = clConn
      /\ old' = [old EXCEPT ![c] = NoConn] /\ pc' = [pc EXCEPT ![c] = "input"]
      /\ sock' = (IF old[c] = NoConn THEN sock ELSE [sock EXCEPT ![old[c]] = "closed"])
      /\ rpc' = (IF ses[c] = c THEN [rpc EXCEPT ![c] = "read"] ELSE rpc)
  BY DEF Displace, sessionVars, closeVars
<1>3. TypeOK'
  BY <1>1, <1>2 DEF TypeOK
<1>4. /\ pc'[c] = "input"
      /\ \A d \in Conns \ {c} : pc'[d] = pc[d] /\ old'[d] = old[d] /\ rpc'[d] = rpc[d]
      /\ \A d \in Conns : sock'[d] = "open" => sock[d] = "open" /\ old[c] # d
      /\ rpc'[c] \in {rpc[c], "read"}
  BY <1>1, <1>2 DEF TypeOK
<1>5. /\ \A s \in Conns : (Live(s)' <=> Live(s)) /\ (Unborn(s)' <=> Unborn(s))
      /\ \A a \in Closers : Busy(a)' <=> Busy(a)
      /\ \A a \in Closers, s \in Conns : Of(a, s)' <=> Of(a, s)
  BY <1>1, <1>2, <1>4 DEF Live, Unborn, Busy, Of
<1>6. ASSUME NEW d \in Conns PROVE Handler(d)' /\ \A s \in Sessions : Handles(d, s)'
  BY <1>1, <1>2, <1>4, <1>5 DEF SessionInv, Handler, Handles
<1>7. ASSUME NEW a \in Closers, NEW s \in Sessions PROVE Closing(a, s)'
  BY <1>2, <1>5 DEF SessionInv, Closing
<1>8. ASSUME NEW s \in Sessions PROVE Owner(s)' /\ Counted(s)'
  BY <1>1, <1>2, <1>4, <1>5 DEF SessionInv, Owner, Counted
<1>9. ASSUME NEW s \in Sessions PROVE Guarded(s)' /\ Kept(s)' /\ Writes(s)'
  <2>1. Guarded(s)'
    BY <1>2, <1>5 DEF SessionInv, Guarded
  <2>2. Kept(s)'
    BY <1>1, <1>2, <1>4, <1>5 DEF SessionInv, Kept
  <2>3. Writes(s)'
    <3>1. Writes(s) /\ (ses[c] = c => rpc[c] = "none")
      BY <1>1 DEF SessionInv, Handler
    <3>2. CASE rpc'[s] = rpc[s]
      BY <1>2, <3>1, <3>2 DEF Writes
    <3>3. CASE rpc'[s] # rpc[s]
      <4>1. s = c /\ rpc'[s] = "read" /\ rpc[s] = "none"
        BY <1>2, <1>4, <3>1, <3>3
      <4> QED BY <1>2, <3>1, <4>1 DEF Writes
    <3> QED BY <3>2, <3>3
  <2> QED BY <2>1, <2>2, <2>3
<1>10. ASSUME NEW d \in Conns, NEW s \in Sessions PROVE Displaced(d, s)'
  BY <1>1, <1>2, <1>4 DEF SessionInv, Displaced
<1> QED BY <1>3, <1>6, <1>7, <1>8, <1>9, <1>10 DEF SessionInv

(***************************************************************************)
(* The input of a connection.                                              *)
(***************************************************************************)

\* Reading fails: the connection is detached from its session, if it still has it.
LEMMA InputFailsKeeps ==
  ASSUME SessionInv, NEW c \in Conns, InputFails(c)
  PROVE  SessionInv'
<1> USE Sentinels DEF Sessions
<1> DEFINE x == ses[c]
           detaches == x \notin removed /\ conn[x] = c
<1>1. TypeOK /\ Handler(c) /\ pc[c] = "input" /\ x \in Conns /\ ~Unborn(x) /\ ~Unborn(c)
      /\ (\A a \in Closers : By(a, "input", c) => cl[a] = "none")
  <2>1. TypeOK /\ Handler(c) /\ pc[c] = "input"
    BY DEF SessionInv, InputFails
  <2>2. x \in Conns
    BY <2>1, Standing
  <2> QED BY <2>1, <2>2 DEF SessionInv, Handler, Handles, Unborn
<1>2. /\ sessions' = sessions /\ removed' = removed /\ shell' = shell /\ closes' = closes /\ req' = req /\ old' = old
      /\ rpc' = rpc /\ rconn' = rconn /\ cl' = cl /\ clConn' = clConn
      /\ sock' = [sock EXCEPT ![c] = "closed"] /\ ses' = [ses EXCEPT ![c] = NoSession] /\ pc' = [pc EXCEPT ![c] = "done"]
      /\ conn' = (IF detaches THEN [conn EXCEPT ![x] = NoConn] ELSE conn)
      /\ timer' = (IF detaches /\ timer[x] = "nil" THEN [timer EXCEPT ![x] = "running"] ELSE timer)
  <2>1. /\ sessions' = sessions /\ removed' = removed /\ shell' = shell /\ closes' = closes /\ req' = req /\ old' = old
        /\ rpc' = rpc /\ rconn' = rconn /\ cl' = cl /\ clConn' = clConn
        /\ sock' = [sock EXCEPT ![c] = "closed"] /\ ses' = [ses EXCEPT ![c] = NoSession] /\ pc' = [pc EXCEPT ![c] = "done"]
        /\ Detach(x, c)
    BY DEF InputFails, readerVars, closeVars
  <2>2. /\ conn' = (IF detaches THEN [conn EXCEPT ![x] = NoConn] ELSE conn)
        /\ timer' = (IF detaches /\ timer[x] = "nil" THEN [timer EXCEPT ![x] = "running"] ELSE timer)
    BY <1>1, <2>1 DEF Detach, TypeOK
  <2> QED BY <2>1, <2>2
<1> HIDE DEF x, detaches
<1>3. TypeOK'
  BY <1>1, <1>2 DEF TypeOK
<1>4. /\ pc'[c] = "done" /\ ses'[c] = NoSession /\ sock'[c] = "closed"
      /\ \A d \in Conns \ {c} : pc'[d] = pc[d] /\ ses'[d] = ses[d] /\ sock'[d] = sock[d]
      /\ \A s \in Conns \ {x} : conn'[s] = conn[s] /\ timer'[s] = timer[s]
      /\ detaches => conn'[x] = NoConn /\ timer'[x] = (IF timer[x] = "nil" THEN "running" ELSE timer[x])
      /\ ~detaches => conn'[x] = conn[x] /\ timer'[x] = timer[x]
  BY <1>1, <1>2 DEF TypeOK
<1>5. /\ \A s \in Conns : (Live(s)' <=> Live(s)) /\ (Unborn(s)' <=> Unborn(s))
      /\ \A a \in Closers : Busy(a)' <=> Busy(a)
      /\ \A a \in Closers, s \in Conns : Of(a, s)' <=> Of(a, s)
  <2>1. \A a \in Closers, s \in Conns : Of(a, s)' <=> Of(a, s)
    BY <1>1, <1>2, <1>4, Pairs DEF Of, By
  <2> QED BY <1>1, <1>2, <1>4, <2>1 DEF Live, Unborn, Busy
<1>6. ASSUME NEW d \in Conns PROVE Handler(d)' /\ \A s \in Sessions : Handles(d, s)'
  BY <1>1, <1>2, <1>4, <1>5 DEF SessionInv, Handler, Handles
<1>7. ASSUME NEW a \in Closers, NEW s \in Sessions PROVE Closing(a, s)'
  BY <1>2, <1>5 DEF SessionInv, Closing
<1>8. ASSUME NEW s \in Sessions PROVE Owner(s)' /\ Counted(s)'
  BY <1>1, <1>2, <1>4, <1>5 DEF SessionInv, Owner, Counted
<1>9. ASSUME NEW s \in Sessions PROVE Guarded(s)'
  <2>1. Guarded(s) /\ (Live(s) /\ conn[s] = c => s = x /\ detaches)
    BY DEF SessionInv, Guarded, x, detaches
  <2>2. CASE s = x /\ detaches
    BY <1>2, <1>4, <1>5, <2>1, <2>2 DEF Guarded, detaches
  <2>3. CASE ~(s = x /\ detaches)
    <3>1. conn'[s] = conn[s] /\ timer'[s] = timer[s]
      BY <1>4, <2>3
    <3> QED BY <1>2, <1>4, <1>5, <2>1, <2>3, <3>1 DEF Guarded
  <2> QED BY <2>2, <2>3
<1>10. ASSUME NEW s \in Sessions PROVE Kept(s)' /\ Writes(s)'
  <2>1. Writes(s)'
    BY <1>2 DEF SessionInv, Writes
  <2>2. Kept(s)'
    BY <1>1, <1>2, <1>4, <1>5 DEF SessionInv, Kept
  <2> QED BY <2>1, <2>2
<1>11. ASSUME NEW d \in Conns, NEW s \in Sessions PROVE Displaced(d, s)'
  BY <1>1, <1>2, <1>4 DEF SessionInv, Displaced, detaches
<1> QED BY <1>3, <1>6, <1>7, <1>8, <1>9, <1>10, <1>11 DEF SessionInv

\* A "close" message: the input becomes a closer of its session.
LEMMA InputClosesKeeps ==
  ASSUME SessionInv, NEW c \in Conns, InputCloses(c)
  PROVE  SessionInv'
<1> USE Sentinels DEF Sessions
<1> DEFINE i == <<"input", c>>
<1>0. i \in Closers /\ i[1] = "input" /\ i[2] = c /\ \A a \in Closers : By(a, "input", c) => a = i
  BY Pairs DEF By
<1>1. TypeOK /\ Handler(c) /\ pc[c] = "input" /\ cl[i] = "none" /\ ~Unborn(c)
  BY <1>0 DEF SessionInv, InputCloses, Handler, By, Unborn
<1>2. /\ sessions' = sessions /\ conn' = conn /\ timer' = timer /\ removed' = removed /\ shell' = shell /\ closes' = closes
      /\ sock' = sock /\ req' = req /\ ses' = ses /\ old' = old /\ rpc' = rpc /\ rconn' = rconn /\ clConn' = clConn
      /\ pc' = [pc EXCEPT ![c] = "close"] /\ cl' = [cl EXCEPT ![i] = "enter"]
  BY DEF InputCloses, sessionVars, readerVars
<1> HIDE DEF i
<1>3. TypeOK'
  BY <1>0, <1>1, <1>2 DEF TypeOK
<1>4. /\ pc'[c] = "close" /\ cl'[i] = "enter"
      /\ \A d \in Conns \ {c} : pc'[d] = pc[d]
      /\ \A a \in Closers \ {i} : cl'[a] = cl[a]
  BY <1>0, <1>1, <1>2 DEF TypeOK
<1>5. /\ \A s \in Conns : (Live(s)' <=> Live(s)) /\ (Unborn(s)' <=> Unborn(s))
      /\ \A a \in Closers : Busy(a)' <=> Busy(a)
      /\ \A a \in Closers, s \in Conns : Of(a, s)' <=> Of(a, s) \/ (a = i /\ ses[c] = s)
  <2>1. \A a \in Closers, s \in Conns : Of(a, s)' <=> Of(a, s) \/ (a = i /\ ses[c] = s)
    BY <1>0, <1>1, <1>2, <1>4 DEF Of
  <2> QED BY <1>0, <1>1, <1>2, <1>4, <2>1 DEF Live, Unborn, Busy
<1>6. ASSUME NEW d \in Conns PROVE Handler(d)' /\ \A s \in Sessions : Handles(d, s)'
  <2>1. \A a \in Closers : By(a, "input", d) /\ a = i => d = c
    BY <1>0 DEF By
  <2>2. Handler(d)'
    BY <1>0, <1>1, <1>2, <1>4, <2>1 DEF SessionInv, Handler
  <2>3. ASSUME NEW s \in Sessions PROVE Handles(d, s)'
    <3>1. CASE d = c
      BY <1>0, <1>2, <1>4, <1>5, <3>1 DEF SessionInv, Handles, By
    <3>2. CASE d # c
      BY <1>0, <1>2, <1>4, <1>5, <2>1, <3>2 DEF SessionInv, Handles
    <3> QED BY <3>1, <3>2
  <2> QED BY <2>2, <2>3
<1>7. ASSUME NEW a \in Closers, NEW s \in Sessions PROVE Closing(a, s)'
  <2>1. Of(a, s)' => ~Unborn(s)
    BY <1>5 DEF SessionInv, Closing, Handles
  <2>2. ~Busy(i)
    BY <1>1 DEF Busy
  <2> QED BY <1>2, <1>4, <1>5, <2>1, <2>2 DEF SessionInv, Closing
<1>8. ASSUME NEW s \in Sessions PROVE Owner(s)' /\ Counted(s)'
  BY <1>2, <1>5 DEF SessionInv, Owner, Counted
<1>9. ASSUME NEW s \in Sessions PROVE Guarded(s)' /\ Kept(s)' /\ Writes(s)'
  <2>1. \A a \in Closers : a[1] # "input" => cl'[a] = cl[a]
    BY <1>0, <1>4
  <2>2. Guarded(s)' /\ Writes(s)'
    BY <1>2, <1>5, <2>1 DEF SessionInv, Guarded, Writes, By
  <2>3. Kept(s)'
    BY <1>1, <1>2, <1>4, <1>5 DEF SessionInv, Kept
  <2> QED BY <2>2, <2>3
<1>10. ASSUME NEW d \in Conns, NEW s \in Sessions PROVE Displaced(d, s)'
  BY <1>1, <1>2, <1>4 DEF SessionInv, Displaced
<1> QED BY <1>3, <1>6, <1>7, <1>8, <1>9, <1>10 DEF SessionInv

\* After closeSession: the session is not in the map, so nothing hangs on the connection.
LEMMA InputReturnsKeeps ==
  ASSUME SessionInv, NEW c \in Conns, InputReturns(c)
  PROVE  SessionInv'
<1> USE Sentinels DEF Sessions
<1>1. TypeOK /\ Handler(c) /\ pc[c] = "close" /\ ~Unborn(c)
      /\ (\A a \in Closers : By(a, "input", c) => cl[a] = "none")
  <2>1. cl[<<"input", c>>] = "none"
    BY DEF InputReturns
  <2> QED BY <2>1, Pairs DEF SessionInv, InputReturns, By, Unborn
<1>2. /\ sessions' = sessions /\ conn' = conn /\ timer' = timer /\ removed' = removed /\ shell' = shell /\ closes' = closes
      /\ req' = req /\ old' = old /\ rpc' = rpc /\ rconn' = rconn /\ cl' = cl /\ clConn' = clConn
      /\ sock' = [sock EXCEPT ![c] = "closed"] /\ ses' = [ses EXCEPT ![c] = NoSession] /\ pc' = [pc EXCEPT ![c] = "done"]
  BY DEF InputReturns, sessionVars, readerVars, closeVars
<1>3. TypeOK'
  BY <1>1, <1>2 DEF TypeOK
<1>4. /\ pc'[c] = "done" /\ ses'[c] = NoSession /\ sock'[c] = "closed"
      /\ \A d \in Conns \ {c} : pc'[d] = pc[d] /\ ses'[d] = ses[d] /\ sock'[d] = sock[d]
  BY <1>1, <1>2 DEF TypeOK
<1>5. /\ \A s \in Conns : (Live(s)' <=> Live(s)) /\ (Unborn(s)' <=> Unborn(s))
      /\ \A a \in Closers : Busy(a)' <=> Busy(a)
      /\ \A a \in Closers, s \in Conns : Of(a, s)' <=> Of(a, s)
  <2>1. \A a \in Closers, s \in Conns : Of(a, s)' <=> Of(a, s)
    BY <1>1, <1>2, <1>4, Pairs DEF Of, By
  <2> QED BY <1>1, <1>2, <1>4, <2>1 DEF Live, Unborn, Busy
<1>6. ASSUME NEW d \in Conns PROVE Handler(d)' /\ \A s \in Sessions : Handles(d, s)'
  BY <1>1, <1>2, <1>4, <1>5 DEF SessionInv, Handler, Handles
<1>7. ASSUME NEW a \in Closers, NEW s \in Sessions PROVE Closing(a, s)'
  BY <1>2, <1>5 DEF SessionInv, Closing
<1>8. ASSUME NEW s \in Sessions PROVE Owner(s)' /\ Counted(s)'
  BY <1>1, <1>2, <1>4, <1>5 DEF SessionInv, Owner, Counted
<1>9. ASSUME NEW s \in Sessions PROVE Guarded(s)' /\ Kept(s)' /\ Writes(s)'
  <2>1. Guarded(s) /\ (Live(s) => ses[c] # s)
    BY <1>1 DEF SessionInv, Handles
  <2>2. Guarded(s)' /\ Writes(s)'
    BY <1>2, <1>4, <1>5, <2>1 DEF SessionInv, Guarded, Writes
  <2>3. Kept(s)'
    BY <1>1, <1>2, <1>4, <1>5 DEF SessionInv, Kept
  <2> QED BY <2>2, <2>3
<1>10. ASSUME NEW d \in Conns, NEW s \in Sessions PROVE Displaced(d, s)'
  BY <1>1, <1>2, <1>4 DEF SessionInv, Displaced
<1> QED BY <1>3, <1>6, <1>7, <1>8, <1>9, <1>10 DEF SessionInv

(***************************************************************************)
(* The output of a session.                                                *)
(***************************************************************************)

\* readOutput takes the connection it writes to, or is through with the last one.
LEMMA OutputKeeps ==
  ASSUME SessionInv, NEW x \in Sessions, ReadOutput(x) \/ OutputWritten(x)
  PROVE  SessionInv'
<1> USE Sentinels DEF Sessions
<1>1. TypeOK /\ rpc[x] \in {"read", "write"} /\ ~Unborn(x)
  BY DEF SessionInv, Counted, ReadOutput, OutputWritten
<1>2. /\ sessions' = sessions /\ conn' = conn /\ timer' = timer /\ removed' = removed /\ shell' = shell /\ closes' = closes
      /\ sock' = sock /\ pc' = pc /\ req' = req /\ ses' = ses /\ old' = old /\ cl' = cl /\ clConn' = clConn
  BY DEF ReadOutput, OutputWritten, sessionVars, startVars, closeVars
<1>3. \E k \in {"read", "write"}, v \in Conns \cup {NoConn} :
        rpc' = [rpc EXCEPT ![x] = k] /\ rconn' = [rconn EXCEPT ![x] = v] /\ (k = "write" => v # NoConn)
  BY <1>1 DEF ReadOutput, OutputWritten, TypeOK
<1>4. TypeOK'
  BY <1>1, <1>2, <1>3 DEF TypeOK
<1>5. /\ rpc'[x] \in {"read", "write"} /\ (rpc'[x] = "write" => rconn'[x] # NoConn)
      /\ \A s \in Conns \ {x} : rpc'[s] = rpc[s] /\ rconn'[s] = rconn[s]
  BY <1>1, <1>3 DEF TypeOK
<1>6. /\ \A s \in Conns : (Live(s)' <=> Live(s)) /\ (Unborn(s)' <=> Unborn(s))
      /\ \A a \in Closers : Busy(a)' <=> Busy(a)
      /\ \A a \in Closers, s \in Conns : Of(a, s)' <=> Of(a, s)
  BY <1>2 DEF Live, Unborn, Busy, Of
<1>7. ASSUME NEW d \in Conns PROVE Handler(d)' /\ \A s \in Sessions : Handles(d, s)'
  BY <1>1, <1>2, <1>5, <1>6 DEF SessionInv, Handler, Handles
<1>8. ASSUME NEW a \in Closers, NEW s \in Sessions PROVE Closing(a, s)'
  BY <1>2, <1>6 DEF SessionInv, Closing
<1>9. ASSUME NEW s \in Sessions PROVE Owner(s)' /\ Counted(s)'
  BY <1>1, <1>2, <1>5, <1>6 DEF SessionInv, Owner, Counted
<1>10. ASSUME NEW s \in Sessions PROVE Guarded(s)' /\ Kept(s)' /\ Writes(s)'
  <2>1. Guarded(s)'
    BY <1>2, <1>6 DEF SessionInv, Guarded
  <2>2. Kept(s)'
    BY <1>2, <1>6 DEF SessionInv, Kept
  <2>3. Writes(s)'
    BY <1>1, <1>2, <1>5 DEF SessionInv, Writes
  <2> QED BY <2>1, <2>2, <2>3
<1>11. ASSUME NEW d \in Conns, NEW s \in Sessions PROVE Displaced(d, s)'
  BY <1>2 DEF SessionInv, Displaced
<1> QED BY <1>4, <1>7, <1>8, <1>9, <1>10, <1>11 DEF SessionInv

\* Writing fails: the connection it wrote to is detached, if the session still has it.
LEMMA OutputFailsKeeps ==
  ASSUME SessionInv, NEW x \in Sessions, OutputFails(x)
  PROVE  SessionInv'
<1> USE Sentinels DEF Sessions
<1> DEFINE c == rconn[x]
           detaches == x \notin removed /\ conn[x] = c
<1>1. TypeOK /\ rpc[x] = "write" /\ ~Unborn(x) /\ c \in Conns /\ sock[c] # "open"
  <2>1. TypeOK /\ rpc[x] = "write" /\ c # NoConn /\ sock[c] # "open" /\ ~Unborn(x)
    BY DEF SessionInv, OutputFails, Writes, Counted
  <2> QED BY <2>1 DEF TypeOK
<1>2. /\ sessions' = sessions /\ removed' = removed /\ shell' = shell /\ closes' = closes /\ sock' = sock
      /\ pc' = pc /\ req' = req /\ ses' = ses /\ old' = old /\ cl' = cl /\ clConn' = clConn
      /\ rpc' = [rpc EXCEPT ![x] = "read"] /\ rconn' = [rconn EXCEPT ![x] = NoConn]
      /\ conn' = (IF detaches THEN [conn EXCEPT ![x] = NoConn] ELSE conn)
      /\ timer' = (IF detaches /\ timer[x] = "nil" THEN [timer EXCEPT ![x] = "running"] ELSE timer)
  <2>1. /\ sessions' = sessions /\ removed' = removed /\ shell' = shell /\ closes' = closes /\ sock' = sock
        /\ pc' = pc /\ req' = req /\ ses' = ses /\ old' = old /\ cl' = cl /\ clConn' = clConn
        /\ rpc' = [rpc EXCEPT ![x] = "read"] /\ rconn' = [rconn EXCEPT ![x] = NoConn]
        /\ Detach(x, c)
    BY DEF OutputFails, startVars, closeVars
  <2>2. /\ conn' = (IF detaches THEN [conn EXCEPT ![x] = NoConn] ELSE conn)
        /\ timer' = (IF detaches /\ timer[x] = "nil" THEN [timer EXCEPT ![x] = "running"] ELSE timer)
    BY <1>1, <2>1 DEF Detach, TypeOK
  <2> QED BY <2>1, <2>2
<1> HIDE DEF c, detaches
<1>3. TypeOK'
  BY <1>1, <1>2 DEF TypeOK
<1>4. /\ rpc'[x] = "read"
      /\ \A s \in Conns \ {x} : rpc'[s] = rpc[s] /\ rconn'[s] = rconn[s] /\ conn'[s] = conn[s] /\ timer'[s] = timer[s]
      /\ detaches => conn'[x] = NoConn /\ timer'[x] = (IF timer[x] = "nil" THEN "running" ELSE timer[x])
      /\ ~detaches => conn'[x] = conn[x] /\ timer'[x] = timer[x]
  BY <1>1, <1>2 DEF TypeOK
<1>5. /\ \A s \in Conns : (Live(s)' <=> Live(s)) /\ (Unborn(s)' <=> Unborn(s))
      /\ \A a \in Closers : Busy(a)' <=> Busy(a)
      /\ \A a \in Closers, s \in Conns : Of(a, s)' <=> Of(a, s)
  BY <1>2 DEF Live, Unborn, Busy, Of
<1>6. ASSUME NEW d \in Conns PROVE Handler(d)' /\ \A s \in Sessions : Handles(d, s)'
  BY <1>1, <1>2, <1>4, <1>5 DEF SessionInv, Handler, Handles
<1>7. ASSUME NEW a \in Closers, NEW s \in Sessions PROVE Closing(a, s)'
  BY <1>2, <1>5 DEF SessionInv, Closing
<1>8. ASSUME NEW s \in Sessions PROVE Owner(s)' /\ Counted(s)'
  BY <1>1, <1>2, <1>4, <1>5 DEF SessionInv, Owner, Counted
<1>9. ASSUME NEW s \in Sessions PROVE Guarded(s)'
  <2>1. Guarded(s)
    BY DEF SessionInv
  <2>2. CASE s = x /\ detaches
    BY <1>1, <1>2, <1>4, <1>5, <2>1, <2>2 DEF Guarded, detaches
  <2>3. CASE ~(s = x /\ detaches)
    <3>1. conn'[s] = conn[s] /\ timer'[s] = timer[s]
      BY <1>4, <2>3
    <3> QED BY <1>2, <1>5, <2>1, <3>1 DEF Guarded
  <2> QED BY <2>2, <2>3
<1>10. ASSUME NEW s \in Sessions PROVE Kept(s)' /\ Writes(s)'
  <2>1. Writes(s)'
    BY <1>1, <1>2, <1>4 DEF SessionInv, Writes
  <2>2. Kept(s)'
    BY <1>2, <1>5 DEF SessionInv, Kept
  <2> QED BY <2>1, <2>2
<1>11. ASSUME NEW d \in Conns, NEW s \in Sessions PROVE Displaced(d, s)'
  <2>1. Displaced(d, s) /\ (sock[d] = "open" => d # c)
    BY <1>1 DEF SessionInv
  <2>2. sock[d] = "open" /\ conn[s] = d => conn'[s] = d
    BY <1>4, <2>1 DEF detaches
  <2> QED BY <1>2, <2>1, <2>2 DEF Displaced
<1> QED BY <1>3, <1>6, <1>7, <1>8, <1>9, <1>10, <1>11 DEF SessionInv

\* The shell is gone: the reader becomes a closer of its session.
LEMMA OutputEndsKeeps ==
  ASSUME SessionInv, NEW x \in Sessions, OutputEnds(x)
  PROVE  SessionInv'
<1> USE Sentinels DEF Sessions
<1> DEFINE o == <<"reader", x>>
<1>0. o \in Closers /\ o[1] = "reader" /\ o[2] = x
  BY Pairs
<1>1. TypeOK /\ rpc[x] = "read" /\ ~Unborn(x) /\ cl[o] = "none"
  BY <1>0 DEF SessionInv, OutputEnds, Counted, Writes, By
<1>2. /\ sessions' = sessions /\ conn' = conn /\ timer' = timer /\ removed' = removed /\ shell' = shell /\ closes' = closes
      /\ sock' = sock /\ pc' = pc /\ req' = req /\ ses' = ses /\ old' = old /\ rconn' = rconn /\ clConn' = clConn
      /\ rpc' = [rpc EXCEPT ![x] = "done"] /\ cl' = [cl EXCEPT ![o] = "enter"]
  BY DEF OutputEnds, sessionVars, startVars
<1> HIDE DEF o
<1>3. TypeOK'
  BY <1>0, <1>1, <1>2 DEF TypeOK
<1>4. /\ rpc'[x] = "done" /\ cl'[o] = "enter"
      /\ \A s \in Conns \ {x} : rpc'[s] = rpc[s]
      /\ \A a \in Closers \ {o} : cl'[a] = cl[a]
  BY <1>0, <1>1, <1>2 DEF TypeOK
<1>5. /\ \A s \in Conns : (Live(s)' <=> Live(s)) /\ (Unborn(s)' <=> Unborn(s))
      /\ \A a \in Closers : Busy(a)' <=> Busy(a)
      /\ \A a \in Closers, s \in Conns : Of(a, s)' <=> Of(a, s) \/ (a = o /\ s = x)
  <2>1. \A a \in Closers, s \in Conns : Of(a, s)' <=> Of(a, s) \/ (a = o /\ s = x)
    BY <1>0, <1>1, <1>2, <1>4 DEF Of
  <2> QED BY <1>0, <1>1, <1>2, <1>4, <2>1 DEF Live, Unborn, Busy
<1>6. \A a \in Closers : a[1] # "reader" => cl'[a] = cl[a]
  BY <1>0, <1>4
<1>7. ASSUME NEW d \in Conns PROVE Handler(d)' /\ \A s \in Sessions : Handles(d, s)'
  BY <1>1, <1>2, <1>4, <1>5, <1>6 DEF SessionInv, Handler, Handles, By
<1>8. ASSUME NEW a \in Closers, NEW s \in Sessions PROVE Closing(a, s)'
  <2>1. ~Busy(o)
    BY <1>1 DEF Busy
  <2> QED BY <1>1, <1>2, <1>4, <1>5, <2>1 DEF SessionInv, Closing
<1>9. ASSUME NEW s \in Sessions PROVE Owner(s)' /\ Counted(s)'
  BY <1>1, <1>2, <1>4, <1>5 DEF SessionInv, Owner, Counted
<1>10. ASSUME NEW s \in Sessions PROVE Guarded(s)' /\ Kept(s)' /\ Writes(s)'
  <2>1. Guarded(s)'
    BY <1>2, <1>5, <1>6 DEF SessionInv, Guarded, By
  <2>2. Kept(s)'
    BY <1>2, <1>5 DEF SessionInv, Kept
  <2>3. Writes(s)'
    BY <1>0, <1>1, <1>2, <1>4 DEF SessionInv, Writes, By
  <2> QED BY <2>1, <2>2, <2>3
<1>11. ASSUME NEW d \in Conns, NEW s \in Sessions PROVE Displaced(d, s)'
  BY <1>1, <1>2, <1>4 DEF SessionInv, Displaced
<1> QED BY <1>3, <1>7, <1>8, <1>9, <1>10, <1>11 DEF SessionInv

(***************************************************************************)
(* closeSession.                                                           *)
(***************************************************************************)

\* A closer is on one session and is of one kind.
LEMMA OneSession ==
  ASSUME SessionInv, NEW a \in Closers, cl[a] # "none"
  PROVE  /\ SessionOf(a) \in Conns /\ Of(a, SessionOf(a)) /\ ~Unborn(SessionOf(a))
         /\ \A s \in Conns : Of(a, s) => s = SessionOf(a)
         /\ \A s \in Conns : By(a, "timer", s) \/ By(a, "reader", s) => s = SessionOf(a)
         /\ \A c \in Conns : By(a, "input", c) => ses[c] = SessionOf(a)
<1>1. SessionOf(a) \in Conns /\ Of(a, SessionOf(a))
  BY Standing
<1>2. ~Unborn(SessionOf(a))
  BY <1>1 DEF SessionInv, Closing, Sessions
<1> QED BY <1>1, <1>2 DEF Of, SessionOf, By

\* Whoever takes the session out of the map closes it; the others return.
LEMMA CloseEnterKeeps ==
  ASSUME SessionInv, NEW a \in Closers, CloseEnter(a)
  PROVE  SessionInv'
<1> USE Sentinels DEF Sessions
<1> DEFINE x == SessionOf(a)
           takes == sessions[req[x]] = x
<1>1. TypeOK /\ cl[a] = "enter" /\ x \in Conns /\ Of(a, x) /\ ~Unborn(x) /\ req[x] \in Requests
  <2>1. TypeOK /\ cl[a] = "enter"
    BY DEF SessionInv, CloseEnter
  <2>2. x \in Conns /\ Of(a, x) /\ ~Unborn(x)
    BY <2>1, OneSession
  <2> QED BY <2>1, <2>2 DEF SessionInv, Handler, Unborn
<1>2. /\ conn' = conn /\ timer' = timer /\ removed' = removed /\ shell' = shell /\ closes' = closes
      /\ sock' = sock /\ pc' = pc /\ req' = req /\ ses' = ses /\ old' = old /\ rpc' = rpc /\ rconn' = rconn /\ clConn' = clConn
      /\ sessions' = (IF takes THEN [sessions EXCEPT ![req[x]] = NoSession] ELSE sessions)
      /\ cl' = [cl EXCEPT ![a] = IF takes THEN "mark" ELSE "none"]
  BY DEF CloseEnter, startVars, readerVars
<1>3. /\ \A s \in Conns : Of(a, s) => s = x
      /\ \A s \in Conns : By(a, "timer", s) \/ By(a, "reader", s) => s = x
      /\ \A c \in Conns : By(a, "input", c) => ses[c] = x
      /\ (takes <=> Live(x))
  <2>1. takes <=> Live(x)
    BY <1>1, Standing DEF Live
  <2> QED BY <1>1, <2>1, OneSession
<1> HIDE DEF x, takes
<1>4. TypeOK'
  BY <1>1, <1>2 DEF TypeOK
<1>5. /\ takes => sessions'[req[x]] = NoSession /\ \A r \in Requests \ {req[x]} : sessions'[r] = sessions[r]
      /\ cl'[a] = (IF takes THEN "mark" ELSE "none")
      /\ \A b \in Closers \ {a} : cl'[b] = cl[b]
  BY <1>1, <1>2 DEF TypeOK
<1>6. /\ \A s \in Conns : (Live(s)' <=> Live(s) /\ s # x) /\ (Unborn(s)' <=> Unborn(s))
      /\ \A b \in Closers : Busy(b)' <=> Busy(b) \/ (b = a /\ takes)
      /\ \A b \in Closers, s \in Conns : Of(b, s)' <=> Of(b, s) /\ (b # a \/ takes)
  <2>1. ASSUME NEW s \in Conns PROVE Live(s)' <=> Live(s) /\ s # x
    <3>1. \A r \in Requests : sessions[r] = s => req[s] = r
      BY DEF SessionInv, Owner
    <3>2. CASE takes /\ s = x
      BY <1>1, <1>5, <3>1, <3>2 DEF Live
    <3>3. CASE takes /\ s # x
      <4>1. sessions[req[x]] = x
        BY <3>3 DEF takes
      <4> QED BY <1>1, <1>5, <3>3, <4>1 DEF Live
    <3>4. CASE ~takes
      BY <1>2, <1>3, <3>4 DEF Live
    <3> QED BY <3>2, <3>3, <3>4
  <2>2. \A b \in Closers, s \in Conns : Of(b, s)' <=> Of(b, s) /\ (b # a \/ takes)
    BY <1>1, <1>2, <1>5 DEF Of
  <2> QED BY <1>1, <1>2, <1>5, <2>1, <2>2 DEF Unborn, Busy
<1>7. ASSUME NEW d \in Conns PROVE Handler(d)' /\ \A s \in Sessions : Handles(d, s)'
  <2>1. Handler(d)'
    BY <1>1, <1>2, <1>5 DEF SessionInv, Handler
  <2>2. ASSUME NEW s \in Sessions PROVE Handles(d, s)'
    BY <1>2, <1>3, <1>5, <1>6 DEF SessionInv, Handles
  <2> QED BY <2>1, <2>2
<1>8. ASSUME NEW b \in Closers, NEW s \in Sessions PROVE Closing(b, s)'
  <2>1. Closing(b, s) /\ Guarded(s) /\ Counted(s)
    BY DEF SessionInv
  <2>2. takes => Live(x) /\ \A e \in Closers : Busy(e) => ~Of(e, x)
    BY <1>1, <1>3 DEF SessionInv, Closing
  <2>3. CASE s = x
    BY <1>1, <1>2, <1>3, <1>5, <1>6, <2>1, <2>2, <2>3 DEF Closing, Guarded, Counted
  <2>4. CASE s # x
    <3>1. Of(b, s)' => b # a /\ Of(b, s)
      BY <1>3, <1>6, <2>4
    <3>2. \A e \in Closers : Of(e, s)' => e # a
      BY <1>3, <1>6, <2>4
    <3> QED BY <1>2, <1>5, <1>6, <2>1, <2>4, <3>1, <3>2 DEF Closing
  <2> QED BY <2>3, <2>4
<1>9. ASSUME NEW s \in Sessions PROVE Owner(s)' /\ Counted(s)'
  BY <1>1, <1>2, <1>5, <1>6 DEF SessionInv, Owner, Counted
<1>10. ASSUME NEW s \in Sessions PROVE Guarded(s)' /\ Kept(s)' /\ Writes(s)'
  <2>1. Guarded(s)'
    BY <1>2, <1>3, <1>5, <1>6 DEF SessionInv, Guarded
  <2>2. Kept(s)'
    <3>1. Kept(s) /\ ~Busy(a)
      BY <1>1 DEF SessionInv, Busy
    <3>2. ASSUME NEW b \in Closers, Busy(b), Of(b, s) PROVE Busy(b)' /\ Of(b, s)'
      BY <1>6, <3>1, <3>2
    <3>3. takes /\ s = x => Busy(a)' /\ Of(a, s)'
      BY <1>1, <1>6
    <3> QED BY <1>2, <1>3, <1>6, <3>1, <3>2, <3>3 DEF Kept
  <2>3. Writes(s)'
    BY <1>1, <1>2, <1>5 DEF SessionInv, Writes
  <2> QED BY <2>1, <2>2, <2>3
<1>11. ASSUME NEW d \in Conns, NEW s \in Sessions PROVE Displaced(d, s)'
  BY <1>1, <1>2, <1>5 DEF SessionInv, Displaced
<1> QED BY <1>4, <1>7, <1>8, <1>9, <1>10, <1>11 DEF SessionInv

\* It is the only one, so it finds the session unmarked; timer and connection are taken out.
LEMMA CloseMarkKeeps ==
  ASSUME SessionInv, NEW a \in Closers, CloseMark(a)
  PROVE  SessionInv'
<1> USE Sentinels DEF Sessions
<1> DEFINE x == SessionOf(a)
<1>1. TypeOK /\ cl[a] = "mark" /\ Busy(a) /\ x \in Conns /\ Of(a, x) /\ ~Unborn(x) /\ ~Live(x) /\ x \notin removed
      /\ closes[x] = 0 /\ \A b \in Closers : Busy(b) /\ Of(b, x) => b = a
  <2>1. TypeOK /\ cl[a] = "mark" /\ Busy(a)
    BY DEF SessionInv, CloseMark, Busy
  <2>2. x \in Conns /\ Of(a, x) /\ ~Unborn(x)
    BY <2>1, OneSession
  <2> QED BY <2>1, <2>2 DEF SessionInv, Closing
<1>2. /\ sessions' = sessions /\ shell' = shell /\ closes' = closes
      /\ sock' = sock /\ pc' = pc /\ req' = req /\ ses' = ses /\ old' = old /\ rpc' = rpc /\ rconn' = rconn
      /\ removed' = removed \cup {x} /\ timer' = [timer EXCEPT ![x] = "nil"] /\ conn' = [conn EXCEPT ![x] = NoConn]
      /\ clConn' = [clConn EXCEPT ![a] = conn[x]] /\ cl' = [cl EXCEPT ![a] = "conn"]
  BY <1>1 DEF CloseMark, startVars, readerVars
<1>3. /\ \A s \in Conns : Of(a, s) => s = x
      /\ \A s \in Conns : By(a, "timer", s) \/ By(a, "reader", s) => s = x
      /\ \A c \in Conns : By(a, "input", c) => ses[c] = x
  BY <1>1, OneSession
<1> HIDE DEF x
<1>4. TypeOK'
  BY <1>1, <1>2 DEF TypeOK
<1>5. /\ cl'[a] = "conn" /\ clConn'[a] = conn[x] /\ timer'[x] = "nil" /\ conn'[x] = NoConn
      /\ \A b \in Closers \ {a} : cl'[b] = cl[b] /\ clConn'[b] = clConn[b]
      /\ \A s \in Conns \ {x} : timer'[s] = timer[s] /\ conn'[s] = conn[s]
  BY <1>1, <1>2 DEF TypeOK
<1>6. /\ \A s \in Conns : (Live(s)' <=> Live(s)) /\ (Unborn(s)' <=> Unborn(s))
      /\ \A b \in Closers : Busy(b)' <=> Busy(b)
      /\ \A b \in Closers, s \in Conns : Of(b, s)' <=> Of(b, s)
  <2>1. \A b \in Closers, s \in Conns : Of(b, s)' <=> Of(b, s)
    BY <1>1, <1>2, <1>5 DEF Of
  <2> QED BY <1>1, <1>2, <1>5, <2>1 DEF Live, Unborn, Busy
<1>7. ASSUME NEW d \in Conns PROVE Handler(d)' /\ \A s \in Sessions : Handles(d, s)'
  BY <1>1, <1>2, <1>5, <1>6 DEF SessionInv, Handler, Handles
<1>8. ASSUME NEW b \in Closers, NEW s \in Sessions PROVE Closing(b, s)'
  <2>1. CASE b = a
    BY <1>1, <1>2, <1>3, <1>5, <1>6, <2>1 DEF SessionInv, Closing
  <2>2. CASE b # a
    <3>1. Busy(b) /\ Of(b, s) => s # x
      BY <1>1, <2>2
    <3>2. Closing(b, s)
      BY DEF SessionInv
    <3> QED BY <1>2, <1>5, <1>6, <2>2, <3>1, <3>2 DEF Closing
  <2> QED BY <2>1, <2>2
<1>9. ASSUME NEW s \in Sessions PROVE Owner(s)' /\ Counted(s)'
  BY <1>1, <1>2, <1>5, <1>6 DEF SessionInv, Owner, Counted
<1>10. ASSUME NEW s \in Sessions PROVE Guarded(s)' /\ Kept(s)' /\ Writes(s)'
  <2>1. Guarded(s)'
    BY <1>1, <1>2, <1>3, <1>5, <1>6 DEF SessionInv, Guarded
  <2>2. Kept(s)'
    BY <1>2, <1>6 DEF SessionInv, Kept
  <2>3. Writes(s)'
    BY <1>1, <1>2, <1>5 DEF SessionInv, Writes
  <2> QED BY <2>1, <2>2, <2>3
<1>11. ASSUME NEW d \in Conns, NEW s \in Sessions PROVE Displaced(d, s)'
  BY <1>1, <1>2, <1>5 DEF SessionInv, Displaced
<1> QED BY <1>4, <1>7, <1>8, <1>9, <1>10, <1>11 DEF SessionInv

\* The connection it has taken out is closed.
LEMMA CloseConnKeeps ==
  ASSUME SessionInv, NEW a \in Closers, CloseConn(a)
  PROVE  SessionInv'
<1> USE Sentinels DEF Sessions
<1>1. TypeOK /\ cl[a] = "conn"
  BY DEF SessionInv, CloseConn
<1>2. /\ sessions' = sessions /\ conn' = conn /\ timer' = timer /\ removed' = removed /\ shell' = shell /\ closes' = closes
      /\ pc' = pc /\ req' = req /\ ses' = ses /\ old' = old /\ rpc' = rpc /\ rconn' = rconn
      /\ sock' = (IF clConn[a] = NoConn THEN sock ELSE [sock EXCEPT ![clConn[a]] = "closed"])
      /\ clConn' = [clConn EXCEPT ![a] = NoConn] /\ cl' = [cl EXCEPT ![a] = "term"]
  BY DEF CloseConn, sessionVars, startVars, readerVars
<1>3. TypeOK'
  BY <1>1, <1>2 DEF TypeOK
<1>4. /\ cl'[a] = "term"
      /\ \A b \in Closers \ {a} : cl'[b] = cl[b] /\ clConn'[b] = clConn[b]
      /\ \A d \in Conns : sock'[d] = "open" => sock[d] = "open" /\ clConn[a] # d
  BY <1>1, <1>2 DEF TypeOK
<1>5. /\ \A s \in Conns : (Live(s)' <=> Live(s)) /\ (Unborn(s)' <=> Unborn(s))
      /\ \A b \in Closers : Busy(b)' <=> Busy(b)
      /\ \A b \in Closers, s \in Conns : Of(b, s)' <=> Of(b, s)
  <2>1. \A b \in Closers, s \in Conns : Of(b, s)' <=> Of(b, s)
    BY <1>1, <1>2, <1>4 DEF Of
  <2> QED BY <1>1, <1>2, <1>4, <2>1 DEF Live, Unborn, Busy
<1>6. ASSUME NEW d \in Conns PROVE Handler(d)' /\ \A s \in Sessions : Handles(d, s)'
  BY <1>1, <1>2, <1>4, <1>5 DEF SessionInv, Handler, Handles
<1>7. ASSUME NEW b \in Closers, NEW s \in Sessions PROVE Closing(b, s)'
  BY <1>1, <1>2, <1>4, <1>5 DEF SessionInv, Closing
<1>8. ASSUME NEW s \in Sessions PROVE Owner(s)' /\ Counted(s)'
  BY <1>2, <1>5 DEF SessionInv, Owner, Counted
<1>9. ASSUME NEW s \in Sessions PROVE Guarded(s)' /\ Kept(s)' /\ Writes(s)'
  <2>1. Guarded(s)'
    BY <1>1, <1>2, <1>4, <1>5 DEF SessionInv, Guarded
  <2>2. Kept(s)'
    BY <1>2, <1>5 DEF SessionInv, Kept
  <2>3. Writes(s)'
    BY <1>1, <1>2, <1>4 DEF SessionInv, Writes
  <2> QED BY <2>1, <2>2, <2>3
<1>10. ASSUME NEW d \in Conns, NEW s \in Sessions PROVE Displaced(d, s)'
  BY <1>1, <1>2, <1>4 DEF SessionInv, Displaced
<1> QED BY <1>3, <1>6, <1>7, <1>8, <1>9, <1>10 DEF SessionInv

\* The shell is closed, for the first time.
LEMMA CloseTermKeeps ==
  ASSUME SessionInv, NEW a \in Closers, CloseTerm(a)
  PROVE  SessionInv'
<1> USE Sentinels DEF Sessions
<1> DEFINE x == SessionOf(a)
<1>1. TypeOK /\ cl[a] = "term" /\ Busy(a) /\ x \in Conns /\ Of(a, x) /\ ~Unborn(x) /\ ~Live(x)
      /\ closes[x] = 0 /\ \A b \in Closers : Busy(b) /\ Of(b, x) => b = a
  <2>1. TypeOK /\ cl[a] = "term" /\ Busy(a)
    BY DEF SessionInv, CloseTerm, Busy
  <2>2. x \in Conns /\ Of(a, x) /\ ~Unborn(x)
    BY <2>1, OneSession
  <2> QED BY <2>1, <2>2 DEF SessionInv, Closing
<1>2. /\ sessions' = sessions /\ conn' = conn /\ timer' = timer /\ removed' = removed
      /\ sock' = sock /\ pc' = pc /\ req' = req /\ ses' = ses /\ old' = old /\ rpc' = rpc /\ rconn' = rconn /\ clConn' = clConn
      /\ shell' = [shell EXCEPT ![x] = "exited"] /\ closes' = [closes EXCEPT ![x] = 1] /\ cl' = [cl EXCEPT ![a] = "none"]
  <2>1. closes' = [closes EXCEPT ![x] = 1]
    BY <1>1 DEF CloseTerm, TypeOK
  <2> QED BY <2>1 DEF CloseTerm, sessionVars, startVars, readerVars
<1>3. /\ \A s \in Conns : Of(a, s) => s = x
      /\ \A s \in Conns : By(a, "timer", s) \/ By(a, "reader", s) => s = x
      /\ \A c \in Conns : By(a, "input", c) => ses[c] = x
  BY <1>1, OneSession
<1> HIDE DEF x
<1>4. TypeOK'
  BY <1>1, <1>2 DEF TypeOK
<1>5. /\ cl'[a] = "none" /\ closes'[x] = 1 /\ shell'[x] = "exited"
      /\ \A b \in Closers \ {a} : cl'[b] = cl[b]
      /\ \A s \in Conns \ {x} : closes'[s] = closes[s] /\ shell'[s] = shell[s]
  BY <1>1, <1>2 DEF TypeOK
<1>6. /\ \A s \in Conns : (Live(s)' <=> Live(s)) /\ (Unborn(s)' <=> Unborn(s))
      /\ \A b \in Closers : Busy(b)' <=> Busy(b) /\ b # a
      /\ \A b \in Closers, s \in Conns : Of(b, s)' <=> Of(b, s) /\ b # a
  <2>1. \A b \in Closers, s \in Conns : Of(b, s)' <=> Of(b, s) /\ b # a
    BY <1>1, <1>2, <1>5 DEF Of
  <2> QED BY <1>1, <1>2, <1>5, <2>1 DEF Live, Unborn, Busy
<1>7. ASSUME NEW d \in Conns PROVE Handler(d)' /\ \A s \in Sessions : Handles(d, s)'
  BY <1>1, <1>2, <1>5, <1>6 DEF SessionInv, Handler, Handles
<1>8. ASSUME NEW b \in Closers, NEW s \in Sessions PROVE Closing(b, s)'
  <2>1. b # a /\ Busy(b) /\ Of(b, s) => s # x
    BY <1>1
  <2>2. Closing(b, s)
    BY DEF SessionInv
  <2> QED BY <1>2, <1>5, <1>6, <2>1, <2>2 DEF Closing
<1>9. ASSUME NEW s \in Sessions PROVE Owner(s)' /\ Counted(s)'
  BY <1>1, <1>2, <1>5, <1>6 DEF SessionInv, Owner, Counted
<1>10. ASSUME NEW s \in Sessions PROVE Guarded(s)' /\ Kept(s)' /\ Writes(s)'
  <2>1. Guarded(s)'
    BY <1>1, <1>2, <1>3, <1>5, <1>6 DEF SessionInv, Guarded
  <2>2. Kept(s)'
    BY <1>2, <1>3, <1>5, <1>6 DEF SessionInv, Kept
  <2>3. Writes(s)'
    BY <1>1, <1>2, <1>5 DEF SessionInv, Writes
  <2> QED BY <2>1, <2>2, <2>3
<1>11. ASSUME NEW d \in Conns, NEW s \in Sessions PROVE Displaced(d, s)'
  BY <1>1, <1>2, <1>5 DEF SessionInv, Displaced
<1> QED BY <1>4, <1>7, <1>8, <1>9, <1>10, <1>11 DEF SessionInv

(***************************************************************************)
(* The timer, the network and the shell.                                   *)
(***************************************************************************)

\* The callback of the timer becomes a closer of a session that is detached.
LEMMA TimerFiresKeeps ==
  ASSUME SessionInv, NEW x \in Sessions, TimerFires(x)
  PROVE  SessionInv'
<1> USE Sentinels DEF Sessions
<1> DEFINE o == <<"timer", x>>
<1>0. o \in Closers /\ o[1] = "timer" /\ o[2] = x
  BY Pairs
<1>1. TypeOK /\ timer[x] = "running" /\ ~Unborn(x) /\ cl[o] = "none"
  BY DEF SessionInv, TimerFires, Counted
<1>2. /\ sessions' = sessions /\ conn' = conn /\ removed' = removed /\ shell' = shell /\ closes' = closes
      /\ sock' = sock /\ pc' = pc /\ req' = req /\ ses' = ses /\ old' = old /\ rpc' = rpc /\ rconn' = rconn /\ clConn' = clConn
      /\ timer' = [timer EXCEPT ![x] = "fired"] /\ cl' = [cl EXCEPT ![o] = "enter"]
  BY DEF TimerFires, startVars, readerVars
<1> HIDE DEF o
<1>3. TypeOK'
  BY <1>0, <1>1, <1>2 DEF TypeOK
<1>4. /\ timer'[x] = "fired" /\ cl'[o] = "enter"
      /\ \A s \in Conns \ {x} : timer'[s] = timer[s]
      /\ \A a \in Closers \ {o} : cl'[a] = cl[a]
  BY <1>0, <1>1, <1>2 DEF TypeOK
<1>5. /\ \A s \in Conns : (Live(s)' <=> Live(s)) /\ (Unborn(s)' <=> Unborn(s))
      /\ \A a \in Closers : Busy(a)' <=> Busy(a)
      /\ \A a \in Closers, s \in Conns : Of(a, s)' <=> Of(a, s) \/ (a = o /\ s = x)
  <2>1. \A a \in Closers, s \in Conns : Of(a, s)' <=> Of(a, s) \/ (a = o /\ s = x)
    BY <1>0, <1>1, <1>2, <1>4 DEF Of
  <2> QED BY <1>0, <1>1, <1>2, <1>4, <2>1 DEF Live, Unborn, Busy
<1>6. \A a \in Closers : a[1] # "timer" => cl'[a] = cl[a]
  BY <1>0, <1>4
<1>7. ASSUME NEW d \in Conns PROVE Handler(d)' /\ \A s \in Sessions : Handles(d, s)'
  BY <1>2, <1>5, <1>6 DEF SessionInv, Handler, Handles, By
<1>8. ASSUME NEW a \in Closers, NEW s \in Sessions PROVE Closing(a, s)'
  <2>1. ~Busy(o)
    BY <1>1 DEF Busy
  <2> QED BY <1>1, <1>2, <1>4, <1>5, <2>1 DEF SessionInv, Closing
<1>9. ASSUME NEW s \in Sessions PROVE Owner(s)' /\ Counted(s)'
  BY <1>1, <1>2, <1>4, <1>5 DEF SessionInv, Owner, Counted
<1>10. ASSUME NEW s \in Sessions PROVE Guarded(s)' /\ Kept(s)' /\ Writes(s)'
  <2>1. Guarded(s)'
    <3>1. CASE s = x
      BY <1>0, <1>1, <1>2, <1>4, <1>5, <3>1 DEF SessionInv, Guarded, By
    <3>2. CASE s # x
      <4>1. \A a \in Closers : By(a, "timer", s) => a # o
        BY <1>0, <3>2 DEF By
      <4> QED BY <1>2, <1>4, <1>5, <3>2, <4>1 DEF SessionInv, Guarded
    <3> QED BY <3>1, <3>2
  <2>2. Kept(s)'
    BY <1>2, <1>5 DEF SessionInv, Kept
  <2>3. Writes(s)'
    BY <1>2, <1>6 DEF SessionInv, Writes, By
  <2> QED BY <2>1, <2>2, <2>3
<1>11. ASSUME NEW d \in Conns, NEW s \in Sessions PROVE Displaced(d, s)'
  BY <1>1, <1>2, <1>4 DEF SessionInv, Displaced
<1> QED BY <1>3, <1>7, <1>8, <1>9, <1>10, <1>11 DEF SessionInv

\* A connection is lost, a shell exits, or nothing happens.
LEMMA OutsideKeeps ==
  ASSUME SessionInv,
         (\E c \in Conns : ConnectionLost(c)) \/ (\E s \in Sessions : ShellExits(s)) \/ UNCHANGED vars
  PROVE  SessionInv'
<1> USE Sentinels DEF Sessions
<1>1. /\ sessions' = sessions /\ conn' = conn /\ timer' = timer /\ removed' = removed /\ closes' = closes
      /\ pc' = pc /\ req' = req /\ ses' = ses /\ old' = old /\ rpc' = rpc /\ rconn' = rconn /\ cl' = cl /\ clConn' = clConn
      /\ (sock' = sock \/ \E c \in Conns : sock' = [sock EXCEPT ![c] = "lost"])
      /\ (shell' = shell \/ \E s \in Sessions : shell' = [shell EXCEPT ![s] = "exited"])
  BY DEF ConnectionLost, ShellExits, vars, sessionVars, startVars, readerVars, closeVars
<1>2. TypeOK
  BY DEF SessionInv
<1>3. TypeOK'
  BY <1>1, <1>2 DEF TypeOK
<1>4. /\ \A c \in Conns : sock'[c] = "open" => sock[c] = "open"
      /\ \A s \in Conns : shell'[s] = "running" => shell[s] = "running"
  BY <1>1, <1>2 DEF TypeOK
<1>5. /\ \A s \in Conns : (Live(s)' <=> Live(s)) /\ (Unborn(s)' <=> Unborn(s))
      /\ \A a \in Closers : Busy(a)' <=> Busy(a)
      /\ \A a \in Closers, s \in Conns : Of(a, s)' <=> Of(a, s)
  BY <1>1 DEF Live, Unborn, Busy, Of
<1>6. ASSUME NEW d \in Conns PROVE Handler(d)' /\ \A s \in Sessions : Handles(d, s)'
  BY <1>1, <1>5 DEF SessionInv, Handler, Handles
<1>7. ASSUME NEW a \in Closers, NEW s \in Sessions PROVE Closing(a, s)'
  BY <1>1, <1>5 DEF SessionInv, Closing
<1>8. ASSUME NEW s \in Sessions PROVE Owner(s)' /\ Counted(s)' /\ Guarded(s)' /\ Writes(s)'
  BY <1>1, <1>5 DEF SessionInv, Owner, Counted, Guarded, Writes
<1>9. ASSUME NEW s \in Sessions PROVE Kept(s)'
  BY <1>1, <1>4, <1>5 DEF SessionInv, Kept
<1>10. ASSUME NEW d \in Conns, NEW s \in Sessions PROVE Displaced(d, s)'
  BY <1>1, <1>4 DEF SessionInv, Displaced
<1> QED BY <1>3, <1>6, <1>7, <1>8, <1>9, <1>10 DEF SessionInv

(***************************************************************************)
(* The theorems.                                                           *)
(***************************************************************************)

LEMMA StepKeeps == SessionInv /\ [Next]_vars => SessionInv'
<1> SUFFICES ASSUME SessionInv, [Next]_vars PROVE SessionInv'
  OBVIOUS
<1>1. CASE \E c \in Conns, r \in Requests : Reattach(c, r) \/ Spawn(c, r)
  BY <1>1, ReattachKeeps, SpawnKeeps
<1>2. CASE \E c \in Conns : StartStep(c)
  BY <1>2, PublishKeeps, YieldKeeps, DisplaceKeeps, InputFailsKeeps, InputReturnsKeeps DEF StartStep
<1>3. CASE \E c \in Conns : InputCloses(c)
  BY <1>3, InputClosesKeeps
<1>4. CASE \E s \in Sessions : ReaderStep(s)
  BY <1>4, OutputKeeps, OutputFailsKeeps, OutputEndsKeeps DEF ReaderStep
<1>5. CASE \E s \in Sessions : TimerFires(s)
  BY <1>5, TimerFiresKeeps
<1>6. CASE \E a \in Closers : CloseStep(a)
  BY <1>6, CloseEnterKeeps, CloseMarkKeeps, CloseConnKeeps, CloseTermKeeps DEF CloseStep
<1>7. CASE (\E c \in Conns : ConnectionLost(c)) \/ (\E s \in Sessions : ShellExits(s)) \/ UNCHANGED vars
  BY <1>7, OutsideKeeps
<1> QED BY <1>1, <1>2, <1>3, <1>4, <1>5, <1>6, <1>7 DEF Next

LEMMA Inductive == Spec => []SessionInv
<1> QED BY InitHolds, StepKeeps, PTL DEF Spec

LEMMA InvAccounts == SessionInv => SessionsAccounted
<1> SUFFICES ASSUME SessionInv PROVE SessionsAccounted
  OBVIOUS
<1> USE DEF Sessions
<1>1. ClosedOnce
  BY DEF SessionInv, Counted, ClosedOnce
<1>2. ASSUME NEW s \in Sessions, shell[s] = "running" PROVE pc[s] = "publish" \/ Live(s) \/ ClosedBy(s) # {}
  <2>1. ASSUME NEW a \in Closers, Busy(a), Of(a, s) PROVE a \in ClosedBy(s)
    BY <2>1 DEF Busy, Of, SessionOf, ClosedBy
  <2> QED BY <1>2, <2>1 DEF SessionInv, Kept
<1>3. ASSUME NEW s \in Sessions, Live(s)
      PROVE  /\ conn[s] = NoConn => timer[s] = "running" \/ cl[<<"timer", s>>] # "none"
             /\ conn[s] # NoConn => timer[s] # "running"
  <2>1. \A a \in Closers : By(a, "timer", s) => a = <<"timer", s>>
    BY Pairs DEF By
  <2> QED BY <1>3, <2>1 DEF SessionInv, Guarded
<1>4. \A s \in Sessions : rpc[s] = "write" => rconn[s] # NoConn
  BY DEF SessionInv, Writes
<1> QED BY <1>1, <1>2, <1>3, <1>4 DEF SessionsAccounted, NoShellLeak, TimerGuardsDetached

LEMMA InvMatches == SessionInv => InputMatchesOutput
<1> SUFFICES ASSUME SessionInv PROVE InputMatchesOutput
  OBVIOUS
<1> USE DEF Sessions
<1>1. ASSUME NEW c \in Conns, pc[c] = "input", sock[c] = "open", conn[ses[c]] # c
      PROVE  \/ \E d \in Conns : pc[d] = "displace" /\ old[d] = c
             \/ \E a \in Closers : cl[a] = "conn" /\ clConn[a] = c
  <2>1. ses[c] \in Conns
    BY <1>1, Standing
  <2> QED BY <1>1, <2>1 DEF SessionInv, Displaced
<1>2. ASSUME NEW s \in Sessions, Live(s), conn[s] # NoConn
      PROVE  ses[conn[s]] = s /\ pc[conn[s]] \in {"displace", "input", "close"}
  <2>1. conn[s] \in Conns
    BY <1>2 DEF SessionInv, TypeOK
  <2>2. ses[conn[s]] = s
    BY <1>2, <2>1 DEF SessionInv, Guarded
  <2> QED BY <2>1, <2>2, Sentinels DEF SessionInv, Handler
<1> QED BY <1>1, <1>2 DEF InputMatchesOutput

\* Every variable keeps the type the code gives it.
THEOREM TypeCorrect == Spec => []TypeOK
<1> SessionInv => TypeOK
  BY DEF SessionInv
<1> QED BY Inductive, PTL

\* For any number of connections that start, displace and close each other, of timers
\* and of exiting shells: no shell is closed twice or left behind, a session without a
\* connection has a timer or a callback, and readOutput has a connection to write to.
THEOREM SessionsCorrect == Spec => []SessionsAccounted
BY Inductive, InvAccounts, PTL

\* A connection whose input reaches a shell sees that shell's output, unless it is being
\* closed, and no session writes to a connection that has left it.
THEOREM InputCorrect == Spec => []InputMatchesOutput
BY Inductive, InvMatches, PTL

(***************************************************************************)
(* Sessions implement ShellLending.  What the steps need to know besides:  *)
(* which sessions have a shell, that an unborn session has no connection,  *)
(* and that a closer that is past session.mu leaves none.                  *)
(***************************************************************************)

Lendable(s) ==
  /\ pc[s] = "idle" => shell[s] = "none"
  /\ pc[s] = "publish" \/ Live(s) => shell[s] # "none"
  /\ Unborn(s) => conn[s] = NoConn
  /\ \A a \in Closers : Busy(a) /\ Of(a, s) => shell[s] # "none" /\ (cl[a] # "mark" => conn[s] = NoConn)

LendingInv == \A s \in Sessions : Lendable(s)

\* A shell is offered while its session is in the map.
LEMMA Shown ==
  /\ \A s \in Conns : s \in Past <=> shell[s] # "none" /\ ~Unborn(s) /\ ~Live(s)
  /\ \A c \in Conns : c \in Served <=> ~Unborn(c)
  /\ Past \subseteq Conns /\ Served \subseteq Conns
  /\ \A s \in Conns : Lending!Offered(s) <=> Live(s)
BY DEF Past, Served, Sessions, Unborn, Live, Lending!Offered

\* Steps that start no shell, move no session and let no closer go on show nothing.
LEMMA LendingStutters ==
  ASSUME SessionInv, LendingInv,
         sessions' = sessions, conn' = conn, shell' = shell, closes' = closes,
         \A c \in Conns : (pc'[c] = "idle" <=> pc[c] = "idle") /\ (pc'[c] = "publish" <=> pc[c] = "publish"),
         \A a \in Closers, s \in Conns :
            Busy(a)' /\ Of(a, s)' => Busy(a) /\ Of(a, s) /\ (cl[a] = "mark" => cl'[a] = "mark")
  PROVE  LendingInv' /\ UNCHANGED Lending!vars
<1>1. \A s \in Conns : (Live(s)' <=> Live(s)) /\ (Unborn(s)' <=> Unborn(s))
  BY DEF Live, Unborn
<1>2. Past' = Past /\ Served' = Served
  BY <1>1 DEF Past, Served, Sessions, Unborn
<1>3. ASSUME NEW s \in Sessions PROVE Lendable(s)'
  BY <1>1, <1>3 DEF LendingInv, Lendable, Sessions
<1> QED BY <1>2, <1>3 DEF Lending!vars, LendingInv, Sessions

\* A connection starts a shell, for a session that has none.
LEMMA SpawnStarts ==
  ASSUME SessionInv, LendingInv, NEW c \in Conns, NEW r \in Requests, Spawn(c, r)
  PROVE  LendingInv' /\ Lending!Start(c)
<1> USE DEF Sessions
<1>1. TypeOK /\ pc[c] = "idle" /\ Unborn(c) /\ ~Live(c) /\ shell[c] = "none"
  BY Standing DEF SessionInv, Spawn, Unborn, LendingInv, Lendable
<1>2. /\ sessions' = sessions /\ conn' = conn /\ closes' = closes /\ ses' = ses /\ cl' = cl
      /\ shell' = [shell EXCEPT ![c] = "running"] /\ pc' = [pc EXCEPT ![c] = "publish"]
  BY DEF Spawn, sessionVars, closeVars
<1>3. /\ shell'[c] = "running" /\ pc'[c] = "publish"
      /\ \A d \in Conns \ {c} : pc'[d] = pc[d] /\ shell'[d] = shell[d]
  BY <1>1, <1>2 DEF TypeOK
<1>4. /\ \A s \in Conns : (Live(s)' <=> Live(s)) /\ (Unborn(s)' <=> Unborn(s))
      /\ \A a \in Closers : Busy(a)' <=> Busy(a)
      /\ \A a \in Closers, s \in Conns : Of(a, s)' <=> Of(a, s)
  BY <1>1, <1>2, <1>3 DEF Live, Unborn, Busy, Of
<1>5. Past' = Past /\ Served' = Served
  BY <1>1, <1>3, <1>4 DEF Past, Served, Unborn
<1>6. ASSUME NEW s \in Sessions PROVE Lendable(s)'
  BY <1>1, <1>2, <1>3, <1>4 DEF LendingInv, Lendable
<1> QED BY <1>1, <1>2, <1>5, <1>6 DEF LendingInv, Lending!Start

\* The new session is offered, and the connection gets it.
LEMMA PublishOffers ==
  ASSUME SessionInv, LendingInv, NEW c \in Conns, Publish(c)
  PROVE  LendingInv' /\ req[c] \in Requests /\ Lending!Offer(c, req[c], c)
<1> USE DEF Sessions
<1>1. /\ TypeOK /\ pc[c] = "publish" /\ Unborn(c) /\ ~Live(c) /\ shell[c] # "none"
      /\ req[c] \in Requests /\ sessions[req[c]] = NoSession /\ \A a \in Closers : ~Of(a, c)
  BY Standing DEF SessionInv, Handler, Closing, Publish, Unborn, LendingInv, Lendable
<1>2. /\ shell' = shell /\ closes' = closes /\ cl' = cl
      /\ pc' = [pc EXCEPT ![c] = "displace"] /\ ses' = [ses EXCEPT ![c] = c]
      /\ sessions' = [sessions EXCEPT ![req[c]] = c] /\ conn' = [conn EXCEPT ![c] = c]
  BY DEF Publish, Attach, closeVars
<1>3. /\ pc'[c] = "displace" /\ ses'[c] = c
      /\ \A d \in Conns \ {c} : pc'[d] = pc[d] /\ ses'[d] = ses[d] /\ conn'[d] = conn[d]
      /\ sessions'[req[c]] = c /\ \A r \in Requests \ {req[c]} : sessions'[r] = sessions[r]
  BY <1>1, <1>2 DEF TypeOK
<1>4. /\ \A s \in Conns : Live(s)' <=> Live(s) \/ s = c
      /\ \A s \in Conns : Unborn(s)' <=> Unborn(s) /\ s # c
      /\ \A a \in Closers : Busy(a)' <=> Busy(a)
  BY <1>1, <1>2, <1>3, Sentinels DEF Live, Unborn, Busy
<1>5. \A a \in Closers, s \in Conns : Busy(a)' /\ Of(a, s)' => Busy(a) /\ Of(a, s) /\ s # c
  <2>1. \A a \in Closers : By(a, "input", c) => cl[a] = "none"
    BY <1>1 DEF SessionInv, Handler
  <2> QED BY <1>1, <1>2, <1>3, <1>4, <2>1, Pairs DEF Of, Busy, By
<1>6. Past' = Past /\ Served' = Served \cup {c} /\ c \notin Past /\ c \notin Served
  BY <1>1, <1>2, <1>4 DEF Past, Served, Unborn
<1>7. ASSUME NEW s \in Sessions PROVE Lendable(s)'
  <2>1. CASE s = c
    BY <1>1, <1>2, <1>3, <1>4, <1>5, <2>1 DEF Lendable
  <2>2. CASE s # c
    BY <1>2, <1>3, <1>4, <1>5, <2>2 DEF LendingInv, Lendable
  <2> QED BY <2>1, <2>2
<1>8. Lending!Spare(c)
  BY <1>1, <1>6, Shown DEF Lending!Spare
<1> QED BY <1>1, <1>2, <1>6, <1>7, <1>8 DEF LendingInv, Lending!Offer, Lending!Lend

\* What Reattach and Yield do to the session x they find.
LEMMA AttachLends ==
  ASSUME SessionInv, LendingInv, NEW c \in Conns, NEW x \in Conns, Live(x), Unborn(c), Attach(x, c),
         sessions' = sessions, shell' = shell,
         \A a \in Closers, s \in Conns :
            Busy(a)' /\ Of(a, s)' /\ s # c => Busy(a) /\ Of(a, s) /\ (cl[a] = "mark" => cl'[a] = "mark"),
         \A a \in Closers : Busy(a)' /\ Of(a, c)' => shell[c] # "none"
  PROVE  /\ LendingInv' /\ conn' = [conn EXCEPT ![x] = c]
         /\ Served' = Served \cup {c} /\ c \notin Served
         /\ Past' = Past \cup (IF shell[c] = "none" THEN {} ELSE {c})
<1> USE DEF Sessions
<1>1. TypeOK /\ ~Live(c) /\ ~Unborn(x) /\ x # c /\ conn[c] = NoConn
  BY Standing DEF SessionInv, LendingInv, Lendable
<1>2. pc' = [pc EXCEPT ![c] = "displace"] /\ conn' = [conn EXCEPT ![x] = c]
  BY DEF Attach
<1>3. /\ pc'[c] = "displace" /\ conn'[c] = NoConn
      /\ \A d \in Conns \ {c} : pc'[d] = pc[d]
      /\ \A s \in Conns \ {x} : conn'[s] = conn[s]
  BY <1>1, <1>2 DEF TypeOK
<1>4. \A s \in Conns : (Live(s)' <=> Live(s)) /\ (Unborn(s)' <=> Unborn(s) /\ s # c)
  BY <1>1, <1>3 DEF Live, Unborn
<1>5. Served' = Served \cup {c} /\ c \notin Served
  BY <1>4 DEF Served, Unborn
<1>6. Past' = Past \cup (IF shell[c] = "none" THEN {} ELSE {c})
  BY <1>1, <1>4 DEF Past, Unborn
<1>7. ASSUME NEW s \in Sessions PROVE Lendable(s)'
  <2>1. CASE s = c
    BY <1>1, <1>3, <1>4, <2>1 DEF Lendable
  <2>2. CASE s = x
    <3>1. \A a \in Closers : ~(Busy(a) /\ Of(a, x))
      BY DEF SessionInv, Closing
    <3> QED BY <1>1, <1>3, <1>4, <2>2, <3>1 DEF LendingInv, Lendable
  <2>3. CASE s # c /\ s # x
    BY <1>3, <1>4, <2>3 DEF LendingInv, Lendable
  <2> QED BY <2>1, <2>2, <2>3
<1> QED BY <1>2, <1>5, <1>6, <1>7 DEF LendingInv

\* A connection takes the session of its request id over.
LEMMA ReattachTakesOver ==
  ASSUME SessionInv, LendingInv, NEW c \in Conns, NEW r \in Requests, Reattach(c, r)
  PROVE  LendingInv' /\ Lending!TakeOver(r, c)
<1> USE DEF Sessions
<1> DEFINE x == sessions[r]
<1>1. /\ TypeOK /\ x \in Conns /\ x # NoSession /\ Live(x) /\ Unborn(c) /\ shell[c] = "none" /\ Attach(x, c)
      /\ \A a \in Closers : By(a, "input", c) => cl[a] = "none"
  BY DEF SessionInv, TypeOK, Handler, Reattach, Unborn, Live, LendingInv, Lendable
<1>2. sessions' = sessions /\ shell' = shell /\ closes' = closes /\ cl' = cl /\ ses' = [ses EXCEPT ![c] = x]
  BY <1>1 DEF Reattach, Attach, closeVars
<1>3. \A a \in Closers, s \in Conns : Busy(a)' /\ Of(a, s)' => Busy(a) /\ Of(a, s) /\ s # c
  <2>1. \A d \in Conns \ {c} : ses'[d] = ses[d]
    BY <1>1, <1>2 DEF TypeOK
  <2>2. \A a \in Closers, s \in Conns : Busy(a)' /\ Of(a, s)' => Busy(a) /\ Of(a, s)
    BY <1>1, <1>2, <2>1, Pairs DEF Of, Busy, By
  <2>3. \A a \in Closers : ~Of(a, c)
    BY <1>1 DEF SessionInv, Closing
  <2> QED BY <2>2, <2>3
<1> HIDE DEF x
<1>4. /\ LendingInv' /\ conn' = [conn EXCEPT ![x] = c] /\ Served' = Served \cup {c} /\ c \notin Served
      /\ Past' = Past
  BY <1>1, <1>2, <1>3, AttachLends
<1> QED BY <1>1, <1>2, <1>4 DEF x, Lending!TakeOver, Lending!Lend

\* A connection whose request id has a session by now gets that one.
LEMMA YieldTurnsDown ==
  ASSUME SessionInv, LendingInv, NEW c \in Conns, Yield(c)
  PROVE  LendingInv' /\ req[c] \in Requests /\ Lending!TurnDown(c, req[c], c)
<1> USE DEF Sessions
<1> DEFINE x == sessions[req[c]]
           o == <<"orphan", c>>
<1>0. o \in Closers /\ o[1] = "orphan" /\ o[2] = c
  BY Pairs
<1>1. /\ TypeOK /\ pc[c] = "publish" /\ x # NoSession /\ Unborn(c) /\ shell[c] # "none" /\ Attach(x, c)
      /\ req[c] \in Requests /\ \A a \in Closers : By(a, "input", c) => cl[a] = "none"
  BY DEF SessionInv, Handler, Yield, Unborn, LendingInv, Lendable
<1>2. x \in Conns /\ Live(x) /\ ~Live(c)
  BY <1>1, Standing DEF TypeOK, Live
<1>3. /\ sessions' = sessions /\ shell' = shell /\ closes' = closes /\ ses' = [ses EXCEPT ![c] = x]
      /\ cl' = [cl EXCEPT ![o] = "term"]
  BY <1>1 DEF Yield, Attach
<1>4. \A a \in Closers, s \in Conns :
         Busy(a)' /\ Of(a, s)' /\ s # c => Busy(a) /\ Of(a, s) /\ (cl[a] = "mark" => cl'[a] = "mark")
  <2>1. \A d \in Conns \ {c} : ses'[d] = ses[d]
    BY <1>1, <1>3 DEF TypeOK
  <2>2. \A a \in Closers \ {o} : cl'[a] = cl[a]
    BY <1>1, <1>3 DEF TypeOK
  <2> QED BY <1>0, <1>1, <2>1, <2>2, Pairs DEF Of, Busy, By
<1> HIDE DEF x, o
<1>5. /\ LendingInv' /\ conn' = [conn EXCEPT ![x] = c] /\ Served' = Served \cup {c} /\ c \notin Served
      /\ Past' = Past \cup {c}
  BY <1>1, <1>2, <1>3, <1>4, AttachLends
<1>6. Lending!Spare(c)
  BY <1>1, <1>2, Shown DEF Lending!Spare
<1> QED BY <1>1, <1>3, <1>5, <1>6 DEF x, Lending!TurnDown, Lending!Lend

\* handleInput or readOutput of session x detaches it from connection c.
LEMMA DetachTakesBack ==
  ASSUME SessionInv, LendingInv, NEW x \in Sessions, NEW c, c # NoConn, Detach(x, c),
         sessions' = sessions, shell' = shell, closes' = closes, cl' = cl,
         \A d \in Conns : (pc'[d] = "idle" <=> pc[d] = "idle") /\ (pc'[d] = "publish" <=> pc[d] = "publish"),
         \A a \in Closers, s \in Conns : Busy(a) /\ Of(a, s)' => Of(a, s)
  PROVE  LendingInv' /\ (Lending!TakeBack(x) \/ UNCHANGED Lending!vars)
<1> USE DEF Sessions
<1>1. CASE conn' = conn
  <2>1. \A a \in Closers : Busy(a)' <=> Busy(a)
    BY DEF Busy
  <2> QED BY <1>1, <2>1, LendingStutters
<1>2. CASE conn' # conn
  <2>1. conn[x] # NoConn /\ conn' = [conn EXCEPT ![x] = NoConn]
    BY <1>2 DEF Detach
  <2>2. \A s \in Conns : conn'[s] = (IF s = x THEN NoConn ELSE conn[s])
    BY <2>1 DEF SessionInv, TypeOK
  <2>3. /\ \A s \in Conns : (Live(s)' <=> Live(s)) /\ (Unborn(s)' <=> Unborn(s))
        /\ \A a \in Closers : Busy(a)' <=> Busy(a)
    BY DEF Live, Unborn, Busy
  <2>4. Past' = Past /\ Served' = Served
    BY <2>3 DEF Past, Served, Unborn
  <2>5. ASSUME NEW s \in Sessions PROVE Lendable(s)'
    BY <2>2, <2>3 DEF LendingInv, Lendable
  <2> QED BY <2>1, <2>4, <2>5 DEF LendingInv, Lending!TakeBack
<1> QED BY <1>1, <1>2

\* Whoever takes a session out of the map withdraws it; the others show nothing.
LEMMA CloseEnterWithdraws ==
  ASSUME SessionInv, LendingInv, NEW a \in Closers, CloseEnter(a)
  PROVE  LendingInv' /\ ((\E r \in Requests : Lending!Withdraw(r)) \/ UNCHANGED Lending!vars)
<1> USE DEF Sessions
<1> DEFINE x == SessionOf(a)
           takes == sessions[req[x]] = x
<1>1. TypeOK /\ cl[a] = "enter" /\ x \in Conns /\ ~Unborn(x) /\ req[x] \in Requests /\ \A s \in Conns : Of(a, s) => s = x
  <2>1. TypeOK /\ cl[a] = "enter"
    BY DEF SessionInv, CloseEnter
  <2> QED BY <2>1, OneSession DEF SessionInv, Handler, Unborn
<1>2. /\ conn' = conn /\ shell' = shell /\ closes' = closes /\ pc' = pc /\ ses' = ses
      /\ sessions' = (IF takes THEN [sessions EXCEPT ![req[x]] = NoSession] ELSE sessions)
      /\ cl' = [cl EXCEPT ![a] = IF takes THEN "mark" ELSE "none"]
  BY DEF CloseEnter, startVars
<1> HIDE DEF x
<1>3. cl'[a] = (IF takes THEN "mark" ELSE "none") /\ \A b \in Closers \ {a} : cl'[b] = cl[b]
  BY <1>1, <1>2 DEF TypeOK
<1>4. \A b \in Closers, s \in Conns :
         Busy(b)' /\ Of(b, s)' => (b = a /\ takes /\ s = x) \/ (b # a /\ Busy(b) /\ Of(b, s))
  BY <1>1, <1>2, <1>3 DEF Busy, Of
<1>5. CASE ~takes
  BY <1>2, <1>3, <1>4, <1>5, LendingStutters
<1>6. CASE takes
  <2>1. sessions[req[x]] = x /\ Live(x) /\ x # NoSession /\ shell[x] # "none"
    BY <1>1, <1>6, Sentinels DEF Live, LendingInv, Lendable
  <2>2. \A r \in Requests : sessions[r] = x => r = req[x]
    BY <1>1 DEF SessionInv, Owner
  <2>3. /\ \A s \in Conns : Live(s)' <=> Live(s) /\ s # x
        /\ \A s \in Conns : Unborn(s)' <=> Unborn(s)
    <3>1. sessions'[req[x]] = NoSession /\ \A r \in Requests \ {req[x]} : sessions'[r] = sessions[r]
      BY <1>1, <1>2, <1>6 DEF TypeOK
    <3>2. NoSession \notin Conns
      BY Sentinels
    <3> QED BY <1>1, <1>2, <2>1, <2>2, <3>1, <3>2 DEF Live, Unborn
  <2>4. Past' = Past \cup {x} /\ Served' = Served
    BY <1>1, <1>2, <2>1, <2>3 DEF Past, Served, Unborn
  <2>5. ASSUME NEW s \in Sessions PROVE Lendable(s)'
    BY <1>2, <1>3, <1>4, <2>1, <2>3 DEF LendingInv, Lendable
  <2> QED BY <1>1, <1>2, <1>6, <2>1, <2>4, <2>5 DEF LendingInv, Lending!Withdraw
<1> QED BY <1>5, <1>6

\* Under session.mu the connection, if there is one, is taken back.
LEMMA CloseMarkTakesBack ==
  ASSUME SessionInv, LendingInv, NEW a \in Closers, CloseMark(a)
  PROVE  LendingInv' /\ ((\E s \in Sessions : Lending!TakeBack(s)) \/ UNCHANGED Lending!vars)
<1> USE DEF Sessions
<1> DEFINE x == SessionOf(a)
<1>1. /\ TypeOK /\ cl[a] = "mark" /\ Busy(a) /\ x \in Conns /\ Of(a, x) /\ x \notin removed
      /\ \A s \in Conns : Of(a, s) => s = x
  <2>1. TypeOK /\ cl[a] = "mark" /\ Busy(a)
    BY DEF SessionInv, CloseMark, Busy
  <2>2. x \in Conns /\ Of(a, x) /\ \A s \in Conns : Of(a, s) => s = x
    BY <2>1, OneSession
  <2> QED BY <2>1, <2>2 DEF SessionInv, Closing
<1>2. /\ sessions' = sessions /\ shell' = shell /\ closes' = closes /\ pc' = pc /\ ses' = ses
      /\ conn' = [conn EXCEPT ![x] = NoConn] /\ cl' = [cl EXCEPT ![a] = "conn"]
  BY <1>1 DEF CloseMark, startVars
<1> HIDE DEF x
<1>3. /\ cl'[a] = "conn" /\ \A b \in Closers \ {a} : cl'[b] = cl[b]
      /\ \A s \in Conns : conn'[s] = (IF s = x THEN NoConn ELSE conn[s])
  BY <1>1, <1>2 DEF TypeOK
<1>4. /\ \A s \in Conns : (Live(s)' <=> Live(s)) /\ (Unborn(s)' <=> Unborn(s))
      /\ \A b \in Closers, s \in Conns :
            Busy(b)' /\ Of(b, s)' => Busy(b) /\ Of(b, s) /\ (b = a => s = x)
  BY <1>1, <1>2, <1>3 DEF Live, Unborn, Busy, Of
<1>5. Past' = Past /\ Served' = Served
  BY <1>2, <1>4 DEF Past, Served, Unborn
<1>6. ASSUME NEW s \in Sessions PROVE Lendable(s)'
  BY <1>2, <1>3, <1>4 DEF LendingInv, Lendable
<1>7. CASE conn[x] = NoConn
  <2>1. conn' = conn
    BY <1>1, <1>2, <1>7 DEF TypeOK
  <2> QED BY <1>2, <1>5, <1>6, <2>1 DEF LendingInv, Lending!vars
<1>8. CASE conn[x] # NoConn
  BY <1>1, <1>2, <1>5, <1>6, <1>8 DEF LendingInv, Lending!TakeBack
<1> QED BY <1>7, <1>8

\* The shell that is closed was offered once, is withdrawn, and nobody has it.
LEMMA CloseTermCloses ==
  ASSUME SessionInv, LendingInv, NEW a \in Closers, CloseTerm(a)
  PROVE  LendingInv' /\ \E s \in Sessions : Lending!Close(s)
<1> USE DEF Sessions
<1> DEFINE x == SessionOf(a)
<1>1. /\ TypeOK /\ cl[a] = "term" /\ Busy(a) /\ x \in Conns /\ Of(a, x) /\ ~Unborn(x) /\ ~Live(x) /\ closes[x] = 0
      /\ shell[x] # "none" /\ conn[x] = NoConn
  <2>1. TypeOK /\ cl[a] = "term" /\ Busy(a)
    BY DEF SessionInv, CloseTerm, Busy
  <2>2. x \in Conns /\ Of(a, x) /\ ~Unborn(x)
    BY <2>1, OneSession
  <2>3. ~Live(x) /\ closes[x] = 0
    BY <2>1, <2>2 DEF SessionInv, Closing
  <2>4. shell[x] # "none" /\ conn[x] = NoConn
    BY <2>1, <2>2 DEF LendingInv, Lendable
  <2> QED BY <2>1, <2>2, <2>3, <2>4
<1>2. /\ sessions' = sessions /\ conn' = conn /\ pc' = pc /\ ses' = ses
      /\ shell' = [shell EXCEPT ![x] = "exited"] /\ closes' = [closes EXCEPT ![x] = 1] /\ cl' = [cl EXCEPT ![a] = "none"]
  <2>1. closes' = [closes EXCEPT ![x] = 1]
    BY <1>1 DEF CloseTerm, TypeOK
  <2> QED BY <2>1 DEF CloseTerm, sessionVars, startVars
<1> HIDE DEF x
<1>3. /\ \A b \in Closers : cl'[b] = (IF b = a THEN "none" ELSE cl[b])
      /\ \A s \in Conns : shell'[s] = (IF s = x THEN "exited" ELSE shell[s])
  BY <1>1, <1>2 DEF TypeOK
<1>4. /\ \A s \in Conns : (Live(s)' <=> Live(s)) /\ (Unborn(s)' <=> Unborn(s))
      /\ \A b \in Closers, s \in Conns : Busy(b)' /\ Of(b, s)' => Busy(b) /\ Of(b, s) /\ b # a
  BY <1>2, <1>3 DEF Live, Unborn, Busy, Of
<1>5. Past' = Past /\ Served' = Served /\ x \in Past
  BY <1>1, <1>3, <1>4 DEF Past, Served, Unborn
<1>6. ASSUME NEW s \in Sessions PROVE Lendable(s)'
  <2>1. s # x => shell'[s] = shell[s]
    BY <1>3
  <2> QED BY <1>1, <1>2, <1>3, <1>4, <2>1 DEF LendingInv, Lendable, Unborn
<1> QED BY <1>1, <1>2, <1>5, <1>6 DEF LendingInv, Lending!Close

LEMMA ShellExitsShown ==
  ASSUME SessionInv, LendingInv, NEW x \in Sessions, ShellExits(x)
  PROVE  LendingInv' /\ Lending!Exit(x)
<1> USE DEF Sessions
<1>1. /\ shell[x] = "running" /\ shell' = [shell EXCEPT ![x] = "exited"]
      /\ sessions' = sessions /\ conn' = conn /\ closes' = closes /\ pc' = pc /\ ses' = ses /\ cl' = cl
  BY DEF ShellExits, sessionVars, startVars, closeVars
<1>2. \A s \in Conns : shell'[s] = "none" <=> shell[s] = "none"
  BY <1>1 DEF SessionInv, TypeOK
<1>3. /\ \A s \in Conns : (Live(s)' <=> Live(s)) /\ (Unborn(s)' <=> Unborn(s))
      /\ \A b \in Closers, s \in Conns : (Busy(b)' <=> Busy(b)) /\ (Of(b, s)' <=> Of(b, s))
  BY <1>1 DEF Live, Unborn, Busy, Of
<1>4. Past' = Past /\ Served' = Served
  BY <1>2, <1>3 DEF Past, Served, Unborn
<1>5. ASSUME NEW s \in Sessions PROVE Lendable(s)'
  BY <1>1, <1>2, <1>3 DEF LendingInv, Lendable
<1> QED BY <1>1, <1>4, <1>5 DEF LendingInv, Lending!Exit

\* The other steps of StartTerminal, readOutput and the network.
LEMMA QuietSteps ==
  ASSUME SessionInv, LendingInv,
         \/ \E c \in Conns : Displace(c) \/ InputCloses(c) \/ InputReturns(c) \/ ConnectionLost(c)
         \/ \E s \in Sessions : ReadOutput(s) \/ OutputWritten(s) \/ OutputEnds(s) \/ TimerFires(s)
         \/ \E a \in Closers : CloseConn(a)
         \/ UNCHANGED vars
  PROVE  LendingInv' /\ UNCHANGED Lending!vars
<1> USE DEF Sessions
<1>1. TypeOK
  BY DEF SessionInv
<1>2. ASSUME NEW c \in Conns, Displace(c) \/ ConnectionLost(c) PROVE LendingInv' /\ UNCHANGED Lending!vars
  <2>1. /\ sessions' = sessions /\ conn' = conn /\ shell' = shell /\ closes' = closes /\ cl' = cl /\ ses' = ses
        /\ (pc' = pc \/ (pc[c] = "displace" /\ pc' = [pc EXCEPT ![c] = "input"]))
    BY <1>2 DEF Displace, ConnectionLost, sessionVars, startVars, closeVars
  <2>2. \A d \in Conns : (pc'[d] = "idle" <=> pc[d] = "idle") /\ (pc'[d] = "publish" <=> pc[d] = "publish")
    BY <1>1, <2>1 DEF TypeOK
  <2> QED BY <2>1, <2>2, LendingStutters DEF Busy, Of
<1>3. ASSUME NEW c \in Conns, InputCloses(c) PROVE LendingInv' /\ UNCHANGED Lending!vars
  <2>1. /\ sessions' = sessions /\ conn' = conn /\ shell' = shell /\ closes' = closes /\ ses' = ses
        /\ pc[c] = "input" /\ pc' = [pc EXCEPT ![c] = "close"] /\ cl' = [cl EXCEPT ![<<"input", c>>] = "enter"]
    BY <1>3 DEF InputCloses, sessionVars
  <2>2. /\ \A d \in Conns : (pc'[d] = "idle" <=> pc[d] = "idle") /\ (pc'[d] = "publish" <=> pc[d] = "publish")
        /\ \A a \in Closers : cl'[a] = "enter" \/ cl'[a] = cl[a]
    BY <1>1, <2>1 DEF TypeOK
  <2> QED BY <2>1, <2>2, LendingStutters DEF Busy, Of
<1>4. ASSUME NEW c \in Conns, InputReturns(c) PROVE LendingInv' /\ UNCHANGED Lending!vars
  <2>1. /\ sessions' = sessions /\ conn' = conn /\ shell' = shell /\ closes' = closes /\ cl' = cl
        /\ ses' = [ses EXCEPT ![c] = NoSession] /\ cl[<<"input", c>>] = "none"
        /\ pc[c] = "close" /\ pc' = [pc EXCEPT ![c] = "done"]
    BY <1>4 DEF InputReturns, sessionVars, closeVars
  <2>2. /\ \A d \in Conns : (pc'[d] = "idle" <=> pc[d] = "idle") /\ (pc'[d] = "publish" <=> pc[d] = "publish")
        /\ \A d \in Conns \ {c} : ses'[d] = ses[d]
    BY <1>1, <2>1 DEF TypeOK
  <2>3. \A a \in Closers : Busy(a) /\ a[1] = "input" => a[2] \in Conns \ {c}
    BY <2>1, Pairs DEF Busy
  <2>4. \A a \in Closers, s \in Conns :
           Busy(a)' /\ Of(a, s)' => Busy(a) /\ Of(a, s) /\ (cl[a] = "mark" => cl'[a] = "mark")
    BY <2>1, <2>2, <2>3 DEF Busy, Of
  <2> QED BY <2>1, <2>2, <2>4, LendingStutters
<1>5. ASSUME NEW s \in Sessions, ReadOutput(s) \/ OutputWritten(s) PROVE LendingInv' /\ UNCHANGED Lending!vars
  BY <1>5, LendingStutters DEF ReadOutput, OutputWritten, sessionVars, startVars, closeVars, Busy, Of
<1>6. ASSUME NEW s \in Sessions, OutputEnds(s) \/ TimerFires(s) PROVE LendingInv' /\ UNCHANGED Lending!vars
  <2>1. /\ sessions' = sessions /\ conn' = conn /\ shell' = shell /\ closes' = closes /\ pc' = pc /\ ses' = ses
        /\ \E a : cl' = [cl EXCEPT ![a] = "enter"]
    BY <1>6 DEF OutputEnds, TimerFires, sessionVars, startVars
  <2>2. \A a \in Closers : cl'[a] = "enter" \/ cl'[a] = cl[a]
    BY <1>1, <2>1 DEF TypeOK
  <2> QED BY <2>1, <2>2, LendingStutters DEF Busy, Of
<1>7. ASSUME NEW a \in Closers, CloseConn(a) PROVE LendingInv' /\ UNCHANGED Lending!vars
  <2>1. /\ sessions' = sessions /\ conn' = conn /\ shell' = shell /\ closes' = closes /\ pc' = pc /\ ses' = ses
        /\ cl[a] = "conn" /\ cl' = [cl EXCEPT ![a] = "term"]
    BY <1>7 DEF CloseConn, sessionVars, startVars
  <2>2. cl'[a] = "term" /\ \A b \in Closers \ {a} : cl'[b] = cl[b]
    BY <1>1, <2>1 DEF TypeOK
  <2> QED BY <2>1, <2>2, LendingStutters DEF Busy, Of
<1>8. CASE UNCHANGED vars
  BY <1>8, LendingStutters DEF vars, Busy, Of
<1> QED BY <1>2, <1>3, <1>4, <1>5, <1>6, <1>7, <1>8

\* handleInput and readOutput detach after a failure.
LEMMA FailuresTakeBack ==
  ASSUME SessionInv, LendingInv, (\E c \in Conns : InputFails(c)) \/ (\E s \in Sessions : OutputFails(s))
  PROVE  LendingInv' /\ ((\E s \in Sessions : Lending!TakeBack(s)) \/ UNCHANGED Lending!vars)
<1> USE DEF Sessions
<1>1. ASSUME NEW c \in Conns, InputFails(c)
      PROVE  LendingInv' /\ ((\E s \in Sessions : Lending!TakeBack(s)) \/ UNCHANGED Lending!vars)
  <2>1. /\ sessions' = sessions /\ shell' = shell /\ closes' = closes /\ cl' = cl
        /\ pc[c] = "input" /\ Detach(ses[c], c)
        /\ ses' = [ses EXCEPT ![c] = NoSession] /\ pc' = [pc EXCEPT ![c] = "done"]
    BY <1>1 DEF InputFails, closeVars
  <2>2. ses[c] \in Conns /\ c # NoConn
    BY <2>1, Standing, Sentinels
  <2>3. /\ \A d \in Conns : (pc'[d] = "idle" <=> pc[d] = "idle") /\ (pc'[d] = "publish" <=> pc[d] = "publish")
        /\ \A d \in Conns \ {c} : ses'[d] = ses[d]
    BY <2>1 DEF SessionInv, TypeOK
  <2>4. \A a \in Closers : cl[a] # "none" /\ a[1] = "input" => a[2] \in Conns \ {c}
    BY <2>1, Pairs DEF SessionInv, Handler, By
  <2>5. \A a \in Closers, s \in Conns : Busy(a) /\ Of(a, s)' => Of(a, s)
    BY <2>1, <2>3, <2>4 DEF Busy, Of
  <2> QED BY <2>1, <2>2, <2>3, <2>5, DetachTakesBack
<1>2. ASSUME NEW s \in Sessions, OutputFails(s)
      PROVE  LendingInv' /\ ((\E x \in Sessions : Lending!TakeBack(x)) \/ UNCHANGED Lending!vars)
  <2>1. /\ sessions' = sessions /\ shell' = shell /\ closes' = closes /\ cl' = cl /\ pc' = pc /\ ses' = ses
        /\ rpc[s] = "write" /\ Detach(s, rconn[s])
    BY <1>2 DEF OutputFails, startVars, closeVars
  <2>2. rconn[s] # NoConn
    BY <2>1 DEF SessionInv, Writes
  <2>3. \A a \in Closers, x \in Conns : Busy(a) /\ Of(a, x)' => Of(a, x)
    BY <2>1 DEF Of
  <2> QED BY <2>1, <2>2, <2>3, DetachTakesBack
<1> QED BY <1>1, <1>2

\* Every step of web terminals is one of ShellLending, or shows nothing.
LEMMA LendingStep ==
  ASSUME SessionInv, LendingInv, [Next]_vars
  PROVE  LendingInv' /\ [Lending!Next]_(Lending!vars)
<1> USE DEF Sessions
<1>1. ASSUME NEW c \in Conns, NEW r \in Requests, Reattach(c, r) PROVE LendingInv' /\ Lending!Next
  BY <1>1, ReattachTakesOver DEF Lending!Next
<1>2. ASSUME NEW c \in Conns, NEW r \in Requests, Spawn(c, r) PROVE LendingInv' /\ Lending!Next
  BY <1>2, SpawnStarts DEF Lending!Next
<1>3. ASSUME NEW c \in Conns, Publish(c) PROVE LendingInv' /\ Lending!Next
  BY <1>3, PublishOffers DEF Lending!Next
<1>4. ASSUME NEW c \in Conns, Yield(c) PROVE LendingInv' /\ Lending!Next
  BY <1>4, YieldTurnsDown DEF Lending!Next
<1>5. ASSUME (\E c \in Conns : InputFails(c)) \/ (\E s \in Sessions : OutputFails(s))
      PROVE  LendingInv' /\ [Lending!Next]_(Lending!vars)
  BY <1>5, FailuresTakeBack DEF Lending!Next
<1>6. ASSUME NEW a \in Closers, CloseEnter(a) \/ CloseMark(a) \/ CloseTerm(a)
      PROVE  LendingInv' /\ [Lending!Next]_(Lending!vars)
  BY <1>6, CloseEnterWithdraws, CloseMarkTakesBack, CloseTermCloses DEF Lending!Next
<1>7. ASSUME NEW s \in Sessions, ShellExits(s) PROVE LendingInv' /\ Lending!Next
  BY <1>7, ShellExitsShown DEF Lending!Next
<1>8. ASSUME \/ \E c \in Conns : Displace(c) \/ InputCloses(c) \/ InputReturns(c) \/ ConnectionLost(c)
             \/ \E s \in Sessions : ReadOutput(s) \/ OutputWritten(s) \/ OutputEnds(s) \/ TimerFires(s)
             \/ \E a \in Closers : CloseConn(a)
             \/ UNCHANGED vars
      PROVE  LendingInv' /\ UNCHANGED Lending!vars
  BY <1>8, QuietSteps
<1> QED BY <1>1, <1>2, <1>3, <1>4, <1>5, <1>6, <1>7, <1>8 DEF Next, StartStep, ReaderStep, CloseStep

\* Terminals implement ShellLending: whatever goroutines, timers and connections do, a
\* connection gets a shell when it comes and only then (acquireSession), never one that
\* closeSession has withdrawn, and the agent closes a shell once, with nobody attached.
THEOREM LendingCorrect == Spec => LendingSpec
<1>1. Init => LendingInv /\ Lending!Init
  <2> SUFFICES ASSUME Init PROVE LendingInv /\ Lending!Init
    OBVIOUS
  <2>1. Past = {} /\ Served = {}
    BY DEF Init, Past, Served
  <2>2. LendingInv
    BY Sentinels DEF Init, LendingInv, Lendable, Live, Unborn, Busy, Sessions
  <2> QED BY <2>1, <2>2 DEF Init, Lending!Init
<1>2. SessionInv /\ LendingInv /\ [Next]_vars => LendingInv' /\ [Lending!Next]_(Lending!vars)
  BY LendingStep
<1> QED BY <1>1, <1>2, Inductive, PTL DEF Spec, LendingSpec, Lending!Spec

(***************************************************************************)
(* What ShellLending comes to, wherever it is implemented.                 *)
(***************************************************************************)

LentOnce ==
  /\ shell \in [Sessions -> {"none", "running", "exited"}]
  /\ sessions \in [Requests -> Sessions \cup {NoSession}]
  /\ conn \in [Sessions -> Conns \cup {NoConn}]
  /\ closes \in [Sessions -> Nat]
  /\ \A s \in Sessions : conn[s] # NoConn => conn[s] \in Served
  /\ Lending!Promise

LEMMA PromiseStep == LentOnce /\ [Lending!Next]_(Lending!vars) => LentOnce'
<1> SUFFICES ASSUME LentOnce, [Lending!Next]_(Lending!vars) PROVE LentOnce'
  OBVIOUS
<1> USE Sentinels DEF Sessions
<1>1. CASE UNCHANGED Lending!vars
  BY <1>1 DEF LentOnce, Lending!vars, Lending!Promise, Lending!Offered
<1>2. ASSUME NEW s \in Sessions, Lending!Start(s) PROVE LentOnce'
  BY <1>2 DEF LentOnce, Lending!Start, Lending!Promise, Lending!Offered
<1>3. ASSUME NEW s \in Sessions, Lending!TakeBack(s) PROVE LentOnce'
  BY <1>3 DEF LentOnce, Lending!TakeBack, Lending!Promise, Lending!Offered
<1>4. ASSUME NEW s \in Sessions, Lending!Exit(s) PROVE LentOnce'
  BY <1>4 DEF LentOnce, Lending!Exit, Lending!Promise, Lending!Offered
<1>5. ASSUME NEW s \in Sessions, Lending!Close(s) PROVE LentOnce'
  BY <1>5 DEF LentOnce, Lending!Close, Lending!Promise, Lending!Offered
<1>6. ASSUME NEW r \in Requests, Lending!Withdraw(r) PROVE LentOnce'
  BY <1>6 DEF LentOnce, Lending!Withdraw, Lending!Promise, Lending!Offered
<1>7. ASSUME NEW r \in Requests, NEW c \in Conns, Lending!TakeOver(r, c) PROVE LentOnce'
  BY <1>7 DEF LentOnce, Lending!TakeOver, Lending!Lend, Lending!Promise, Lending!Offered
<1>8. ASSUME NEW s \in Sessions, NEW r \in Requests, NEW c \in Conns, Lending!Offer(s, r, c) PROVE LentOnce'
  BY <1>8 DEF LentOnce, Lending!Offer, Lending!Lend, Lending!Spare, Lending!Promise, Lending!Offered
<1>9. ASSUME NEW s \in Sessions, NEW r \in Requests, NEW c \in Conns, Lending!TurnDown(s, r, c) PROVE LentOnce'
  BY <1>9 DEF LentOnce, Lending!TurnDown, Lending!Lend, Lending!Spare, Lending!Promise, Lending!Offered
<1> QED BY <1>1, <1>2, <1>3, <1>4, <1>5, <1>6, <1>7, <1>8, <1>9 DEF Lending!Next

LEMMA PromiseKept == LendingSpec => []Lending!Promise
<1>1. Lending!Init => LentOnce
  BY Sentinels DEF Lending!Init, LentOnce, Lending!Promise, Lending!Offered, Sessions
<1>2. LentOnce => Lending!Promise
  BY DEF LentOnce
<1> QED BY <1>1, <1>2, PromiseStep, PTL DEF LendingSpec, Lending!Spec

\* For any number of connections, two request ids have different shells and a connection
\* has one shell; a shell that is offered was started and is not withdrawn, and one that
\* was closed was closed once, is over and has no connection.
THEOREM PromiseCorrect == Spec => []Lending!Promise
BY LendingCorrect, PromiseKept, PTL
=============================================================================
