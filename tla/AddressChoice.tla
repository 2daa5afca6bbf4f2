--------------------------- MODULE AddressChoice ----------------------------
(***************************************************************************)
(* Which address the agent connects to, which name server it asks, and     *)
(* which address it reports as its own: dnsresolver/resolver.go and        *)
(* monitoring/unit/ip.go.                                                  *)
(*                                                                         *)
(* An address is a record with its version: 4, 6, or 0 for what does not   *)
(* parse.  Whether a connection to an address or a server comes about is   *)
(* a set of those for which it does.                                       *)
(***************************************************************************)
EXTENDS Naturals, FiniteSets, Sequences, SequencesExt, FiniteSetsExt

\* The first of a list that is in S, as a set; the empty set if there is none.
First(list, S) ==
  {list[i] : i \in {i \in DOMAIN list : list[i] \in S /\ \A j \in 1 .. i - 1 : list[j] \notin S}}

\* Those of a list that are in S, in its order.
Keep(list, S) == FoldLeft(LAMBDA kept, x : IF x \in S THEN Append(kept, x) ELSE kept, << >>, list)

(***************************************************************************)
(* Connections.                                                            *)
(***************************************************************************)

\* normalizeIPVersionPreference, preferIPv4First.
Version(prefer, hasIPv4) == IF prefer \in {4, 6} THEN prefer ELSE IF hasIPv4 THEN 4 ELSE 6

\* Mutant: only the addresses of the version that is preferred.
sortIPsByPreferenceOnly(ips, version) == Keep(ips, {ip \in Range(ips) : ip.version = version})

\* sortIPsByPreference: those of the version first, each part as it was.
sortIPsByPreference(ips, version) ==
  LET first == {ip \in Range(ips) : ip.version = version}
  IN Keep(ips, first) \o Keep(ips, Range(ips) \ first)

\* The dial function of a client and of GetDialContextWithPreference.
DialContext(ips, prefer, hasIPv4, reachable) ==
  First(sortIPsByPreference(ips, Version(prefer, hasIPv4)), reachable)

\* A connection is made whenever some address of the host answers; it is to the
\* version that is preferred if one of those answers, and to the address that
\* the resolver named first among those (resolver.go).
DialAgrees(q) ==
  LET got == DialContext(q.ips, q.prefer, q.hasIPv4, q.reachable)
      able == {i \in DOMAIN q.ips : q.ips[i] \in q.reachable}
      best == {i \in able : q.ips[i].version = Version(q.prefer, q.hasIPv4)}
  IN IF able = {} THEN got = {} ELSE got = {q.ips[Min(IF best # {} THEN best ELSE able)]}

(***************************************************************************)
(* Name servers.  A server is written with a port or without, and one of   *)
(* version 6 with brackets or without.                                     *)
(***************************************************************************)

\* normalizeDNSServer: with brackets and without port it stays as it is.
normalizeDNSServer(s) ==
  IF s.version = 6 /\ ~s.bracket THEN [s EXCEPT !.bracket = TRUE, !.port = TRUE]
  ELSE IF s.version # 6 THEN [s EXCEPT !.port = TRUE] ELSE s

Complete(s) == s.port /\ s.bracket = (s.version = 6)

\* GetCustomResolver: the custom server, then the built-in ones without it.
DNSServer(custom, builtin, usable) ==
  LET server == normalizeDNSServer(custom)
  IN First(<<server>> \o Keep(builtin, Range(builtin) \ {server}), {s \in usable : Complete(s)})

\* The custom server is asked if it can be, however it is written but in
\* brackets without a port; otherwise one of the others, if there is one
\* (resolver.go).
ServerAgrees(q) ==
  LET got == DNSServer(q.custom, q.builtin, q.usable)
      meant == [q.custom EXCEPT !.port = TRUE, !.bracket = q.custom.version = 6]
      written == q.custom.bracket => q.custom.port
  IN /\ written /\ meant \in q.usable => got = {meant}
     /\ Range(q.builtin) \cap q.usable # {} => got # {} /\ got \subseteq q.usable

(***************************************************************************)
(* The agent's own addresses.                                              *)
(***************************************************************************)

\* getIPFromInterfaces: of the interfaces that are included and up, the first
\* address of each version that is neither a loopback nor, for 6, a link's own.
FromInterfaces(addrs, version) ==
  First([i \in DOMAIN addrs |-> IF addrs[i].included /\ addrs[i].up /\ addrs[i].version = version
                                THEN addrs[i].scope ELSE "none"],
        IF version = 4 THEN {"global", "link"} ELSE {"global"})

\* GetIPAddress: a custom address, or the first answer of the web's services, if
\* the flag does not want those of the interfaces or there are none.
GetIPAddress(q) ==
  LET nic == [v \in {4, 6} |-> FromInterfaces(q.addrs, v)]
      elsewhere == [v \in {4, 6} |-> IF q.custom[v] THEN {"custom"} ELSE First(q.answers[v], {"web"})]
  IN IF q.fromNic /\ \E v \in {4, 6} : nic[v] # {} THEN nic ELSE elsewhere

\* The address that is reported is one of an included interface only if the
\* flag asks for it, and no version stays empty when the agent could tell it
\* from a custom address or the web, but for the interfaces knowing the other
\* version only (ip.go).
OwnAddressAgrees(q) ==
  LET got == GetIPAddress(q)
      usable(v) == \E i \in DOMAIN q.addrs :
        LET a == q.addrs[i] IN a.version = v /\ a.included /\ a.up /\ (a.scope = "global" \/ (v = 4 /\ a.scope = "link"))
  IN \A v \in {4, 6} :
       /\ got[v] \cap {"global", "link"} # {} => q.fromNic /\ usable(v)
       /\ "link" \in got[v] => v = 4
       /\ got[v] = {} =>
            \/ q.fromNic /\ ~usable(v) /\ usable(10 - v)
            \/ ~q.custom[v] /\ "web" \notin Range(q.answers[v])

AddressAgrees(q) ==
  CASE q.about = "dial" -> DialAgrees(q)
    [] q.about = "server" -> ServerAgrees(q)
    [] q.about = "own" -> OwnAddressAgrees(q)
=============================================================================
