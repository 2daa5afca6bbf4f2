--------------------------- MODULE AutoDiscovery ---------------------------
(***************************************************************************)
(* Auto-discovery: cmd/autodiscovery.go.                                   *)
(*                                                                         *)
(* The agent registers with the panel once and keeps what it is given in   *)
(* auto-discovery.json, which os.WriteFile truncates before it writes.     *)
(* The file of an earlier run can be read; if it was torn it is as good as *)
(* none.  Clients are numbered in the order of their registration.         *)
(***************************************************************************)
EXTENDS Naturals

CONSTANTS
  MaxClients,  \* bound: the registrations the panel accepts
  NoClient, Torn

ASSUME ClientsBound == MaxClients \in Nat /\ {NoClient, Torn} \cap (1 .. MaxClients) = {}

VARIABLES
  config,    \* auto-discovery.json
  step,      \* where handleAutoDiscovery is
  clients,   \* the panel: how many clients it has registered
  identity   \* history: the client whose token the agent has last worked with

discoveryVars == <<config, step, clients, identity>>

Clients == 1 .. MaxClients

DiscoveryInit ==
  /\ config = NoClient
  /\ step = "load"
  /\ clients = 0
  /\ identity = NoClient

\* loadAutoDiscoveryConfig.
LoadConfig ==
  /\ step = "load"
  /\ IF config \in Clients
     THEN identity' = config /\ step' = "done"
     ELSE step' = "register" /\ UNCHANGED identity
  /\ UNCHANGED <<config, clients>>

\* registerWithAutoDiscovery: the request or its answer may be lost.
Register ==
  /\ step = "register"
  /\ \/ clients < MaxClients /\ clients' = clients + 1 /\ step' \in {"save", "failed"}
     \/ step' = "failed" /\ UNCHANGED clients
  /\ UNCHANGED <<config, identity>>

\* saveAutoDiscoveryConfig opens the file ...
TruncateConfig ==
  /\ step = "save"
  /\ \/ config' = Torn /\ step' = "write"
     \/ step' = "failed" /\ UNCHANGED config
  /\ UNCHANGED <<clients, identity>>

\* Mutant: what cannot be saved is used all the same.
WriteConfigAnyway ==
  /\ step = "write"
  /\ config' \in {clients, Torn}
  /\ identity' = clients
  /\ step' = "done"
  /\ UNCHANGED clients

\* ... and writes it; only then is the token used.
WriteConfig ==
  /\ step = "write"
  /\ \/ config' = clients /\ identity' = clients /\ step' = "done"
     \/ step' = "failed" /\ UNCHANGED <<config, identity>>
  /\ UNCHANGED clients

HandleAutoDiscovery == LoadConfig \/ Register \/ TruncateConfig \/ WriteConfig

\* The process is gone.
DiscoveryGone == step' = "load" /\ UNCHANGED <<config, clients, identity>>

\* However often and wherever the agent ends, fails to save and starts again, it
\* works as one client of the panel; those it registered in vain were never used.
KeepsIdentity == [][identity # NoClient => identity' = identity]_discoveryVars
============================================================================
