---------------------------- MODULE MCMonitoring ----------------------------
(***************************************************************************)
(* What the agent measures, in one run.  The traffic history, the rates    *)
(* and the caches share no variable, and the rules have none, so that each *)
(* is explored alone: source says which one it is.                         *)
(***************************************************************************)
EXTENDS NetStatic, RateSample, SnapshotCache, UsageRules, ResetDate, AddressChoice, ReleaseChoice

VARIABLES
  source,
  query  \* what the rules are asked

Sources == {"traffic", "rates", "caches", "rules"}

(***************************************************************************)
(* The inputs of the rules.                                                *)
(***************************************************************************)

Machines ==
  {m \in [total : {3}, free : 0 .. 2, cached : 0 .. 3, reclaimable : 0 .. 1, buffers : 0 .. 1,
          shmem : 0 .. 3, available : 0 .. 3, meminfo : BOOLEAN] :
     m.shmem <= m.cached /\ m.available >= m.free}

MemoryQueries ==
  [about : {"memory"}, machine : Machines, cg : [limit : {0, 2}, usage : {0, 3}],
   cfg : [preferCgroup : BOOLEAN, forceTotal : {0, 2}, includeCache : BOOLEAN, rawUsed : BOOLEAN]]

SwapQueries ==
  [about : {"swap"}, swap : [total : {3}, free : 0 .. 3, cached : 0 .. 3]]

\* A group uses no more than a group that it is in, nor than that one's limit.
Groups == [limit : 0 .. 5, usage : 0 .. 3]
CgroupQueries ==
  [about : {"cgroup"}, host : {4},
   groups : {gs \in UNION {[1 .. n -> Groups] : n \in 1 .. 3} :
     \A j \in DOMAIN gs : \A i \in 1 .. j :
       /\ gs[j].usage > 0 => gs[i].usage <= gs[j].usage
       /\ gs[j].limit > 0 => gs[i].usage <= gs[j].limit}]

Partitions == {
  [device |-> "sda", mount |-> 1, at |-> "root", fs |-> "disk", total |-> 3, used |-> 1],
  [device |-> "sda", mount |-> 3, at |-> "plain", fs |-> "disk", total |-> 2, used |-> 2],
  [device |-> "pool", mount |-> 4, at |-> "plain", fs |-> "disk", total |-> 1, used |-> 1],
  [device |-> "pool", mount |-> 5, at |-> "plain", fs |-> "disk", total |-> 4, used |-> 0],
  [device |-> "sdb", mount |-> 6, at |-> "system", fs |-> "disk", total |-> 2, used |-> 1],
  [device |-> "sdc", mount |-> 7, at |-> "plain", fs |-> "fuseblk", total |-> 0, used |-> 0],
  [device |-> "overlay", mount |-> 2, at |-> "root", fs |-> "overlay", total |-> 5, used |-> 3],
  [device |-> "bind", mount |-> 9, at |-> "plain", fs |-> "disk", total |-> 2, used |-> 1],
  [device |-> "loop", mount |-> 8, at |-> "plain", fs |-> "disk", total |-> 1, used |-> 1]}
DiskQueries ==
  [about : {"disk"}, parts : {ps \in [1 .. 3 -> Partitions] : IsInjective(ps)}, force : {0, 2}, dir : {-1, 1, 3}]

Windows == [total : 0 .. 2, each : SUBSET {0, 1, 2}]
MinerQueries == [about : {"miner"}, status : [algorithms : 0 .. 1, oneMin : Windows, oneHr : Windows]]

ResetQueries ==
  {q \in [about : {"reset"}, resetDay : {1, 15, 28, 29, 30, 31}, date : {2023, 2024} \X (1 .. 12) \X (1 .. 31)] :
     q.date[3] <= DaysIn(q.date[1], q.date[2])}

Hosts == [version : {0, 4, 6}, host : 1 .. 2]
DialQueries ==
  UNION {[about : {"dial"}, ips : {ips}, prefer : {0, 4, 6}, hasIPv4 : BOOLEAN, reachable : SUBSET Range(ips)] :
           ips \in {f \in UNION {[1 .. n -> Hosts] : n \in 1 .. 3} : IsInjective(f)}}

Server(v, bracket, port) == [version |-> v, bracket |-> bracket, port |-> port]
Servers == {Server(6, TRUE, TRUE), Server(4, FALSE, TRUE), Server(0, FALSE, TRUE)}
ServerQueries ==
  [about : {"server"}, builtin : {<<Server(6, TRUE, TRUE), Server(4, FALSE, TRUE)>>}, usable : SUBSET Servers,
   custom : {s \in [version : {0, 4, 6}, bracket : BOOLEAN, port : BOOLEAN] :
               /\ s.bracket => s.version = 6
               /\ s.version = 6 /\ s.port => s.bracket}]

OwnQueries ==
  [about : {"own"}, fromNic : BOOLEAN, custom : [{4, 6} -> BOOLEAN], answers : [{4, 6} -> {<<>>, <<"nothing", "web">>}],
   addrs : {<<a, b>> : a, b \in [version : {4, 6}, included : BOOLEAN, up : BOOLEAN, scope : {"loopback", "link", "global"}]}]

Releases ==
  {r \in [time : 1 .. 2, tag : 1 .. 2, draft : BOOLEAN, prerelease : BOOLEAN, snapshot : {TRUE}, asset : BOOLEAN] :
     r.draft => r.prerelease /\ r.asset}
ReleaseQueries ==
  {q \in [about : {"release"}, current : 0 .. 2, inContainer : BOOLEAN, all : UNION {[1 .. n -> Releases] : n \in 0 .. 3}] :
     \A i, j \in DOMAIN q.all : q.all[i].tag = q.all[j].tag /\ i # j => q.all[i] = q.all[j]}

Queries == UNION {MemoryQueries, SwapQueries, CgroupQueries, DiskQueries, MinerQueries, ResetQueries,
                  DialQueries, ServerQueries, OwnQueries, ReleaseQueries}
NoQuery == [about |-> "nothing"]

(***************************************************************************)
(* The sum of the parts.                                                   *)
(***************************************************************************)

MonitoringInit ==
  /\ source \in Sources
  /\ query \in IF source = "rules" THEN Queries ELSE {NoQuery}
  /\ Init /\ RateInit /\ CacheInit
  /\ source # "rates" => part = "net" /\ counter = [d \in Devices |-> 0]

RulesStep == source = "rules" /\ UNCHANGED <<vars, rateVars, cacheVars>>

MonitoringNext ==
  /\ \/ source = "traffic" /\ Next /\ UNCHANGED <<rateVars, cacheVars>>
     \/ source = "rates" /\ RateNext /\ UNCHANGED <<vars, cacheVars>>
     \/ source = "caches" /\ CacheNext /\ UNCHANGED <<vars, rateVars>>
     \/ RulesStep
  /\ UNCHANGED <<source, query>>

MonitoringSpec == MonitoringInit /\ [][MonitoringNext]_<<vars, rateVars, cacheVars, source, query>>

\* What a report says of the machine, for every machine and every setting of the
\* flags: see the predicates of the four modules of rules.
RulesAgree ==
  CASE query.about \in {"memory", "swap", "cgroup", "disk", "miner"} -> UsageAgrees(query)
    [] query.about = "reset" -> ResetDateAgrees(query)
    [] query.about \in {"dial", "server", "own"} -> AddressAgrees(query)
    [] query.about = "release" -> ReleaseAgrees(query)
    [] OTHER -> TRUE
=============================================================================
