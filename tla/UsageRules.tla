----------------------------- MODULE UsageRules -----------------------------
(***************************************************************************)
(* How a report makes its figures of memory, processors, disks and miner   *)
(* from what the machine says: mem.go, cgroup.go, cpu.go, disk.go,         *)
(* disk_io.go and miner.go in monitoring/unit.                             *)
(*                                                                         *)
(* These are functions without state.  Each has a predicate that says what *)
(* its figures promise; it is checked for every input of a small set.      *)
(* Sizes are small numbers, and zero stands for what is not there.         *)
(***************************************************************************)
EXTENDS Integers, FiniteSets, FiniteSetsExt, Functions, Sequences, SequencesExt

Least(a, b) == IF a <= b THEN a ELSE b
Usage(total, used) == [total |-> total, used |-> used]
Fits(u) == 0 <= u.used /\ u.used <= u.total

(***************************************************************************)
(* Memory.  A machine has free, cached, reclaimable and buffer memory, and *)
(* its shared memory is part of the cache.  These are disjoint, but their  *)
(* figures are not taken at once, or are those of the host.                *)
(***************************************************************************)

\* Mutant: the cache is not taken off, although shared memory is added.
htopUsedWithCache(m) == m.total - m.free - m.reclaimable - m.buffers + m.shmem

Spare(m) == m.free + m.cached + m.reclaimable + m.buffers

\* GetMemHtopLike: only what is free counts when the figures exceed the total.
htopUsed(m) == m.total - (IF m.total >= Spare(m) THEN Spare(m) ELSE m.free) + m.shmem

\* Ram: a quota of the panel, then of the cgroup, then the flags, then htop's rule.
Ram(cfg, cg, m) ==
  IF cfg.preferCgroup /\ cfg.forceTotal > 0 THEN Usage(cfg.forceTotal, Least(cg.usage, cfg.forceTotal))
  ELSE IF cfg.preferCgroup /\ cg.limit > 0 THEN Usage(cg.limit, Least(cg.usage, cg.limit))
  ELSE IF cfg.includeCache THEN Usage(m.total, m.total - m.free)
  ELSE IF m.meminfo THEN Usage(m.total, htopUsed(m))
  ELSE IF cfg.rawUsed THEN Usage(0, 0)
  ELSE Usage(m.total, m.total - m.available)

\* Swap: pages that are in memory as well count as free, as far as they can.
Swap(s) == Usage(s.total, s.total - (IF s.total >= s.free + s.cached THEN s.free + s.cached ELSE s.free))

\* No machine is reported to use more memory, or more swap, than it has; when its
\* figures exceed its total, by no more than the shared memory exceeds the free.
MemoryFits(q) ==
  LET m == q.machine
      ram == Ram(q.cfg, q.cg, m)
  IN Fits(ram) \/ (Spare(m) > m.total /\ m.shmem > m.free /\ ram = Usage(m.total, m.total + m.shmem - m.free))
SwapFits(q) == Fits(Swap(q.swap))

(***************************************************************************)
(* Control groups: from the agent's own to the root of the hierarchy, each *)
(* with a limit and a usage.                                               *)
(***************************************************************************)

FirstOf(S, default) == IF S = {} THEN default ELSE Min(S)

\* ReadCgroupMemory: the nearest limit, and the nearest usage below it.
ReadCgroupMemory(groups) ==
  LET limited == {i \in DOMAIN groups : groups[i].limit > 0}
      nearest == FirstOf(limited, Len(groups) + 1)
      used == {i \in DOMAIN groups : groups[i].usage > 0 /\ (i = 1 \/ i < nearest)}
  IN [limit |-> IF limited = {} THEN 0 ELSE groups[nearest].limit,
      usage |-> IF used = {} THEN 0 ELSE groups[Min(used)].usage]

\* readCPUQuota: the nearest quota, or none.
Quota(groups) ==
  LET limited == {i \in DOMAIN groups : groups[i].limit > 0}
  IN IF limited = {} THEN 0 ELSE groups[Min(limited)].limit

\* The processor time that the agent may use in a period: a quota of the cgroup,
\* then of the flags, then nothing that the code knows.
Granted(cfg, groups) ==
  IF ~cfg.preferCgroup THEN 0 ELSE IF Quota(groups) > 0 THEN Quota(groups) ELSE cfg.forceCores

\* CpuStaticInfo: whole processors, at least one.
CpuStaticInfo(granted, period, host) ==
  IF granted = 0 THEN host ELSE Max({1, (granted + period - 1) \div period})

\* Cpu: the time used in a window, in percent of what is granted, or of the machine;
\* 0 if the usage of the cgroup cannot be read.
CpuUsage(busy, window, granted, period, host) ==
  Least(100, IF granted = 0 THEN (100 * busy) \div (window * host)
             ELSE (100 * busy * period) \div (window * granted))

Cpu(cfg, groups, busy, window, period, host) ==
  LET granted == Granted(cfg, groups)
      unread == cfg.preferCgroup /\ Quota(groups) > 0 /\ ~cfg.usageReadable
  IN [cores |-> CpuStaticInfo(granted, period, host),
      percent |-> IF unread THEN 0 ELSE CpuUsage(busy, window, granted, period, host)]

\* The processor count is that of what may be used, rounded up; a usage of 100
\* percent means that all of that was used in the window, if the usage can be
\* read; and the flag counts only where there is no cgroup's quota.
CpuAgrees(cfg, groups, busy, window, period, host) ==
  LET cpu == Cpu(cfg, groups, busy, window, period, host)
      limit == ReadCgroupMemory(groups).limit
      most == IF ~cfg.preferCgroup THEN period * host
              ELSE IF limit > 0 THEN limit
              ELSE IF cfg.forceCores > 0 THEN cfg.forceCores ELSE period * host
  IN /\ period * cpu.cores >= most /\ period * (cpu.cores - 1) < most
     /\ cpu.percent = 100 => period * busy >= window * most
     /\ (cfg.usageReadable /\ period * busy >= window * most) => cpu.percent = 100

CpuSettings == [preferCgroup : BOOLEAN, forceCores : {0, 3}, usageReadable : BOOLEAN]

\* A container is never told to have less memory or fewer processors than it can
\* use, and its usage fits.
CgroupAgrees(q) ==
  LET cg == ReadCgroupMemory(q.groups)
      limits == {q.groups[i].limit : i \in DOMAIN q.groups} \ {0}
  IN /\ (cg.limit = 0) = (limits = {})
     /\ limits # {} => cg.limit >= Min(limits) /\ cg.usage <= cg.limit
     /\ \A cfg \in CpuSettings, busy \in 0 .. 4 : CpuAgrees(cfg, q.groups, busy, 1, 2, q.host)

(***************************************************************************)
(* Disks.  A partition has a device (of a ZFS data set, its pool), a mount *)
(* point as long as its number says, and a size and usage when statfs can  *)
(* tell.                                                                   *)
(***************************************************************************)

\* isPhysicalDisk
isPhysicalDisk(p) ==
  \/ p.at = "root"
  \/ /\ p.at # "system"
     /\ \/ p.fs \in {"fuseblk", "sdcard"}
        \/ p.fs = "disk" /\ p.device # "loop"

\* Those that are taken, one for each device: the first, unless a later one is better.
byDevice(parts, taken, better) ==
  FoldLeft(LAMBDA map, p :
             IF p \in taken /\ (p.device \in DOMAIN map => <<p, map[p.device]>> \in better)
             THEN [d \in DOMAIN map \cup {p.device} |-> IF d = p.device THEN p ELSE map[d]] ELSE map,
           << >>, parts)

Larger(parts) == {pq \in Range(parts) \X Range(parts) : pq[1].total > pq[2].total}
Shorter(parts) == {pq \in Range(parts) \X Range(parts) : pq[1].mount < pq[2].mount}
Readable(parts) == {p \in Range(parts) : isPhysicalDisk(p) /\ p.total > 0}
Physical(parts) == {p \in Range(parts) : isPhysicalDisk(p)}

Added(map) == Usage(SumFunction([d \in DOMAIN map |-> map[d].total]), SumFunction([d \in DOMAIN map |-> map[d].used]))

\* Disk, without IncludeMountpoints; a forced total with the directory's size, or without.
Disk(parts, force, dir) ==
  LET all == Added(byDevice(parts, Readable(parts), Larger(parts)))
  IN IF force = 0 THEN all
     ELSE Usage(force, Least(IF dir >= 0 THEN dir ELSE all.used, force))

\* defaultMountTargets, DiskList.
defaultMountTargets(parts) == byDevice(parts, Physical(parts), Shorter(parts))

\* The names without /dev/: an overlay, a pool and its data sets, a bind mount's.
isVirtualDevice(device) == device \in {"overlay", "pool", "bind"}
isRealBlockDevice(p) == ~isVirtualDevice(p.device) /\ p.device # "loop"
Real(parts) == {p \in Range(parts) : isRealBlockDevice(p)}

\* By the device number of the mount point; an overlay and a pool have none of a
\* block device.
resolvePhysicalDevice(device) == IF device = "bind" THEN "sdd" ELSE device

\* filterMountTargets with mount points: the devices they are on; if there is
\* none because they are virtual, the real ones of all partitions.
filterMountTargets(parts, include) ==
  LET devices == {resolvePhysicalDevice(p.device) : p \in {x \in Range(parts) : x.mount \in include}}
      targets == {d \in devices : ~isVirtualDevice(d)}
  IN IF targets = {} /\ devices # {} THEN DOMAIN byDevice(parts, Real(parts), Shorter(parts)) ELSE targets

\* Whatever the order of the partitions: every device counts once, with its
\* largest size; the disks that are counted are among those that are listed; and
\* a mount list leads to devices in /dev only, and to one if there is a real one.
DisksAgree(q) ==
  LET sizes == Readable(q.parts)
      devices == {p.device : p \in sizes}
      disk == Disk(q.parts, q.force, q.dir)
  IN /\ Fits(disk)
     /\ q.force = 0 => disk.total = SumFunction([d \in devices |-> Max({p.total : p \in {x \in sizes : x.device = d}})])
     /\ devices \subseteq DOMAIN defaultMountTargets(q.parts)
     /\ \A d \in DOMAIN defaultMountTargets(q.parts) : \A p \in Physical(q.parts) :
          p.device = d => defaultMountTargets(q.parts)[d].mount <= p.mount
     /\ \A include \in (SUBSET {p.mount : p \in Range(q.parts)}) \ {{}} :
          /\ \A d \in filterMountTargets(q.parts, include) : ~isVirtualDevice(d)
          /\ Real(q.parts) # {} => filterMountTargets(q.parts, include) # {}

(***************************************************************************)
(* The miner.  A window of the hashrate is a number, or a number for each  *)
(* device, and perhaps one called total.                                   *)
(***************************************************************************)

\* rawMessageHash: a map is searched in any order.
rawMessageHash(raw) ==
  IF raw.total > 0 THEN {raw.total}
  ELSE IF raw.each \ {0} # {} THEN raw.each \ {0} ELSE {0}

\* normalizeSrbStatus: an answer without hashrate is none.
normalizeSrbStatus(s) ==
  IF s.algorithms = 0 THEN {}
  ELSE {h \in rawMessageHash(s.oneMin) \X rawMessageHash(s.oneHr) : h # <<0, 0>>}

\* A miner that works is never reported to stand still, nor taken for one that
\* gives no answer; one that does not is never reported.
HashrateAgrees(q) ==
  LET works(raw) == raw.total > 0 \/ raw.each \ {0} # {}
  IN /\ (normalizeSrbStatus(q.status) # {})
          = (q.status.algorithms > 0 /\ (works(q.status.oneMin) \/ works(q.status.oneHr)))
     /\ \A h \in normalizeSrbStatus(q.status) :
          /\ (h[1] > 0) = works(q.status.oneMin) /\ (h[2] > 0) = works(q.status.oneHr)

UsageAgrees(q) ==
  CASE q.about = "memory" -> MemoryFits(q)
    [] q.about = "swap" -> SwapFits(q)
    [] q.about = "cgroup" -> CgroupAgrees(q)
    [] q.about = "disk" -> DisksAgree(q)
    [] q.about = "miner" -> HashrateAgrees(q)
=============================================================================
