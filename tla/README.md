# mango-agent in TLA+

mango-agent is the monitoring and remote-control agent of a Komari/Mango panel: one Go process per
machine that keeps a WebSocket to the panel, reports measurements over it and executes what the panel
asks for (file transfers, web terminals, SSH key leases, tasks, pings). This directory holds the
TLA+ models of the parts of it where concurrency, failure and ordering decide whether it is correct,
the TLC runs that check them and the TLAPS proofs about them. Paths and lines are those of `src/`.

## 1. Inventory

| Component | State it keeps | Operations | Talks to | What is hard | What makes it correct |
|---|---|---|---|---|---|
| File upload transfer: `server/file_stream.go`, `server/files.go` 525-729, `server/files_unix.go` | `uploadLifecycles`, `fileStreamSlots`, `uploadChunks`, `uploadWriteLocks`, part files, targets | `upload_stream`, `upload_commit`, `upload_cancel`, `download_stream` | goroutines of the event channel, the panel's HTTP stream, the file system | five locks that never nest the same data, retries, cancels against running streams, time to live, restarts | a published target is whole; a cancelled upload never comes back; waits end; slots are not leaked |
| Web terminals: `terminal/terminal.go`, `terminal_unix.go` | `sessions`, per session `conn`, `timer`, `removed`, the shell | `StartTerminal`, `acquireSession`, `handleInput`, `readOutput`, `detach`, `closeSession` | one WebSocket per terminal, a pseudo terminal | a connection that starts, takes over, loses or closes a session while output, timer and shell exit do the same | no shell leaks or is closed twice; a live session has a connection or a timer |
| SSH key leases: `sshauth/sshauth.go` | `leaseTimers`, the tag lines in `authorized_keys` | `AuthorizeKey`, `RevokeKey`, `ReconcileLeases`, timer callbacks | goroutines of the event channel, the file system | timers kept by ticket for files kept by user, a revoke that overtakes, restarts, failing reads and writes | a lease on disk has something that ends it and lives until then |
| v2 event channel: `server/websocket.go`, `server/protocol.go`, `protocol/v2/jsonrpc.go` | the connection, `v2AckEventIDs`, `v2SeenEvents`, `readDone` | connect, pull, POST fallback, dispatch, acknowledge | panel; starts all the goroutines above | two tasks share the pending acknowledgements; redelivery; a seen-map that forgets | an event is executed once and acknowledged after that; no acknowledgement is lost |
| Network traffic history: `monitoring/netstatic/static.go` | `store`, `staticCache`, `config`, `running`, `stopCh`, two tickers | sample, flush, purge, query, `SetNewConfig`, `StartOrContinue`, `Stop`, `Clear` | the report assembly, the file system | goroutines that read package variables `SetNewConfig` replaces; saves that fail; counters that restart | bytes are counted once; saved history is not lost; every goroutine can be stopped |
| Start, shutdown, update: `cmd/root.go`, `cmd/shutdown.go`, `update/update.go` | the shutdown coordinator, the executable and its backup | `shutdown(code)`, `CheckAndUpdate`, `DoUpdateWorks` | signals, netstatic, the login warning | several goroutines ask for shutdown while one of them is carried out | the exit code asks for a restart after an update, which takes effect |
| Remote tasks and pings: `server/task.go`, `task_unix.go`, `server/mining.go` | the processes of a command, the deadline, the retry counters | `NewTask`, `NewMiningControlTask`, `NewPingTask`, `uploadTaskResult` | shell, panel, the WebSocket | a command that hangs or leaves a process behind, a response that is lost, a connection that is replaced before the answer | a control is answered, an answer says what happened, a result arrives or there is a reason |
| Other file operations: `server/files.go` | none but the tree itself | list, stat, create, mkdir, delete, move, copy, chmod, chown, search, `postFileResult` | panel, file system | moves over file systems, links, an entry that fails in the middle, the end of the agent | nothing is lost; OK means that it was done |
| Miner collector: `monitoring/unit/miner.go` | the cached report, its age, a failure count | poll, `Miner` | miner API | stale values | no report older than a minute and a request, nor after five failures |
| Disk usage: `monitoring/unit/disk.go` | the cached size of a directory, the lock of its walk | `Disk` | the reports and the basic information | two goroutines that share a walk | no size older than the time to live and one walk; no disk counted twice |
| Auto-discovery: `cmd/autodiscovery.go` | the configuration file | load, register, save | panel | a crash or a failed write after the registration | the agent works as one client for ever |
| Login warning: `cmd/warn_linux.go` | a marked block in `/etc/motd` | add, remove | shutdown | a crash leaves the block; edits in between | what others wrote stays |
| Rate collectors: `monitoring/unit/net.go`, `disk_io.go` | the last counters | sample | report assembly | devices that come and go, counters that restart | no rate above what was carried, exact for devices that stay |
| Memory, cgroups, processors: `monitoring/unit/mem.go`, `cgroup.go`, `cpu.go` | the last processor times | a reading | report assembly | nested limits, several flags that exclude each other | used is at most total; the flags mean what they say |
| Addresses: `dnsresolver/resolver.go`, `monitoring/unit/ip.go` | none | dial, ask a name server, find the own addresses | every connection | fallbacks | a connection is made if one can be; the preference holds |
| Report assembly: `monitoring/monitoring.go`, `server/basicInfo.go`, `utils/utils.go` | none | build a report, the day of the last reset | panel | months of different lengths | the month's traffic begins on the right day |
| Thread-safe WebSocket: `ws/safaConn.go` | a mutex | write, close | everything that answers | a connection that is closed while it is written to | a write is whole or fails |
| Windows window, command-line helpers | none | show, print | | | |

The event channel starts a goroutine per event and none of them waits for another: whatever order
the panel sends requests in, the handlers of the other components start in any order. Within a
component the goroutines share package variables under several mutexes. Only files survive the
process, so every component that has files has a start that must cope with what the last run left.

## 2. Plan

Done: `UploadLifecycle`, `AtomicPublish`, `FileUpload`, `UploadLifecycleProofs`, `FileUploadProofs`, `ShellLending`, `TerminalSession`,
`TerminalSessionProofs`, `SSHLease`, `SSHLeaseProofs`, `EventDelivery`, `EventChannel`, `EventChannelProofs`, `NetStatic`, `MonitoringProofs`,
`AutoDiscovery`, `LoginWarning`, `AgentLife`, `AgentLifeProofs`, `FileTree`, `TaskDelivery`, `RequestsProofs`, `RateSample`,
`SnapshotCache`, `UsageRules`, `ResetDate`, `AddressChoice`, `ReleaseChoice`.

Left, in the order of their importance:

1. The lines of `authorized_keys` (`removeKeyByTicketLocked`, `reconcileLeasesAtPath`) against a reference
   definition, and other programs that change a tree while `FileTree` walks it.
2. An abstract specification of the leases (access that begins with a grant and ends at its expiry or before), as there
   are of uploads, terminals and events.

Each component gets one module, an MC module with one instance that covers its safety and, where the
state space allows it, its liveness, and a second run only for a question the first cannot ask.

## 3. Modules

### UploadLifecycle: the registry of streams (`server/file_stream.go` 153-332)

`uploadLifecycles` maps an upload to its entry: `canceled` (the tombstone), `active`, `streams` (the
cancel functions by transfer id) and `idle` (a channel, of which `open` says whether it is open).
`slots` is what the semaphore channel holds. Streams go through `BeginUploadStream`, `AcquireSlot` or
`AbandonSlot`, `ReleaseSlot` and `EndUploadStream`; commits and cancels wait (`WaitParks`, `WaitWakes`,
`WaitPasses`); a download takes a slot. `Pruned` and `TombstoneExpires` are the two halves of the
15-minute time to live. A step is one critical section of `uploadLifecyclesMu` or one channel
operation, so what the code does between `unlock` and `<-idle` is interleaved with everything else.
Channel identities come from a finite set that is assumed to be large enough (`EnoughChannels`).

### FileUpload: transfers, sessions, write locks and files

Adds to that registry what the streams and the finalizers do: `writeUploadStreamChunk` step by
step (session, open, write, record, with their failures), `upload_commit` and `upload_cancel` from the
wait to the last deletion, the write locks with `forgetUploadWriteLock`, and restarts of the agent that
leave the files. A file is the set of chunks it holds; a descriptor follows its file through rename and
removal (`fd`, `Follow`). `Registry == INSTANCE UploadLifecycle` gives it the registry's actions, and
`RegistrySpec` states that the whole implements the registry alone.

### AtomicPublish: what an upload promises

An upload is staged chunk by chunk, discarded or published; a target only ever changes from one whole
content to another. `FileUpload` implements it under a refinement mapping (`AtomicSpec`): what is
staged is what the sessions count, what is published is what is at the targets.

### TerminalSession: web terminals (`terminal/terminal.go`)

Sessions bear the name of the connection that made them. `pc` follows `StartTerminal`, `rpc` follows
`readOutput`, and `cl` follows each goroutine that may close a session through `closeSession`: the
input of a connection, the output, the retention timer and the closer of a shell that lost the race
to be published. A step is a critical section of `sessionsMu` or `session.mu`, or a blocking call.
Connections get lost at any time and the loss is noticed by whoever reads or writes next.

### ShellLending: what web terminals promise

A shell is started, offered under a request id, lent to one client after another, withdrawn and closed; a client gets a shell when it comes and only
then, and a shell is closed once, when nobody has it. There are no mutexes, goroutines, timers and sockets in it. `TerminalSession` implements it
(`LendingSpec`): `offered` is the map, `lent` is `session.conn`, a connection is `Served` once `acquireSession` is through, and a session is
`Past` when it has a shell and is neither in the map nor about to be. `Promise` is what it comes to.

### SSHLease: leased keys (`sshauth/sshauth.go`)

A file is the set of its leases. `op` holds what every handler goroutine and every timer callback is at;
`RevokeKey` without a user is a walk over several files that gives `leaseMu` back between
them (`at`). `Authorize`, `RevokeFile` and `Reconcile` are one locked section each; their variants
are the reads and writes that fail: `AuthorizeBeside` when the old lease cannot be removed, `AuthorizeClobbers` when the file cannot be read for the new one,
`AuthorizeFails` and `RevokeFails` when a step's own read or write fails, `ReconcileFails` when a file cannot be read or written at the start. `Crash` keeps the files and `boot` is what `ReconcileLeases` has still to scan.
`sent` and `failed` are history variables of the properties.

### EventChannel: the channel to the panel (`server/websocket.go`)

`main`, `conn` and `readDone` are the locals of `EstablishWebSocketConnection`, `sock` and `reader` the
connections and their read goroutines. A sender of POST requests is the report ticker of the fallback (`Report`)
or a pull loop; `post` follows it from the snapshot of the acknowledgements over the request, the
panel's answer and its events to the last acknowledgement. Marking an event as seen, starting its
handler and adding its acknowledgement are three steps, as the code gives `v2AckMu` back between them.
Leaving the fallback cancels its pull loop, which may go on for a while beside the next one.
`Malformed` events are those of an unknown method or with parameters that do not bind: the code
marks them as seen and acknowledges them only when they come again. The panel (`queued`, `acked`) answers a request
with every event it has no acknowledgement for. `Crash` ends the agent at any point and keeps nothing: the
pending acknowledgements and the seen-map are package variables. `repeated`, `evicted` and `crashed` are history
variables of the properties: what was executed twice, and what the agent was made to forget.

### EventDelivery: what the channel promises

The panel offers events; the agent takes each one up, executes it or drops it because it does not bind, and tells the panel of it; a crash or a full
memory makes it lose some. There are no connections, requests or lists of ids in it. `EventChannel` implements it (`DeliverySpec`):
`taken` is what senders have marked and not dispatched yet, `lost` is what the seen-map evicted or a crash forgot, the rest is the same. `Promise` is what
it comes to.

### NetStatic: the traffic history (`monitoring/netstatic/static.go`)

`cache`, `last`, `store` and `file` are `staticCache`, `lastCounters`, `store.Interfaces` and
`net_static.json`; bytes sent and received are one number, and the records of an interface are the sum of
those `purgeExpiredLocked` keeps and the sum of the older ones. `mu` makes every operation and every tick
one step. The goroutines wait without it: `worker` follows each of them from its read of the ticker over its read of
`stopCh` to the `select`, and `gen` counts the tickers and channels `SetNewConfig` and `StartOrContinue` make.
The users are the main goroutine (`Start`, `Configure`, then `Report` with every report) and the shutdown.
`carried` is a history variable: what the interfaces have carried.

### AgentLife, AutoDiscovery, LoginWarning: the process (`cmd/`, `update/update.go`)

`AgentLife` follows `RunE` (`main`), the three goroutines that call `shutdown` (`call`: the one that waits for signals,
the main one after the first look for an update, the one that looks every six hours), the coordinator (`once`,
`exitCode`, `chosen`) and the executable on disk (`exe`) against the one that runs (`version`). It extends two parts with
variables of their own, whose operations its actions contain: `AutoDiscovery` loads, registers and saves
(`os.WriteFile` truncates before it writes, so a crash in between leaves a torn file), and `LoginWarning` puts the agent's
block into `/etc/motd` and takes it out. That file is a sequence of the texts of others and the block, which `Base` cuts out if there is exactly one; the cleanup
function's closure is the record `cleanup`. What the deferred calls of `RunE` do on a failed auto-discovery is
in `DiscoveryFailed`: ending the notification of signals also wakes the goroutine that waits for one.

### FileTree: the other file operations (`server/files.go` 73-523, 731-845)

`tree` maps every path of the machine to what is there: nothing, a directory, a file or a link; `Mounts` are the paths
where another file system begins. `LinksAbove`, `Through` and `Follow` are how the kernel resolves a path; `Put`, `MkdirAll` and `Rename`
what the calls of package `os` do. `job` is the operation in progress. Walks go entry by entry (`RemoveEntry`,
`CopyEntry` with `WriteCopy`, `SearchEntry`), in any order a directory may be read in, and every entry may fail; `Crash`
ends the agent between any two steps. What a failed step leaves behind is part of it (`MkdirSome`, `relinkFails`,
a copy that could not be taken away again, `stuck`). A removal resolves its argument once and works below the directory it found
(`job.cur`), as `os.RemoveAll` does, so that a link does not move away under it. `start` is a history variable: the tree the operation found.

### TaskDelivery: commands, pings and answers (`server/task.go`, `task_unix.go`, `mining.go`, `ws/safaConn.go`)

A record of `task` is the goroutine of a request: `pc` is where it is, `sh` the shell, `kid` a process that the shell has
left behind and that holds its output open, in its process group or apart. `Kill` is `cmd.Cancel`, `Reap` the wait
for the shell, `Return` and `WaitDelay` the two ends of the wait for the output, `exitCode` what becomes of them. `measure` and `measureAgain`
are the rule by which a ping is repeated. `Post` is one attempt of `uploadTaskResult`, `postFileResult` or a ping's POST, with
all that may become of it (`Outcomes`); `WriteJSON` is the answer over the connection the ping came by. `copies` is what the panel has got,
`unanswered` a history variable. With `MCRequests` the answer of a file operation is the one `FileTree` ends with.

### RateSample and SnapshotCache: measurements with a memory (`monitoring/unit/`)

`RateSample` is two collectors with one set of devices: `net.go` samples the sum of the counters of the interfaces that
`shouldInclude` takes, `disk_io.go` each counter. Devices come, count and go; `passed` and `stayed` are the history of that, and `rates` is
the report just made with what would have been true. `SnapshotCache` is the miner's snapshot with the collector's request, and the walk of
a directory that two goroutines share by a mutex; time passes in units, and an age stops when no comparison tells it apart any more.

### UsageRules, ResetDate, AddressChoice, ReleaseChoice: rules without a memory

Each operator is a function of the code over records of what the machine, the panel or a flag may say, next to a predicate that
says what its result must be in other words: `UsageRules` for memory, swap, cgroups, processors, disks and the
miner's hashrates, `ResetDate` for the first day of a month's traffic, `AddressChoice` for the address to dial, the name server to ask and
the address to report, `ReleaseChoice` for the snapshot to install. Loops over lists are folds, maps are functions over the keys put so far (`byDevice`).
`MCMonitoring` enumerates small inputs and conjoins the predicates (`RulesAgree`); `MonitoringProofs` proves them for inputs of every size.

### Proof and instance modules

`UploadLifecycleProofs`, `FileUploadProofs`, `TerminalSessionProofs`, `SSHLeaseProofs`, `EventChannelProofs`, `MonitoringProofs`,
`AgentLifeProofs` and `RequestsProofs` (of `FileTree` and `TaskDelivery`) hold the theorems of section 6. The
modules `MC...` define the constants TLC needs. `MCMonitoring` and `MCRequests` are sums: their parts share no variable, so that a behaviour
is about one of them (`source`, `about`) while the others stay as they began. Operators whose comment begins
with "Mutant" are the wrong versions of the definition that follows them; each breaks one
of the properties, which shows that the property depends on that line of the code.

## 4. Runs

| Run | Instance | Checks | Distinct states |
|---|---|---|---|
| `upload_lifecycle` | 1 upload, 3 streams, 1 commit, 1 cancel, 1 download, 1 slot | counter, idle channel and wake-ups (`RegistryInv`), cancellation, slots; `HandlersReturn` | 22 thousand |
| `file_upload` | 1 upload of 2 chunks, 2 streams, 1 commit, 1 cancel, 2 slots | whole targets, no writer on a target, `AtomicSpec`, `RegistrySpec` | 580 thousand |
| `file_upload_live` | 1 upload of 1 chunk with 2 target paths, 1 stream, 2 commits, failing directory syncs | `FinalizersReturn` | 176 thousand |
| `terminal` | 2 connections of 1 request id that may send "close" | `SessionsAccounted`: shells, timers and connections; `InputMatchesOutput`; `LendingSpec`: nobody gets a withdrawn shell, a closed one has no connection; `SessionsEnd` | 85 thousand |
| `terminal_timer` | the same | `TimerSparesReattached` fails | |
| `ssh_lease` | 3 tickets, two of them for one file, 2 users, 3 requests, 2 times, 1 crash | guarded leases, life until expiry, revoked and expired ones go | 393 thousand |
| `ssh_lease_overtaken` | a panel that does not wait | `LeaseGuarded` fails | |
| `events` | 2 events, 1 connection, 2 pull loops and the report ticker, a seen-map of 1, crashes | one execution, no acknowledgement lost; `DeliverySpec`: none early, nothing taken up again that was not lost | 3.6 million |
| `events_live` | 1 event, 2 connections, 1 pull loop and the report ticker, 1 retry, crashes | `OneConnection`; `EventsAcknowledged`, `LossNoticed` | 6 thousand |
| `monitoring` | traffic: 1 interface, 2 lists, 2 generations, 2 bytes, failing saves, restarts; rates: 3 devices, one of them a loopback, 2 bytes; caches: 2 askers, ages up to 6; rules: every input of `Queries` | no byte twice, no lost history, no stray goroutine; `RatesAreReal`; `CachesFresh`; `RulesAgree` | 4.2 million |
| `requests` | files: every tree of at most 8 paths on two file systems that `MCTrees` holds, every operation on 5 paths; tasks: 1 request, 2 connections, 4 latencies | `NothingLost`, `AnswerTells`; `DeliveryAccounted`, `AnswerMatchesProcess`, `MiningAnswered` | 152 thousand |
| `agent_life` | 2 releases, 3 registrations, 2 texts of others, failing writes, crashes | `HighestCodeWins`, `UpdateTakesEffect`; `KeepsIdentity`; `TextsKept` | 78 thousand |

Why the bounds are enough. The registry treats uploads independently and the proofs cover any
number of uploads, streams and slots; TLC's three streams and two finalizers reach every order in which a
counter goes through zero and an entry is deleted and made anew. Two chunks are the smallest upload
with a hole; two streams the smallest race of writers; a commit and a cancel are two finalizers that
can hold different mutexes of one upload. Streams and finalizers start over after they end, so
that retries and repeated requests are included without a counter; the file models have no bound on
restarts. In the terminal model two connections race to publish a shell, displace and close each other; the safety properties
also hold with three, where a third one displaces the one that displaced the first (470 thousand
states; not kept as a run).
In the lease model three requests are a grant, its renewal or revocation and a second
ticket, in the same file or another; requests go to the handlers in turn, and of the two tickets that are alike one comes first (`OrderedSpec`
leaves one of several behaviours that differ in names only, as nothing tells handlers or these tickets apart, and every step but a request is as in `FairSpec`). The walk `<<root, alice, root>>` visits the default file twice, as an agent that runs as root does.
In the event model one of two events does not bind and the seen-map holds one, so that the eviction of
the other happens; two pull loops let a cancelled one overlap its successor, and two connections let an old reader end
beside a new one. Loops are interchangeable, and the safety run uses that as a symmetry. A connection or loop that has ended
can be used again, which is why one connection is enough where the readers are not the question; the one event of
`events_live` does not bind, the harder case for its acknowledgement, and the properties of `events` and of the
connections are proved for any number. Two commits
of one upload contend for its write lock in `file_upload_live`; how a cancel waits is in `upload_lifecycle`.
In the traffic model the start and one `SetNewConfig`, or a start after `Stop`, make two generations of goroutines in each
life of the process; a list with and one without the interface show what is dropped; with two bytes a
counter can go back to a lower value than the last sample. Interfaces do not touch each other's account,
and the proofs cover any number. Three devices are one that is counted, one that comes while the other stays, and one that never counts.
The trees have a directory of two levels, so that a walk fails below its root, a second entry that may be a link to the first or into it, and the
same on another file system. One request is enough for `TaskDelivery`, whose requests share nothing but connections; the proofs cover any number. Four
latencies are two on either side of the threshold, with and without a drop that is suspicious. The rules get every input below a bound at which
each comparison goes either way; days, months and leap years are the real ones. Three registrations are the one that is used after two that were
lost; two releases let an update be installed while another one is being restarted into; with two texts of others there is one
before and one after the block, or a copy of the block between them.

Deadlock is not checked in the terminal, the lease and the request models: connections, requests and the clock
are bounded there, and the system stops when nothing is left to do.

### What the failing runs show

* `terminal_timer`: the callback of the retention timer does not look whether the session has been
  taken over since it started.
* `ssh_lease_overtaken`: `revokeKeyAtPath` drops the timer of its ticket at every file it visits.
  Authorize and revoke run in goroutines of their own, so a revoke can pass the file of the
  lease before it is written and delete its timer after that: the lease stays until the agent restarts.

## 5. Assumptions and fairness

* A controller gives requests in flight different transfer ids (`DistinctTransfers`, the condition of
  `CancelReachesStreams` and of the refinement), and a repeated chunk has the same content. In the passing runs it sends no
  stream of an upload it is committing (`OverlapCommit = FALSE`); section 8 says what happens otherwise.
* An interrupted stream ends within the 15 minutes of the tombstone, so a tombstone does not expire
  under the eyes of the cancel that made it.
* A write to a terminal returns: a shell that reads nothing until the kernel's buffer is full would hold its connection's goroutine.
* A connection that is lost fails reads and writes alike; a retention callback that was started five
  minutes ago is through.
* The panel gives a ticket to one user, waits until its last request for a ticket is through, and renews
  a lease before it has run out (`Serial`, `Grants`); ticket ids are no prefixes of one another
  (`NamePrefix`), because `removeKeyByTicketLocked` compares by prefix. Handlers of a serial
  panel take less than a second. A ticket is exempt from the lease properties from a failed read or write
  that left its lease behind, doubled or dropped until the next start (`failed`), from which only a ticket
  with two leases in one file remains exempt: the code tries nothing again before. Section 8 says what such a failure does.
* The panel takes the acknowledgements of a request before it answers with the events that are left. A
  request ends within 35 seconds, its time limit, so a mark that expires after ten minutes belongs to an event
  no answer in flight brings any more (`Settled`).
* `net_static.json` can be read when it exists (`LoadFails = FALSE`) and nobody else writes it; the same holds for
  `auto-discovery.json`. Nobody edits `/etc/motd` between the agent's read and the write that follows it.
* The service manager starts the agent again at least when its exit code is not 0 (`install.sh` 595 asks for
  `Restart=always`); after exit code 0 the model allows a start and does not require it.
* A tree is one a file system can hold (`WellFormed`: what is below a path lies in directories), and no file in it is half-written when an operation begins, `Partial` being a
  mark of the operation's own writes (`TreesAssumption`). Nobody else changes the tree while a file operation walks it, and no link leads from the source of a copy into its target
  or back (`NothingLost` says so; section 8 says what happens otherwise).
* A counter that is read has not gone back while its device stayed (`RatesAreReal` asks for exactness of devices that stayed; the
  bound on what is said holds for all). The clock does not go back.
* Of a command nothing is assumed: it may hang, ignore its end of input and leave processes behind. Its group ends when it is killed, and a
  deadline fires (`TaskFairness`: weak fairness of each request's `Work` and `Deadline`), so that `MiningAnswered` holds for a
  control that hangs; an `exec`, which has no deadline, need not end.
* Fairness is weak and given to goroutines that can run, to system calls that return, to timers and to
  the start of the agent: Go's scheduler and the kernel provide it. Nobody has to send a request,
  lose a connection or end a shell. Slots and write locks get strong fairness per waiter, as Go's channels
  serve waiting senders in turn and a mutex hands itself over to a waiter it has kept for a millisecond. `FinalizersReturn` is stated for the disciplined controller, for a commit
  can indeed wait forever while new streams keep coming. A request that is
  made again and again reaches the panel and comes back at last (strong fairness of `PanelAnswers` and
  `AnswerArrives`); no WebSocket need ever come up, and `EventsAcknowledged` asks for nothing once it has. The property is
  stated for marks that do not expire again and again between two deliveries.

## 6. Proofs

`UploadLifecycleProofs` proves for every number of uploads, streams, finalizers, downloads and slots:

* `TypeCorrect`, `SlotsCorrect`: the tokens in the semaphore are the transfers in flight. The induction counts
  the finite set of holders, so each step that enters or leaves the set cites a cardinality lemma.
* `CounterCorrect`, `IdleChannelCorrect`, `WakeupCorrect`, `CancelQuiescent`: from the inductive
  invariant `RegistryInv`. None of these properties is inductive alone: that the idle channel closes
  with the last stream needs the counter to be the number of streams, that a sleeper sleeps on the
  right channel needs the channels of two entries to differ, and that an entry is not deleted under a
  stream needs both.
* `CancelComplete`: from `CancelInv`, which says which cancel functions an entry holds at
  each point of a stream's life. It needs `DistinctTransfers`.

`FileUploadProofs` proves for every number of uploads, paths, chunks, streams, finalizers and locks:

* `RegistryCorrect`: every step is one of the registry or leaves it alone, so `FileUpload` implements `UploadLifecycle`. The
  invariants of `UploadLifecycleProofs` then hold of it without a second induction (`Known`).
* `TypeCorrect` and `CanceledCorrect` from the layer `Shape`, which holds of every controller: a stream past its
  first phase has a slot and a part file (`Serving`), a session names one (`Sessions`), a finalizer at work has waited and has a
  mutex (`Finishing`).
* `WriterCorrect` from the layer `Exclusive`, for a controller that sends no stream of an upload it commits (`~OverlapCommit`): no stream runs
  beside a finalizer that has waited (`Alone`), which is where the registry's invariant comes in; a descriptor is open in the write only and on
  the part file (`Descriptors`), a session outlives the streams that joined it (`Joined`), a commit renames to the target its session stages for (`SameTarget`).
* `PublishedCorrect` from the layer `Complete`: what a session counts is in its part file (`Staged`), what is about to be counted is (`Recorded`), and a
  part file that came to the checks before the rename is whole (`Whole`). Beside `~OverlapCommit` it needs that directory syncs succeed
  or that an upload has one chunk, for after a failed sync the session outlives its part file (section 8).
* `AtomicCorrect`, the refinement of `AtomicPublish` under the same conditions: a write that adds a chunk, or fails, is `Stage`, a creation or removal of
  a part file `Discard`, the rename of a commit `Publish`, which `Whole` enables; every other step shows nothing.

`TerminalSessionProofs` proves, for any number of connections and request ids:

* `TypeCorrect`, `SessionsCorrect`, `InputCorrect` from `SessionInv`. A session is unborn while its shell starts, then in the map,
  then taken out of it by one closer, then closed; or its shell is an orphan's. That no session goes back is what makes the invariant inductive, and that a
  closer past the map is alone with its session (`Closing`) is why a shell is closed once. `Guarded` relates the connection, the timer and its callback of
  a session in the map, `Displaced` an open connection that lost its session and whoever will close it.
* `LendingCorrect`, the refinement of `ShellLending`: the start of a shell is `Start`, `acquireSession` is `TakeOver`, `Offer` or, when another connection was
  faster, `TurnDown`; a detachment and the critical section of `session.mu` in `closeSession` are `TakeBack`, the one of `sessionsMu` `Withdraw`, `gracefulClose` is
  `Close`, and every other step shows nothing. Beside `SessionInv` it needs `Lendable`: a session in the map has a shell, an unborn one no connection,
  and a closer that is past `session.mu` has left none. That no connection is attached to a session between its withdrawal and its end follows from
  the nesting of the mutexes in `acquireSession`. `PromiseCorrect` carries the inductive invariant of the abstract specification (`LentOnce`) over.

`SSHLeaseProofs` proves, for any number of tickets, users, handlers and crashes, any order of the walks and any clock:

* `TypeCorrect` of every panel.
* `GuardedCorrect`, `RevokedCorrect` and `LifetimeCorrect` (the action property `LivesToExpiry`) of a serial panel that keeps each
  ticket to one file, as far as the reads and writes of that file succeed (`Serial`, `OwnFiles`; TLC evaluates the latter in `MCSSHLease`, and `ssh_lease_overtaken` shows that the former is needed). They follow from
  one invariant, `LeaseInv`. A timer that fires must have been set for the lease that is there (`OnTime`); that takes that no lease is granted while one can
  go off (`Undisturbed`), that a restart finds one lease for each ticket (`Single`) and that nothing sets a timer before its file was scanned (`ScannedFirst`).
  A revocation deletes the timer at the first file of its walk, so the lease must be ahead of it (`Ahead`); then every lease has
  something that ends it (`Watched`), and a revoked one is being revoked or gone (`Gone`).

`EventChannelProofs` proves the safety properties of the event channel, for any number of events, connections,
pull loops and retries and any limit of the seen-map:

* `TypeCorrect`, with the limit of the seen-map; `ConnectionsCorrect` from `Wiring`, because the loop has no
  connection while it dials; `PullsCorrect` from `OnePull`.
* `AcksCorrect` from `Orderly`: a sender clears, after an answer, only what the panel took with its request, and
  it holds one event at a time.
* `AckedCorrect` from `Backed`: what is acknowledged, sent or in the seen-map has been executed, is marked by
  a sender that is about to do it, cannot be executed, or was lost in a crash.
* `DeliveryCorrect`, the refinement of `EventDelivery`: `markV2EventSeen` is `TakeUp`, the start of a handler `Execute`, an event that does not bind
  `Drop`, the panel's side of a request `Acknowledge`, a crash `Lose`, and every other step shows nothing. That an event may be taken up, and
  that the panel may be told of one, is where `Once` and `Backed` come in. `PromiseCorrect` carries the inductive
  invariant of the abstract specification over to the channel.
* `ExecutionsCorrect` from `Once`: as long as neither a full map nor a crash gives an event up, a marked event
  is in the map and one sender has marked it, and an executed one stays in the map until no request can
  bring it again. That a new request carries its acknowledgement then is `AckNotLost`: the two properties hold together or
  not at all.

`MonitoringProofs` proves for any number of interfaces, lists and generations:

* `TypeCorrect` from `Started` (what runs has a generation), `GoroutinesCorrect` from `Stoppable`: every channel
  but the last is closed, so whichever one a goroutine reads is closed or will be.
* `OvercountCorrect` from `Account`. That the totals are covered by what was carried is not inductive: the next sample adds the
  difference to `last`, so the invariant covers the totals with the bytes not yet sampled too, for the
  store and for the file, which a restart turns into the store.
* `HistoryCorrect`, under the assumption that the file can be read: from `Loaded`, nothing that saves runs before the file
  was read, and from then on the store keeps at least what the file holds.

and for any devices, limits and times:

* `RatesCorrect` from `RateInv`: a disk has counted what it carried since its sample (`DiskCounted`), and so has the sum of the
  interfaces, which come and go with their counters (`NetCounted`). The lemmas about sums (`SumTakes`, `SumSame`, `SumGrows`) rest on an
  induction over subsets by a least cardinality, for the library's induction takes a predicate as parameter.
* `CachesCorrect` from `CacheInv`: the snapshot is as old as its fetch and the request that brought it (`MinerKnown`), a cached size as old as
  the end of its walk and the walk (`WalkKnown`).

and of the rules, which have no state, for inputs of any size and any number of list entries:

* `RulesCorrect`: every rule says what its predicate promises of it, for every input that satisfies `IsQuery`; `RulesAlwaysAgree` is the invariant
  of the sum, for its inputs satisfy it (`QueriesAre`). `IsQuery` says what the machine, the panel and GitHub can give: free and available memory are parts of all and shared memory is
  in the cache (`IsMachine`; the figures together may exceed the total), a cgroup uses no more than the one around it nor than that one's limit (`IsHierarchy`), a partition that is used
  fits its size (`IsPartitions`), dates exist, the built-in name servers are complete, and two releases of one tag are the same (`IsList`). It bounds nothing. The rules need
  netstatic to keep its records for 31 days (`DataPreserveDay`, of which the code has 31 as its default).
* `ProcessorsCorrect`: of the processors, which `RulesAgree` asks about for a few settings only, the same for every setting, load, window and period.
* The argument. The community modules define a fold over a list by a recursion over index sets. `FoldExists` shows that this recursion has a solution, by
  least counterexample, and then what a loop computes follows from its prefixes: `KeepSteps`, `LatestSteps`, `PagesSteps`, `DevicesSteps` give one equation
  for each entry, and an invariant of the loop is proved for all prefixes by the least one that breaks it. `FirstOfBoth` and `KeepFirst` then say
  what is found first in a sorted list in terms of the unsorted one (`DialCorrect`, `ServerCorrect`); the pages of a list of releases
  make up the list (`ListCorrect`), the release chosen is the latest (`LatestCorrect`), each device is counted once with its best
  partition (`ByDeviceIs`), and no usage exceeds its total (`SumUnder`).

`AgentLifeProofs` proves `ExitCodeCorrect` from `CodeInv` (the remembered code is 42 exactly when a caller with
that code is past its call, and the main goroutine calls once) and `IdentityCorrect` from `OneClient` (once a client's token was
used, the file names that client, and `handleAutoDiscovery` does not get past loading it). `WarningCorrect` (`TextsKept`) follows from
`Remembered`, what the cleanup function has kept is what it would find by cutting its block out of the file it left: with the lemmas that a
file of at most one block is cut down to the texts of others (`BlockCut`) and that a block put under them can be cut off again (`BlockPut`).

`RequestsProofs` proves of `FileTree`, for every set of paths and of well-formed trees, any links, mounts and arguments, and any limit of a search:

* `FileTypeCorrect`, `NothingLostCorrect` and `AnswerTellsCorrect` from `FileInv`, which says for each stage of an operation what its next step relies on.
  While a tree is copied, the source stays as it was and no link comes into the target but by the copy (`Copying`), and what is not
  copied is ahead of the walk or being written (`CopyInv`); so a removal begins after all of it is at its new place (`RemoveInv`). A
  replacement changes no link (`ReplaceInv`). Of a search, no two entries ahead are one below the other, and what was passed has been found or was left out
  (`SearchInv`); without the former, an entry could be found and still be ahead. Sources and targets that links connect, or of which one contains the other, are not
  `Plain`, and the properties of moves and copies say so.

and of `TaskDelivery`, for any number of requests and connections, any latencies and thresholds, and with or without process groups:

* `TaskTypeCorrect`, `DeliveryCorrect` and `AnswersCorrect`, from one inductive invariant with two parts. `Sound` is about a single record:
  an attempt is left while the answer is to be sent, a shell that was reaped or killed is not running, and what has been
  answered is true of the process from then on: without the fact that the shell is not running any more, a later exit could belie the answer. `Balanced`
  relates it to the panel: while the answer is to be sent, the panel has got it as often as the agent did not learn so. All actions but `Post` and
  `WriteJSON` are shown to be calm steps of one record, which keep `Balanced` whatever they do to the process.

The proofs assume the constants' named assumptions, which TLC evaluates on the instances, and the conditions named above. The assumptions are: finite sets,
typed transfer ids, at least one slot and one chunk, enough channel and mutex identities, streams and finalizers that are different goroutines
(`RegistryAssumptions`, `EnoughChannels`, `EnoughLocks`, `GoroutinesApart`); for the terminals, that `NoConn`, `NoSession` and `NoRequest` are none of their
kind; for the leases, that the walk begins with the default user, times are positive and `NoTimer` is no timer; for the event channel,
distinct identities and room for one event; for the statistics and rates, that `NoCounter`, `NoFile` and `NoSample` are no values of their kind
and that devices are finitely many; for the process, that `NoClient` is no client, `Warning` no text and `NoMotd` no file; for the file operations, `TreesAssumption`. They follow the
actions: one step per action and below it one per conjunct the action can disturb. Lemmas say what a step makes
of the record of the sender that takes it, field by field. A record inside a function is updated in the form
`[f EXCEPT ![p] = [f[p] EXCEPT !.a = x, !.b = y]]`: tlapm 1.4.5 misreads two updates of the same index in one EXCEPT.

Only model-checked: liveness (`HandlersReturn`, `FinalizersReturn`, `SessionsEnd`, `ExpiredEnds`, `EventsAcknowledged`, `LossNoticed`,
`UpdateTakesEffect`, `MiningAnswered`), which needs fairness and `ENABLED` and is out of the
prover's reach. Every other property of a run that passes is stated by a theorem. Only proved, not run: the type invariants, `AckedWasExecuted`, which
`DeliverySpec` contains in its `Acknowledge`, the `Promise` of events and of terminals, `StalePullsCanceled`, `ProcessorsCorrect`, and
`AtomicSpec` where there are several targets or directory syncs fail.

## 7. Not modelled

Within the modelled components: the contents of files
(a chunk is there or not, a file holds one of a few values), permissions, owners and times, the wire format of streams, the Windows variants but for
`task_windows.go` (`Unix = FALSE`), how a shell is found, notifications over the WebSocket (they have no event id and are executed as
they come), `Clear`, `ForceReplaceRecord` and the queries of `netstatic` (the agent calls `GetTotalTrafficBetween` only, which changes
nothing), the legacy update-motd hook and incomplete blocks of the login warning, and programs other than the agent that change the same
files, `/etc/motd` excepted. Of the measurements: the parsing of `/proc`, `/sys` and of the output of tools, the counts of connections and
processes, graphics cards, virtualization, the name of the system, and the requests a single ping consists of. Of the clients: HTTP transports,
their cache and TLS. A write over the WebSocket is one step, as its mutex makes it; that `Close` waits for a write that blocks is
left out. The Windows window and the command-line helpers show or print and keep no state;
scripts, installers and workflows are not part of the running agent. Of `authorized_keys`: lines that are no leases, a line of
more than 64 KB, at which the scanner of `authorizeKeyAtPath` stops without an error, and an agent that finds no home directory. Of the mounts:
`/proc/self/mountinfo` or `/sys` that cannot be read, after which a name without `/dev/` stays what it is; the capacity and rates of network and Windows drives.

## 8. Observations

What the models showed beside the runs that fail:

* `waitUploadStreams` waits for the streams that are active, but nothing keeps a new one from beginning right after it. A controller that
  sends (or re-sends) a chunk while it commits writes through the renamed file, and can end with a session that counts a chunk its part
  file does not hold; the next commit publishes a file with a hole. The comments at `server/files.go` 616-617 and 644-645 expect otherwise.
  `FileUpload` with `OverlapCommit = TRUE` has these behaviours (`PublishedComplete` and `NoWriterOnTarget` fail).
* An error of `syncUploadDirectory` is reported after the rename has taken place, and the session is kept. A controller that
  retries the last chunk and the commit replaces the published file by one that holds the retried chunk only.
* `authorizeKeyAtPath` takes a file it cannot read for an empty one. When it can be written, the new lease replaces all other leases and all keys that
  were there (`AuthorizeClobbers`; the timers of the lost leases find nothing to revoke). There is no comment or test that says otherwise; `failed` exempts the lost leases.
* A file that cannot be read at the start, or whose expired leases cannot be removed, gets none of its timers back: its leases stay until the next
  start, although the comment of `ReconcileLeases` (`sshauth/sshauth.go` 269-271) says that lost timers are solved for good. When a write fails, the same
  holds for its active leases, which did not need it.
* When the figures of `/proc/meminfo` exceed the total, `GetMemHtopLike` takes off free memory only and then adds the shared memory, so that a machine with
  more shared than free memory is reported to use more than it has (`MemoryFits` bounds by how much).
* A forced disk size is as old as its time to live and the walk that found it, more than the 60 seconds of the comment at `monitoring/unit/disk.go` 101-103.
* A ZFS pool is a device of the default list and of the capacity, but no counters have its name: it gets no rates, and a mount list that leads to pools only
  leads to all real block devices.
* When `net_static.json` exists and cannot be read, `StartOrContinue` fails, `RunE` logs it and calls `SetNewConfig`, which
  saves the empty store over the history (`HistoryKept` fails with `LoadFails = TRUE`).
* A goroutine of the statistics that is handling a tick while `SetNewConfig` closes its channel reads the new ticker and
  the new channel afterwards and goes on beside its successor. It can be stopped like it, and bytes are
  still counted once; the two share the ticks.
* A report that comes after `Stop`, while the shutdown still runs, starts the statistics again.
* A failed auto-discovery ends the process with exit code 1 or 0: the deferred end of the notification of signals wakes the
  goroutine that calls `shutdown(0)`, which races `os.Exit(1)`.
* A crash, or a failed write, between the registration and the end of the save registers the machine again; so does
  an `auto-discovery.json` that cannot be read for once.
* A copy of a file opens its target with `O_TRUNC` and follows links: if the target is a link to the source, the source is truncated and nothing
  is left of it (`copyRegularFile`). A copy of a directory whose target lies inside it by way of a link walks its own copy until a path is too long.
* A move to another file system copies, then removes what is there by then: what another operation or an upload puts into the source
  meanwhile is removed without having been copied. Such a move goes into what a link at its target leads to, where a rename would
  replace the link. Copying a named pipe waits for its writer.
* A command that leaves a process in the background with its output open is answered with -1 after `WaitDelay`, although the shell has exited with 0.
  A command that is blank is answered with 0, although nothing ran. A control that is done just before its deadline may be answered as
  timed out. On Windows only the shell itself is killed.
* A file result that the panel answers with an RPC error in a good response counts as delivered; the result of a task is sent three times even if it
  is refused for good.
* The nearest finite limit of a cgroup is reported, not the lowest of those above it. A version 1 group whose quota is readable and whose
  accounting is elsewhere reports a usage of 0. `--force-memory-total` wins over the cgroup although its help text limits it to groups
  without a limit, and a usage above 100 is cut although the comment of `CgroupCPU` allows it.
* Dialling a name server over UDP succeeds whether it is there or not, so that the built-in servers are hardly ever reached. An IPv6 server in brackets
  without a port is not completed.
* When the addresses come from the interfaces and these have one version only, a custom address of the other version is not reported.
* `snapshotNeedsUpdate` asks whether the tags differ, so that a snapshot that is no longer listed is replaced by an older one.
* The history is kept for 31 times 24 hours, an hour less than a month with a change to winter time needs.
* An interface that goes and comes back with the counter it had adds its whole count to the rate of that sample. (`RateSample` has devices that
  begin at 0.)
