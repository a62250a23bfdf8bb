# GeoProxy: formal models and proofs

TLA+ models of the parts of GeoProxy in which several goroutines, processes or
database writers meet: choosing a node for a session, the life of a node's row,
the sharded sing-box runtime and the rows that point into it, the relay of a
tunnel, the background health check, the configuration with its API keys, and the
limiter of those keys. Each model is checked with TLC on small instances; the
safety properties of the passing runs are proved with TLAPS for every
value of the constants.

To run a check: `tlc -config RoutingQuota.cfg MCSessionRouting`. To check a
proof: `tlapm RelayProofs.tla`. `PROJECT.json` lists all runs, the source lines
behind every definition, the hazards, the mutants and the theorems.

## 1. The system

GeoProxy is a gateway. Clients talk HTTP or SOCKS5 to one port and encode in the
user name which exit they want (region, node, session, unlock filter). The
gateway picks a node from a SQLite pool, dials through it and relays. Nodes come
from subscriptions or are added by hand; those that need a tunnel protocol are
served by local sing-box processes, one local port per node.

| component | state | operations | meets |
|---|---|---|---|
| affinity store `affinity/store.go` | bindings, reverse index, cooldowns, TTL, first-bind lock | Get, SetProxy, Remove, RemoveIfProxyID, CountByProxy, SetCooldown, GC | called by the selector and the gateway; GC goroutine |
| selector `selector/` | none | Resolve: pin, sticky entry, rebind, quota, cooldown | store, node rows, live configuration |
| gateway `proxy/` | one goroutine per request | authenticate, resolve, dial, retry, relay, record the result | selector, store, node rows |
| tunnel relay `proxy/socks5_server.go` | two copiers, deadlines, a coordinator | copy, half-close, idle cut, fast close, accounting | both peers; node rows; store |
| node rows `storage/` | status, fail_count, pause, retention clock, exit data, route | about fifteen guarded UPDATE statements and transactions | everybody below |
| health checker `checker/` | background loop, its stop, wake and cancel handles | start, stop, wake, validate active nodes in batches | node rows, validator |
| subscription manager `custom/manager.go` | refresh mutex, validator of the last start | refresh, probe disabled nodes, add, delete | node rows, tunnel runtime |
| administrator API `webui/` | login sessions, a snapshot of the configuration | toggle, delete, probe, save settings, manage API keys | node rows, configuration |
| configuration `config/` | config.json, the published snapshot | Load, Save, Get, first-boot bootstrap | everybody; the file system |
| API keys `webui/api_key_middleware.go` | token buckets | match, limit, mark as used | configuration |
| tunnel runtime `custom/sharded_singbox.go`, `custom/singbox.go` | shards, committed keys, port maps, processes | Reload, commit, roll back, clear, recover, Stop | manager; operating system |
| validator `validator/` | worker pool, result channel | one verdict per node, a stream of them per batch | network; its reader may cancel |
| user-name DSL, subscription parsers, dashboard, logging | little or none | parse, load, render | everybody |

What is hard here:

* **Check-then-act over several calls.** Resolve counts a node's sessions, tests
  its cooldown and binds in separate calls on a store whose own mutex covers only
  one call. Expired entries are removed lazily by readers, counters and the GC.
* **Results that arrive late.** A probe takes seconds. Meanwhile the row may get
  another route, be paused, be deleted, or its subscription may go. Five kinds of
  probers and the gateway write the same row.
* **Failures in the middle.** A reload restarts process after process; any may
  fail to start, come up partly, or die later, also during the roll-back.
* **Two stores without a transaction.** A tunnel node is a row that names a local
  port and a process that serves the port. The manager changes the runtime first,
  the row second, and gives the runtime back when the row cannot be written, while
  the watch loop, probes and deletions that wait for the lock do not stop.
* **Two directions of one tunnel.** Either may end first; the rest must be cut
  only when idle, never hang, and its bytes must agree with the books.
* **One configuration, many copies.** A save touches a file, two snapshots, the
  session store and the database, and may fail or be cut off between any two; the
  roll-back is a save that may fail too. Requests and the health checker hold
  copies they read earlier.

What makes each part correct, and where it is stated, is in section 3.

## 2. Modules

| module | models | module for TLC | proofs |
|---|---|---|---|
| `SessionRouting` | affinity store, selector, retry loop | `MCSessionRouting` | `SessionRoutingProofs` |
| `NodeHealth` | node rows and all their writers | `MCNodeHealth` | `NodeHealthProofs` |
| `TunnelRuntime` | what the runtime promises the manager (abstract) | | |
| `SingBox` | sharded tunnel runtime | `MCSingBoxLive` | `SingBoxProofs` |
| `ShardedRuntime` | `SingBox` as an implementation of `TunnelRuntime` | `MCSingBox` | `SingBoxProofs` |
| `TunnelNodes` | rows of tunnel nodes over `TunnelRuntime`: manager, WebUI probes | `MCTunnelNodes` | `TunnelNodesProofs` |
| `HealthLoop` | background health check and `ValidateStream` | itself | `HealthLoopProofs` |
| `Relay` | one tunnel after its upstream connection stands | itself | `RelayProofs` |
| `AdminConfig` | configuration, its copies, API keys, restarts | `MCAdminConfig` | `AdminConfigProofs` |
| `KeyLimiter` | token buckets of the API keys | itself | `KeyLimiterProofs` |

`TunnelNodes` is composed with the runtime through its contract: it takes the
results of Reload and of the watch loop from `TunnelRuntime`, and `ShardedRuntime`
shows that the sharded runtime stays inside that contract. Otherwise the modules
are separate: what one needs of another it takes as a free input.
`SessionRouting` lets nodes come and go, settings and TTL change at any moment;
`NodeHealth` lets forwards fail at any moment and filters be saved; `AdminConfig`
lets the limiter answer either way and the filter's SQL fail.

An operator whose comment begins "Mutant" is not part of a specification. It is a
plausible mistake in the operator that follows it; `PROJECT.json` pairs each
with the property that notices it.

### SessionRouting

`bindings`, `reverse` and `cooldown` are the maps of `Store`; `bindLock` is
`firstBindMu`; `catalog` says which nodes the database offers and where they
are; `cfg` is what `config.Get` returns; `req` is the local state of each
request. Every call on the store is one step, because `mu` covers it; a request
may be interrupted between two calls. A stage of a request (`pc`) is a point
between two such calls of `Resolve`; `Critical` are the stages between
`BeginFirstBind` and `EndFirstBind`. `quietUntil` and `disturbed` are history
variables that only properties look at.

Left open: which of several eligible nodes is taken (latency order, rendezvous
hash). Properties hold for every choice. `releaseStaleBinding`'s Get and Remove
are one step; the first-bind lock is held around both. A username is already
parsed and a node's unlock results are a set of nodes.

### NodeHealth

`rows[n]` is a row of `proxies`. The route identity (address, protocol,
credentials, ...) is one value. `exit` carries the route it was measured on,
which the database does not store: that is what `ActiveIsVerified` needs to talk
about. A probe is: take a snapshot of row and filter, wait for the network
(`ProbeReturns`, with any outcome), then issue one or two guarded statements,
each a step (the database has one connection). `mu` is `Manager.refreshMu`; a node may be
deleted while somebody holds it, since direct nodes are deleted without it.
Rows never influence each other, so a batch is represented by the part of it
that concerns a row. `DatabaseError` lets any statement fail; `Restart` drops
everything in memory and runs the start-up filter.

Left out: manually set regions, locations without a country code, latency
(folded into the outcome), the retention limit as a duration (the long-term skip
is a free choice), scores, notes, stars. `fail_count` saturates at the threshold
3, above which no statement distinguishes values. The status "degraded" is never
written by the code and does not occur.

### SingBox

`shard[i]` is a `SingBoxProcess`: its nodes, the port map it publishes, the keys
it rejected, its status, and the operating system's process with the
configuration that process really runs (`serves`). `op` is the call that holds the
runtime's mutex, with its snapshots; a visit of one shard is one step, since the
shard's mutex covers it. `ProcessDies` is the process's death, `ExitNoticed` the
goroutine that waits for it; anything may happen in between. `ReloadShard` is the
set of all results of `SingBoxProcess.Reload`: refused, not started, started,
started for some nodes.

Left out: nodes that cannot be built at all (the prefilter refuses them and a
target of only such nodes changes nothing), the JSON configuration, and a
process that survives SIGKILL for two seconds. `readyPorts` is folded into the
status.

### TunnelRuntime and ShardedRuntime

`TunnelRuntime` has a port map that changes once per call. Its calls are named by
what they can still report: a "reload" may succeed, a "failing" one will return an
error after a roll-back, a "broken" one could not even be rolled back. After a
success every node that stays keeps its port and nothing is loaded that was not
asked for; after an error no new node is loaded; recovery moves no node. What is
not promised is as important: after a roll-back a node may be on another port, a
node may be missing because sing-box refuses it, and nodes that a broken call left
behind (`extra`) may survive later successes, because a shard whose committed keys
equal the target's is skipped (sharded_singbox.go:200) although it runs more.

`ShardedRuntime` adds two history variables to `SingBox`: `published`, the map as of
the last call that returned (readers wait for the mutex), and `extra`. The refinement
mapping takes a load or a clear to "reload", a roll-back to "failing" or "broken".
`KeepsContract` is the abstract specification as a property of the detailed one.

### TunnelNodes

`rows` maps an owner (a subscription, or `Manual`) and a node key to a row: port,
status, and `astray`, whether another node answered the probe the status rests on,
which the database does not know (a history field, kept until the first fault). `ports` and `extra` are the runtime's. `op` is the
holder of `refreshMu` with its locals; its steps are Reload, the reading of the port
map, the transaction, the compensation and the validation of each row, because the
watch loop, `StartTest`/`Dial`/`WriteTest` (WebUI probes, which never take the lock)
and `ReadForDeletion` (the row is read before the lock is taken) happen in between.
`del` and `probe` are what a deletion and a probe remember; `ref` follows the row's
id, which is never used again. A probe whose row is deleted is forgotten at once: its
result is written `WHERE id = ?` and so nowhere. A transaction is one step.

Faults are chosen from `Faults` and counted: a database error, a failed Reload (with
or without a successful roll-back), a node sing-box now refuses, a restart, and a row
that has been disabled for longer than `longTermDisabledRetention`.

Left out: direct nodes (no port), legacy rows without node key, user pauses and
paused subscriptions (`NodeHealth`), which of a refused and a missing node
`acceptedNodesForCommit` sees (both outcomes are allowed), and the manager's Stop.

### HealthLoop

`loop[g]` is the g-th background goroutine with what its select can see (timer, wake
token, stop, context), `current` the one the checker's fields belong to, `stopper[g]`
the StopBackground call that took it: it clears the fields under `bgMu`, then cancels,
closes and waits without the lock, so another loop may be started meanwhile. `stream`
is a ValidateStream per caller: dispatcher, workers, channel, results read. RunOnce
called from outside a loop is the caller `Hand`. A select with several ready cases
takes any of them. Left out: what a result does to its row (`NodeHealth`), the
configuration itself (`AdminConfig`), and readers that abandon a stream, of which the
code has none. UpdateConfig's reading of `bgWake` and its send are one step; a token
sent to a loop that has been stopped is never looked at.

### Relay

`peer` is what the client and the target did, `conn` the gateway's ends of the two
connections, `copy` the two `io.Copy` goroutines, `dl` their
`socks5RelayIdleDeadline`s, `results` the channel, `main` the coordinator's
position in `relaySOCKS5`, `node` what the request does to its node's records.
Bytes are counted, not looked at. Peers may send, finish, reset and stop reading at
any moment. A write and its `onWrite` are two steps, since the coordinator may
arm or clear the deadline in between. Deadline operations are atomic (they hold a
mutex). The SOCKS5 and the HTTP CONNECT entry share the relay; what differs is how
the reply can fail. `success` says that RecordForwardSuccess was called: its error is only
logged. `quiet` is a history variable that counts from the last completed write of a
direction, not from the last byte a peer took.

### AdminConfig

`disk` is config.json, `global` what `config.Get` returns, `cfg` the WebUI's `s.cfg`,
`ttl` the session store's, `checker` the health checker's copy. `op` is the handler
that holds `s.cfgMu`: rename, publication, installation and the application of the
filter are steps of their own, between which readers run and the process may die.
A restart makes of the file what `applySavedConfig` does (`Decoded`). `reader` are the
two goroutines that refresh the checker, each of which reads first and stores
later. `req` are API requests: match, limiter, second match, service. `answered` is a
history variable: what the administrator was last told of each key; a crash in
the middle of a change counts as the answer that the file gives.

The settings are a TTL and a country list; the list stands for both lists, of
which at most one is applied. The rest of the settings take the same way. The
process may die at any step; a rename that was done survives (losing it to a
power failure is not modelled). Startup failures that end the process are left
out. `LastUsedAt` is set or not.

### KeyLimiter

`buckets`, `tokens`, `lastSeen` and `lastSweep` are the fields of
`apiKeyRateLimiter`. Tokens are counted in fractions of 1/`Period`, where the code
uses floating point: rounding is not modelled. A call of `allow` is one step, since
the mutex covers it and the clock is read under it. `ideal` is the yardstick: a
bucket per key that is refilled at every instant and never forgotten. A restart
empties the table and is the initial state.

## 3. Runs

Unless noted, deadlock is checked.

| run | instance | distinct states | properties |
|---|---|---|---|
| `routing_quota` | 2 requests, 2 sessions (one pinned), 1 node, two settings, two instants, fair | 354,000 | ReverseIndexExact, BindWithinLimit, CooldownHonoured, ResolveReturns |
| `routing_mix` | 2 requests, 1 session, 2 nodes in 2 regions, pins, regions, unlock filters, session lifetime switched on and off, one retry | 2,056,000 | SessionAgreement, NoNodeTriedTwice |
| `health_race` | 1 row, 2 routes, a prober of all five kinds, 1 forwarder, a filter that admits or not, fair | 375,000 | NoStrandedNode, PausedSubscriptionServesNothing, ActiveIsVerified, ActiveHasNoClock, PauseIsSticky, PolicyIsEnforced |
| `health_policy_doc` | 1 row, 2 countries, 2 filters | | RecoveredNodesMeetPolicy (violated) |
| `shards` | 3 nodes, 2 shards, full segments | 637,000 | PortMapServed, PortsDistinct, SuccessServesTarget, FailureRestores, StopIsFinal, KeepsContract |
| `shards_live` | 3 nodes, 1 shard with 2 ports, fair | 41,500 | CrashedShardRecovers |
| `tunnel_nodes` | 2 nodes, 2 ports, 1 subscription and manual rows, 1 fault of any kind, 1 deletion or probe on its way | 1,248,000 | CommitMatchesRuntime, OwnedKeyNotReclaimed, RowsReachTheirNodes, NoGhostNode, ActiveOnOwnEvidence |
| `health_loop` | batches of up to 3 nodes, 2 workers, a channel of 2, 2 starts, RunOnce besides, fair | 138,000 | ClosedStreamIsComplete, StoppedLoopIsQuiet, StopReturns |
| `relay_tunnel` | 2 bytes each way, idle time 2, fair | 121,000 | EofIsHonest, OnlyIdleIsCut, BooksAgree, NothingLeft, EndedTunnelReturns |
| `config_views` | 1 key, 2 settings besides the environment's, 2 API requests, fair | 542,000 | ViewsAgree, KeysAsAnswered, RevokedServesNothing, UsageKept, CheckerFollows |
| `config_restart_doc` | 1 key, 1 API request | | FileIsSourceOfTruth (violated) |
| `key_limiter` | 3 keys, 2 buckets | 13,000 | TableBounded, LimiterExact, VerdictIsIdeal |

Type invariants, and `FirstBindExclusive` (at most one request is between
BeginFirstBind and EndFirstBind), are proved and not run.

What the properties say, one sentence each, is in the comment above each of them;
what a mistake in the code would do to them is in the mutants of `PROJECT.json`.

Why these bounds reach the interesting cases:

* Overbooking needs two requests between count and write; two sessions on one
  node with limits 1 and 2 are at and over the limit. A window of one minute on a
  clock of two instants is open and at its end. A settings change between two reads
  is included.
* Session agreement needs two requests of one session, and one node to move away
  to. Two attempts suffice for "tried twice".
* A prober and a forwarder overlap on a row whose route, filter and owner change
  underneath them. Two probers at once are left to the proofs, which hold for any
  number. `fail_count` reaches and stays at its threshold.
* Two shards make partial failure possible; a segment as large as its shard's
  nodes makes a port hole or a full segment happen. The one-shard instance has
  a segment that is a port short.
* Two owners of one node, a second node to take over a freed port, and one fault
  at any step: every compensation is reached, also with the deletion or the probe
  that was on its way. `RowsReachTheirNodes`, `NoGhostNode` and `ActiveOnOwnEvidence`
  speak of behaviours without a fault, since the code does not promise them beyond
  (section Observations); the other two hold in all.
* Three nodes, two workers and a channel of two fill pool and channel; with two
  starts a loop begins while the other is still stopping.
* Two bytes make a partial write possible; an idle time of two ticks
  distinguishes "refreshed" from "not refreshed".
* One handler works at a time, so one key and two settings (one that clears the
  list, one that changes the TTL) meet every save, failure, roll-back and crash; two
  API requests make one revocation fall between the matches of another.
* Three keys over two buckets fill the table; the idle time equals the time to fill a
  bucket, the least the assumption allows and the case in which forgetting a bucket one
  tick early would show; the clock runs past both and past the sweep interval.

Deadlock is not checked for `SingBox`, `Relay` and `TunnelNodes`: after Stop, after a
tunnel has returned with peers that have nothing left to do, and after a restart with
no subscription left to add, the system may rest.

Symmetry is used over requests, node keys and ports, in runs without liveness.

### Fairness

* Routing: goroutines inside Resolve run (WF). Taking the first-bind lock is SF:
  Go's mutex hands itself to a waiter that starves. Nothing is assumed of
  clients, nodes, clock or administrator.
* Health: the health check comes round for every selectable row (its batch takes
  the longest unchecked first), probes end (every network operation has a
  deadline), and neither the network nor the database fails every time.
* Shards: the watch loop and the holder of a mutex run; starting a process does
  not fail for ever. `CrashedShardRecovers` speaks of shards that hold nodes: the
  watch loop skips a shard with committed keys and no nodes, which a failed
  roll-back can leave.
* Configuration: the checker starts batches again and again (its timer), and a
  goroutine that has read the configuration goes on to store it. Nothing is assumed
  of the administrator, of API requests or of the notice.
* Health check loop: dispatcher, workers and reader run (a probe ends by its own
  timeouts), so does StopBackground. The loop's select is SF for its stop case: Go
  picks among ready cases at random, so a case that is ready again and again is taken.
  Nothing is assumed of the timer, of wakes, or of who starts and stops.
* Relay: the gateway's goroutines run and its deadlines pass. Peers may do
  nothing for ever; in particular no write is assumed to be accepted.

### Findings

Where the code does something else than a document or a comment says. Two violated
properties state what the document says:

* `health_policy_doc`: GEO_FILTER.md:60 says filtering is applied during
  validation. The manager's validator (custom/manager.go:180) keeps the filter of
  the last start, so its probes recover nodes the saved filter excludes.
  `PolicyIsEnforced` shows the health check takes them out again.
* `config_restart_doc`: README.md:300 says config.json is the source of truth on
  later starts. A list saved empty is omitted from the file (config.go:388) and
  Load keeps the environment's (line 560): a cleared denylist is back after a
  restart.

In two more cases a property that holds states what the code does, which the text denies;
comments next to the code and its tests side with the code:

* `routing_mix`, `SessionAgreement`: README.md:151 and GEO_FILTER.md:52 say a session
  suffix next to a node pin "does not create a separate sticky binding". Resolve binds
  such a session (selector.go:87-104): it counts against the node's quota, starts its
  cooldown, and a later request of the session without the pin sticks to that node. The
  comment at selector.go:85 and selector/pinned_limits_test.go want this. The property
  includes pinned requests and would fail if the text were right.
* `shards`, `FailureRestores`: the comment of ShardedSingBox.Reload
  (sharded_singbox.go:117-118) says other shards are not rolled back when one fails. They
  are (lines 218-246), as the comment at line 182, CHANGELOG.md:168 and
  sharded_reload_rollback_test.go say.

### Observations

What the models showed about the code beyond the properties, which are stated so as to
leave it out. The relay:

* A tunnel of which one direction has ended is cut when no write of the other is completed
  for the idle time. progress runs only after Write has returned (socks5_server.go:233),
  so bytes of a write that is still going on do not extend the deadline: a reader so slow
  that one buffer of io.Copy takes longer than the idle time is cut although it reads.
  `OnlyIdleIsCut` therefore speaks of completed writes.
* A failing RecordForwardSuccess is logged and not repeated (socks5_server.go:171,
  server.go:926): a tunnel may serve its client and leave no success in the row.

Rows and runtime, and at last the health check. All but the last two take a fault (mostly
an eviction after seven days) to happen; the first, third and fourth are exceptions to
what the comment at manager.go:1582 (no ghost ports), CHANGELOG.md:164 (no stale result for a reused port) and CHANGELOG.md:115 (a node with
another owner stays loaded) say in general:

* A deletion that waited for `refreshMu` looks for its node at the port it read
  before (manager.go:1603). If a fault made a refresh move the row meanwhile, the
  row is deleted and the node stays loaded.
* A node that was evicted comes back on another port when one owner refreshes; rows
  of other owners keep the old port.
* An evicted row keeps its port. Once another node has the port, a WebUI test of the
  row is answered by that node and makes the row active.
* A manual addition does not clear the eviction mark of its key (manager.go:2010), so
  a later refresh may unload the node again although its row is in use.
* Adding a node by hand that a subscription serves at the same port ends in an
  ambiguous address (manager.go:1947): the row just written is removed and the
  addition reported as failed.
* After a restart stored ports may be served by other nodes until each owner is
  refreshed; manual tunnel nodes are not loaded again.
* A save of the settings wakes the health check's loop, which starts its timer afresh.
* After a cancellation the dispatcher's select may still dispatch nodes while the
  semaphore has room; each ends by its own timeout.

## 4. Proofs

All proofs are for every value of the constants under the module's named
assumption (`RoutingAssumption`: sessions are finite, sentinel values are not
members; `HealthAssumption`: a filter is a set of countries, sentinel values are
not members;
`SingBoxAssumption`: keys are ordered, every key has a shard, segments are
disjoint sets of positive ports; `RelayAssumption`: amounts are naturals, the idle
time is positive; `ConfigAssumption`: a restart makes a setting of a setting and
does not touch the TTL, sentinel values are not members; `LimiterAssumption`: keys are
finite, the idle time is at least the time to fill a bucket; `LoopAssumption`: sizes
are naturals, the pool is not empty; `TunnelAssumption`: port 0 is no node's port, bounds
are naturals, sentinel values are not members). TLC evaluates each
assumption in the runs.

**Routing.** `RoutingTypeOK` needs `RequestShape`, which ties the stage of a
request to its fields (in a critical stage it has a session, a candidate comes
from the catalog). Quota and cooldown are not inductive: when BindSession fires,
count and test are in the past. `QuotaInv` adds what the holder of the lock knows
of the candidates that passed a filter (`Room`, `Cooled`), that only the holder
can add a session (`OnlyBindGrows`), and that a cooldown entry disappears only
after its window (`WindowKept`). Theorems: `ReverseIndexCorrect`,
`FirstBindCorrect`, `QuotaCorrect`, `CooldownCorrect`.

`SessionAgreement` speaks of requests that are being forwarded; the inductive
`RouteInv` says what each request knows at each stage before (`Facts`). Between two
critical sections a request only relies on a binding that is still `Good` for its
route, and that no other request replaces: a binding changes its node only in BindSession,
whose caller holds the lock and found the binding unfit (`~Fit`), and requests of an
undisturbed session want the same, so a binding unfit for one is unfit for all and
nobody is at a stage that uses it. All other store operations leave the binding's node
and region alone and drop it only when it has expired (`Faded`). `UntriedInv`
(the candidate in hand and the candidates left were not tried) gives `NoNodeTriedTwice`,
also for disturbed sessions. Theorems: `AgreementCorrect`, `RetriesCorrect`.

**Node rows.** `HealthInv` = every row `Good` (an active row has a count below the
threshold, no clock, and exit data of its route), every prober `GoodProbe` (one
about to recover a node has seen an exit), the types, and
`PausedSubscriptionServesNothing`. Most statements are `Calm`: they put nothing
into service; the recovering one is protected by the route comparison and the
parent's status in its WHERE clause. Theorems: `NoNodeStranded`, `PausedStaysOut`,
`ActiveVerified`, `ClockStopped`, and from the same invariant the action property
`PauseHolds`.

**Tunnel runtime.** `RuntimeInv`: `ShardsOK` (a shard's ports are for its own nodes,
from its own segment, distinct, and served by a process that is up), `CallOK`
(snapshots agree with what was not touched), `LoadOK` (shards visited without a
failure serve the target), `UndoOK` (shards rolled back hold the old nodes), and
`StopIsFinal`. Theorems: `PortsServed`, `PortsStayDistinct`, `ReloadServes`,
`RollbackRestores`, `StopStays`, for any number of shards.

**Refinement of the runtime.** `RuntimeKeepsContract` shows that every step of the
sharded runtime is, under the mapping of `ShardedRuntime`, a step of `TunnelRuntime` or
a stutter. A call that visits the shards one after the other must appear as one change
of the port map when it returns, so `ContractInv` says, in the middle of a call, what
the map not yet published has in common with the published one: outside a call they are
equal (`OutsideLoad`), inside one the snapshot of a shard holds the nodes published for that
shard (`SnapshotPublished`), shards not yet visited are untouched, a node that is still
there has its published port, the shards visited without a failure hold their part of
the target (`InsideLoad`), and a roll-back that has not broken has restored the shards
behind it (`InsideUndo`). `LoadEffect`, `CommitEffect`, `RecoverEffect` and `UndoEffect`
reduce each action to its effect on one shard; the end of a call is then one of the
four results the contract names.

**Rows of tunnel nodes.** `NodesInv` has a part for every state (`AlwaysInv`) and one
for the time until the first fault (`CalmInv`).
`AlwaysInv` adds to the two properties that a snapshot refers to a row that is there or
to none (`SnapshotsHold`) and that the port map read before a transaction is not wrong
at its commit (`MapMatchesRuntime`): the watch loop only frees ports, and everyone who
could give one out needs `refreshMu`. The ownership test made before Reload stays true
for the same reason: rows appear and vanish only in transactions of the lock's holder.
`CalmInv` says at each stage which nodes are loaded (`LoadedInv`): between operations
those of the rows, after Reload those of the rows that will be there after the commit
(`Needed`), before an undo at least those of the rows. Rows then never move (`RowsInv`),
so a deletion that waited for the lock still finds its node at the port it read, a manual
node meets no row of another key at its port, and a probe can have another node's answer
only if its row's own node is unloaded, that is, between a Reload and the commit that
deletes the row (`EvidenceInv`). Theorems: `NodesTypeCorrect`, `CommitCorrect`,
`ReclaimCorrect`, `RowsCorrect`, `GhostsCorrect`, `EvidenceCorrect`, for any number of
keys, ports, subscriptions and operations. `NodesInv` was checked with TLC on the
constants of the run before it was proved, and without faults also with a deletion and
a probe at the same time.

**Relay.** `RelayInv`: what a copier read it has written or holds, and one that ended
cleanly passed on everything (`CopierOK`); the results in the channel and those
taken are of different copiers that are done, which bounds the channel
(`ResultsOK`); a half-closed connection was fed by a copier that ended cleanly
(`ShutOK`); a deadline runs only for the direction that is left, and quiet time plus
remaining time is at least the idle time, where quiet time counts from the last completed
write (`DeadlineOK`); success is reported unless an `onWrite` is still due (`BooksOK`). Theorems: `HalfCloseHonest`, `IdleOnly`,
`BooksBalance`, `NothingStays`, `RelayTypeOK`.

**Configuration.** `ViewsAgree` speaks of moments without a handler; the inductive
`ConfigInv` also says, for each step of a handler, which copies are already new and
which still old, what the handler's new configuration may differ in from
the old one, what the file of a process that is not up holds, and that a request past
its first match has a key. Theorems: `ConfigTypeOK`,
`ViewsAlwaysAgree`, `AnswersHold`, and the action properties `RevokedShutOut` and
`UsageRemembered`.

**Limiter.** `LimiterExact` is inductive with the types and one arithmetic fact: after
an idle time of at least one period a refilled bucket is full, whatever it held
(this is where the assumption on the idle time is used). Theorems: `LimiterTypeOK`,
`TableStaysBounded`, `EvictionInvisible`, `VerdictCorrect`.

**Health check.** `LoopInv`: a stream that was not cancelled loses no node of its batch,
is drained when all are dispatched and closed when no worker is left (`StreamsOK`); the
flag `running` is up while a stream is open and at most one is (`OneStream`); a loop's
stream is open only while the loop is at its check, and a Stop that returned has seen it
end (`LoopsOK`). The last part is what makes `StoppedLoopIsQuiet` inductive. Theorems:
`LoopTypeOK`, `StreamComplete`, `StopLeavesNothing`, for any batch, pool, channel and
number of starts.

Only model-checked: the six liveness properties (`ResolveReturns`,
`PolicyIsEnforced`, `CrashedShardRecovers`, `EndedTunnelReturns`, `CheckerFollows`,
`StopReturns`: fairness and ENABLED are beyond the prover) and the two violated properties.

## 5. Not modelled

Parsing (user names, subscription feeds), the environment's variables and the data
directory, hashing, the dashboard and read-only queries, logging and address lookup:
string processing or pure I/O. Fetching a subscription (HTTP, redirects, address checks)
is a free input of the refresh. Login sessions and login throttling: two maps behind
a mutex each, without a step between two locks. Protocol handshakes of the entries and
of upstream proxies. The behaviour of sing-box itself. The manager's Start and Stop, and
the GC goroutine's. Several storage functions have no caller in production code and are
not modelled.

## 6. Plan

Done: the modules above, those on the way of a client's request first, then the
composition of rows and runtime with its abstract runtime, and the background check.
The safety properties of all runs are proved. Next, in this order:

1. An abstract specification of sticky routing (a session has at most one node,
   a node at most its quota) that `SessionRouting` implements, with the proof from
   `QuotaInv` and `RouteInv`.
2. The invariants that the liveness properties rest on (what a waiting request, tunnel
   or Stop is waiting for is held by somebody who can move).
3. The matching algorithm of `replaceSubscriptionProxies` over several rows and swapped
   addresses, checked against a reference definition.
4. The user-name DSL as operators over tokens.
