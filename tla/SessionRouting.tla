--------------------------- MODULE SessionRouting ---------------------------
(***************************************************************************)
(* Sticky session routing of the gateway: the in-memory affinity store     *)
(* (affinity/store.go), the node selector (selector/selector.go) and the   *)
(* retry loop of the HTTP and SOCKS5 entries (proxy/server.go,             *)
(* proxy/socks5_server.go) that calls it.                                  *)
(*                                                                         *)
(* Any number of requests run concurrently.  Every call on the store takes *)
(* the store's own mutex, so it is one atomic step; between two calls of a *)
(* request anything else may happen.  Only firstBindMu (bindLock) spans    *)
(* several steps of a request.                                             *)
(***************************************************************************)
EXTENDS Integers, FiniteSets

CONSTANTS
  Requests,     \* concurrent client requests (goroutines of the entries)
  Sessions,     \* session ids a username may carry
  Nodes,        \* proxy ids
  Regions,      \* region codes, already normalised
  Routes,       \* the parsed usernames clients send
  Settings,     \* values of (MaxSessionsPerProxy, ProxyCooldownMinutes)
  TTLs,         \* values of SessionTTLMinutes
  MaxRetry,     \* config MaxRetry
  MaxTime,      \* bound on the clock
  NoSession, NoRegion, NoNode, NoBinding, NoRequest, Down

VARIABLES
  bindings,     \* session -> Binding
  reverse,      \* node -> the sessions bound to it
  cooldown,     \* node -> first instant a new session may bind (0: no entry)
  ttl,          \* binding lifetime, 0 for none
  now,          \* the store's clock
  bindLock,     \* holder of firstBindMu
  catalog,      \* node -> its region while it is selectable, else Down
  cfg,          \* live settings (config.Get)
  req,          \* request -> its local state
  quietUntil,   \* history: the latest cooldown window promised for a node
  disturbed     \* history: sessions whose node may legitimately have changed

storeVars == <<bindings, reverse, cooldown>>
envVars   == <<ttl, now, catalog, cfg>>
vars      == <<bindings, reverse, cooldown, ttl, now, bindLock, catalog, cfg,
               req, quietUntil, disturbed>>

Binding   == [node : Nodes, region : Regions, last : 0..MaxTime]
Route     == [session : Sessions \cup {NoSession},
              region  : Regions \cup {NoRegion},
              pin     : Nodes \cup {NoNode},
              unlock  : SUBSET Nodes]
Setting   == [max : Nat, cooldown : Nat]
Candidate == [node : Nodes, region : Regions]

Stages == {"idle", "select", "sticky", "lock", "pinned", "recheck", "resticky",
           "release", "query", "occupancy", "cooldown", "bind", "cool", "dial"}

\* Stages in which a request holds firstBindMu.
Critical == {"pinned", "recheck", "resticky", "release", "query", "occupancy",
             "cooldown", "bind", "cool"}

RequestState ==
  [pc      : Stages,
   route   : Route,
   tried   : SUBSET Nodes,             \* excludes
   attempt : 0..(MaxRetry + 1),
   pick    : Nodes \cup {NoNode},      \* the node under examination or in use
   region  : Regions \cup {NoRegion},  \* rebindRegion
   todo    : SUBSET Candidate,         \* candidates still to be filtered
   cand    : SUBSET Candidate,         \* candidates that passed so far
   lim     : Nat,                      \* maxSessions read by this attempt
   cd      : Nat]                      \* cooldownMinutes read by this attempt

NoRoute == [session |-> NoSession, region |-> NoRegion, pin |-> NoNode,
            unlock |-> Nodes]

FreshRequest ==
  [pc |-> "idle", route |-> NoRoute, tried |-> {}, attempt |-> 0,
   pick |-> NoNode, region |-> NoRegion, todo |-> {}, cand |-> {},
   lim |-> 0, cd |-> 0]

ASSUME RoutingAssumption ==
  /\ Routes \subseteq Route
  /\ Settings \subseteq Setting
  /\ Settings # {}
  /\ TTLs \subseteq Nat
  /\ TTLs # {}
  /\ MaxRetry \in Nat
  /\ MaxTime \in Nat
  /\ IsFiniteSet(Sessions)
  /\ NoSession \notin Sessions
  /\ NoRegion \notin Regions
  /\ NoNode \notin Nodes
  /\ NoBinding \notin Binding
  /\ NoRequest \notin Requests
  /\ Down \notin Regions

-----------------------------------------------------------------------------
(* The affinity store.  Each operator below is one critical section of mu. *)

Expired(b) == ttl > 0 /\ now - b.last >= ttl

Bound(s)      == bindings[s] # NoBinding
Holders(n)    == {s \in Sessions : Bound(s) /\ bindings[s].node = n}
ExpiredOf(S)  == {s \in S : Bound(s) /\ Expired(bindings[s])}

\* removeBindingLocked for every session of S: the binding and its reverse
\* entry go together.
RemoveBindings(S) ==
  /\ bindings' = [s \in Sessions |-> IF s \in S THEN NoBinding ELSE bindings[s]]
  /\ reverse' = [n \in Nodes |->
        reverse[n] \ {s \in S : Bound(s) /\ bindings[s].node = n}]

\* What Get returns: an expired binding is absent.
Live(s) ==
  IF Bound(s) /\ ~Expired(bindings[s]) THEN bindings[s] ELSE NoBinding

\* The effect of Get: drop an expired binding, refresh a live one.
Get(s) ==
  IF Live(s) = NoBinding
  THEN RemoveBindings({s})
  ELSE /\ bindings' = [bindings EXCEPT ![s].last = now]
       /\ UNCHANGED reverse

\* Mutant: rebinding forgets the reverse entry of the old node.
SetProxyNoDetach(s, n, g) ==
  /\ bindings' = [bindings EXCEPT ![s] = [node |-> n, region |-> g, last |-> now]]
  /\ reverse' = [reverse EXCEPT ![n] = @ \cup {s}]

\* SetProxy: detach the old reverse entry, write the binding, attach the new.
SetProxy(s, n, g) ==
  /\ bindings' = [bindings EXCEPT ![s] = [node |-> n, region |-> g, last |-> now]]
  /\ reverse' = [m \in Nodes |->
        LET rest == reverse[m] \ (IF Bound(s) /\ bindings[s].node = m
                                  THEN {s} ELSE {})
        IN IF m = n THEN rest \cup {s} ELSE rest]

\* RemoveIfProxyID: delete only a binding that is expired or still on n.
RemoveIfProxyID(s, n) ==
  IF Bound(s) /\ (Expired(bindings[s]) \/ bindings[s].node = n)
  THEN RemoveBindings({s})
  ELSE UNCHANGED <<bindings, reverse>>

\* CountByProxy drops stale reverse entries and expired bindings of n, then
\* counts what is left.
StaleReverse(n)   == {s \in reverse[n] : ~Bound(s) \/ bindings[s].node # n}
CountedExpired(n) == ExpiredOf(reverse[n] \ StaleReverse(n))
CountByProxy(n)   == Cardinality((reverse[n] \ StaleReverse(n)) \ CountedExpired(n))
\* Mutant: expired bindings are dropped, their reverse entries are not.
PruneProxyHalf(n) ==
  /\ bindings' = [s \in Sessions |->
        IF s \in CountedExpired(n) THEN NoBinding ELSE bindings[s]]
  /\ reverse' = [reverse EXCEPT ![n] = @ \ StaleReverse(n)]
PruneProxy(n) ==
  /\ bindings' = [s \in Sessions |->
        IF s \in CountedExpired(n) THEN NoBinding ELSE bindings[s]]
  /\ reverse' = [reverse EXCEPT ![n] = (@ \ StaleReverse(n)) \ CountedExpired(n)]

\* InCooldown deletes the entry once its window is over.
\* Mutant: the window closes one unit early.
InCooldownShort(n) == now + 1 < cooldown[n]
InCooldown(n)   == now < cooldown[n]
PruneCooldown(n) ==
  cooldown' = IF InCooldown(n) THEN cooldown ELSE [cooldown EXCEPT ![n] = 0]

-----------------------------------------------------------------------------
(* Requests.                                                               *)

Step(q, r) == req' = [req EXCEPT ![q] = r]
\* The client gets its response or error and the request is over.
Answer(q) == Step(q, FreshRequest)
InFlight(q) == req[q].pc # "idle"

RegionMismatch(have, want) == want # NoRegion /\ have # want

\* The unlock filter of a route is the set of nodes whose probes meet it.
ProxyMatchesUnlock(n, rt) == n \in rt.unlock

\* The nodes a database lookup restricted to region g returns for route rt:
\* selectable, not excluded, in the region, satisfying the unlock filter.
\* Mutant: the excluded nodes are not filtered out.
GetByRegionNoExcludes(g, excludes, rt) ==
  {n \in Nodes : catalog[n] # Down /\ ~RegionMismatch(catalog[n], g) /\ ProxyMatchesUnlock(n, rt)}
GetByRegion(g, excludes, rt) ==
  {n \in Nodes : /\ catalog[n] # Down
                 /\ ~RegionMismatch(catalog[n], g)
                 /\ n \notin excludes
                 /\ ProxyMatchesUnlock(n, rt)}

\* A client request with route rt reaches the retry loop of an entry.  The
\* history of the session restarts when it is the only one in flight, and two
\* concurrent requests of one session that ask for different routes disturb
\* each other.
Arrive(q, rt) ==
  LET peers == {o \in Requests \ {q} : InFlight(o)
                                       /\ req[o].route.session = rt.session}
      own   == {rt.session} \cap Sessions
  IN /\ ~InFlight(q)
     /\ Step(q, [FreshRequest EXCEPT !.pc = "select", !.route = rt])
     /\ disturbed' = IF peers = {} THEN disturbed \ own
                     ELSE IF \E o \in peers : req[o].route # rt
                          THEN disturbed \cup own
                          ELSE disturbed
     /\ UNCHANGED <<storeVars, envVars, bindLock, quietUntil>>

\* The retry loop runs out of attempts.
Exhausted(q) ==
  /\ req[q].pc = "select"
  /\ req[q].attempt > MaxRetry
  /\ Answer(q)
  /\ UNCHANGED <<storeVars, envVars, bindLock, quietUntil, disturbed>>

Selecting(q) == req[q].pc = "select" /\ req[q].attempt <= MaxRetry

\* Resolve with a node pin: the pinned node must itself be eligible.  With a
\* session the request goes on to record a binding under the first-bind lock.
ResolvePinnedNode(q) ==
  LET r == req[q]
      n == r.route.pin
  IN /\ Selecting(q)
     /\ n # NoNode
     /\ IF n \notin GetByRegion(r.route.region, r.tried, r.route)
        THEN Answer(q)
        ELSE Step(q, [r EXCEPT !.pick = n,
                               !.cand = {[node |-> n, region |-> catalog[n]]},
                               !.pc = IF r.route.session = NoSession
                                      THEN "dial" ELSE "lock"])
     /\ UNCHANGED <<storeVars, envVars, bindLock, quietUntil, disturbed>>

\* Resolve without a session: any eligible node of the region (the choice by
\* latency is left open).
PickUnlock(q) ==
  LET r == req[q]
      eligible == GetByRegion(r.route.region, r.tried, r.route)
  IN /\ Selecting(q)
     /\ r.route.pin = NoNode
     /\ r.route.session = NoSession
     /\ \/ eligible = {} /\ Answer(q)
        \/ \E n \in eligible : Step(q, [r EXCEPT !.pick = n, !.pc = "dial"])
     /\ UNCHANGED <<storeVars, envVars, bindLock, quietUntil, disturbed>>

\* stickyBoundProxy, first half: read (and refresh) the binding and test what
\* the binding alone tells.
StickyGet(q, found, missed) ==
  LET r == req[q]
      b == Live(r.route.session)
  IN /\ Get(r.route.session)
     /\ IF /\ b # NoBinding
           /\ b.node \notin r.tried
           /\ ~RegionMismatch(b.region, r.route.region)
        THEN Step(q, [r EXCEPT !.pick = b.node, !.pc = found])
        ELSE Step(q, [r EXCEPT !.pc = missed])
     /\ UNCHANGED <<cooldown, envVars, bindLock, quietUntil, disturbed>>

\* stickyBoundProxy, second half: look the bound node up in the database.
StickyLookup(q) ==
  req[q].pick \in GetByRegion(req[q].route.region, req[q].tried, req[q].route)

\* The fast path, without the first-bind lock.
StickyFastGet(q) ==
  /\ Selecting(q)
  /\ req[q].route.pin = NoNode
  /\ req[q].route.session # NoSession
  /\ StickyGet(q, "sticky", "lock")

StickyFastLookup(q) ==
  /\ req[q].pc = "sticky"
  /\ Step(q, [req[q] EXCEPT !.pc = IF StickyLookup(q) THEN "dial" ELSE "lock"])
  /\ UNCHANGED <<storeVars, envVars, bindLock, quietUntil, disturbed>>

BeginFirstBind(q) ==
  /\ req[q].pc = "lock"
  /\ bindLock = NoRequest
  /\ bindLock' = q
  /\ Step(q, [req[q] EXCEPT !.pc = IF req[q].route.pin = NoNode
                                   THEN "recheck" ELSE "pinned"])
  /\ UNCHANGED <<storeVars, envVars, quietUntil, disturbed>>

\* A pinned request under the lock: a session already on the pinned node is a
\* sticky re-entry, otherwise the pinned node is the only candidate.
PinnedGet(q) ==
  LET r == req[q]
      b == Live(r.route.session)
  IN /\ r.pc = "pinned"
     /\ Get(r.route.session)
     /\ IF b # NoBinding /\ b.node = r.pick
        THEN /\ Step(q, [r EXCEPT !.pc = "dial", !.cand = {}])
             /\ bindLock' = NoRequest
        ELSE /\ Step(q, [r EXCEPT !.pc = "occupancy", !.todo = r.cand,
                                  !.cand = {}, !.lim = cfg.max])
             /\ UNCHANGED bindLock
     /\ UNCHANGED <<cooldown, envVars, quietUntil, disturbed>>

\* Mutant: the holder of the lock trusts the test it made before taking it.
StickyRecheckSkipped(q) ==
  /\ req[q].pc = "recheck"
  /\ Step(q, [req[q] EXCEPT !.pc = "release"])
  /\ UNCHANGED <<storeVars, envVars, bindLock, quietUntil, disturbed>>

\* The sticky test repeated under the lock.
StickyRecheckGet(q) ==
  /\ req[q].pc = "recheck"
  /\ StickyGet(q, "resticky", "release")

StickyRecheckLookup(q) ==
  /\ req[q].pc = "resticky"
  /\ IF StickyLookup(q)
     THEN Step(q, [req[q] EXCEPT !.pc = "dial"]) /\ bindLock' = NoRequest
     ELSE Step(q, [req[q] EXCEPT !.pc = "release"]) /\ UNCHANGED bindLock
  /\ UNCHANGED <<storeVars, envVars, quietUntil, disturbed>>

\* releaseStaleBinding: a live binding that was not sticky is removed, and its
\* region is kept when the request names none.
ReleaseStaleBinding(q) ==
  LET r == req[q]
      b == Live(r.route.session)
  IN /\ r.pc = "release"
     /\ RemoveBindings({r.route.session})
     /\ Step(q, [r EXCEPT !.pc = "query", !.lim = cfg.max,
                          !.region = IF r.route.region = NoRegion /\ b # NoBinding
                                     THEN b.region ELSE r.route.region])
     /\ UNCHANGED <<cooldown, envVars, bindLock, quietUntil, disturbed>>

\* pickForSession up to the first filter: the candidates of the region, as
\* the database holds them at this instant.
PickForSession(q) ==
  LET r == req[q]
      found == {[node |-> n, region |-> catalog[n]] :
                   n \in GetByRegion(r.region, r.tried, r.route)}
  IN /\ r.pc = "query"
     /\ IF found = {}
        THEN Answer(q) /\ bindLock' = NoRequest
        ELSE /\ Step(q, [r EXCEPT !.pc = "occupancy", !.todo = found,
                                  !.cand = {}, !.cd = cfg.cooldown])
             /\ UNCHANGED bindLock
     /\ UNCHANGED <<storeVars, envVars, quietUntil, disturbed>>

\* Mutant: a full node still passes.
FilterByOccupancyOffByOne(q, c) ==
  LET r == req[q]
  IN /\ r.pc = "occupancy"
     /\ c \in r.todo
     /\ IF r.lim > 0 THEN PruneProxy(c.node) ELSE UNCHANGED <<bindings, reverse>>
     /\ Step(q, [r EXCEPT !.todo = @ \ {c},
                          !.cand = IF r.lim > 0 /\ CountByProxy(c.node) > r.lim
                                   THEN @ ELSE @ \cup {c}])
     /\ UNCHANGED <<cooldown, envVars, bindLock, quietUntil, disturbed>>

\* filterByOccupancy, one candidate: keep it while fewer than lim sessions are
\* bound to it.  A limit of 0 keeps every candidate without counting.
FilterByOccupancy(q, c) ==
  LET r == req[q]
  IN /\ r.pc = "occupancy"
     /\ c \in r.todo
     /\ IF r.lim > 0 THEN PruneProxy(c.node) ELSE UNCHANGED <<bindings, reverse>>
     /\ Step(q, [r EXCEPT !.todo = @ \ {c},
                          !.cand = IF r.lim > 0 /\ CountByProxy(c.node) >= r.lim
                                   THEN @ ELSE @ \cup {c}])
     /\ UNCHANGED <<cooldown, envVars, bindLock, quietUntil, disturbed>>

\* All candidates counted: fail with a capacity error, or go on to the
\* cooldown filter (a pinned request reads the cooldown setting only now).
OccupancyDone(q) ==
  LET r == req[q]
      minutes == IF r.route.pin = NoNode THEN r.cd ELSE cfg.cooldown
  IN /\ r.pc = "occupancy"
     /\ r.todo = {}
     /\ IF r.cand = {}
        THEN Answer(q) /\ bindLock' = NoRequest
        ELSE /\ Step(q, [r EXCEPT !.cd = minutes,
                                  !.todo = IF minutes > 0 THEN r.cand ELSE {},
                                  !.cand = IF minutes > 0 THEN {} ELSE @,
                                  !.pc = IF minutes > 0 THEN "cooldown" ELSE "bind"])
             /\ UNCHANGED bindLock
     /\ UNCHANGED <<storeVars, envVars, quietUntil, disturbed>>

\* filterByCooldown, one candidate.
FilterByCooldown(q, c) ==
  LET r == req[q]
  IN /\ r.pc = "cooldown"
     /\ c \in r.todo
     /\ PruneCooldown(c.node)
     /\ Step(q, [r EXCEPT !.todo = @ \ {c},
                          !.cand = IF InCooldown(c.node) THEN @ ELSE @ \cup {c}])
     /\ UNCHANGED <<bindings, reverse, envVars, bindLock, quietUntil, disturbed>>

\* Mutant: the cooldown error returns without EndFirstBind.
CooldownDoneKeepsLock(q) ==
  /\ req[q].pc = "cooldown"
  /\ req[q].todo = {}
  /\ IF req[q].cand = {} THEN Answer(q) ELSE Step(q, [req[q] EXCEPT !.pc = "bind"])
  /\ UNCHANGED <<storeVars, envVars, bindLock, quietUntil, disturbed>>

\* Mutant of CooldownDone: a request without a candidate tries again.
CooldownDoneWaits(q) ==
  LET r == req[q]
  IN /\ r.pc = "cooldown"
     /\ r.todo = {}
     /\ IF r.cand = {}
        THEN Step(q, [r EXCEPT !.pc = "lock"]) /\ bindLock' = NoRequest
        ELSE Step(q, [r EXCEPT !.pc = "bind"]) /\ UNCHANGED bindLock
     /\ UNCHANGED <<storeVars, envVars, quietUntil, disturbed>>
CooldownDone(q) ==
  LET r == req[q]
  IN /\ r.pc = "cooldown"
     /\ r.todo = {}
     /\ IF r.cand = {}
        THEN Answer(q) /\ bindLock' = NoRequest
        ELSE Step(q, [r EXCEPT !.pc = "bind"]) /\ UNCHANGED bindLock
     /\ UNCHANGED <<storeVars, envVars, quietUntil, disturbed>>

\* The candidates that may have the highest weighted rendezvous score for a
\* session: latency, reliability and load are not modelled, so any of them.
PickSessionCandidate(proxies) == proxies

\* Mutant of BindSession: the region is read again when the binding is written,
\* when the node may be gone.
BindSessionRereads(q, c) ==
  LET r == req[q]
  IN /\ r.pc = "bind"
     /\ c \in PickSessionCandidate(r.cand)
     /\ SetProxy(r.route.session, c.node, catalog[c.node])
     /\ Step(q, [r EXCEPT !.pick = c.node, !.cand = {},
                          !.pc = IF r.cd > 0 THEN "cool" ELSE "dial"])
     /\ bindLock' = IF r.cd > 0 THEN bindLock ELSE NoRequest
     /\ UNCHANGED <<cooldown, envVars, quietUntil, disturbed>>

\* The chosen candidate is written to the store.  The lock is kept if a cooldown
\* has to follow.
BindSession(q, c) ==
  LET r == req[q]
  IN /\ r.pc = "bind"
     /\ c \in PickSessionCandidate(r.cand)
     /\ SetProxy(r.route.session, c.node, c.region)
     /\ Step(q, [r EXCEPT !.pick = c.node, !.cand = {},
                          !.pc = IF r.cd > 0 THEN "cool" ELSE "dial"])
     /\ bindLock' = IF r.cd > 0 THEN bindLock ELSE NoRequest
     /\ UNCHANGED <<cooldown, envVars, quietUntil, disturbed>>

\* SetCooldown after a first bind, then EndFirstBind.
SetCooldown(q) ==
  LET r == req[q]
  IN /\ r.pc = "cool"
     /\ cooldown' = [cooldown EXCEPT ![r.pick] = now + r.cd]
     /\ quietUntil' = [quietUntil EXCEPT ![r.pick] = now + r.cd]
     /\ Step(q, [r EXCEPT !.pc = "dial"])
     /\ bindLock' = NoRequest
     /\ UNCHANGED <<bindings, reverse, envVars, disturbed>>

\* releaseFailedBinding: the session loses its binding only while that still
\* points at the node this request used.
ReleaseFailedBinding(q) ==
  LET s == req[q].route.session
  IN IF s = NoSession
     THEN UNCHANGED <<bindings, reverse, disturbed>>
     ELSE RemoveIfProxyID(s, req[q].pick) /\ disturbed' = disturbed \cup {s}

\* Dialling or forwarding failed and the request may try another node.
RetryAfterFailure(q) ==
  LET r == req[q]
  IN /\ r.pc = "dial"
     /\ ReleaseFailedBinding(q)
     /\ Step(q, [FreshRequest EXCEPT !.pc = "select", !.route = r.route,
                   !.tried = r.tried \cup {r.pick}, !.attempt = r.attempt + 1])
     /\ UNCHANGED <<cooldown, envVars, bindLock, quietUntil>>

\* The node failed and nothing can be retried: a body that cannot be replayed,
\* a response broken half way, a tunnel that delivered no byte.
FailWithoutRetry(q) ==
  /\ req[q].pc = "dial"
  /\ ReleaseFailedBinding(q)
  /\ Answer(q)
  /\ UNCHANGED <<cooldown, envVars, bindLock, quietUntil>>

\* Served, or given up because the client went away: the binding stays.
Served(q) ==
  /\ req[q].pc = "dial"
  /\ Answer(q)
  /\ UNCHANGED <<storeVars, envVars, bindLock, quietUntil, disturbed>>

-----------------------------------------------------------------------------
(* The rest of the process.                                                *)

\* collectExpired: one pass of the GC goroutine over bindings and cooldowns.
CollectExpired ==
  /\ RemoveBindings(ExpiredOf(Sessions))
  /\ cooldown' = [n \in Nodes |-> IF InCooldown(n) THEN cooldown[n] ELSE 0]
  /\ UNCHANGED <<envVars, bindLock, req, quietUntil, disturbed>>

\* Health checks, probes, refreshes and the administrator change what is
\* selectable and where a node exits.
CatalogChanges(n, v) ==
  /\ v # catalog[n]
  /\ catalog' = [catalog EXCEPT ![n] = v]
  /\ disturbed' = Sessions
  /\ UNCHANGED <<storeVars, ttl, now, cfg, bindLock, req, quietUntil>>

\* Saving the settings page.
Reconfigure(c) ==
  /\ c # cfg
  /\ cfg' = c
  /\ UNCHANGED <<storeVars, ttl, now, catalog, bindLock, req, quietUntil, disturbed>>

\* SetTTL; a binding that the new lifetime makes expired counts as disturbed.
SetTTL(t) ==
  /\ t # ttl
  /\ ttl' = t
  /\ disturbed' = disturbed \cup
        {s \in Sessions : Bound(s) /\ t > 0 /\ now - bindings[s].last >= t}
  /\ UNCHANGED <<storeVars, now, catalog, cfg, bindLock, req, quietUntil>>

Tick ==
  /\ now < MaxTime
  /\ now' = now + 1
  /\ disturbed' = disturbed \cup
        {s \in Sessions : Bound(s) /\ ttl > 0 /\ now + 1 - bindings[s].last >= ttl}
  /\ UNCHANGED <<storeVars, ttl, catalog, cfg, bindLock, req, quietUntil>>

Init ==
  /\ bindings = [s \in Sessions |-> NoBinding]
  /\ reverse = [n \in Nodes |-> {}]
  /\ cooldown = [n \in Nodes |-> 0]
  /\ ttl \in TTLs
  /\ now = 0
  /\ bindLock = NoRequest
  /\ catalog \in [Nodes -> Regions]
  /\ cfg \in Settings
  /\ req = [q \in Requests |-> FreshRequest]
  /\ quietUntil = [n \in Nodes |-> 0]
  /\ disturbed = {}

\* The steps of a request that lead from its arrival to a node or an error,
\* other than taking the lock.
Resolving(q) ==
  \/ Exhausted(q) \/ ResolvePinnedNode(q) \/ PickUnlock(q)
  \/ StickyFastGet(q) \/ StickyFastLookup(q)
  \/ PinnedGet(q) \/ StickyRecheckGet(q) \/ StickyRecheckLookup(q)
  \/ ReleaseStaleBinding(q) \/ PickForSession(q)
  \/ \E c \in req[q].todo : FilterByOccupancy(q, c) \/ FilterByCooldown(q, c)
  \/ OccupancyDone(q) \/ CooldownDone(q)
  \/ \E c \in req[q].cand : BindSession(q, c)
  \/ SetCooldown(q)

Forwarding(q) == RetryAfterFailure(q) \/ FailWithoutRetry(q) \/ Served(q)

Environment ==
  \/ CollectExpired
  \/ \E n \in Nodes, v \in Regions \cup {Down} : CatalogChanges(n, v)
  \/ \E c \in Settings : Reconfigure(c)
  \/ \E t \in TTLs : SetTTL(t)
  \/ Tick

Next ==
  \/ \E q \in Requests :
       \/ \E rt \in Routes : Arrive(q, rt)
       \/ Resolving(q)
       \/ BeginFirstBind(q)
       \/ Forwarding(q)
  \/ Environment

Spec == Init /\ [][Next]_vars

\* Goroutines inside Resolve keep running, and Go's sync.Mutex hands itself to
\* a waiter that starves, hence strong fairness on taking the lock.  Nothing is
\* assumed of clients, upstream nodes, the clock or the administrator.
FairSpec ==
  /\ Spec
  /\ \A q \in Requests : WF_vars(Resolving(q)) /\ SF_vars(BeginFirstBind(q))

-----------------------------------------------------------------------------
(* Properties.                                                             *)

\* Every variable keeps its type; in particular the store's clock and the
\* attempt counter stay in range.
TypeOK ==
  /\ bindings \in [Sessions -> Binding \cup {NoBinding}]
  /\ reverse \in [Nodes -> SUBSET Sessions]
  /\ cooldown \in [Nodes -> Nat]
  /\ ttl \in Nat
  /\ now \in 0..MaxTime
  /\ bindLock \in Requests \cup {NoRequest}
  /\ catalog \in [Nodes -> Regions \cup {Down}]
  /\ cfg \in Setting
  /\ req \in [Requests -> RequestState]
  /\ quietUntil \in [Nodes -> Nat]
  /\ disturbed \in SUBSET Sessions

\* The reverse index is the exact inverse of the bindings, however Get, GC,
\* CountByProxy, rebinding and failure releases interleave: an entry too many
\* would make a node look full for ever, one too few would overbook it.
ReverseIndexExact == \A n \in Nodes : reverse[n] = Holders(n)

\* firstBindMu is held exactly by the request inside the check-then-write part
\* of Resolve; every early return of that part gives it back.
FirstBindExclusive ==
  \A q \in Requests : req[q].pc \in Critical <=> bindLock = q

\* Session quota: a node gains a session only by a request that holds the
\* first-bind lock, and then never beyond the limit that request read, although
\* the count and the write are separate calls on the store.
BindWithinLimit ==
  [][\A n \in Nodes :
       Holders(n)' \subseteq Holders(n)
       \/ \E q \in Requests :
            /\ bindLock = q
            /\ req[q].lim > 0 => Cardinality(Holders(n)') <= req[q].lim]_vars

\* Cooldown: while cooldowns are switched on for the request that binds, a node
\* gains a session only after the latest window promised for it is over, even
\* though entries are pruned lazily by readers and by the GC.
CooldownHonoured ==
  [][\A n \in Nodes :
       \/ Holders(n)' \subseteq Holders(n)
       \/ now >= quietUntil[n]
       \/ \E q \in Requests : bindLock = q /\ req[q].cd = 0]_vars

\* Two requests of one session that are in use at the same time go to the same
\* node, the one the session is bound to, unless something disturbed the
\* session meanwhile: a node changed, a request failed, the binding expired or
\* the requests asked for different routes.  A session with a node pin is bound
\* as any other and takes a place of its node's quota (selector.go:85), although
\* README.md:151 says that no sticky binding is created for it.
SessionAgreement ==
  \A q \in Requests :
    LET s == req[q].route.session
    IN req[q].pc = "dial" /\ s \in Sessions \ disturbed
         => Bound(s) /\ bindings[s].node = req[q].pick

\* A retry never goes back to a node that already failed this request, not even
\* through the session's own binding.
NoNodeTriedTwice ==
  \A q \in Requests : req[q].pc = "dial" => req[q].pick \notin req[q].tried

\* A request inside Resolve always gets a node or an error: nobody keeps the
\* first-bind lock and nobody waits for it for ever.
ResolveReturns ==
  \A q \in Requests : (InFlight(q) /\ req[q].pc # "dial")
                         ~> (req[q].pc \in {"dial", "idle"})
=============================================================================
