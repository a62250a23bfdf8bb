------------------------ MODULE SessionRoutingProofs ------------------------
(* Proofs about SessionRouting for every number of requests, sessions, nodes *)
(* and every setting: types and the store's two indices, then the quota of a *)
(* node, then the requests of one session that agree on a node.              *)
EXTENDS SessionRouting, FiniteSetTheorems, TLAPS

\* What each stage of a request guarantees about its local state r.
Shaped(r) ==
  /\ r.pc \notin {"idle", "select"} => r.attempt <= MaxRetry
  /\ r.pc \in Critical \cup {"lock", "sticky"} => r.route.session \in Sessions
  /\ r.pc \in {"sticky", "pinned", "resticky", "cool", "dial"} => r.pick \in Nodes
  /\ r.pc = "lock" => r.route.pin = NoNode \/ r.pick \in Nodes

RequestShape == \A q \in Requests : Shaped(req[q])

-----------------------------------------------------------------------------
(* The store's operations keep its type.                                   *)

StoreOK ==
  /\ bindings \in [Sessions -> Binding \cup {NoBinding}]
  /\ reverse \in [Nodes -> SUBSET Sessions]

\* The live binding of a session is its binding, if any.
LEMMA LiveType ==
  ASSUME TypeOK, NEW s \in Sessions
  PROVE  /\ Live(s) \in Binding \cup {NoBinding}
         /\ Live(s) # NoBinding => Live(s) = bindings[s]
BY DEF TypeOK, Live, Bound

\* Get keeps the type of the store.
LEMMA GetType ==
  ASSUME TypeOK, NEW s \in Sessions, Get(s)
  PROVE  StoreOK'
<1>1. CASE Live(s) = NoBinding
  BY <1>1 DEF TypeOK, StoreOK, Get, RemoveBindings
<1>2. CASE Live(s) # NoBinding
  <2>1. bindings[s] \in Binding
    BY <1>2, LiveType
  <2>2. [bindings[s] EXCEPT !.last = now] \in Binding
    BY <2>1 DEF TypeOK, Binding
  <2>3. /\ bindings' = [bindings EXCEPT ![s] = [bindings[s] EXCEPT !.last = now]]
        /\ reverse' = reverse
    BY <1>2 DEF Get, TypeOK
  <2> QED BY <2>2, <2>3 DEF TypeOK, StoreOK
<1> QED BY <1>1, <1>2

\* Removing bindings keeps the type of the store.
LEMMA RemoveType ==
  ASSUME TypeOK, NEW S, RemoveBindings(S)
  PROVE  StoreOK'
BY DEF TypeOK, StoreOK, RemoveBindings

-----------------------------------------------------------------------------
(* Steps of one request.                                                   *)

\* A fresh request is well formed.
LEMMA FreshRequestType == FreshRequest \in RequestState /\ Shaped(FreshRequest)
BY RoutingAssumption
DEF FreshRequest, RequestState, NoRoute, Route, Stages, Shaped, Critical

\* Every request is well formed.
LEMMA RequestFields ==
  ASSUME TypeOK, RequestShape, NEW q \in Requests
  PROVE  req[q] \in RequestState /\ Shaped(req[q])
BY DEF TypeOK, RequestShape

\* A step to a well-formed state keeps the requests well formed.
LEMMA StepTyped ==
  ASSUME TypeOK, RequestShape, NEW q \in Requests, NEW r \in RequestState,
         Step(q, r), Shaped(r)
  PROVE  req' \in [Requests -> RequestState] /\ RequestShape'
BY DEF TypeOK, Step, RequestShape

\* An answered request is fresh again.
LEMMA AnswerTyped ==
  ASSUME TypeOK, RequestShape, NEW q \in Requests, Answer(q)
  PROVE  req' \in [Requests -> RequestState] /\ RequestShape'
BY FreshRequestType, StepTyped DEF Answer

\* Everything but the store and the requests.
LEMMA TypeFromParts ==
  ASSUME TypeOK, StoreOK', req' \in [Requests -> RequestState],
         cooldown' \in [Nodes -> Nat], bindLock' \in Requests \cup {NoRequest},
         quietUntil' \in [Nodes -> Nat], disturbed' \in SUBSET Sessions,
         UNCHANGED envVars
  PROVE  TypeOK'
BY DEF TypeOK, StoreOK, envVars

\* Arrive keeps the types.
LEMMA ArriveTyped ==
  ASSUME TypeOK, RequestShape, NEW q \in Requests, NEW rt \in Routes, Arrive(q, rt)
  PROVE  TypeOK' /\ RequestShape'
<1> DEFINE r == [FreshRequest EXCEPT !.pc = "select", !.route = rt]
<1>1. r \in RequestState /\ r.pc = "select"
  BY RoutingAssumption, FreshRequestType DEF RequestState, FreshRequest, Stages
<1>2. Step(q, r)
  BY DEF Arrive
<1> HIDE DEF r
<1>3. Shaped(r)
  BY <1>1 DEF Shaped, Critical
<1>4. req' \in [Requests -> RequestState] /\ RequestShape'
  BY <1>1, <1>2, <1>3, StepTyped
<1> QED BY <1>4 DEF Arrive, TypeOK, storeVars, envVars

\* Exhausted keeps the types.
LEMMA ExhaustedTyped ==
  ASSUME TypeOK, RequestShape, NEW q \in Requests, Exhausted(q)
  PROVE  TypeOK' /\ RequestShape'
BY AnswerTyped DEF Exhausted, TypeOK, storeVars, envVars

\* ResolvePinned keeps the types.
LEMMA ResolvePinnedTyped ==
  ASSUME TypeOK, RequestShape, NEW q \in Requests, ResolvePinnedNode(q)
  PROVE  TypeOK' /\ RequestShape'
<1> DEFINE n == req[q].route.pin
           t == IF req[q].route.session = NoSession THEN "dial" ELSE "lock"
           c == {[node |-> n, region |-> catalog[n]]}
           r == [req[q] EXCEPT !.pick = n, !.cand = c, !.pc = t]
<1>1. CASE n \notin GetByRegion(req[q].route.region, req[q].tried, req[q].route)
  BY <1>1, AnswerTyped DEF ResolvePinnedNode, TypeOK, storeVars, envVars
<1>2. CASE n \in GetByRegion(req[q].route.region, req[q].tried, req[q].route)
  <2>1. Step(q, r) /\ req[q].attempt <= MaxRetry
    BY <1>2 DEF ResolvePinnedNode, Selecting
  <2>2. n \in Nodes /\ c \in SUBSET Candidate
    BY <1>2 DEF GetByRegion, TypeOK, Candidate
  <2>3. t \in {"dial", "lock"} /\ (t = "lock" => req[q].route.session \in Sessions)
    BY RequestFields DEF RequestState, Route
  <2> HIDE DEF n, t, c
  <2>4. r \in RequestState
    BY <2>2, <2>3, RequestFields DEF RequestState, Stages
  <2>5. Shaped(r)
    BY <2>1, <2>2, <2>3, RequestFields DEF Shaped, RequestState, Critical
  <2> HIDE DEF r
  <2>6. req' \in [Requests -> RequestState] /\ RequestShape'
    BY <2>1, <2>4, <2>5, StepTyped
  <2> QED BY <2>6 DEF ResolvePinnedNode, TypeOK, storeVars, envVars
<1> QED BY <1>1, <1>2

\* PickUnlock keeps the types.
LEMMA PickUnlockTyped ==
  ASSUME TypeOK, RequestShape, NEW q \in Requests, PickUnlock(q)
  PROVE  TypeOK' /\ RequestShape'
<1>1. CASE Answer(q)
  BY <1>1, AnswerTyped DEF PickUnlock, TypeOK, storeVars, envVars
<1>2. CASE ~Answer(q)
  <2>1. PICK n \in Nodes : Step(q, [req[q] EXCEPT !.pick = n, !.pc = "dial"])
    BY <1>2 DEF PickUnlock, GetByRegion
  <2> DEFINE r == [req[q] EXCEPT !.pick = n, !.pc = "dial"]
  <2>2. r \in RequestState
    BY RequestFields DEF RequestState, Stages
  <2>3. Shaped(r)
    BY RequestFields DEF Shaped, RequestState, Critical, PickUnlock, Selecting
  <2> HIDE DEF r
  <2>4. req' \in [Requests -> RequestState] /\ RequestShape'
    BY <2>1, <2>2, <2>3, StepTyped DEF r
  <2> QED BY <2>4 DEF PickUnlock, TypeOK, storeVars, envVars
<1> QED BY <1>1, <1>2

\* Both halves of stickyBoundProxy, for any stages found and missed that need a
\* session.
LEMMA StickyGetTyped ==
  ASSUME TypeOK, RequestShape, NEW q \in Requests,
         NEW found \in {"sticky", "resticky"}, NEW missed \in {"lock", "release"},
         req[q].attempt <= MaxRetry, req[q].route.session \in Sessions,
         missed = "lock" => req[q].route.pin = NoNode,
         StickyGet(q, found, missed)
  PROVE  TypeOK' /\ RequestShape'
<1> DEFINE b == Live(req[q].route.session)
           r1 == [req[q] EXCEPT !.pick = b.node, !.pc = found]
           r2 == [req[q] EXCEPT !.pc = missed]
           hit == /\ b # NoBinding
                  /\ b.node \notin req[q].tried
                  /\ ~RegionMismatch(b.region, req[q].route.region)
<1>1. Get(req[q].route.session) /\ IF hit THEN Step(q, r1) ELSE Step(q, r2)
  BY DEF StickyGet
<1>2. StoreOK'
  BY <1>1, GetType
<1>3. b # NoBinding => b.node \in Nodes
  BY LiveType DEF Binding
<1> HIDE DEF b
<1>4. b # NoBinding => r1 \in RequestState /\ Shaped(r1)
  BY <1>3, RequestFields DEF RequestState, Stages, Shaped, Critical
<1>5. r2 \in RequestState /\ Shaped(r2)
  BY RequestFields DEF RequestState, Stages, Shaped, Critical
<1> HIDE DEF r1, r2
<1>6. CASE hit
  <2>1. req' \in [Requests -> RequestState] /\ RequestShape'
    BY <1>1, <1>4, <1>6, StepTyped
  <2> QED BY <1>2, <2>1, TypeFromParts DEF StickyGet, TypeOK, envVars
<1>7. CASE ~hit
  <2>1. req' \in [Requests -> RequestState] /\ RequestShape'
    BY <1>1, <1>5, <1>7, StepTyped
  <2> QED BY <1>2, <2>1, TypeFromParts DEF StickyGet, TypeOK, envVars
<1> QED BY <1>6, <1>7

\* StickyFastGet keeps the types.
LEMMA StickyFastGetTyped ==
  ASSUME TypeOK, RequestShape, NEW q \in Requests, StickyFastGet(q)
  PROVE  TypeOK' /\ RequestShape'
<1>1. req[q].route.session \in Sessions /\ req[q].attempt <= MaxRetry
  BY RequestFields DEF StickyFastGet, Selecting, RequestState, Route
<1> QED BY <1>1, StickyGetTyped DEF StickyFastGet

\* StickyRecheckGet keeps the types.
LEMMA StickyRecheckGetTyped ==
  ASSUME TypeOK, RequestShape, NEW q \in Requests, StickyRecheckGet(q)
  PROVE  TypeOK' /\ RequestShape'
<1>1. req[q].route.session \in Sessions /\ req[q].attempt <= MaxRetry
  BY RequestFields DEF StickyRecheckGet, Shaped, Critical
<1> QED BY <1>1, StickyGetTyped DEF StickyRecheckGet

\* A step that only moves q to another stage.
LEMMA GotoTyped ==
  ASSUME TypeOK, RequestShape, NEW q \in Requests, NEW t \in Stages,
         Step(q, [req[q] EXCEPT !.pc = t]), req[q].attempt <= MaxRetry,
         t \in Critical \cup {"lock", "sticky"} => req[q].route.session \in Sessions,
         t \in {"sticky", "pinned", "resticky", "cool", "dial"} => req[q].pick \in Nodes,
         t = "lock" => req[q].route.pin = NoNode \/ req[q].pick \in Nodes
  PROVE  req' \in [Requests -> RequestState] /\ RequestShape'
<1> DEFINE r == [req[q] EXCEPT !.pc = t]
<1>1. r \in RequestState /\ Shaped(r)
  BY RequestFields DEF RequestState, Shaped
<1> HIDE DEF r
<1> QED BY <1>1, StepTyped DEF r

\* StickyFastLookup keeps the types.
LEMMA StickyFastLookupTyped ==
  ASSUME TypeOK, RequestShape, NEW q \in Requests, StickyFastLookup(q)
  PROVE  TypeOK' /\ RequestShape'
<1> DEFINE t == IF StickyLookup(q) THEN "dial" ELSE "lock"
<1>1. t \in {"dial", "lock"}
  OBVIOUS
<1> HIDE DEF t
<1>2. req' \in [Requests -> RequestState] /\ RequestShape'
  BY <1>1, RequestFields, GotoTyped DEF StickyFastLookup, Shaped, Stages, t
<1> QED BY <1>2 DEF StickyFastLookup, TypeOK, storeVars, envVars

\* BeginFirstBind keeps the types.
LEMMA BeginFirstBindTyped ==
  ASSUME TypeOK, RequestShape, NEW q \in Requests, BeginFirstBind(q)
  PROVE  TypeOK' /\ RequestShape'
<1> DEFINE t == IF req[q].route.pin = NoNode THEN "recheck" ELSE "pinned"
<1>1. t \in {"recheck", "pinned"} /\ (t = "pinned" => req[q].pick \in Nodes)
  BY RequestFields DEF BeginFirstBind, Shaped
<1> HIDE DEF t
<1>2. req' \in [Requests -> RequestState] /\ RequestShape'
  BY <1>1, RequestFields, GotoTyped DEF BeginFirstBind, Shaped, Stages, t
<1> QED BY <1>2 DEF BeginFirstBind, TypeOK, storeVars, envVars

\* StickyRecheckLookup keeps the types.
LEMMA StickyRecheckLookupTyped ==
  ASSUME TypeOK, RequestShape, NEW q \in Requests, StickyRecheckLookup(q)
  PROVE  TypeOK' /\ RequestShape'
<1>1. PICK t \in {"dial", "release"} : Step(q, [req[q] EXCEPT !.pc = t])
  BY DEF StickyRecheckLookup
<1>2. req' \in [Requests -> RequestState] /\ RequestShape'
  BY <1>1, RequestFields, GotoTyped DEF StickyRecheckLookup, Shaped, Stages, Critical
<1> QED BY <1>2 DEF StickyRecheckLookup, TypeOK, storeVars, envVars

\* PinnedGet keeps the types.
LEMMA PinnedGetTyped ==
  ASSUME TypeOK, RequestShape, NEW q \in Requests, PinnedGet(q)
  PROVE  TypeOK' /\ RequestShape'
<1> DEFINE r1 == [req[q] EXCEPT !.pc = "dial", !.cand = {}]
           r2 == [req[q] EXCEPT !.pc = "occupancy", !.todo = req[q].cand,
                                !.cand = {}, !.lim = cfg.max]
<1>1. req[q].pc = "pinned" /\ Get(req[q].route.session) /\ (Step(q, r1) \/ Step(q, r2))
  BY DEF PinnedGet
<1>2. StoreOK'
  BY <1>1, GetType, RequestFields DEF Shaped, Critical
<1>3. r1 \in RequestState /\ Shaped(r1)
  <2>1. req[q] \in RequestState /\ Shaped(req[q])
    BY RequestFields
  <2>2. r1 \in RequestState
    BY <2>1 DEF RequestState, Stages
  <2>3. /\ r1.pc = "dial" /\ r1.attempt = req[q].attempt
        /\ r1.route = req[q].route /\ r1.pick = req[q].pick
    BY <2>1 DEF RequestState
  <2>4. Shaped(r1)
    BY <1>1, <2>1, <2>3 DEF Shaped, Critical
  <2>5. QED
    BY <2>2, <2>4
<1>7. cfg.max \in Nat
  BY DEF TypeOK, Setting
<1>4. r2 \in RequestState /\ Shaped(r2)
  <2>1. req[q] \in RequestState /\ Shaped(req[q])
    BY RequestFields
  <2>2. r2 \in RequestState
    BY <1>7, <2>1 DEF RequestState, Stages
  <2>3. /\ r2.pc = "occupancy" /\ r2.attempt = req[q].attempt
        /\ r2.route = req[q].route
    BY <2>1 DEF RequestState
  <2>4. Shaped(r2)
    BY <1>1, <2>1, <2>3 DEF Shaped, Critical
  <2>5. QED
    BY <2>2, <2>4
<1> HIDE DEF r1, r2
<1>5. req' \in [Requests -> RequestState] /\ RequestShape'
  BY <1>1, <1>3, <1>4, StepTyped
<1>6. bindLock' \in Requests \cup {NoRequest}
  BY DEF PinnedGet, TypeOK
<1> QED BY <1>2, <1>5, <1>6, TypeFromParts DEF PinnedGet, TypeOK, envVars

\* ReleaseStale keeps the types.
LEMMA ReleaseStaleTyped ==
  ASSUME TypeOK, RequestShape, NEW q \in Requests, ReleaseStaleBinding(q)
  PROVE  TypeOK' /\ RequestShape'
<1> DEFINE b == Live(req[q].route.session)
           g == IF req[q].route.region = NoRegion /\ b # NoBinding
                THEN b.region ELSE req[q].route.region
           r == [req[q] EXCEPT !.pc = "query", !.lim = cfg.max, !.region = g]
<1>1. req[q].pc = "release" /\ RemoveBindings({req[q].route.session}) /\ Step(q, r)
  BY DEF ReleaseStaleBinding
<1>2. StoreOK'
  BY <1>1, RemoveType
<1>3. b # NoBinding => b.region \in Regions
  BY <1>1, LiveType, RequestFields DEF Binding, Shaped, Critical
<1>4. g \in Regions \cup {NoRegion}
  BY <1>3, RequestFields DEF RequestState, Route
<1> HIDE DEF g
<1>7. cfg.max \in Nat
  BY DEF TypeOK, Setting
<1>5. r \in RequestState /\ Shaped(r)
  <2>1. req[q] \in RequestState /\ Shaped(req[q])
    BY RequestFields
  <2>2. r \in RequestState
    BY <1>4, <1>7, <2>1 DEF RequestState, Stages
  <2>3. /\ r.pc = "query" /\ r.attempt = req[q].attempt
        /\ r.route = req[q].route
    BY <2>1 DEF RequestState
  <2>4. Shaped(r)
    BY <1>1, <2>1, <2>3 DEF Shaped, Critical
  <2>5. QED
    BY <2>2, <2>4
<1> HIDE DEF r
<1>6. req' \in [Requests -> RequestState] /\ RequestShape'
  BY <1>1, <1>5, StepTyped
<1> QED BY <1>2, <1>6, TypeFromParts DEF ReleaseStaleBinding, TypeOK, envVars

\* PickForSession keeps the types.
LEMMA PickForSessionTyped ==
  ASSUME TypeOK, RequestShape, NEW q \in Requests, PickForSession(q)
  PROVE  TypeOK' /\ RequestShape'
<1> DEFINE found == {[node |-> n, region |-> catalog[n]] :
                        n \in GetByRegion(req[q].region, req[q].tried, req[q].route)}
           r == [req[q] EXCEPT !.pc = "occupancy", !.todo = found,
                               !.cand = {}, !.cd = cfg.cooldown]
<1>1. found \in SUBSET Candidate
  BY DEF GetByRegion, TypeOK, Candidate
<1>2. req[q].pc = "query" /\ (Answer(q) \/ Step(q, r))
  BY DEF PickForSession
<1>3. bindLock' \in Requests \cup {NoRequest}
  BY DEF PickForSession, TypeOK
<1> HIDE DEF found
<1>6. cfg.cooldown \in Nat
  BY DEF TypeOK, Setting
<1>4. r \in RequestState /\ Shaped(r)
  <2>1. req[q] \in RequestState /\ Shaped(req[q])
    BY RequestFields
  <2>2. r \in RequestState
    BY <1>1, <1>6, <2>1 DEF RequestState, Stages
  <2>3. /\ r.pc = "occupancy" /\ r.attempt = req[q].attempt
        /\ r.route = req[q].route
    BY <2>1 DEF RequestState
  <2>4. Shaped(r)
    BY <1>2, <2>1, <2>3 DEF Shaped, Critical
  <2>5. QED
    BY <2>2, <2>4
<1> HIDE DEF r
<1>5. req' \in [Requests -> RequestState] /\ RequestShape'
  BY <1>2, <1>4, AnswerTyped, StepTyped
<1> QED BY <1>3, <1>5 DEF PickForSession, TypeOK, storeVars, envVars

\* FilterByOccupancy keeps the types.
LEMMA FilterByOccupancyTyped ==
  ASSUME TypeOK, RequestShape, NEW q \in Requests, NEW c \in req[q].todo,
         FilterByOccupancy(q, c)
  PROVE  TypeOK' /\ RequestShape'
<1> DEFINE k == IF req[q].lim > 0 /\ CountByProxy(c.node) >= req[q].lim
                THEN req[q].cand ELSE req[q].cand \cup {c}
           r == [req[q] EXCEPT !.todo = req[q].todo \ {c}, !.cand = k]
<1>1. req[q] \in RequestState /\ c \in Candidate
  BY RequestFields DEF RequestState
<1>2. req[q].pc = "occupancy" /\ Step(q, r)
  BY <1>1 DEF FilterByOccupancy, RequestState
<1>3. StoreOK'
  BY DEF FilterByOccupancy, PruneProxy, TypeOK, StoreOK
<1>4. k \in SUBSET Candidate
  BY <1>1 DEF RequestState
<1> HIDE DEF k
<1>5. r \in RequestState /\ Shaped(r)
  BY <1>1, <1>2, <1>4, RequestFields DEF RequestState, Shaped, Critical
<1> HIDE DEF r
<1>6. req' \in [Requests -> RequestState] /\ RequestShape'
  BY <1>2, <1>5, StepTyped
<1> QED BY <1>3, <1>6, TypeFromParts DEF FilterByOccupancy, TypeOK, envVars

\* OccupancyDone keeps the types.
LEMMA OccupancyDoneTyped ==
  ASSUME TypeOK, RequestShape, NEW q \in Requests, OccupancyDone(q)
  PROVE  TypeOK' /\ RequestShape'
<1> DEFINE m == IF req[q].route.pin = NoNode THEN req[q].cd ELSE cfg.cooldown
           u == IF m > 0 THEN req[q].cand ELSE {}
           k == IF m > 0 THEN {} ELSE req[q].cand
           t == IF m > 0 THEN "cooldown" ELSE "bind"
           r == [req[q] EXCEPT !.cd = m, !.todo = u, !.cand = k, !.pc = t]
<1>1. req[q] \in RequestState /\ cfg \in Setting
  BY RequestFields DEF TypeOK
<1>2. req[q].pc = "occupancy" /\ (Answer(q) \/ Step(q, r))
  BY <1>1 DEF OccupancyDone, RequestState
<1>3. bindLock' \in Requests \cup {NoRequest}
  BY DEF OccupancyDone, TypeOK
<1>4. m \in Nat
  BY <1>1 DEF RequestState, Setting
<1>5. u \in SUBSET Candidate /\ k \in SUBSET Candidate /\ t \in {"cooldown", "bind"}
  BY <1>1 DEF RequestState
<1> HIDE DEF m, u, k, t
<1>6. r \in RequestState /\ Shaped(r)
  <2>1. req[q] \in RequestState /\ Shaped(req[q])
    BY RequestFields
  <2>2. r \in RequestState
    BY <1>4, <1>5, <2>1 DEF RequestState, Stages
  <2>3. /\ r.pc = t /\ r.attempt = req[q].attempt
        /\ r.route = req[q].route
    BY <2>1 DEF RequestState
  <2>4. Shaped(r)
    BY <1>2, <1>5, <2>1, <2>3 DEF Shaped, Critical
  <2>5. QED
    BY <2>2, <2>4
<1> HIDE DEF r
<1>7. req' \in [Requests -> RequestState] /\ RequestShape'
  BY <1>2, <1>6, AnswerTyped, StepTyped
<1> QED BY <1>3, <1>7 DEF OccupancyDone, TypeOK, storeVars, envVars

\* FilterByCooldown keeps the types.
LEMMA FilterByCooldownTyped ==
  ASSUME TypeOK, RequestShape, NEW q \in Requests, NEW c \in req[q].todo,
         FilterByCooldown(q, c)
  PROVE  TypeOK' /\ RequestShape'
<1> DEFINE k == IF InCooldown(c.node) THEN req[q].cand ELSE req[q].cand \cup {c}
           r == [req[q] EXCEPT !.todo = req[q].todo \ {c}, !.cand = k]
<1>1. req[q] \in RequestState /\ c \in Candidate
  BY RequestFields DEF RequestState
<1>2. req[q].pc = "cooldown" /\ Step(q, r)
  BY <1>1 DEF FilterByCooldown, RequestState
<1>3. k \in SUBSET Candidate
  BY <1>1 DEF RequestState
<1> HIDE DEF k
<1>4. r \in RequestState /\ Shaped(r)
  BY <1>1, <1>2, <1>3, RequestFields DEF RequestState, Shaped, Critical
<1> HIDE DEF r
<1>5. req' \in [Requests -> RequestState] /\ RequestShape'
  BY <1>2, <1>4, StepTyped
<1> QED BY <1>5 DEF FilterByCooldown, PruneCooldown, TypeOK, envVars

\* CooldownDone keeps the types.
LEMMA CooldownDoneTyped ==
  ASSUME TypeOK, RequestShape, NEW q \in Requests, CooldownDone(q)
  PROVE  TypeOK' /\ RequestShape'
<1>1. req' \in [Requests -> RequestState] /\ RequestShape'
  BY AnswerTyped, GotoTyped, RequestFields
  DEF CooldownDone, Shaped, Stages, Critical
<1>2. bindLock' \in Requests \cup {NoRequest}
  BY DEF CooldownDone, TypeOK
<1> QED BY <1>1, <1>2 DEF CooldownDone, TypeOK, storeVars, envVars

\* BindSession keeps the types.
LEMMA BindSessionTyped ==
  ASSUME TypeOK, RequestShape, NEW q \in Requests, NEW c \in req[q].cand,
         BindSession(q, c)
  PROVE  TypeOK' /\ RequestShape'
<1> DEFINE t == IF req[q].cd > 0 THEN "cool" ELSE "dial"
           r == [req[q] EXCEPT !.pick = c.node, !.cand = {}, !.pc = t]
<1>1. req[q] \in RequestState /\ c.node \in Nodes /\ c.region \in Regions
  BY RequestFields DEF RequestState, Candidate
<1>2. req[q].pc = "bind" /\ Step(q, r) /\ SetProxy(req[q].route.session, c.node, c.region)
  BY DEF BindSession
<1>3. req[q].route.session \in Sessions
  BY <1>2, RequestFields DEF Shaped, Critical
<1>4. [node |-> c.node, region |-> c.region, last |-> now] \in Binding
  BY <1>1 DEF Binding, TypeOK
<1>5. StoreOK'
  BY <1>2, <1>3, <1>4 DEF SetProxy, TypeOK, StoreOK
<1>6. t \in {"cool", "dial"}
  OBVIOUS
<1> HIDE DEF t
<1>7. r \in RequestState /\ Shaped(r)
  <2>1. req[q] \in RequestState /\ Shaped(req[q])
    BY RequestFields
  <2>2. r \in RequestState
    BY <1>1, <1>6, <2>1 DEF RequestState, Stages
  <2>3. /\ r.pc = t /\ r.pick = c.node /\ r.attempt = req[q].attempt
        /\ r.route = req[q].route
    BY <2>1 DEF RequestState
  <2>4. Shaped(r)
    BY <1>1, <1>2, <1>3, <1>6, <2>1, <2>3 DEF Shaped, Critical
  <2>5. QED
    BY <2>2, <2>4
<1> HIDE DEF r
<1>8. req' \in [Requests -> RequestState] /\ RequestShape'
  BY <1>2, <1>7, StepTyped
<1>9. bindLock' \in Requests \cup {NoRequest}
  BY DEF BindSession, TypeOK
<1> QED BY <1>5, <1>8, <1>9, TypeFromParts DEF BindSession, TypeOK, envVars

\* SetCooldown keeps the types.
LEMMA SetCooldownTyped ==
  ASSUME TypeOK, RequestShape, NEW q \in Requests, SetCooldown(q)
  PROVE  TypeOK' /\ RequestShape'
<1>1. now + req[q].cd \in Nat
  BY RequestFields DEF RequestState, TypeOK
<1>2. req' \in [Requests -> RequestState] /\ RequestShape'
  BY GotoTyped, RequestFields DEF SetCooldown, Shaped, Stages, Critical
<1> QED BY <1>1, <1>2 DEF SetCooldown, TypeOK, envVars

\* ReleaseFailed keeps the types.
LEMMA ReleaseFailedTyped ==
  ASSUME TypeOK, RequestShape, NEW q \in Requests, ReleaseFailedBinding(q)
  PROVE  StoreOK' /\ disturbed' \in SUBSET Sessions
<1>1. req[q].route.session \in Sessions \cup {NoSession}
  BY RequestFields DEF RequestState, Route
<1> QED
  BY <1>1, RemoveType
  DEF ReleaseFailedBinding, RemoveIfProxyID, TypeOK, StoreOK

\* Retry keeps the types.
LEMMA RetryTyped ==
  ASSUME TypeOK, RequestShape, NEW q \in Requests, RetryAfterFailure(q)
  PROVE  TypeOK' /\ RequestShape'
<1> DEFINE x == req[q].tried \cup {req[q].pick}
           a == req[q].attempt + 1
           r == [FreshRequest EXCEPT !.pc = "select", !.route = req[q].route,
                                     !.tried = x, !.attempt = a]
<1>1. req[q].pc = "dial" /\ Step(q, r) /\ ReleaseFailedBinding(q)
  BY DEF RetryAfterFailure
<1>2. x \in SUBSET Nodes /\ a \in 0..(MaxRetry + 1)
  BY <1>1, RequestFields, RoutingAssumption DEF RequestState, Shaped
<1>3. FreshRequest \in RequestState /\ req[q].route \in Route
  BY FreshRequestType, RequestFields DEF RequestState
<1> HIDE DEF x, a
<1>4. r \in RequestState /\ r.pc = "select"
  BY <1>2, <1>3 DEF RequestState, Stages
<1> HIDE DEF r
<1>5. Shaped(r)
  BY <1>4 DEF Shaped, Critical
<1>6. req' \in [Requests -> RequestState] /\ RequestShape'
  BY <1>1, <1>4, <1>5, StepTyped
<1> QED BY <1>1, <1>6, ReleaseFailedTyped, TypeFromParts DEF RetryAfterFailure, TypeOK, envVars

\* Fail keeps the types.
LEMMA FailTyped ==
  ASSUME TypeOK, RequestShape, NEW q \in Requests, FailWithoutRetry(q)
  PROVE  TypeOK' /\ RequestShape'
<1>1. req' \in [Requests -> RequestState] /\ RequestShape'
  BY AnswerTyped DEF FailWithoutRetry
<1>2. StoreOK' /\ disturbed' \in SUBSET Sessions
  BY ReleaseFailedTyped DEF FailWithoutRetry
<1> QED BY <1>1, <1>2, TypeFromParts DEF FailWithoutRetry, TypeOK, envVars

\* Served keeps the types.
LEMMA ServedTyped ==
  ASSUME TypeOK, RequestShape, NEW q \in Requests, Served(q)
  PROVE  TypeOK' /\ RequestShape'
BY AnswerTyped DEF Served, TypeOK, storeVars, envVars

-----------------------------------------------------------------------------
(* The other actors.                                                       *)

\* The environment keeps the types.
LEMMA EnvironmentTyped ==
  ASSUME TypeOK, RequestShape, Environment
  PROVE  TypeOK' /\ RequestShape'
<1>1. RequestShape'
  BY DEF Environment, CollectExpired, CatalogChanges, Reconfigure, SetTTL, Tick, RequestShape
<1> SUFFICES TypeOK'
  BY <1>1
<1>2. CASE CollectExpired
  BY <1>2, RemoveType DEF CollectExpired, TypeOK, StoreOK, envVars
<1>3. CASE \E n \in Nodes, v \in Regions \cup {Down} : CatalogChanges(n, v)
  BY <1>3 DEF CatalogChanges, TypeOK, storeVars
<1>4. CASE \E c \in Settings : Reconfigure(c)
  BY <1>4, RoutingAssumption DEF Reconfigure, TypeOK, storeVars
<1>5. CASE \E t \in TTLs : SetTTL(t)
  BY <1>5, RoutingAssumption DEF SetTTL, TypeOK, storeVars
<1>6. CASE Tick
  BY <1>6, RoutingAssumption DEF Tick, TypeOK, storeVars
<1> QED BY <1>2, <1>3, <1>4, <1>5, <1>6 DEF Environment

\* The types hold at first.
LEMMA InitTyped == Init => TypeOK /\ RequestShape
BY RoutingAssumption, FreshRequestType
DEF Init, TypeOK, RequestShape, Setting

\* Every step keeps the types.
LEMMA NextTyped == TypeOK /\ RequestShape /\ [Next]_vars => TypeOK' /\ RequestShape'
<1> SUFFICES ASSUME TypeOK, RequestShape, [Next]_vars PROVE TypeOK' /\ RequestShape'
  OBVIOUS
<1>1. CASE UNCHANGED vars
  BY <1>1 DEF vars, TypeOK, RequestShape
<1>2. CASE Environment
  BY <1>2, EnvironmentTyped
<1>3. ASSUME NEW q \in Requests, \E rt \in Routes : Arrive(q, rt)
      PROVE  TypeOK' /\ RequestShape'
  BY <1>3, ArriveTyped
<1>4. ASSUME NEW q \in Requests, Resolving(q)
      PROVE  TypeOK' /\ RequestShape'
  BY <1>4, ExhaustedTyped, ResolvePinnedTyped, PickUnlockTyped, StickyFastGetTyped,
     StickyFastLookupTyped, PinnedGetTyped, StickyRecheckGetTyped,
     StickyRecheckLookupTyped, ReleaseStaleTyped, PickForSessionTyped,
     FilterByOccupancyTyped, FilterByCooldownTyped, OccupancyDoneTyped,
     CooldownDoneTyped, BindSessionTyped, SetCooldownTyped
  DEF Resolving
<1>5. ASSUME NEW q \in Requests, BeginFirstBind(q) \/ Forwarding(q)
      PROVE  TypeOK' /\ RequestShape'
  BY <1>5, BeginFirstBindTyped, RetryTyped, FailTyped, ServedTyped DEF Forwarding
<1> QED BY <1>1, <1>2, <1>3, <1>4, <1>5 DEF Next

\* TypeOK with the shape of the local states, which is what is inductive.
THEOREM TypeCorrect == Spec => [](TypeOK /\ RequestShape)
BY InitTyped, NextTyped, PTL DEF Spec

\* Type correctness of the routing core, for every instance: in particular the
\* retry loop never counts beyond MaxRetry + 1 attempts.
THEOREM RoutingTypeOK == Spec => []TypeOK
BY TypeCorrect, PTL

-----------------------------------------------------------------------------
(* The quota and the cooldown.                                             *)
(*                                                                         *)
(* Neither is inductive.  The invariant QuotaInv adds what a request inside *)
(* the first-bind section knows about the candidates it has already passed, *)
(* and that nobody else can add a session while it is there.                *)

Shrinks == \A n \in Nodes : Holders(n)' \subseteq Holders(n)

\* Candidates of r that passed the occupancy filter.
Passed(r) == IF r.pc = "occupancy" THEN r.cand ELSE r.cand \cup r.todo

Filtering == {"occupancy", "cooldown", "bind"}

\* A candidate that passed the occupancy filter still has room.
Room(r) ==
  r.pc \in Filtering /\ r.lim > 0
    => \A c \in Passed(r) : Cardinality(Holders(c.node)) < r.lim

\* A candidate that passed the cooldown filter is out of every window.
Cooled(r) ==
  r.pc \in {"cooldown", "bind"} /\ r.cd > 0
    => \A c \in r.cand : now >= quietUntil[c.node]

RoomInv   == \A q \in Requests : Room(req[q])
CooledInv == \A q \in Requests : Cooled(req[q])

\* A cooldown entry disappears only after the window it stood for.
WindowKept == \A n \in Nodes : cooldown[n] = quietUntil[n] \/ now >= quietUntil[n]

QuotaInv ==
  /\ ReverseIndexExact
  /\ FirstBindExclusive
  /\ RoomInv
  /\ CooledInv
  /\ WindowKept

Typed == TypeOK /\ RequestShape

-----------------------------------------------------------------------------
(* Effects of the store's operations on the index and on occupancy.        *)

\* A node has finitely many sessions.
LEMMA HoldersFinite ==
  ASSUME NEW n
  PROVE  IsFiniteSet(Holders(n)) /\ Cardinality(Holders(n)) \in Nat
BY RoutingAssumption, FS_Subset, FS_CardinalityType DEF Holders

\* Losing sessions never raises the count.
LEMMA ShrinkCardinality ==
  ASSUME NEW n, Holders(n)' \subseteq Holders(n)
  PROVE  /\ Cardinality(Holders(n)') <= Cardinality(Holders(n))
         /\ Cardinality(Holders(n)') \in Nat
<1>1. IsFiniteSet(Holders(n)) /\ Holders(n)' \in SUBSET Holders(n)
  BY HoldersFinite
<1>2. IsFiniteSet(Holders(n)') /\ Cardinality(Holders(n)') <= Cardinality(Holders(n))
  BY <1>1, FS_Subset
<1> QED BY <1>2, FS_CardinalityType

\* One more session raises the count by at most one.
LEMMA AddOne ==
  ASSUME NEW H, IsFiniteSet(H), NEW x
  PROVE  Cardinality(H \cup {x}) <= Cardinality(H) + 1
<1>1. Cardinality(H) \in Nat
  BY FS_CardinalityType
<1>2. Cardinality(H \cup {x}) \in {Cardinality(H), Cardinality(H) + 1}
  BY FS_AddElement
<1> QED BY <1>1, <1>2

\* Removing bindings keeps the index exact and only frees places.
LEMMA RemoveEffect ==
  ASSUME TypeOK, ReverseIndexExact, NEW S, RemoveBindings(S)
  PROVE  ReverseIndexExact' /\ Shrinks
BY DEF TypeOK, ReverseIndexExact, Shrinks, Holders, Bound, RemoveBindings

\* Get removes at most an expired binding.
LEMMA GetEffect ==
  ASSUME TypeOK, ReverseIndexExact, NEW s \in Sessions, Get(s)
  PROVE  ReverseIndexExact' /\ Shrinks
<1>1. CASE Live(s) = NoBinding
  BY <1>1, RemoveEffect DEF Get
<1>2. CASE Live(s) # NoBinding
  <2>1. bindings[s] \in Binding /\ bindings[s] # NoBinding
    BY <1>2, LiveType, RoutingAssumption
  <2> DEFINE b == [bindings[s] EXCEPT !.last = now]
  <2>2. b \in Binding /\ b.node = bindings[s].node /\ b # NoBinding
    BY <2>1, RoutingAssumption DEF TypeOK, Binding
  <2>3. bindings' = [bindings EXCEPT ![s] = b] /\ reverse' = reverse
    BY <1>2 DEF Get, TypeOK
  <2> HIDE DEF b
  <2>4. \A n \in Nodes : Holders(n)' = Holders(n)
    BY <2>1, <2>2, <2>3 DEF Holders, Bound, TypeOK
  <2> QED BY <2>3, <2>4 DEF ReverseIndexExact, Shrinks
<1> QED BY <1>1, <1>2

\* RemoveIfProxyID removes at most the binding to that node.
LEMMA RemoveIfEffect ==
  ASSUME TypeOK, ReverseIndexExact, NEW s \in Sessions, NEW n, RemoveIfProxyID(s, n)
  PROVE  ReverseIndexExact' /\ Shrinks
BY RemoveEffect DEF RemoveIfProxyID, ReverseIndexExact, Shrinks, Holders, Bound

\* CountByProxy finds no stale reverse entry, removes the expired ones from both
\* sides, and counts exactly the sessions that remain bound.
LEMMA PruneEffect ==
  ASSUME TypeOK, ReverseIndexExact, NEW n \in Nodes, PruneProxy(n)
  PROVE  /\ ReverseIndexExact'
         /\ Shrinks
         /\ CountByProxy(n) = Cardinality(Holders(n)')
<1>1. StaleReverse(n) = {}
  BY DEF StaleReverse, ReverseIndexExact, Holders
<1>2. CountedExpired(n) \subseteq Holders(n)
  BY DEF CountedExpired, ExpiredOf, ReverseIndexExact, Holders
<1> DEFINE X == CountedExpired(n)
<1>3. /\ bindings' = [s \in Sessions |-> IF s \in X THEN NoBinding ELSE bindings[s]]
      /\ reverse' = [reverse EXCEPT ![n] = reverse[n] \ X]
      /\ CountByProxy(n) = Cardinality(reverse[n] \ X)
  BY <1>1 DEF PruneProxy, CountByProxy
<1> HIDE DEF X
<1>4. \A m \in Nodes : Holders(m)' = IF m = n THEN Holders(m) \ X ELSE Holders(m)
  BY <1>2, <1>3 DEF Holders, Bound, TypeOK, X
<1> QED BY <1>3, <1>4 DEF ReverseIndexExact, Shrinks, TypeOK

\* SetProxy gives one node one more session and takes it from the others.
LEMMA SetProxyEffect ==
  ASSUME TypeOK, ReverseIndexExact, NEW s \in Sessions, NEW n \in Nodes,
         NEW g \in Regions, SetProxy(s, n, g)
  PROVE  /\ ReverseIndexExact'
         /\ \A m \in Nodes : Holders(m)' \subseteq Holders(m)
                             \/ (m = n /\ Holders(m)' = Holders(m) \cup {s})
<1> DEFINE b == [node |-> n, region |-> g, last |-> now]
<1>1. b \in Binding /\ b # NoBinding /\ b.node = n
  BY RoutingAssumption DEF Binding, TypeOK
<1>2. bindings' = [bindings EXCEPT ![s] = b]
  BY DEF SetProxy
<1> HIDE DEF b
<1>3. \A m \in Nodes : Holders(m)' = IF m = n THEN Holders(m) \cup {s}
                                      ELSE Holders(m) \ {s}
  BY <1>1, <1>2 DEF Holders, Bound, TypeOK
<1>4. \A m \in Nodes : reverse'[m] = IF m = n THEN reverse[m] \cup {s}
                                      ELSE reverse[m] \ {s}
  <2>1. \A m \in Nodes : s \in reverse[m] <=> Bound(s) /\ bindings[s].node = m
    BY DEF ReverseIndexExact, Holders
  <2> QED BY <2>1 DEF SetProxy, TypeOK
<1> QED BY <1>3, <1>4 DEF ReverseIndexExact

-----------------------------------------------------------------------------
(* One request steps.                                                      *)

\* q moves to the local state r and takes, keeps or returns the lock.
LockMove(q, r) ==
  \/ r.pc \in Critical /\ bindLock \in {q, NoRequest} /\ bindLock' = q
  \/ r.pc \notin Critical /\ bindLock = q /\ bindLock' = NoRequest
  \/ r.pc \notin Critical /\ bindLock # q /\ bindLock' = bindLock

\* While q moves without adding a session to any node, QuotaInv is kept as soon
\* as the new local state r satisfies its own part of it.
LEMMA StepSafe ==
  ASSUME Typed, QuotaInv, NEW q \in Requests, NEW r \in RequestState, Step(q, r),
         ReverseIndexExact', Shrinks, UNCHANGED <<now, quietUntil>>,
         WindowKept', LockMove(q, r),
         r.pc \in Filtering /\ r.lim > 0
            => \A c \in Passed(r) : Cardinality(Holders(c.node)') < r.lim,
         r.pc \in {"cooldown", "bind"} /\ r.cd > 0
            => \A c \in r.cand : now >= quietUntil[c.node]
  PROVE  QuotaInv'
<1>1. req'[q] = r /\ \A o \in Requests : o # q => req'[o] = req[o]
  BY DEF Typed, TypeOK, Step
<1>2. FirstBindExclusive'
  BY <1>1, RoutingAssumption DEF QuotaInv, FirstBindExclusive, LockMove
<1>3. RoomInv'
  <2> SUFFICES ASSUME NEW o \in Requests, req'[o].pc \in Filtering, req'[o].lim > 0,
                      NEW c \in Passed(req'[o])
               PROVE  Cardinality(Holders(c.node)') < req'[o].lim
    BY DEF RoomInv, Room, Passed
  <2>1. CASE o = q
    BY <1>1, <2>1
  <2>2. CASE o # q
    <3>1. req[o] = req'[o] /\ req[o] \in RequestState
      BY <1>1, <2>2 DEF Typed, TypeOK
    <3>2. Cardinality(Holders(c.node)) < req[o].lim
      BY <3>1 DEF QuotaInv, RoomInv, Room, Passed
    <3>3. c.node \in Nodes
      BY <3>1 DEF Passed, RequestState, Candidate
    <3>4. /\ Cardinality(Holders(c.node)') <= Cardinality(Holders(c.node))
          /\ Cardinality(Holders(c.node)') \in Nat
          /\ Cardinality(Holders(c.node)) \in Nat
      BY <3>3, ShrinkCardinality, HoldersFinite DEF Shrinks
    <3> QED BY <3>1, <3>2, <3>4 DEF RequestState
  <2> QED BY <2>1, <2>2
<1>4. CooledInv'
  BY <1>1 DEF QuotaInv, CooledInv, Cooled
<1> QED BY <1>2, <1>3, <1>4 DEF QuotaInv

\* Steps that touch neither the store nor the clock.
LEMMA StoreUnchanged ==
  ASSUME QuotaInv, UNCHANGED storeVars, UNCHANGED <<now, quietUntil>>
  PROVE  ReverseIndexExact' /\ Shrinks /\ WindowKept'
BY DEF QuotaInv, storeVars, ReverseIndexExact, Shrinks, Holders, Bound, WindowKept

\* The windows stay while nobody touches the cooldowns.
LEMMA WindowUnchanged ==
  ASSUME QuotaInv, UNCHANGED <<cooldown, now, quietUntil>>
  PROVE  WindowKept'
BY DEF QuotaInv, WindowKept

\* Leaving or staying outside the filters needs nothing more.
LEMMA PlainStepSafe ==
  ASSUME Typed, QuotaInv, NEW q \in Requests, NEW r \in RequestState, Step(q, r),
         ReverseIndexExact', Shrinks, UNCHANGED <<now, quietUntil>>,
         WindowKept', LockMove(q, r), r.pc \notin Filtering
  PROVE  QuotaInv'
BY StepSafe DEF Filtering

\* A request holds the lock exactly in the critical stages.
LEMMA Holding ==
  ASSUME QuotaInv, NEW q \in Requests
  PROVE  req[q].pc \in Critical <=> bindLock = q
BY DEF QuotaInv, FirstBindExclusive

\* The local state of q after the step.
LEMMA Landed ==
  ASSUME Typed, TypeOK', NEW q \in Requests
  PROVE  req'[q] \in RequestState /\ req[q] \in RequestState /\ Shaped(req[q])
BY DEF Typed, TypeOK, RequestShape

\* A step gives the request the state it names.
LEMMA Moves ==
  ASSUME Typed, NEW q \in Requests, NEW r, Step(q, r)
  PROVE  req'[q] = r
BY DEF Typed, TypeOK, Step

\* Changing pc and fields that neither filter nor lock looks at.
LEMMA FreshPc ==
  /\ FreshRequest.pc = "idle"
  /\ \A rt : [FreshRequest EXCEPT !.pc = "select", !.route = rt].pc = "select"
BY DEF FreshRequest

\* Steps outside the first-bind section that leave the store alone.
Bystander(q) ==
  \/ \E rt \in Routes : Arrive(q, rt)
  \/ Exhausted(q) \/ ResolvePinnedNode(q) \/ PickUnlock(q)
  \/ StickyFastLookup(q) \/ Served(q)

\* A request outside the first-bind section stays outside.
LEMMA BystanderPc ==
  ASSUME Typed, NEW q \in Requests, Bystander(q)
  PROVE  req'[q].pc \in {"idle", "select", "dial", "lock"}
<1>0. req[q] \in RequestState
  BY DEF Typed, TypeOK
<1>1. CASE \E rt \in Routes : Arrive(q, rt)
  <2>1. PICK rt \in Routes : Step(q, [FreshRequest EXCEPT !.pc = "select", !.route = rt])
    BY <1>1 DEF Arrive
  <2> QED BY <2>1, Moves, FreshPc
<1>2. CASE Exhausted(q) \/ Served(q)
  BY <1>2, Moves, FreshPc DEF Exhausted, Served, Answer
<1>3. CASE ResolvePinnedNode(q)
  <2> DEFINE n == req[q].route.pin
             C == {[node |-> n, region |-> catalog[n]]}
             p == IF req[q].route.session = NoSession THEN "dial" ELSE "lock"
             r == [req[q] EXCEPT !.pick = n, !.cand = C, !.pc = p]
  <2>1. Answer(q) \/ Step(q, r)
    BY <1>3 DEF ResolvePinnedNode
  <2>2. p \in {"dial", "lock"}
    OBVIOUS
  <2> HIDE DEF p, C, n
  <2>3. r.pc = p
    BY <1>0 DEF RequestState
  <2> HIDE DEF r
  <2> QED BY <2>1, <2>2, <2>3, Moves, FreshPc DEF Answer
<1>4. CASE PickUnlock(q)
  <2>1. CASE Answer(q)
    BY <2>1, Moves, FreshPc DEF Answer
  <2>2. CASE ~Answer(q)
    <3>1. PICK n : Step(q, [req[q] EXCEPT !.pick = n, !.pc = "dial"])
      BY <1>4, <2>2 DEF PickUnlock
    <3>2. [req[q] EXCEPT !.pick = n, !.pc = "dial"].pc = "dial"
      BY <1>0 DEF RequestState
    <3> QED BY <3>1, <3>2, Moves
  <2> QED BY <2>1, <2>2
<1>5. CASE StickyFastLookup(q)
  <2> DEFINE p == IF StickyLookup(q) THEN "dial" ELSE "lock"
             r == [req[q] EXCEPT !.pc = p]
  <2>1. Step(q, r)
    BY <1>5 DEF StickyFastLookup
  <2>2. p \in {"dial", "lock"}
    OBVIOUS
  <2> HIDE DEF p
  <2>3. r.pc = p
    BY <1>0 DEF RequestState
  <2> HIDE DEF r
  <2> QED BY <2>1, <2>2, <2>3, Moves
<1> QED BY <1>1, <1>2, <1>3, <1>4, <1>5 DEF Bystander

\* The local state after any step of q.
LEMMA StepOf ==
  ASSUME Typed, Typed', NEW q \in Requests, NEW r, Step(q, r)
  PROVE  Step(q, req'[q]) /\ req'[q] \in RequestState
BY Moves DEF Typed, TypeOK, Step

\* A bystander's step changes its own state only.
LEMMA BystanderSteps ==
  ASSUME Typed, Typed', NEW q \in Requests, Bystander(q)
  PROVE  Step(q, req'[q]) /\ req'[q] \in RequestState
<1>1. \E r : Step(q, r)
  BY DEF Bystander, Arrive, Exhausted, ResolvePinnedNode, PickUnlock, StickyFastLookup,
     Served, Answer
<1> QED BY <1>1, StepOf

\* A bystander keeps the invariant.
LEMMA BystanderSafe ==
  ASSUME Typed, Typed', QuotaInv, NEW q \in Requests, Bystander(q)
  PROVE  QuotaInv'
<1>1. req[q].pc \notin Critical /\ bindLock' = bindLock
  BY DEF Bystander, Arrive, Exhausted, ResolvePinnedNode, PickUnlock, StickyFastLookup,
     Served, InFlight, Selecting, Critical
<1>2. req'[q].pc \notin Critical /\ req'[q].pc \notin Filtering
  BY BystanderPc DEF Critical, Filtering
<1>3. LockMove(q, req'[q])
  BY <1>1, <1>2, Holding DEF LockMove
<1>4. UNCHANGED storeVars /\ UNCHANGED <<now, quietUntil>>
  BY DEF Bystander, Arrive, Exhausted, ResolvePinnedNode, PickUnlock, StickyFastLookup,
     Served, envVars
<1> QED BY <1>2, <1>3, <1>4, BystanderSteps, StoreUnchanged, PlainStepSafe

-----------------------------------------------------------------------------
(* The sticky tests, taking the lock, and giving the binding up.           *)

\* A step of the sticky test lands in one of its two targets.
LEMMA StickyGetPc ==
  ASSUME Typed, NEW q \in Requests, NEW found, NEW missed, StickyGet(q, found, missed)
  PROVE  req'[q].pc \in {found, missed} /\ \E r : Step(q, r)
<1>0. req[q] \in RequestState
  BY DEF Typed, TypeOK
<1>1. CASE Step(q, [req[q] EXCEPT !.pc = missed])
  <2>1. [req[q] EXCEPT !.pc = missed].pc = missed
    BY <1>0 DEF RequestState
  <2> QED BY <1>1, <2>1, Moves
<1>2. CASE \E n : Step(q, [req[q] EXCEPT !.pick = n, !.pc = found])
  <2>1. PICK n : Step(q, [req[q] EXCEPT !.pick = n, !.pc = found])
    BY <1>2
  <2>2. [req[q] EXCEPT !.pick = n, !.pc = found].pc = found
    BY <1>0 DEF RequestState
  <2> QED BY <2>1, <2>2, Moves
<1> QED BY <1>1, <1>2 DEF StickyGet

\* StickyGet keeps the quota invariant.
LEMMA StickyGetSafe ==
  ASSUME Typed, Typed', QuotaInv, NEW q \in Requests,
         StickyFastGet(q) \/ StickyRecheckGet(q)
  PROVE  QuotaInv'
<1>0. req[q].route.session \in Sessions /\ bindLock' = bindLock
  <2>1. CASE StickyFastGet(q)
    BY <2>1 DEF StickyFastGet, StickyGet, Typed, TypeOK, RequestState, Route
  <2>2. CASE StickyRecheckGet(q)
    BY <2>2 DEF StickyRecheckGet, StickyGet, Typed, RequestShape, Shaped, Critical
  <2> QED BY <2>1, <2>2
<1>1. ReverseIndexExact' /\ Shrinks
  BY <1>0, GetEffect DEF Typed, QuotaInv, StickyFastGet, StickyRecheckGet, StickyGet
<1>2. UNCHANGED <<cooldown, now, quietUntil>>
  BY DEF StickyFastGet, StickyRecheckGet, StickyGet, envVars
<1>3. CASE StickyFastGet(q)
  <2>1. req'[q].pc \in {"sticky", "lock"} /\ \E r : Step(q, r)
    BY <1>3, StickyGetPc DEF StickyFastGet
  <2>2. req[q].pc \notin Critical /\ req'[q].pc \notin Critical \cup Filtering
    BY <1>3, <2>1 DEF StickyFastGet, Selecting, Critical, Filtering
  <2>3. LockMove(q, req'[q])
    BY <1>0, <2>2, Holding DEF LockMove
  <2> QED BY <1>1, <1>2, <2>1, <2>2, <2>3, StepOf, WindowUnchanged, PlainStepSafe
<1>4. CASE StickyRecheckGet(q)
  <2>1. req'[q].pc \in {"resticky", "release"} /\ \E r : Step(q, r)
    BY <1>4, StickyGetPc DEF StickyRecheckGet
  <2>2. req[q].pc \in Critical /\ req'[q].pc \in Critical \ Filtering
    BY <1>4, <2>1 DEF StickyRecheckGet, Critical, Filtering
  <2>3. LockMove(q, req'[q])
    BY <1>0, <2>2, Holding DEF LockMove
  <2> QED BY <1>1, <1>2, <2>1, <2>2, <2>3, StepOf, WindowUnchanged, PlainStepSafe
<1> QED BY <1>3, <1>4

\* BeginFirstBind keeps the quota invariant.
LEMMA BeginFirstBindSafe ==
  ASSUME Typed, Typed', QuotaInv, NEW q \in Requests, BeginFirstBind(q)
  PROVE  QuotaInv'
<1> DEFINE p == IF req[q].route.pin = NoNode THEN "recheck" ELSE "pinned"
           r == [req[q] EXCEPT !.pc = p]
<1>1. Step(q, r) /\ p \in {"recheck", "pinned"} /\ bindLock = NoRequest /\ bindLock' = q
  BY DEF BeginFirstBind
<1> HIDE DEF p
<1>2. r.pc = p
  BY DEF Typed, TypeOK, RequestState
<1> HIDE DEF r
<1>3. req'[q].pc \in Critical \ Filtering
  BY <1>1, <1>2, Moves DEF Critical, Filtering
<1>4. LockMove(q, req'[q])
  BY <1>1, <1>3 DEF LockMove
<1>5. UNCHANGED storeVars /\ UNCHANGED <<now, quietUntil>>
  BY DEF BeginFirstBind, envVars
<1> QED BY <1>1, <1>3, <1>4, <1>5, StepOf, StoreUnchanged, PlainStepSafe

\* StickyRecheckLookup keeps the quota invariant.
LEMMA StickyRecheckLookupSafe ==
  ASSUME Typed, Typed', QuotaInv, NEW q \in Requests, StickyRecheckLookup(q)
  PROVE  QuotaInv'
<1>0. bindLock = q
  BY Holding DEF StickyRecheckLookup, Critical
<1>1. PICK p \in {"dial", "release"} :
        /\ Step(q, [req[q] EXCEPT !.pc = p])
        /\ bindLock' = IF p = "dial" THEN NoRequest ELSE bindLock
  BY DEF StickyRecheckLookup
<1>2. [req[q] EXCEPT !.pc = p].pc = p
  BY DEF Typed, TypeOK, RequestState
<1>3. req'[q].pc = p
  BY <1>1, <1>2, Moves
<1>4. LockMove(q, req'[q]) /\ req'[q].pc \notin Filtering
  BY <1>0, <1>1, <1>3 DEF LockMove, Critical, Filtering
<1>5. UNCHANGED storeVars /\ UNCHANGED <<now, quietUntil>>
  BY DEF StickyRecheckLookup, envVars
<1> QED BY <1>1, <1>4, <1>5, StepOf, StoreUnchanged, PlainStepSafe

\* ReleaseStaleBinding keeps the quota invariant.
LEMMA ReleaseStaleBindingSafe ==
  ASSUME Typed, Typed', QuotaInv, NEW q \in Requests, ReleaseStaleBinding(q)
  PROVE  QuotaInv'
<1>0. bindLock = q /\ bindLock' = bindLock
  BY Holding DEF ReleaseStaleBinding, Critical
<1>1. PICK g : Step(q, [req[q] EXCEPT !.pc = "query", !.lim = cfg.max, !.region = g])
  BY DEF ReleaseStaleBinding
<1>2. [req[q] EXCEPT !.pc = "query", !.lim = cfg.max, !.region = g].pc = "query"
  BY DEF Typed, TypeOK, RequestState
<1>3. LockMove(q, req'[q]) /\ req'[q].pc \notin Filtering
  BY <1>0, <1>1, <1>2, Moves DEF LockMove, Critical, Filtering
<1>4. ReverseIndexExact' /\ Shrinks
  BY RemoveEffect DEF Typed, QuotaInv, ReleaseStaleBinding
<1>5. UNCHANGED <<cooldown, now, quietUntil>>
  BY DEF ReleaseStaleBinding, envVars
<1> QED BY <1>1, <1>3, <1>4, <1>5, StepOf, WindowUnchanged, PlainStepSafe

\* After a failure the binding may go; the lock is not involved.
LEMMA FailureSafe ==
  ASSUME Typed, Typed', QuotaInv, NEW q \in Requests,
         RetryAfterFailure(q) \/ FailWithoutRetry(q)
  PROVE  QuotaInv'
<1>1. req[q].pc \notin Critical /\ bindLock' = bindLock
  BY DEF RetryAfterFailure, FailWithoutRetry, Critical
<1>2. (\E r : Step(q, r)) /\ req'[q].pc \in {"idle", "select"}
  <2>1. CASE FailWithoutRetry(q)
    BY <2>1, Moves, FreshPc DEF FailWithoutRetry, Answer
  <2>2. CASE RetryAfterFailure(q)
    <3>1. PICK rt, T, a : Step(q, [FreshRequest EXCEPT !.pc = "select", !.route = rt,
                                                       !.tried = T, !.attempt = a])
      BY <2>2 DEF RetryAfterFailure
    <3>2. [FreshRequest EXCEPT !.pc = "select", !.route = rt, !.tried = T,
                               !.attempt = a].pc = "select"
      BY DEF FreshRequest
    <3> QED BY <3>1, <3>2, Moves
  <2> QED BY <2>1, <2>2
<1>3. LockMove(q, req'[q]) /\ req'[q].pc \notin Filtering
  BY <1>1, <1>2, Holding DEF LockMove, Critical, Filtering
<1>4. ReverseIndexExact' /\ Shrinks
  <2>1. ReleaseFailedBinding(q)
    BY DEF RetryAfterFailure, FailWithoutRetry
  <2>2. CASE req[q].route.session = NoSession
    BY <2>1, <2>2 DEF ReleaseFailedBinding, QuotaInv, ReverseIndexExact, Shrinks, Holders, Bound
  <2>3. CASE req[q].route.session # NoSession
    <3>1. req[q].route.session \in Sessions
      BY <2>3 DEF Typed, TypeOK, RequestState, Route
    <3> QED BY <2>1, <2>3, <3>1, RemoveIfEffect DEF ReleaseFailedBinding, Typed, QuotaInv
  <2> QED BY <2>2, <2>3
<1>5. UNCHANGED <<cooldown, now, quietUntil>>
  BY DEF RetryAfterFailure, FailWithoutRetry, envVars
<1> QED BY <1>2, <1>3, <1>4, <1>5, StepOf, WindowUnchanged, PlainStepSafe

-----------------------------------------------------------------------------
(* The filters, under the lock.                                            *)

\* Giving the lock back with an error.
LEMMA GiveUpSafe ==
  ASSUME Typed, Typed', QuotaInv, NEW q \in Requests, bindLock = q,
         Answer(q), bindLock' = NoRequest, UNCHANGED storeVars,
         UNCHANGED <<now, quietUntil>>
  PROVE  QuotaInv'
<1>1. req'[q].pc = "idle" /\ Step(q, req'[q]) /\ req'[q] \in RequestState
  BY Moves, FreshPc, StepOf DEF Answer
<1>2. LockMove(q, req'[q]) /\ req'[q].pc \notin Filtering
  BY <1>1 DEF LockMove, Critical, Filtering
<1> QED BY <1>1, <1>2, StoreUnchanged, PlainStepSafe

\* Entering the occupancy filter with nothing passed yet.
LEMMA EnterFilterSafe ==
  ASSUME Typed, Typed', QuotaInv, NEW q \in Requests, bindLock = q, bindLock' = q,
         NEW r \in RequestState, Step(q, r), r.pc = "occupancy", r.cand = {},
         ReverseIndexExact', Shrinks, UNCHANGED <<cooldown, now, quietUntil>>
  PROVE  QuotaInv'
<1>1. LockMove(q, r)
  BY DEF LockMove, Critical
<1>2. Passed(r) = {}
  BY DEF Passed
<1> QED BY <1>1, <1>2, StepSafe, WindowUnchanged

\* PinnedGet keeps the quota invariant.
LEMMA PinnedGetSafe ==
  ASSUME Typed, Typed', QuotaInv, NEW q \in Requests, PinnedGet(q)
  PROVE  QuotaInv'
<1>0. bindLock = q /\ req[q] \in RequestState /\ req[q].route.session \in Sessions
  BY Holding DEF PinnedGet, Critical, Typed, TypeOK, RequestShape, Shaped
<1>1. ReverseIndexExact' /\ Shrinks /\ UNCHANGED <<cooldown, now, quietUntil>>
  BY <1>0, GetEffect DEF Typed, QuotaInv, PinnedGet, envVars
<1>2. CASE /\ Step(q, [req[q] EXCEPT !.pc = "dial", !.cand = {}])
           /\ bindLock' = NoRequest
  <2>1. [req[q] EXCEPT !.pc = "dial", !.cand = {}].pc = "dial"
    BY <1>0 DEF RequestState
  <2>2. LockMove(q, req'[q]) /\ req'[q].pc \notin Filtering
    BY <1>0, <1>2, <2>1, Moves DEF LockMove, Critical, Filtering
  <2> QED BY <1>1, <1>2, <2>2, StepOf, WindowUnchanged, PlainStepSafe
<1>3. CASE /\ Step(q, [req[q] EXCEPT !.pc = "occupancy", !.todo = req[q].cand,
                                     !.cand = {}, !.lim = cfg.max])
           /\ bindLock' = bindLock
  <2> DEFINE r == [req[q] EXCEPT !.pc = "occupancy", !.todo = req[q].cand,
                                 !.cand = {}, !.lim = cfg.max]
  <2>1. r.pc = "occupancy" /\ r.cand = {}
    BY <1>0 DEF RequestState
  <2>2. r = req'[q]
    BY <1>3, Moves
  <2> HIDE DEF r
  <2>3. Step(q, req'[q]) /\ req'[q] \in RequestState
    BY <1>3, StepOf
  <2> QED BY <1>0, <1>1, <1>3, <2>1, <2>2, <2>3, EnterFilterSafe
<1> QED BY <1>2, <1>3 DEF PinnedGet

\* PickForSession keeps the quota invariant.
LEMMA PickForSessionSafe ==
  ASSUME Typed, Typed', QuotaInv, NEW q \in Requests, PickForSession(q)
  PROVE  QuotaInv'
<1>0. bindLock = q /\ req[q] \in RequestState
  BY Holding DEF PickForSession, Critical, Typed, TypeOK
<1>1. UNCHANGED storeVars /\ UNCHANGED <<now, quietUntil>>
  BY DEF PickForSession, envVars
<1>2. CASE Answer(q) /\ bindLock' = NoRequest
  BY <1>0, <1>1, <1>2, GiveUpSafe
<1>3. CASE ~(Answer(q) /\ bindLock' = NoRequest)
  <2>1. PICK T : Step(q, [req[q] EXCEPT !.pc = "occupancy", !.todo = T,
                                        !.cand = {}, !.cd = cfg.cooldown])
    BY <1>3 DEF PickForSession
  <2> DEFINE r == [req[q] EXCEPT !.pc = "occupancy", !.todo = T,
                                 !.cand = {}, !.cd = cfg.cooldown]
  <2>2. r.pc = "occupancy" /\ r.cand = {}
    BY <1>0 DEF RequestState
  <2>3. r = req'[q]
    BY <2>1, Moves
  <2> HIDE DEF r
  <2>4. Step(q, req'[q]) /\ req'[q] \in RequestState
    BY <2>1, StepOf
  <2>5. bindLock' = bindLock
    BY <1>3 DEF PickForSession
  <2> QED BY <1>0, <1>1, <2>2, <2>3, <2>4, <2>5, EnterFilterSafe, StoreUnchanged
          DEF storeVars
<1> QED BY <1>2, <1>3

\* FilterByOccupancy keeps the quota invariant.
LEMMA FilterByOccupancySafe ==
  ASSUME Typed, Typed', QuotaInv, NEW q \in Requests, NEW c \in req[q].todo,
         FilterByOccupancy(q, c)
  PROVE  QuotaInv'
<1>0. bindLock = q /\ bindLock' = q /\ req[q] \in RequestState
  BY Holding DEF FilterByOccupancy, Critical, Typed, TypeOK
<1>1. /\ c \in Candidate /\ c.node \in Nodes /\ req[q].cand \subseteq Candidate
      /\ req[q].lim \in Nat
  BY <1>0 DEF RequestState, Candidate
<1> DEFINE full == req[q].lim > 0 /\ CountByProxy(c.node) >= req[q].lim
           C == IF full THEN req[q].cand ELSE req[q].cand \cup {c}
           T == req[q].todo \ {c}
           r == [req[q] EXCEPT !.todo = T, !.cand = C]
<1>2. Step(q, r) /\ req[q].pc = "occupancy"
  BY DEF FilterByOccupancy
<1>3. /\ ReverseIndexExact' /\ Shrinks
      /\ req[q].lim > 0 => CountByProxy(c.node) = Cardinality(Holders(c.node)')
  <2>1. CASE req[q].lim > 0
    BY <1>1, <2>1, PruneEffect DEF FilterByOccupancy, Typed, QuotaInv
  <2>2. CASE ~(req[q].lim > 0)
    BY <2>2 DEF FilterByOccupancy, QuotaInv, ReverseIndexExact, Shrinks, Holders, Bound
  <2> QED BY <2>1, <2>2
<1>4. UNCHANGED <<cooldown, now, quietUntil>>
  BY DEF FilterByOccupancy, envVars
<1>5. \A d \in C : d \in req[q].cand \/ (d = c /\ ~full)
  OBVIOUS
<1>6. req[q].lim > 0 => \A d \in C : Cardinality(Holders(d.node)') < req[q].lim
  <2> SUFFICES ASSUME req[q].lim > 0, NEW d \in C
               PROVE  Cardinality(Holders(d.node)') < req[q].lim
    OBVIOUS
  <2>1. d.node \in Nodes
    BY <1>1, <1>5 DEF Candidate
  <2>2. /\ Cardinality(Holders(d.node)') <= Cardinality(Holders(d.node))
        /\ Cardinality(Holders(d.node)') \in Nat
        /\ Cardinality(Holders(d.node)) \in Nat
    BY <2>1, <1>3, ShrinkCardinality, HoldersFinite DEF Shrinks
  <2>3. CASE d \in req[q].cand
    <3>1. Cardinality(Holders(d.node)) < req[q].lim
      BY <1>2, <2>3 DEF QuotaInv, RoomInv, Room, Passed, Filtering
    <3> QED BY <1>1, <2>2, <3>1
  <2>4. CASE d = c /\ ~full
    BY <1>1, <1>3, <2>2, <2>4
  <2> QED BY <1>5, <2>3, <2>4
<1> HIDE DEF C, T
<1>7. r.pc = "occupancy" /\ r.cand = C /\ r.lim = req[q].lim
  BY <1>0, <1>2 DEF RequestState
<1>8. r = req'[q] /\ Step(q, r) /\ r \in RequestState
  BY <1>2, Moves, StepOf
<1> HIDE DEF r
<1>9. LockMove(q, r) /\ Passed(r) = C
  BY <1>0, <1>7 DEF LockMove, Critical, Passed
<1> QED BY <1>3, <1>4, <1>6, <1>7, <1>8, <1>9, StepSafe, WindowUnchanged

\* OccupancyDone keeps the quota invariant.
LEMMA OccupancyDoneSafe ==
  ASSUME Typed, Typed', QuotaInv, NEW q \in Requests, OccupancyDone(q)
  PROVE  QuotaInv'
<1>0. bindLock = q /\ req[q] \in RequestState /\ req[q].pc = "occupancy"
  BY Holding DEF OccupancyDone, Critical, Typed, TypeOK
<1>1. UNCHANGED storeVars /\ UNCHANGED <<now, quietUntil>>
  BY DEF OccupancyDone, envVars
<1>2. CASE Answer(q) /\ bindLock' = NoRequest
  BY <1>0, <1>1, <1>2, GiveUpSafe
<1>3. CASE ~(Answer(q) /\ bindLock' = NoRequest)
  <2> DEFINE m == IF req[q].route.pin = NoNode THEN req[q].cd ELSE cfg.cooldown
             T == IF m > 0 THEN req[q].cand ELSE {}
             C == IF m > 0 THEN {} ELSE req[q].cand
             p == IF m > 0 THEN "cooldown" ELSE "bind"
             r == [req[q] EXCEPT !.cd = m, !.todo = T, !.cand = C, !.pc = p]
  <2>1. Step(q, r) /\ bindLock' = bindLock
    BY <1>3 DEF OccupancyDone
  <2>2. p \in {"cooldown", "bind"} /\ C \cup T = req[q].cand /\ (m > 0 => C = {})
    OBVIOUS
  <2> HIDE DEF C, T, p, m
  <2>3. r.pc = p /\ r.cand = C /\ r.todo = T /\ r.cd = m /\ r.lim = req[q].lim
    BY <1>0 DEF RequestState
  <2>4. r = req'[q] /\ r \in RequestState
    BY <2>1, Moves, StepOf
  <2> HIDE DEF r
  <2>5. LockMove(q, r) /\ Passed(r) = req[q].cand
    BY <1>0, <2>1, <2>2, <2>3 DEF LockMove, Critical, Passed
  <2>6. r.lim > 0 => \A c \in Passed(r) : Cardinality(Holders(c.node)) < r.lim
    BY <1>0, <2>3, <2>5 DEF QuotaInv, RoomInv, Room, Passed, Filtering
  <2>7. \A n : Holders(n)' = Holders(n)
    BY <1>1 DEF storeVars, Holders, Bound
  <2> QED BY <1>1, <2>1, <2>2, <2>3, <2>4, <2>5, <2>6, <2>7, StepSafe, StoreUnchanged
<1> QED BY <1>2, <1>3

\* FilterByCooldown keeps the quota invariant.
LEMMA FilterByCooldownSafe ==
  ASSUME Typed, Typed', QuotaInv, NEW q \in Requests, NEW c \in req[q].todo,
         FilterByCooldown(q, c)
  PROVE  QuotaInv'
<1>0. /\ bindLock = q /\ bindLock' = q /\ req[q] \in RequestState /\ req[q].pc = "cooldown"
      /\ c.node \in Nodes
  BY Holding DEF FilterByCooldown, Critical, Typed, TypeOK, RequestState, Candidate
<1>1. UNCHANGED <<bindings, reverse, now, quietUntil>> /\ PruneCooldown(c.node)
  BY DEF FilterByCooldown, envVars
<1>2. /\ cooldown \in [Nodes -> Nat] /\ quietUntil \in [Nodes -> Nat] /\ now \in Nat
  BY RoutingAssumption DEF Typed, TypeOK
<1>3. WindowKept'
  BY <1>0, <1>1, <1>2 DEF PruneCooldown, InCooldown, QuotaInv, WindowKept
<1>4. ~InCooldown(c.node) => now >= quietUntil[c.node]
  BY <1>0, <1>2 DEF InCooldown, QuotaInv, WindowKept
<1> DEFINE C == IF InCooldown(c.node) THEN req[q].cand ELSE req[q].cand \cup {c}
           T == req[q].todo \ {c}
           r == [req[q] EXCEPT !.todo = T, !.cand = C]
<1>5. Step(q, r)
  BY DEF FilterByCooldown
<1>6. /\ C \cup T \subseteq req[q].cand \cup req[q].todo
      /\ \A d \in C : d \in req[q].cand \/ (d = c /\ ~InCooldown(c.node))
  OBVIOUS
<1> HIDE DEF C, T
<1>7. r.pc = "cooldown" /\ r.cand = C /\ r.todo = T /\ r.lim = req[q].lim /\ r.cd = req[q].cd
  BY <1>0 DEF RequestState
<1>8. r = req'[q] /\ r \in RequestState
  BY <1>5, Moves, StepOf
<1> HIDE DEF r
<1>9. LockMove(q, r) /\ Passed(r) \subseteq Passed(req[q])
  BY <1>0, <1>6, <1>7 DEF LockMove, Critical, Passed
<1>10. r.lim > 0 => \A d \in Passed(r) : Cardinality(Holders(d.node)) < r.lim
  BY <1>0, <1>7, <1>9 DEF QuotaInv, RoomInv, Room, Filtering
<1>11. r.cd > 0 => \A d \in r.cand : now >= quietUntil[d.node]
  BY <1>0, <1>4, <1>6, <1>7 DEF QuotaInv, CooledInv, Cooled
<1>12. \A n : Holders(n)' = Holders(n)
  BY <1>1 DEF Holders, Bound
<1>13. ReverseIndexExact' /\ Shrinks
  BY <1>1, <1>12 DEF QuotaInv, ReverseIndexExact, Shrinks
<1> QED BY <1>1, <1>3, <1>5, <1>8, <1>9, <1>10, <1>11, <1>12, <1>13, StepSafe

\* CooldownDone keeps the quota invariant.
LEMMA CooldownDoneSafe ==
  ASSUME Typed, Typed', QuotaInv, NEW q \in Requests, CooldownDone(q)
  PROVE  QuotaInv'
<1>0. bindLock = q /\ req[q] \in RequestState /\ req[q].pc = "cooldown"
  BY Holding DEF CooldownDone, Critical, Typed, TypeOK
<1>1. UNCHANGED storeVars /\ UNCHANGED <<now, quietUntil>>
  BY DEF CooldownDone, envVars
<1>2. CASE Answer(q) /\ bindLock' = NoRequest
  BY <1>0, <1>1, <1>2, GiveUpSafe
<1>3. CASE ~(Answer(q) /\ bindLock' = NoRequest)
  <2> DEFINE r == [req[q] EXCEPT !.pc = "bind"]
  <2>1. Step(q, r) /\ bindLock' = bindLock
    BY <1>3 DEF CooldownDone
  <2>2. /\ r.pc = "bind" /\ r.cand = req[q].cand /\ r.todo = req[q].todo
        /\ r.lim = req[q].lim /\ r.cd = req[q].cd
    BY <1>0 DEF RequestState
  <2>3. r = req'[q] /\ r \in RequestState
    BY <2>1, Moves, StepOf
  <2> HIDE DEF r
  <2>4. LockMove(q, r) /\ Passed(r) = Passed(req[q])
    BY <1>0, <2>1, <2>2 DEF LockMove, Critical, Passed
  <2>5. r.lim > 0 => \A d \in Passed(r) : Cardinality(Holders(d.node)) < r.lim
    BY <1>0, <2>2, <2>4 DEF QuotaInv, RoomInv, Room, Filtering
  <2>6. r.cd > 0 => \A d \in r.cand : now >= quietUntil[d.node]
    BY <1>0, <2>2 DEF QuotaInv, CooledInv, Cooled
  <2>7. \A n : Holders(n)' = Holders(n)
    BY <1>1 DEF storeVars, Holders, Bound
  <2> QED BY <1>1, <2>1, <2>3, <2>4, <2>5, <2>6, <2>7, StepSafe, StoreUnchanged
<1> QED BY <1>2, <1>3

-----------------------------------------------------------------------------
(* Writing the binding and its cooldown.                                   *)

\* The holder of the lock may change occupancy and windows: nobody else has
\* passed a candidate.
LEMMA HolderStepSafe ==
  ASSUME Typed, QuotaInv, NEW q \in Requests, bindLock = q, NEW r \in RequestState,
         Step(q, r), r.pc \notin Filtering, LockMove(q, r),
         ReverseIndexExact', WindowKept'
  PROVE  QuotaInv'
<1>1. req'[q] = r /\ \A o \in Requests : o # q => req'[o] = req[o]
  BY DEF Typed, TypeOK, Step
<1>2. FirstBindExclusive'
  BY <1>1, RoutingAssumption DEF QuotaInv, FirstBindExclusive, LockMove
<1>3. \A o \in Requests : o # q => req[o].pc \notin Critical
  BY DEF QuotaInv, FirstBindExclusive
<1>4. \A o \in Requests : req'[o].pc \notin Filtering
  BY <1>1, <1>3 DEF Critical, Filtering
<1>5. RoomInv' /\ CooledInv'
  BY <1>4 DEF RoomInv, Room, CooledInv, Cooled, Filtering
<1> QED BY <1>2, <1>5 DEF QuotaInv

\* BindSession keeps the quota invariant.
LEMMA BindSessionSafe ==
  ASSUME Typed, Typed', QuotaInv, NEW q \in Requests, NEW c \in req[q].cand,
         BindSession(q, c)
  PROVE  QuotaInv'
<1>0. /\ bindLock = q /\ req[q] \in RequestState
      /\ req[q].route.session \in Sessions /\ c.node \in Nodes /\ c.region \in Regions
  BY Holding DEF BindSession, Critical, Typed, TypeOK, RequestShape, Shaped, RequestState,
     Candidate
<1>1. ReverseIndexExact'
  BY <1>0, SetProxyEffect DEF BindSession, Typed, QuotaInv
<1>2. WindowKept'
  BY WindowUnchanged DEF BindSession, envVars
<1>3. PICK p \in {"cool", "dial"} :
        /\ Step(q, [req[q] EXCEPT !.pick = c.node, !.cand = {}, !.pc = p])
        /\ bindLock' = IF p = "cool" THEN bindLock ELSE NoRequest
  BY DEF BindSession
<1>4. [req[q] EXCEPT !.pick = c.node, !.cand = {}, !.pc = p].pc = p
  BY <1>0 DEF RequestState
<1>5. req'[q].pc = p
  BY <1>3, <1>4, Moves
<1>6. LockMove(q, req'[q]) /\ req'[q].pc \notin Filtering
  BY <1>0, <1>3, <1>5 DEF LockMove, Critical, Filtering
<1> QED BY <1>0, <1>1, <1>2, <1>3, <1>6, StepOf, HolderStepSafe

\* SetCooldown keeps the quota invariant.
LEMMA SetCooldownSafe ==
  ASSUME Typed, Typed', QuotaInv, NEW q \in Requests, SetCooldown(q)
  PROVE  QuotaInv'
<1>0. bindLock = q /\ req[q] \in RequestState /\ bindLock' = NoRequest
  BY Holding DEF SetCooldown, Critical, Typed, TypeOK
<1>1. ReverseIndexExact'
  BY DEF SetCooldown, QuotaInv, ReverseIndexExact, Holders, Bound
<1>2. WindowKept'
  BY DEF SetCooldown, QuotaInv, WindowKept, Typed, TypeOK, envVars
<1>3. [req[q] EXCEPT !.pc = "dial"].pc = "dial"
  BY <1>0 DEF RequestState
<1>4. Step(q, [req[q] EXCEPT !.pc = "dial"])
  BY DEF SetCooldown
<1>5. LockMove(q, req'[q]) /\ req'[q].pc \notin Filtering
  BY <1>0, <1>3, <1>4, Moves DEF LockMove, Critical, Filtering
<1> QED BY <1>0, <1>1, <1>2, <1>4, <1>5, StepOf, HolderStepSafe

-----------------------------------------------------------------------------
(* The rest of the process.                                                *)

\* A step that moves no request and adds no session keeps the invariant.
LEMMA BackgroundSafe ==
  ASSUME Typed, Typed', QuotaInv, UNCHANGED <<req, bindLock, quietUntil>>,
         ReverseIndexExact', Shrinks, WindowKept', now' >= now
  PROVE  QuotaInv'
<1>1. FirstBindExclusive'
  BY DEF QuotaInv, FirstBindExclusive
<1>2. RoomInv'
  <2> SUFFICES ASSUME NEW o \in Requests, req[o].pc \in Filtering, req[o].lim > 0,
                      NEW c \in Passed(req[o])
               PROVE  Cardinality(Holders(c.node)') < req[o].lim
    BY DEF RoomInv, Room, Passed
  <2>1. req[o] \in RequestState
    BY DEF Typed, TypeOK
  <2>2. Cardinality(Holders(c.node)) < req[o].lim
    BY DEF QuotaInv, RoomInv, Room
  <2>3. c.node \in Nodes
    BY <2>1 DEF Passed, RequestState, Candidate
  <2>4. /\ Cardinality(Holders(c.node)') <= Cardinality(Holders(c.node))
        /\ Cardinality(Holders(c.node)') \in Nat
        /\ Cardinality(Holders(c.node)) \in Nat
    BY <2>3, ShrinkCardinality, HoldersFinite DEF Shrinks
  <2> QED BY <2>1, <2>2, <2>4 DEF RequestState
<1>3. CooledInv'
  <2> SUFFICES ASSUME NEW o \in Requests, req[o].pc \in {"cooldown", "bind"},
                      req[o].cd > 0, NEW c \in req[o].cand
               PROVE  now' >= quietUntil[c.node]
    BY DEF CooledInv, Cooled
  <2>1. now >= quietUntil[c.node]
    BY DEF QuotaInv, CooledInv, Cooled
  <2>2. c.node \in Nodes
    BY DEF Typed, TypeOK, RequestState, Candidate
  <2>3. quietUntil[c.node] \in Nat /\ now \in Nat /\ now' \in Nat
    BY <2>2, RoutingAssumption DEF Typed, TypeOK
  <2> QED BY <2>1, <2>3
<1> QED BY <1>1, <1>2, <1>3 DEF QuotaInv

\* Such are the clock, the GC, and changes of nodes and settings.
LEMMA EnvironmentSafe ==
  ASSUME Typed, Typed', QuotaInv, Environment
  PROVE  QuotaInv'
<1>0. now \in Nat /\ cooldown \in [Nodes -> Nat] /\ quietUntil \in [Nodes -> Nat]
  BY RoutingAssumption DEF Typed, TypeOK
<1>1. CASE CollectExpired
  <2>1. ReverseIndexExact' /\ Shrinks
    BY <1>1, RemoveEffect DEF CollectExpired, Typed, QuotaInv
  <2>2. WindowKept' /\ now' >= now /\ UNCHANGED <<req, bindLock, quietUntil>>
    BY <1>0, <1>1 DEF CollectExpired, InCooldown, QuotaInv, WindowKept, envVars
  <2> QED BY <2>1, <2>2, BackgroundSafe
<1>2. CASE UNCHANGED storeVars /\ UNCHANGED <<req, bindLock, quietUntil>> /\ now' \in {now, now + 1}
  <2>1. ReverseIndexExact' /\ Shrinks
    BY <1>2 DEF storeVars, QuotaInv, ReverseIndexExact, Shrinks, Holders, Bound
  <2>2. WindowKept' /\ now' >= now
    BY <1>0, <1>2 DEF storeVars, QuotaInv, WindowKept
  <2> QED BY <1>2, <2>1, <2>2, BackgroundSafe
<1> QED BY <1>1, <1>2 DEF Environment, CatalogChanges, Reconfigure, SetTTL, Tick

\* The empty store satisfies the invariant.
LEMMA QuotaInit == Init => QuotaInv
<1> SUFFICES ASSUME Init PROVE QuotaInv
  OBVIOUS
<1>1. \A q \in Requests : req[q].pc = "idle"
  BY FreshPc DEF Init
<1>2. FirstBindExclusive /\ RoomInv /\ CooledInv
  BY <1>1, RoutingAssumption DEF Init, FirstBindExclusive, RoomInv, Room, CooledInv, Cooled,
     Critical, Filtering
<1>3. ReverseIndexExact /\ WindowKept
  BY DEF Init, ReverseIndexExact, Holders, Bound, WindowKept
<1> QED BY <1>2, <1>3 DEF QuotaInv

\* Every step of Next keeps the invariant.
LEMMA QuotaNext ==
  ASSUME Typed, Typed', QuotaInv, [Next]_vars
  PROVE  QuotaInv'
<1>1. CASE Environment
  BY <1>1, EnvironmentSafe
<1>2. ASSUME NEW q \in Requests,
             \/ \E rt \in Routes : Arrive(q, rt)
             \/ Resolving(q) \/ BeginFirstBind(q) \/ Forwarding(q)
      PROVE  QuotaInv'
  BY <1>2, BystanderSafe, StickyGetSafe, BeginFirstBindSafe, StickyRecheckLookupSafe,
     ReleaseStaleBindingSafe, FailureSafe, PinnedGetSafe, PickForSessionSafe,
     FilterByOccupancySafe, OccupancyDoneSafe, FilterByCooldownSafe, CooldownDoneSafe,
     BindSessionSafe, SetCooldownSafe, Zenon
     DEF Bystander, Resolving, Forwarding
<1>3. CASE UNCHANGED vars
  BY <1>3 DEF vars, QuotaInv, ReverseIndexExact, FirstBindExclusive, RoomInv, Room, Passed,
     CooledInv, Cooled, WindowKept, Holders, Bound
<1> QED BY <1>1, <1>2, <1>3 DEF Next

-----------------------------------------------------------------------------
(* The theorems.                                                           *)

\* A step that adds a session to a node is BindSession by the holder of the lock.
LEMMA OnlyBindGrows ==
  ASSUME Typed, QuotaInv, [Next]_vars
  PROVE  \/ Shrinks
         \/ \E q \in Requests : \E c \in req[q].cand : BindSession(q, c)
<1>0. \A q \in Requests : req[q].pc \in Critical \cup {"sticky"} => req[q].route.session \in Sessions
  BY DEF Typed, RequestShape, Shaped
<1>1. ASSUME UNCHANGED bindings PROVE Shrinks
  BY <1>1 DEF Shrinks, Holders, Bound
<1>2. ASSUME NEW S, RemoveBindings(S) PROVE Shrinks
  BY <1>2, RemoveEffect DEF Typed, QuotaInv
<1>3. ASSUME NEW q \in Requests, Get(req[q].route.session),
             (Selecting(q) /\ req[q].route.session # NoSession) \/ req[q].pc \in Critical
      PROVE  Shrinks
  <2>1. req[q].route.session \in Sessions
    BY <1>0, <1>3 DEF Typed, TypeOK, RequestState, Route
  <2> QED BY <1>3, <2>1, GetEffect DEF Typed, QuotaInv
<1>4. CASE UNCHANGED vars \/ Environment
  <2>1. UNCHANGED bindings \/ CollectExpired
    BY <1>4 DEF vars, Environment, CatalogChanges, Reconfigure, SetTTL, Tick, storeVars
  <2> QED BY <1>1, <1>2, <2>1 DEF CollectExpired
<1>5. ASSUME NEW q \in Requests, StickyFastGet(q) \/ StickyRecheckGet(q) \/ PinnedGet(q)
      PROVE  Shrinks
  BY <1>3, <1>5 DEF StickyFastGet, StickyRecheckGet, PinnedGet, StickyGet, Critical
<1>6. ASSUME NEW q \in Requests, NEW c \in req[q].todo, FilterByOccupancy(q, c)
      PROVE  Shrinks
  <2>1. c.node \in Nodes
    BY <1>6 DEF Typed, TypeOK, RequestState, Candidate
  <2> QED BY <1>1, <1>6, <2>1, PruneEffect DEF FilterByOccupancy, Typed, QuotaInv
<1>7. ASSUME NEW q \in Requests, RetryAfterFailure(q) \/ FailWithoutRetry(q)
      PROVE  Shrinks
  <2>1. ReleaseFailedBinding(q)
    BY <1>7 DEF RetryAfterFailure, FailWithoutRetry
  <2> QED BY <1>1, <1>2, <2>1 DEF ReleaseFailedBinding, RemoveIfProxyID
<1>8. ASSUME NEW q \in Requests, Bystander(q) PROVE UNCHANGED bindings
  BY <1>8 DEF Bystander, Arrive, Exhausted, ResolvePinnedNode, PickUnlock,
     StickyFastLookup, Served, storeVars
<1>9. ASSUME NEW q \in Requests,
             \/ BeginFirstBind(q) \/ StickyRecheckLookup(q) \/ PickForSession(q)
             \/ OccupancyDone(q) \/ CooldownDone(q) \/ SetCooldown(q)
             \/ \E c \in req[q].todo : FilterByCooldown(q, c)
      PROVE  UNCHANGED bindings
  BY <1>9 DEF BeginFirstBind, StickyRecheckLookup, PickForSession, OccupancyDone,
     CooldownDone, SetCooldown, FilterByCooldown, storeVars
<1>10. ASSUME NEW q \in Requests, ReleaseStaleBinding(q) PROVE Shrinks
  BY <1>2, <1>10 DEF ReleaseStaleBinding
<1>11. ASSUME NEW q \in Requests,
              \/ \E rt \in Routes : Arrive(q, rt)
              \/ Resolving(q) \/ BeginFirstBind(q) \/ Forwarding(q)
       PROVE  Shrinks \/ \E c \in req[q].cand : BindSession(q, c)
  BY <1>1, <1>5, <1>6, <1>7, <1>8, <1>9, <1>10, <1>11, Zenon DEF Resolving, Forwarding, Bystander
<1> QED BY <1>4, <1>11 DEF Next

\* Binding grows one node by one session, and its candidate passed the filters.
LEMMA BindEffect ==
  ASSUME Typed, QuotaInv, NEW q \in Requests, NEW c \in req[q].cand, BindSession(q, c),
         NEW n \in Nodes
  PROVE  /\ bindLock = q
         /\ \/ Holders(n)' \subseteq Holders(n)
            \/ /\ req[q].lim > 0 => Cardinality(Holders(n)') <= req[q].lim
               /\ req[q].cd > 0 => now >= quietUntil[n]
<1>0. /\ bindLock = q /\ req[q] \in RequestState /\ req[q].pc = "bind"
      /\ req[q].route.session \in Sessions /\ c.node \in Nodes /\ c.region \in Regions
  BY Holding DEF BindSession, Critical, Typed, TypeOK, RequestShape, Shaped, RequestState,
     Candidate
<1>1. \/ Holders(n)' \subseteq Holders(n)
      \/ n = c.node /\ Holders(n)' = Holders(n) \cup {req[q].route.session}
  BY <1>0, SetProxyEffect DEF BindSession, Typed, QuotaInv
<1>2. req[q].lim > 0 => Cardinality(Holders(c.node)) < req[q].lim
  BY <1>0 DEF QuotaInv, RoomInv, Room, Passed, Filtering
<1>3. req[q].cd > 0 => now >= quietUntil[c.node]
  BY <1>0 DEF QuotaInv, CooledInv, Cooled
<1>4. ASSUME Holders(n)' = Holders(n) \cup {req[q].route.session}
      PROVE  Cardinality(Holders(n)') <= Cardinality(Holders(n)) + 1
  <2>1. IsFiniteSet(Holders(n)) /\ Cardinality(Holders(n)) \in Nat
    BY HoldersFinite
  <2> QED BY <1>4, <2>1, AddOne
<1>5. Cardinality(Holders(n)) \in Nat /\ req[q].lim \in Nat
  BY <1>0, HoldersFinite DEF RequestState
<1>6. CASE Holders(n)' \subseteq Holders(n)
  BY <1>0, <1>6
<1>7. CASE n = c.node /\ Holders(n)' = Holders(n) \cup {req[q].route.session}
  <2>1. Cardinality(Holders(n)') \in Nat
    <3>1. IsFiniteSet(Holders(n) \cup {req[q].route.session})
      BY HoldersFinite, FS_AddElement
    <3> QED BY <1>7, <3>1, FS_CardinalityType
  <2> QED BY <1>0, <1>2, <1>3, <1>4, <1>5, <1>7, <2>1
<1> QED BY <1>1, <1>6, <1>7

\* A node gains a session only by a request that found room for it, outside its
\* cooldown.
LEMMA QuotaStep ==
  ASSUME Typed, QuotaInv, [Next]_vars, NEW n \in Nodes
  PROVE  \/ Holders(n)' \subseteq Holders(n)
         \/ \E q \in Requests :
              /\ bindLock = q
              /\ req[q].lim > 0 => Cardinality(Holders(n)') <= req[q].lim
              /\ req[q].cd > 0 => now >= quietUntil[n]
BY OnlyBindGrows, BindEffect, Zenon DEF Shrinks

\* The inductive invariant behind the three properties below.
THEOREM QuotaInvariant == Spec => [](Typed /\ QuotaInv)
<1>1. Spec => []Typed
  BY TypeCorrect DEF Typed
<1>2. Init => QuotaInv
  BY QuotaInit
<1>3. Typed /\ Typed' /\ QuotaInv /\ [Next]_vars => QuotaInv'
  BY QuotaNext
<1> QED BY <1>1, <1>2, <1>3, PTL DEF Spec

\* affinity.Store: byProxy is the exact inverse of the bindings in every
\* reachable state.
THEOREM ReverseIndexCorrect == Spec => []ReverseIndexExact
<1>1. Typed /\ QuotaInv => ReverseIndexExact
  BY DEF QuotaInv
<1> QED BY <1>1, QuotaInvariant, PTL

\* selector.Resolve: firstBindMu is held exactly inside the check-then-write part.
THEOREM FirstBindCorrect == Spec => []FirstBindExclusive
<1>1. Typed /\ QuotaInv => FirstBindExclusive
  BY DEF QuotaInv
<1> QED BY <1>1, QuotaInvariant, PTL

\* MaxSessionsPerProxy is never exceeded by a first bind, however many requests,
\* sessions and nodes there are.
THEOREM QuotaCorrect == Spec => BindWithinLimit
<1>1. Typed /\ QuotaInv /\ [Next]_vars =>
        [\A n \in Nodes :
           Holders(n)' \subseteq Holders(n)
           \/ \E q \in Requests :
                /\ bindLock = q
                /\ req[q].lim > 0 => Cardinality(Holders(n)') <= req[q].lim]_vars
  <2> SUFFICES ASSUME Typed, QuotaInv, [Next]_vars, NEW n \in Nodes
               PROVE  \/ Holders(n)' \subseteq Holders(n)
                      \/ \E q \in Requests :
                           /\ bindLock = q
                           /\ req[q].lim > 0 => Cardinality(Holders(n)') <= req[q].lim
    OBVIOUS
  <2> QED BY QuotaStep
<1> QED BY <1>1, QuotaInvariant, PTL DEF Spec, BindWithinLimit

\* ProxyCooldownMinutes separates two first binds on one node.
THEOREM CooldownCorrect == Spec => CooldownHonoured
<1>1. Typed /\ QuotaInv /\ [Next]_vars =>
        [\A n \in Nodes :
           \/ Holders(n)' \subseteq Holders(n)
           \/ now >= quietUntil[n]
           \/ \E q \in Requests : bindLock = q /\ req[q].cd = 0]_vars
  <2> SUFFICES ASSUME Typed, QuotaInv, [Next]_vars, NEW n \in Nodes
               PROVE  \/ Holders(n)' \subseteq Holders(n)
                      \/ now >= quietUntil[n]
                      \/ \E q \in Requests : bindLock = q /\ req[q].cd = 0
    OBVIOUS
  <2>1. \A q \in Requests : req[q].cd \in Nat
    BY DEF Typed, TypeOK, RequestState
  <2> QED BY <2>1, QuotaStep
<1> QED BY <1>1, QuotaInvariant, PTL DEF Spec, CooldownHonoured

-----------------------------------------------------------------------------
(* Agreement.                                                              *)

\* No request has a node in hand that already failed it.
Untried(r) ==
  /\ r.pc \in {"sticky", "resticky", "pinned", "cool", "dial"} => r.pick \notin r.tried
  /\ r.pc = "lock" /\ r.route.pin # NoNode => r.pick \notin r.tried
  /\ \A c \in r.cand \cup r.todo : c.node \notin r.tried

UntriedInv == \A q \in Requests : Untried(req[q])

\* The nodes a first attempt of route rt may use, and the candidates.
Elig(rt) == GetByRegion(rt.region, {}, rt)
Suits(c, rt) ==
  IF rt.pin = NoNode
  THEN c.node \in Elig(rt) /\ ~RegionMismatch(c.region, rt.region)
  ELSE c.node = rt.pin

\* A binding of s that route rt would reuse, and one that is not expired either.
Fit(s, rt)  == Bound(s) /\ Suits(bindings[s], rt)
Fresh(s)    == Bound(s) /\ ~Expired(bindings[s])
Good(s, rt) == Fit(s, rt) /\ Fresh(s)

\* What a request of a session that nothing has disturbed knows at its stage.
\* Once the holder of the lock has found the binding unfit, nobody uses it.
Facts(q) ==
  LET r == req[q]
      s == r.route.session
      on == Bound(s) /\ bindings[s].node = r.pick
  IN /\ r.tried = {}
     /\ \A c \in r.cand \cup r.todo : Suits(c, r.route)
     /\ r.pc \in {"dial", "cool"} => Good(s, r.route) /\ on
     /\ r.pc = "sticky" => (Good(s, r.route) /\ on) \/ r.pick \notin Elig(r.route)
     /\ r.pc = "resticky" =>
          Fresh(s) /\ on /\ ~RegionMismatch(bindings[s].region, r.route.region)
     /\ r.pc \in {"release", "query", "occupancy", "cooldown", "bind"} => ~Fit(s, r.route)
     /\ r.pc \in {"sticky", "recheck", "resticky", "release", "query"} => r.route.pin = NoNode
     /\ r.pc = "query" /\ r.route.region # NoRegion => r.region = r.route.region
     /\ r.pc = "lock" /\ r.route.pin # NoNode => r.pick = r.route.pin
     /\ r.pc = "pinned" => r.route.pin # NoNode /\ r.pick = r.route.pin

Calm(q) == InFlight(q) /\ req[q].route.session \in Sessions \ disturbed

\* Requests of such a session want the same.
AgreementInv ==
  \A q \in Requests : Calm(q) =>
    /\ Facts(q)
    /\ \A o \in Requests : InFlight(o) /\ req[o].route.session = req[q].route.session
                           => req[o].route = req[q].route

\* The binding of s is not replaced, and lost only when it has expired.
Faded(s) ==
  /\ Bound(s)' => /\ Bound(s)
                  /\ bindings'[s].node = bindings[s].node
                  /\ bindings'[s].region = bindings[s].region
  /\ Fresh(s) => Fresh(s)'

RouteInv == UntriedInv /\ AgreementInv

\* Nobody but q moves.
Moved(q) == \A o \in Requests : o # q => req'[o] = req[o]

\* Eligibility depends on the catalog only.
LEMMA SuitsKept ==
  ASSUME catalog' = catalog
  PROVE  /\ \A rt : Elig(rt)' = Elig(rt)
         /\ \A c, rt : Suits(c, rt)' <=> Suits(c, rt)
<1>1. \A rt : Elig(rt)' = Elig(rt)
  BY DEF Elig, GetByRegion, RegionMismatch, ProxyMatchesUnlock
<1>2. QED
  BY <1>1 DEF Suits, RegionMismatch

\* Whether a binding suits a route depends on its node and region only.
LEMMA FitKept ==
  ASSUME catalog' = catalog, NEW s \in Sessions, Faded(s)
  PROVE  /\ \A rt : Fit(s, rt)' => Fit(s, rt)
         /\ \A rt : Good(s, rt) => Good(s, rt)'
         /\ Fresh(s) => Fresh(s)' /\ bindings'[s].node = bindings[s].node
                                  /\ bindings'[s].region = bindings[s].region
<1>1. Bound(s)' => \A rt : Suits(bindings'[s], rt) <=> Suits(bindings[s], rt)
  BY DEF Faded, Suits
<1>2. \A rt : Fit(s, rt)' => Fit(s, rt)
  BY <1>1, SuitsKept DEF Fit, Faded
<1>3. Fresh(s) => Bound(s)'
  BY DEF Faded, Fresh
<1>4. \A rt : Good(s, rt) => Good(s, rt)'
  BY <1>1, <1>3, SuitsKept DEF Good, Fit, Faded
<1>5. QED
  BY <1>2, <1>3, <1>4 DEF Faded

\* What a bystander knows stays true while its session's binding only fades.
LEMMA FactsKept ==
  ASSUME NEW o \in Requests, NEW s \in Sessions, req'[o] = req[o], req[o].route.session = s,
         catalog' = catalog, Faded(s), Facts(o)
  PROVE  Facts(o)'
<1>1. /\ \A rt : Elig(rt)' = Elig(rt)
      /\ \A c, rt : Suits(c, rt)' <=> Suits(c, rt)
  BY SuitsKept
<1>2. /\ \A rt : Fit(s, rt)' => Fit(s, rt)
      /\ \A rt : Good(s, rt) => Good(s, rt)'
      /\ Fresh(s) => Fresh(s)' /\ bindings'[s].node = bindings[s].node
                               /\ bindings'[s].region = bindings[s].region
  BY FitKept
<1>3. /\ \A rt : Good(s, rt) => Fresh(s)
      /\ Fresh(s)' => Bound(s)'
  BY DEF Good, Fresh
<1>4. QED
  BY <1>1, <1>2, <1>3 DEF Facts, RegionMismatch

\* A session that is calm after a step which only adds disturbances was before.
LEMMA CalmBefore ==
  ASSUME NEW o \in Requests, Calm(o)', InFlight(o), req'[o].route = req[o].route,
         disturbed \subseteq disturbed'
  PROVE  Calm(o)
BY DEF Calm

\* When q moves, the others keep what they know: the binding of their session
\* fades at most, or q holds the lock and the binding was of no use to anyone.
LEMMA AgreeStep ==
  ASSUME Typed, FirstBindExclusive, RouteInv, NEW q \in Requests, Moved(q),
         InFlight(q)' => InFlight(q) /\ req'[q].route = req[q].route,
         catalog' = catalog, disturbed \subseteq disturbed',
         \A s \in Sessions \ disturbed' :
           \/ Faded(s)
           \/ s = req[q].route.session /\ bindLock = q /\ ~Fit(s, req[q].route),
         Untried(req'[q]),
         Calm(q)' => Facts(q)'
  PROVE  RouteInv'
<1>1. UntriedInv'
  BY DEF RouteInv, UntriedInv, Moved
<1>2. ASSUME NEW o \in Requests, o # q, Calm(o)' PROVE Facts(o)'
  <2>1. req'[o] = req[o]
    BY <1>2 DEF Moved
  <2>2. InFlight(o)
    BY <1>2, <2>1 DEF Calm, InFlight
  <2>3. Calm(o) /\ Facts(o)
    BY <1>2, <2>1, <2>2, CalmBefore DEF RouteInv, AgreementInv
  <2>4. PICK s \in Sessions \ disturbed' : s = req[o].route.session
    BY <1>2, <2>1 DEF Calm
  <2>5. CASE Faded(s)
    BY <2>1, <2>3, <2>4, <2>5, FactsKept
  <2>6. CASE s = req[q].route.session /\ bindLock = q /\ ~Fit(s, req[q].route)
    <3>1. req[q].pc \in Critical /\ req[o].pc \notin Critical
      BY <1>2, <2>6 DEF FirstBindExclusive
    <3>2. InFlight(q)
      BY <3>1 DEF InFlight, Critical
    <3>3. req[q].route = req[o].route
      BY <2>3, <2>4, <2>6, <3>2 DEF RouteInv, AgreementInv
    <3>4. ~Good(s, req[o].route)
      BY <2>6, <3>3 DEF Good
    <3>5. req[o].pc # "dial" /\ (req[o].pc = "sticky" => req[o].pick \notin Elig(req[o].route))
      BY <2>3, <2>4, <3>4 DEF Facts
    <3>6. /\ \A rt : Elig(rt)' = Elig(rt)
          /\ \A c, rt : Suits(c, rt)' <=> Suits(c, rt)
      BY SuitsKept
    <3>7. /\ req[o].tried = {}
          /\ \A c \in req[o].cand \cup req[o].todo : Suits(c, req[o].route)
          /\ req[o].pc = "sticky" => req[o].route.pin = NoNode
          /\ req[o].pc = "lock" /\ req[o].route.pin # NoNode => req[o].pick = req[o].route.pin
      BY <2>3 DEF Facts
    <3>8. QED
      BY <2>1, <3>1, <3>5, <3>6, <3>7 DEF Facts, Critical
  <2>7. QED
    BY <2>4, <2>5, <2>6
<1>3. ASSUME NEW o \in Requests, Calm(o)', NEW p \in Requests, InFlight(p)',
             req'[p].route.session = req'[o].route.session
      PROVE  req'[p].route = req'[o].route
  <2>1. /\ InFlight(o) /\ req'[o].route = req[o].route
        /\ InFlight(p) /\ req'[p].route = req[p].route
    BY <1>3 DEF Moved, Calm, InFlight
  <2>2. Calm(o)
    BY <1>3, <2>1, CalmBefore
  <2>3. QED
    BY <1>3, <2>1, <2>2 DEF RouteInv, AgreementInv
<1>4. \A o \in Requests : Calm(o)' => Facts(o)'
  BY <1>2
<1>5. AgreementInv'
  BY <1>3, <1>4 DEF AgreementInv
<1>6. QED
  BY <1>1, <1>5 DEF RouteInv

\* The same when no request moves.
LEMMA AgreeBackground ==
  ASSUME RouteInv, UNCHANGED <<req, catalog>>, disturbed \subseteq disturbed',
         \A s \in Sessions \ disturbed' : Faded(s)
  PROVE  RouteInv'
<1>1. UntriedInv'
  BY DEF RouteInv, UntriedInv
<1>2. ASSUME NEW o \in Requests, Calm(o)' PROVE Facts(o)' /\ Calm(o)
  <2>1. Calm(o)
    BY <1>2 DEF Calm, InFlight
  <2>2. PICK s \in Sessions \ disturbed' : s = req[o].route.session
    BY <1>2 DEF Calm
  <2>3. QED
    BY <2>1, <2>2, FactsKept DEF RouteInv, AgreementInv
<1>3. AgreementInv'
  BY <1>2 DEF AgreementInv, RouteInv, InFlight
<1>4. QED
  BY <1>1, <1>3 DEF RouteInv

-----------------------------------------------------------------------------
(* How bindings fade.                                                      *)

\* Bindings that no step touches.
LEMMA FadedSame ==
  ASSUME UNCHANGED <<now, ttl>>, NEW s, bindings'[s] = bindings[s]
  PROVE  Faded(s)
BY DEF Faded, Fresh, Bound, Expired

\* A removed binding had expired, or is of the session q gave up.
LEMMA FadedRemove ==
  ASSUME UNCHANGED <<now, ttl>>, NEW s \in Sessions, NEW S, RemoveBindings(S),
         s \in S => ~Fresh(s)
  PROVE  Faded(s)
<1>1. bindings'[s] = IF s \in S THEN NoBinding ELSE bindings[s]
  BY DEF RemoveBindings
<1>2. QED
  BY <1>1 DEF Faded, Fresh, Bound, Expired

\* Get drops an expired binding and refreshes a live one.
LEMMA FadedGet ==
  ASSUME Typed, UNCHANGED <<now, ttl>>, NEW s \in Sessions, NEW t \in Sessions, Get(t)
  PROVE  /\ Faded(s)
         /\ Live(t) # NoBinding => Fresh(t) /\ Fresh(t)' /\ Live(t) = bindings[t]
                                   /\ bindings'[t].node = bindings[t].node
                                   /\ bindings'[t].region = bindings[t].region
         /\ Live(t) = NoBinding => ~Bound(t)'
<1>1. CASE Live(t) = NoBinding
  <2>1. RemoveBindings({t}) /\ ~Fresh(t)
    BY <1>1 DEF Get, Live, Fresh, Bound
  <2>2. bindings'[t] = NoBinding
    BY <2>1 DEF RemoveBindings
  <2>3. QED
    BY <1>1, <2>1, <2>2, FadedRemove DEF Bound
<1>2. CASE Live(t) # NoBinding
  <2>1. bindings[t] \in Binding /\ bindings[t] # NoBinding /\ Live(t) = bindings[t] /\ Fresh(t)
    BY <1>2, LiveType, RoutingAssumption DEF Live, Fresh, Typed
  <2> DEFINE b == [bindings[t] EXCEPT !.last = now]
  <2>2. /\ b.node = bindings[t].node /\ b.region = bindings[t].region /\ b.last = now
        /\ b # NoBinding
    BY <2>1, RoutingAssumption DEF Typed, TypeOK, Binding
  <2>3. bindings'[t] = b /\ (s # t => bindings'[s] = bindings[s])
    BY <1>2 DEF Get, Typed, TypeOK
  <2> HIDE DEF b
  <2>4. Fresh(t)'
    BY <2>2, <2>3 DEF Fresh, Bound, Expired, Typed, TypeOK
  <2>5. Bound(t)
    BY <2>1 DEF Bound
  <2>6. Faded(s)
    BY <2>2, <2>3, <2>4, <2>5, FadedSame DEF Faded
  <2>7. QED
    BY <1>2, <2>1, <2>2, <2>3, <2>4, <2>6
<1>3. QED
  BY <1>1, <1>2

\* CountByProxy drops expired bindings only.
LEMMA FadedPrune ==
  ASSUME UNCHANGED <<now, ttl>>, NEW s \in Sessions, NEW n, PruneProxy(n)
  PROVE  Faded(s)
<1>1. bindings'[s] = IF s \in CountedExpired(n) THEN NoBinding ELSE bindings[s]
  BY DEF PruneProxy
<1>2. s \in CountedExpired(n) => ~Fresh(s)
  BY DEF CountedExpired, ExpiredOf, Fresh
<1>3. QED
  BY <1>1, <1>2 DEF Faded, Fresh, Bound, Expired

\* The other actors keep the invariant: what makes a binding expire or changes a
\* node counts as a disturbance.
LEMMA EnvironmentAgrees ==
  ASSUME Typed, RouteInv, Environment
  PROVE  RouteInv'
<1>1. CASE CollectExpired
  <2>1. /\ UNCHANGED <<now, ttl, req, catalog, disturbed>>
        /\ RemoveBindings(ExpiredOf(Sessions))
    BY <1>1 DEF CollectExpired, envVars
  <2>2. \A s \in Sessions : Faded(s)
    BY <2>1, FadedRemove DEF ExpiredOf, Fresh
  <2>3. QED
    BY <2>1, <2>2, AgreeBackground
<1>2. CASE \E n \in Nodes, v \in Regions \cup {Down} : CatalogChanges(n, v)
  <2>1. disturbed' = Sessions /\ UNCHANGED req
    BY <1>2 DEF CatalogChanges
  <2>2. \A o \in Requests : ~Calm(o)'
    BY <2>1 DEF Calm
  <2>3. QED
    BY <2>1, <2>2 DEF RouteInv, UntriedInv, AgreementInv
<1>3. CASE \E c \in Settings : Reconfigure(c)
  <2>1. UNCHANGED <<now, ttl, bindings, req, catalog, disturbed>>
    BY <1>3 DEF Reconfigure, storeVars
  <2>2. QED
    BY <2>1, FadedSame, AgreeBackground
<1>4. CASE \E t \in TTLs : SetTTL(t)
  <2>1. PICK t \in TTLs : SetTTL(t)
    BY <1>4
  <2>2. /\ ttl' = t /\ UNCHANGED <<now, bindings, req, catalog>>
        /\ disturbed' = disturbed \cup
              {s \in Sessions : Bound(s) /\ t > 0 /\ now - bindings[s].last >= t}
    BY <2>1 DEF SetTTL, storeVars
  <2>3. \A s \in Sessions \ disturbed' : Faded(s)
    BY <2>2 DEF Faded, Fresh, Bound, Expired
  <2>4. QED
    BY <2>2, <2>3, AgreeBackground
<1>5. CASE Tick
  <2>1. /\ now' = now + 1 /\ UNCHANGED <<ttl, bindings, req, catalog>>
        /\ disturbed' = disturbed \cup
              {s \in Sessions : Bound(s) /\ ttl > 0 /\ now + 1 - bindings[s].last >= ttl}
    BY <1>5 DEF Tick, storeVars
  <2>2. ASSUME NEW s \in Sessions \ disturbed' PROVE Faded(s)
    <3>1. now \in Nat /\ ttl \in Nat /\ (Bound(s) => bindings[s].last \in Nat)
      BY RoutingAssumption DEF Typed, TypeOK, Binding, Bound
    <3>2. Bound(s) => ~(ttl' > 0 /\ now' - bindings'[s].last >= ttl')
      BY <2>1, <3>1
    <3>3. QED
      BY <2>1, <3>2 DEF Faded, Fresh, Bound, Expired
  <2>3. QED
    BY <2>1, <2>2, AgreeBackground
<1>6. QED
  BY <1>1, <1>2, <1>3, <1>4, <1>5 DEF Environment

-----------------------------------------------------------------------------
(* One request steps.                                                      *)

\* A step of q and of nobody else.
LEMMA Stepped ==
  ASSUME Typed, NEW q \in Requests, NEW r, Step(q, r)
  PROVE  req'[q] = r /\ Moved(q)
BY DEF Typed, TypeOK, Step, Moved

\* What the invariant and the types say about q.
LEMMA OwnFacts ==
  ASSUME Typed, RouteInv, NEW q \in Requests
  PROVE  /\ req[q] \in RequestState /\ Shaped(req[q]) /\ Untried(req[q])
         /\ Calm(q) => Facts(q)
BY RequestFields DEF Typed, RouteInv, UntriedInv, AgreementInv

\* An answered request is over.
LEMMA AnswerAgrees ==
  ASSUME Typed, FirstBindExclusive, RouteInv, NEW q \in Requests, Answer(q),
         catalog' = catalog, disturbed \subseteq disturbed',
         \A s \in Sessions \ disturbed' : Faded(s)
  PROVE  RouteInv'
<1>1. req'[q] = FreshRequest /\ Moved(q)
  BY Stepped DEF Answer
<1>2. ~InFlight(q)' /\ ~Calm(q)'
  BY <1>1 DEF InFlight, Calm, FreshRequest
<1>3. Untried(req'[q])
  BY <1>1 DEF FreshRequest, Untried
<1>4. QED
  BY <1>1, <1>2, <1>3, AgreeStep

\* A step of q that leaves the store alone.
LEMMA PlainAgrees ==
  ASSUME Typed, FirstBindExclusive, RouteInv, NEW q \in Requests, Moved(q),
         InFlight(q), req'[q].route = req[q].route,
         UNCHANGED <<bindings, envVars, disturbed>>,
         Untried(req'[q]),
         Calm(q)' => Facts(q)'
  PROVE  RouteInv'
<1>1. \A s \in Sessions : Faded(s)
  BY FadedSame DEF envVars
<1>2. catalog' = catalog
  BY DEF envVars
<1>3. QED
  BY <1>1, <1>2, AgreeStep

\* Arrive: the newcomer has no node yet, and wants what its peers want or
\* disturbs them.
LEMMA ArriveAgrees ==
  ASSUME Typed, FirstBindExclusive, RouteInv, NEW q \in Requests, NEW rt \in Routes,
         Arrive(q, rt)
  PROVE  RouteInv'
<1> DEFINE peers == {o \in Requests \ {q} : InFlight(o) /\ req[o].route.session = rt.session}
           own == {rt.session} \cap Sessions
           r == [FreshRequest EXCEPT !.pc = "select", !.route = rt]
<1>1. /\ ~InFlight(q) /\ Step(q, r) /\ UNCHANGED <<bindings, envVars>>
      /\ disturbed' = IF peers = {} THEN disturbed \ own
                      ELSE IF \E o \in peers : req[o].route # rt
                           THEN disturbed \cup own ELSE disturbed
  BY DEF Arrive, storeVars
<1>2. req'[q] = r /\ Moved(q) /\ catalog' = catalog
  BY <1>1, Stepped DEF envVars
<1>3. r.pc = "select" /\ r.route = rt /\ r.tried = {} /\ r.todo = {} /\ r.cand = {}
  BY DEF FreshRequest
<1> HIDE DEF r
<1>4. UntriedInv'
  BY <1>2, <1>3 DEF RouteInv, UntriedInv, Untried, Moved
<1>5. Facts(q)'
  BY <1>2, <1>3 DEF Facts
<1>6. ASSUME NEW o \in Requests, o # q, Calm(o)'
      PROVE  Calm(o) /\ Facts(o)' /\ (rt.session = req[o].route.session => req[o].route = rt)
  <2>1. req'[o] = req[o] /\ InFlight(o)
    BY <1>2, <1>6 DEF Moved, Calm, InFlight
  <2>2. o \in peers <=> req[o].route.session = rt.session
    BY <1>6, <2>1
  <2>3. Calm(o) /\ (rt.session = req[o].route.session => req[o].route = rt)
    BY <1>1, <1>6, <2>1, <2>2 DEF Calm
  <2>4. PICK s \in Sessions : s = req[o].route.session
    BY <2>3 DEF Calm
  <2>5. Faded(s)
    BY <1>1, FadedSame DEF envVars
  <2>6. QED
    BY <1>2, <2>1, <2>3, <2>4, <2>5, FactsKept DEF RouteInv, AgreementInv
<1>7. \A o \in Requests : Calm(o)' => Facts(o)'
  BY <1>5, <1>6
<1>8. ASSUME NEW o \in Requests, Calm(o)', NEW p \in Requests, InFlight(p)',
             req'[p].route.session = req'[o].route.session
      PROVE  req'[p].route = req'[o].route
  <2>1. CASE o = q /\ p # q
    <3>1. req'[p] = req[p] /\ InFlight(p) /\ p \in peers
      BY <1>2, <1>3, <1>8, <2>1 DEF Moved, InFlight
    <3>2. rt.session \notin disturbed' /\ rt.session \in Sessions
      BY <1>2, <1>3, <1>8, <2>1 DEF Calm
    <3>3. req[p].route = rt
      BY <1>1, <3>1, <3>2
    <3>4. QED
      BY <1>2, <1>3, <2>1, <3>1, <3>3
  <2>2. CASE o # q /\ p = q
    BY <1>2, <1>3, <1>6, <1>8, <2>2 DEF Moved
  <2>3. CASE o # q /\ p # q
    <3>1. Calm(o) /\ req'[p] = req[p] /\ req'[o] = req[o] /\ InFlight(p)
      BY <1>2, <1>6, <1>8, <2>3 DEF Moved, InFlight
    <3>2. QED
      BY <1>8, <3>1 DEF RouteInv, AgreementInv
  <2>4. QED
    BY <2>1, <2>2, <2>3
<1>9. QED
  BY <1>4, <1>7, <1>8 DEF RouteInv, AgreementInv

\* Resolve with a pin: the pinned node has not been tried.
LEMMA ResolvePinnedAgrees ==
  ASSUME Typed, FirstBindExclusive, RouteInv, NEW q \in Requests, ResolvePinnedNode(q)
  PROVE  RouteInv'
<1> DEFINE n == req[q].route.pin
           t == IF req[q].route.session = NoSession THEN "dial" ELSE "lock"
           c == {[node |-> n, region |-> catalog[n]]}
           r == [req[q] EXCEPT !.pick = n, !.cand = c, !.pc = t]
<1>0. /\ req[q].pc = "select" /\ n # NoNode
      /\ UNCHANGED <<bindings, envVars, disturbed>> /\ catalog' = catalog
  BY DEF ResolvePinnedNode, Selecting, storeVars, envVars
<1>1. CASE n \notin GetByRegion(req[q].route.region, req[q].tried, req[q].route)
  <2>1. Answer(q)
    BY <1>1 DEF ResolvePinnedNode
  <2>2. \A s \in Sessions : Faded(s)
    BY <1>0, FadedSame DEF envVars
  <2>3. QED
    BY <1>0, <2>1, <2>2, AnswerAgrees
<1>2. CASE n \in GetByRegion(req[q].route.region, req[q].tried, req[q].route)
  <2>1. Step(q, r) /\ n \notin req[q].tried
    BY <1>2 DEF ResolvePinnedNode, GetByRegion
  <2>2. /\ req[q] \in RequestState /\ Untried(req[q])
        /\ Calm(q) => Facts(q)
    BY OwnFacts
  <2>3. \A x \in c : x.node = n
    OBVIOUS
  <2>4. t \in {"dial", "lock"} /\ (req[q].route.session \in Sessions => t = "lock")
    BY RoutingAssumption
  <2> HIDE DEF n, t, c
  <2>5. /\ r.pc = t /\ r.pick = n /\ r.cand = c /\ r.tried = req[q].tried
        /\ r.todo = req[q].todo /\ r.route = req[q].route
    BY <2>2 DEF RequestState
  <2> HIDE DEF r
  <2>6. req'[q] = r /\ Moved(q)
    BY <2>1, Stepped
  <2>7. Untried(req'[q])
    BY <2>1, <2>2, <2>3, <2>4, <2>5, <2>6 DEF Untried
  <2>8. ASSUME Calm(q)' PROVE Facts(q)'
    <3>1. Calm(q) /\ t = "lock"
      BY <1>0, <2>4, <2>5, <2>6, <2>8 DEF Calm, InFlight
    <3>2. \A x \in c : Suits(x, req[q].route)
      BY <1>0, <2>3 DEF Suits, n
    <3>3. QED
      BY <1>0, <2>2, <2>5, <2>6, <3>1, <3>2, SuitsKept DEF Facts, n
  <2>9. QED
    BY <1>0, <2>5, <2>6, <2>7, <2>8, PlainAgrees DEF InFlight
<1>3. QED
  BY <1>1, <1>2

\* Resolve without a session or a pin.
LEMMA PickUnlockAgrees ==
  ASSUME Typed, FirstBindExclusive, RouteInv, NEW q \in Requests, PickUnlock(q)
  PROVE  RouteInv'
<1>0. /\ req[q].pc = "select" /\ req[q].route.session = NoSession
      /\ UNCHANGED <<bindings, envVars, disturbed>> /\ catalog' = catalog
  BY DEF PickUnlock, Selecting, storeVars, envVars
<1>1. CASE Answer(q)
  <2>1. \A s \in Sessions : Faded(s)
    BY <1>0, FadedSame DEF envVars
  <2>2. QED
    BY <1>0, <1>1, <2>1, AnswerAgrees
<1>2. CASE ~Answer(q)
  <2>1. PICK n \in GetByRegion(req[q].route.region, req[q].tried, req[q].route) :
          Step(q, [req[q] EXCEPT !.pick = n, !.pc = "dial"])
    BY <1>2 DEF PickUnlock
  <2> DEFINE r == [req[q] EXCEPT !.pick = n, !.pc = "dial"]
  <2>2. req[q] \in RequestState /\ Untried(req[q]) /\ n \notin req[q].tried
    BY <2>1, OwnFacts DEF GetByRegion
  <2>3. /\ r.pc = "dial" /\ r.pick = n /\ r.cand = req[q].cand /\ r.tried = req[q].tried
        /\ r.todo = req[q].todo /\ r.route = req[q].route
    BY <2>2 DEF RequestState
  <2>4. req'[q] = r /\ Moved(q)
    BY <2>1, Stepped
  <2> HIDE DEF r
  <2>5. Untried(req'[q])
    BY <2>2, <2>3, <2>4 DEF Untried
  <2>6. ~Calm(q)'
    BY <1>0, <2>3, <2>4, RoutingAssumption DEF Calm
  <2>7. QED
    BY <1>0, <2>3, <2>4, <2>5, <2>6, PlainAgrees DEF InFlight
<1>3. QED
  BY <1>1, <1>2

\* Both halves of stickyBoundProxy: a binding that is passed over under the lock
\* does not suit the route, one that is not is live and in the region.
LEMMA StickyGetAgrees ==
  ASSUME Typed, FirstBindExclusive, RouteInv, NEW q \in Requests,
         NEW found \in {"sticky", "resticky"}, NEW missed \in {"lock", "release"},
         InFlight(q), req[q].route.session \in Sessions,
         missed = "lock" \/ Calm(q) => req[q].route.pin = NoNode,
         StickyGet(q, found, missed)
  PROVE  RouteInv'
<1>1. PICK s \in Sessions : s = req[q].route.session
  OBVIOUS
<1> DEFINE b == Live(s)
           r1 == [req[q] EXCEPT !.pick = b.node, !.pc = found]
           r2 == [req[q] EXCEPT !.pc = missed]
           hit == /\ b # NoBinding
                  /\ b.node \notin req[q].tried
                  /\ ~RegionMismatch(b.region, req[q].route.region)
<1>2. /\ Get(s) /\ IF hit THEN Step(q, r1) ELSE Step(q, r2)
      /\ UNCHANGED <<now, ttl, catalog, disturbed>>
  BY <1>1 DEF StickyGet, envVars
<1>3. /\ \A t \in Sessions : Faded(t)
      /\ b # NoBinding => Fresh(s) /\ Fresh(s)' /\ b = bindings[s]
                          /\ bindings'[s].node = b.node /\ bindings'[s].region = b.region
      /\ b = NoBinding => ~Bound(s)'
  BY <1>2, FadedGet
<1>4. req[q] \in RequestState /\ Untried(req[q]) /\ (Calm(q) => Facts(q))
  BY OwnFacts
<1> HIDE DEF b
<1>5. /\ r1.pc = found /\ r1.pick = b.node /\ r2.pc = missed
      /\ \A r \in {r1, r2} : /\ r.cand = req[q].cand /\ r.tried = req[q].tried
                             /\ r.todo = req[q].todo /\ r.route = req[q].route
  BY <1>4 DEF RequestState
<1>6. (hit => req'[q] = r1) /\ (~hit => req'[q] = r2) /\ Moved(q)
  BY <1>2, Stepped
<1> HIDE DEF r1, r2
<1>7. Untried(req'[q])
  BY <1>4, <1>5, <1>6 DEF Untried
<1>8. ASSUME Calm(q)' PROVE Facts(q)'
  <2>1. Calm(q) /\ Facts(q) /\ req'[q].route = req[q].route /\ req[q].route.pin = NoNode
    BY <1>2, <1>4, <1>5, <1>6, <1>8 DEF Calm
  <2>2. /\ \A rt : Elig(rt)' = Elig(rt)
        /\ \A c, rt : Suits(c, rt)' <=> Suits(c, rt)
    BY <1>2, SuitsKept
  <2>3. /\ req[q].tried = {}
        /\ \A c \in req[q].cand \cup req[q].todo : Suits(c, req[q].route)
    BY <2>1 DEF Facts
  <2>4. CASE hit
    <3>1. Fresh(s)' /\ Bound(s)' /\ bindings'[s].node = r1.pick
          /\ ~RegionMismatch(bindings'[s].region, req[q].route.region)
      BY <1>3, <1>5, <2>4 DEF Fresh
    <3>2. r1.pick \in Elig(req[q].route) => Suits(bindings'[s], req[q].route)
      BY <2>1, <3>1 DEF Suits
    <3>3. r1.pick \in Elig(req[q].route) => Good(s, req[q].route)'
      BY <2>1, <2>2, <3>1, <3>2 DEF Good, Fit
    <3>4. QED
      BY <1>1, <1>5, <1>6, <2>1, <2>2, <2>3, <2>4, <3>1, <3>3 DEF Facts, RegionMismatch
  <2>5. CASE ~hit
    <3>1. ~Fit(s, req[q].route)'
      <4>1. CASE b = NoBinding
        BY <1>3, <4>1 DEF Fit
      <4>2. CASE RegionMismatch(b.region, req[q].route.region) /\ b # NoBinding
        BY <1>3, <2>1, <4>2 DEF Fit, Suits, RegionMismatch
      <4>3. QED
        BY <2>3, <2>5, <4>1, <4>2
    <3>2. QED
      BY <1>1, <1>5, <1>6, <2>1, <2>2, <2>3, <2>5, <3>1 DEF Facts
  <2>6. QED
    BY <2>4, <2>5
<1>9. QED
  BY <1>2, <1>3, <1>5, <1>6, <1>7, <1>8, AgreeStep

\* The fast path and the test repeated under the lock.
LEMMA StickyGetsAgree ==
  ASSUME Typed, FirstBindExclusive, RouteInv, NEW q \in Requests,
         StickyFastGet(q) \/ StickyRecheckGet(q)
  PROVE  RouteInv'
<1>1. req[q] \in RequestState /\ Shaped(req[q])
  BY OwnFacts
<1>2. CASE StickyFastGet(q)
  <2>1. req[q].route.session \in Sessions /\ InFlight(q) /\ req[q].route.pin = NoNode
    BY <1>1, <1>2 DEF StickyFastGet, Selecting, InFlight, RequestState, Route
  <2>2. StickyGet(q, "sticky", "lock")
    BY <1>2 DEF StickyFastGet
  <2>3. QED
    BY <2>1, <2>2, StickyGetAgrees
<1>3. CASE StickyRecheckGet(q)
  <2>1. req[q].route.session \in Sessions /\ InFlight(q)
    BY <1>1, <1>3 DEF StickyRecheckGet, InFlight, Shaped, Critical
  <2>2. Calm(q) => req[q].route.pin = NoNode
    BY <1>3, OwnFacts DEF StickyRecheckGet, Facts
  <2>3. StickyGet(q, "resticky", "release")
    BY <1>3 DEF StickyRecheckGet
  <2>4. QED
    BY <2>1, <2>2, <2>3, StickyGetAgrees
<1>4. QED
  BY <1>2, <1>3

\* The lookup of a bound node decides whether its binding suits the route.
LEMMA StickyLookupsAgree ==
  ASSUME Typed, FirstBindExclusive, RouteInv, NEW q \in Requests,
         StickyFastLookup(q) \/ StickyRecheckLookup(q)
  PROVE  RouteInv'
<1> DEFINE t == IF StickyLookup(q) THEN "dial"
                ELSE IF req[q].pc = "sticky" THEN "lock" ELSE "release"
           r == [req[q] EXCEPT !.pc = t]
<1>1. /\ req[q].pc \in {"sticky", "resticky"} /\ Step(q, r)
      /\ UNCHANGED <<bindings, envVars, disturbed>> /\ catalog' = catalog
  BY DEF StickyFastLookup, StickyRecheckLookup, storeVars, envVars
<1>2. /\ req[q] \in RequestState /\ Shaped(req[q]) /\ Untried(req[q])
      /\ Calm(q) => Facts(q)
  BY OwnFacts
<1>3. /\ t \in {"dial", "lock", "release"}
      /\ t = "dial" <=> StickyLookup(q)
      /\ t = "lock" => req[q].pc = "sticky"
      /\ t = "release" => req[q].pc = "resticky"
  BY <1>1
<1> HIDE DEF t
<1>4. /\ r.pc = t /\ r.pick = req[q].pick /\ r.cand = req[q].cand /\ r.tried = req[q].tried
      /\ r.todo = req[q].todo /\ r.route = req[q].route
  BY <1>2 DEF RequestState
<1>5. req'[q] = r /\ Moved(q)
  BY <1>1, Stepped
<1> HIDE DEF r
<1>6. Untried(req'[q])
  BY <1>1, <1>2, <1>3, <1>4, <1>5 DEF Untried
<1>7. ASSUME Calm(q)' PROVE Facts(q)'
  <2>1. Calm(q) /\ Facts(q)
    BY <1>1, <1>2, <1>4, <1>5, <1>7 DEF Calm, InFlight
  <2>2. PICK s \in Sessions : s = req[q].route.session
    BY <2>1 DEF Calm
  <2>3. /\ req[q].tried = {} /\ req[q].route.pin = NoNode
        /\ \A c \in req[q].cand \cup req[q].todo : Suits(c, req[q].route)
    BY <1>1, <2>1 DEF Facts
  <2>4. StickyLookup(q) <=> req[q].pick \in Elig(req[q].route)
    BY <2>3 DEF StickyLookup, Elig
  <2>5. Faded(s)
    BY <1>1, FadedSame DEF envVars
  <2>6. /\ \A rt : Fit(s, rt)' => Fit(s, rt)
        /\ \A rt : Good(s, rt) => Good(s, rt)'
        /\ Fresh(s) => Fresh(s)' /\ bindings'[s].node = bindings[s].node
                                 /\ bindings'[s].region = bindings[s].region
    BY <1>1, <2>5, FitKept
  <2>7. /\ \A rt : Elig(rt)' = Elig(rt)
        /\ \A c, rt : Suits(c, rt)' <=> Suits(c, rt)
    BY <1>1, SuitsKept
  <2>8. CASE t = "dial"
    <3>1. Good(s, req[q].route) /\ bindings[s].node = req[q].pick
      <4>1. CASE req[q].pc = "sticky"
        BY <1>3, <2>1, <2>2, <2>4, <2>8, <4>1 DEF Facts
      <4>2. CASE req[q].pc = "resticky"
        <5>1. /\ Fresh(s) /\ Bound(s) /\ bindings[s].node = req[q].pick
              /\ ~RegionMismatch(bindings[s].region, req[q].route.region)
          BY <2>1, <2>2, <4>2 DEF Facts
        <5>2. QED
          BY <1>3, <2>3, <2>4, <2>8, <5>1 DEF Good, Fit, Suits
      <4>3. QED
        BY <1>1, <4>1, <4>2
    <3>2. Good(s, req[q].route) => Fresh(s)
      BY DEF Good
    <3>3. Fresh(s)' => Bound(s)'
      BY DEF Fresh
    <3>4. QED
      BY <1>4, <1>5, <2>2, <2>3, <2>6, <2>7, <2>8, <3>1, <3>2, <3>3 DEF Facts
  <2>9. CASE t = "lock"
    BY <1>4, <1>5, <2>3, <2>7, <2>9 DEF Facts
  <2>10. CASE t = "release"
    <3>1. ~Fit(s, req[q].route)
      <4>1. req[q].pc = "resticky" /\ req[q].pick \notin Elig(req[q].route)
        BY <1>3, <2>4, <2>10
      <4>2. bindings[s].node = req[q].pick
        BY <2>1, <2>2, <4>1 DEF Facts
      <4>3. QED
        BY <2>3, <4>1, <4>2 DEF Fit, Suits
    <3>2. QED
      BY <1>4, <1>5, <2>2, <2>3, <2>6, <2>7, <2>10, <3>1 DEF Facts
  <2>11. QED
    BY <1>3, <2>8, <2>9, <2>10
<1>8. QED
  BY <1>1, <1>4, <1>5, <1>6, <1>7, PlainAgrees DEF InFlight

\* BeginFirstBind.
LEMMA BeginFirstBindAgrees ==
  ASSUME Typed, FirstBindExclusive, RouteInv, NEW q \in Requests, BeginFirstBind(q)
  PROVE  RouteInv'
<1> DEFINE t == IF req[q].route.pin = NoNode THEN "recheck" ELSE "pinned"
           r == [req[q] EXCEPT !.pc = t]
<1>1. /\ req[q].pc = "lock" /\ Step(q, r)
      /\ UNCHANGED <<bindings, envVars, disturbed>> /\ catalog' = catalog
  BY DEF BeginFirstBind, storeVars, envVars
<1>2. /\ req[q] \in RequestState /\ Untried(req[q]) /\ (Calm(q) => Facts(q))
  BY OwnFacts
<1>3. /\ t \in {"recheck", "pinned"}
      /\ t = "pinned" <=> req[q].route.pin # NoNode
  OBVIOUS
<1> HIDE DEF t
<1>4. /\ r.pc = t /\ r.pick = req[q].pick /\ r.cand = req[q].cand /\ r.tried = req[q].tried
      /\ r.todo = req[q].todo /\ r.route = req[q].route
  BY <1>2 DEF RequestState
<1>5. req'[q] = r /\ Moved(q)
  BY <1>1, Stepped
<1> HIDE DEF r
<1>6. Untried(req'[q])
  BY <1>1, <1>2, <1>3, <1>4, <1>5 DEF Untried
<1>7. ASSUME Calm(q)' PROVE Facts(q)'
  <2>1. Facts(q)
    BY <1>1, <1>2, <1>4, <1>5, <1>7 DEF Calm, InFlight
  <2>2. /\ req[q].tried = {}
        /\ \A c \in req[q].cand \cup req[q].todo : Suits(c, req[q].route)
        /\ req[q].route.pin # NoNode => req[q].pick = req[q].route.pin
    BY <1>1, <2>1 DEF Facts
  <2>3. \A c, rt : Suits(c, rt)' <=> Suits(c, rt)
    BY <1>1, SuitsKept
  <2>4. QED
    BY <1>3, <1>4, <1>5, <2>2, <2>3 DEF Facts
<1>8. QED
  BY <1>1, <1>4, <1>5, <1>6, <1>7, PlainAgrees DEF InFlight

\* PinnedGet: the session is on the pinned node, or its binding does not suit.
LEMMA PinnedGetAgrees ==
  ASSUME Typed, FirstBindExclusive, RouteInv, NEW q \in Requests, PinnedGet(q)
  PROVE  RouteInv'
<1>1. req[q] \in RequestState /\ Shaped(req[q]) /\ Untried(req[q]) /\ (Calm(q) => Facts(q))
  BY OwnFacts
<1>2. PICK s \in Sessions : s = req[q].route.session
  BY <1>1 DEF PinnedGet, Shaped, Critical
<1> DEFINE b == Live(s)
           hit == b # NoBinding /\ b.node = req[q].pick
           max == cfg.max
           r1 == [req[q] EXCEPT !.pc = "dial", !.cand = {}]
           r2 == [req[q] EXCEPT !.pc = "occupancy", !.todo = req[q].cand,
                                !.cand = {}, !.lim = max]
<1>3. /\ req[q].pc = "pinned" /\ Get(s) /\ IF hit THEN Step(q, r1) ELSE Step(q, r2)
      /\ UNCHANGED <<now, ttl, catalog, disturbed>>
  BY <1>2 DEF PinnedGet, envVars
<1>4. /\ \A t \in Sessions : Faded(t)
      /\ b # NoBinding => Fresh(s) /\ Fresh(s)' /\ b = bindings[s]
                          /\ bindings'[s].node = b.node
      /\ b = NoBinding => ~Bound(s)'
  BY <1>3, FadedGet
<1> HIDE DEF b, max
<1>5. /\ r1.pc = "dial" /\ r1.cand = {} /\ r1.todo = req[q].todo
      /\ r2.pc = "occupancy" /\ r2.cand = {} /\ r2.todo = req[q].cand
      /\ \A r \in {r1, r2} : /\ r.pick = req[q].pick /\ r.tried = req[q].tried
                             /\ r.route = req[q].route
  BY <1>1 DEF RequestState
<1>6. (hit => req'[q] = r1) /\ (~hit => req'[q] = r2) /\ Moved(q)
  BY <1>3, Stepped
<1> HIDE DEF r1, r2
<1>7. Untried(req'[q])
  BY <1>1, <1>3, <1>5, <1>6 DEF Untried
<1>8. ASSUME Calm(q)' PROVE Facts(q)'
  <2>1. Facts(q) /\ req'[q].route = req[q].route
    BY <1>1, <1>3, <1>5, <1>6, <1>8 DEF Calm, InFlight
  <2>2. \A c, rt : Suits(c, rt)' <=> Suits(c, rt)
    BY <1>3, SuitsKept
  <2>3. /\ req[q].tried = {} /\ req[q].route.pin # NoNode /\ req[q].pick = req[q].route.pin
        /\ \A c \in req[q].cand \cup req[q].todo : Suits(c, req[q].route)
    BY <1>3, <2>1 DEF Facts
  <2>4. CASE hit
    <3>1. Fresh(s)' /\ Bound(s)' /\ bindings'[s].node = req[q].pick
      BY <1>4, <2>4 DEF Fresh
    <3>2. Suits(bindings'[s], req[q].route)
      BY <2>3, <3>1 DEF Suits
    <3>3. Good(s, req[q].route)'
      BY <2>1, <2>2, <3>1, <3>2 DEF Good, Fit
    <3>4. QED
      BY <1>2, <1>5, <1>6, <2>1, <2>2, <2>3, <2>4, <3>1, <3>3 DEF Facts
  <2>5. CASE ~hit
    <3>1. ~Fit(s, req[q].route)'
      BY <1>4, <2>1, <2>3, <2>5 DEF Fit, Suits
    <3>2. QED
      BY <1>2, <1>5, <1>6, <2>1, <2>2, <2>3, <2>5, <3>1 DEF Facts
  <2>6. QED
    BY <2>4, <2>5
<1>9. InFlight(q) /\ req'[q].route = req[q].route
  BY <1>3, <1>5, <1>6 DEF InFlight
<1>10. QED
  BY <1>3, <1>4, <1>6, <1>7, <1>8, <1>9, AgreeStep

\* ReleaseStaleBinding: the binding it removes suits nobody.
LEMMA ReleaseStaleAgrees ==
  ASSUME Typed, FirstBindExclusive, RouteInv, NEW q \in Requests, ReleaseStaleBinding(q)
  PROVE  RouteInv'
<1> DEFINE b == Live(req[q].route.session)
           g == IF req[q].route.region = NoRegion /\ b # NoBinding
                THEN b.region ELSE req[q].route.region
           max == cfg.max
           r == [req[q] EXCEPT !.pc = "query", !.lim = max, !.region = g]
<1>1. /\ req[q].pc = "release" /\ RemoveBindings({req[q].route.session}) /\ Step(q, r)
      /\ UNCHANGED <<now, ttl, catalog, disturbed>>
  BY DEF ReleaseStaleBinding, envVars
<1>2. /\ req[q] \in RequestState /\ Shaped(req[q]) /\ Untried(req[q]) /\ (Calm(q) => Facts(q))
  BY OwnFacts
<1>3. req[q].route.region # NoRegion => g = req[q].route.region
  OBVIOUS
<1> HIDE DEF g, max
<1>4. /\ r.pc = "query" /\ r.pick = req[q].pick /\ r.cand = req[q].cand
      /\ r.tried = req[q].tried /\ r.todo = req[q].todo /\ r.route = req[q].route
      /\ r.region = g
  BY <1>2 DEF RequestState
<1>5. req'[q] = r /\ Moved(q)
  BY <1>1, Stepped
<1> HIDE DEF r
<1>6. Untried(req'[q])
  BY <1>1, <1>2, <1>4, <1>5 DEF Untried
<1>7. PICK s \in Sessions : s = req[q].route.session
  BY <1>1, <1>2 DEF Shaped, Critical
<1>8. ~Bound(s)' /\ \A u \in Sessions : u # s => bindings'[u] = bindings[u]
  BY <1>1, <1>7 DEF RemoveBindings, Bound
<1>9. ASSUME NEW u \in Sessions \ disturbed'
      PROVE  \/ Faded(u)
             \/ u = req[q].route.session /\ bindLock = q /\ ~Fit(u, req[q].route)
  <2>1. CASE u # s
    BY <1>1, <1>8, <2>1, FadedSame
  <2>2. CASE u = s
    <3>1. Calm(q)
      BY <1>1, <1>7, <1>9, <2>2 DEF Calm, InFlight
    <3>2. ~Fit(s, req[q].route)
      BY <1>1, <1>2, <1>7, <3>1 DEF Facts
    <3>3. bindLock = q
      BY <1>1 DEF FirstBindExclusive, Critical
    <3>4. QED
      BY <1>7, <2>2, <3>2, <3>3
  <2>3. QED
    BY <2>1, <2>2
<1>10. ASSUME Calm(q)' PROVE Facts(q)'
  <2>1. Facts(q)
    BY <1>1, <1>2, <1>4, <1>5, <1>10 DEF Calm, InFlight
  <2>2. /\ req[q].tried = {} /\ req[q].route.pin = NoNode
        /\ \A c \in req[q].cand \cup req[q].todo : Suits(c, req[q].route)
    BY <1>1, <2>1 DEF Facts
  <2>3. \A c, rt : Suits(c, rt)' <=> Suits(c, rt)
    BY <1>1, SuitsKept
  <2>4. \A rt : ~Fit(s, rt)'
    BY <1>8 DEF Fit
  <2>5. QED
    BY <1>3, <1>4, <1>5, <1>7, <2>2, <2>3, <2>4 DEF Facts
<1>11. QED
  BY <1>1, <1>4, <1>5, <1>6, <1>9, <1>10, AgreeStep DEF InFlight

\* PickForSession: candidates are eligible nodes with their regions.
LEMMA PickForSessionAgrees ==
  ASSUME Typed, FirstBindExclusive, RouteInv, NEW q \in Requests, PickForSession(q)
  PROVE  RouteInv'
<1> DEFINE found == {[node |-> n, region |-> catalog[n]] :
                        n \in GetByRegion(req[q].region, req[q].tried, req[q].route)}
           cool == cfg.cooldown
           r == [req[q] EXCEPT !.pc = "occupancy", !.todo = found, !.cand = {}, !.cd = cool]
<1>1. /\ req[q].pc = "query" /\ (Answer(q) \/ Step(q, r))
      /\ UNCHANGED <<bindings, envVars, disturbed>> /\ catalog' = catalog
  BY DEF PickForSession, storeVars, envVars
<1>2. \A s \in Sessions : Faded(s)
  BY <1>1, FadedSame DEF envVars
<1>3. CASE Answer(q)
  BY <1>1, <1>2, <1>3, AnswerAgrees
<1>4. CASE Step(q, r)
  <2>1. req[q] \in RequestState /\ Untried(req[q]) /\ (Calm(q) => Facts(q))
    BY OwnFacts
  <2>2. \A c \in found : /\ c.node \in Nodes /\ catalog[c.node] # Down
                         /\ ~RegionMismatch(catalog[c.node], req[q].region)
                         /\ c.node \notin req[q].tried
                         /\ ProxyMatchesUnlock(c.node, req[q].route)
                         /\ c.region = catalog[c.node]
    BY DEF GetByRegion
  <2> HIDE DEF found, cool
  <2>3. /\ r.pc = "occupancy" /\ r.pick = req[q].pick /\ r.cand = {}
        /\ r.tried = req[q].tried /\ r.todo = found /\ r.route = req[q].route
    BY <2>1 DEF RequestState
  <2>4. req'[q] = r /\ Moved(q)
    BY <1>4, Stepped
  <2> HIDE DEF r
  <2>5. Untried(req'[q])
    BY <2>2, <2>3, <2>4 DEF Untried
  <2>6. ASSUME Calm(q)' PROVE Facts(q)'
    <3>1. Facts(q) /\ Calm(q)
      BY <1>1, <2>1, <2>3, <2>4, <2>6 DEF Calm, InFlight
    <3>2. PICK s \in Sessions : s = req[q].route.session
      BY <3>1 DEF Calm
    <3>3. /\ req[q].tried = {} /\ req[q].route.pin = NoNode /\ ~Fit(s, req[q].route)
          /\ req[q].route.region # NoRegion => req[q].region = req[q].route.region
      BY <1>1, <3>1, <3>2 DEF Facts
    <3>4. \A c \in found : Suits(c, req[q].route)
      BY <2>2, <3>3 DEF Suits, Elig, GetByRegion, RegionMismatch
    <3>5. /\ \A c, rt : Suits(c, rt)' <=> Suits(c, rt)
          /\ \A rt : Fit(s, rt)' => Fit(s, rt)
      BY <1>1, <1>2, SuitsKept, FitKept
    <3>6. QED
      BY <2>3, <2>4, <3>2, <3>3, <3>4, <3>5 DEF Facts
  <2>7. QED
    BY <1>1, <2>3, <2>4, <2>5, <2>6, PlainAgrees DEF InFlight
<1>5. QED
  BY <1>1, <1>3, <1>4

\* A filter drops candidates, and bindings at most fade meanwhile.
LEMMA FilterAgrees ==
  ASSUME Typed, FirstBindExclusive, RouteInv, NEW q \in Requests, Moved(q),
         req[q].pc \in {"occupancy", "cooldown"},
         req'[q].pc \in {"occupancy", "cooldown", "bind"},
         req'[q].route = req[q].route, req'[q].tried = req[q].tried,
         req'[q].cand \cup req'[q].todo \subseteq req[q].cand \cup req[q].todo,
         UNCHANGED <<catalog, disturbed>>,
         \A s \in Sessions : Faded(s)
  PROVE  RouteInv'
<1>1. req[q] \in RequestState /\ Untried(req[q]) /\ (Calm(q) => Facts(q))
  BY OwnFacts
<1>2. InFlight(q) /\ Untried(req'[q])
  BY <1>1 DEF Untried, InFlight
<1>3. ASSUME Calm(q)' PROVE Facts(q)'
  <2>1. Calm(q) /\ Facts(q)
    BY <1>1, <1>2, <1>3 DEF Calm
  <2>2. PICK s \in Sessions : s = req[q].route.session
    BY <2>1 DEF Calm
  <2>3. /\ req[q].tried = {} /\ ~Fit(s, req[q].route)
        /\ \A c \in req[q].cand \cup req[q].todo : Suits(c, req[q].route)
    BY <2>1, <2>2 DEF Facts
  <2>4. /\ \A c, rt : Suits(c, rt)' <=> Suits(c, rt)
        /\ \A rt : Fit(s, rt)' => Fit(s, rt)
    BY SuitsKept, FitKept
  <2>5. QED
    BY <2>2, <2>3, <2>4 DEF Facts
<1>4. QED
  BY <1>2, <1>3, AgreeStep

\* FilterByOccupancy.
LEMMA FilterByOccupancyAgrees ==
  ASSUME Typed, FirstBindExclusive, RouteInv, NEW q \in Requests, NEW c \in req[q].todo,
         FilterByOccupancy(q, c)
  PROVE  RouteInv'
<1> DEFINE k == IF req[q].lim > 0 /\ CountByProxy(c.node) >= req[q].lim
                THEN req[q].cand ELSE req[q].cand \cup {c}
           r == [req[q] EXCEPT !.todo = req[q].todo \ {c}, !.cand = k]
<1>1. req[q] \in RequestState
  BY OwnFacts
<1>2. /\ req[q].pc = "occupancy" /\ Step(q, r) /\ UNCHANGED <<now, ttl, catalog, disturbed>>
      /\ PruneProxy(c.node) \/ UNCHANGED bindings
  BY <1>1 DEF FilterByOccupancy, RequestState, envVars
<1>3. k \subseteq req[q].cand \cup {c}
  OBVIOUS
<1>4. \A s \in Sessions : Faded(s)
  BY <1>2, FadedPrune, FadedSame
<1> HIDE DEF k
<1>5. /\ r.pc = "occupancy" /\ r.route = req[q].route /\ r.tried = req[q].tried
      /\ r.cand \cup r.todo \subseteq req[q].cand \cup req[q].todo
  BY <1>1, <1>2, <1>3 DEF RequestState
<1>6. req'[q] = r /\ Moved(q)
  BY <1>2, Stepped
<1> HIDE DEF r
<1>7. QED
  BY <1>2, <1>4, <1>5, <1>6, FilterAgrees

\* FilterByCooldown.
LEMMA FilterByCooldownAgrees ==
  ASSUME Typed, FirstBindExclusive, RouteInv, NEW q \in Requests, NEW c \in req[q].todo,
         FilterByCooldown(q, c)
  PROVE  RouteInv'
<1> DEFINE k == IF InCooldown(c.node) THEN req[q].cand ELSE req[q].cand \cup {c}
           r == [req[q] EXCEPT !.todo = req[q].todo \ {c}, !.cand = k]
<1>1. req[q] \in RequestState
  BY OwnFacts
<1>2. /\ req[q].pc = "cooldown" /\ Step(q, r)
      /\ UNCHANGED <<now, ttl, catalog, disturbed, bindings>>
  BY <1>1 DEF FilterByCooldown, RequestState, envVars
<1>3. k \subseteq req[q].cand \cup {c}
  OBVIOUS
<1>4. \A s \in Sessions : Faded(s)
  BY <1>2, FadedSame
<1> HIDE DEF k
<1>5. /\ r.pc = "cooldown" /\ r.route = req[q].route /\ r.tried = req[q].tried
      /\ r.cand \cup r.todo \subseteq req[q].cand \cup req[q].todo
  BY <1>1, <1>2, <1>3 DEF RequestState
<1>6. req'[q] = r /\ Moved(q)
  BY <1>2, Stepped
<1> HIDE DEF r
<1>7. QED
  BY <1>2, <1>4, <1>5, <1>6, FilterAgrees

\* OccupancyDone and CooldownDone.
LEMMA FiltersDoneAgree ==
  ASSUME Typed, FirstBindExclusive, RouteInv, NEW q \in Requests,
         OccupancyDone(q) \/ CooldownDone(q)
  PROVE  RouteInv'
<1>1. /\ req[q].pc \in {"occupancy", "cooldown"}
      /\ UNCHANGED <<now, ttl, catalog, disturbed, bindings>>
  BY DEF OccupancyDone, CooldownDone, storeVars, envVars
<1>2. \A s \in Sessions : Faded(s)
  BY <1>1, FadedSame
<1>3. CASE Answer(q)
  BY <1>1, <1>2, <1>3, AnswerAgrees
<1>4. req[q] \in RequestState
  BY OwnFacts
<1>5. CASE ~Answer(q) /\ OccupancyDone(q)
  <2> DEFINE m == IF req[q].route.pin = NoNode THEN req[q].cd ELSE cfg.cooldown
             u == IF m > 0 THEN req[q].cand ELSE {}
             k == IF m > 0 THEN {} ELSE req[q].cand
             t == IF m > 0 THEN "cooldown" ELSE "bind"
             r == [req[q] EXCEPT !.cd = m, !.todo = u, !.cand = k, !.pc = t]
  <2>1. Step(q, r)
    BY <1>4, <1>5 DEF OccupancyDone, RequestState
  <2>2. u \cup k \subseteq req[q].cand /\ t \in {"cooldown", "bind"}
    OBVIOUS
  <2> HIDE DEF m, u, k, t
  <2>3. /\ r.pc = t /\ r.route = req[q].route /\ r.tried = req[q].tried
        /\ r.cand \cup r.todo \subseteq req[q].cand \cup req[q].todo
    BY <1>4, <2>2 DEF RequestState
  <2>4. req'[q] = r /\ Moved(q)
    BY <2>1, Stepped
  <2> HIDE DEF r
  <2>5. QED
    BY <1>1, <1>2, <2>2, <2>3, <2>4, FilterAgrees
<1>6. CASE ~Answer(q) /\ CooldownDone(q)
  <2> DEFINE r == [req[q] EXCEPT !.pc = "bind"]
  <2>1. Step(q, r)
    BY <1>6 DEF CooldownDone
  <2>2. /\ r.pc = "bind" /\ r.route = req[q].route /\ r.tried = req[q].tried
        /\ r.cand = req[q].cand /\ r.todo = req[q].todo
    BY <1>4 DEF RequestState
  <2>3. req'[q] = r /\ Moved(q)
    BY <2>1, Stepped
  <2> HIDE DEF r
  <2>4. QED
    BY <1>1, <1>2, <2>2, <2>3, FilterAgrees
<1>7. QED
  BY <1>3, <1>5, <1>6

\* BindSession: nobody relied on the binding it replaces, and the new one suits.
LEMMA BindSessionAgrees ==
  ASSUME Typed, FirstBindExclusive, RouteInv, NEW q \in Requests, NEW c \in req[q].cand,
         BindSession(q, c)
  PROVE  RouteInv'
<1> DEFINE t == IF req[q].cd > 0 THEN "cool" ELSE "dial"
           r == [req[q] EXCEPT !.pick = c.node, !.cand = {}, !.pc = t]
           n == [node |-> c.node, region |-> c.region, last |-> now]
<1>1. /\ req[q] \in RequestState /\ Shaped(req[q]) /\ Untried(req[q])
      /\ Calm(q) => Facts(q)
  BY OwnFacts
<1>2. /\ req[q].pc = "bind" /\ Step(q, r) /\ UNCHANGED <<now, ttl, catalog, disturbed>>
      /\ bindings' = [bindings EXCEPT ![req[q].route.session] = n]
  BY DEF BindSession, SetProxy, envVars
<1>3. PICK s \in Sessions : s = req[q].route.session
  BY <1>1, <1>2 DEF Shaped, Critical
<1>4. c \in Candidate
  BY <1>1 DEF RequestState
<1>5. n \in Binding /\ n.node = c.node /\ n.region = c.region /\ n.last = now /\ n # NoBinding
  BY <1>4, RoutingAssumption DEF Candidate, Binding, Typed, TypeOK
<1>6. t \in {"cool", "dial"}
  OBVIOUS
<1> HIDE DEF n, t
<1>7. bindings'[s] = n /\ \A u \in Sessions : u # s => bindings'[u] = bindings[u]
  BY <1>2, <1>3 DEF Typed, TypeOK
<1>8. /\ r.pc = t /\ r.pick = c.node /\ r.cand = {} /\ r.todo = req[q].todo
      /\ r.tried = req[q].tried /\ r.route = req[q].route
  BY <1>1 DEF RequestState
<1>9. req'[q] = r /\ Moved(q)
  BY <1>2, Stepped
<1> HIDE DEF r
<1>10. Untried(req'[q])
  BY <1>1, <1>6, <1>8, <1>9 DEF Untried
<1>11. ASSUME NEW u \in Sessions \ disturbed'
       PROVE  \/ Faded(u)
              \/ u = req[q].route.session /\ bindLock = q /\ ~Fit(u, req[q].route)
  <2>1. CASE u # s
    BY <1>2, <1>7, <2>1, FadedSame
  <2>2. CASE u = s
    <3>1. Calm(q)
      BY <1>2, <1>3, <1>11, <2>2 DEF Calm, InFlight
    <3>2. ~Fit(s, req[q].route)
      BY <1>1, <1>2, <1>3, <3>1 DEF Facts
    <3>3. bindLock = q
      BY <1>2 DEF FirstBindExclusive, Critical
    <3>4. QED
      BY <1>3, <2>2, <3>2, <3>3
  <2>3. QED
    BY <2>1, <2>2
<1>12. ASSUME Calm(q)' PROVE Facts(q)'
  <2>1. Facts(q)
    BY <1>1, <1>2, <1>8, <1>9, <1>12 DEF Calm, InFlight
  <2>2. /\ req[q].tried = {}
        /\ \A x \in req[q].cand \cup req[q].todo : Suits(x, req[q].route)
    BY <2>1 DEF Facts
  <2>3. \A x, rt : Suits(x, rt)' <=> Suits(x, rt)
    BY <1>2, SuitsKept
  <2>4. Suits(n, req[q].route)
    BY <1>5, <2>2 DEF Suits
  <2>5. Fresh(s)' /\ Bound(s)' /\ bindings'[s].node = c.node
    BY <1>2, <1>5, <1>7 DEF Fresh, Bound, Expired, Typed, TypeOK
  <2>6. Good(s, req[q].route)'
    BY <1>7, <1>8, <1>9, <2>3, <2>4, <2>5 DEF Good, Fit
  <2>7. QED
    BY <1>3, <1>6, <1>8, <1>9, <2>2, <2>3, <2>5, <2>6 DEF Facts
<1>13. QED
  BY <1>2, <1>8, <1>9, <1>10, <1>11, <1>12, AgreeStep DEF InFlight

\* SetCooldown.
LEMMA SetCooldownAgrees ==
  ASSUME Typed, FirstBindExclusive, RouteInv, NEW q \in Requests, SetCooldown(q)
  PROVE  RouteInv'
<1> DEFINE r == [req[q] EXCEPT !.pc = "dial"]
<1>1. req[q] \in RequestState /\ Untried(req[q]) /\ (Calm(q) => Facts(q))
  BY OwnFacts
<1>2. /\ req[q].pc = "cool" /\ Step(q, r) /\ UNCHANGED <<bindings, envVars, disturbed>>
      /\ UNCHANGED <<now, ttl, catalog>>
  BY DEF SetCooldown, envVars
<1>3. /\ r.pc = "dial" /\ r.pick = req[q].pick /\ r.cand = req[q].cand
      /\ r.todo = req[q].todo /\ r.tried = req[q].tried /\ r.route = req[q].route
  BY <1>1 DEF RequestState
<1>4. req'[q] = r /\ Moved(q)
  BY <1>2, Stepped
<1> HIDE DEF r
<1>5. Untried(req'[q])
  BY <1>1, <1>2, <1>3, <1>4 DEF Untried
<1>6. ASSUME Calm(q)' PROVE Facts(q)'
  <2>1. Facts(q) /\ Calm(q)
    BY <1>1, <1>2, <1>3, <1>4, <1>6 DEF Calm, InFlight
  <2>2. PICK s \in Sessions : s = req[q].route.session
    BY <2>1 DEF Calm
  <2>3. /\ req[q].tried = {} /\ Good(s, req[q].route) /\ bindings[s].node = req[q].pick
        /\ \A c \in req[q].cand \cup req[q].todo : Suits(c, req[q].route)
    BY <1>2, <2>1, <2>2 DEF Facts
  <2>4. \A c, rt : Suits(c, rt)' <=> Suits(c, rt)
    BY <1>2, SuitsKept
  <2>5. Faded(s)
    BY <1>2, FadedSame
  <2>6. \A rt : Good(s, rt) => Good(s, rt)'
    BY <1>2, <2>5, FitKept
  <2>7. Bound(s)' /\ bindings'[s].node = req[q].pick
    BY <1>2, <2>3 DEF Good, Fit, Bound
  <2>8. QED
    BY <1>3, <1>4, <2>2, <2>3, <2>4, <2>6, <2>7 DEF Facts
<1>7. QED
  BY <1>2, <1>3, <1>4, <1>5, <1>6, PlainAgrees DEF InFlight

\* A failed request disturbs its own session and touches no other.
LEMMA FailureFades ==
  ASSUME UNCHANGED <<now, ttl>>, NEW q \in Requests, ReleaseFailedBinding(q)
  PROVE  /\ disturbed \subseteq disturbed'
         /\ \A s \in Sessions \ disturbed' : Faded(s)
         /\ req[q].route.session # NoSession => req[q].route.session \in disturbed'
<1>1. disturbed \subseteq disturbed'
      /\ (req[q].route.session # NoSession => req[q].route.session \in disturbed')
  BY DEF ReleaseFailedBinding
<1>2. ASSUME NEW s \in Sessions \ disturbed' PROVE bindings'[s] = bindings[s]
  <2>1. CASE UNCHANGED bindings
    BY <2>1
  <2>2. CASE RemoveBindings({req[q].route.session}) /\ req[q].route.session # NoSession
    BY <1>1, <1>2, <2>2 DEF RemoveBindings
  <2>3. QED
    BY <2>1, <2>2 DEF ReleaseFailedBinding, RemoveIfProxyID
<1>3. QED
  BY <1>1, <1>2, FadedSame

\* RetryAfterFailure: the failed node is excluded from now on.
LEMMA RetryAgrees ==
  ASSUME Typed, FirstBindExclusive, RouteInv, NEW q \in Requests, RetryAfterFailure(q)
  PROVE  RouteInv'
<1> DEFINE x == req[q].tried \cup {req[q].pick}
           a == req[q].attempt + 1
           r == [FreshRequest EXCEPT !.pc = "select", !.route = req[q].route,
                                     !.tried = x, !.attempt = a]
<1>1. /\ req[q].pc = "dial" /\ Step(q, r) /\ ReleaseFailedBinding(q)
      /\ UNCHANGED <<now, ttl, catalog>>
  BY DEF RetryAfterFailure, envVars
<1>2. r.pc = "select" /\ r.route = req[q].route /\ r.todo = {} /\ r.cand = {}
  BY DEF FreshRequest
<1>3. req'[q] = r /\ Moved(q)
  BY <1>1, Stepped
<1> HIDE DEF r
<1>4. Untried(req'[q])
  BY <1>2, <1>3 DEF Untried
<1>5. ~Calm(q)'
  <2>1. req[q].route.session = NoSession \/ req[q].route.session \in disturbed'
    BY <1>1, FailureFades
  <2>2. QED
    BY <1>2, <1>3, <2>1, RoutingAssumption DEF Calm
<1>6. QED
  BY <1>1, <1>2, <1>3, <1>4, <1>5, FailureFades, AgreeStep DEF InFlight

\* The request is over: served, failed for good, or out of attempts.
LEMMA OverAgrees ==
  ASSUME Typed, FirstBindExclusive, RouteInv, NEW q \in Requests,
         FailWithoutRetry(q) \/ Served(q) \/ Exhausted(q)
  PROVE  RouteInv'
<1>1. Answer(q) /\ UNCHANGED <<now, ttl, catalog>>
  BY DEF FailWithoutRetry, Served, Exhausted, envVars
<1>2. disturbed \subseteq disturbed' /\ \A s \in Sessions \ disturbed' : Faded(s)
  <2>1. CASE FailWithoutRetry(q)
    BY <1>1, <2>1, FailureFades DEF FailWithoutRetry
  <2>2. CASE Served(q) \/ Exhausted(q)
    BY <1>1, <2>2, FadedSame DEF Served, Exhausted, storeVars
  <2>3. QED
    BY <2>1, <2>2
<1>3. QED
  BY <1>1, <1>2, AnswerAgrees

\* Initially no request is on its way.
LEMMA InitAgrees == Init => RouteInv
BY DEF Init, RouteInv, UntriedInv, Untried, AgreementInv, Calm, InFlight, FreshRequest

\* Every step keeps what the requests know.
LEMMA NextAgrees ==
  ASSUME Typed, FirstBindExclusive, RouteInv, [Next]_vars
  PROVE  RouteInv'
<1>1. CASE UNCHANGED vars
  <2>1. UNCHANGED <<bindings, now, ttl, req, catalog, disturbed>>
    BY <1>1 DEF vars
  <2>2. \A s \in Sessions : Faded(s)
    BY <2>1, FadedSame
  <2>3. QED
    BY <2>1, <2>2, AgreeBackground
<1>2. CASE Environment
  BY <1>2, EnvironmentAgrees
<1>3. ASSUME NEW q \in Requests, \E rt \in Routes : Arrive(q, rt)
      PROVE  RouteInv'
  BY <1>3, ArriveAgrees
<1>4. ASSUME NEW q \in Requests, Resolving(q)
      PROVE  RouteInv'
  BY <1>4, OverAgrees, ResolvePinnedAgrees, PickUnlockAgrees, StickyGetsAgree,
     StickyLookupsAgree, PinnedGetAgrees, ReleaseStaleAgrees, PickForSessionAgrees,
     FilterByOccupancyAgrees, FilterByCooldownAgrees, FiltersDoneAgree,
     BindSessionAgrees, SetCooldownAgrees
  DEF Resolving
<1>5. ASSUME NEW q \in Requests, BeginFirstBind(q) \/ Forwarding(q)
      PROVE  RouteInv'
  BY <1>5, BeginFirstBindAgrees, RetryAgrees, OverAgrees DEF Forwarding
<1>6. QED
  BY <1>1, <1>2, <1>3, <1>4, <1>5 DEF Next

\* What the requests know holds in every reachable state, on top of QuotaInv.
THEOREM RouteInvariant == Spec => []RouteInv
<1>1. Typed /\ QuotaInv /\ RouteInv /\ [Next]_vars => RouteInv'
  BY NextAgrees DEF QuotaInv
<1>2. QED
  BY <1>1, InitAgrees, QuotaInvariant, PTL DEF Spec

\* Requests of an undisturbed session go to the node it is bound to, for any
\* number of requests, sessions and nodes.
THEOREM AgreementCorrect == Spec => []SessionAgreement
<1>1. RouteInv => SessionAgreement
  <2> SUFFICES ASSUME RouteInv, NEW q \in Requests, req[q].pc = "dial",
                      req[q].route.session \in Sessions \ disturbed
               PROVE  /\ Bound(req[q].route.session)
                      /\ bindings[req[q].route.session].node = req[q].pick
    BY DEF SessionAgreement
  <2>1. Calm(q)
    BY DEF Calm, InFlight
  <2>2. Facts(q)
    BY <2>1 DEF RouteInv, AgreementInv
  <2>3. QED
    BY <2>2 DEF Facts
<1>2. QED
  BY <1>1, RouteInvariant, PTL

\* No retry goes back to a node that failed the request.
THEOREM RetriesCorrect == Spec => []NoNodeTriedTwice
<1>1. RouteInv => NoNodeTriedTwice
  BY DEF RouteInv, UntriedInv, Untried, NoNodeTriedTwice
<1>2. QED
  BY <1>1, RouteInvariant, PTL

=============================================================================
