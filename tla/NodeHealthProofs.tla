-------------------------- MODULE NodeHealthProofs --------------------------
(***************************************************************************)
(* Proofs about NodeHealth.  Every write of a row is one of a dozen row    *)
(* transformers; Good says what each of them preserves.  Only one of them, *)
(* Recovered, puts a row into service, and what it needs for that is kept  *)
(* by the invariant of the probers (ProbeShape).                           *)
(***************************************************************************)
EXTENDS NodeHealth, TLAPS

\* A row that is well typed, has a route when it exists, and is sound when it
\* is in service.
Good(row) ==
  /\ row \in Row
  /\ row.st \in {"disabled", "active"} => row.route \in Routes
  /\ row.st \notin {"disabled", "active"} => ~row.paused
  /\ row.st = "active" => /\ row.fail < FailThreshold
                          /\ row.exit \in Evidence
                          /\ row.exit.route = row.route
                          /\ ~row.clock

\* new may replace old whatever the state of the parent is.
Calm(old, new) ==
  /\ Good(new)
  /\ new.src = old.src
  /\ new.paused = old.paused
  /\ new.st = "active" => old.st = "active"

GoodProbe(pr) ==
  /\ pr \in ProbeState
  /\ pr.pc # "idle" => pr.node \in Nodes
  /\ pr.pc \notin {"idle", "replace"} => pr.route \in Routes
  /\ pr.pc = "recover" => pr.res.cc \in Countries
  /\ pr.pc = "replace" => pr.src \in Subs

RowsInv == rows \in [Nodes -> Row] /\ \A n \in Nodes : Good(rows[n])
ProbeShape == probe \in [Probers -> ProbeState] /\ \A p \in Probers : GoodProbe(probe[p])

EnvType ==
  /\ sub \in [Subs -> {"active", "paused", "deleted"}]
  /\ saved \in Policies
  /\ startup \in Policies
  /\ saving \in Policies \cup {NoRule}
  /\ mu \in Probers \cup {Free}
  /\ fwd \in [Forwarders -> [node : Nodes \cup {NoNode}, route : Routes \cup {NoRoute}]]
  /\ \A f \in Forwarders : fwd[f] # NotForwarding => fwd[f].node \in Nodes

HealthInv ==
  /\ EnvType
  /\ RowsInv
  /\ ProbeShape
  /\ PausedSubscriptionServesNothing

-----------------------------------------------------------------------------
(* The row transformers.                                                   *)

\* A row inserted for a node is well formed and out of service.
LEMMA FreshGood ==
  ASSUME NEW r \in Routes, NEW src \in Subs \cup {Manual}
  PROVE  /\ Good(FreshRow(r, src))
         /\ FreshRow(r, src).st = "disabled"
         /\ FreshRow(r, src).src = src
BY DEF Good, FreshRow, Row, FailThreshold

\* So are the row that is not there yet and the one that is gone.
LEMMA EmptyGood ==
  /\ Good(NoRow) /\ NoRow.st = "absent" /\ NoRow.src = Manual
  /\ Good(Deleted) /\ Deleted.st = "gone" /\ Deleted.src = Manual
<1>1. Good(NoRow) /\ NoRow.st = "absent" /\ NoRow.src = Manual
  BY DEF Good, Row, FailThreshold, NoRow, Blank
<1>2. Good(Deleted) /\ Deleted.st = "gone" /\ Deleted.src = Manual
  BY DEF Good, Row, FailThreshold, Deleted, Blank
<1> QED BY <1>1, <1>2

\* Counting a failure puts no row into service and leaves no count at the limit
\* on an active one.
LEMMA FailedCalm ==
  ASSUME NEW row, Good(row), row.st \in {"disabled", "active"}, NEW t \in 1..FailThreshold
  PROVE  Calm(row, Failed(row, t))
<1> DEFINE reached == row.fail + 1 >= t
           fail2 == IF row.fail < FailThreshold THEN row.fail + 1 ELSE row.fail
           st2 == IF reached THEN "disabled" ELSE row.st
           clock2 == row.clock \/ reached
           new == [row EXCEPT !.fail = fail2, !.st = st2, !.clock = clock2]
<1>1. row \in Row
  BY DEF Good
<1>2. /\ fail2 \in 0..FailThreshold
      /\ ~reached => fail2 < FailThreshold
  BY <1>1 DEF Row, FailThreshold
<1>3. st2 \in {"disabled", "active"} /\ (st2 = "active" => ~reached /\ row.st = "active")
  OBVIOUS
<1>4. clock2 \in BOOLEAN /\ (~reached => clock2 = row.clock)
  BY <1>1 DEF Row
<1>5. Failed(row, t) = new
  BY DEF Failed
<1> HIDE DEF fail2, st2, clock2, reached
<1>6. /\ new \in Row /\ new.st = st2 /\ new.fail = fail2 /\ new.clock = clock2
      /\ new.src = row.src /\ new.exit = row.exit /\ new.route = row.route
      /\ new.paused = row.paused
  BY <1>1, <1>2, <1>3, <1>4 DEF Row
<1> HIDE DEF new
<1> QED BY <1>2, <1>3, <1>4, <1>5, <1>6 DEF Calm, Good

\* ApplyProbeObservation changes no status.
LEMMA ObservedCalm ==
  ASSUME NEW row, Good(row), row.st \in {"disabled", "active"},
         NEW pr, GoodProbe(pr), pr.route = row.route
  PROVE  /\ Calm(row, Observed(row, pr))
         /\ Observed(row, pr).st = row.st
         /\ Observed(row, pr).route = row.route
BY DEF Calm, Good, GoodProbe, Observed, Row, ProbeState, Outcome, Evidence

\* Neither does the success of a node that is in service.
LEMMA ConfirmedCalm ==
  ASSUME NEW row, Good(row), row.st \in {"disabled", "active"},
         NEW pr, GoodProbe(pr), pr.route = row.route
  PROVE  Calm(row, Confirmed(row, pr))
<1>1. Calm(row, Observed(row, pr)) /\ Observed(row, pr).st = row.st
  BY ObservedCalm
<1> DEFINE o == Observed(row, pr)
<1> HIDE DEF o
<1>2. Calm(row, [o EXCEPT !.fail = 0])
  BY <1>1 DEF Calm, Good, Row, FailThreshold, o
<1> QED BY <1>2 DEF Confirmed, o

\* A disabled node that fails again stays disabled.
LEMMA RetestedCalm ==
  ASSUME NEW row, Good(row), row.st = "disabled",
         NEW pr, GoodProbe(pr), pr.route = row.route
  PROVE  Calm(row, Retested(row, pr))
<1>1. Calm(row, Observed(row, pr)) /\ Observed(row, pr).st = row.st
  BY ObservedCalm
<1> DEFINE o == Observed(row, pr)
<1> HIDE DEF o
<1>2. Calm(row, [o EXCEPT !.clock = TRUE])
  BY <1>1 DEF Calm, Good, Row, o
<1> QED BY <1>2 DEF Retested, o

\* The one transformer that puts a row into service: it needs an exit, measured
\* on the row's own route.
LEMMA RecoveredGood ==
  ASSUME NEW row, Good(row), row.st = "disabled",
         NEW pr, GoodProbe(pr), pr.route = row.route, pr.res.cc \in Countries
  PROVE  Good(Recovered(row, pr)) /\ Recovered(row, pr).src = row.src
<1> DEFINE o == Observed(row, pr)
<1>1. /\ o \in Row
      /\ o.exit \in Evidence /\ o.exit.route = row.route
      /\ o.route = row.route /\ o.src = row.src
      /\ o.route \in Routes
  BY HealthAssumption DEF Good, GoodProbe, Observed, Row, ProbeState, Outcome, Evidence
<1> DEFINE new == [o EXCEPT !.st = "active", !.fail = 0, !.clock = FALSE]
<1>2. Recovered(row, pr) = new
  BY DEF Recovered
<1> HIDE DEF o
<1>3. 0 \in 0..FailThreshold
  BY DEF FailThreshold
<1>5. /\ new \in Row /\ new.st = "active" /\ new.fail = 0 /\ new.clock = FALSE
      /\ new.src = o.src /\ new.exit = o.exit /\ new.route = o.route
  BY <1>1, <1>3 DEF Row
<1> HIDE DEF new
<1> QED BY <1>1, <1>2, <1>5 DEF Good, FailThreshold

\* DisableRouteForPolicy only takes out of service.
LEMMA PolicyCalm ==
  ASSUME NEW row, Good(row), row.st \in {"disabled", "active"}
  PROVE  Calm(row, PolicyDisabled(row))
BY DEF Calm, Good, PolicyDisabled, Row

\* Pausing or deleting a subscription takes its rows out of service.
LEMMA SuspendedCalm ==
  ASSUME NEW row, Good(row)
  PROVE  Calm(row, Suspended(row)) /\ Suspended(row).st # "active"
BY DEF Calm, Good, Suspended, Row

\* The country filters only take out of service.
LEMMA FilteredCalm ==
  ASSUME NEW row, Good(row), NEW policy
  PROVE  Calm(row, Filtered(row, policy))
<1>1. Calm(row, row)
  BY DEF Calm
<1> QED BY <1>1, SuspendedCalm DEF Filtered

\* The migration's backfill puts nothing into service.
LEMMA BackfilledCalm ==
  ASSUME NEW row, Good(row), NEW statusOf
  PROVE  Calm(row, Backfilled(row, statusOf))
BY DEF Calm, Good, Backfilled, Row

\* What replaceSubscriptionProxies writes is well formed, keeps a pause and
\* activates nothing.
LEMMA ReplacedGood ==
  ASSUME NEW row, Good(row), NEW s \in Subs, NEW r \in Routes,
         row.st = "absent" \/ (row.st \in {"disabled", "active"} /\ row.src = s)
  PROVE  /\ Good(Replaced(row, s, r))
         /\ Replaced(row, s, r).src = s
         /\ Replaced(row, s, r).route = r
         /\ Replaced(row, s, r).st \in {"disabled", "active"}
         /\ Replaced(row, s, r).st = "active" => row.st = "active" /\ sub[s] = "active"
         /\ row.paused => Replaced(row, s, r).paused
<1>1. CASE row.st = "absent"
  BY <1>1, FreshGood DEF Replaced, Good, FreshRow
<1> DEFINE keep == /\ sub[s] = "active" /\ row.st = "active" /\ ~row.paused
                   /\ row.fail = 0 /\ row.exit # NoExit /\ row.route = r
           st2 == IF keep THEN "active" ELSE "disabled"
           base == [row EXCEPT !.st = st2]
<1>a. row \in Row
  BY DEF Good
<1>b. /\ st2 \in {"disabled", "active"}
      /\ st2 = "active" => sub[s] = "active" /\ row.st = "active" /\ row.route = r
  OBVIOUS
<1>c. row.st # "absent" =>
        Replaced(row, s, r) =
          IF row.route = r THEN base
          ELSE [base EXCEPT !.route = r, !.fail = 0, !.clock = FALSE, !.exit = NoExit]
  BY DEF Replaced
<1> HIDE DEF st2
<1>d. /\ base \in Row /\ base.st = st2 /\ base.src = row.src /\ base.route = row.route
      /\ base.fail = row.fail /\ base.exit = row.exit /\ base.clock = row.clock
      /\ base.paused = row.paused
  BY <1>a, <1>b DEF Row
<1> HIDE DEF base
<1>2. CASE row.st # "absent" /\ row.route = r
  BY <1>2, <1>b, <1>c, <1>d DEF Good
<1>3. CASE row.st # "absent" /\ row.route # r
  <2> DEFINE new == [base EXCEPT !.route = r, !.fail = 0, !.clock = FALSE, !.exit = NoExit]
  <2>1. /\ new \in Row /\ new.st = st2 /\ new.src = row.src /\ new.route = r
        /\ new.paused = row.paused
    <3> DEFINE mid == [base EXCEPT !.route = r, !.fail = 0]
    <3>1. 0 \in 0..FailThreshold
      BY DEF FailThreshold
    <3>2. /\ mid \in Row /\ mid.st = st2 /\ mid.src = row.src /\ mid.route = r
          /\ mid.paused = row.paused
      BY <1>d, <3>1 DEF Row
    <3>3. new = [mid EXCEPT !.clock = FALSE, !.exit = NoExit]
      BY <1>d DEF Row
    <3> HIDE DEF mid
    <3> QED BY <3>2, <3>3 DEF Row
  <2>2. st2 = "disabled"
    BY <1>3, <1>b
  <2>3. Replaced(row, s, r) = new
    BY <1>3, <1>c
  <2> HIDE DEF new
  <2> QED BY <2>1, <2>2, <2>3, <1>3 DEF Good
<1> QED BY <1>1, <1>2, <1>3

\* So is what a manual addition writes; the row waits for its probe.
LEMMA UpsertedGood ==
  ASSUME NEW row, Good(row), NEW r \in Routes,
         row.st = "absent" \/ (row.st \in {"disabled", "active"} /\ row.src = Manual)
  PROVE  /\ Good(Upserted(row, r))
         /\ Upserted(row, r).src = Manual
         /\ Upserted(row, r).route = r
         /\ Upserted(row, r).st = "disabled"
         /\ row.paused => Upserted(row, r).paused
<1>1. CASE row.st = "absent"
  BY <1>1, FreshGood DEF Upserted, Good, FreshRow
<1>2. CASE row.st # "absent"
  BY <1>2 DEF Upserted, Good, Row
<1> QED BY <1>1, <1>2

\* A manual row keeps its pause when its key is recomputed.
LEMMA RekeyedGood ==
  ASSUME NEW row, Good(row), NEW r \in Routes,
         row.st = "absent" \/ (row.st \in {"disabled", "active"} /\ row.src = Manual)
  PROVE  /\ Good(Rekeyed(row, r))
         /\ Rekeyed(row, r).src = Manual
         /\ Rekeyed(row, r).st = "active" => row.st = "active"
         /\ row.paused => Rekeyed(row, r).paused
<1>1. CASE row.st # "absent" /\ row.route = r
  BY <1>1 DEF Rekeyed, Good
<1>2. CASE ~(row.st # "absent" /\ row.route = r)
  <2> DEFINE f == FreshRow(r, Manual)
             new == [f EXCEPT !.paused = row.paused]
  <2>1. /\ f \in Row /\ f.st = "disabled" /\ f.src = Manual /\ f.route = r
    BY FreshGood DEF Good, FreshRow
  <2>2. row.paused \in BOOLEAN
    BY DEF Good, Row
  <2>3. Rekeyed(row, r) = new
    BY <1>2 DEF Rekeyed
  <2> HIDE DEF f
  <2>4. /\ new \in Row /\ new.st = "disabled" /\ new.src = Manual /\ new.route = r
        /\ new.paused = row.paused
    BY <2>1, <2>2 DEF Row
  <2> HIDE DEF new
  <2> QED BY <2>3, <2>4 DEF Good
<1> QED BY <1>1, <1>2

-----------------------------------------------------------------------------
(* Writes and prober steps.                                                *)

\* A step that writes no row and no subscription keeps the invariants on rows.
LEMMA RowsKept ==
  ASSUME HealthInv, rows' = rows, sub' = sub
  PROVE  RowsInv' /\ PausedSubscriptionServesNothing'
BY DEF HealthInv, RowsInv, PausedSubscriptionServesNothing

\* One well-formed row may be written if its subscription allows its status.
LEMMA RowWritten ==
  ASSUME HealthInv, NEW n \in Nodes, NEW new, Good(new),
         new.st = "active" /\ new.src # Manual => sub[new.src] = "active",
         rows' = [rows EXCEPT ![n] = new], sub' = sub
  PROVE  RowsInv' /\ PausedSubscriptionServesNothing'
<1>1. new \in Row
  BY DEF Good
<1>2. rows' \in [Nodes -> Row]
  BY <1>1 DEF HealthInv, RowsInv
<1>3. \A m \in Nodes : rows'[m] = IF m = n THEN new ELSE rows[m]
  BY DEF HealthInv, RowsInv
<1>4. \A m \in Nodes : Good(rows'[m])
  BY <1>3 DEF HealthInv, RowsInv
<1>5. PausedSubscriptionServesNothing'
  BY <1>3 DEF HealthInv, PausedSubscriptionServesNothing
<1> QED BY <1>2, <1>4, <1>5 DEF RowsInv

\* A calm write never needs the subscription's leave.
LEMMA RowCalmlyWritten ==
  ASSUME HealthInv, NEW n \in Nodes, NEW new, Calm(rows[n], new),
         rows' = [rows EXCEPT ![n] = new], sub' = sub
  PROVE  RowsInv' /\ PausedSubscriptionServesNothing'
<1>1. Good(new)
  BY DEF Calm
<1>2. new.st = "active" /\ new.src # Manual => sub[new.src] = "active"
  BY DEF Calm, HealthInv, PausedSubscriptionServesNothing
<1> QED BY <1>1, <1>2, RowWritten

\* A prober at rest is well formed.
LEMMA IdleGood == GoodProbe(Idle)
<1>1. Idle \in ProbeState
  BY DEF Idle, ProbeState, Stages, Statements, AllKinds, Outcome, NoOutcome
<1> QED BY <1>1 DEF GoodProbe, Idle

\* Only the prober that moves changes its state.
LEMMA ProbeEntered ==
  ASSUME ProbeShape, NEW p \in Probers, NEW r, GoodProbe(r), Enter(p, r)
  PROVE  ProbeShape'
<1>1. r \in ProbeState
  BY DEF GoodProbe
<1>2. probe' \in [Probers -> ProbeState]
  BY <1>1 DEF ProbeShape, Enter
<1>3. \A q \in Probers : probe'[q] = IF q = p THEN r ELSE probe[q]
  BY DEF ProbeShape, Enter
<1> QED BY <1>2, <1>3 DEF ProbeShape

\* A prober that ends leaves the locks in their type.
LEMMA ProbeFinished ==
  ASSUME HealthInv, NEW p \in Probers, Finish(p)
  PROVE  ProbeShape' /\ mu' \in Probers \cup {Free}
BY IdleGood, ProbeEntered DEF Finish, HealthInv, EnvType

\* A probe starts from a well-formed snapshot of its row.
LEMMA SnapshotGood ==
  ASSUME HealthInv, NEW k \in AllKinds, NEW n \in Nodes, NEW row \in Row, row.route \in Routes
  PROVE  GoodProbe(Snapshot(k, n, row))
<1> DEFINE was == IF row.st = "active" THEN "active" ELSE "disabled"
           rule == IF k \in {"health", "webui"} THEN saved ELSE startup
           new == [pc |-> "probing", kind |-> k, node |-> n, route |-> row.route,
                   was |-> was, src |-> row.src, rule |-> rule, asked |-> saved,
                   res |-> NoOutcome]
<1>1. was \in {"disabled", "active"} /\ rule \in Policies /\ saved \in Policies
  BY DEF HealthInv, EnvType
<1>2. row.src \in Subs \cup {Manual}
  BY DEF Row
<1>3. NoOutcome \in Outcome
  BY DEF NoOutcome, Outcome
<1>4. Snapshot(k, n, row) = new
  BY DEF Snapshot
<1> HIDE DEF was, rule
<1>5. "probing" \in Stages
  BY DEF Stages
<1>6. new \in ProbeState
  BY <1>1, <1>2, <1>3, <1>5 DEF ProbeState
<1> QED BY <1>1, <1>4, <1>6 DEF GoodProbe

\* A prober between two statements: only the stage changes, never to recover.
LEMMA StageGood ==
  ASSUME NEW pr, GoodProbe(pr), pr.pc \notin {"idle", "replace"},
         NEW pc \in Stages \ {"idle", "recover", "replace"}
  PROVE  GoodProbe([pr EXCEPT !.pc = pc])
BY DEF GoodProbe, ProbeState

\* A prober goes from statement to statement within its shape.
LEMMA ProbeContinued ==
  ASSUME HealthInv, NEW p \in Probers, NEW hit, probe[p].pc \in Statements, Continue(p, hit)
  PROVE  ProbeShape' /\ mu' \in Probers \cup {Free}
<1> DEFINE next == NextStatement(probe[p], hit)
<1>1. next \in {"observe", "policy", "idle"}
  BY DEF NextStatement
<1>2. IF next = "idle" THEN Finish(p)
      ELSE Enter(p, [probe[p] EXCEPT !.pc = next]) /\ UNCHANGED mu
  BY DEF Continue
<1> HIDE DEF next
<1>3. CASE next = "idle"
  BY <1>2, <1>3, ProbeFinished
<1>4. CASE next # "idle"
  <2>1. next \in Stages \ {"idle", "recover", "replace"}
    BY <1>1, <1>4 DEF Stages, Statements
  <2>2. GoodProbe(probe[p]) /\ probe[p].pc \notin {"idle", "replace"}
    BY DEF HealthInv, ProbeShape, Statements
  <2>3. GoodProbe([probe[p] EXCEPT !.pc = next])
    BY <2>1, <2>2, StageGood
  <2>4. ProbeShape'
    BY <1>2, <1>4, <2>3, ProbeEntered DEF HealthInv
  <2> QED BY <1>2, <1>4, <2>4 DEF HealthInv, EnvType
<1> QED BY <1>3, <1>4

\* What holds of the row a statement hits.
LEMMA HitRow ==
  ASSUME HealthInv, NEW p \in Probers, probe[p].pc \in Statements
  PROVE  /\ probe[p].node \in Nodes
         /\ Good(rows[probe[p].node])
         /\ GoodProbe(probe[p])
         /\ SameRoute(probe[p].node, probe[p].route) =>
              /\ rows[probe[p].node].st \in {"disabled", "active"}
              /\ probe[p].route = rows[probe[p].node].route
<1>1. GoodProbe(probe[p]) /\ probe[p].node \in Nodes
  BY DEF HealthInv, ProbeShape, GoodProbe, Statements
<1> QED BY <1>1 DEF HealthInv, RowsInv, SameRoute, Present

\* A guarded UPDATE keeps the invariant if the row it writes is well formed.
LEMMA UpdateStep ==
  ASSUME HealthInv, NEW p \in Probers, NEW pc \in Statements, NEW cond, NEW new,
         Update(p, pc, cond, new),
         SameRoute(probe[p].node, probe[p].route) /\ ParentActive(probe[p].node) /\ cond =>
           /\ Good(new)
           /\ new.st = "active" /\ new.src # Manual => sub[new.src] = "active"
  PROVE  HealthInv'
<1> DEFINE n == probe[p].node
           hit == SameRoute(n, probe[p].route) /\ ParentActive(n) /\ cond
<1>1. /\ probe[p].pc = pc
      /\ rows' = IF hit THEN [rows EXCEPT ![n] = new] ELSE rows
      /\ Continue(p, hit)
      /\ UNCHANGED <<sub, saved, startup, saving, fwd>>
  BY DEF Update
<1>2. n \in Nodes
  BY <1>1, HitRow
<1>3. ProbeShape' /\ mu' \in Probers \cup {Free}
  BY <1>1, ProbeContinued
<1>4. RowsInv' /\ PausedSubscriptionServesNothing'
  <2>1. CASE hit
    BY <1>1, <1>2, <2>1, RowWritten
  <2>2. CASE ~hit
    BY <1>1, <2>2, RowsKept
  <2> QED BY <2>1, <2>2
<1>5. EnvType'
  BY <1>1, <1>3 DEF HealthInv, EnvType
<1> QED BY <1>3, <1>4, <1>5 DEF HealthInv

-----------------------------------------------------------------------------
(* The steps of the probers.                                               *)

\* Taking a snapshot writes nothing.
LEMMA StartStep ==
  ASSUME HealthInv, NEW p \in Probers, NEW n \in Nodes, NEW k \in AllKinds,
         rows[n].st \in {"disabled", "active"},
         Enter(p, Snapshot(k, n, rows[n])),
         UNCHANGED <<rows, sub, saved, startup, saving, mu, fwd>>
  PROVE  HealthInv'
<1>1. rows[n] \in Row /\ rows[n].route \in Routes
  BY DEF HealthInv, RowsInv, Good
<1>2. ProbeShape'
  BY <1>1, SnapshotGood, ProbeEntered DEF HealthInv
<1>3. RowsInv' /\ PausedSubscriptionServesNothing'
  BY RowsKept
<1> QED BY <1>2, <1>3 DEF HealthInv, EnvType

\* Every kind of probe may start.
LEMMA ProbeStartStep ==
  ASSUME HealthInv, NEW p \in Probers, ProbeStart(p)
  PROVE  HealthInv'
<1>1. PICK n \in Nodes :
        \/ StartHealthCheck(p, n)
        \/ StartProbeDisabled(p, n)
        \/ StartWebProbe(p, n)
        \/ \E s \in Subs : BeginRefresh(p, n, s)
        \/ \E r \in Routes : AddManualNode(p, n, r)
  BY DEF ProbeStart
<1>2. CASE StartHealthCheck(p, n)
  <2>1. "health" \in AllKinds
    BY DEF AllKinds
  <2> QED BY <1>2, <2>1, StartStep DEF StartHealthCheck, Selectable
<1>3. CASE StartProbeDisabled(p, n)
  <2>1. "probe" \in AllKinds
    BY DEF AllKinds
  <2> QED BY <1>3, <2>1, StartStep DEF StartProbeDisabled
<1>4. CASE StartWebProbe(p, n)
  <2>1. "webui" \in AllKinds
    BY DEF AllKinds
  <2> QED BY <1>4, <2>1, StartStep DEF StartWebProbe, Present
<1>5. ASSUME NEW s \in Subs, BeginRefresh(p, n, s) PROVE HealthInv'
  <2> DEFINE snap == Snapshot("refresh", n, FreshRow(NoRoute, s))
             new == [snap EXCEPT !.pc = "replace"]
  <2>1. snap = [pc |-> "probing", kind |-> "refresh", node |-> n, route |-> NoRoute,
                was |-> "disabled", src |-> s, rule |-> startup, asked |-> saved,
                res |-> NoOutcome]
    BY DEF Snapshot, FreshRow
  <2>2. saved \in Policies /\ startup \in Policies
    BY DEF HealthInv, EnvType
  <2>a. NoOutcome \in Outcome /\ "refresh" \in AllKinds /\ "probing" \in Stages
    BY DEF Stages, AllKinds, NoOutcome, Outcome
  <2>3. snap \in ProbeState
    BY <2>1, <2>2, <2>a DEF ProbeState
  <2>4. snap.node = n /\ snap.src = s
    BY <2>1
  <2> HIDE DEF snap
  <2>5. "replace" \in Stages
    BY DEF Stages
  <2>6. new \in ProbeState /\ new.pc = "replace" /\ new.node = n /\ new.src = s
    BY <2>3, <2>4, <2>5 DEF ProbeState
  <2>7. Enter(p, new)
    BY <1>5 DEF BeginRefresh, snap
  <2> HIDE DEF new
  <2>8. ProbeShape'
    BY <2>6, <2>7, ProbeEntered DEF HealthInv, GoodProbe
  <2>9. RowsInv' /\ PausedSubscriptionServesNothing'
    BY <1>5, RowsKept DEF BeginRefresh
  <2>10. EnvType'
    BY <1>5 DEF HealthInv, EnvType, BeginRefresh
  <2> QED BY <2>8, <2>9, <2>10 DEF HealthInv
<1>6. ASSUME NEW r \in Routes, AddManualNode(p, n, r) PROVE HealthInv'
  <2> DEFINE new == Upserted(rows[n], r)
  <2>1. Good(rows[n])
    BY DEF HealthInv, RowsInv
  <2>2. /\ Good(new) /\ new.src = Manual /\ new.route = r /\ new.st = "disabled"
    BY <1>6, <2>1, UpsertedGood DEF AddManualNode, Present
  <2>3. /\ rows' = [rows EXCEPT ![n] = new]
        /\ Enter(p, Snapshot("manual", n, new))
        /\ UNCHANGED <<sub, saved, startup, saving, mu, fwd>>
    BY <1>6 DEF AddManualNode
  <2> HIDE DEF new
  <2>4. RowsInv' /\ PausedSubscriptionServesNothing'
    BY <2>2, <2>3, RowWritten
  <2>5. "manual" \in AllKinds /\ new \in Row
    BY <2>2 DEF AllKinds, Good
  <2>6. GoodProbe(Snapshot("manual", n, new))
    BY <2>2, <2>5, SnapshotGood
  <2>7. ProbeShape'
    BY <2>3, <2>6, ProbeEntered DEF HealthInv
  <2> QED BY <2>3, <2>4, <2>7 DEF HealthInv, EnvType
<1> QED BY <1>1, <1>2, <1>3, <1>4, <1>5, <1>6

\* The rows a refresh replaces.
LEMMA ReplaceStep ==
  ASSUME HealthInv, NEW p \in Probers, NEW r \in Routes, ReplaceSubscriptionProxies(p, r)
  PROVE  HealthInv'
<1> DEFINE n == probe[p].node
           s == probe[p].src
           new == Replaced(rows[n], s, r)
           snap == Snapshot("refresh", n, new)
<1>1. /\ probe[p].pc = "replace"
      /\ RefreshOwns(p)
      /\ rows' = [rows EXCEPT ![n] = new]
      /\ Enter(p, [snap EXCEPT !.src = s])
      /\ UNCHANGED <<sub, saved, startup, saving, mu, fwd>>
  BY DEF ReplaceSubscriptionProxies
<1>2. GoodProbe(probe[p]) /\ n \in Nodes /\ s \in Subs
  BY <1>1 DEF HealthInv, ProbeShape, GoodProbe, ProbeState
<1>3. Good(rows[n])
  BY <1>2 DEF HealthInv, RowsInv
<1>4. /\ Good(new) /\ new.route = r
      /\ new.st = "active" /\ new.src # Manual => sub[new.src] = "active"
  BY <1>1, <1>2, <1>3, ReplacedGood DEF RefreshOwns, Present
<1> HIDE DEF new
<1>5. RowsInv' /\ PausedSubscriptionServesNothing'
  BY <1>1, <1>2, <1>4, RowWritten
<1>6. "refresh" \in AllKinds /\ new \in Row
  BY <1>4 DEF AllKinds, Good
<1>7. GoodProbe(snap) /\ snap.pc = "probing"
  BY <1>2, <1>4, <1>6, SnapshotGood DEF Snapshot
<1> HIDE DEF snap
<1>8. GoodProbe([snap EXCEPT !.src = s])
  BY <1>2, <1>7 DEF GoodProbe, ProbeState
<1>9. ProbeShape'
  BY <1>1, <1>8, ProbeEntered DEF HealthInv
<1> QED BY <1>1, <1>5, <1>9 DEF HealthInv, EnvType

\* The end of a refresh's transaction.
LEMMA ReplaceEndsStep ==
  ASSUME HealthInv, NEW p \in Probers, ReplaceEnds(p)
  PROVE  HealthInv'
<1> DEFINE n == probe[p].node
<1>1. /\ probe[p].pc = "replace"
      /\ rows' = [rows EXCEPT ![n] = Deleted] \/ rows' = rows
      /\ Finish(p)
      /\ UNCHANGED <<sub, saved, startup, saving, fwd>>
  BY DEF ReplaceEnds
<1>2. n \in Nodes
  BY <1>1 DEF HealthInv, ProbeShape, GoodProbe
<1>3. RowsInv' /\ PausedSubscriptionServesNothing'
  <2>1. CASE rows' = [rows EXCEPT ![n] = Deleted]
    BY <1>1, <1>2, <2>1, EmptyGood, RowWritten
  <2>2. CASE rows' = rows
    BY <1>1, <2>2, RowsKept
  <2> QED BY <1>1, <2>1, <2>2
<1>4. ProbeShape' /\ mu' \in Probers \cup {Free}
  BY <1>1, ProbeFinished
<1> QED BY <1>1, <1>3, <1>4 DEF HealthInv, EnvType

\* A prober goes to recover only with an exit that the filter admits.
LEMMA FirstStatementGood ==
  ASSUME NEW kind, NEW was, NEW res, NEW rule
  PROVE  /\ FirstStatement(kind, was, Verdict(res, rule)) \in Statements
         /\ FirstStatement(kind, was, Verdict(res, rule)) = "recover" => res.cc # NoExit
<1>1. Verdict(res, rule) \in {"failed", "rejected", "valid"}
  BY DEF Verdict
<1>2. Verdict(res, rule) = "valid" => res.cc # NoExit
  BY DEF Verdict
<1>3. FirstStatement(kind, was, Verdict(res, rule)) \in Statements
  BY DEF FirstStatement, Statements
<1>4. FirstStatement(kind, was, Verdict(res, rule)) = "recover" => Verdict(res, rule) = "valid"
  BY <1>1 DEF FirstStatement
<1> QED BY <1>2, <1>3, <1>4

\* The answer of a probe, and the statement it leads to.
LEMMA ProbeReturnsStep ==
  ASSUME HealthInv, NEW p \in Probers, NEW res \in Outcome, ProbeReturns(p, res)
  PROVE  HealthInv'
<1> DEFINE pr == probe[p]
           first == FirstStatement(pr.kind, pr.was, Verdict(res, pr.rule))
           pc2 == IF pr.kind = "probe" THEN "recheck" ELSE first
           new == [pr EXCEPT !.res = res, !.pc = pc2]
<1>1. /\ pr.pc = "probing"
      /\ Enter(p, new)
      /\ UNCHANGED <<rows, sub, saved, startup, saving, mu, fwd>>
  BY DEF ProbeReturns
<1>2. GoodProbe(pr)
  BY DEF HealthInv, ProbeShape
<1>3. first \in Statements /\ (first = "recover" => res.cc # NoExit)
  BY FirstStatementGood
<1>4. /\ pc2 \in Stages \ {"idle", "replace", "probing"}
      /\ pc2 = "recover" => res.cc \in Countries
  BY <1>3 DEF Stages, Statements, Outcome
<1> HIDE DEF pc2
<1>5. /\ new \in ProbeState /\ new.pc = pc2 /\ new.res = res
      /\ new.node = pr.node /\ new.route = pr.route
  BY <1>2, <1>4 DEF GoodProbe, ProbeState
<1> HIDE DEF new
<1>6. GoodProbe(new)
  BY <1>1, <1>2, <1>4, <1>5 DEF GoodProbe
<1>7. ProbeShape'
  BY <1>1, <1>6, ProbeEntered DEF HealthInv
<1>8. RowsInv' /\ PausedSubscriptionServesNothing'
  BY <1>1, RowsKept
<1> QED BY <1>1, <1>7, <1>8 DEF HealthInv, EnvType

\* Reading the row again before the write.
LEMMA RecheckStep ==
  ASSUME HealthInv, NEW p \in Probers, RecheckTarget(p)
  PROVE  HealthInv'
<1> DEFINE pr == probe[p]
           first == FirstStatement("probe", pr.was, Verdict(pr.res, pr.rule))
           new == [pr EXCEPT !.pc = first]
<1>1. /\ pr.pc = "recheck"
      /\ (Enter(p, new) /\ mu' = p) \/ Finish(p)
      /\ UNCHANGED <<rows, sub, saved, startup, saving, fwd>>
  BY DEF RecheckTarget
<1>2. GoodProbe(pr)
  BY DEF HealthInv, ProbeShape
<1>3. first \in Statements /\ (first = "recover" => pr.res.cc # NoExit)
  BY FirstStatementGood
<1>4. first \in Stages \ {"idle", "replace"} /\ (first = "recover" => pr.res.cc \in Countries)
  BY <1>2, <1>3 DEF Stages, Statements, Outcome, GoodProbe, ProbeState
<1> HIDE DEF first
<1>5. /\ new \in ProbeState /\ new.pc = first /\ new.res = pr.res
      /\ new.node = pr.node /\ new.route = pr.route
  BY <1>2, <1>4 DEF GoodProbe, ProbeState
<1> HIDE DEF new
<1>6. GoodProbe(new)
  BY <1>1, <1>2, <1>4, <1>5 DEF GoodProbe
<1>7. ProbeShape' /\ mu' \in Probers \cup {Free}
  BY <1>1, <1>6, ProbeEntered, ProbeFinished DEF HealthInv
<1>8. RowsInv' /\ PausedSubscriptionServesNothing'
  BY <1>1, RowsKept
<1> QED BY <1>1, <1>7, <1>8 DEF HealthInv, EnvType

\* The UPDATE statements of the probes.
LEMMA StatementStep ==
  ASSUME HealthInv, NEW p \in Probers,
         \/ ApplyProbeObservation(p)
         \/ RecordProbeFailure(p)
         \/ RecoverProxyFromProbe(p)
         \/ RecordDisabledProbeFailure(p)
         \/ DisableRouteForPolicy(p)
  PROVE  HealthInv'
<1> DEFINE pr == probe[p]
           row == rows[pr.node]
           Hit == SameRoute(pr.node, pr.route)
<1>a. /\ "observe" \in Statements /\ "failure" \in Statements /\ "recover" \in Statements
      /\ "retest" \in Statements /\ "policy" \in Statements
  BY DEF Statements
<1>b. ASSUME pr.pc \in Statements, Hit
      PROVE  /\ pr.node \in Nodes /\ Good(row) /\ GoodProbe(pr)
             /\ row.st \in {"disabled", "active"} /\ pr.route = row.route
  BY <1>b, HitRow
<1>c. ASSUME NEW new, pr.pc \in Statements, Hit, Calm(row, new)
      PROVE  /\ Good(new)
             /\ new.st = "active" /\ new.src # Manual => sub[new.src] = "active"
  BY <1>b, <1>c DEF Calm, HealthInv, PausedSubscriptionServesNothing
<1>1. CASE ApplyProbeObservation(p)
  <2>1. Update(p, "observe", TRUE, Confirmed(row, pr)) /\ pr.pc = "observe"
    BY <1>1 DEF ApplyProbeObservation, Update
  <2>2. Hit => Calm(row, Confirmed(row, pr))
    BY <1>a, <1>b, <2>1, ConfirmedCalm
  <2> QED BY <1>a, <1>c, <2>1, <2>2, UpdateStep
<1>2. CASE RecordProbeFailure(p)
  <2> DEFINE t == IF pr.kind = "health" THEN FailThreshold ELSE 1
             o == Observed(row, pr)
  <2>1. Update(p, "failure", TRUE, Failed(o, t)) /\ pr.pc = "failure"
    BY <1>2 DEF RecordProbeFailure, Update
  <2>2. t \in 1..FailThreshold
    BY DEF FailThreshold
  <2>3. Hit => Calm(row, o) /\ o.st = row.st
    BY <1>a, <1>b, <2>1, ObservedCalm
  <2> HIDE DEF t, o
  <2>4. Hit => Calm(o, Failed(o, t))
    BY <1>a, <1>b, <2>1, <2>2, <2>3, FailedCalm DEF Calm
  <2>5. Hit => Calm(row, Failed(o, t))
    BY <2>3, <2>4 DEF Calm
  <2> QED BY <1>a, <1>c, <2>1, <2>5, UpdateStep
<1>3. CASE RecoverProxyFromProbe(p)
  <2> DEFINE cond == row.st = "disabled" /\ ~row.paused
  <2>1. Update(p, "recover", cond, Recovered(row, pr)) /\ pr.pc = "recover"
    BY <1>3 DEF RecoverProxyFromProbe, Update
  <2>2. pr.res.cc \in Countries
    BY <2>1 DEF HealthInv, ProbeShape, GoodProbe
  <2>3. Hit /\ cond => Good(Recovered(row, pr)) /\ Recovered(row, pr).src = row.src
    BY <1>a, <1>b, <2>1, <2>2, RecoveredGood
  <2>4. ParentActive(pr.node) => (row.src # Manual => sub[row.src] = "active")
    BY DEF ParentActive
  <2> HIDE DEF cond
  <2> QED BY <1>a, <2>1, <2>3, <2>4, UpdateStep
<1>4. CASE RecordDisabledProbeFailure(p)
  <2> DEFINE cond == row.st = "disabled"
  <2>1. Update(p, "retest", cond, Retested(row, pr)) /\ pr.pc = "retest"
    BY <1>4 DEF RecordDisabledProbeFailure, Update
  <2>2. Hit /\ cond => Calm(row, Retested(row, pr))
    BY <1>a, <1>b, <2>1, RetestedCalm
  <2> HIDE DEF cond
  <2> QED BY <1>a, <1>c, <2>1, <2>2, UpdateStep
<1>5. CASE DisableRouteForPolicy(p)
  <2>1. Update(p, "policy", TRUE, PolicyDisabled(row)) /\ pr.pc = "policy"
    BY <1>5 DEF DisableRouteForPolicy, Update
  <2>2. Hit => Calm(row, PolicyDisabled(row))
    BY <1>a, <1>b, <2>1, PolicyCalm
  <2> QED BY <1>a, <1>c, <2>1, <2>2, UpdateStep
<1> QED BY <1>1, <1>2, <1>3, <1>4, <1>5

\* A statement that fails changes nothing.
LEMMA DatabaseErrorStep ==
  ASSUME HealthInv, NEW p \in Probers, DatabaseError(p)
  PROVE  HealthInv'
<1>1. ProbeShape' /\ mu' \in Probers \cup {Free}
  BY ProbeFinished, ProbeContinued DEF DatabaseError
<1>2. RowsInv' /\ PausedSubscriptionServesNothing'
  BY RowsKept DEF DatabaseError
<1> QED BY <1>1, <1>2 DEF DatabaseError, HealthInv, EnvType

-----------------------------------------------------------------------------
(* Forwarding, administration, restart.                                    *)

\* The two statements of the gateway.
LEMMA ForwardStep ==
  ASSUME HealthInv, NEW f \in Forwarders, Forwarding(f)
  PROVE  HealthInv'
<1> DEFINE n == fwd[f].node
<1>a. fwd' \in [Forwarders -> [node : Nodes \cup {NoNode}, route : Routes \cup {NoRoute}]]
      /\ (\A g \in Forwarders : fwd'[g] # NotForwarding => fwd'[g].node \in Nodes)
      => (sub' = sub /\ saved' = saved /\ startup' = startup /\ saving' = saving /\ mu' = mu
          => EnvType')
  BY DEF HealthInv, EnvType
<1>1. ASSUME NEW m \in Nodes, StartForward(f, m) PROVE HealthInv'
  <2> DEFINE new == [node |-> m, route |-> rows[m].route]
  <2>1. /\ fwd' = [fwd EXCEPT ![f] = new]
        /\ UNCHANGED <<rows, sub, saved, startup, saving, mu, probe>>
    BY <1>1 DEF StartForward
  <2>2. new \in [node : Nodes \cup {NoNode}, route : Routes \cup {NoRoute}] /\ new.node \in Nodes
    BY DEF HealthInv, RowsInv, Row
  <2> HIDE DEF new
  <2>3. EnvType'
    BY <2>1, <2>2, <1>a DEF HealthInv, EnvType
  <2>4. RowsInv' /\ PausedSubscriptionServesNothing'
    BY <2>1, RowsKept
  <2> QED BY <2>1, <2>3, <2>4 DEF HealthInv, ProbeShape
<1>2. ASSUME NEW new, ForwardEnds(f, new),
             SameRoute(n, fwd[f].route) /\ n \in Nodes => Calm(rows[n], new)
      PROVE  HealthInv'
  <2>1. /\ fwd[f] # NotForwarding
        /\ rows' = IF SameRoute(n, fwd[f].route) THEN [rows EXCEPT ![n] = new] ELSE rows
        /\ fwd' = [fwd EXCEPT ![f] = NotForwarding]
        /\ UNCHANGED <<sub, saved, startup, saving, mu, probe>>
    BY <1>2 DEF ForwardEnds
  <2>2. n \in Nodes
    BY <2>1 DEF HealthInv, EnvType
  <2>3. NotForwarding \in [node : Nodes \cup {NoNode}, route : Routes \cup {NoRoute}]
    BY DEF NotForwarding
  <2>4. EnvType'
    BY <2>1, <2>3, <1>a DEF HealthInv, EnvType
  <2>5. RowsInv' /\ PausedSubscriptionServesNothing'
    <3>1. CASE SameRoute(n, fwd[f].route)
      BY <1>2, <2>1, <2>2, <3>1, RowCalmlyWritten
    <3>2. CASE ~SameRoute(n, fwd[f].route)
      BY <2>1, <3>2, RowsKept
    <3> QED BY <3>1, <3>2
  <2> QED BY <2>1, <2>4, <2>5 DEF HealthInv, ProbeShape
<1>3. ASSUME SameRoute(n, fwd[f].route), n \in Nodes
      PROVE  Good(rows[n]) /\ rows[n].st \in {"disabled", "active"}
  BY <1>3 DEF HealthInv, RowsInv, SameRoute, Present
<1>4. CASE RecordForwardFailure(f)
  <2>1. FailThreshold \in 1..FailThreshold
    BY DEF FailThreshold
  <2>2. SameRoute(n, fwd[f].route) /\ n \in Nodes => Calm(rows[n], Failed(rows[n], FailThreshold))
    BY <1>3, <2>1, FailedCalm
  <2> QED BY <1>2, <1>4, <2>2 DEF RecordForwardFailure
<1>5. CASE RecordForwardSuccess(f)
  <2>1. SameRoute(n, fwd[f].route) /\ n \in Nodes => Calm(rows[n], [rows[n] EXCEPT !.fail = 0])
    BY <1>3 DEF Calm, Good, Row, FailThreshold
  <2> QED BY <1>2, <1>5, <2>1 DEF RecordForwardSuccess
<1> QED BY <1>1, <1>4, <1>5 DEF Forwarding

\* A step that rewrites every row.
LEMMA AllRowsWritten ==
  ASSUME rows' = [n \in Nodes |-> rows'[n]],
         \A n \in Nodes : Good(rows'[n]),
         \A n \in Nodes : rows'[n].st = "active" /\ rows'[n].src # Manual =>
                            sub'[rows'[n].src] = "active"
  PROVE  RowsInv' /\ PausedSubscriptionServesNothing'
<1>1. \A n \in Nodes : rows'[n] \in Row
  BY DEF Good
<1>2. rows' \in [Nodes -> Row]
  BY <1>1
<1> QED BY <1>1, <1>2 DEF RowsInv, PausedSubscriptionServesNothing

\* The administrator's operations on one node.
LEMMA NodeStep ==
  ASSUME HealthInv, NEW n \in Nodes,
         PauseProxy(n) \/ UnpauseProxy(n) \/ DeleteNode(n)
         \/ (\E r \in Routes : AddManualTunnel(n, r))
  PROVE  HealthInv'
<1>1. ASSUME NEW new, Good(new), rows' = [rows EXCEPT ![n] = new],
             new.st = "active" /\ new.src # Manual => sub[new.src] = "active",
             UNCHANGED <<sub, saved, startup, saving, mu, probe, fwd>>
      PROVE  HealthInv'
  <2>1. RowsInv' /\ PausedSubscriptionServesNothing'
    BY <1>1, RowWritten
  <2> QED BY <1>1, <2>1 DEF HealthInv, EnvType, ProbeShape
<1>2. Good(rows[n]) /\ rows \in [Nodes -> Row]
      /\ (rows[n].st = "active" /\ rows[n].src # Manual => sub[rows[n].src] = "active")
  BY DEF HealthInv, RowsInv, PausedSubscriptionServesNothing
<1>3. CASE PauseProxy(n)
  <2> DEFINE new == [rows[n] EXCEPT !.paused = TRUE]
  <2>1. Good(new) /\ new.st = rows[n].st /\ new.src = rows[n].src
    BY <1>2, <1>3 DEF Good, Row, PauseProxy, Present
  <2>2. rows' = [rows EXCEPT ![n] = new]
    BY <1>3 DEF PauseProxy
  <2> HIDE DEF new
  <2> QED BY <1>1, <1>2, <1>3, <2>1, <2>2 DEF PauseProxy
<1>4. CASE UnpauseProxy(n)
  <2> DEFINE new == [rows[n] EXCEPT !.paused = FALSE, !.fail = 0]
  <2>a. 0 \in 0..FailThreshold /\ 0 < FailThreshold
    BY DEF FailThreshold
  <2>b. rows[n] \in Row
    BY <1>2
  <2>c. /\ new \in Row /\ new.st = rows[n].st /\ new.src = rows[n].src
        /\ new.fail = 0 /\ new.paused = FALSE /\ new.route = rows[n].route
        /\ new.exit = rows[n].exit /\ new.clock = rows[n].clock
    BY <2>a, <2>b DEF Row
  <2>1. Good(new) /\ new.st = rows[n].st /\ new.src = rows[n].src
    <3> HIDE DEF new
    <3> QED BY <1>2, <2>a, <2>c DEF Good
  <2>2. rows' = [rows EXCEPT ![n] = new]
    BY <1>4 DEF UnpauseProxy
  <2> HIDE DEF new
  <2> QED BY <1>1, <1>2, <1>4, <2>1, <2>2 DEF UnpauseProxy
<1>5. CASE DeleteNode(n)
  BY <1>1, <1>5, EmptyGood DEF DeleteNode
<1>6. ASSUME NEW r \in Routes, AddManualTunnel(n, r) PROVE HealthInv'
  BY <1>1, <1>2, <1>6, RekeyedGood DEF AddManualTunnel, Present
<1> QED BY <1>3, <1>4, <1>5, <1>6

\* The operations on a subscription.
LEMMA SubscriptionStep ==
  ASSUME HealthInv, NEW s \in Subs,
         PauseSubscription(s) \/ ResumeSubscription(s) \/ DeleteSubscription(s)
  PROVE  HealthInv'
<1>1. /\ UNCHANGED <<saved, startup, saving, mu, probe, fwd>>
      /\ sub' = [sub EXCEPT ![s] = sub'[s]]
      /\ sub'[s] \in {"active", "paused", "deleted"}
  BY DEF PauseSubscription, ResumeSubscription, DeleteSubscription, HealthInv, EnvType
<1>2. EnvType' /\ ProbeShape'
  BY <1>1 DEF HealthInv, EnvType, ProbeShape
<1>3. \A t \in Subs : t # s => sub'[t] = sub[t]
  BY <1>1 DEF HealthInv, EnvType
<1>4. \A n \in Nodes : /\ Good(rows[n])
                       /\ rows[n].src \in Subs \cup {Manual}
                       /\ rows[n].st = "active" /\ rows[n].src # Manual => sub[rows[n].src] = "active"
  BY DEF HealthInv, RowsInv, PausedSubscriptionServesNothing, Row, Good
<1>5. CASE PauseSubscription(s)
  <2> DEFINE F(n) == IF rows[n].src = s THEN Suspended(rows[n]) ELSE rows[n]
  <2>1. \A n \in Nodes : /\ Good(F(n))
                         /\ F(n).st = "active" /\ F(n).src # Manual => sub'[F(n).src] = "active"
    BY <1>3, <1>4, SuspendedCalm DEF Calm
  <2>2. rows' = [n \in Nodes |-> F(n)]
    BY <1>5 DEF PauseSubscription
  <2> HIDE DEF F
  <2>a. rows' = [n \in Nodes |-> rows'[n]] /\ \A n \in Nodes : rows'[n] = F(n)
    BY <2>2
  <2>3. RowsInv' /\ PausedSubscriptionServesNothing'
    BY <2>1, <2>a, AllRowsWritten
  <2> QED BY <1>2, <2>3 DEF HealthInv
<1>6. CASE ResumeSubscription(s)
  <2>1. rows' = rows /\ sub'[s] = "active"
    BY <1>6 DEF ResumeSubscription, HealthInv, EnvType
  <2>2. RowsInv'
    BY <2>1 DEF HealthInv, RowsInv
  <2>3. PausedSubscriptionServesNothing'
    BY <1>3, <1>4, <2>1 DEF PausedSubscriptionServesNothing
  <2> QED BY <1>2, <2>2, <2>3 DEF HealthInv
<1>7. CASE DeleteSubscription(s)
  <2> DEFINE F(n) == IF Present(n) /\ rows[n].src = s THEN Deleted ELSE rows[n]
  <2>1. \A n \in Nodes : /\ Good(F(n))
                         /\ F(n).st = "active" /\ F(n).src # Manual => sub'[F(n).src] = "active"
    BY <1>3, <1>4, EmptyGood DEF Present
  <2>2. rows' = [n \in Nodes |-> F(n)]
    BY <1>7 DEF DeleteSubscription
  <2> HIDE DEF F
  <2>a. rows' = [n \in Nodes |-> rows'[n]] /\ \A n \in Nodes : rows'[n] = F(n)
    BY <2>2
  <2>3. RowsInv' /\ PausedSubscriptionServesNothing'
    BY <2>1, <2>a, AllRowsWritten
  <2> QED BY <1>2, <2>3 DEF HealthInv
<1> QED BY <1>5, <1>6, <1>7

\* Saving a filter, applying it, and restarting.
LEMMA PolicyStep ==
  ASSUME HealthInv,
         (\E policy \in Policies : SavePolicy(policy)) \/ ApplyCountryFilters
         \/ CountryFiltersFail \/ Restart
  PROVE  HealthInv'
<1>1. ASSUME NEW policy \in Policies, SavePolicy(policy) PROVE HealthInv'
  <2>1. RowsInv' /\ PausedSubscriptionServesNothing'
    BY <1>1, RowsKept DEF SavePolicy
  <2> QED BY <1>1, <2>1 DEF SavePolicy, HealthInv, EnvType, ProbeShape
<1>2. \A n \in Nodes : /\ Good(rows[n])
                       /\ rows[n].st = "active" /\ rows[n].src # Manual => sub[rows[n].src] = "active"
  BY DEF HealthInv, RowsInv, PausedSubscriptionServesNothing
<1>3. CASE ApplyCountryFilters
  <2> DEFINE F(n) == Filtered(rows[n], saved)
  <2>1. \A n \in Nodes : Calm(rows[n], F(n))
    BY <1>2, FilteredCalm
  <2>2. rows' = [n \in Nodes |-> F(n)] /\ UNCHANGED <<sub, saved, startup, mu, probe, fwd>>
    BY <1>3 DEF ApplyCountryFilters
  <2> HIDE DEF F
  <2>a. rows' = [n \in Nodes |-> rows'[n]] /\ \A n \in Nodes : rows'[n] = F(n)
    BY <2>2
  <2>3. RowsInv' /\ PausedSubscriptionServesNothing'
    BY <1>2, <2>1, <2>2, <2>a, AllRowsWritten DEF Calm
  <2>4. saving' = NoRule
    BY <1>3 DEF ApplyCountryFilters
  <2> QED BY <2>2, <2>3, <2>4 DEF HealthInv, EnvType, ProbeShape
<1>4. CASE CountryFiltersFail
  <2>1. RowsInv' /\ PausedSubscriptionServesNothing'
    BY <1>4, RowsKept DEF CountryFiltersFail
  <2> QED BY <1>4, <2>1 DEF CountryFiltersFail, HealthInv, EnvType, ProbeShape
<1>5. CASE Restart
  <2> DEFINE B(n) == Backfilled(rows[n], sub)
             F(n) == Filtered(B(n), saved)
  <2>1. \A n \in Nodes : Calm(rows[n], B(n))
    BY <1>2, BackfilledCalm
  <2> HIDE DEF B
  <2>2. \A n \in Nodes : Calm(B(n), F(n))
    BY <2>1, FilteredCalm DEF Calm
  <2>3. rows' = [n \in Nodes |-> F(n)] /\ UNCHANGED <<sub, saved>>
    BY <1>5 DEF Restart, B
  <2> HIDE DEF F
  <2>a. rows' = [n \in Nodes |-> rows'[n]] /\ \A n \in Nodes : rows'[n] = F(n)
    BY <2>3
  <2>4. RowsInv' /\ PausedSubscriptionServesNothing'
    BY <1>2, <2>1, <2>2, <2>3, <2>a, AllRowsWritten DEF Calm
  <2>5. probe' \in [Probers -> ProbeState] /\ \A p \in Probers : probe'[p] = Idle
    BY <1>5, IdleGood DEF Restart, GoodProbe
  <2>6. ProbeShape'
    BY <2>5, IdleGood DEF ProbeShape
  <2>7. NotForwarding \in [node : Nodes \cup {NoNode}, route : Routes \cup {NoRoute}]
    BY DEF NotForwarding
  <2>8. EnvType'
    BY <1>5, <2>7 DEF Restart, HealthInv, EnvType
  <2> QED BY <2>4, <2>6, <2>8 DEF HealthInv
<1> QED BY <1>1, <1>3, <1>4, <1>5

-----------------------------------------------------------------------------
\* The database starts in the invariant.
LEMMA HealthInit == Init => HealthInv
<1> SUFFICES ASSUME Init PROVE HealthInv
  OBVIOUS
<1>1. rows \in [Nodes -> Row] /\ \A n \in Nodes : rows[n] = NoRow
  BY EmptyGood DEF Init, Good
<1>2. RowsInv /\ PausedSubscriptionServesNothing
  BY <1>1, EmptyGood DEF RowsInv, PausedSubscriptionServesNothing
<1>3. ProbeShape
  BY IdleGood DEF Init, ProbeShape, GoodProbe
<1>4. NotForwarding \in [node : Nodes \cup {NoNode}, route : Routes \cup {NoRoute}]
  BY DEF NotForwarding
<1>5. EnvType
  BY <1>4 DEF Init, EnvType
<1> QED BY <1>2, <1>3, <1>5 DEF HealthInv

\* Every step of Next keeps the invariant.
LEMMA HealthStep == HealthInv /\ [Next]_vars => HealthInv'
<1> SUFFICES ASSUME HealthInv, [Next]_vars PROVE HealthInv'
  OBVIOUS
<1>1. ASSUME NEW p \in Probers, ProbeStep(p) PROVE HealthInv'
  BY <1>1, ReplaceStep, ReplaceEndsStep, ProbeReturnsStep, RecheckStep, StatementStep
     DEF ProbeStep
<1>2. CASE Administration
  BY <1>2, NodeStep, SubscriptionStep, PolicyStep DEF Administration
<1>3. CASE UNCHANGED vars
  <2>1. RowsInv' /\ PausedSubscriptionServesNothing'
    BY <1>3, RowsKept DEF vars
  <2> QED BY <1>3, <2>1 DEF vars, HealthInv, EnvType, ProbeShape
<1> QED BY <1>1, <1>2, <1>3, ProbeStartStep, DatabaseErrorStep, ForwardStep DEF Next

\* The inductive invariant holds in every reachable state.
THEOREM HealthInvariant == Spec => []HealthInv
BY HealthInit, HealthStep, PTL DEF Spec

\* Type correctness, for every number of nodes, probers and policies.
THEOREM HealthTypeOK == Spec => []TypeOK
<1>1. HealthInv => TypeOK
  BY DEF HealthInv, EnvType, RowsInv, ProbeShape, TypeOK
<1> QED BY <1>1, HealthInvariant, PTL

\* No node is left active with a fail count that hides it from selection, from
\* the health check and from the probe of disabled nodes alike.
THEOREM NoNodeStranded == Spec => []NoStrandedNode
<1>1. HealthInv => NoStrandedNode
  BY DEF HealthInv, RowsInv, Good, NoStrandedNode
<1> QED BY <1>1, HealthInvariant, PTL

\* No refresh or probe, however late, brings a node of a paused subscription
\* back into service.
THEOREM PausedStaysOut == Spec => []PausedSubscriptionServesNothing
<1>1. HealthInv => PausedSubscriptionServesNothing
  BY DEF HealthInv
<1> QED BY <1>1, HealthInvariant, PTL

\* The exit of a node in service was measured on the route it has now.
THEOREM ActiveVerified == Spec => []ActiveIsVerified
<1>1. HealthInv => ActiveIsVerified
  BY HealthAssumption DEF HealthInv, RowsInv, Good, ActiveIsVerified
<1> QED BY <1>1, HealthInvariant, PTL

\* The retention clock of a node in service is not running.
THEOREM ClockStopped == Spec => []ActiveHasNoClock
<1>1. HealthInv => ActiveHasNoClock
  BY DEF HealthInv, RowsInv, Good, ActiveHasNoClock
<1> QED BY <1>1, HealthInvariant, PTL

-----------------------------------------------------------------------------
(* The user's pause.                                                       *)

Keeps(old, new) ==
  /\ old.paused => new.paused \/ new = Deleted
  /\ old.paused /\ new.st = "active" => old.st = "active"

Sticky == \A n \in Nodes : UnpauseProxy(n) \/ Keeps(rows[n], rows'[n])

\* A write that keeps the pause of its row is sticky.
LEMMA StickyOne ==
  ASSUME HealthInv, NEW n \in Nodes, NEW new, rows' = [rows EXCEPT ![n] = new],
         Keeps(rows[n], new)
  PROVE  Sticky
<1>1. \A m \in Nodes : rows'[m] = IF m = n THEN new ELSE rows[m]
  BY DEF HealthInv, RowsInv
<1>2. \A m \in Nodes : m # n => Keeps(rows[m], rows'[m])
  BY <1>1 DEF Keeps
<1> QED BY <1>1, <1>2 DEF Sticky

\* A step that writes no row is sticky.
LEMMA StickyNone == ASSUME rows' = rows PROVE Sticky
BY DEF Sticky, Keeps

\* A calm write keeps the pause.
LEMMA CalmKeeps == ASSUME NEW old, NEW new, Calm(old, new) PROVE Keeps(old, new)
BY DEF Calm, Keeps

\* A guarded UPDATE is sticky if what it writes is.
LEMMA StickyUpdate ==
  ASSUME HealthInv, NEW p \in Probers, NEW pc \in Statements, NEW cond, NEW new,
         Update(p, pc, cond, new),
         SameRoute(probe[p].node, probe[p].route) /\ cond => Keeps(rows[probe[p].node], new)
  PROVE  Sticky
<1> DEFINE n == probe[p].node
           hit == SameRoute(n, probe[p].route) /\ ParentActive(n) /\ cond
<1>1. probe[p].pc = pc /\ rows' = IF hit THEN [rows EXCEPT ![n] = new] ELSE rows
  BY DEF Update
<1>2. n \in Nodes
  BY <1>1, HitRow
<1>3. CASE hit
  BY <1>1, <1>2, <1>3, StickyOne
<1>4. CASE ~hit
  BY <1>1, <1>4, StickyNone
<1> QED BY <1>3, <1>4

\* The UPDATE statements of the probes are sticky.
LEMMA StickyStatement ==
  ASSUME HealthInv, NEW p \in Probers,
         \/ ApplyProbeObservation(p)
         \/ RecordProbeFailure(p)
         \/ RecoverProxyFromProbe(p)
         \/ RecordDisabledProbeFailure(p)
         \/ DisableRouteForPolicy(p)
  PROVE  Sticky
<1> DEFINE pr == probe[p]
           row == rows[pr.node]
           Hit == SameRoute(pr.node, pr.route)
<1>a. /\ "observe" \in Statements /\ "failure" \in Statements /\ "recover" \in Statements
      /\ "retest" \in Statements /\ "policy" \in Statements
  BY DEF Statements
<1>b. ASSUME pr.pc \in Statements, Hit
      PROVE  /\ pr.node \in Nodes /\ Good(row) /\ GoodProbe(pr)
             /\ row.st \in {"disabled", "active"} /\ pr.route = row.route
  BY <1>b, HitRow
<1>1. CASE ApplyProbeObservation(p)
  <2>1. Update(p, "observe", TRUE, Confirmed(row, pr)) /\ pr.pc = "observe"
    BY <1>1 DEF ApplyProbeObservation, Update
  <2>2. Hit => Keeps(row, Confirmed(row, pr))
    BY <1>a, <1>b, <2>1, ConfirmedCalm, CalmKeeps
  <2> QED BY <1>a, <2>1, <2>2, StickyUpdate
<1>2. CASE RecordProbeFailure(p)
  <2> DEFINE t == IF pr.kind = "health" THEN FailThreshold ELSE 1
             o == Observed(row, pr)
  <2>1. Update(p, "failure", TRUE, Failed(o, t)) /\ pr.pc = "failure"
    BY <1>2 DEF RecordProbeFailure, Update
  <2>2. t \in 1..FailThreshold
    BY DEF FailThreshold
  <2>3. Hit => Calm(row, o) /\ o.st = row.st
    BY <1>a, <1>b, <2>1, ObservedCalm
  <2> HIDE DEF t, o
  <2>4. Hit => Calm(o, Failed(o, t))
    BY <1>a, <1>b, <2>1, <2>2, <2>3, FailedCalm DEF Calm
  <2>5. Hit => Keeps(row, Failed(o, t))
    BY <2>3, <2>4 DEF Calm, Keeps
  <2> QED BY <1>a, <2>1, <2>5, StickyUpdate
<1>3. CASE RecoverProxyFromProbe(p)
  <2> DEFINE cond == row.st = "disabled" /\ ~row.paused
  <2>1. Update(p, "recover", cond, Recovered(row, pr))
    BY <1>3 DEF RecoverProxyFromProbe
  <2>2. cond => Keeps(row, Recovered(row, pr))
    BY DEF Keeps
  <2> HIDE DEF cond
  <2> QED BY <1>a, <2>1, <2>2, StickyUpdate
<1>4. CASE RecordDisabledProbeFailure(p)
  <2> DEFINE cond == row.st = "disabled"
  <2>1. Update(p, "retest", cond, Retested(row, pr)) /\ pr.pc = "retest"
    BY <1>4 DEF RecordDisabledProbeFailure, Update
  <2>2. Hit /\ cond => Keeps(row, Retested(row, pr))
    BY <1>a, <1>b, <2>1, RetestedCalm, CalmKeeps
  <2> HIDE DEF cond
  <2> QED BY <1>a, <2>1, <2>2, StickyUpdate
<1>5. CASE DisableRouteForPolicy(p)
  <2>1. Update(p, "policy", TRUE, PolicyDisabled(row)) /\ pr.pc = "policy"
    BY <1>5 DEF DisableRouteForPolicy, Update
  <2>2. Hit => Keeps(row, PolicyDisabled(row))
    BY <1>a, <1>b, <2>1, PolicyCalm, CalmKeeps
  <2> QED BY <1>a, <2>1, <2>2, StickyUpdate
<1> QED BY <1>1, <1>2, <1>3, <1>4, <1>5

\* So is every step of a prober.
LEMMA StickyProbe ==
  ASSUME HealthInv, NEW p \in Probers, ProbeStart(p) \/ ProbeStep(p) \/ DatabaseError(p)
  PROVE  Sticky
<1>1. CASE rows' = rows
  BY <1>1, StickyNone
<1>2. ASSUME NEW n \in Nodes, NEW r \in Routes, AddManualNode(p, n, r) PROVE Sticky
  <2>1. Good(rows[n]) /\ rows' = [rows EXCEPT ![n] = Upserted(rows[n], r)]
    BY <1>2 DEF HealthInv, RowsInv, AddManualNode
  <2>2. Keeps(rows[n], Upserted(rows[n], r))
    BY <1>2, <2>1, UpsertedGood DEF Keeps, AddManualNode, Present
  <2> QED BY <2>1, <2>2, StickyOne
<1>3. ASSUME NEW r \in Routes, ReplaceSubscriptionProxies(p, r) PROVE Sticky
  <2> DEFINE n == probe[p].node
             s == probe[p].src
  <2>1. n \in Nodes /\ s \in Subs
    BY <1>3 DEF ReplaceSubscriptionProxies, HealthInv, ProbeShape, GoodProbe
  <2>2. Good(rows[n]) /\ rows' = [rows EXCEPT ![n] = Replaced(rows[n], s, r)]
    BY <1>3, <2>1 DEF HealthInv, RowsInv, ReplaceSubscriptionProxies
  <2>3. Keeps(rows[n], Replaced(rows[n], s, r))
    BY <1>3, <2>1, <2>2, ReplacedGood DEF Keeps, ReplaceSubscriptionProxies, RefreshOwns, Present
  <2> QED BY <2>1, <2>2, <2>3, StickyOne
<1>4. CASE ReplaceEnds(p)
  <2> DEFINE n == probe[p].node
  <2>1. n \in Nodes
    BY <1>4 DEF ReplaceEnds, HealthInv, ProbeShape, GoodProbe
  <2>2. rows' = [rows EXCEPT ![n] = Deleted] \/ rows' = rows
    BY <1>4 DEF ReplaceEnds
  <2>3. Keeps(rows[n], Deleted)
    BY EmptyGood DEF Keeps
  <2> QED BY <1>1, <2>1, <2>2, <2>3, StickyOne
<1>5. ASSUME NEW n \in Nodes, NEW s \in Subs, BeginRefresh(p, n, s)
      PROVE  rows' = rows
  BY <1>5 DEF BeginRefresh
<1>a. ASSUME NEW n \in Nodes,
             StartHealthCheck(p, n) \/ StartProbeDisabled(p, n) \/ StartWebProbe(p, n)
      PROVE  rows' = rows
  BY <1>a DEF StartHealthCheck, StartProbeDisabled, StartWebProbe
<1>6. ASSUME NEW res \in Outcome, ProbeReturns(p, res) PROVE rows' = rows
  BY <1>6 DEF ProbeReturns
<1>7. RecheckTarget(p) \/ DatabaseError(p) => rows' = rows
  BY DEF RecheckTarget, DatabaseError
<1>8. CASE ProbeStart(p)
  BY <1>1, <1>2, <1>5, <1>a, <1>8 DEF ProbeStart
<1>9. CASE ProbeStep(p)
  BY <1>1, <1>3, <1>4, <1>6, <1>7, <1>9, StickyStatement DEF ProbeStep
<1> QED BY <1>1, <1>7, <1>8, <1>9

\* So are the administrator's steps and the gateway's.
LEMMA StickyRest ==
  ASSUME HealthInv, Administration \/ \E f \in Forwarders : Forwarding(f)
  PROVE  Sticky
<1>a. \A n \in Nodes : Good(rows[n])
  BY DEF HealthInv, RowsInv
<1>1. ASSUME NEW f \in Forwarders, Forwarding(f) PROVE Sticky
  <2> DEFINE n == fwd[f].node
  <2>1. ASSUME NEW new, ForwardEnds(f, new),
               SameRoute(n, fwd[f].route) /\ n \in Nodes => Keeps(rows[n], new)
        PROVE  Sticky
    <3>1. fwd[f] # NotForwarding
          /\ rows' = IF SameRoute(n, fwd[f].route) THEN [rows EXCEPT ![n] = new] ELSE rows
      BY <2>1 DEF ForwardEnds
    <3>2. n \in Nodes
      BY <3>1 DEF HealthInv, EnvType
    <3> QED BY <2>1, <3>1, <3>2, StickyOne, StickyNone
  <2>2. SameRoute(n, fwd[f].route) /\ n \in Nodes => Keeps(rows[n], Failed(rows[n], FailThreshold))
    <3>1. FailThreshold \in 1..FailThreshold
      BY DEF FailThreshold
    <3> QED BY <1>a, <3>1, FailedCalm, CalmKeeps DEF SameRoute, Present
  <2>3. n \in Nodes => Keeps(rows[n], [rows[n] EXCEPT !.fail = 0])
    BY <1>a DEF Keeps, Good, Row
  <2>4. ASSUME NEW m \in Nodes, StartForward(f, m) PROVE Sticky
    BY <2>4, StickyNone DEF StartForward
  <2> QED BY <1>1, <2>1, <2>2, <2>3, <2>4
       DEF Forwarding, RecordForwardFailure, RecordForwardSuccess
<1>2. ASSUME NEW n \in Nodes, PauseProxy(n) PROVE Sticky
  <2> DEFINE new == [rows[n] EXCEPT !.paused = TRUE]
  <2>1. Keeps(rows[n], new)
    BY <1>a DEF Keeps, Good, Row
  <2>2. rows' = [rows EXCEPT ![n] = new]
    BY <1>2 DEF PauseProxy
  <2> HIDE DEF new
  <2> QED BY <2>1, <2>2, StickyOne
<1>3. ASSUME NEW n \in Nodes, UnpauseProxy(n) PROVE Sticky
  <2>1. \A m \in Nodes : m # n => rows'[m] = rows[m]
    BY <1>3 DEF UnpauseProxy, HealthInv, RowsInv
  <2> QED BY <1>3, <2>1 DEF Sticky, Keeps
<1>4. ASSUME NEW n \in Nodes, DeleteNode(n) PROVE Sticky
  <2>1. Keeps(rows[n], Deleted)
    BY EmptyGood DEF Keeps
  <2> QED BY <1>4, <2>1, StickyOne DEF DeleteNode
<1>5. ASSUME NEW n \in Nodes, NEW r \in Routes, AddManualTunnel(n, r) PROVE Sticky
  <2>1. Keeps(rows[n], Rekeyed(rows[n], r))
    BY <1>5, <1>a, RekeyedGood DEF AddManualTunnel, Present, Keeps
  <2> QED BY <1>5, <2>1, StickyOne DEF AddManualTunnel
<1>6. ASSUME NEW s \in Subs, PauseSubscription(s) PROVE Sticky
  <2>1. \A n \in Nodes : rows'[n] = Suspended(rows[n]) \/ rows'[n] = rows[n]
    BY <1>6 DEF PauseSubscription
  <2> QED BY <1>a, <2>1, SuspendedCalm, CalmKeeps DEF Sticky, Keeps
<1>7. ASSUME NEW s \in Subs, DeleteSubscription(s) PROVE Sticky
  <2>1. \A n \in Nodes : rows'[n] = Deleted \/ rows'[n] = rows[n]
    BY <1>7 DEF DeleteSubscription
  <2> QED BY <2>1, EmptyGood DEF Sticky, Keeps
<1>8. CASE ApplyCountryFilters
  <2>1. \A n \in Nodes : rows'[n] = Filtered(rows[n], saved)
    BY <1>8 DEF ApplyCountryFilters
  <2> QED BY <1>a, <2>1, FilteredCalm, CalmKeeps DEF Sticky
<1>9. CASE Restart
  <2> DEFINE B(n) == Backfilled(rows[n], sub)
  <2>1. \A n \in Nodes : rows'[n] = Filtered(B(n), saved)
    BY <1>9 DEF Restart
  <2>2. \A n \in Nodes : Calm(rows[n], B(n))
    BY <1>a, BackfilledCalm
  <2> HIDE DEF B
  <2>3. \A n \in Nodes : Calm(B(n), Filtered(B(n), saved))
    BY <2>2, FilteredCalm DEF Calm
  <2> QED BY <2>1, <2>2, <2>3 DEF Sticky, Keeps, Calm
<1>b. ASSUME NEW s \in Subs, ResumeSubscription(s) PROVE Sticky
  BY <1>b, StickyNone DEF ResumeSubscription
<1>c. ASSUME NEW policy \in Policies, SavePolicy(policy) PROVE Sticky
  BY <1>c, StickyNone DEF SavePolicy
<1>d. CASE CountryFiltersFail
  BY <1>d, StickyNone DEF CountryFiltersFail
<1> QED BY <1>1, <1>2, <1>3, <1>4, <1>5, <1>6, <1>7, <1>8, <1>9, <1>b, <1>c, <1>d
     DEF Administration

\* A user's pause is ended by the user or by the node's removal, and no step of
\* any prober puts a paused node into service.
THEOREM PauseHolds == Spec => PauseIsSticky
<1>1. HealthInv /\ [Next]_vars =>
        [\A n \in Nodes :
           /\ rows[n].paused /\ ~rows'[n].paused => UnpauseProxy(n) \/ rows'[n] = Deleted
           /\ rows[n].paused /\ rows'[n].st = "active" => rows[n].st = "active"]_vars
  <2> SUFFICES ASSUME HealthInv, Next
               PROVE  \A n \in Nodes :
                 /\ rows[n].paused /\ ~rows'[n].paused => UnpauseProxy(n) \/ rows'[n] = Deleted
                 /\ rows[n].paused /\ rows'[n].st = "active" => rows[n].st = "active"
    OBVIOUS
  <2>1. Sticky
    BY StickyProbe, StickyRest DEF Next
  <2>2. ASSUME NEW n \in Nodes, UnpauseProxy(n) PROVE rows'[n].st = rows[n].st
    BY <2>2 DEF UnpauseProxy, HealthInv, RowsInv, Row
  <2> QED BY <2>1, <2>2 DEF Sticky, Keeps
<1> QED BY <1>1, HealthInvariant, PTL DEF Spec, PauseIsSticky
=============================================================================
