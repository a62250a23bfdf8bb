----------------------------- MODULE NodeHealth -----------------------------
(***************************************************************************)
(* The life of a node's database row (storage/), and everybody who writes  *)
(* it: the health checker (checker/), the subscription manager's refreshes *)
(* and probes (custom/manager.go), probes started from the WebUI, the      *)
(* gateway's forwarding results, the administrator and a restart.          *)
(*                                                                         *)
(* SQLite is opened with one connection, so every statement or transaction *)
(* is one atomic step.  Between the moment a row is read and the moment a  *)
(* result is written back for it anything else may happen; the statements  *)
(* protect themselves by comparing the whole route the result was measured *)
(* on (RouteIdentity).  Rows never influence each other, so a batch is     *)
(* modelled by the part of it that concerns one row.                       *)
(***************************************************************************)
EXTENDS Integers

CONSTANTS
  Nodes,       \* row ids; AUTOINCREMENT never gives an id out twice
  Subs,        \* subscriptions
  Manual,      \* the source of a manually added node
  Routes,      \* values of the route identity (address, protocol, credentials...)
  Countries,   \* exit countries
  Policies,    \* country filters, as sets of admitted countries
  Probers,     \* goroutines that validate a node and write the result
  Forwarders,  \* client requests in flight
  Kinds,       \* the kinds of probers a model contains
  NoExit, NoNode, NoRoute, NoRule, Free

VARIABLES
  rows,        \* node -> its row
  sub,         \* subscription -> status
  saved,       \* the published country filter (config.Get)
  startup,     \* the filter the manager's validator was built with
  saving,      \* the old filter while a save still has its SQL update to do
  mu,          \* holder of Manager.refreshMu
  probe,       \* prober -> its local state
  fwd          \* forwarder -> the node and route it uses

vars == <<rows, sub, saved, startup, saving, mu, probe, fwd>>

AllKinds   == {"health", "probe", "refresh", "manual", "webui"}
Statements == {"recover", "observe", "policy", "failure", "retest"}
Stages     == Statements \cup {"idle", "replace", "probing", "recheck"}

FailThreshold == 3

Evidence == [route : Routes, cc : Countries]

\* fail counts fail_count up to FailThreshold: no statement tells larger
\* values apart.  exit stands for exit_ip, exit_location and their clock,
\* with the route they were measured on, which the row itself does not store.
Row ==
  [st     : {"absent", "disabled", "active", "gone"},
   route  : Routes \cup {NoRoute},
   src    : Subs \cup {Manual},
   fail   : 0..FailThreshold,
   paused : BOOLEAN,                    \* user_paused
   clock  : BOOLEAN,                    \* disabled_at is set
   exit   : Evidence \cup {NoExit}]

\* What the network lets a probe see: the exit country, if any, and whether
\* the remaining test (HTTPS CONNECT) succeeds.
Outcome == [cc : Countries \cup {NoExit}, ok : BOOLEAN]
NoOutcome == [cc |-> NoExit, ok |-> FALSE]

ProbeState ==
  [pc    : Stages,
   kind  : AllKinds,
   node  : Nodes \cup {NoNode},
   route : Routes \cup {NoRoute},       \* the route the result belongs to
   was   : {"disabled", "active"},      \* status when the row was read
   src   : Subs \cup {Manual},
   rule  : Policies \cup {NoRule},      \* the filter of the validator used
   asked : Policies \cup {NoRule},      \* history: the published filter then
   res   : Outcome]

Idle ==
  [pc |-> "idle", kind |-> "health", node |-> NoNode, route |-> NoRoute,
   was |-> "disabled", src |-> Manual, rule |-> NoRule, asked |-> NoRule,
   res |-> NoOutcome]

NotForwarding == [node |-> NoNode, route |-> NoRoute]

ASSUME HealthAssumption ==
  /\ Manual \notin Subs
  /\ Policies \subseteq SUBSET Countries
  /\ NoExit \notin Evidence
  /\ NoExit \notin Countries
  /\ NoNode \notin Nodes
  /\ NoRoute \notin Routes
  /\ NoRule \notin Policies
  /\ Free \notin Probers
  /\ Kinds \subseteq AllKinds

-----------------------------------------------------------------------------
(* Rows.                                                                   *)

FreshRow(r, src) ==
  [st |-> "disabled", route |-> r, src |-> src, fail |-> 0, paused |-> FALSE,
   clock |-> FALSE, exit |-> NoExit]

Blank(st) ==
  [st |-> st, route |-> NoRoute, src |-> Manual, fail |-> 0, paused |-> FALSE,
   clock |-> FALSE, exit |-> NoExit]

NoRow == Blank("absent")
Deleted == Blank("gone")

Present(n) == rows[n].st \in {"disabled", "active"}

\* Mutant of ParentActive: the check selection makes is taken for it.
ParentExists(n) == rows[n].src # Manual => sub[rows[n].src] # "deleted"

\* The parent check of the statements that write a probe's result.
ParentActive(n) == rows[n].src # Manual => sub[rows[n].src] = "active"

\* selectableSubscriptionScopeSQL.
ParentInScope(n) == rows[n].src # Manual => sub[rows[n].src] \notin {"paused", "deleted"}

Selectable(n) ==
  /\ rows[n].st = "active"
  /\ ~rows[n].paused
  /\ rows[n].fail < FailThreshold
  /\ ParentInScope(n)

\* Mutant of SameRoute: results are written back by id.
SameId(n, r) == Present(n)

\* routeIdentityWhere: the row is still the one the snapshot describes.
SameRoute(n, r) == Present(n) /\ rows[n].route = r

\* Mutant of Failed: two writers count the same failure.
FailedTwice(row, t) ==
  LET reached == row.fail + 2 >= t
  IN [row EXCEPT !.fail = IF row.fail < FailThreshold THEN @ + 2 ELSE @,
                 !.st = IF reached THEN "disabled" ELSE @,
                 !.clock = @ \/ reached]

\* A row after a failure counted against the threshold t.
Failed(row, t) ==
  LET reached == row.fail + 1 >= t
  IN [row EXCEPT !.fail = IF row.fail < FailThreshold THEN @ + 1 ELSE @,
                 !.st = IF reached THEN "disabled" ELSE @,
                 !.clock = @ \/ reached]

\* Exit metadata is replaced only by a complete observation, which is about
\* the route that was probed.
Observed(row, pr) ==
  [row EXCEPT !.exit = IF pr.res.cc = NoExit THEN @
                       ELSE [route |-> pr.route, cc |-> pr.res.cc]]

Confirmed(row, pr) == [Observed(row, pr) EXCEPT !.fail = 0]

\* Mutant of Recovered: the clock runs on.
RecoveredKeepsClock(row, pr) ==
  [Observed(row, pr) EXCEPT !.st = "active", !.fail = 0]

Recovered(row, pr) ==
  [Observed(row, pr) EXCEPT !.st = "active", !.fail = 0, !.clock = FALSE]

PolicyDisabled(row) == [row EXCEPT !.st = "disabled", !.clock = FALSE]

Retested(row, pr) == [Observed(row, pr) EXCEPT !.clock = TRUE]

\* A country filter or a pausing subscription takes a row out of service
\* without touching its retention clock.
Suspended(row) ==
  [row EXCEPT !.st = IF row.st = "active" THEN "disabled" ELSE @]

\* DisableNotAllowedCountries / DisableBlockedCountries.
Filtered(row, policy) ==
  IF row.exit # NoExit /\ row.exit.cc \notin policy THEN Suspended(row) ELSE row

\* backfillDisabledRetentionClocks.
Backfilled(row, statusOf) ==
  [row EXCEPT !.clock = \/ @
                        \/ /\ row.src # Manual
                           /\ row.st = "disabled"
                           /\ ~row.paused
                           /\ row.fail > 0
                           /\ statusOf[row.src] = "active"]

-----------------------------------------------------------------------------
(* Probes: start.                                                          *)

Enter(p, r) == probe' = [probe EXCEPT ![p] = r]

\* The prober is done; a refresh or a locked write-back releases refreshMu.
Finish(p) ==
  /\ Enter(p, Idle)
  /\ mu' = IF mu = p THEN Free ELSE mu

\* Mutant of Snapshot: every prober uses the validator built at startup.
SnapshotStale(k, n, row) ==
  [pc |-> "probing", kind |-> k, node |-> n, route |-> row.route,
   was |-> IF row.st = "active" THEN "active" ELSE "disabled", src |-> row.src,
   rule |-> startup, asked |-> saved, res |-> NoOutcome]

\* What a probe of kind k remembers when it has read a row: its snapshot and
\* the filter its validator applies.  The health checker and the WebUI build
\* their validator from the published configuration, the manager keeps the one
\* main gave it.
Snapshot(k, n, row) ==
  [pc |-> "probing", kind |-> k, node |-> n, route |-> row.route,
   was |-> IF row.st = "active" THEN "active" ELSE "disabled", src |-> row.src,
   rule |-> IF k \in {"health", "webui"} THEN saved ELSE startup,
   asked |-> saved, res |-> NoOutcome]

\* One health check and one probe of disabled nodes run at a time.
NoneRunning(k, n) ==
  \A q \in Probers : ~(probe[q].pc # "idle" /\ probe[q].kind = k /\ probe[q].node = n)

\* runOnce: a batch of selectable rows.
StartHealthCheck(p, n) ==
  /\ "health" \in Kinds
  /\ probe[p].pc = "idle"
  /\ NoneRunning("health", n)
  /\ Selectable(n)
  /\ Enter(p, Snapshot("health", n, rows[n]))
  /\ UNCHANGED <<rows, sub, saved, startup, saving, mu, fwd>>

\* probeDisabled: the disabled subscription rows, read under refreshMu.  Rows
\* without a local port or disabled for too long are left out: any row may be.
StartProbeDisabled(p, n) ==
  /\ "probe" \in Kinds
  /\ probe[p].pc = "idle"
  /\ NoneRunning("probe", n)
  /\ mu = Free
  /\ rows[n].st = "disabled"
  /\ rows[n].src # Manual
  /\ ParentInScope(n)
  /\ Enter(p, Snapshot("probe", n, rows[n]))
  /\ UNCHANGED <<rows, sub, saved, startup, saving, mu, fwd>>

\* apiRefreshProxy and apiRefreshLatency probe any row.
StartWebProbe(p, n) ==
  /\ "webui" \in Kinds
  /\ probe[p].pc = "idle"
  /\ Present(n)
  /\ Enter(p, Snapshot("webui", n, rows[n]))
  /\ UNCHANGED <<rows, sub, saved, startup, saving, mu, fwd>>

\* RefreshSubscription up to the database: take refreshMu, check that the
\* subscription is active, fetch and parse.
BeginRefresh(p, n, s) ==
  /\ "refresh" \in Kinds
  /\ probe[p].pc = "idle"
  /\ mu = Free
  /\ sub[s] = "active"
  /\ rows[n].st = "absent" \/ (Present(n) /\ rows[n].src = s)
  /\ mu' = p
  /\ Enter(p, [Snapshot("refresh", n, FreshRow(NoRoute, s)) EXCEPT !.pc = "replace"])
  /\ UNCHANGED <<rows, sub, saved, startup, saving, fwd>>

\* Mutant of Replaced: a changed route is inserted as a new row.
ReplacedAfresh(row, s, r) ==
  IF row.route = r /\ row.st # "absent"
    THEN [row EXCEPT !.st = "disabled"]
    ELSE FreshRow(r, s)

\* replaceSubscriptionProxies for a row whose feed entry now has route r: it
\* stays active only when its subscription is, nothing about its route changed
\* and it was in full health; a changed route loses all evidence.
Replaced(row, s, r) ==
  LET keep == /\ sub[s] = "active"
              /\ row.st = "active"
              /\ ~row.paused
              /\ row.fail = 0
              /\ row.exit # NoExit
              /\ row.route = r
      base == [row EXCEPT !.st = IF keep THEN "active" ELSE "disabled"]
  IN IF row.st = "absent" THEN FreshRow(r, s)
     ELSE IF row.route = r THEN base
     ELSE [base EXCEPT !.route = r, !.fail = 0, !.clock = FALSE, !.exit = NoExit]

\* The transaction finds no row n, which it may insert, or one of its own.
\* (A row id that a manual node took in the meantime is not the feed's.)
RefreshOwns(p) ==
  LET n == probe[p].node
  IN rows[n].st = "absent" \/ (Present(n) /\ rows[n].src = probe[p].src)

ReplaceSubscriptionProxies(p, r) ==
  LET n == probe[p].node
      row == Replaced(rows[n], probe[p].src, r)
  IN /\ probe[p].pc = "replace"
     /\ RefreshOwns(p)
     /\ rows' = [rows EXCEPT ![n] = row]
     /\ Enter(p, [Snapshot("refresh", n, row) EXCEPT !.src = probe[p].src])
     /\ UNCHANGED <<sub, saved, startup, saving, mu, fwd>>

\* The feed no longer holds the row, or the transaction fails.
ReplaceEnds(p) ==
  LET n == probe[p].node
  IN /\ probe[p].pc = "replace"
     /\ \/ /\ RefreshOwns(p)
           /\ Present(n)
           /\ rows' = [rows EXCEPT ![n] = Deleted]
        \/ rows' = rows
     /\ Finish(p)
     /\ UNCHANGED <<sub, saved, startup, saving, fwd>>

\* addManualProxyExec: insert, or on conflict rewrite the route and disable the
\* row, leaving its counters, clock and exit metadata as they are.
Upserted(row, r) ==
  IF row.st = "absent" THEN FreshRow(r, Manual)
  ELSE [row EXCEPT !.st = "disabled", !.route = r]

\* AddManualNode for a direct link, and ImportManualLinks: store, then probe.
AddManualNode(p, n, r) ==
  /\ "manual" \in Kinds
  /\ probe[p].pc = "idle"
  /\ rows[n].st = "absent" \/ (Present(n) /\ rows[n].src = Manual)
  /\ rows' = [rows EXCEPT ![n] = Upserted(rows[n], r)]
  /\ Enter(p, Snapshot("manual", n, Upserted(rows[n], r)))
  /\ UNCHANGED <<sub, saved, startup, saving, mu, fwd>>

\* AddManualProxyWithNodeKey: a tunnel is found by its key; a new local port
\* means a new route and throws the evidence away.
Rekeyed(row, r) ==
  IF row.st # "absent" /\ row.route = r THEN row
  ELSE [FreshRow(r, Manual) EXCEPT !.paused = row.paused]

\* addManualTunnelNode: under refreshMu, without a probe.
AddManualTunnel(n, r) ==
  /\ "manual" \in Kinds
  /\ mu = Free
  /\ rows[n].st = "absent" \/ (Present(n) /\ rows[n].src = Manual)
  /\ rows' = [rows EXCEPT ![n] = Rekeyed(rows[n], r)]
  /\ UNCHANGED <<sub, saved, startup, saving, mu, probe, fwd>>

-----------------------------------------------------------------------------
(* Probes: result.                                                         *)

\* ValidateOneResult: the country filter decides before the last test.
Verdict(res, rule) ==
  IF res.cc = NoExit THEN "failed"
  ELSE IF res.cc \notin rule THEN "rejected"
  ELSE IF res.ok THEN "valid" ELSE "failed"

\* The first statement each prober issues for its verdict.
FirstStatement(kind, was, verdict) ==
  CASE verdict = "valid"    -> IF kind = "health" THEN "observe" ELSE "recover"
    [] verdict = "rejected" -> IF kind = "probe" THEN "observe" ELSE "policy"
    [] OTHER -> IF kind = "probe" \/ (kind = "webui" /\ was = "disabled")
                  THEN "retest" ELSE "failure"

ProbeReturns(p, res) ==
  LET pr == probe[p]
  IN /\ pr.pc = "probing"
     /\ res.ok => res.cc # NoExit
     /\ Enter(p, [pr EXCEPT
          !.res = res,
          !.pc = IF pr.kind = "probe" THEN "recheck"
                 ELSE FirstStatement(pr.kind, pr.was, Verdict(res, pr.rule))])
     /\ UNCHANGED <<rows, sub, saved, startup, saving, mu, fwd>>

\* probeTargetStillCurrentLocked, with refreshMu held from here to the last
\* statement.
RecheckTarget(p) ==
  LET pr == probe[p]
      current == SameRoute(pr.node, pr.route) /\ rows[pr.node].st = "disabled"
  IN /\ pr.pc = "recheck"
     /\ mu = Free
     /\ IF current
          THEN /\ Enter(p, [pr EXCEPT
                    !.pc = FirstStatement("probe", pr.was, Verdict(pr.res, pr.rule))])
               /\ mu' = p
          ELSE Finish(p)
     /\ UNCHANGED <<rows, sub, saved, startup, saving, fwd>>

\* The statement that follows when the one at pc matched a row (hit) or none.
NextStatement(pr, hit) ==
  LET verdict == Verdict(pr.res, pr.rule)
  IN CASE pr.pc = "recover" /\ ~hit /\ pr.kind # "probe" -> "observe"
       [] pr.pc = "observe" /\ hit /\ pr.kind = "probe" -> "policy"
       [] pr.pc = "observe" /\ ~hit /\ pr.kind \in {"refresh", "manual"}
            /\ verdict = "valid" -> "policy"
       [] pr.pc = "policy" /\ hit /\ pr.kind # "probe" /\ verdict = "rejected" -> "observe"
       [] OTHER -> "idle"

Continue(p, hit) ==
  LET next == NextStatement(probe[p], hit)
  IN IF next = "idle" THEN Finish(p)
     ELSE Enter(p, [probe[p] EXCEPT !.pc = next]) /\ UNCHANGED mu

\* UPDATE proxies SET ... WHERE <route> AND <parent active> AND cond.
Update(p, pc, cond, row) ==
  LET n == probe[p].node
      hit == SameRoute(n, probe[p].route) /\ ParentActive(n) /\ cond
  IN /\ probe[p].pc = pc
     /\ rows' = IF hit THEN [rows EXCEPT ![n] = row] ELSE rows
     /\ Continue(p, hit)
     /\ UNCHANGED <<sub, saved, startup, saving, fwd>>

ApplyProbeObservation(p) ==
  Update(p, "observe", TRUE, Confirmed(rows[probe[p].node], probe[p]))

\* Only the health checker allows for some failures before it disables.
RecordProbeFailure(p) ==
  LET t == IF probe[p].kind = "health" THEN FailThreshold ELSE 1
  IN Update(p, "failure", TRUE,
            Failed(Observed(rows[probe[p].node], probe[p]), t))

RecoverProxyFromProbe(p) ==
  LET row == rows[probe[p].node]
  IN Update(p, "recover", row.st = "disabled" /\ ~row.paused,
            Recovered(row, probe[p]))

RecordDisabledProbeFailure(p) ==
  LET row == rows[probe[p].node]
  IN Update(p, "retest", row.st = "disabled", Retested(row, probe[p]))

DisableRouteForPolicy(p) ==
  Update(p, "policy", TRUE, PolicyDisabled(rows[probe[p].node]))

\* The statement fails (disk full, I/O error).  Only after RecoverProxyFromProbe
\* is such an error told from "no row matched".
DatabaseError(p) ==
  /\ probe[p].pc \in Statements
  /\ IF probe[p].pc = "recover" THEN Finish(p) ELSE Continue(p, FALSE)
  /\ UNCHANGED <<rows, sub, saved, startup, saving, fwd>>

-----------------------------------------------------------------------------
(* Forwarding results.                                                     *)

StartForward(f, n) ==
  /\ fwd[f] = NotForwarding
  /\ Selectable(n)
  /\ fwd' = [fwd EXCEPT ![f] = [node |-> n, route |-> rows[n].route]]
  /\ UNCHANGED <<rows, sub, saved, startup, saving, mu, probe>>

ForwardEnds(f, row) ==
  LET n == fwd[f].node
  IN /\ fwd[f] # NotForwarding
     /\ rows' = IF SameRoute(n, fwd[f].route) THEN [rows EXCEPT ![n] = row] ELSE rows
     /\ fwd' = [fwd EXCEPT ![f] = NotForwarding]
     /\ UNCHANGED <<sub, saved, startup, saving, mu, probe>>

\* Mutant of RecordForwardFailure: the threshold is one too high.
RecordForwardFailureLate(f) ==
  ForwardEnds(f, Failed(rows[fwd[f].node], FailThreshold + 1))

RecordForwardFailure(f) ==
  ForwardEnds(f, Failed(rows[fwd[f].node], FailThreshold))

RecordForwardSuccess(f) ==
  ForwardEnds(f, [rows[fwd[f].node] EXCEPT !.fail = 0])

-----------------------------------------------------------------------------
(* The administrator.                                                      *)

PauseProxy(n) ==
  /\ Present(n)
  /\ rows' = [rows EXCEPT ![n].paused = TRUE]
  /\ UNCHANGED <<sub, saved, startup, saving, mu, probe, fwd>>

UnpauseProxy(n) ==
  /\ Present(n)
  /\ rows' = [rows EXCEPT ![n].paused = FALSE, ![n].fail = 0]
  /\ UNCHANGED <<sub, saved, startup, saving, mu, probe, fwd>>

\* PauseSubscription, and ToggleSubscription of an active one.
PauseSubscription(s) ==
  /\ sub[s] = "active"
  /\ sub' = [sub EXCEPT ![s] = "paused"]
  /\ rows' = [n \in Nodes |->
                IF rows[n].src = s THEN Suspended(rows[n]) ELSE rows[n]]
  /\ UNCHANGED <<saved, startup, saving, mu, probe, fwd>>

\* ToggleSubscription back: the nodes stay disabled until they are probed.
ResumeSubscription(s) ==
  /\ sub[s] = "paused"
  /\ sub' = [sub EXCEPT ![s] = "active"]
  /\ UNCHANGED <<rows, saved, startup, saving, mu, probe, fwd>>

DeleteSubscription(s) ==
  /\ sub[s] # "deleted"
  /\ mu = Free
  /\ sub' = [sub EXCEPT ![s] = "deleted"]
  /\ rows' = [n \in Nodes |->
                IF Present(n) /\ rows[n].src = s THEN Deleted ELSE rows[n]]
  /\ UNCHANGED <<saved, startup, saving, mu, probe, fwd>>

\* A direct node is deleted without refreshMu, a tunnel node under it.  Which of
\* the two it is was read before, so the row as it is now does not tell: the
\* deletion may fall into anybody's critical section.
DeleteNode(n) ==
  /\ Present(n)
  /\ rows' = [rows EXCEPT ![n] = Deleted]
  /\ UNCHANGED <<sub, saved, startup, saving, mu, probe, fwd>>

\* apiConfigSave publishes the configuration first ...
SavePolicy(policy) ==
  /\ saving = NoRule
  /\ policy # saved
  /\ saving' = saved
  /\ saved' = policy
  /\ UNCHANGED <<rows, sub, startup, mu, probe, fwd>>

\* ... and then disables the nodes it excludes, ...
ApplyCountryFilters ==
  /\ saving # NoRule
  /\ rows' = [n \in Nodes |-> Filtered(rows[n], saved)]
  /\ saving' = NoRule
  /\ UNCHANGED <<sub, saved, startup, mu, probe, fwd>>

\* ... or takes the configuration back when that fails, if it can.
CountryFiltersFail ==
  /\ saving # NoRule
  /\ saved' \in {saving, saved}
  /\ saving' = NoRule
  /\ UNCHANGED <<rows, sub, startup, mu, probe, fwd>>

\* The process ends and starts again: main opens the storage, which backfills
\* clocks, and applies the country filters before anything else runs.
Restart ==
  /\ rows' = [n \in Nodes |-> Filtered(Backfilled(rows[n], sub), saved)]
  /\ startup' = saved
  /\ saving' = NoRule
  /\ mu' = Free
  /\ probe' = [p \in Probers |-> Idle]
  /\ fwd' = [f \in Forwarders |-> NotForwarding]
  /\ UNCHANGED <<sub, saved>>

-----------------------------------------------------------------------------
Init ==
  /\ rows = [n \in Nodes |-> NoRow]
  /\ sub = [s \in Subs |-> "active"]
  /\ saved \in Policies
  /\ startup = saved
  /\ saving = NoRule
  /\ mu = Free
  /\ probe = [p \in Probers |-> Idle]
  /\ fwd = [f \in Forwarders |-> NotForwarding]

ProbeStart(p) ==
  \E n \in Nodes :
    \/ StartHealthCheck(p, n)
    \/ StartProbeDisabled(p, n)
    \/ StartWebProbe(p, n)
    \/ \E s \in Subs : BeginRefresh(p, n, s)
    \/ \E r \in Routes : AddManualNode(p, n, r)

ProbeStep(p) ==
  \/ \E r \in Routes : ReplaceSubscriptionProxies(p, r)
  \/ ReplaceEnds(p)
  \/ \E res \in Outcome : ProbeReturns(p, res)
  \/ RecheckTarget(p)
  \/ ApplyProbeObservation(p)
  \/ RecordProbeFailure(p)
  \/ RecoverProxyFromProbe(p)
  \/ RecordDisabledProbeFailure(p)
  \/ DisableRouteForPolicy(p)

Forwarding(f) ==
  \/ \E n \in Nodes : StartForward(f, n)
  \/ RecordForwardFailure(f)
  \/ RecordForwardSuccess(f)

Administration ==
  \/ \E n \in Nodes : PauseProxy(n) \/ UnpauseProxy(n) \/ DeleteNode(n)
  \/ \E n \in Nodes, r \in Routes : AddManualTunnel(n, r)
  \/ \E s \in Subs : PauseSubscription(s) \/ ResumeSubscription(s) \/ DeleteSubscription(s)
  \/ \E policy \in Policies : SavePolicy(policy)
  \/ ApplyCountryFilters
  \/ CountryFiltersFail
  \/ Restart

Next ==
  \/ \E p \in Probers : ProbeStart(p) \/ ProbeStep(p) \/ DatabaseError(p)
  \/ \E f \in Forwarders : Forwarding(f)
  \/ Administration

Spec == Init /\ [][Next]_vars

\* Of the health check of a node: it finds out the node's exit, or it writes
\* what it found about an exit.
HealthFinds(p) ==
  probe[p].kind = "health" /\ \E res \in Outcome : res.cc # NoExit /\ ProbeReturns(p, res)
HealthWrites(p) ==
  probe[p].kind = "health" /\ probe[p].res.cc # NoExit /\ ProbeStep(p)

\* What the scheduling gives: the health checker's timer comes round for every
\* selectable row (the batch takes the longest unchecked first), probes return
\* because every network operation has a deadline, a node's exit cannot remain
\* unknown forever, and the database does not fail every time.
Fairness ==
  /\ \A n \in Nodes : SF_vars(\E p \in Probers : StartHealthCheck(p, n))
  /\ \A p \in Probers :
       /\ WF_vars(ProbeStep(p))
       /\ SF_vars(HealthFinds(p))
       /\ SF_vars(HealthWrites(p))

FairSpec == Spec /\ Fairness

-----------------------------------------------------------------------------
(* Properties.                                                             *)

\* Every variable keeps its type; in particular no failure is counted beyond the
\* threshold at which fail_count stops telling values apart.
TypeOK ==
  /\ rows \in [Nodes -> Row]
  /\ sub \in [Subs -> {"active", "paused", "deleted"}]
  /\ saved \in Policies
  /\ startup \in Policies
  /\ saving \in Policies \cup {NoRule}
  /\ mu \in Probers \cup {Free}
  /\ probe \in [Probers -> ProbeState]
  /\ fwd \in [Forwarders -> [node : Nodes \cup {NoNode}, route : Routes \cup {NoRoute}]]

\* No node is stranded: a row that selection and the health check skip because
\* it has failed too often is disabled, which is what makes the probe of
\* disabled nodes look at it again.  Several writers count failures, each with
\* a threshold of its own.
NoStrandedNode ==
  \A n \in Nodes : rows[n].st = "active" => rows[n].fail < FailThreshold

\* Pausing a subscription takes all its nodes out of service for as long as it
\* is paused, whatever refresh or probe was under way when it was paused.
PausedSubscriptionServesNothing ==
  \A n \in Nodes : rows[n].st = "active" /\ rows[n].src # Manual =>
    sub[rows[n].src] = "active"

\* A node in service has exit metadata, and they were measured on the route
\* it has now: no result of an earlier address or credential is trusted for it.
ActiveIsVerified ==
  \A n \in Nodes : rows[n].st = "active" =>
    /\ rows[n].exit # NoExit
    /\ rows[n].exit.route = rows[n].route

\* The retention clock runs only while a node is out of service, so that a node
\* that recovered and later fails again gets its full retention time.
ActiveHasNoClock ==
  \A n \in Nodes : rows[n].st = "active" => ~rows[n].clock

\* A user's pause of a node survives every refresh, probe, rebinding and
\* restart: only the user's own unpause (which never puts a node in service by
\* itself) or the node's removal ends it.
PauseIsSticky ==
  [][\A n \in Nodes :
       /\ rows[n].paused /\ ~rows'[n].paused =>
            UnpauseProxy(n) \/ rows'[n] = Deleted
       /\ rows[n].paused /\ rows'[n].st = "active" => rows[n].st = "active"]_vars

\* A probe puts a node into service only if its country was admitted by the
\* filter that was published when the probe began.
RecoveredNodesMeetPolicy ==
  [][\A n \in Nodes, p \in Probers :
       /\ probe[p].pc = "recover" /\ probe'[p].pc = "idle"
       /\ rows[n].st # "active" /\ rows'[n].st = "active"
       => rows'[n].exit.cc \in probe[p].asked]_vars

OutsidePolicy(n) == Selectable(n) /\ rows[n].exit.cc \notin saved

\* Whatever races let a node outside the published filter into service, it does
\* not stay there: the health check, the next save or a restart removes it.
PolicyIsEnforced == \A n \in Nodes : OutsidePolicy(n) ~> ~OutsidePolicy(n)
=============================================================================
