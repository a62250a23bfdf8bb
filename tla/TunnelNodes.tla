---------------------------- MODULE TunnelNodes ----------------------------
(***************************************************************************)
(* Tunnel nodes: the rows the database keeps for them and the nodes the    *)
(* tunnel runtime serves (custom/manager.go, storage/).  A row names its   *)
(* node by key and reaches it by the local port stored as its address; the *)
(* runtime gives ports out and takes them back.  The manager writes the    *)
(* two one after the other, under refreshMu, and undoes the first when the *)
(* second fails.                                                           *)
(*                                                                         *)
(* The runtime is known by its contract only (TunnelRuntime); its watch    *)
(* loop works without refreshMu.  Deletions and probes read a row before   *)
(* they take refreshMu, and WebUI probes never take it.                    *)
(***************************************************************************)
EXTENDS Integers, FiniteSets

CONSTANTS
  Keys,      \* node keys
  Ports,     \* local ports
  Subs,      \* subscriptions
  Manual,    \* the owner of manually added nodes
  Faults,    \* what may go wrong: subset of AllFaults
  MaxFaults, \* bound: how often
  MaxAside,  \* bound: how many of a deletion and a probe are on their way
  NoRow, NoKey, Gone

VARIABLES
  rows,      \* <<owner, key>> -> row
  subs,      \* subscriptions that exist
  ports,     \* GetPortMap
  extra,     \* see TunnelRuntime
  evicted,   \* longTermEvictedKeys
  op,        \* the holder of refreshMu
  del,       \* a deletion that has read its row
  probe,     \* a probe in flight
  faults     \* history: how many faults have happened

vars == <<rows, subs, ports, extra, evicted, op, del, probe, faults>>

\* The runtime as the manager sees it: calls are over when they return.
Runtime == INSTANCE TunnelRuntime WITH call <- [kind |-> "none", target |-> {}]
NoPort == Runtime!NoPort
Loaded == Runtime!Loaded(ports)

\* lapse is no fault of anybody's, but it parts rows from their nodes like one.
AllFaults == {"db", "reload", "reject", "restart", "lapse"}
Owners == Subs \cup {Manual}
Slots == Owners \X Keys

\* failed: disabled_at is running; lapsed: it has run out (isLongTermDisabledProxy).
Statuses == {"active", "disabled", "failed", "lapsed"}

\* astray (history, kept until the first fault): active on another node's answer.
Row == [port : Ports, st : Statuses, astray : BOOLEAN]

Kinds == {"none", "refresh", "drop", "delete", "manual", "probe"}

Op ==
  [kind    : Kinds,
   pc      : {"reload", "accept", "commit", "undo", "validate", "pick"},
   own     : Owners,                  \* whose rows are written
   nodes   : SUBSET Keys,             \* nodes to be stored
   old     : SUBSET Keys,             \* oldNodes
   target  : SUBSET Keys,             \* argument of Reload
   changed : BOOLEAN,                 \* runtimeChanged
   map     : [Keys -> Ports \cup {NoPort}],
   todo    : SUBSET Keys]             \* rows that wait for their validation

NoOp ==
  [kind |-> "none", pc |-> "reload", own |-> Manual, nodes |-> {}, old |-> {},
   target |-> {}, changed |-> FALSE, map |-> Runtime!NoPorts, todo |-> {}]

\* What a deletion or a probe knows of its row.  ref follows the row's id.
Snapshot(kinds) ==
  [kind : kinds, ref : Slots \cup {Gone}, key : Keys, port : Ports,
   down : BOOLEAN,                    \* it was disabled (tests only)
   node : Keys \cup {NoKey},          \* tunnelNodeKey (probes of disabled rows only)
   seen : Keys \cup {NoKey},          \* who answered
   pc   : {"dial", "write"}]
Nothing == [kind |-> "none"]
Aside == Cardinality({del, probe} \ {Nothing})

ASSUME TunnelAssumption ==
  /\ NoPort \notin Ports
  /\ Manual \notin Subs
  /\ NoKey \notin Keys
  /\ Faults \subseteq AllFaults
  /\ MaxFaults \in Nat
  /\ MaxAside \in Nat
  /\ Gone \notin Slots
  /\ NoRow \notin Row

-----------------------------------------------------------------------------
(* Rows.                                                                   *)

Present == {s \in Slots : rows[s] # NoRow}
RowsOf(o) == {s \in Present : s[1] = o}
Disabled(s) == rows[s].st # "active"
Blank(p) == [port |-> p, st |-> "disabled", astray |-> FALSE]

\* nodeKeyForLocalAddress.
NodeAt(p) == IF \E k \in Keys : ports[k] = p THEN CHOOSE k \in Keys : ports[k] = p ELSE NoKey

\* Mutant of OwnedOutside: manual owners are forgotten.
OwnedBySubscription(k, mine) == \E s \in Present \ mine : s[2] = k /\ s[1] # Manual
\* HasOtherSubscriptionProxyOwner and HasOtherProxyOwner: the key decides.
OwnedOutside(k, mine) == \E s \in Present \ mine : s[2] = k

\* subscriptionTunnelRuntimeKeys.
ReclaimableKeys(o) ==
  {k \in Loaded : <<o, k>> \in Present /\ ~OwnedOutside(k, RowsOf(o))}

\* longTermDisabledRuntimeKeys without the recorded ones, and the keys
\* pruneLongTermDisabledFromRuntime removes: nodes on the port of a lapsed
\* subscription row that no other row claims (retainedRuntimeAddresses).
LapsedKeys ==
  {NodeAt(rows[s].port) : s \in {s \in Present :
     /\ s[1] \in Subs
     /\ rows[s].st = "lapsed"
     /\ ~\E t \in Present : rows[t].port = rows[s].port /\ rows[t].st # "lapsed"}} \ {NoKey}

\* collectAllTunnelNodesExcludingSubscription.
CollectedKeys(excluded) == (Loaded \ excluded) \ (evicted \cup LapsedKeys)

\* Deleted ids are never used again: a deletion fails, and the answer of a probe
\* is written nowhere (routeIdentityWhere), so the probe may be forgotten.
Follow(snap, gone) == IF snap # Nothing /\ snap.ref \in gone THEN [snap EXCEPT !.ref = Gone] ELSE snap
Forget(snap, gone) == IF snap # Nothing /\ snap.ref \in gone THEN Nothing ELSE snap
\* Mutant of RowsVanish: a probe knows its row by key and port alone.
RowsVanishUnnoticed(gone) ==
  /\ del' = Follow(del, gone)
  /\ probe' = probe
RowsVanish(gone) ==
  /\ del' = Follow(del, gone)
  /\ probe' = Forget(probe, gone)

-----------------------------------------------------------------------------
(* Steps every operation is made of.                                       *)

Idle == op = NoOp
At(pc) == ~Idle /\ op.pc = pc
Fault(f) ==
  /\ f \in Faults
  /\ faults < MaxFaults
  /\ faults' = faults + 1

\* singbox.Reload: ok is what follows a success, err what follows an error.
\* A success may drop a node that was loaded: sing-box refuses it now.
Reload(target, ok, err) ==
  \/ \E new \in Runtime!Succeeded(ports, target) :
       /\ ports' = new
       /\ extra' = Runtime!ExtraAfter("reload", target, new)
       /\ op' = ok
       /\ LET refused == target \ Runtime!Loaded(new)
          IN IF refused = {} THEN UNCHANGED faults ELSE Fault("reject")
  \/ /\ \/ /\ ports' \in Runtime!RolledBack(ports)
           /\ extra' = Runtime!ExtraAfter("failing", target, ports')
        \/ /\ ports' \in Runtime!LeftBehind(ports, target)
           /\ extra' = Runtime!ExtraAfter("broken", target, ports')
     /\ op' = err
     /\ Fault("reload")

\* The call that changed the rows or the runtime is over; a deletion forgets its row.
Release == del' = IF op.kind = "delete" /\ op' = NoOp THEN Nothing ELSE del

\* The step of the operation that holds refreshMu in which it calls Reload.
AfterReload ==
  CASE op.kind = "probe" -> "pick"
    [] op.kind = "manual" \/ op.nodes # {} -> "accept"
    [] OTHER -> "commit"
ReloadRuntime ==
  /\ At("reload")
  /\ Reload(op.target,
            [op EXCEPT !.pc = AfterReload, !.target = {}, !.changed = TRUE],
            IF op.kind = "probe" THEN [op EXCEPT !.pc = "pick"] ELSE NoOp)
  /\ Release
  /\ UNCHANGED <<rows, subs, evicted, probe>>

\* Compensation: the runtime is given back what it held; a failure is only reported.
Undoing == [NoOp EXCEPT !.kind = op.kind, !.pc = "undo", !.old = op.old]
Undo ==
  /\ At("undo")
  /\ Reload(op.old, NoOp, NoOp)
  /\ Release
  /\ UNCHANGED <<rows, subs, evicted, probe>>

\* acceptedNodesForCommit, and the port lookup of addManualTunnelNode.  A node
\* without a port was refused by sing-box and is skipped, or it is missing for
\* another reason and the operation is undone.  A manual node is never skipped.
Accept ==
  /\ At("accept")
  /\ LET accepted == op.nodes \cap Loaded
     IN \/ /\ accepted # {}
           /\ op' = [op EXCEPT !.pc = "commit", !.nodes = accepted,
                               !.map = [k \in Keys |-> IF k \in accepted THEN ports[k] ELSE NoPort]]
        \/ /\ accepted # op.nodes
           /\ op' = Undoing
  /\ UNCHANGED <<rows, subs, ports, extra, evicted, del, probe, faults>>

\* The transaction is rolled back; what it was to record is undone.
CommitRefused ==
  /\ op' = IF op.changed THEN Undoing ELSE NoOp
  /\ Release
  /\ UNCHANGED <<rows, subs, ports, extra, evicted, probe>>
DatabaseFails ==
  /\ At("commit")
  /\ Fault("db")
  /\ CommitRefused

-----------------------------------------------------------------------------
(* RefreshSubscription.                                                    *)

\* fetched: the tunnel nodes of the subscription as it was just downloaded.
\* None: it offers direct nodes only.
RefreshSubscription(s, fetched) ==
  /\ Idle
  /\ s \in subs
  /\ LET mine == ReclaimableKeys(s)
         refresh == [NoOp EXCEPT !.kind = "refresh", !.own = s]
     IN IF fetched = {} /\ mine = {}
        THEN /\ op' = [refresh EXCEPT !.pc = "commit"]
             /\ UNCHANGED evicted
        ELSE /\ op' = [refresh EXCEPT !.nodes = fetched, !.old = Loaded,
                                      !.target = CollectedKeys(mine) \cup fetched]
             /\ evicted' = (evicted \cup LapsedKeys) \ fetched
  /\ UNCHANGED <<rows, subs, ports, extra, del, probe, faults>>

\* Mutant of Rewritten: a row that is still offered is left as it is.
RewrittenInPlace(row, port, preserve) == IF row = NoRow THEN Blank(port) ELSE row
\* A row of the new batch.  A row that keeps its port keeps its clock, and its
\* status if its evidence is complete (preserveActive); any other starts anew.
Rewritten(row, port, preserve) ==
  IF row = NoRow \/ row.port # port THEN Blank(port)
  ELSE IF row.st = "active" /\ ~preserve THEN Blank(port)
  ELSE row

\* Mutant of ReplaceSubscriptionProxies: rows that are no longer offered stay.
UpsertSubscriptionProxies ==
  /\ At("commit")
  /\ op.kind = "refresh"
  /\ \E preserved \in SUBSET {k \in op.nodes : <<op.own, k>> \in Present} :
       rows' = [s \in Slots |->
                  IF s[1] # op.own \/ s[2] \notin op.nodes THEN rows[s]
                  ELSE Rewritten(rows[s], op.map[s[2]], s[2] \in preserved)]
  /\ op' = IF op.nodes = {} THEN NoOp
           ELSE [NoOp EXCEPT !.kind = "refresh", !.pc = "validate", !.own = op.own, !.todo = op.nodes]
  /\ UNCHANGED <<subs, ports, extra, evicted, del, probe, faults>>
\* replaceSubscriptionProxies: one transaction.
ReplaceSubscriptionProxies ==
  /\ At("commit")
  /\ op.kind = "refresh"
  /\ \E preserved \in SUBSET {k \in op.nodes : <<op.own, k>> \in Present} :
       rows' = [s \in Slots |->
                  IF s[1] # op.own THEN rows[s]
                  ELSE IF s[2] \notin op.nodes THEN NoRow
                  ELSE Rewritten(rows[s], op.map[s[2]], s[2] \in preserved)]
  /\ RowsVanish({s \in RowsOf(op.own) : s[2] \notin op.nodes})
  /\ op' = IF op.nodes = {} THEN NoOp
           ELSE [NoOp EXCEPT !.kind = "refresh", !.pc = "validate", !.own = op.own, !.todo = op.nodes]
  /\ UNCHANGED <<subs, ports, extra, evicted, faults>>

\* Row s after a probe that node seen answered (NoKey: nobody did).  Only an
\* answer can be accepted or rejected for its location.
Judged(s, seen) ==
  IF seen = NoKey THEN {}
  ELSE {[rows[s] EXCEPT !.st = "active", !.astray = faults = 0 /\ seen # s[2]],
        Blank(rows[s].port)}
Failed(row) ==
  [row EXCEPT !.st = IF @ = "lapsed" THEN "lapsed" ELSE "failed", !.astray = FALSE]

\* validateCustomProxies, one result.  Rows do not move and ports are not given
\* out again while refreshMu is held, so dialling and writing are one step.  The
\* result of a node its user has paused is not written.
ValidateRow(k) ==
  /\ At("validate")
  /\ k \in op.todo
  /\ LET s == <<op.own, k>>
     IN \E row \in Judged(s, NodeAt(rows[s].port)) \cup {Failed(rows[s]), rows[s]} :
          rows' = [rows EXCEPT ![s] = row]
  /\ op' = IF op.todo = {k} THEN NoOp ELSE [op EXCEPT !.todo = @ \ {k}]
  /\ UNCHANGED <<subs, ports, extra, evicted, del, probe, faults>>

-----------------------------------------------------------------------------
(* DeleteSubscription and deleteProxyWithRuntime.                          *)

\* Mutant of DeleteSubscription: the rows are deleted and the runtime keeps its nodes.
DeleteSubscriptionRows(s) ==
  /\ Idle
  /\ s \in subs
  /\ op' = [NoOp EXCEPT !.kind = "drop", !.own = s, !.old = Loaded, !.pc = "commit"]
  /\ UNCHANGED <<rows, subs, ports, extra, evicted, del, probe, faults>>
DeleteSubscription(s) ==
  /\ Idle
  /\ s \in subs
  /\ LET mine == ReclaimableKeys(s)
     IN op' = [NoOp EXCEPT !.kind = "drop", !.own = s, !.old = Loaded,
                           !.target = Loaded \ mine,
                           !.pc = IF mine = {} THEN "commit" ELSE "reload"]
  /\ UNCHANGED <<rows, subs, ports, extra, evicted, del, probe, faults>>

DropSubscriptionRows ==
  /\ At("commit")
  /\ op.kind = "drop"
  /\ rows' = [s \in Slots |-> IF s[1] = op.own THEN NoRow ELSE rows[s]]
  /\ subs' = subs \ {op.own}
  /\ RowsVanish(RowsOf(op.own))
  /\ op' = NoOp
  /\ UNCHANGED <<ports, extra, evicted, faults>>

\* GetProxyByID, before refreshMu is taken.
Read(kind, s) ==
  [kind |-> kind, ref |-> s, key |-> s[2], port |-> rows[s].port,
   down |-> kind = "test" /\ Disabled(s),
   node |-> IF kind = "disabled" THEN NodeAt(rows[s].port) ELSE NoKey,
   seen |-> NoKey, pc |-> "dial"]
ReadForDeletion(s) ==
  /\ del = Nothing /\ Aside < MaxAside
  /\ s \in Present
  /\ del' = Read("delete", s)
  /\ UNCHANGED <<rows, subs, ports, extra, evicted, op, probe, faults>>

\* The node to unload is the one on the port that was read; the row's key counts
\* only when the port is free.
RemoveKey == IF NodeAt(del.port) # NoKey THEN NodeAt(del.port) ELSE del.key
DeleteProxy ==
  /\ Idle
  /\ del # Nothing
  /\ LET unload == RemoveKey \in Loaded /\ ~OwnedOutside(RemoveKey, {del.ref})
     IN op' = [NoOp EXCEPT !.kind = "delete", !.old = Loaded,
                           !.target = Loaded \ {RemoveKey},
                           !.pc = IF unload THEN "reload" ELSE "commit"]
  /\ UNCHANGED <<rows, subs, ports, extra, evicted, del, probe, faults>>

DeleteProxyRow ==
  /\ At("commit")
  /\ op.kind = "delete"
  /\ \/ /\ del.ref = Gone
        /\ CommitRefused
        /\ UNCHANGED faults
     \/ /\ del.ref # Gone
        /\ rows' = [rows EXCEPT ![del.ref] = NoRow]
        /\ probe' = Forget(probe, {del.ref})
        /\ del' = Nothing
        /\ op' = NoOp
        /\ UNCHANGED <<subs, ports, extra, evicted, faults>>

-----------------------------------------------------------------------------
(* addManualTunnelNode.                                                    *)

AddManualNode(k) ==
  /\ Idle
  /\ op' = [NoOp EXCEPT !.kind = "manual", !.nodes = {k}, !.old = Loaded,
                        !.target = CollectedKeys({}) \cup {k}]
  /\ evicted' = evicted \cup LapsedKeys
  /\ UNCHANGED <<rows, subs, ports, extra, del, probe, faults>>

\* AddManualProxyWithNodeKey: the manual row of k is moved to port p, or made, or
\* made out of the manual row stored at p (ON CONFLICT), whose clock it inherits.
ManualAt(p) == {s \in RowsOf(Manual) : rows[s].port = p}
Disable(row) == IF row.st = "active" THEN Blank(row.port) ELSE row
WithManual(me, p) ==
  IF me \in ManualAt(p) THEN rows
  ELSE IF me \in Present \/ ManualAt(p) = {} THEN [rows EXCEPT ![me] = Blank(p)]
  ELSE LET other == CHOOSE s \in ManualAt(p) : TRUE
       IN [rows EXCEPT ![other] = NoRow, ![me] = Disable(rows[other])]

\* A row whose key is overwritten keeps its id.
Renamed(snap, me, p) ==
  IF snap # Nothing /\ me \notin Present /\ snap.ref \in ManualAt(p)
  THEN [snap EXCEPT !.ref = me] ELSE snap

\* GetProxyByAddress finds the row by its address alone: with a subscription row
\* at the same port the row just written is deleted again and the runtime restored.
StoreManualNode ==
  /\ At("commit")
  /\ op.kind = "manual"
  /\ \E k \in op.nodes :
       LET me == <<Manual, k>>
           p == op.map[k]
           new == WithManual(me, p)
           ambiguous == \E s \in Present : s[1] \in Subs /\ rows[s].port = p
           remove ==
             /\ rows' = [new EXCEPT ![me] = NoRow]
             /\ del' = Follow(Renamed(del, me, p), {me})
             /\ probe' = Forget(Renamed(probe, me, p), {me})
             /\ op' = Undoing
       IN IF me \in Present /\ me \notin ManualAt(p) /\ ManualAt(p) # {}
          THEN CommitRefused /\ UNCHANGED faults        \* UNIQUE(address, ...)
          ELSE /\ UNCHANGED <<subs, ports, extra, evicted>>
               /\ \/ ambiguous /\ remove /\ UNCHANGED faults
                  \/ ~ambiguous /\ remove /\ Fault("db")  \* SetProxyDualProtocol
                  \/ /\ ~ambiguous
                     /\ rows' = new
                     /\ del' = Renamed(del, me, p)
                     /\ probe' = Renamed(probe, me, p)
                     /\ op' = NoOp
                     /\ UNCHANGED faults

-----------------------------------------------------------------------------
(* Probes.                                                                 *)

\* probeDisabled: the nodes that were disabled too long are unloaded first.
ProbeDisabled ==
  /\ Idle
  /\ \E s \in Present : s[1] \in Subs /\ Disabled(s)
  /\ op' = [NoOp EXCEPT !.kind = "probe", !.target = Loaded \ LapsedKeys,
                        !.pc = IF LapsedKeys = {} THEN "pick" ELSE "reload"]
  /\ evicted' = evicted \cup LapsedKeys
  /\ UNCHANGED <<rows, subs, ports, extra, del, probe, faults>>

\* The lock is given back; the rows picked are dialled one after the other.
PickDisabled ==
  /\ At("pick")
  /\ op' = NoOp
  /\ \/ UNCHANGED probe
     \/ /\ probe = Nothing /\ Aside < MaxAside
        /\ \E s \in Present :
             /\ s[1] \in Subs
             /\ rows[s].st \in {"disabled", "failed"}
             /\ NodeAt(rows[s].port) # NoKey
             /\ probe' = Read("disabled", s)
  /\ UNCHANGED <<rows, subs, ports, extra, evicted, del, faults>>

\* The WebUI's test of a node, and every other probe that never takes refreshMu.
StartTest(s) ==
  /\ probe = Nothing /\ Aside < MaxAside
  /\ s \in Present
  /\ probe' = Read("test", s)
  /\ UNCHANGED <<rows, subs, ports, extra, evicted, op, del, faults>>

Dial ==
  /\ probe # Nothing
  /\ probe.pc = "dial"
  /\ probe' = [probe EXCEPT !.pc = "write", !.seen = NodeAt(probe.port)]
  /\ UNCHANGED <<rows, subs, ports, extra, evicted, op, del, faults>>

\* routeIdentityWhere: the row that was probed still is that route.
SameRoute ==
  /\ probe.ref \in Present
  /\ probe.ref[2] = probe.key
  /\ rows[probe.ref].port = probe.port

\* probeTargetStillCurrentLocked.
ProbeTargetStillCurrent ==
  /\ SameRoute
  /\ Disabled(probe.ref)
  /\ ports[probe.node] = probe.port

WriteDisabled ==
  /\ probe # Nothing
  /\ probe.kind = "disabled" /\ probe.pc = "write"
  /\ Idle
  /\ probe' = Nothing
  /\ IF ProbeTargetStillCurrent
     THEN \E row \in Judged(probe.ref, probe.seen) \cup {rows[probe.ref]} :
            rows' = [rows EXCEPT ![probe.ref] = row]
     ELSE UNCHANGED rows
  /\ UNCHANGED <<subs, ports, extra, evicted, op, del, faults>>

\* applyProbeResult.  A failure counts against a row that was active when it was read.
WriteTest ==
  /\ probe # Nothing
  /\ probe.kind = "test" /\ probe.pc = "write"
  /\ probe' = Nothing
  /\ IF SameRoute
     THEN \E row \in Judged(probe.ref, probe.seen) \cup
                     {IF probe.down THEN rows[probe.ref] ELSE Failed(rows[probe.ref])} :
            rows' = [rows EXCEPT ![probe.ref] = row]
     ELSE UNCHANGED rows
  /\ UNCHANGED <<subs, ports, extra, evicted, op, del, faults>>

-----------------------------------------------------------------------------
(* The surroundings.                                                       *)

\* Seven days pass (longTermDisabledRetention).
Lapse(s) ==
  /\ s \in Present
  /\ rows[s].st = "failed"
  /\ rows' = [rows EXCEPT ![s].st = "lapsed"]
  /\ Fault("lapse")
  /\ UNCHANGED <<subs, ports, extra, evicted, op, del, probe>>

AddSubscription(s) ==
  /\ s \notin subs
  /\ subs' = subs \cup {s}
  /\ UNCHANGED <<rows, ports, extra, evicted, op, del, probe, faults>>

\* The runtime's watch loop revives a shard without nodes sing-box now refuses.
WatchLoop ==
  /\ ports' \in Runtime!Recovered(ports) \ {ports}
  /\ extra' = Runtime!ExtraAfter("recover", {}, ports')
  /\ Fault("reject")
  /\ UNCHANGED <<rows, subs, evicted, op, del, probe>>

\* Rows survive the process, nothing else does.
Restart ==
  /\ ports' = Runtime!NoPorts
  /\ extra' = {}
  /\ evicted' = {}
  /\ op' = NoOp
  /\ del' = Nothing
  /\ probe' = Nothing
  /\ Fault("restart")
  /\ UNCHANGED <<rows, subs>>

Init ==
  /\ rows = [s \in Slots |-> NoRow]
  /\ subs = {}
  /\ ports = Runtime!NoPorts
  /\ extra = {}
  /\ evicted = {}
  /\ op = NoOp
  /\ del = Nothing
  /\ probe = Nothing
  /\ faults = 0

Next ==
  \/ ReloadRuntime \/ Undo \/ Accept \/ DatabaseFails
  \/ \E s \in Subs :
       \/ AddSubscription(s) \/ DeleteSubscription(s)
       \/ \E fetched \in SUBSET Keys : RefreshSubscription(s, fetched)
  \/ ReplaceSubscriptionProxies \/ DropSubscriptionRows \/ DeleteProxy \/ DeleteProxyRow
  \/ \E k \in Keys : ValidateRow(k) \/ AddManualNode(k)
  \/ StoreManualNode
  \/ \E s \in Slots : ReadForDeletion(s) \/ StartTest(s) \/ Lapse(s)
  \/ ProbeDisabled \/ PickDisabled \/ Dial \/ WriteDisabled \/ WriteTest
  \/ WatchLoop \/ Restart

Spec == Init /\ [][Next]_vars

-----------------------------------------------------------------------------
(* Properties.                                                             *)

TypeOK ==
  /\ rows \in [Slots -> Row \cup {NoRow}]
  /\ subs \subseteq Subs
  /\ ports \in Runtime!PortMaps
  /\ extra \subseteq Keys
  /\ evicted \subseteq Keys
  /\ op \in Op
  /\ del \in Snapshot({"delete"}) \cup {Nothing}
  /\ probe \in Snapshot({"disabled", "test"}) \cup {Nothing}
  /\ faults \in 0..MaxFaults

\* The rows a refresh has just written name nodes by the port the runtime serves
\* them on, and never the port of another node, whatever the watch loop does
\* between the reload, the reading of the port map and the transaction.
CommitMatchesRuntime ==
  At("validate") =>
    \A k \in op.todo :
      LET s == <<op.own, k>>
      IN s \in Present /\ NodeAt(rows[s].port) \in {k, NoKey}

\* A node that another owner's row needs is not unloaded by a refresh, a deleted
\* subscription or a deleted row, unless it was evicted for being disabled too long.
OwnedKeyNotReclaimed ==
  At("reload") =>
    \A k \in op.old \ op.target :
      LET mine == CASE op.kind \in {"refresh", "drop"} -> RowsOf(op.own)
                    [] op.kind = "delete" -> {del.ref}
                    [] OTHER -> {}
      IN (\E s \in Present \ mine : s[2] = k) => k \in evicted

\* The next three hold between two operations as long as no fault has happened.
Undisturbed == Idle /\ faults = 0

\* The runtime serves every row's node on the row's port, whoever else owns the
\* node.  (A node that was evicted comes back on another port when one owner
\* refreshes, and the rows of the other owners keep the old one.)
RowsReachTheirNodes == Undisturbed => \A s \in Present : ports[s[2]] = rows[s].port

\* Every node that occupies a port belongs to a row: whatever is deleted, replaced
\* or refused, and whoever waited for refreshMu meanwhile, no ghost is left.  (Once
\* rows move, a deletion that waited looks for its node at the old port and may
\* leave it behind.)
NoGhostNode == Undisturbed => \A k \in Loaded : \E s \in Present : s[2] = k

\* An active row was verified through its own node: a probe that was on its way
\* while the row was deleted, its port given to another node and the row made anew
\* does not count for the new row.  (Eviction takes a node off its port and leaves
\* the row: from then on it is probed through whatever node has the port.)
ActiveOnOwnEvidence ==
  Undisturbed => \A s \in Present : ~rows[s].astray
=============================================================================
