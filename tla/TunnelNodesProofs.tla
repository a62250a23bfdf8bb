------------------------- MODULE TunnelNodesProofs -------------------------
(* Proofs about TunnelNodes for every number of nodes, ports, subscriptions, *)
(* faults, deletions and probes.                                             *)
EXTENDS TunnelNodes, TLAPS

-----------------------------------------------------------------------------
(* What holds in every state, whatever has gone wrong.                     *)

\* A deletion or a probe that still knows its row knows a row that is there, and
\* a deletion that holds refreshMu has read its row.
SnapshotsHold ==
  /\ op.kind = "delete" => del # Nothing
  /\ del # Nothing /\ del.ref # Gone => del.ref \in Present
  /\ probe # Nothing => probe.ref \in Present

\* The ports a transaction is about to store are those of its nodes, or free.
MapMatchesRuntime ==
  At("commit") => \A k \in op.nodes : op.map[k] \in Ports /\ NodeAt(op.map[k]) \in {k, NoKey}

BusyHasKind == op.kind = "none" => Idle

AlwaysInv ==
  /\ BusyHasKind
  /\ SnapshotsHold
  /\ MapMatchesRuntime
  /\ CommitMatchesRuntime
  /\ OwnedKeyNotReclaimed

-----------------------------------------------------------------------------
(* What holds as long as no fault has happened.                            *)

Keyed(S) == {s[2] : s \in S}

\* The rows the operation is about to replace or delete.
Mine == CASE op.kind \in {"refresh", "drop"} -> RowsOf(op.own)
          [] op.kind = "delete" -> {del.ref}
          [] OTHER -> {}

\* The nodes the rows will need once the operation has committed.
Needed == Keyed(Present \ Mine) \cup op.nodes

Settled == Idle \/ op.pc \in {"reload", "validate", "pick"}

\* The nodes that are loaded, at every stage of an operation.
LoadedInv ==
  /\ Settled => Loaded = Keyed(Present)
  /\ At("reload") => op.kind # "probe" /\ op.target = Needed
  /\ At("accept") \/ At("commit") => Loaded = Needed
  /\ At("commit") /\ ~op.changed => Loaded = Keyed(Present)
  /\ At("commit") => \A k \in op.nodes : op.map[k] = ports[k]
  /\ At("undo") => Keyed(Present) \subseteq Loaded

\* What the operation carries along.
OperationInv ==
  /\ op.kind \in {"drop", "delete"} => op.nodes = {}
  /\ op.kind = "manual" => \A j, k \in op.nodes : j = k
  /\ At("accept") \/ (At("commit") /\ op.kind = "manual") => op.changed
  /\ \/ At("reload") \/ At("accept") \/ At("undo")
     \/ At("commit") /\ op.changed
     => op.old = Keyed(Present)

\* Rows do not move: what was read of one remains true while it is there.
RowsInv ==
  /\ evicted = {} /\ extra = {}
  /\ \A s \in Present : /\ rows[s].st # "lapsed"
                        /\ s[2] \in Loaded => ports[s[2]] = rows[s].port
  /\ del # Nothing /\ del.ref # Gone => del.port = rows[del.ref].port
  /\ probe # Nothing => probe.port = rows[probe.ref].port

\* Another node's answer is in hand or on record only of a node that was unloaded.
EvidenceInv ==
  /\ \A s \in Present : rows[s].astray => s[2] \notin Loaded
  /\ probe # Nothing /\ probe.pc = "write" /\ probe.seen \notin {NoKey, probe.ref[2]}
       => probe.ref[2] \notin Loaded

CalmInv == LoadedInv /\ OperationInv /\ RowsInv /\ EvidenceInv

NodesInv == TypeOK /\ AlwaysInv /\ (faults = 0 => CalmInv)

-----------------------------------------------------------------------------
(* Port maps.                                                              *)

\* The node on port p of a port map f, if any.
Holder(f, p) == IF \E k \in Keys : f[k] = p THEN CHOOSE k \in Keys : f[k] = p ELSE NoKey

\* NodeAt in this state and in the next one.
LEMMA NodeAtIsHolder ==
  /\ \A p : NodeAt(p) = Holder(ports, p)
  /\ \A p : NodeAt(p)' = Holder(ports', p)
BY DEF NodeAt, Holder

\* What the runtime's names stand for here.
LEMMA RuntimeNames ==
  /\ NoPort = 0
  /\ Loaded = {k \in Keys : ports[k] # NoPort}
  /\ Loaded' = {k \in Keys : ports'[k] # NoPort}
  /\ \A f : Runtime!Loaded(f) = {k \in Keys : f[k] # NoPort}
BY DEF NoPort, Loaded, Runtime!Loaded, Runtime!NoPort

\* No port stands for two nodes.
LEMMA PortMapFacts ==
  ASSUME NEW f \in Runtime!PortMaps
  PROVE  /\ f \in [Keys -> Ports \cup {NoPort}]
         /\ \A j, k \in Keys : f[j] # NoPort /\ f[j] = f[k] => j = k
BY DEF Runtime!PortMaps, Runtime!Loaded, NoPort, Runtime!NoPort

\* A node on port p is the one found there, and whoever is found is there.
LEMMA HolderFacts ==
  ASSUME NEW f \in Runtime!PortMaps, NEW p
  PROVE  /\ Holder(f, p) \in Keys \cup {NoKey}
         /\ Holder(f, p) # NoKey => Holder(f, p) \in Keys /\ f[Holder(f, p)] = p
         /\ p \in Ports => \A k \in Keys : f[k] = p => Holder(f, p) = k
<1>1. CASE \E k \in Keys : f[k] = p
  <2>1. PICK k \in Keys : f[k] = p
    BY <1>1
  <2>2. Holder(f, p) = CHOOSE j \in Keys : f[j] = p
    BY <1>1 DEF Holder
  <2>3. Holder(f, p) \in Keys /\ f[Holder(f, p)] = p
    BY <2>1, <2>2
  <2>4. p \in Ports => \A j \in Keys : f[j] = p => Holder(f, p) = j
    BY <2>3, PortMapFacts, TunnelAssumption
  <2> QED
    BY <2>3, <2>4
<1>2. CASE ~\E k \in Keys : f[k] = p
  BY <1>2 DEF Holder
<1> QED
  BY <1>1, <1>2

\* The empty port map is one.
LEMMA NoPortsType == Runtime!NoPorts \in Runtime!PortMaps
BY DEF Runtime!NoPorts, Runtime!PortMaps, Runtime!Loaded, Runtime!NoPort

\* What a call leaves of extra.
LEMMA ExtraType ==
  ASSUME extra \subseteq Keys, NEW kind, NEW target, NEW f
  PROVE  Runtime!ExtraAfter(kind, target, f) \subseteq Keys
BY DEF Runtime!ExtraAfter, Runtime!Loaded

-----------------------------------------------------------------------------
(* Types.                                                                  *)

\* The operation of nobody.
LEMMA NoOpType ==
  /\ NoOp \in Op
  /\ NoOp.kind = "none" /\ NoOp.pc = "reload" /\ NoOp.own = Manual /\ NoOp.nodes = {}
  /\ NoOp.old = {} /\ NoOp.target = {} /\ NoOp.changed = FALSE /\ NoOp.todo = {}
  /\ NoOp.map = Runtime!NoPorts
BY DEF NoOp, Op, Kinds, Owners, Runtime!NoPorts, NoPort

\* A blank row on a port is a row.
LEMMA BlankType ==
  ASSUME NEW p \in Ports
  PROVE  Blank(p) \in Row
BY DEF Blank, Row, Statuses

\* No row is the missing one.
LEMMA RowIsThere ==
  ASSUME NEW r \in Row
  PROVE  r # NoRow
BY TunnelAssumption

\* A row that is there is a row.
LEMMA PresentType ==
  ASSUME TypeOK, NEW s \in Present
  PROVE  s \in Slots /\ rows[s] \in Row /\ s[1] \in Owners /\ s[2] \in Keys
BY DEF TypeOK, Present, Slots

\* What a reload does, whatever follows it.
LEMMA ReloadType ==
  ASSUME TypeOK, NEW target \in SUBSET Keys, NEW ok \in Op, NEW err \in Op,
         Reload(target, ok, err)
  PROVE  /\ ports' \in Runtime!PortMaps
         /\ extra' \subseteq Keys
         /\ op' \in {ok, err}
         /\ faults' \in 0 .. MaxFaults
<1>0. /\ faults \in 0 .. MaxFaults /\ MaxFaults \in Nat
      /\ extra \subseteq Keys
  BY TunnelAssumption DEF TypeOK
<1>1. CASE \E new \in Runtime!Succeeded(ports, target) :
       /\ ports' = new
       /\ extra' = Runtime!ExtraAfter("reload", target, new)
       /\ op' = ok
       /\ LET refused == target \ Runtime!Loaded(new)
          IN IF refused = {} THEN UNCHANGED faults ELSE Fault("reject")
  <2>1. PICK new \in Runtime!Succeeded(ports, target) :
       /\ ports' = new
       /\ extra' = Runtime!ExtraAfter("reload", target, new)
       /\ op' = ok
       /\ UNCHANGED faults \/ Fault("reject")
    BY <1>1
  <2>2. ports' \in Runtime!PortMaps
    BY <2>1 DEF Runtime!Succeeded
  <2>3. extra' \subseteq Keys
    BY <2>1, <1>0, ExtraType
  <2> QED
    BY <2>1, <2>2, <2>3, <1>0 DEF Fault
<1>2. CASE /\ \/ /\ ports' \in Runtime!RolledBack(ports)
                 /\ extra' = Runtime!ExtraAfter("failing", target, ports')
              \/ /\ ports' \in Runtime!LeftBehind(ports, target)
                 /\ extra' = Runtime!ExtraAfter("broken", target, ports')
           /\ op' = err
           /\ Fault("reload")
  <2>1. ports' \in Runtime!PortMaps
    BY <1>2 DEF Runtime!RolledBack, Runtime!LeftBehind
  <2>2. extra' \subseteq Keys
    BY <1>2, <1>0, ExtraType
  <2> QED
    BY <1>2, <2>1, <2>2, <1>0 DEF Fault
<1> QED
  BY <1>1, <1>2 DEF Reload

\* What is left of a snapshot when rows vanish.
LEMMA SnapshotMoves ==
  ASSUME NEW kinds \in {{"delete"}, {"disabled", "test"}},
         NEW snap \in Snapshot(kinds) \cup {Nothing}, NEW gone
  PROVE  /\ Follow(snap, gone) \in Snapshot(kinds) \cup {Nothing}
         /\ Forget(snap, gone) \in Snapshot(kinds) \cup {Nothing}
<1>1. CASE snap = Nothing
  BY <1>1 DEF Follow, Forget
<1>2. CASE snap \in Snapshot(kinds)
  <2>1. [snap EXCEPT !.ref = Gone] \in Snapshot(kinds)
    BY <1>2 DEF Snapshot
  <2> QED
    BY <1>2, <2>1 DEF Follow, Forget
<1> QED
  BY <1>1, <1>2

\* A snapshot of a row whose key is overwritten.
LEMMA RenamedType ==
  ASSUME NEW kinds \in {{"delete"}, {"disabled", "test"}},
         NEW snap \in Snapshot(kinds) \cup {Nothing}, NEW me \in Slots, NEW p
  PROVE  Renamed(snap, me, p) \in Snapshot(kinds) \cup {Nothing}
<1>1. CASE snap = Nothing
  BY <1>1 DEF Renamed
<1>2. CASE snap \in Snapshot(kinds)
  <2>1. [snap EXCEPT !.ref = me] \in Snapshot(kinds)
    BY <1>2 DEF Snapshot
  <2> QED
    BY <1>2, <2>1 DEF Renamed
<1> QED
  BY <1>1, <1>2

\* What is read of a row that is there.
LEMMA ReadType ==
  ASSUME TypeOK, NEW s \in Present, NEW kind
  PROVE  Read(kind, s) \in Snapshot({kind})
<1>1. rows[s] \in Row /\ s \in Slots /\ s[2] \in Keys /\ rows[s].port \in Ports
  BY PresentType DEF Row
<1>2. NodeAt(rows[s].port) \in Keys \cup {NoKey}
  BY NodeAtIsHolder, HolderFacts DEF TypeOK
<1> QED
  BY <1>1, <1>2 DEF Read, Snapshot

\* What a result makes of a row that is there.
LEMMA ResultType ==
  ASSUME TypeOK, NEW s \in Present, NEW seen, NEW row \in Judged(s, seen) \cup {Failed(rows[s]), rows[s]}
  PROVE  /\ row \in Row
         /\ row.port = rows[s].port
         /\ rows[s].st # "lapsed" => row.st # "lapsed"
         /\ row.astray => rows[s].astray \/ (faults = 0 /\ seen \notin {NoKey, s[2]})
<1>1. rows[s] \in Row
  BY PresentType
<1>2. CASE row \in Judged(s, seen)
  <2>1. seen # NoKey
    BY <1>2 DEF Judged
  <2>2. CASE row = [rows[s] EXCEPT !.st = "active", !.astray = faults = 0 /\ seen # s[2]]
    BY <1>1, <2>1, <2>2 DEF Row, Statuses
  <2>3. CASE row = Blank(rows[s].port)
    BY <1>1, <2>3 DEF Row, Statuses, Blank
  <2> QED
    BY <1>2, <2>1, <2>2, <2>3 DEF Judged
<1>3. CASE row = Failed(rows[s])
  BY <1>1, <1>3 DEF Failed, Row, Statuses
<1>4. CASE row = rows[s]
  BY <1>1, <1>4
<1> QED
  BY <1>2, <1>3, <1>4

\* Writing a row of the right type at one place.
LEMMA RowWritten ==
  ASSUME TypeOK, NEW s \in Slots, NEW row \in Row \cup {NoRow}, rows' = [rows EXCEPT ![s] = row]
  PROVE  /\ rows' \in [Slots -> Row \cup {NoRow}]
         /\ rows'[s] = row
         /\ \A t \in Slots : t # s => rows'[t] = rows[t]
BY DEF TypeOK

\* Undoing is an operation.
LEMMA UndoingType ==
  ASSUME TypeOK
  PROVE  /\ Undoing \in Op
         /\ Undoing.kind = op.kind /\ Undoing.pc = "undo" /\ Undoing.old = op.old
         /\ Undoing.nodes = {} /\ Undoing.todo = {} /\ Undoing.changed = FALSE
BY NoOpType DEF TypeOK, Undoing, Op

\* Release forgets a deletion or keeps it.
LEMMA ReleaseType ==
  ASSUME TypeOK, Release
  PROVE  /\ del' \in {del, Nothing}
         /\ del' \in Snapshot({"delete"}) \cup {Nothing}
BY DEF TypeOK, Release

\* ReloadRuntime keeps the types.
LEMMA ReloadRuntimeType ==
  ASSUME TypeOK, ReloadRuntime
  PROVE  TypeOK'
<1> DEFINE ok == [op EXCEPT !.pc = AfterReload, !.target = {}, !.changed = TRUE]
<1> DEFINE err == IF op.kind = "probe" THEN [op EXCEPT !.pc = "pick"] ELSE NoOp
<1>1. op \in Op /\ op.target \in SUBSET Keys
  BY DEF TypeOK, Op
<1>2. AfterReload \in {"pick", "accept", "commit"}
  BY DEF AfterReload
<1>3. ok \in Op
  BY <1>1, <1>2 DEF Op
<1>4. err \in Op
  BY <1>1, NoOpType DEF Op
<1>5. Reload(op.target, ok, err) /\ Release /\ UNCHANGED <<rows, subs, evicted, probe>>
  BY DEF ReloadRuntime
<1> HIDE DEF ok, err
<1>6. /\ ports' \in Runtime!PortMaps /\ extra' \subseteq Keys
      /\ op' \in {ok, err} /\ faults' \in 0 .. MaxFaults
  BY <1>1, <1>3, <1>4, <1>5, ReloadType
<1> QED
  BY <1>3, <1>4, <1>5, <1>6, ReleaseType DEF TypeOK

\* Undo keeps the types.
LEMMA UndoType ==
  ASSUME TypeOK, Undo
  PROVE  TypeOK'
<1>1. op.old \in SUBSET Keys
  BY DEF TypeOK, Op
<1>2. Reload(op.old, NoOp, NoOp) /\ Release /\ UNCHANGED <<rows, subs, evicted, probe>>
  BY DEF Undo
<1>3. /\ ports' \in Runtime!PortMaps /\ extra' \subseteq Keys
      /\ op' = NoOp /\ faults' \in 0 .. MaxFaults
  BY <1>1, <1>2, ReloadType, NoOpType
<1> QED
  BY <1>2, <1>3, ReleaseType, NoOpType DEF TypeOK

\* Accept keeps the types.
LEMMA AcceptType ==
  ASSUME TypeOK, Accept
  PROVE  TypeOK'
<1> DEFINE accepted == op.nodes \cap Loaded
<1> DEFINE m == [k \in Keys |-> IF k \in accepted THEN ports[k] ELSE NoPort]
<1>1. op \in Op /\ ports \in [Keys -> Ports \cup {NoPort}]
  BY PortMapFacts DEF TypeOK
<1>2. accepted \in SUBSET Keys
  BY RuntimeNames
<1>3. m \in [Keys -> Ports \cup {NoPort}]
  BY <1>1
<1>4. \/ op' = [op EXCEPT !.pc = "commit", !.nodes = accepted, !.map = m]
      \/ op' = Undoing
  BY DEF Accept
<1> HIDE DEF accepted, m
<1>5. op' \in Op
  BY <1>1, <1>2, <1>3, <1>4, UndoingType DEF Op
<1> QED
  BY <1>5 DEF TypeOK, Accept

\* A refused transaction keeps the types.
LEMMA CommitRefusedType ==
  ASSUME TypeOK, CommitRefused, faults' \in 0 .. MaxFaults
  PROVE  TypeOK'
<1>1. op' \in Op
  BY NoOpType, UndoingType DEF CommitRefused
<1> QED
  BY <1>1, ReleaseType DEF TypeOK, CommitRefused

\* Counting a fault keeps the count in its bounds.
LEMMA FaultType ==
  ASSUME TypeOK, NEW f, Fault(f)
  PROVE  faults' \in 0 .. MaxFaults /\ faults' # 0
BY TunnelAssumption DEF TypeOK, Fault

\* The keys a step may unload or keep are node keys.
LEMMA KeySets ==
  ASSUME TypeOK
  PROVE  /\ Loaded \in SUBSET Keys
         /\ \A o : ReclaimableKeys(o) \in SUBSET Keys
         /\ LapsedKeys \in SUBSET Keys
         /\ \A X : CollectedKeys(X) \in SUBSET Keys
<1>1. Loaded \in SUBSET Keys
  BY RuntimeNames
<1>2. \A o : ReclaimableKeys(o) \in SUBSET Keys
  BY <1>1 DEF ReclaimableKeys
<1>3. \A X : CollectedKeys(X) \in SUBSET Keys
  BY <1>1 DEF CollectedKeys
<1>4. \A p : NodeAt(p) \in Keys \cup {NoKey}
  BY NodeAtIsHolder, HolderFacts DEF TypeOK
<1>5. LapsedKeys \in SUBSET Keys
  BY <1>4 DEF LapsedKeys
<1> QED
  BY <1>1, <1>2, <1>3, <1>5

\* What RefreshSubscription sets out to do.
LEMMA RefreshEffect ==
  ASSUME TypeOK, NEW s \in Subs, NEW fetched \in SUBSET Keys, RefreshSubscription(s, fetched)
  PROVE  LET mine == ReclaimableKeys(s)
         IN /\ op' \in Op /\ op'.kind = "refresh" /\ op'.own = s /\ op'.changed = FALSE
            /\ op'.todo = {}
            /\ \/ /\ mine = {} /\ evicted' = evicted
                  /\ op'.pc = "commit" /\ op'.nodes = {}
               \/ /\ op'.pc = "reload" /\ op'.nodes = fetched /\ op'.old = Loaded
                  /\ op'.target = CollectedKeys(mine) \cup fetched
                  /\ evicted' = (evicted \cup LapsedKeys) \ fetched
<1> DEFINE mine == ReclaimableKeys(s)
<1> DEFINE refresh == [NoOp EXCEPT !.kind = "refresh", !.own = s]
<1>1. /\ s \in Owners /\ Loaded \in SUBSET Keys
      /\ CollectedKeys(mine) \in SUBSET Keys
  BY KeySets DEF Owners
<1>2. /\ refresh \in Op /\ refresh.kind = "refresh" /\ refresh.own = s /\ refresh.nodes = {}
      /\ refresh.pc = "reload" /\ refresh.changed = FALSE /\ refresh.todo = {}
  BY <1>1, NoOpType DEF Op, Kinds
<1>3. \/ /\ fetched = {} /\ mine = {}
         /\ op' = [refresh EXCEPT !.pc = "commit"]
         /\ evicted' = evicted
      \/ /\ op' = [refresh EXCEPT !.nodes = fetched, !.old = Loaded,
                                  !.target = CollectedKeys(mine) \cup fetched]
         /\ evicted' = (evicted \cup LapsedKeys) \ fetched
  BY DEF RefreshSubscription
<1> HIDE DEF refresh, mine
<1>4. CASE /\ fetched = {} /\ mine = {}
           /\ op' = [refresh EXCEPT !.pc = "commit"]
           /\ evicted' = evicted
  <2>1. op' \in Op /\ op'.kind = "refresh" /\ op'.own = s /\ op'.changed = FALSE
    BY <1>2, <1>4 DEF Op
  <2>2. op'.todo = {} /\ op'.pc = "commit" /\ op'.nodes = {}
    BY <1>2, <1>4 DEF Op
  <2> QED
    BY <2>1, <2>2, <1>4 DEF mine
<1>5. CASE /\ op' = [refresh EXCEPT !.nodes = fetched, !.old = Loaded,
                                    !.target = CollectedKeys(mine) \cup fetched]
           /\ evicted' = (evicted \cup LapsedKeys) \ fetched
  <2>1. op' \in Op /\ op'.kind = "refresh" /\ op'.own = s /\ op'.changed = FALSE
    BY <1>1, <1>2, <1>5 DEF Op
  <2>2. /\ op'.todo = {} /\ op'.pc = "reload" /\ op'.nodes = fetched /\ op'.old = Loaded
        /\ op'.target = CollectedKeys(mine) \cup fetched
    BY <1>1, <1>2, <1>5 DEF Op
  <2> QED
    BY <2>1, <2>2, <1>5 DEF mine
<1> QED
  BY <1>3, <1>4, <1>5

\* What DeleteSubscription sets out to do.
LEMMA DropEffect ==
  ASSUME TypeOK, NEW s \in Subs, DeleteSubscription(s)
  PROVE  LET mine == ReclaimableKeys(s)
         IN /\ op' \in Op /\ op'.kind = "drop" /\ op'.own = s /\ op'.changed = FALSE
            /\ op'.todo = {} /\ op'.nodes = {} /\ op'.old = Loaded
            /\ op'.target = Loaded \ mine
            /\ op'.pc = IF mine = {} THEN "commit" ELSE "reload"
<1>1. s \in Owners /\ Loaded \in SUBSET Keys
  BY KeySets DEF Owners
<1>2. op' = [NoOp EXCEPT !.kind = "drop", !.own = s, !.old = Loaded,
                         !.target = Loaded \ ReclaimableKeys(s),
                         !.pc = IF ReclaimableKeys(s) = {} THEN "commit" ELSE "reload"]
  BY DEF DeleteSubscription
<1> QED
  BY <1>1, <1>2, NoOpType DEF Op, Kinds

\* What a deletion of one row sets out to do.
LEMMA DeleteEffect ==
  ASSUME TypeOK, DeleteProxy
  PROVE  /\ op' \in Op /\ op'.kind = "delete" /\ op'.changed = FALSE
         /\ op'.todo = {} /\ op'.nodes = {} /\ op'.old = Loaded
         /\ op'.target = Loaded \ {RemoveKey}
         /\ op'.pc = IF RemoveKey \in Loaded /\ ~OwnedOutside(RemoveKey, {del.ref})
                     THEN "reload" ELSE "commit"
<1>1. Loaded \in SUBSET Keys
  BY KeySets
<1>2. op' = [NoOp EXCEPT !.kind = "delete", !.old = Loaded,
                         !.target = Loaded \ {RemoveKey},
                         !.pc = IF RemoveKey \in Loaded /\ ~OwnedOutside(RemoveKey, {del.ref})
                                THEN "reload" ELSE "commit"]
  BY DEF DeleteProxy
<1> QED
  BY <1>1, <1>2, NoOpType DEF Op, Kinds

\* What the addition of a manual node sets out to do.
LEMMA ManualEffect ==
  ASSUME TypeOK, NEW k \in Keys, AddManualNode(k)
  PROVE  /\ op' \in Op /\ op'.kind = "manual" /\ op'.changed = FALSE /\ op'.pc = "reload"
         /\ op'.todo = {} /\ op'.nodes = {k} /\ op'.old = Loaded
         /\ op'.target = CollectedKeys({}) \cup {k}
<1>1. Loaded \in SUBSET Keys /\ CollectedKeys({}) \in SUBSET Keys
  BY KeySets
<1>2. op' = [NoOp EXCEPT !.kind = "manual", !.nodes = {k}, !.old = Loaded,
                         !.target = CollectedKeys({}) \cup {k}]
  BY DEF AddManualNode
<1> QED
  BY <1>1, <1>2, NoOpType DEF Op, Kinds

\* What a round of probes sets out to do.
LEMMA ProbeEffect ==
  ASSUME TypeOK, ProbeDisabled
  PROVE  /\ op' \in Op /\ op'.kind = "probe" /\ op'.changed = FALSE
         /\ op'.todo = {} /\ op'.nodes = {} /\ op'.old = {}
         /\ op'.pc = IF LapsedKeys = {} THEN "pick" ELSE "reload"
<1>1. Loaded \in SUBSET Keys
  BY KeySets
<1>2. op' = [NoOp EXCEPT !.kind = "probe", !.target = Loaded \ LapsedKeys,
                         !.pc = IF LapsedKeys = {} THEN "pick" ELSE "reload"]
  BY DEF ProbeDisabled
<1> QED
  BY <1>1, <1>2, NoOpType DEF Op, Kinds

\* The steps that take refreshMu keep the types.
LEMMA StartType ==
  ASSUME TypeOK,
         \/ \E s \in Subs : \/ DeleteSubscription(s)
                            \/ \E fetched \in SUBSET Keys : RefreshSubscription(s, fetched)
         \/ DeleteProxy
         \/ \E k \in Keys : AddManualNode(k)
         \/ ProbeDisabled
  PROVE  TypeOK'
<1>1. LapsedKeys \in SUBSET Keys
  BY KeySets
<1>2. ASSUME NEW s \in Subs, NEW fetched \in SUBSET Keys, RefreshSubscription(s, fetched)
      PROVE  TypeOK'
  <2>1. op' \in Op
    BY <1>2, RefreshEffect
  <2>2. evicted' = evicted \/ evicted' = (evicted \cup LapsedKeys) \ fetched
    BY <1>2, RefreshEffect
  <2> QED
    BY <1>1, <1>2, <2>1, <2>2 DEF TypeOK, RefreshSubscription
<1>3. ASSUME NEW s \in Subs, DeleteSubscription(s)
      PROVE  TypeOK'
  BY <1>3, DropEffect DEF TypeOK, DeleteSubscription
<1>4. CASE DeleteProxy
  BY <1>4, DeleteEffect DEF TypeOK, DeleteProxy
<1>5. ASSUME NEW k \in Keys, AddManualNode(k)
      PROVE  TypeOK'
  BY <1>1, <1>5, ManualEffect DEF TypeOK, AddManualNode
<1>6. CASE ProbeDisabled
  BY <1>1, <1>6, ProbeEffect DEF TypeOK, ProbeDisabled
<1> QED
  BY <1>2, <1>3, <1>4, <1>5, <1>6

\* What a refresh makes of a row.
LEMMA RewrittenFacts ==
  ASSUME NEW row \in Row \cup {NoRow}, NEW p \in Ports, NEW preserve
  PROVE  LET new == Rewritten(row, p, preserve)
         IN /\ new \in Row
            /\ new.port = p
            /\ new.st = "lapsed" => row \in Row /\ row.st = "lapsed"
            /\ new.astray => row \in Row /\ row.astray
<1>1. Blank(p) \in Row /\ Blank(p).port = p /\ Blank(p).st = "disabled" /\ Blank(p).astray = FALSE
  BY BlankType DEF Blank
<1>2. CASE row = NoRow \/ row.port # p
  <2>1. Rewritten(row, p, preserve) = Blank(p)
    BY <1>2 DEF Rewritten
  <2> QED
    BY <1>1, <2>1
<1>3. CASE ~(row = NoRow \/ row.port # p)
  <2>1. row \in Row /\ row.port = p
    BY <1>3
  <2>2. Rewritten(row, p, preserve) = Blank(p) \/ Rewritten(row, p, preserve) = row
    BY <1>3 DEF Rewritten
  <2> QED
    BY <1>1, <2>1, <2>2
<1> QED
  BY <1>2, <1>3

\* What the transaction of a refresh writes.
LEMMA ReplaceEffect ==
  ASSUME TypeOK, MapMatchesRuntime, ReplaceSubscriptionProxies
  PROVE  /\ rows' \in [Slots -> Row \cup {NoRow}]
         /\ \A s \in Slots : s[1] # op.own => rows'[s] = rows[s]
         /\ \A s \in Slots : s[1] = op.own /\ s[2] \notin op.nodes => rows'[s] = NoRow
         /\ \A s \in Slots : s[1] = op.own /\ s[2] \in op.nodes =>
              /\ rows'[s] \in Row
              /\ rows'[s].port = op.map[s[2]]
              /\ rows'[s].st = "lapsed" => rows[s] \in Row /\ rows[s].st = "lapsed"
              /\ rows'[s].astray => rows[s] \in Row /\ rows[s].astray
         /\ op.nodes = {} => op' = NoOp
         /\ op.nodes # {} =>
              /\ op'.kind = "refresh" /\ op'.pc = "validate" /\ op'.own = op.own
              /\ op'.todo = op.nodes /\ op'.nodes = {} /\ op'.changed = FALSE
         /\ op' \in Op
<1>1. op \in Op /\ op.own \in Owners /\ op.nodes \in SUBSET Keys
  BY DEF TypeOK, Op
<1>2. \A k \in op.nodes : op.map[k] \in Ports
  BY DEF MapMatchesRuntime, ReplaceSubscriptionProxies
<1>3. PICK preserved : rows' = [s \in Slots |->
                  IF s[1] # op.own THEN rows[s]
                  ELSE IF s[2] \notin op.nodes THEN NoRow
                  ELSE Rewritten(rows[s], op.map[s[2]], s[2] \in preserved)]
  BY DEF ReplaceSubscriptionProxies
<1>4. \A s \in Slots : rows[s] \in Row \cup {NoRow}
  BY DEF TypeOK
<1>5. ASSUME NEW s \in Slots, s[1] = op.own, s[2] \in op.nodes
      PROVE  /\ rows'[s] \in Row
             /\ rows'[s].port = op.map[s[2]]
             /\ rows'[s].st = "lapsed" => rows[s] \in Row /\ rows[s].st = "lapsed"
             /\ rows'[s].astray => rows[s] \in Row /\ rows[s].astray
  <2>1. rows'[s] = Rewritten(rows[s], op.map[s[2]], s[2] \in preserved)
    BY <1>3, <1>5
  <2> QED
    BY <2>1, <1>2, <1>4, <1>5, RewrittenFacts
<1>6. \A s \in Slots : s[1] # op.own => rows'[s] = rows[s]
  BY <1>3
<1>7. \A s \in Slots : s[1] = op.own /\ s[2] \notin op.nodes => rows'[s] = NoRow
  BY <1>3
<1>8. rows' \in [Slots -> Row \cup {NoRow}]
  <2>1. \A s \in Slots : rows'[s] \in Row \cup {NoRow}
    BY <1>4, <1>5, <1>6, <1>7
  <2>2. rows' = [s \in Slots |-> rows'[s]]
    BY <1>3
  <2> QED
    BY <2>1, <2>2
<1>9. op' = IF op.nodes = {} THEN NoOp
            ELSE [NoOp EXCEPT !.kind = "refresh", !.pc = "validate", !.own = op.own, !.todo = op.nodes]
  BY DEF ReplaceSubscriptionProxies
<1>10. op.nodes # {} =>
              /\ op'.kind = "refresh" /\ op'.pc = "validate" /\ op'.own = op.own
              /\ op'.todo = op.nodes /\ op'.nodes = {} /\ op'.changed = FALSE
              /\ op' \in Op
  BY <1>1, <1>9, NoOpType DEF Op, Kinds
<1> QED
  BY <1>5, <1>6, <1>7, <1>8, <1>9, <1>10, NoOpType

\* ReplaceSubscriptionProxies keeps the types.
LEMMA ReplaceType ==
  ASSUME TypeOK, MapMatchesRuntime, ReplaceSubscriptionProxies
  PROVE  TypeOK'
<1>1. rows' \in [Slots -> Row \cup {NoRow}] /\ op' \in Op
  BY ReplaceEffect
<1>2. /\ RowsVanish({s \in RowsOf(op.own) : s[2] \notin op.nodes})
      /\ UNCHANGED <<subs, ports, extra, evicted, faults>>
  BY DEF ReplaceSubscriptionProxies
<1> QED
  BY <1>1, <1>2, SnapshotMoves DEF TypeOK, RowsVanish

\* DropSubscriptionRows keeps the types.
LEMMA DropRowsType ==
  ASSUME TypeOK, DropSubscriptionRows
  PROVE  /\ TypeOK'
         /\ \A s \in Slots : rows'[s] = IF s[1] = op.own THEN NoRow ELSE rows[s]
<1>1. /\ RowsVanish(RowsOf(op.own))
      /\ rows' = [s \in Slots |-> IF s[1] = op.own THEN NoRow ELSE rows[s]]
      /\ subs' = subs \ {op.own} /\ op' = NoOp
      /\ UNCHANGED <<ports, extra, evicted, faults>>
  BY DEF DropSubscriptionRows
<1>2. rows' \in [Slots -> Row \cup {NoRow}]
  BY <1>1 DEF TypeOK
<1> QED
  BY <1>1, <1>2, SnapshotMoves, NoOpType DEF TypeOK, RowsVanish

\* DeleteProxyRow keeps the types.
LEMMA DeleteRowType ==
  ASSUME TypeOK, SnapshotsHold, DeleteProxyRow
  PROVE  TypeOK'
<1>1. CASE CommitRefused /\ UNCHANGED faults
  BY <1>1, CommitRefusedType DEF TypeOK
<1>2. CASE /\ del.ref # Gone
           /\ rows' = [rows EXCEPT ![del.ref] = NoRow]
           /\ probe' = Forget(probe, {del.ref})
           /\ del' = Nothing
           /\ op' = NoOp
           /\ UNCHANGED <<subs, ports, extra, evicted, faults>>
  <2>1. rows' \in [Slots -> Row \cup {NoRow}]
    BY <1>2 DEF TypeOK
  <2> QED
    BY <1>2, <2>1, SnapshotMoves, NoOpType DEF TypeOK
<1> QED
  BY <1>1, <1>2 DEF DeleteProxyRow

\* What AddManualProxyWithNodeKey makes of the rows.
LEMMA WithManualFacts ==
  ASSUME TypeOK, NEW me \in Slots, NEW p \in Ports
  PROVE  LET new == WithManual(me, p)
         IN /\ new \in [Slots -> Row \cup {NoRow}]
            /\ new[me] \in Row
            /\ \A t \in Slots \ {me} :
                 \/ new[t] = rows[t]
                 \/ t \in ManualAt(p) /\ me \notin Present
            /\ me \in ManualAt(p) => new = rows
            /\ me \notin ManualAt(p) /\ (me \in Present \/ ManualAt(p) = {})
                 => new = [rows EXCEPT ![me] = Blank(p)]
<1> DEFINE new == WithManual(me, p)
<1>0. rows \in [Slots -> Row \cup {NoRow}] /\ Blank(p) \in Row
  BY BlankType DEF TypeOK
<1>1. CASE me \in ManualAt(p)
  <2>1. new = rows /\ me \in Present
    BY <1>1 DEF WithManual, ManualAt, RowsOf
  <2> QED
    BY <1>0, <1>1, <2>1, PresentType
<1>2. CASE me \notin ManualAt(p) /\ (me \in Present \/ ManualAt(p) = {})
  <2>1. new = [rows EXCEPT ![me] = Blank(p)]
    BY <1>2 DEF WithManual
  <2> QED
    BY <1>0, <1>2, <2>1
<1>3. CASE me \notin Present /\ ManualAt(p) # {}
  <2> DEFINE other == CHOOSE s \in ManualAt(p) : TRUE
  <2>1. other \in ManualAt(p)
    BY <1>3
  <2>2. other \in Present
    BY <2>1 DEF ManualAt, RowsOf
  <2>3. me \notin ManualAt(p)
    BY <1>3 DEF ManualAt, RowsOf
  <2>4. new = [rows EXCEPT ![other] = NoRow, ![me] = Disable(rows[other])]
    BY <1>3, <2>3 DEF WithManual
  <2>5. other \in Slots /\ rows[other] \in Row /\ other # me
    BY <2>2, <1>3, PresentType
  <2>6. Disable(rows[other]) \in Row
    BY <2>5, BlankType DEF Disable, Row
  <2> HIDE DEF other, new
  <2>7. /\ new \in [Slots -> Row \cup {NoRow}] /\ new[me] \in Row
        /\ \A t \in Slots \ {me} : t # other => new[t] = rows[t]
    BY <1>0, <2>4, <2>5, <2>6
  <2> QED
    BY <1>3, <2>1, <2>3, <2>7 DEF new
<1> QED
  BY <1>1, <1>2, <1>3 DEF ManualAt, RowsOf

\* How the transaction of a manual node may end.
LEMMA StoreEffect ==
  ASSUME TypeOK, MapMatchesRuntime, StoreManualNode
  PROVE  \E k \in op.nodes :
           LET me == <<Manual, k>>
               p == op.map[k]
               new == WithManual(me, p)
               ambiguous == \E s \in Present : s[1] \in Subs /\ rows[s].port = p
           IN /\ k \in Keys /\ me \in Slots /\ p \in Ports /\ NodeAt(p) \in {k, NoKey}
              /\ \/ CommitRefused /\ UNCHANGED faults
                 \/ /\ UNCHANGED <<subs, ports, extra, evicted>>
                    /\ (ambiguous /\ UNCHANGED faults) \/ Fault("db")
                    /\ rows' = [new EXCEPT ![me] = NoRow]
                    /\ del' = Follow(Renamed(del, me, p), {me})
                    /\ probe' = Forget(Renamed(probe, me, p), {me})
                    /\ op' = Undoing
                 \/ /\ UNCHANGED <<subs, ports, extra, evicted>>
                    /\ ~ambiguous
                    /\ rows' = new
                    /\ del' = Renamed(del, me, p)
                    /\ probe' = Renamed(probe, me, p)
                    /\ op' = NoOp
                    /\ UNCHANGED faults
<1>1. op.nodes \in SUBSET Keys
  BY DEF TypeOK, Op
<1>2. \A k \in op.nodes : op.map[k] \in Ports /\ NodeAt(op.map[k]) \in {k, NoKey}
  BY DEF MapMatchesRuntime, StoreManualNode
<1>3. \A k \in Keys : <<Manual, k>> \in Slots
  BY DEF Slots, Owners
<1> QED
  BY <1>1, <1>2, <1>3, Zenon DEF StoreManualNode

\* StoreManualNode keeps the types.
LEMMA StoreType ==
  ASSUME TypeOK, MapMatchesRuntime, StoreManualNode
  PROVE  TypeOK'
<1>1. PICK k \in op.nodes :
           LET me == <<Manual, k>>
               p == op.map[k]
               new == WithManual(me, p)
           IN /\ k \in Keys /\ me \in Slots /\ p \in Ports
              /\ \/ CommitRefused /\ UNCHANGED faults
                 \/ /\ UNCHANGED <<subs, ports, extra, evicted>>
                    /\ UNCHANGED faults \/ Fault("db")
                    /\ rows' = [new EXCEPT ![me] = NoRow]
                    /\ del' = Follow(Renamed(del, me, p), {me})
                    /\ probe' = Forget(Renamed(probe, me, p), {me})
                    /\ op' = Undoing
                 \/ /\ UNCHANGED <<subs, ports, extra, evicted>>
                    /\ rows' = new
                    /\ del' = Renamed(del, me, p)
                    /\ probe' = Renamed(probe, me, p)
                    /\ op' = NoOp
                    /\ UNCHANGED faults
  BY StoreEffect, Zenon
<1> DEFINE me == <<Manual, k>>
<1> DEFINE p == op.map[k]
<1> DEFINE new == WithManual(me, p)
<1>2. /\ me \in Slots /\ p \in Ports
      /\ new \in [Slots -> Row \cup {NoRow}]
  BY <1>1, WithManualFacts
<1>3. /\ Renamed(del, me, p) \in Snapshot({"delete"}) \cup {Nothing}
      /\ Renamed(probe, me, p) \in Snapshot({"disabled", "test"}) \cup {Nothing}
  BY <1>2, RenamedType DEF TypeOK
<1>4. /\ Follow(Renamed(del, me, p), {me}) \in Snapshot({"delete"}) \cup {Nothing}
      /\ Forget(Renamed(probe, me, p), {me}) \in Snapshot({"disabled", "test"}) \cup {Nothing}
  BY <1>3, SnapshotMoves
<1>5. CASE CommitRefused /\ UNCHANGED faults
  BY <1>5, CommitRefusedType DEF TypeOK
<1>6. CASE /\ UNCHANGED <<subs, ports, extra, evicted>>
           /\ UNCHANGED faults \/ Fault("db")
           /\ rows' = [new EXCEPT ![me] = NoRow]
           /\ del' = Follow(Renamed(del, me, p), {me})
           /\ probe' = Forget(Renamed(probe, me, p), {me})
           /\ op' = Undoing
  <2>1. faults' \in 0 .. MaxFaults
    BY <1>6, FaultType DEF TypeOK
  <2>2. rows' \in [Slots -> Row \cup {NoRow}]
    BY <1>2, <1>6
  <2> QED
    BY <1>4, <1>6, <2>1, <2>2, UndoingType DEF TypeOK
<1>7. CASE /\ UNCHANGED <<subs, ports, extra, evicted>>
           /\ rows' = new
           /\ del' = Renamed(del, me, p)
           /\ probe' = Renamed(probe, me, p)
           /\ op' = NoOp
           /\ UNCHANGED faults
  BY <1>2, <1>3, <1>7, NoOpType DEF TypeOK
<1> QED
  BY <1>1, <1>5, <1>6, <1>7

\* One row takes a result and stays where it is.
Takes(s, seen) ==
  /\ s \in Present
  /\ rows' \in [Slots -> Row \cup {NoRow}]
  /\ \A t \in Slots : t # s => rows'[t] = rows[t]
  /\ rows'[s] \in Row
  /\ rows'[s].port = rows[s].port
  /\ rows[s].st # "lapsed" => rows'[s].st # "lapsed"
  /\ rows'[s].astray => rows[s].astray \/ (faults = 0 /\ seen \notin {NoKey, s[2]})

\* Writing one of the possible results.
LEMMA ResultTaken ==
  ASSUME TypeOK, NEW s \in Present, NEW seen,
         NEW row \in Judged(s, seen) \cup {Failed(rows[s]), rows[s]},
         rows' = [rows EXCEPT ![s] = row]
  PROVE  Takes(s, seen)
<1>1. s \in Slots
  BY PresentType
<1>2. /\ row \in Row /\ row.port = rows[s].port
      /\ rows[s].st # "lapsed" => row.st # "lapsed"
      /\ row.astray => rows[s].astray \/ (faults = 0 /\ seen \notin {NoKey, s[2]})
  BY ResultType
<1> QED
  BY <1>1, <1>2, RowWritten DEF Takes

\* What one validation does.
LEMMA ValidateEffect ==
  ASSUME TypeOK, CommitMatchesRuntime, NEW k \in Keys, ValidateRow(k)
  PROVE  /\ Takes(<<op.own, k>>, NodeAt(rows[<<op.own, k>>].port))
         /\ op' \in Op
         /\ op' = NoOp \/ /\ op'.kind = op.kind /\ op'.pc = op.pc /\ op'.own = op.own
                          /\ op'.nodes = op.nodes /\ op'.old = op.old
                          /\ op'.changed = op.changed /\ op'.todo \subseteq op.todo
<1> DEFINE s == <<op.own, k>>
<1>1. s \in Present
  BY DEF CommitMatchesRuntime, ValidateRow
<1>2. PICK row \in Judged(s, NodeAt(rows[s].port)) \cup {Failed(rows[s]), rows[s]} :
        rows' = [rows EXCEPT ![s] = row]
  BY DEF ValidateRow
<1>3. Takes(s, NodeAt(rows[s].port))
  BY <1>1, <1>2, ResultTaken
<1>4. op' = IF op.todo = {k} THEN NoOp ELSE [op EXCEPT !.todo = @ \ {k}]
  BY DEF ValidateRow
<1>5. op \in Op
  BY DEF TypeOK
<1> QED
  BY <1>3, <1>4, <1>5, NoOpType DEF Op

\* What the end of a probe does.
LEMMA WriteEffect ==
  ASSUME TypeOK, WriteDisabled \/ WriteTest
  PROVE  /\ probe # Nothing /\ probe.pc = "write" /\ probe' = Nothing
         /\ UNCHANGED <<subs, ports, extra, evicted, op, del, faults>>
         /\ UNCHANGED rows \/ Takes(probe.ref, probe.seen)
<1>1. /\ probe # Nothing /\ probe.pc = "write" /\ probe' = Nothing
      /\ UNCHANGED <<subs, ports, extra, evicted, op, del, faults>>
  BY DEF WriteDisabled, WriteTest
<1>2. UNCHANGED rows \/ (SameRoute /\
        \E row \in Judged(probe.ref, probe.seen) \cup {Failed(rows[probe.ref]), rows[probe.ref]} :
           rows' = [rows EXCEPT ![probe.ref] = row])
  <2>1. CASE WriteDisabled
    BY <2>1 DEF WriteDisabled, ProbeTargetStillCurrent
  <2>2. CASE WriteTest
    BY <2>2 DEF WriteTest
  <2> QED
    BY <2>1, <2>2
<1>3. SameRoute => probe.ref \in Present
  BY DEF SameRoute
<1> QED
  BY <1>1, <1>2, <1>3, ResultTaken

\* What time does to a row.
LEMMA LapseEffect ==
  ASSUME TypeOK, NEW s \in Slots, Lapse(s)
  PROVE  /\ s \in Present
         /\ rows' \in [Slots -> Row \cup {NoRow}]
         /\ \A t \in Slots : t # s => rows'[t] = rows[t]
         /\ rows'[s] \in Row /\ rows'[s].port = rows[s].port
         /\ faults' \in 0 .. MaxFaults /\ faults' # 0
         /\ UNCHANGED <<subs, ports, extra, evicted, op, del, probe>>
<1>1. s \in Present /\ rows' = [rows EXCEPT ![s].st = "lapsed"]
  BY DEF Lapse
<1>2. rows[s] \in Row
  BY <1>1, PresentType
<1>3. [rows[s] EXCEPT !.st = "lapsed"] \in Row /\ [rows[s] EXCEPT !.st = "lapsed"].port = rows[s].port
  BY <1>2 DEF Row, Statuses
<1>4. rows' = [rows EXCEPT ![s] = [rows[s] EXCEPT !.st = "lapsed"]]
  BY <1>1 DEF TypeOK
<1>5. Fault("lapse")
  BY DEF Lapse
<1> QED
  BY <1>1, <1>3, <1>4, <1>5, RowWritten, FaultType DEF Lapse

\* Validations, probes and the surroundings keep the types.
LEMMA AsideType ==
  ASSUME TypeOK, CommitMatchesRuntime,
         \/ \E k \in Keys : ValidateRow(k)
         \/ \E s \in Slots : ReadForDeletion(s) \/ StartTest(s) \/ Lapse(s)
         \/ PickDisabled \/ Dial \/ WriteDisabled \/ WriteTest
         \/ \E s \in Subs : AddSubscription(s)
         \/ WatchLoop \/ Restart
  PROVE  TypeOK'
<1>1. ASSUME NEW k \in Keys, ValidateRow(k) PROVE TypeOK'
  <2>1. rows' \in [Slots -> Row \cup {NoRow}] /\ op' \in Op
    BY <1>1, ValidateEffect DEF Takes
  <2> QED
    BY <1>1, <2>1 DEF ValidateRow, TypeOK
<1>2. ASSUME NEW s \in Slots, ReadForDeletion(s) PROVE TypeOK'
  <2>1. del' \in Snapshot({"delete"})
    BY <1>2, ReadType DEF ReadForDeletion
  <2> QED
    BY <1>2, <2>1 DEF ReadForDeletion, TypeOK
<1>3. ASSUME NEW s \in Slots, StartTest(s) PROVE TypeOK'
  <2>1. probe' \in Snapshot({"test"})
    BY <1>3, ReadType DEF StartTest
  <2>2. probe' \in Snapshot({"disabled", "test"})
    BY <2>1 DEF Snapshot
  <2> QED
    BY <1>3, <2>2 DEF StartTest, TypeOK
<1>4. ASSUME NEW s \in Slots, Lapse(s) PROVE TypeOK'
  BY <1>4, LapseEffect DEF TypeOK
<1>5. CASE PickDisabled
  <2>1. probe' = probe \/ \E s \in Present : probe' = Read("disabled", s)
    BY <1>5 DEF PickDisabled
  <2>2. probe' = probe \/ probe' \in Snapshot({"disabled"})
    BY <2>1, ReadType
  <2>3. probe' \in Snapshot({"disabled", "test"}) \cup {Nothing}
    BY <2>2 DEF Snapshot, TypeOK
  <2> QED
    BY <1>5, <2>3, NoOpType DEF PickDisabled, TypeOK
<1>6. CASE Dial
  <2>1. NodeAt(probe.port) \in Keys \cup {NoKey}
    BY NodeAtIsHolder, HolderFacts DEF TypeOK
  <2>2. probe \in Snapshot({"disabled", "test"})
    BY <1>6 DEF Dial, TypeOK
  <2>3. probe' \in Snapshot({"disabled", "test"})
    BY <1>6, <2>1, <2>2 DEF Dial, Snapshot
  <2> QED
    BY <1>6, <2>3 DEF Dial, TypeOK
<1>7. CASE WriteDisabled \/ WriteTest
  BY <1>7, WriteEffect DEF Takes, TypeOK
<1>8. ASSUME NEW s \in Subs, AddSubscription(s) PROVE TypeOK'
  BY <1>8 DEF AddSubscription, TypeOK
<1>9. CASE WatchLoop
  <2>1. ports' \in Runtime!PortMaps /\ faults' \in 0 .. MaxFaults
    BY <1>9, FaultType DEF WatchLoop, Runtime!Recovered
  <2>2. extra' \subseteq Keys
    BY <1>9, ExtraType DEF WatchLoop, TypeOK
  <2> QED
    BY <1>9, <2>1, <2>2 DEF WatchLoop, TypeOK
<1>10. CASE Restart
  BY <1>10, FaultType, NoPortsType, NoOpType DEF Restart, TypeOK
<1> QED
  BY <1>1, <1>2, <1>3, <1>4, <1>5, <1>6, <1>7, <1>8, <1>9, <1>10

\* Every step keeps the types.
LEMMA TypeStep ==
  ASSUME TypeOK, AlwaysInv, [Next]_vars
  PROVE  TypeOK'
<1>0. SnapshotsHold /\ MapMatchesRuntime /\ CommitMatchesRuntime
  BY DEF AlwaysInv
<1>1. CASE DatabaseFails
  BY <1>1, FaultType, CommitRefusedType DEF DatabaseFails
<1>2. CASE UNCHANGED vars
  BY <1>2 DEF vars, TypeOK
<1> QED
  BY <1>0, <1>1, <1>2, ReloadRuntimeType, UndoType, AcceptType, StartType, ReplaceType,
     DropRowsType, DeleteRowType, StoreType, AsideType DEF Next

\* Init satisfies the types.
LEMMA TypeInit ==
  ASSUME Init
  PROVE  TypeOK
BY NoPortsType, NoOpType, TunnelAssumption DEF Init, TypeOK

-----------------------------------------------------------------------------
(* What holds in every state.                                              *)

\* The rows stay where they are.
Steady ==
  /\ Present' = Present
  /\ \A s \in Present : rows'[s].port = rows[s].port

\* A row that takes a result does not move.
LEMMA TakesSteady ==
  ASSUME TypeOK, NEW s, NEW seen, Takes(s, seen)
  PROVE  Steady
<1>1. s \in Slots /\ rows[s] # NoRow /\ rows'[s] # NoRow
  BY PresentType, RowIsThere DEF Takes
<1>2. \A t \in Slots : rows'[t] = NoRow <=> rows[t] = NoRow
  BY <1>1 DEF Takes
<1>3. Present' = Present
  BY <1>2 DEF Present
<1>4. \A t \in Present : rows'[t].port = rows[t].port
  BY DEF Takes, Present
<1> QED
  BY <1>3, <1>4 DEF Steady

\* A row that lapses does not move.
LEMMA LapseSteady ==
  ASSUME TypeOK, NEW s \in Slots, Lapse(s)
  PROVE  Steady
<1>1. /\ s \in Present
      /\ \A t \in Slots : t # s => rows'[t] = rows[t]
      /\ rows'[s] \in Row /\ rows'[s].port = rows[s].port
  BY LapseEffect
<1>2. rows[s] # NoRow /\ rows'[s] # NoRow
  BY <1>1, PresentType, RowIsThere
<1>3. \A t \in Slots : rows'[t] = NoRow <=> rows[t] = NoRow
  BY <1>1, <1>2
<1>4. Present' = Present
  BY <1>3 DEF Present
<1>5. \A t \in Present : rows'[t].port = rows[t].port
  BY <1>1 DEF Present
<1> QED
  BY <1>4, <1>5 DEF Steady

\* Rows that do not change do not move.
LEMMA UnchangedSteady ==
  ASSUME UNCHANGED rows
  PROVE  Steady
BY DEF Steady, Present

\* The watch loop frees ports and gives none out.
LEMMA RecoveredHolder ==
  ASSUME NEW old \in Runtime!PortMaps, NEW f \in Runtime!Recovered(old), NEW p \in Ports
  PROVE  Holder(f, p) \in {Holder(old, p), NoKey}
<1>1. f \in Runtime!PortMaps /\ \A k \in Keys : f[k] \in {old[k], NoPort}
  BY RuntimeNames DEF Runtime!Recovered, NoPort
<1>2. CASE Holder(f, p) # NoKey
  <2>1. Holder(f, p) \in Keys /\ f[Holder(f, p)] = p
    BY <1>1, <1>2, HolderFacts
  <2>2. old[Holder(f, p)] = p
    BY <1>1, <2>1, TunnelAssumption
  <2> QED
    BY <2>1, <2>2, HolderFacts
<1> QED
  BY <1>2

\* Nothing is asked of the holder of refreshMu while there is none.
LEMMA IdleAlways ==
  ASSUME op' = NoOp, SnapshotsHold'
  PROVE  AlwaysInv'
BY DEF AlwaysInv, BusyHasKind, MapMatchesRuntime, CommitMatchesRuntime, OwnedKeyNotReclaimed, At, Idle

\* Whoever moves beside the holder of refreshMu breaks nothing it relies on.
LEMMA AsideAlways ==
  ASSUME TypeOK, AlwaysInv, Steady, SnapshotsHold',
         op' = op, evicted' = evicted,
         ports' = ports \/ ports' \in Runtime!Recovered(ports),
         op.kind = "delete" => del' = del
  PROVE  AlwaysInv'
<1>1. \A p \in Ports : NodeAt(p)' \in {NodeAt(p), NoKey}
  <2> SUFFICES ASSUME NEW p \in Ports PROVE NodeAt(p)' \in {NodeAt(p), NoKey}
    OBVIOUS
  <2>1. CASE ports' = ports
    BY <2>1, NodeAtIsHolder
  <2>2. CASE ports' \in Runtime!Recovered(ports)
    BY <2>2, NodeAtIsHolder, RecoveredHolder DEF TypeOK
  <2> QED
    BY <2>1, <2>2
<1>2. \A pc : At(pc)' <=> At(pc)
  BY DEF At, Idle
<1>3. BusyHasKind'
  BY DEF AlwaysInv, BusyHasKind, Idle
<1>4. MapMatchesRuntime'
  BY <1>1, <1>2 DEF AlwaysInv, MapMatchesRuntime
<1>5. CommitMatchesRuntime'
  <2> SUFFICES ASSUME At("validate"), NEW k \in op.todo
               PROVE  /\ <<op.own, k>> \in Present'
                      /\ Holder(ports', rows'[<<op.own, k>>].port) \in {k, NoKey}
    BY <1>2, NodeAtIsHolder DEF CommitMatchesRuntime
  <2> DEFINE s == <<op.own, k>>
  <2>1. s \in Present /\ NodeAt(rows[s].port) \in {k, NoKey}
    BY DEF AlwaysInv, CommitMatchesRuntime
  <2>2. s \in Present' /\ rows'[s].port = rows[s].port
    BY <2>1 DEF Steady
  <2>3. rows[s].port \in Ports
    BY <2>1, PresentType DEF Row
  <2> QED
    BY <1>1, <2>1, <2>2, <2>3, NodeAtIsHolder
<1>6. OwnedKeyNotReclaimed'
  <2>1. Present' = Present /\ \A o : RowsOf(o)' = RowsOf(o)
    BY DEF Steady, RowsOf
  <2> QED
    BY <1>2, <2>1 DEF AlwaysInv, OwnedKeyNotReclaimed
<1> QED
  BY <1>3, <1>4, <1>5, <1>6 DEF AlwaysInv

\* Snapshots hold while the rows they know of stay.
LEMMA SteadySnapshots ==
  ASSUME TypeOK, AlwaysInv, Steady,
         del' = del \/ (del' = Nothing /\ op'.kind # "delete"),
         probe' \in {probe, Nothing},
         op'.kind = "delete" => op.kind = "delete" \/ del # Nothing
  PROVE  SnapshotsHold'
BY DEF AlwaysInv, SnapshotsHold, Steady

\* What ReloadRuntime does to the operation.
LEMMA ReloadRuntimeEffect ==
  ASSUME TypeOK, AlwaysInv, ReloadRuntime
  PROVE  /\ op.kind # "none" /\ op # NoOp /\ op.pc = "reload"
         /\ \/ /\ op'.kind = op.kind /\ op'.own = op.own /\ op'.nodes = op.nodes
               /\ op'.old = op.old /\ op'.changed = TRUE /\ op'.pc = AfterReload
               /\ del' = del
            \/ /\ faults' # 0
               /\ \/ op' = NoOp
                  \/ op'.kind = "probe" /\ op'.pc = "pick" /\ del' = del
<1> DEFINE ok == [op EXCEPT !.pc = AfterReload, !.target = {}, !.changed = TRUE]
<1> DEFINE err == IF op.kind = "probe" THEN [op EXCEPT !.pc = "pick"] ELSE NoOp
<1>1. op \in Op /\ op.kind # "none" /\ op # NoOp /\ op.pc = "reload"
  BY DEF AlwaysInv, BusyHasKind, ReloadRuntime, At, Idle, TypeOK
<1>2. /\ ok.kind = op.kind /\ ok.own = op.own /\ ok.nodes = op.nodes
      /\ ok.old = op.old /\ ok.changed = TRUE /\ ok.pc = AfterReload
  BY <1>1 DEF Op
<1>3. err = NoOp \/ (err.kind = "probe" /\ err.pc = "pick")
  BY <1>1 DEF Op
<1>4. Reload(op.target, ok, err) /\ Release
  BY DEF ReloadRuntime
<1> HIDE DEF ok, err
<1>5. op' = ok \/ (op' = err /\ Fault("reload"))
  BY <1>4 DEF Reload
<1>6. op'.kind # "none" => del' = del
  BY <1>4, NoOpType DEF Release
<1>7. Fault("reload") => faults' # 0
  BY FaultType
<1> QED
  BY <1>1, <1>2, <1>3, <1>5, <1>6, <1>7, SMT

\* The steps that call Reload.
LEMMA ReloadAlways ==
  ASSUME TypeOK, AlwaysInv, ReloadRuntime \/ Undo
  PROVE  AlwaysInv'
<1>1. CASE Undo
  <2>1. op' = NoOp /\ Release /\ UNCHANGED <<rows, probe>>
    BY <1>1 DEF Undo, Reload
  <2>2. del' = del \/ del' = Nothing
    BY <2>1 DEF Release
  <2>3. SnapshotsHold'
    BY <2>1, <2>2, NoOpType, UnchangedSteady, SteadySnapshots
  <2> QED
    BY <2>1, <2>3, IdleAlways
<1>2. CASE ReloadRuntime
  <2>0. UNCHANGED <<rows, probe>> /\ Release
    BY <1>2 DEF ReloadRuntime
  <2>1. CASE op' = NoOp
    <3>1. del' = del \/ del' = Nothing
      BY <2>0 DEF Release
    <3>2. SnapshotsHold'
      BY <2>0, <2>1, <3>1, NoOpType, UnchangedSteady, SteadySnapshots
    <3> QED
      BY <2>1, <3>2, IdleAlways
  <2>2. CASE op' # NoOp
    <3>1. /\ op.kind # "none"
          /\ \/ op'.kind = op.kind /\ op'.nodes = op.nodes /\ op'.pc = AfterReload /\ del' = del
             \/ op'.kind = "probe" /\ op'.pc = "pick" /\ del' = del
      BY <1>2, <2>2, ReloadRuntimeEffect
    <3>2. SnapshotsHold'
      BY <2>0, <3>1, UnchangedSteady, SteadySnapshots
    <3>3. op'.pc \in {"accept", "commit", "pick"} /\ (op'.pc = "commit" => op'.nodes = {})
      BY <3>1 DEF AfterReload
    <3>4. BusyHasKind'
      BY <3>1 DEF BusyHasKind, Idle
    <3> QED
      BY <3>2, <3>3, <3>4
         DEF AlwaysInv, MapMatchesRuntime, CommitMatchesRuntime, OwnedKeyNotReclaimed, At
  <2> QED
    BY <2>1, <2>2
<1> QED
  BY <1>1, <1>2

\* A refused transaction.
LEMMA CommitRefusedAlways ==
  ASSUME TypeOK, AlwaysInv, At("commit"), CommitRefused
  PROVE  AlwaysInv'
<1>0. op.kind # "none" /\ UNCHANGED <<rows, probe>> /\ Release
  BY DEF At, AlwaysInv, BusyHasKind, CommitRefused
<1>1. CASE op' = NoOp
  <2>1. del' = del \/ del' = Nothing
    BY <1>0 DEF Release
  <2>2. SnapshotsHold'
    BY <1>0, <1>1, <2>1, NoOpType, UnchangedSteady, SteadySnapshots
  <2> QED
    BY <1>1, <2>2, IdleAlways
<1>2. CASE op' # NoOp
  <2>1. op'.kind = op.kind /\ op'.pc = "undo" /\ del' = del
    BY <1>0, <1>2, UndoingType DEF CommitRefused, Release
  <2>2. SnapshotsHold'
    BY <1>0, <2>1, UnchangedSteady, SteadySnapshots
  <2> QED
    BY <1>0, <2>1, <2>2
       DEF AlwaysInv, BusyHasKind, Idle, MapMatchesRuntime, CommitMatchesRuntime, OwnedKeyNotReclaimed, At
<1> QED
  BY <1>1, <1>2

\* What Accept does to the operation.
LEMMA AcceptEffect ==
  ASSUME TypeOK, Accept
  PROVE  \/ /\ op'.kind = op.kind /\ op'.own = op.own /\ op'.old = op.old
            /\ op'.changed = op.changed /\ op'.pc = "commit"
            /\ op'.nodes = op.nodes \cap Loaded
            /\ \A k \in op'.nodes : op'.map[k] = ports[k]
         \/ op' = Undoing /\ op.nodes \cap Loaded # op.nodes
<1> DEFINE accepted == op.nodes \cap Loaded
<1> DEFINE m == [k \in Keys |-> IF k \in accepted THEN ports[k] ELSE NoPort]
<1>1. op \in Op /\ accepted \in SUBSET Keys
  BY RuntimeNames DEF TypeOK
<1>2. \A k \in accepted : m[k] = ports[k]
  BY <1>1
<1>3. \/ op' = [op EXCEPT !.pc = "commit", !.nodes = accepted, !.map = m]
      \/ op' = Undoing /\ accepted # op.nodes
  BY DEF Accept
<1> HIDE DEF accepted, m
<1>4. op' = [op EXCEPT !.pc = "commit", !.nodes = accepted, !.map = m] =>
            /\ op'.kind = op.kind /\ op'.own = op.own /\ op'.old = op.old
            /\ op'.changed = op.changed /\ op'.pc = "commit"
            /\ op'.nodes = accepted /\ op'.map = m
  BY <1>1 DEF Op
<1> QED
  BY <1>2, <1>3, <1>4 DEF accepted

\* Accept.
LEMMA AcceptAlways ==
  ASSUME TypeOK, AlwaysInv, Accept
  PROVE  AlwaysInv'
<1>0. op.kind # "none" /\ UNCHANGED <<rows, ports, del, probe>>
  BY DEF Accept, At, AlwaysInv, BusyHasKind
<1>1. op'.kind = op.kind /\ op'.pc \in {"commit", "undo"}
  BY AcceptEffect, UndoingType
<1>2. SnapshotsHold'
  BY <1>0, <1>1, UnchangedSteady, SteadySnapshots
<1>3. ASSUME op'.pc = "commit", NEW k \in op'.nodes
      PROVE  op'.map[k] \in Ports /\ Holder(ports', op'.map[k]) \in {k, NoKey}
  <2>1. op'.map[k] = ports[k] /\ k \in Keys /\ ports[k] # NoPort
    BY <1>3, AcceptEffect, UndoingType, RuntimeNames
  <2>2. ports[k] \in Ports
    BY <2>1, PortMapFacts DEF TypeOK
  <2> QED
    BY <1>0, <2>1, <2>2, NodeAtIsHolder, HolderFacts DEF TypeOK
<1>4. MapMatchesRuntime'
  BY <1>3, NodeAtIsHolder DEF MapMatchesRuntime, At
<1> QED
  BY <1>0, <1>1, <1>2, <1>4
     DEF AlwaysInv, BusyHasKind, Idle, CommitMatchesRuntime, OwnedKeyNotReclaimed, At

\* The steps that take refreshMu.
LEMMA StartAlways ==
  ASSUME TypeOK, AlwaysInv,
         \/ \E s \in Subs : \/ DeleteSubscription(s)
                            \/ \E fetched \in SUBSET Keys : RefreshSubscription(s, fetched)
         \/ DeleteProxy
         \/ \E k \in Keys : AddManualNode(k)
         \/ ProbeDisabled
  PROVE  AlwaysInv'
<1>0. UNCHANGED <<rows, ports, del, probe>>
  BY DEF DeleteSubscription, RefreshSubscription, DeleteProxy, AddManualNode, ProbeDisabled
<1>a. Present' = Present /\ \A o : RowsOf(o)' = RowsOf(o)
  BY <1>0 DEF Present, RowsOf
<1> DEFINE Keeps(mine) ==
      op'.pc = "reload" =>
        \A k \in op'.old \ op'.target : (\E s \in Present \ mine : s[2] = k) => k \in evicted'
<1>1. ASSUME op'.kind \notin {"none", "delete"}, op'.pc \in {"reload", "commit", "pick"},
             op'.pc = "commit" => op'.nodes = {},
             op'.kind \in {"refresh", "drop"} => Keeps(RowsOf(op'.own)),
             op'.kind \notin {"refresh", "drop", "delete"} => Keeps({})
      PROVE  AlwaysInv'
  <2>1. SnapshotsHold'
    BY <1>0, <1>1, UnchangedSteady, SteadySnapshots
  <2>2. OwnedKeyNotReclaimed'
    <3> SUFFICES ASSUME op'.pc = "reload", NEW k \in op'.old \ op'.target
                 PROVE  LET mine == CASE op'.kind \in {"refresh", "drop"} -> RowsOf(op'.own)
                                      [] op'.kind = "delete" -> {del'.ref}
                                      [] OTHER -> {}
                        IN (\E s \in Present \ mine : s[2] = k) => k \in evicted'
      BY <1>a DEF OwnedKeyNotReclaimed, At
    <3> QED
      BY <1>1
  <2>3. BusyHasKind'
    BY <1>1 DEF BusyHasKind
  <2> QED
    BY <1>1, <2>1, <2>2, <2>3 DEF AlwaysInv, MapMatchesRuntime, CommitMatchesRuntime, At
<1>2. ASSUME NEW s \in Subs, NEW fetched \in SUBSET Keys, RefreshSubscription(s, fetched)
      PROVE  AlwaysInv'
  <2>1. op'.kind = "refresh" /\ op'.own = s
        /\ (op'.pc = "reload" \/ (op'.pc = "commit" /\ op'.nodes = {}))
    BY <1>2, RefreshEffect
  <2>2. Keeps(RowsOf(s))
    <3> SUFFICES ASSUME op'.pc = "reload", NEW k \in op'.old \ op'.target,
                        \E t \in Present \ RowsOf(s) : t[2] = k
                 PROVE  k \in evicted'
      OBVIOUS
    <3>1. /\ op'.old = Loaded /\ op'.target = CollectedKeys(ReclaimableKeys(s)) \cup fetched
          /\ evicted' = (evicted \cup LapsedKeys) \ fetched
      BY <1>2, RefreshEffect
    <3>2. k \notin ReclaimableKeys(s)
      BY DEF ReclaimableKeys, OwnedOutside
    <3> QED
      BY <3>1, <3>2 DEF CollectedKeys
  <2> QED
    BY <1>1, <2>1, <2>2
<1>3. ASSUME NEW s \in Subs, DeleteSubscription(s)
      PROVE  AlwaysInv'
  <2>1. /\ op'.kind = "drop" /\ op'.own = s /\ op'.nodes = {} /\ op'.pc \in {"reload", "commit"}
        /\ op'.old = Loaded /\ op'.target = Loaded \ ReclaimableKeys(s)
    BY <1>3, DropEffect
  <2>2. Keeps(RowsOf(s))
    BY <2>1 DEF ReclaimableKeys, OwnedOutside
  <2> QED
    BY <1>1, <2>1, <2>2
<1>4. ASSUME NEW k \in Keys, AddManualNode(k)
      PROVE  AlwaysInv'
  <2>1. /\ op'.kind = "manual" /\ op'.pc = "reload"
        /\ op'.old = Loaded /\ op'.target = CollectedKeys({}) \cup {k}
    BY <1>4, ManualEffect
  <2>2. evicted' = evicted \cup LapsedKeys
    BY <1>4 DEF AddManualNode
  <2>3. Keeps({})
    BY <2>1, <2>2 DEF CollectedKeys
  <2> QED
    BY <1>1, <2>1, <2>3
<1>5. CASE ProbeDisabled
  <2>1. /\ op'.kind = "probe" /\ op'.pc \in {"reload", "pick"} /\ op'.old = {}
    BY <1>5, ProbeEffect
  <2> QED
    BY <1>1, <2>1
<1>6. CASE DeleteProxy
  <2>1. /\ op'.kind = "delete" /\ op'.nodes = {} /\ op'.pc \in {"reload", "commit"}
        /\ op'.old = Loaded /\ op'.target = Loaded \ {RemoveKey}
        /\ op'.pc = "reload" => ~OwnedOutside(RemoveKey, {del.ref})
    BY <1>6, DeleteEffect
  <2>2. del # Nothing
    BY <1>6 DEF DeleteProxy
  <2>3. SnapshotsHold'
    BY <1>0, <2>1, <2>2, UnchangedSteady, SteadySnapshots
  <2>4. Keeps({del.ref})
    BY <2>1 DEF OwnedOutside
  <2>5. OwnedKeyNotReclaimed'
    <3> SUFFICES ASSUME op'.pc = "reload", NEW k \in op'.old \ op'.target
                 PROVE  (\E s \in Present \ {del.ref} : s[2] = k) => k \in evicted'
      BY <1>0, <1>a, <2>1 DEF OwnedKeyNotReclaimed, At
    <3> QED
      BY <2>4
  <2>6. BusyHasKind'
    BY <2>1 DEF BusyHasKind
  <2> QED
    BY <2>1, <2>3, <2>5, <2>6 DEF AlwaysInv, MapMatchesRuntime, CommitMatchesRuntime, At
<1> QED
  BY <1>2, <1>3, <1>4, <1>5, <1>6

\* Snapshots of rows that vanish are given up.
LEMMA VanishSnapshots ==
  ASSUME TypeOK, SnapshotsHold, NEW gone \in SUBSET Present,
         Present \ gone \subseteq Present',
         del' \in {Follow(del, gone), Nothing}, probe' = Forget(probe, gone),
         op'.kind # "delete"
  PROVE  SnapshotsHold'
<1>1. del # Nothing => [del EXCEPT !.ref = Gone].ref = Gone
  BY DEF TypeOK, Snapshot
<1>2. del' # Nothing /\ del'.ref # Gone => del'.ref \in Present'
  BY <1>1 DEF Follow, SnapshotsHold
<1>3. probe' # Nothing => probe'.ref \in Present'
  BY DEF Forget, SnapshotsHold
<1> QED
  BY <1>2, <1>3 DEF SnapshotsHold

\* The transaction of a refresh.
LEMMA ReplaceAlways ==
  ASSUME TypeOK, AlwaysInv, ReplaceSubscriptionProxies
  PROVE  AlwaysInv'
<1> DEFINE gone == {s \in RowsOf(op.own) : s[2] \notin op.nodes}
<1>0. MapMatchesRuntime /\ SnapshotsHold /\ At("commit") /\ UNCHANGED ports
  BY DEF AlwaysInv, ReplaceSubscriptionProxies
<1>1. /\ \A s \in Slots : s[1] # op.own => rows'[s] = rows[s]
      /\ \A s \in Slots : s[1] = op.own /\ s[2] \in op.nodes =>
           rows'[s] \in Row /\ rows'[s].port = op.map[s[2]]
      /\ op.nodes = {} => op' = NoOp
      /\ op.nodes # {} =>
           /\ op'.kind = "refresh" /\ op'.pc = "validate" /\ op'.own = op.own
           /\ op'.todo = op.nodes /\ op'.nodes = {}
  BY <1>0, ReplaceEffect
<1>2. gone \in SUBSET Present /\ Present \ gone \subseteq Present'
  BY <1>1, RowIsThere DEF RowsOf, Present
<1>3. op'.kind # "delete"
  BY <1>1, NoOpType
<1>4. SnapshotsHold'
  <2>1. del' = Follow(del, gone) /\ probe' = Forget(probe, gone)
    BY DEF ReplaceSubscriptionProxies, RowsVanish
  <2> HIDE DEF gone
  <2> QED
    BY <1>0, <1>2, <1>3, <2>1, VanishSnapshots
<1>5. CASE op' = NoOp
  BY <1>4, <1>5, IdleAlways
<1>6. CASE op' # NoOp
  <2>1. ASSUME NEW k \in op'.todo
        PROVE  /\ <<op'.own, k>> \in Present'
               /\ Holder(ports', rows'[<<op'.own, k>>].port) \in {k, NoKey}
    <3> DEFINE s == <<op.own, k>>
    <3>1. k \in op.nodes /\ op'.own = op.own
      BY <1>1, <1>6, <2>1
    <3>2. s \in Slots /\ s[1] = op.own /\ s[2] = k
      BY <3>1 DEF TypeOK, Op, Slots
    <3>3. rows'[s] \in Row /\ rows'[s].port = op.map[k]
      BY <1>1, <3>1, <3>2
    <3>4. s \in Present'
      BY <3>2, <3>3, RowIsThere DEF Present
    <3>5. Holder(ports, op.map[k]) \in {k, NoKey}
      BY <1>0, <3>1, NodeAtIsHolder DEF MapMatchesRuntime
    <3> QED
      BY <1>0, <3>1, <3>3, <3>4, <3>5
  <2>2. CommitMatchesRuntime'
    BY <2>1, NodeAtIsHolder DEF CommitMatchesRuntime
  <2> QED
    BY <1>1, <1>4, <1>6, <2>2
       DEF AlwaysInv, BusyHasKind, MapMatchesRuntime, OwnedKeyNotReclaimed, At
<1> QED
  BY <1>5, <1>6

\* The transaction that deletes a subscription.
LEMMA DropRowsAlways ==
  ASSUME TypeOK, AlwaysInv, DropSubscriptionRows
  PROVE  AlwaysInv'
<1>1. \A s \in Slots : rows'[s] = IF s[1] = op.own THEN NoRow ELSE rows[s]
  BY DropRowsType
<1>2. /\ del' = Follow(del, RowsOf(op.own)) /\ probe' = Forget(probe, RowsOf(op.own))
      /\ op' = NoOp
  BY DEF DropSubscriptionRows, RowsVanish
<1>3. RowsOf(op.own) \in SUBSET Present /\ Present \ RowsOf(op.own) \subseteq Present'
  BY <1>1 DEF RowsOf, Present
<1>4. SnapshotsHold
  BY DEF AlwaysInv
<1>5. SnapshotsHold'
  BY <1>2, <1>3, <1>4, VanishSnapshots, NoOpType
<1> QED
  BY <1>2, <1>5, IdleAlways

\* The transaction that deletes one row.
LEMMA DeleteRowAlways ==
  ASSUME TypeOK, AlwaysInv, DeleteProxyRow
  PROVE  AlwaysInv'
<1>1. CASE CommitRefused
  BY <1>1, CommitRefusedAlways DEF DeleteProxyRow
<1>2. CASE /\ del.ref # Gone
           /\ rows' = [rows EXCEPT ![del.ref] = NoRow]
           /\ probe' = Forget(probe, {del.ref})
           /\ del' = Nothing
           /\ op' = NoOp
  <2>1. SnapshotsHold /\ del # Nothing
    BY DEF AlwaysInv, SnapshotsHold, DeleteProxyRow
  <2>2. {del.ref} \in SUBSET Present
    BY <1>2, <2>1 DEF SnapshotsHold
  <2>3. Present \ {del.ref} \subseteq Present'
    BY <1>2 DEF Present, TypeOK
  <2>4. SnapshotsHold'
    BY <1>2, <2>1, <2>2, <2>3, VanishSnapshots, NoOpType
  <2> QED
    BY <1>2, <2>4, IdleAlways
<1> QED
  BY <1>1, <1>2 DEF DeleteProxyRow

\* A snapshot follows the row whose key is overwritten; any other row stays.
LEMMA RenamedFacts ==
  ASSUME TypeOK, NEW kinds \in {{"delete"}, {"disabled", "test"}},
         NEW snap \in Snapshot(kinds) \cup {Nothing},
         snap # Nothing /\ snap.ref # Gone => snap.ref \in Present,
         NEW me \in Slots, NEW p \in Ports
  PROVE  LET n == Renamed(snap, me, p)
         IN /\ n = Nothing <=> snap = Nothing
            /\ n # Nothing /\ n.ref # Gone =>
                 \/ n.ref = me
                 \/ n.ref \in Present /\ n.ref \in Slots /\ WithManual(me, p)[n.ref] = rows[n.ref]
<1> DEFINE n == Renamed(snap, me, p)
<1>1. CASE snap # Nothing /\ me \notin Present /\ snap.ref \in ManualAt(p)
  <2>1. n = [snap EXCEPT !.ref = me] /\ snap \in Snapshot(kinds)
    BY <1>1 DEF Renamed
  <2>2. n \in Snapshot(kinds) /\ n.ref = me
    BY <2>1 DEF Snapshot
  <2>3. n # Nothing
    BY <2>2 DEF Snapshot, Nothing
  <2> QED
    BY <1>1, <2>2, <2>3
<1>2. CASE ~(snap # Nothing /\ me \notin Present /\ snap.ref \in ManualAt(p))
  <2>1. n = snap
    BY <1>2 DEF Renamed
  <2>2. ASSUME snap # Nothing, snap.ref # Gone, snap.ref # me
        PROVE  snap.ref \in Slots /\ WithManual(me, p)[snap.ref] = rows[snap.ref]
    <3>1. snap.ref \in Slots \ {me}
      BY <2>2 DEF Present
    <3> QED
      BY <1>2, <2>2, <3>1, WithManualFacts
  <2> QED
    BY <2>1, <2>2
<1> QED
  BY <1>1, <1>2

\* The transaction of a manual node.
LEMMA StoreAlways ==
  ASSUME TypeOK, AlwaysInv, StoreManualNode
  PROVE  AlwaysInv'
<1>0. /\ MapMatchesRuntime /\ SnapshotsHold /\ At("commit") /\ op.kind = "manual"
      /\ op \in Op
  BY DEF AlwaysInv, StoreManualNode, TypeOK
<1>1. PICK k \in op.nodes :
           LET me == <<Manual, k>>
               p == op.map[k]
               new == WithManual(me, p)
           IN /\ k \in Keys /\ me \in Slots /\ p \in Ports
              /\ \/ CommitRefused
                 \/ /\ rows' = [new EXCEPT ![me] = NoRow]
                    /\ del' = Follow(Renamed(del, me, p), {me})
                    /\ probe' = Forget(Renamed(probe, me, p), {me})
                    /\ op' = Undoing
                 \/ /\ rows' = new
                    /\ del' = Renamed(del, me, p)
                    /\ probe' = Renamed(probe, me, p)
                    /\ op' = NoOp
  BY <1>0, StoreEffect, Zenon
<1> DEFINE me == <<Manual, k>>
<1> DEFINE p == op.map[k]
<1> DEFINE new == WithManual(me, p)
<1> DEFINE d == Renamed(del, me, p)
<1> DEFINE b == Renamed(probe, me, p)
<1>2. /\ me \in Slots /\ p \in Ports
      /\ new \in [Slots -> Row \cup {NoRow}] /\ new[me] # NoRow
  BY <1>1, WithManualFacts, RowIsThere
<1>3. d # Nothing /\ d.ref # Gone => d.ref = me \/ (d.ref \in Present /\ d.ref \in Slots /\ new[d.ref] = rows[d.ref])
  BY <1>0, <1>2, RenamedFacts DEF SnapshotsHold, TypeOK
<1>4. b # Nothing => b.ref = me \/ (b.ref \in Present /\ b.ref \in Slots /\ new[b.ref] = rows[b.ref])
  <2>1. probe # Nothing => probe.ref \in Present /\ probe.ref # Gone
    BY <1>0, TunnelAssumption DEF SnapshotsHold, Present
  <2>2. b # Nothing => b.ref # Gone
    <3>1. CASE b = probe
      BY <2>1, <3>1
    <3>2. CASE probe \in Snapshot({"disabled", "test"}) /\ b = [probe EXCEPT !.ref = me]
      BY <3>2, <1>2, TunnelAssumption DEF Snapshot
    <3> QED
      BY <3>1, <3>2 DEF Renamed, TypeOK
  <2> QED
    BY <1>2, <2>1, <2>2, RenamedFacts DEF TypeOK
<1>5. /\ d \in Snapshot({"delete"}) \cup {Nothing}
      /\ b \in Snapshot({"disabled", "test"}) \cup {Nothing}
  BY <1>2, RenamedType DEF TypeOK
<1>6. \A s \in Present : rows[s] # NoRow
  BY DEF Present
<1> HIDE DEF d, b, new, me, p
<1>7. CASE CommitRefused
  BY <1>0, <1>7, CommitRefusedAlways
<1>8. CASE /\ rows' = [new EXCEPT ![me] = NoRow]
           /\ del' = Follow(d, {me})
           /\ probe' = Forget(b, {me})
           /\ op' = Undoing
  <2>1. op'.kind = "manual" /\ op'.pc = "undo"
    BY <1>0, <1>8, UndoingType
  <2>2. \A s \in Present : s \in Slots /\ s # me /\ new[s] = rows[s] => s \in Present'
    BY <1>2, <1>6, <1>8 DEF Present
  <2>3. d # Nothing => [d EXCEPT !.ref = Gone].ref = Gone
    BY <1>5 DEF Snapshot
  <2>4. del' # Nothing /\ del'.ref # Gone => del'.ref \in Present'
    BY <1>3, <1>8, <2>2, <2>3 DEF Follow
  <2>5. probe' # Nothing => probe'.ref \in Present'
    BY <1>4, <1>8, <2>2 DEF Forget
  <2> QED
    BY <2>1, <2>4, <2>5 DEF AlwaysInv, BusyHasKind, SnapshotsHold, MapMatchesRuntime,
       CommitMatchesRuntime, OwnedKeyNotReclaimed, At
<1>9. CASE /\ rows' = new /\ del' = d /\ probe' = b /\ op' = NoOp
  <2>1. me \in Present'
    BY <1>2, <1>9 DEF Present
  <2>2. \A s \in Present : s \in Slots /\ new[s] = rows[s] => s \in Present'
    BY <1>6, <1>9 DEF Present
  <2>3. SnapshotsHold'
    BY <1>3, <1>4, <1>9, <2>1, <2>2, NoOpType DEF SnapshotsHold
  <2> QED
    BY <1>9, <2>3, IdleAlways
<1> QED
  BY <1>1, <1>7, <1>8, <1>9 DEF d, b, new, me, p

\* What is read of a row is read of one that is there.
LEMMA ReadFacts ==
  ASSUME NEW s, NEW kind
  PROVE  /\ Read(kind, s) # Nothing
         /\ Read(kind, s).ref = s /\ Read(kind, s).port = rows[s].port
         /\ Read(kind, s).pc = "dial"
BY DEF Read, Nothing

\* Validations, probes and the surroundings.
LEMMA BesideAlways ==
  ASSUME TypeOK, AlwaysInv,
         \/ \E k \in Keys : ValidateRow(k)
         \/ \E s \in Slots : ReadForDeletion(s) \/ StartTest(s) \/ Lapse(s)
         \/ PickDisabled \/ Dial \/ WriteDisabled \/ WriteTest
         \/ \E s \in Subs : AddSubscription(s)
         \/ WatchLoop \/ Restart
  PROVE  AlwaysInv'
<1>0. CommitMatchesRuntime /\ SnapshotsHold
  BY DEF AlwaysInv
<1>1. ASSUME NEW k \in Keys, ValidateRow(k) PROVE AlwaysInv'
  <2>1. /\ Takes(<<op.own, k>>, NodeAt(rows[<<op.own, k>>].port))
        /\ op' = NoOp \/ /\ op'.kind = op.kind /\ op'.pc = op.pc /\ op'.own = op.own
                         /\ op'.todo \subseteq op.todo
    BY <1>0, <1>1, ValidateEffect
  <2>2. Steady
    BY <2>1, TakesSteady
  <2>3. At("validate") /\ UNCHANGED <<ports, del, probe>>
    BY <1>1 DEF ValidateRow
  <2>4. SnapshotsHold'
    BY <2>1, <2>2, <2>3, NoOpType, SteadySnapshots
  <2>5. CASE op' = NoOp
    BY <2>4, <2>5, IdleAlways
  <2>6. CASE op' # NoOp
    <3>0. op'.kind = op.kind /\ op'.pc = "validate" /\ op'.own = op.own /\ op'.todo \subseteq op.todo
      BY <2>1, <2>3, <2>6 DEF At
    <3>1. BusyHasKind'
      BY <2>3, <3>0 DEF AlwaysInv, BusyHasKind, At
    <3>2. ASSUME NEW j \in op'.todo
          PROVE  /\ <<op'.own, j>> \in Present'
                 /\ Holder(ports', rows'[<<op'.own, j>>].port) \in {j, NoKey}
      <4>1. <<op.own, j>> \in Present /\ Holder(ports, rows[<<op.own, j>>].port) \in {j, NoKey}
        BY <1>0, <2>3, <3>0, <3>2, NodeAtIsHolder DEF CommitMatchesRuntime
      <4> QED
        BY <2>2, <2>3, <3>0, <4>1 DEF Steady
    <3>3. CommitMatchesRuntime'
      BY <3>2, NodeAtIsHolder DEF CommitMatchesRuntime
    <3> QED
      BY <2>4, <3>0, <3>1, <3>3 DEF AlwaysInv, MapMatchesRuntime, OwnedKeyNotReclaimed, At
  <2> QED
    BY <2>5, <2>6
<1>2. ASSUME NEW s \in Slots, ReadForDeletion(s) PROVE AlwaysInv'
  <2>1. del = Nothing /\ s \in Present /\ del' = Read("delete", s) /\ UNCHANGED <<rows, ports, evicted, op, probe>>
    BY <1>2 DEF ReadForDeletion
  <2>2. Steady
    BY <2>1, UnchangedSteady
  <2>3. SnapshotsHold'
    BY <1>0, <2>1, <2>2, ReadFacts DEF SnapshotsHold, Steady
  <2>4. op.kind # "delete"
    BY <1>0, <2>1 DEF SnapshotsHold
  <2> QED
    BY <2>1, <2>2, <2>3, <2>4, AsideAlways
<1>3. ASSUME NEW s \in Slots, StartTest(s) PROVE AlwaysInv'
  <2>1. s \in Present /\ probe' = Read("test", s) /\ UNCHANGED <<rows, ports, evicted, op, del>>
    BY <1>3 DEF StartTest
  <2>2. Steady
    BY <2>1, UnchangedSteady
  <2>3. SnapshotsHold'
    BY <1>0, <2>1, <2>2, ReadFacts DEF SnapshotsHold, Steady
  <2> QED
    BY <2>1, <2>2, <2>3, AsideAlways
<1>4. ASSUME NEW s \in Slots, Lapse(s) PROVE AlwaysInv'
  <2>1. UNCHANGED <<ports, evicted, op, del, probe>> /\ Steady
    BY <1>4, LapseEffect, LapseSteady
  <2>2. SnapshotsHold'
    BY <2>1, SteadySnapshots
  <2> QED
    BY <2>1, <2>2, AsideAlways
<1>5. CASE PickDisabled
  <2>1. UNCHANGED <<rows, del>> /\ op' = NoOp
    BY <1>5 DEF PickDisabled
  <2>2. probe' = probe \/ \E s \in Present : probe' = Read("disabled", s)
    BY <1>5 DEF PickDisabled
  <2>3. Present' = Present
    BY <2>1 DEF Present
  <2>4. SnapshotsHold'
    BY <1>0, <2>1, <2>2, <2>3, ReadFacts, NoOpType DEF SnapshotsHold
  <2> QED
    BY <2>1, <2>4, IdleAlways
<1>6. CASE Dial
  <2>1. UNCHANGED <<rows, ports, evicted, op, del>> /\ probe # Nothing
    BY <1>6 DEF Dial
  <2>2. probe' = [probe EXCEPT !.pc = "write", !.seen = NodeAt(probe.port)]
    BY <1>6 DEF Dial
  <2>3. probe'.ref = probe.ref
    BY <2>1, <2>2 DEF TypeOK, Snapshot
  <2>4. Steady
    BY <2>1, UnchangedSteady
  <2>5. SnapshotsHold'
    BY <1>0, <2>1, <2>3, <2>4 DEF SnapshotsHold, Steady
  <2> QED
    BY <2>1, <2>4, <2>5, AsideAlways
<1>7. CASE WriteDisabled \/ WriteTest
  <2>1. /\ probe' = Nothing /\ UNCHANGED <<ports, evicted, op, del>>
        /\ UNCHANGED rows \/ Takes(probe.ref, probe.seen)
    BY <1>7, WriteEffect
  <2>2. Steady
    BY <2>1, UnchangedSteady, TakesSteady
  <2>3. SnapshotsHold'
    BY <2>1, <2>2, SteadySnapshots
  <2> QED
    BY <2>1, <2>2, <2>3, AsideAlways
<1>8. ASSUME NEW s \in Subs, AddSubscription(s) PROVE AlwaysInv'
  <2>1. UNCHANGED <<rows, ports, evicted, op, del, probe>>
    BY <1>8 DEF AddSubscription
  <2>2. Steady
    BY <2>1, UnchangedSteady
  <2>3. SnapshotsHold'
    BY <2>1, <2>2, SteadySnapshots
  <2> QED
    BY <2>1, <2>2, <2>3, AsideAlways
<1>9. CASE WatchLoop
  <2>1. UNCHANGED <<rows, evicted, op, del, probe>> /\ ports' \in Runtime!Recovered(ports)
    BY <1>9 DEF WatchLoop
  <2>2. Steady
    BY <2>1, UnchangedSteady
  <2>3. SnapshotsHold'
    BY <2>1, <2>2, SteadySnapshots
  <2> QED
    BY <2>1, <2>2, <2>3, AsideAlways
<1>10. CASE Restart
  <2>1. op' = NoOp /\ del' = Nothing /\ probe' = Nothing
    BY <1>10 DEF Restart
  <2>2. SnapshotsHold'
    BY <2>1, NoOpType DEF SnapshotsHold
  <2> QED
    BY <2>1, <2>2, IdleAlways
<1> QED
  BY <1>1, <1>2, <1>3, <1>4, <1>5, <1>6, <1>7, <1>8, <1>9, <1>10

\* Every step keeps what always holds.
LEMMA AlwaysStep ==
  ASSUME TypeOK, AlwaysInv, [Next]_vars
  PROVE  AlwaysInv'
<1>1. CASE DatabaseFails
  BY <1>1, CommitRefusedAlways DEF DatabaseFails
<1>2. CASE UNCHANGED vars
  <2>1. UNCHANGED <<rows, ports, evicted, op, del, probe>>
    BY <1>2 DEF vars
  <2>2. Steady
    BY <2>1, UnchangedSteady
  <2>3. SnapshotsHold'
    BY <2>1, <2>2, SteadySnapshots
  <2> QED
    BY <2>1, <2>2, <2>3, AsideAlways
<1> QED
  BY <1>1, <1>2, ReloadAlways, AcceptAlways, StartAlways, ReplaceAlways,
     DropRowsAlways, DeleteRowAlways, StoreAlways, BesideAlways DEF Next

\* Init satisfies what always holds.
LEMMA AlwaysInit ==
  ASSUME Init
  PROVE  AlwaysInv
BY NoOpType DEF Init, AlwaysInv, BusyHasKind, SnapshotsHold, MapMatchesRuntime,
   CommitMatchesRuntime, OwnedKeyNotReclaimed, At, Idle

-----------------------------------------------------------------------------
(* As long as no fault has happened: the runtime holds what the rows need. *)

\* A reload that succeeds without refusals loads its target and moves nobody.
LEMMA CalmReload ==
  ASSUME TypeOK, faults = 0, faults' = 0, extra = {},
         NEW target \in SUBSET Keys, NEW ok, NEW err, Reload(target, ok, err)
  PROVE  /\ op' = ok /\ Loaded' = target /\ extra' = {}
         /\ \A k \in Loaded \cap Loaded' : ports'[k] = ports[k]
<1>1. ~Fault("reload") /\ ~Fault("reject")
  BY FaultType
<1>2. PICK new \in Runtime!Succeeded(ports, target) :
       /\ ports' = new
       /\ extra' = Runtime!ExtraAfter("reload", target, new)
       /\ op' = ok
       /\ target \ Runtime!Loaded(new) = {}
  BY <1>1 DEF Reload
<1>3. /\ Runtime!Loaded(new) \subseteq target
      /\ \A k \in Runtime!Loaded(new) : ports[k] # NoPort => new[k] = ports[k]
  BY RuntimeNames DEF Runtime!Succeeded, NoPort
<1>4. Runtime!Loaded(new) = Loaded'
  BY <1>2, RuntimeNames
<1>5. Loaded' = target
  BY <1>2, <1>3, <1>4
<1>6. \A k \in Loaded \cap Loaded' : ports'[k] = ports[k]
  BY <1>2, <1>3, <1>4, RuntimeNames
<1>7. extra' = {}
  BY <1>2 DEF Runtime!ExtraAfter
<1> QED
  BY <1>2, <1>5, <1>6, <1>7

\* A node that does not move is found on its row's port.
LEMMA RowReached ==
  ASSUME TypeOK, RowsInv, NEW s \in Present, s[2] \in Loaded
  PROVE  NodeAt(rows[s].port) = s[2] /\ ports[s[2]] = rows[s].port
<1>1. rows[s].port \in Ports /\ s[2] \in Keys
  BY PresentType DEF Row
<1>2. ports[s[2]] = rows[s].port
  BY DEF RowsInv
<1> QED
  BY <1>1, <1>2, NodeAtIsHolder, HolderFacts DEF TypeOK

\* Nothing has lapsed.
LEMMA NothingLapsed ==
  ASSUME RowsInv
  PROVE  LapsedKeys = {} /\ \A X : CollectedKeys(X) = Loaded \ X
<1>1. LapsedKeys = {}
  BY DEF RowsInv, LapsedKeys
<1> QED
  BY <1>1 DEF CollectedKeys, RowsInv

\* The needed nodes are a matter of the rows and of the operation.
LEMMA NeededSame ==
  ASSUME Present' = Present, op'.kind = op.kind, op'.own = op.own, op'.nodes = op.nodes,
         op.kind = "delete" => del' = del
  PROVE  Needed' = Needed
<1>1. \A o : RowsOf(o)' = RowsOf(o)
  BY DEF RowsOf
<1>2. RowsOf(op.own)' = RowsOf(op.own)
  BY <1>1 DEF RowsOf
<1>3. Mine' = Mine
  BY <1>2 DEF Mine
<1> QED
  BY <1>3 DEF Needed, Keyed

\* Nodes that are loaded anew have no rows.
LEMMA ReloadedRows ==
  ASSUME TypeOK, AlwaysInv, RowsInv, EvidenceInv, Keyed(Present) \subseteq Loaded,
         UNCHANGED <<rows, evicted, probe>>, del' \in {del, Nothing}, extra' = {},
         \A k \in Loaded \cap Loaded' : ports'[k] = ports[k]
  PROVE  RowsInv' /\ EvidenceInv'
<1>1. Present' = Present
  BY DEF Present
<1>2. \A s \in Present : s[2] \in Loaded
  BY DEF Keyed
<1>3. \A s \in Present : s[2] \in Loaded' => ports'[s[2]] = rows[s].port
  BY <1>2 DEF RowsInv
<1>4. RowsInv'
  BY <1>1, <1>3 DEF RowsInv
<1>5. EvidenceInv'
  BY <1>1, <1>2 DEF EvidenceInv, AlwaysInv, SnapshotsHold
<1> QED
  BY <1>4, <1>5

\* ReloadRuntime without a fault.
LEMMA ReloadRuntimeCalm ==
  ASSUME TypeOK, AlwaysInv, CalmInv, faults = 0, faults' = 0, ReloadRuntime
  PROVE  CalmInv'
<1>0. LoadedInv /\ OperationInv /\ RowsInv /\ EvidenceInv
  BY DEF CalmInv
<1>1. /\ At("reload") /\ op # NoOp /\ op.pc = "reload"
      /\ op'.kind = op.kind /\ op'.own = op.own /\ op'.nodes = op.nodes
      /\ op'.old = op.old /\ op'.changed = TRUE /\ op'.pc = AfterReload
      /\ del' = del
  BY ReloadRuntimeEffect DEF ReloadRuntime
<1>2. /\ Loaded = Keyed(Present) /\ op.kind # "probe" /\ op.target = Needed
      /\ op.old = Keyed(Present)
  BY <1>0, <1>1 DEF LoadedInv, OperationInv, Settled
<1>3. UNCHANGED <<rows, evicted, probe>>
  BY DEF ReloadRuntime
<1>4. /\ Loaded' = op.target /\ extra' = {}
      /\ \A k \in Loaded \cap Loaded' : ports'[k] = ports[k]
  <2> DEFINE ok == [op EXCEPT !.pc = AfterReload, !.target = {}, !.changed = TRUE]
  <2> DEFINE err == IF op.kind = "probe" THEN [op EXCEPT !.pc = "pick"] ELSE NoOp
  <2>1. Reload(op.target, ok, err) /\ op.target \in SUBSET Keys /\ extra = {}
    BY <1>0 DEF ReloadRuntime, TypeOK, Op, RowsInv
  <2> HIDE DEF ok, err
  <2> QED
    BY <2>1, CalmReload
<1>5. RowsInv' /\ EvidenceInv'
  BY <1>0, <1>1, <1>2, <1>3, <1>4, ReloadedRows
<1>6. Present' = Present /\ Keyed(Present)' = Keyed(Present)
  BY <1>3 DEF Present, Keyed
<1>7. Needed' = Needed
  BY <1>1, <1>6, NeededSame
<1>8. op'.pc \in {"accept", "commit"} /\ (op'.pc = "commit" => op'.nodes = {})
  BY <1>1, <1>2 DEF AfterReload
<1>9. op' # NoOp
  BY <1>1, <1>8, NoOpType
<1>10. LoadedInv'
  BY <1>1, <1>2, <1>4, <1>7, <1>8, <1>9 DEF LoadedInv, Settled, At, Idle
<1>11. OperationInv'
  BY <1>0, <1>1, <1>2, <1>6, <1>8 DEF OperationInv, At
<1> QED
  BY <1>5, <1>10, <1>11 DEF CalmInv

\* The operation of nobody carries nothing along.
LEMMA IdleCalm ==
  ASSUME op' = NoOp, (Loaded = Keyed(Present))'
  PROVE  LoadedInv' /\ OperationInv'
BY NoOpType DEF LoadedInv, OperationInv, Settled, At, Idle

\* Undo without a fault.
LEMMA UndoCalm ==
  ASSUME TypeOK, AlwaysInv, CalmInv, faults = 0, faults' = 0, Undo
  PROVE  CalmInv'
<1>0. LoadedInv /\ OperationInv /\ RowsInv /\ EvidenceInv
  BY DEF CalmInv
<1>1. At("undo") /\ Reload(op.old, NoOp, NoOp) /\ Release /\ UNCHANGED <<rows, evicted, probe>>
  BY DEF Undo
<1>2. op.old = Keyed(Present) /\ Keyed(Present) \subseteq Loaded
  BY <1>0, <1>1 DEF LoadedInv, OperationInv
<1>3. /\ op' = NoOp /\ Loaded' = op.old /\ extra' = {}
      /\ \A k \in Loaded \cap Loaded' : ports'[k] = ports[k]
  BY <1>0, <1>1, CalmReload DEF TypeOK, Op, RowsInv
<1>4. RowsInv' /\ EvidenceInv'
  BY <1>0, <1>1, <1>2, <1>3, ReleaseType, ReloadedRows
<1>5. Keyed(Present)' = Keyed(Present)
  BY <1>1 DEF Present, Keyed
<1> QED
  BY <1>2, <1>3, <1>4, <1>5, IdleCalm DEF CalmInv

\* Rows and snapshots that do not change keep what is known of them.
LEMMA SameRows ==
  ASSUME RowsInv, EvidenceInv, UNCHANGED <<rows, ports, extra, probe>>,
         evicted' = {}, del' \in {del, Nothing}
  PROVE  RowsInv' /\ EvidenceInv'
<1>1. Present' = Present /\ Loaded' = Loaded
  BY RuntimeNames DEF Present
<1> QED
  BY <1>1 DEF RowsInv, EvidenceInv

\* Accept: without a fault every node is.
LEMMA AcceptCalm ==
  ASSUME TypeOK, AlwaysInv, CalmInv, Accept
  PROVE  CalmInv'
<1>0. LoadedInv /\ OperationInv /\ RowsInv /\ EvidenceInv
  BY DEF CalmInv
<1>1. At("accept") /\ UNCHANGED <<rows, ports, extra, evicted, del, probe>>
  BY DEF Accept
<1>2. Loaded = Needed /\ op.old = Keyed(Present) /\ op.changed
  BY <1>0, <1>1 DEF LoadedInv, OperationInv
<1>3. op.nodes \cap Loaded = op.nodes
  BY <1>2 DEF Needed
<1>4. /\ op'.kind = op.kind /\ op'.own = op.own /\ op'.old = op.old
      /\ op'.changed = op.changed /\ op'.pc = "commit" /\ op'.nodes = op.nodes
      /\ \A k \in op'.nodes : op'.map[k] = ports[k]
  BY <1>3, AcceptEffect
<1>5. RowsInv' /\ EvidenceInv'
  BY <1>0, <1>1, SameRows DEF RowsInv
<1>6. Present' = Present /\ Keyed(Present)' = Keyed(Present) /\ Loaded' = Loaded
  BY <1>1, RuntimeNames DEF Present, Keyed
<1>7. Needed' = Needed
  BY <1>1, <1>4, <1>6, NeededSame
<1>8. op' # NoOp
  BY <1>4, NoOpType
<1>9. LoadedInv'
  BY <1>1, <1>2, <1>4, <1>6, <1>7, <1>8 DEF LoadedInv, Settled, At, Idle
<1>10. OperationInv'
  BY <1>0, <1>2, <1>4, <1>6 DEF OperationInv, At
<1> QED
  BY <1>5, <1>9, <1>10 DEF CalmInv

\* What is left when a subscription's own nodes are unloaded is what the other
\* rows need.
LEMMA ReclaimLeaves ==
  ASSUME TypeOK, Loaded = Keyed(Present), NEW o
  PROVE  Loaded \ ReclaimableKeys(o) = Keyed(Present \ RowsOf(o))
<1>1. ASSUME NEW k \in Loaded, k \notin ReclaimableKeys(o)
      PROVE  k \in Keyed(Present \ RowsOf(o))
  <2>1. PICK t \in Present : t[2] = k
    BY DEF Keyed
  <2>2. t[1] = o => t = <<o, k>>
    BY <2>1, PresentType DEF Slots
  <2>3. t[1] = o => OwnedOutside(k, RowsOf(o))
    BY <1>1, <2>1, <2>2 DEF ReclaimableKeys
  <2> QED
    BY <2>1, <2>3 DEF OwnedOutside, RowsOf, Keyed
<1>2. ASSUME NEW k \in Keyed(Present \ RowsOf(o))
      PROVE  k \in Loaded /\ k \notin ReclaimableKeys(o)
  BY <1>2 DEF Keyed, ReclaimableKeys, OwnedOutside
<1> QED
  BY <1>1, <1>2

\* A deletion finds its row's node, and unloads it exactly when nobody else needs it.
LEMMA RemoveLeaves ==
  ASSUME TypeOK, SnapshotsHold, RowsInv, Loaded = Keyed(Present), del # Nothing
  PROVE  Keyed(Present \ {del.ref}) =
           IF RemoveKey \in Loaded /\ ~OwnedOutside(RemoveKey, {del.ref})
           THEN Loaded \ {RemoveKey} ELSE Loaded
<1>1. CASE del.ref \notin Present
  <2>1. Present \ {del.ref} = Present
    BY <1>1
  <2>2. RemoveKey \in Loaded => OwnedOutside(RemoveKey, {del.ref})
    BY <2>1 DEF Keyed, OwnedOutside
  <2> QED
    BY <2>1, <2>2
<1>2. CASE del.ref \in Present
  <2>1. del.ref # Gone
    BY <1>2, TunnelAssumption DEF Present
  <2>2. del.port = rows[del.ref].port /\ del.ref[2] \in Loaded /\ del.ref[2] \in Keys
    BY <1>2, <2>1, PresentType DEF RowsInv, Keyed
  <2>3. NodeAt(del.port) = del.ref[2]
    BY <1>2, <2>2, RowReached
  <2>4. RemoveKey = del.ref[2]
    BY <2>2, <2>3, TunnelAssumption DEF RemoveKey
  <2>5. CASE OwnedOutside(RemoveKey, {del.ref})
    <3>1. \A k : k \in Keyed(Present) <=> k \in Keyed(Present \ {del.ref})
      BY <2>4, <2>5 DEF OwnedOutside, Keyed
    <3>2. Keyed(Present) = Keyed(Present \ {del.ref})
      BY <3>1, Zenon DEF Keyed
    <3> QED
      BY <2>5, <3>2
  <2>6. CASE ~OwnedOutside(RemoveKey, {del.ref})
    <3>1. \A k : k \in Keyed(Present) \ {RemoveKey} <=> k \in Keyed(Present \ {del.ref})
      BY <2>4, <2>6 DEF OwnedOutside, Keyed
    <3>2. Keyed(Present) \ {RemoveKey} = Keyed(Present \ {del.ref})
      BY <3>1
    <3> QED
      BY <2>2, <2>4, <2>6, <3>2
  <2> QED
    BY <2>5, <2>6
<1> QED
  BY <1>1, <1>2

\* The steps that take refreshMu, without a fault.
LEMMA StartCalm ==
  ASSUME TypeOK, AlwaysInv, CalmInv,
         \/ \E s \in Subs : \/ DeleteSubscription(s)
                            \/ \E fetched \in SUBSET Keys : RefreshSubscription(s, fetched)
         \/ DeleteProxy
         \/ \E k \in Keys : AddManualNode(k)
         \/ ProbeDisabled
  PROVE  CalmInv'
<1>0. LoadedInv /\ OperationInv /\ RowsInv /\ EvidenceInv /\ SnapshotsHold
  BY DEF CalmInv, AlwaysInv
<1>1. Idle /\ UNCHANGED <<rows, ports, extra, del, probe>>
  BY DEF DeleteSubscription, RefreshSubscription, DeleteProxy, AddManualNode, ProbeDisabled
<1>2. Loaded = Keyed(Present) /\ LapsedKeys = {} /\ evicted = {} /\ \A X : CollectedKeys(X) = Loaded \ X
  BY <1>0, <1>1, NothingLapsed DEF LoadedInv, Settled, RowsInv
<1>3. Present' = Present /\ Loaded' = Loaded /\ \A o : RowsOf(o)' = RowsOf(o)
  BY <1>1, RuntimeNames DEF Present, RowsOf
<1> DEFINE Prepared(mine) ==
      /\ evicted' = {} /\ Mine' = mine
      /\ op'.pc \in {"reload", "commit", "pick"} /\ op'.changed = FALSE
      /\ op'.pc = "reload" => /\ op'.kind # "probe" /\ op'.old = Loaded
                              /\ op'.target = Keyed(Present \ mine) \cup op'.nodes
      /\ op'.pc = "commit" => op'.nodes = {} /\ Keyed(Present \ mine) = Loaded
      /\ op'.kind \in {"drop", "delete"} => op'.nodes = {}
      /\ op'.kind = "manual" => op'.pc = "reload" /\ \A j, k \in op'.nodes : j = k
<1>4. ASSUME NEW mine, Prepared(mine)
      PROVE  CalmInv'
  <2>1. RowsInv' /\ EvidenceInv'
    BY <1>0, <1>1, <1>4, SameRows
  <2>2. Needed' = Keyed(Present \ mine) \cup op'.nodes /\ Keyed(Present)' = Keyed(Present)
    BY <1>3, <1>4 DEF Needed, Keyed
  <2>3. LoadedInv'
    BY <1>2, <1>3, <1>4, <2>2 DEF LoadedInv, Settled, At
  <2>4. OperationInv'
    BY <1>2, <1>4, <2>2 DEF OperationInv, At
  <2> QED
    BY <2>1, <2>3, <2>4 DEF CalmInv
<1>5. ASSUME NEW s \in Subs, NEW fetched \in SUBSET Keys, RefreshSubscription(s, fetched)
      PROVE  CalmInv'
  <2>1. /\ op'.kind = "refresh" /\ op'.own = s /\ op'.changed = FALSE
        /\ \/ /\ ReclaimableKeys(s) = {} /\ evicted' = evicted
              /\ op'.pc = "commit" /\ op'.nodes = {}
           \/ /\ op'.pc = "reload" /\ op'.nodes = fetched /\ op'.old = Loaded
              /\ op'.target = CollectedKeys(ReclaimableKeys(s)) \cup fetched
              /\ evicted' = (evicted \cup LapsedKeys) \ fetched
    BY <1>5, RefreshEffect
  <2>2. Mine' = RowsOf(s)
    BY <1>3, <2>1 DEF Mine, RowsOf
  <2>3. Loaded \ ReclaimableKeys(s) = Keyed(Present \ RowsOf(s))
    BY <1>2, ReclaimLeaves
  <2>4. evicted' = {}
    BY <1>2, <2>1
  <2> HIDE DEF Mine
  <2>5. CollectedKeys(ReclaimableKeys(s)) = Loaded \ ReclaimableKeys(s)
    BY <1>2
  <2>6. Prepared(RowsOf(s))
    BY <2>1, <2>2, <2>3, <2>4, <2>5
  <2> QED
    BY <1>4, <2>6
<1>6. ASSUME NEW s \in Subs, DeleteSubscription(s)
      PROVE  CalmInv'
  <2>1. /\ op'.kind = "drop" /\ op'.own = s /\ op'.nodes = {} /\ op'.changed = FALSE
        /\ op'.old = Loaded /\ op'.target = Loaded \ ReclaimableKeys(s)
        /\ op'.pc = IF ReclaimableKeys(s) = {} THEN "commit" ELSE "reload"
    BY <1>6, DropEffect
  <2>2. Mine' = RowsOf(s)
    BY <1>3, <2>1 DEF Mine, RowsOf
  <2>3. Loaded \ ReclaimableKeys(s) = Keyed(Present \ RowsOf(s))
    BY <1>2, ReclaimLeaves
  <2>4. evicted' = {}
    BY <1>2, <1>6 DEF DeleteSubscription
  <2>5. Prepared(RowsOf(s))
    BY <2>1, <2>2, <2>3, <2>4
  <2> QED
    BY <1>4, <2>5
<1>7. CASE DeleteProxy
  <2> DEFINE unload == RemoveKey \in Loaded /\ ~OwnedOutside(RemoveKey, {del.ref})
  <2>1. /\ op'.kind = "delete" /\ op'.nodes = {} /\ op'.changed = FALSE
        /\ op'.old = Loaded /\ op'.target = Loaded \ {RemoveKey}
        /\ op'.pc = IF unload THEN "reload" ELSE "commit"
    BY <1>7, DeleteEffect
  <2>2. Mine' = {del.ref}
    BY <1>1, <2>1 DEF Mine
  <2>3. Keyed(Present \ {del.ref}) = IF unload THEN Loaded \ {RemoveKey} ELSE Loaded
    BY <1>0, <1>2, <1>7, RemoveLeaves DEF DeleteProxy
  <2>4. evicted' = {}
    BY <1>2, <1>7 DEF DeleteProxy
  <2> HIDE DEF unload
  <2>5. Prepared({del.ref})
    BY <2>1, <2>2, <2>3, <2>4
  <2> QED
    BY <1>4, <2>5
<1>8. ASSUME NEW k \in Keys, AddManualNode(k)
      PROVE  CalmInv'
  <2>1. /\ op'.kind = "manual" /\ op'.pc = "reload" /\ op'.nodes = {k} /\ op'.changed = FALSE
        /\ op'.old = Loaded /\ op'.target = CollectedKeys({}) \cup {k}
    BY <1>8, ManualEffect
  <2>2. Mine' = {}
    BY <2>1 DEF Mine
  <2>3. evicted' = {} /\ CollectedKeys({}) = Keyed(Present \ {})
    BY <1>2, <1>8 DEF AddManualNode
  <2>4. Prepared({})
    BY <2>1, <2>2, <2>3
  <2> QED
    BY <1>4, <2>4
<1>9. CASE ProbeDisabled
  <2>1. op'.kind = "probe" /\ op'.pc = "pick" /\ op'.changed = FALSE /\ op'.nodes = {}
    BY <1>2, <1>9, ProbeEffect
  <2>2. evicted' = {}
    BY <1>2, <1>9 DEF ProbeDisabled
  <2>3. Prepared(Mine')
    BY <2>1, <2>2
  <2> QED
    BY <1>4, <2>3
<1> QED
  BY <1>5, <1>6, <1>7, <1>8, <1>9

\* A refused transaction, without a fault.
LEMMA CommitRefusedCalm ==
  ASSUME TypeOK, AlwaysInv, CalmInv, At("commit"), CommitRefused, Keyed(Present) \subseteq Loaded
  PROVE  CalmInv'
<1>0. LoadedInv /\ OperationInv /\ RowsInv /\ EvidenceInv
  BY DEF CalmInv
<1>1. UNCHANGED <<rows, ports, extra, evicted, probe>> /\ del' \in {del, Nothing}
  BY ReleaseType DEF CommitRefused
<1>2. RowsInv' /\ EvidenceInv'
  BY <1>0, <1>1, SameRows DEF RowsInv
<1>3. Keyed(Present)' = Keyed(Present) /\ Loaded' = Loaded
  BY <1>1, RuntimeNames DEF Present, Keyed
<1>4. CASE op.changed
  <2>1. op' = Undoing
    BY <1>4 DEF CommitRefused
  <2>2. op'.pc = "undo" /\ op'.old = op.old /\ op'.nodes = {} /\ op' # NoOp
    BY <2>1, UndoingType, NoOpType
  <2>3. op.old = Keyed(Present)
    BY <1>0, <1>4 DEF OperationInv
  <2>4. LoadedInv'
    BY <1>3, <2>2 DEF LoadedInv, Settled, At, Idle
  <2>5. OperationInv'
    BY <1>3, <2>2, <2>3 DEF OperationInv, At
  <2> QED
    BY <1>2, <2>4, <2>5 DEF CalmInv
<1>5. CASE ~op.changed
  <2>1. op' = NoOp /\ Loaded = Keyed(Present)
    BY <1>0, <1>5 DEF CommitRefused, LoadedInv
  <2> QED
    BY <1>2, <1>3, <2>1, IdleCalm DEF CalmInv
<1> QED
  BY <1>4, <1>5

\* What is known of rows and snapshots when some rows vanish, others are written
\* where they are, and nobody is loaded or unloaded.
LEMMA VanishCalm ==
  ASSUME TypeOK, AlwaysInv, RowsInv, EvidenceInv, UNCHANGED <<ports, extra, evicted>>, NEW gone,
         \A s \in Present \ gone : s \in Present' /\ rows'[s].port = rows[s].port,
         \A s \in Present' : /\ rows'[s].st # "lapsed"
                             /\ s[2] \in Loaded => ports[s[2]] = rows'[s].port
                             /\ rows'[s].astray => s[2] \notin Loaded,
         del' \in {Follow(del, gone), Nothing}, probe' \in {Forget(probe, gone), Nothing}
  PROVE  RowsInv' /\ EvidenceInv'
<1>0. Loaded' = Loaded /\ SnapshotsHold
  BY RuntimeNames DEF AlwaysInv
<1>1. del' # Nothing /\ del'.ref # Gone => del' = del /\ del.ref \in Present \ gone
  <2>1. del # Nothing => [del EXCEPT !.ref = Gone].ref = Gone
    BY DEF TypeOK, Snapshot
  <2> QED
    BY <1>0, <2>1 DEF Follow, SnapshotsHold
<1>2. probe' # Nothing => probe' = probe /\ probe.ref \in Present \ gone
  BY <1>0 DEF Forget, SnapshotsHold
<1>3. RowsInv'
  BY <1>0, <1>1, <1>2 DEF RowsInv
<1>4. EvidenceInv'
  BY <1>0, <1>2 DEF EvidenceInv
<1> QED
  BY <1>3, <1>4

\* The transaction of a refresh, without a fault.
LEMMA ReplaceCalm ==
  ASSUME TypeOK, AlwaysInv, CalmInv, ReplaceSubscriptionProxies
  PROVE  CalmInv'
<1> DEFINE gone == {s \in RowsOf(op.own) : s[2] \notin op.nodes}
<1>0. /\ LoadedInv /\ OperationInv /\ RowsInv /\ EvidenceInv /\ MapMatchesRuntime
      /\ At("commit") /\ op.kind = "refresh" /\ UNCHANGED <<ports, extra, evicted>>
      /\ op.own \in Owners /\ op.nodes \in SUBSET Keys
  BY DEF CalmInv, AlwaysInv, ReplaceSubscriptionProxies, TypeOK, Op
<1>1. /\ \A s \in Slots : s[1] # op.own => rows'[s] = rows[s]
      /\ \A s \in Slots : s[1] = op.own /\ s[2] \notin op.nodes => rows'[s] = NoRow
      /\ \A s \in Slots : s[1] = op.own /\ s[2] \in op.nodes =>
              /\ rows'[s] \in Row
              /\ rows'[s].port = op.map[s[2]]
              /\ rows'[s].st = "lapsed" => rows[s] \in Row /\ rows[s].st = "lapsed"
              /\ rows'[s].astray => rows[s] \in Row /\ rows[s].astray
      /\ op.nodes = {} => op' = NoOp
      /\ op.nodes # {} => op'.kind = "refresh" /\ op'.pc = "validate" /\ op'.nodes = {}
  BY <1>0, ReplaceEffect
<1>2. Loaded = Keyed(Present \ RowsOf(op.own)) \cup op.nodes
  BY <1>0 DEF LoadedInv, Needed, Mine
<1>3. \A k \in op.nodes : op.map[k] = ports[k] /\ k \in Loaded
  BY <1>0, <1>2 DEF LoadedInv
<1>4. \A s \in Slots : s \in Present' <=> IF s[1] = op.own THEN s[2] \in op.nodes ELSE s \in Present
  BY <1>1, RowIsThere DEF Present
<1>5. \A s \in Present \ gone : s \in Present' /\ rows'[s].port = rows[s].port
  <2> SUFFICES ASSUME NEW s \in Present \ gone PROVE s \in Present' /\ rows'[s].port = rows[s].port
    OBVIOUS
  <2>1. s \in Slots /\ s \in Present
    BY DEF Present
  <2>2. CASE s[1] # op.own
    BY <1>1, <1>4, <2>1, <2>2
  <2>3. CASE s[1] = op.own
    <3>1. s[2] \in op.nodes
      BY <2>1, <2>3 DEF RowsOf
    <3>2. ports[s[2]] = rows[s].port
      BY <1>0, <1>3, <2>1, <3>1 DEF RowsInv
    <3> QED
      BY <1>1, <1>3, <1>4, <2>1, <2>3, <3>1, <3>2
  <2> QED
    BY <2>2, <2>3
<1>6. \A s \in Present' : /\ rows'[s].st # "lapsed"
                          /\ s[2] \in Loaded => ports[s[2]] = rows'[s].port
                          /\ rows'[s].astray => s[2] \notin Loaded
  <2> SUFFICES ASSUME NEW s \in Present'
               PROVE  /\ rows'[s].st # "lapsed"
                      /\ s[2] \in Loaded => ports[s[2]] = rows'[s].port
                      /\ rows'[s].astray => s[2] \notin Loaded
    OBVIOUS
  <2>1. s \in Slots
    BY DEF Present
  <2>2. CASE s[1] # op.own
    BY <1>0, <1>1, <1>4, <2>1, <2>2 DEF RowsInv, EvidenceInv
  <2>3. CASE s[1] = op.own
    <3>1. s[2] \in op.nodes
      BY <1>4, <2>1, <2>3
    <3>2. rows[s] \in Row => s \in Present
      BY <2>1, RowIsThere DEF Present
    <3> QED
      BY <1>0, <1>1, <1>3, <2>1, <2>3, <3>1, <3>2 DEF RowsInv, EvidenceInv
  <2> QED
    BY <2>2, <2>3
<1>7. RowsInv' /\ EvidenceInv'
  <2>1. del' = Follow(del, gone) /\ probe' = Forget(probe, gone)
    BY DEF ReplaceSubscriptionProxies, RowsVanish
  <2> HIDE DEF gone
  <2> QED
    BY <1>0, <1>5, <1>6, <2>1, VanishCalm
<1>8. Loaded' = Keyed(Present')
  <2>0. \A s \in Present : s \in Slots
    BY DEF Present
  <2>b. \A s \in Present' : s \in Slots
    BY DEF Present
  <2>1. ASSUME NEW k \in Loaded PROVE k \in Keyed(Present')
    <3>1. CASE k \in op.nodes
      <4>1. <<op.own, k>> \in Slots
        BY <1>0, <3>1 DEF Slots
      <4>2. <<op.own, k>> \in Present'
        BY <1>4, <3>1, <4>1
      <4> QED
        BY <4>2 DEF Keyed
    <3>2. CASE k \in Keyed(Present \ RowsOf(op.own))
      BY <1>4, <2>0, <3>2 DEF Keyed, RowsOf
    <3> QED
      BY <1>2, <3>1, <3>2
  <2>2. ASSUME NEW k \in Keyed(Present') PROVE k \in Loaded
    <3>1. PICK s \in Present' : s[2] = k
      BY <2>2 DEF Keyed
    <3>2. CASE s[1] = op.own
      BY <1>3, <1>4, <2>b, <3>1, <3>2
    <3>3. CASE s[1] # op.own
      BY <1>2, <1>4, <2>b, <3>1, <3>3 DEF Keyed, RowsOf
    <3> QED
      BY <3>2, <3>3
  <2>3. Loaded' = Loaded
    BY <1>0, RuntimeNames
  <2> QED
    BY <2>1, <2>2, <2>3
<1>9. Keyed(Present)' = Keyed(Present')
  BY DEF Keyed
<1>10. CASE op' = NoOp
  BY <1>7, <1>8, <1>9, <1>10, IdleCalm DEF CalmInv
<1>11. CASE op' # NoOp
  <2>1. LoadedInv'
    BY <1>1, <1>8, <1>9, <1>11 DEF LoadedInv, Settled, At
  <2>2. OperationInv'
    BY <1>1, <1>11 DEF OperationInv, At
  <2> QED
    BY <1>7, <2>1, <2>2 DEF CalmInv
<1> QED
  BY <1>10, <1>11

\* Rows that vanish and leave the others alone, at the end of an operation.
LEMMA RowsGoneCalm ==
  ASSUME TypeOK, AlwaysInv, CalmInv, NEW gone \in SUBSET Present,
         UNCHANGED <<ports, extra, evicted>>, op' = NoOp,
         \A s \in Slots : rows'[s] = IF s \in gone THEN NoRow ELSE rows[s],
         Loaded = Keyed(Present \ gone),
         del' \in {Follow(del, gone), Nothing}, probe' = Forget(probe, gone)
  PROVE  CalmInv'
<1>0. RowsInv /\ EvidenceInv
  BY DEF CalmInv
<1>1. Present' = Present \ gone
  BY DEF Present
<1>2. \A s \in Present \ gone : rows'[s] = rows[s]
  BY DEF Present
<1>3. RowsInv' /\ EvidenceInv'
  <2>1. \A s \in Present' : /\ rows'[s].st # "lapsed"
                            /\ s[2] \in Loaded => ports[s[2]] = rows'[s].port
                            /\ rows'[s].astray => s[2] \notin Loaded
    BY <1>0, <1>1, <1>2 DEF RowsInv, EvidenceInv
  <2>2. \A s \in Present \ gone : s \in Present' /\ rows'[s].port = rows[s].port
    BY <1>1, <1>2
  <2> QED
    BY <1>0, <2>1, <2>2, VanishCalm
<1>4. Loaded' = Loaded /\ Keyed(Present)' = Keyed(Present \ gone)
  BY <1>1, RuntimeNames DEF Keyed
<1> QED
  BY <1>3, <1>4, IdleCalm DEF CalmInv

\* The transactions that delete rows, without a fault.
LEMMA DropRowsCalm ==
  ASSUME TypeOK, AlwaysInv, CalmInv, DropSubscriptionRows
  PROVE  CalmInv'
<1>1. /\ At("commit") /\ op.kind = "drop"
      /\ del' = Follow(del, RowsOf(op.own)) /\ probe' = Forget(probe, RowsOf(op.own))
      /\ op' = NoOp /\ UNCHANGED <<ports, extra, evicted>>
  BY DEF DropSubscriptionRows, RowsVanish
<1>2. Loaded = Keyed(Present \ RowsOf(op.own))
  BY <1>1 DEF CalmInv, LoadedInv, OperationInv, Needed, Mine
<1>3. RowsOf(op.own) \in SUBSET Present
  BY DEF RowsOf
<1>4. \A s \in Slots : rows'[s] = IF s \in RowsOf(op.own) THEN NoRow ELSE rows[s]
  BY DropRowsType DEF RowsOf, Present
<1> QED
  BY <1>1, <1>2, <1>3, <1>4, RowsGoneCalm

\* The transaction that deletes one row, without a fault.
LEMMA DeleteRowCalm ==
  ASSUME TypeOK, AlwaysInv, CalmInv, DeleteProxyRow
  PROVE  CalmInv'
<1>1. At("commit") /\ op.kind = "delete" /\ SnapshotsHold
  BY DEF DeleteProxyRow, AlwaysInv
<1>2. Loaded = Keyed(Present \ {del.ref})
  BY <1>1 DEF CalmInv, LoadedInv, OperationInv, Needed, Mine
<1>3. CASE del.ref = Gone /\ CommitRefused
  <2>1. Present \ {del.ref} = Present
    BY <1>3, TunnelAssumption DEF Present
  <2> QED
    BY <1>1, <1>2, <1>3, <2>1, CommitRefusedCalm
<1>4. CASE /\ del.ref # Gone
           /\ rows' = [rows EXCEPT ![del.ref] = NoRow]
           /\ probe' = Forget(probe, {del.ref})
           /\ del' = Nothing
           /\ op' = NoOp
           /\ UNCHANGED <<subs, ports, extra, evicted, faults>>
  <2>1. {del.ref} \in SUBSET Present
    BY <1>1, <1>4 DEF SnapshotsHold
  <2>2. \A s \in Slots : rows'[s] = IF s \in {del.ref} THEN NoRow ELSE rows[s]
    BY <1>4 DEF TypeOK
  <2> QED
    BY <1>2, <1>4, <2>1, <2>2, RowsGoneCalm
<1> QED
  BY <1>3, <1>4 DEF DeleteProxyRow

\* Without a fault the only row that can be in the way of a manual node is its own.
LEMMA ManualPlace ==
  ASSUME TypeOK, RowsInv, NEW k \in Loaded, Keyed(Present) \subseteq Loaded
  PROVE  LET me == <<Manual, k>>
             p == ports[k]
         IN /\ \A s \in Present : rows[s].port = p => s[2] = k
            /\ me \in Present => me \in ManualAt(p)
            /\ me \notin Present => ManualAt(p) = {}
            /\ \A snap : Renamed(snap, me, p) = snap
            /\ p \in Ports
<1> DEFINE me == <<Manual, k>>
<1> DEFINE p == ports[k]
<1>1. k \in Keys /\ p # NoPort /\ p \in Ports
  BY RuntimeNames, PortMapFacts DEF TypeOK
<1>2. \A s \in Present : s[2] \in Keys /\ ports[s[2]] = rows[s].port
  BY PresentType DEF RowsInv, Keyed
<1>3. \A s \in Present : rows[s].port = p => s[2] = k
  BY <1>1, <1>2, PortMapFacts DEF TypeOK
<1>4. me \in Present => me \in ManualAt(p)
  BY <1>2 DEF ManualAt, RowsOf
<1>5. \A s \in ManualAt(p) : s = me
  <2> SUFFICES ASSUME NEW s \in ManualAt(p) PROVE s = me
    OBVIOUS
  <2>1. s \in Present /\ s[1] = Manual /\ rows[s].port = p
    BY DEF ManualAt, RowsOf
  <2>2. s \in Slots /\ s[2] = k
    BY <1>3, <2>1, PresentType
  <2> QED
    BY <2>1, <2>2 DEF Slots
<1>6. me \notin Present => ManualAt(p) = {}
  BY <1>5 DEF ManualAt, RowsOf
<1>7. \A snap : Renamed(snap, me, p) = snap
  BY <1>6 DEF Renamed
<1> QED
  BY <1>1, <1>3, <1>4, <1>6, <1>7

\* The transaction of a manual node, without a fault.
LEMMA StoreCalm ==
  ASSUME TypeOK, AlwaysInv, CalmInv, faults' = 0, StoreManualNode
  PROVE  CalmInv'
<1>0. /\ LoadedInv /\ OperationInv /\ RowsInv /\ EvidenceInv /\ MapMatchesRuntime
      /\ At("commit") /\ op.kind = "manual"
  BY DEF CalmInv, AlwaysInv, StoreManualNode
<1>1. PICK k \in op.nodes :
           LET me == <<Manual, k>>
               p == op.map[k]
               new == WithManual(me, p)
               ambiguous == \E s \in Present : s[1] \in Subs /\ rows[s].port = p
           IN /\ k \in Keys /\ me \in Slots /\ p \in Ports
              /\ \/ CommitRefused
                 \/ /\ UNCHANGED <<ports, extra, evicted>>
                    /\ ambiguous \/ Fault("db")
                    /\ rows' = [new EXCEPT ![me] = NoRow]
                    /\ del' = Follow(Renamed(del, me, p), {me})
                    /\ probe' = Forget(Renamed(probe, me, p), {me})
                    /\ op' = Undoing
                 \/ /\ UNCHANGED <<ports, extra, evicted>>
                    /\ rows' = new
                    /\ del' = Renamed(del, me, p)
                    /\ probe' = Renamed(probe, me, p)
                    /\ op' = NoOp
  <2>1. \E k \in op.nodes :
           LET me == <<Manual, k>>
               p == op.map[k]
               new == WithManual(me, p)
               ambiguous == \E s \in Present : s[1] \in Subs /\ rows[s].port = p
           IN /\ k \in Keys /\ me \in Slots /\ p \in Ports /\ NodeAt(p) \in {k, NoKey}
              /\ \/ CommitRefused /\ UNCHANGED faults
                 \/ /\ UNCHANGED <<subs, ports, extra, evicted>>
                    /\ (ambiguous /\ UNCHANGED faults) \/ Fault("db")
                    /\ rows' = [new EXCEPT ![me] = NoRow]
                    /\ del' = Follow(Renamed(del, me, p), {me})
                    /\ probe' = Forget(Renamed(probe, me, p), {me})
                    /\ op' = Undoing
                 \/ /\ UNCHANGED <<subs, ports, extra, evicted>>
                    /\ ~ambiguous
                    /\ rows' = new
                    /\ del' = Renamed(del, me, p)
                    /\ probe' = Renamed(probe, me, p)
                    /\ op' = NoOp
                    /\ UNCHANGED faults
    BY <1>0, StoreEffect
  <2> QED
    BY <2>1
<1> DEFINE me == <<Manual, k>>
<1> DEFINE p == op.map[k]
<1> DEFINE new == WithManual(me, p)
<1>2. /\ op.nodes = {k} /\ Loaded = Keyed(Present) \cup {k} /\ p = ports[k]
      /\ op.changed /\ op.old = Keyed(Present)
  <2>1. op.nodes = {k} /\ op.changed /\ op.old = Keyed(Present)
    BY <1>0 DEF OperationInv
  <2>2. Mine = {}
    BY <1>0 DEF Mine
  <2> QED
    BY <1>0, <2>1, <2>2 DEF LoadedInv, Needed
<1>3. /\ me \in Slots /\ p \in Ports /\ me[1] = Manual /\ me[2] = k
      /\ \A s \in Present : rows[s].port = p => s[2] = k
      /\ me \in Present => me \in ManualAt(p)
      /\ me \notin Present => ManualAt(p) = {}
      /\ Renamed(del, me, p) = del /\ Renamed(probe, me, p) = probe
  BY <1>0, <1>1, <1>2, ManualPlace
<1>4. /\ me \in Present => new = rows
      /\ me \notin Present => new = [rows EXCEPT ![me] = Blank(p)]
  BY <1>3, WithManualFacts
<1>5. /\ rows \in [Slots -> Row \cup {NoRow}]
      /\ Blank(p).port = p /\ Blank(p).st = "disabled" /\ Blank(p).astray = FALSE /\ Blank(p) # NoRow
  BY <1>3, BlankType, RowIsThere DEF TypeOK, Blank
<1>6. \A s \in Present : s \in Slots /\ rows[s] # NoRow
  BY DEF Present
<1>7. CASE CommitRefused
  BY <1>0, <1>2, <1>7, CommitRefusedCalm
<1>8. CASE /\ UNCHANGED <<ports, extra, evicted>>
           /\ \E s \in Present : s[1] \in Subs /\ rows[s].port = p
           /\ rows' = [new EXCEPT ![me] = NoRow]
           /\ del' = Follow(del, {me})
           /\ probe' = Forget(probe, {me})
           /\ op' = Undoing
  <2> HIDE DEF me, p, new
  <2>1. \A s \in Slots : rows'[s] = IF s = me THEN NoRow ELSE rows[s]
    BY <1>3, <1>4, <1>5, <1>8
  <2>2. Present' = Present \ {me}
    BY <2>1 DEF Present
  <2>3. RowsInv' /\ EvidenceInv'
    <3>1. \A s \in Present \ {me} : s \in Present' /\ rows'[s].port = rows[s].port
      BY <1>6, <2>1, <2>2
    <3>2. \A s \in Present' : rows'[s] = rows[s] /\ s \in Present
      BY <1>6, <2>1, <2>2
    <3>3. \A s \in Present' : /\ rows'[s].st # "lapsed"
                              /\ s[2] \in Loaded => ports[s[2]] = rows'[s].port
                              /\ rows'[s].astray => s[2] \notin Loaded
      BY <1>0, <3>2 DEF RowsInv, EvidenceInv
    <3> QED
      BY <1>0, <1>8, <3>1, <3>3, VanishCalm
  <2>4. PICK t \in Present : t[1] \in Subs /\ t[2] = k
    BY <1>3, <1>8
  <2>5. t # me
    BY <1>3, <2>4, TunnelAssumption
  <2>6. Keyed(Present \ {me}) = Keyed(Present)
    <3>1. \A j : j \in Keyed(Present \ {me}) <=> j \in Keyed(Present)
      BY <1>3, <2>4, <2>5 DEF Keyed
    <3> QED
      BY <3>1, Zenon DEF Keyed
  <2>7. Keyed(Present)' = Keyed(Present) /\ Loaded' = Loaded
    BY <1>8, <2>2, <2>6, RuntimeNames DEF Keyed
  <2>8. op'.pc = "undo" /\ op'.old = op.old /\ op'.nodes = {} /\ op' # NoOp
    BY <1>8, UndoingType, NoOpType
  <2>9. LoadedInv'
    BY <1>2, <2>7, <2>8 DEF LoadedInv, Settled, At, Idle
  <2>10. OperationInv'
    BY <1>2, <2>7, <2>8 DEF OperationInv, At
  <2> QED
    BY <2>3, <2>9, <2>10 DEF CalmInv
<1>9. CASE /\ UNCHANGED <<ports, extra, evicted>>
           /\ rows' = new /\ del' = del /\ probe' = probe /\ op' = NoOp
  <2> HIDE DEF me, p, new
  <2>1. /\ \A s \in Slots : s # me => rows'[s] = rows[s]
        /\ rows'[me] = IF me \in Present THEN rows[me] ELSE Blank(p)
    BY <1>3, <1>4, <1>5, <1>9
  <2>2. Present' = Present \cup {me}
    BY <1>3, <1>5, <2>1 DEF Present
  <2>3. RowsInv' /\ EvidenceInv'
    <3>1. \A s \in Present \ {} : s \in Present' /\ rows'[s].port = rows[s].port
      BY <1>6, <2>1, <2>2
    <3>2. \A s \in Present' : /\ rows'[s].st # "lapsed"
                              /\ s[2] \in Loaded => ports[s[2]] = rows'[s].port
                              /\ rows'[s].astray => s[2] \notin Loaded
      BY <1>0, <1>2, <1>3, <1>5, <1>6, <2>1, <2>2 DEF RowsInv, EvidenceInv
    <3>3. Follow(del, {}) = del /\ Forget(probe, {}) = probe
      BY DEF Follow, Forget
    <3> QED
      BY <1>0, <1>9, <3>1, <3>2, <3>3, VanishCalm
  <2>4. Keyed(Present \cup {me}) = Keyed(Present) \cup {k}
    BY <1>3 DEF Keyed
  <2>5. (Loaded = Keyed(Present))'
    BY <1>2, <1>9, <2>2, <2>4, RuntimeNames DEF Keyed
  <2> QED
    BY <1>9, <2>3, <2>5, IdleCalm DEF CalmInv
<1>10. ~Fault("db")
  BY FaultType
<1> QED
  BY <1>1, <1>3, <1>7, <1>8, <1>9, <1>10

\* A step beside the operation leaves what it relies on alone.
LEMMA AsideCalm ==
  ASSUME TypeOK, AlwaysInv, CalmInv, Steady, ports' = ports, op' = op,
         op.kind = "delete" => del' = del
  PROVE  LoadedInv' /\ OperationInv'
<1>1. Present' = Present /\ Keyed(Present)' = Keyed(Present) /\ Loaded' = Loaded
  BY RuntimeNames DEF Steady, Keyed
<1>2. Needed' = Needed
  BY <1>1, NeededSame
<1>3. (\A pc : At(pc)' <=> At(pc)) /\ (Settled' <=> Settled)
  BY DEF At, Idle, Settled
<1>4. LoadedInv'
  BY <1>1, <1>2, <1>3 DEF CalmInv, LoadedInv
<1>5. OperationInv'
  BY <1>1, <1>3 DEF CalmInv, OperationInv
<1> QED
  BY <1>4, <1>5

\* A result leaves the rows where they are, and is another node's only for a row
\* whose own node is unloaded.
LEMMA TakesCalm ==
  ASSUME TypeOK, AlwaysInv, CalmInv, NEW s, NEW seen, Takes(s, seen),
         seen \notin {NoKey, s[2]} => s[2] \notin Loaded,
         UNCHANGED <<ports, extra, evicted, del>>, probe' \in {probe, Nothing}
  PROVE  RowsInv' /\ EvidenceInv'
<1>0. RowsInv /\ EvidenceInv /\ Steady
  BY TakesSteady DEF CalmInv
<1>1. \A t \in Present \ {} : t \in Present' /\ rows'[t].port = rows[t].port
  BY <1>0 DEF Steady
<1>2. \A t \in Present : t \in Slots
  BY DEF Present
<1>3. \A t \in Present' : /\ rows'[t].st # "lapsed"
                          /\ t[2] \in Loaded => ports[t[2]] = rows'[t].port
                          /\ rows'[t].astray => t[2] \notin Loaded
  BY <1>0, <1>1, <1>2 DEF RowsInv, EvidenceInv, Steady, Takes
<1>4. Follow(del, {}) = del /\ Forget(probe, {}) = probe
  BY DEF Follow, Forget
<1> QED
  BY <1>0, <1>1, <1>3, <1>4, VanishCalm

\* Validations, probes and the surroundings, without a fault.
LEMMA BesideCalm ==
  ASSUME TypeOK, AlwaysInv, CalmInv, faults' = 0,
         \/ \E k \in Keys : ValidateRow(k)
         \/ \E s \in Slots : ReadForDeletion(s) \/ StartTest(s) \/ Lapse(s)
         \/ PickDisabled \/ Dial \/ WriteDisabled \/ WriteTest
         \/ \E s \in Subs : AddSubscription(s)
         \/ WatchLoop \/ Restart
  PROVE  CalmInv'
<1>0. LoadedInv /\ OperationInv /\ RowsInv /\ EvidenceInv /\ SnapshotsHold /\ CommitMatchesRuntime
  BY DEF CalmInv, AlwaysInv
<1>1. ASSUME NEW k \in Keys, ValidateRow(k) PROVE CalmInv'
  <2> DEFINE s == <<op.own, k>>
  <2>1. /\ Takes(s, NodeAt(rows[s].port))
        /\ op' = NoOp \/ /\ op'.kind = op.kind /\ op'.pc = op.pc /\ op'.nodes = op.nodes
    BY <1>0, <1>1, ValidateEffect
  <2>2. At("validate") /\ UNCHANGED <<ports, extra, evicted, del, probe>>
    BY <1>1 DEF ValidateRow
  <2>3. Loaded = Keyed(Present) /\ s \in Present
    BY <1>0, <2>1, <2>2 DEF LoadedInv, Settled, At, Takes
  <2>4. s[2] \in Loaded
    BY <2>3 DEF Keyed
  <2>5. NodeAt(rows[s].port) = s[2]
    BY <1>0, <2>3, <2>4, RowReached
  <2> HIDE DEF s
  <2>6. RowsInv' /\ EvidenceInv'
    BY <2>1, <2>2, <2>5, TakesCalm
  <2>7. Steady
    BY <2>1, TakesSteady
  <2>8. (Loaded = Keyed(Present))'
    BY <2>2, <2>3, <2>7, RuntimeNames DEF Steady, Keyed
  <2>9. CASE op' = NoOp
    BY <2>6, <2>8, <2>9, IdleCalm DEF CalmInv
  <2>10. CASE op'.kind = op.kind /\ op'.pc = op.pc /\ op'.nodes = op.nodes
    <3>1. op'.pc = "validate"
      BY <2>2, <2>10 DEF At
    <3>2. LoadedInv'
      BY <2>8, <3>1 DEF LoadedInv, Settled, At
    <3>3. OperationInv'
      BY <1>0, <2>10, <3>1 DEF OperationInv, At
    <3> QED
      BY <2>6, <3>2, <3>3 DEF CalmInv
  <2> QED
    BY <2>1, <2>9, <2>10
<1>2. ASSUME NEW s \in Slots, ReadForDeletion(s) PROVE CalmInv'
  <2>1. del = Nothing /\ s \in Present /\ del' = Read("delete", s)
        /\ UNCHANGED <<rows, ports, extra, evicted, op, probe>>
    BY <1>2 DEF ReadForDeletion
  <2>2. Steady /\ Present' = Present /\ Loaded' = Loaded
    BY <2>1, UnchangedSteady, RuntimeNames DEF Present
  <2>3. op.kind # "delete"
    BY <1>0, <2>1 DEF SnapshotsHold
  <2>4. LoadedInv' /\ OperationInv'
    BY <2>1, <2>2, <2>3, AsideCalm
  <2>5. del'.ref = s /\ del'.port = rows[s].port
    BY <2>1, ReadFacts
  <2>6. RowsInv' /\ EvidenceInv'
    BY <1>0, <2>1, <2>2, <2>5 DEF RowsInv, EvidenceInv
  <2> QED
    BY <2>4, <2>6 DEF CalmInv
<1>3. ASSUME NEW s \in Slots, StartTest(s) PROVE CalmInv'
  <2>1. s \in Present /\ probe' = Read("test", s)
        /\ UNCHANGED <<rows, ports, extra, evicted, op, del>>
    BY <1>3 DEF StartTest
  <2>2. Steady /\ Present' = Present /\ Loaded' = Loaded
    BY <2>1, UnchangedSteady, RuntimeNames DEF Present
  <2>3. LoadedInv' /\ OperationInv'
    BY <2>1, <2>2, AsideCalm
  <2>4. probe'.ref = s /\ probe'.port = rows[s].port /\ probe'.pc = "dial"
    BY <2>1, ReadFacts
  <2>5. RowsInv' /\ EvidenceInv'
    BY <1>0, <2>1, <2>2, <2>4 DEF RowsInv, EvidenceInv
  <2> QED
    BY <2>3, <2>5 DEF CalmInv
<1>4. ASSUME NEW s \in Slots, Lapse(s) PROVE CalmInv'
  BY <1>4, LapseEffect
<1>5. CASE PickDisabled
  <2>1. UNCHANGED <<rows, ports, extra, evicted, del>> /\ op' = NoOp /\ At("pick")
    BY <1>5 DEF PickDisabled
  <2>2. probe' = probe \/ \E s \in Present : probe' = Read("disabled", s)
    BY <1>5 DEF PickDisabled
  <2>3. Present' = Present /\ Loaded' = Loaded /\ Keyed(Present)' = Keyed(Present)
    BY <2>1, RuntimeNames DEF Present, Keyed
  <2>4. Loaded = Keyed(Present)
    BY <1>0, <2>1 DEF LoadedInv, Settled, At
  <2>5. probe' = probe \/ (probe'.port = rows[probe'.ref].port /\ probe'.pc = "dial")
    BY <2>2, ReadFacts
  <2>6. RowsInv' /\ EvidenceInv'
    BY <1>0, <2>1, <2>3, <2>5 DEF RowsInv, EvidenceInv
  <2> QED
    BY <2>1, <2>3, <2>4, <2>6, IdleCalm DEF CalmInv
<1>6. CASE Dial
  <2>1. UNCHANGED <<rows, ports, extra, evicted, op, del>> /\ probe # Nothing
    BY <1>6 DEF Dial
  <2>2. probe' = [probe EXCEPT !.pc = "write", !.seen = NodeAt(probe.port)]
    BY <1>6 DEF Dial
  <2>3. /\ probe'.ref = probe.ref /\ probe'.port = probe.port
        /\ probe'.seen = NodeAt(probe.port)
    BY <2>1, <2>2 DEF TypeOK, Snapshot
  <2>4. Steady /\ Present' = Present /\ Loaded' = Loaded
    BY <2>1, UnchangedSteady, RuntimeNames DEF Present
  <2>5. LoadedInv' /\ OperationInv'
    BY <2>1, <2>4, AsideCalm
  <2>6. probe.ref \in Present /\ probe.port = rows[probe.ref].port
    BY <1>0, <2>1 DEF SnapshotsHold, RowsInv
  <2>7. probe.ref[2] \in Loaded => probe'.seen = probe.ref[2]
    BY <1>0, <2>3, <2>6, RowReached
  <2>8. RowsInv'
    BY <1>0, <2>1, <2>3, <2>4, <2>6 DEF RowsInv
  <2>9. EvidenceInv'
    BY <1>0, <2>1, <2>3, <2>4, <2>7 DEF EvidenceInv
  <2> QED
    BY <2>5, <2>8, <2>9 DEF CalmInv
<1>7. CASE WriteDisabled \/ WriteTest
  <2>1. /\ probe # Nothing /\ probe.pc = "write" /\ probe' = Nothing
        /\ UNCHANGED <<ports, extra, evicted, op, del>>
        /\ UNCHANGED rows \/ Takes(probe.ref, probe.seen)
    BY <1>7, WriteEffect
  <2>2. Steady
    BY <2>1, UnchangedSteady, TakesSteady
  <2>3. LoadedInv' /\ OperationInv'
    BY <2>1, <2>2, AsideCalm
  <2>4. probe.seen \notin {NoKey, probe.ref[2]} => probe.ref[2] \notin Loaded
    BY <1>0, <2>1 DEF EvidenceInv
  <2>5. CASE Takes(probe.ref, probe.seen)
    BY <2>1, <2>3, <2>4, <2>5, TakesCalm DEF CalmInv
  <2>6. CASE UNCHANGED rows
    <3>1. Present' = Present /\ Loaded' = Loaded
      BY <2>1, <2>6, RuntimeNames DEF Present
    <3>2. RowsInv' /\ EvidenceInv'
      BY <1>0, <2>1, <2>6, <3>1 DEF RowsInv, EvidenceInv
    <3> QED
      BY <2>3, <3>2 DEF CalmInv
  <2> QED
    BY <2>1, <2>5, <2>6
<1>8. ASSUME NEW s \in Subs, AddSubscription(s) PROVE CalmInv'
  <2>1. UNCHANGED <<rows, ports, extra, evicted, op, del, probe>>
    BY <1>8 DEF AddSubscription
  <2>2. LoadedInv' /\ OperationInv'
    BY <2>1, UnchangedSteady, AsideCalm
  <2>3. RowsInv' /\ EvidenceInv'
    BY <1>0, <2>1, SameRows DEF RowsInv
  <2> QED
    BY <2>2, <2>3 DEF CalmInv
<1>9. CASE WatchLoop \/ Restart
  BY <1>9, FaultType DEF WatchLoop, Restart
<1> QED
  BY <1>1, <1>2, <1>3, <1>4, <1>5, <1>6, <1>7, <1>8, <1>9

\* Faults are never forgotten.
LEMMA FaultsStay ==
  ASSUME TypeOK, [Next]_vars, faults' = 0
  PROVE  faults = 0
<1>0. faults \in Nat /\ \A f : ~Fault(f)
  BY FaultType, TunnelAssumption DEF TypeOK
<1>1. \A target, ok, err : Reload(target, ok, err) => faults' = faults
  BY <1>0 DEF Reload
<1>2. ReloadRuntime \/ Undo => faults' = faults
  BY <1>1 DEF ReloadRuntime, Undo
<1>3. Accept \/ DatabaseFails \/ ReplaceSubscriptionProxies \/ DropSubscriptionRows \/ DeleteProxy
        => faults' = faults
  BY <1>0 DEF Accept, DatabaseFails, ReplaceSubscriptionProxies, DropSubscriptionRows, DeleteProxy
<1>4. DeleteProxyRow => faults' = faults
  BY DEF DeleteProxyRow
<1>5. StoreManualNode => faults' = faults
  BY <1>0 DEF StoreManualNode
<1>6. \A s \in Subs : AddSubscription(s) \/ DeleteSubscription(s) => faults' = faults
  BY DEF AddSubscription, DeleteSubscription
<1>7. \A s \in Subs : \A fetched \in SUBSET Keys : RefreshSubscription(s, fetched) => faults' = faults
  BY DEF RefreshSubscription
<1>8. \A k \in Keys : ValidateRow(k) \/ AddManualNode(k) => faults' = faults
  BY DEF ValidateRow, AddManualNode
<1>9. \A s \in Slots : ReadForDeletion(s) \/ StartTest(s) \/ Lapse(s) => faults' = faults
  BY <1>0 DEF ReadForDeletion, StartTest, Lapse
<1>10. ProbeDisabled \/ PickDisabled \/ Dial \/ WriteDisabled \/ WriteTest => faults' = faults
  BY DEF ProbeDisabled, PickDisabled, Dial, WriteDisabled, WriteTest
<1>11. WatchLoop \/ Restart => faults' = faults
  BY <1>0 DEF WatchLoop, Restart
<1>12. UNCHANGED vars => faults' = faults
  BY DEF vars
<1> QED
  BY <1>2, <1>3, <1>4, <1>5, <1>6, <1>7, <1>8, <1>9, <1>10, <1>11, <1>12 DEF Next

\* Every step without a fault keeps the runtime in line with the rows.
LEMMA CalmStep ==
  ASSUME TypeOK, AlwaysInv, CalmInv, faults = 0, faults' = 0, [Next]_vars
  PROVE  CalmInv'
<1>1. CASE DatabaseFails
  BY <1>1, FaultType DEF DatabaseFails
<1>2. CASE UNCHANGED vars
  <2>1. UNCHANGED <<rows, ports, extra, evicted, op, del, probe>>
    BY <1>2 DEF vars
  <2>2. LoadedInv' /\ OperationInv'
    BY <2>1, UnchangedSteady, AsideCalm
  <2>3. RowsInv' /\ EvidenceInv'
    BY <2>1, SameRows DEF RowsInv, CalmInv
  <2> QED
    BY <2>2, <2>3 DEF CalmInv
<1> QED
  BY <1>1, <1>2, ReloadRuntimeCalm, UndoCalm, AcceptCalm, StartCalm, ReplaceCalm, DropRowsCalm,
     DeleteRowCalm, StoreCalm, BesideCalm DEF Next

\* The first state.
LEMMA CalmInit ==
  ASSUME Init
  PROVE  CalmInv
<1>1. Present = {} /\ Loaded = {}
  BY RuntimeNames DEF Init, Present, Runtime!NoPorts, Runtime!NoPort
<1>2. Keyed({}) = {}
  BY DEF Keyed
<1> QED
  BY <1>1, <1>2, NoOpType
     DEF Init, CalmInv, LoadedInv, OperationInv, RowsInv, EvidenceInv, Settled, At, Idle

-----------------------------------------------------------------------------
(* Theorems.                                                               *)

\* NodesInv is inductive: what the manager and everyone beside it rely on, in
\* every state, and how the runtime relates to the rows until the first fault.
THEOREM NodesInvariant == Spec => []NodesInv
<1>1. Init => NodesInv
  BY TypeInit, AlwaysInit, CalmInit DEF NodesInv
<1>2. NodesInv /\ [Next]_vars => NodesInv'
  BY TypeStep, AlwaysStep, CalmStep, FaultsStay DEF NodesInv
<1> QED
  BY <1>1, <1>2, PTL DEF Spec

\* The state keeps its type: no operation of the manager stores a row without a
\* port or carries a node the runtime cannot name.
THEOREM NodesTypeCorrect == Spec => []TypeOK
<1>1. NodesInv => TypeOK
  BY DEF NodesInv
<1> QED
  BY <1>1, NodesInvariant, PTL

\* The rows a refresh has just written name their own nodes, or free ports,
\* whatever fails and whatever the watch loop does before they are validated.
THEOREM CommitCorrect == Spec => []CommitMatchesRuntime
<1>1. NodesInv => CommitMatchesRuntime
  BY DEF NodesInv, AlwaysInv
<1> QED
  BY <1>1, NodesInvariant, PTL

\* No operation is about to unload a node that another owner's row needs, unless
\* it was evicted: HasOtherProxyOwner is not outdated when Reload is called.
THEOREM ReclaimCorrect == Spec => []OwnedKeyNotReclaimed
<1>1. NodesInv => OwnedKeyNotReclaimed
  BY DEF NodesInv, AlwaysInv
<1> QED
  BY <1>1, NodesInvariant, PTL

\* Between two operations, until the first fault, every row reaches its node.
THEOREM RowsCorrect == Spec => []RowsReachTheirNodes
<1>1. NodesInv => RowsReachTheirNodes
  <2> SUFFICES ASSUME NodesInv, Undisturbed, NEW s \in Present PROVE ports[s[2]] = rows[s].port
    BY DEF RowsReachTheirNodes
  <2>1. CalmInv /\ Idle
    BY DEF NodesInv, Undisturbed
  <2>2. Loaded = Keyed(Present)
    BY <2>1 DEF CalmInv, LoadedInv, Settled
  <2> QED
    BY <2>1, <2>2 DEF Keyed, CalmInv, RowsInv
<1> QED
  BY <1>1, NodesInvariant, PTL

\* Between two operations, until the first fault, every loaded node has a row.
THEOREM GhostsCorrect == Spec => []NoGhostNode
<1>1. NodesInv => NoGhostNode
  BY DEF NodesInv, NoGhostNode, Undisturbed, CalmInv, LoadedInv, Settled, Keyed
<1> QED
  BY <1>1, NodesInvariant, PTL

\* Between two operations, until the first fault, no row is active on the answer
\* of another node, whichever probes were on their way when rows came and went.
THEOREM EvidenceCorrect == Spec => []ActiveOnOwnEvidence
<1>1. NodesInv => ActiveOnOwnEvidence
  <2> SUFFICES ASSUME NodesInv, Undisturbed, NEW s \in Present PROVE ~rows[s].astray
    BY DEF ActiveOnOwnEvidence
  <2>1. CalmInv /\ Idle
    BY DEF NodesInv, Undisturbed
  <2>2. s[2] \in Loaded
    BY <2>1 DEF CalmInv, LoadedInv, Settled, Keyed
  <2> QED
    BY <2>1, <2>2 DEF CalmInv, EvidenceInv
<1> QED
  BY <1>1, NodesInvariant, PTL

=============================================================================
