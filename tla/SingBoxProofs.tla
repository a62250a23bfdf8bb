--------------------------- MODULE SingBoxProofs ---------------------------
(***************************************************************************)
(* Proofs about the tunnel runtime, for any number of shards and keys: the *)
(* inductive invariant RuntimeInv and what follows from it, and that the   *)
(* runtime implements the contract of TunnelRuntime (ContractInv).         *)
(***************************************************************************)
EXTENDS ShardedRuntime, TLAPS

\* What is true of shard i between any two steps: it holds keys of its own
\* only, its ports are distinct ports of its segment, and its process serves
\* the ports it publishes.
ShardOK(i, s) ==
  /\ s.nodes \subseteq Owned(i)
  /\ \A k \in Keys : s.ports[k] # NoPort => k \in Owned(i) /\ s.ports[k] \in Segment[i]
  /\ \A j, k \in Keys : s.ports[j] = s.ports[k] /\ s.ports[j] # NoPort => j = k
  /\ s.proc = "up" => s.serves = s.ports

ShardsOK == \A i \in Shards : ShardOK(i, shard[i])

\* What is true of the call under way: the mutex keeps Stop apart from the
\* rest, and a shard awaits its commit only where it was just reloaded.
CallOK ==
  /\ \A i \in Shards : op.oldNodes[i] \subseteq Owned(i)
  /\ stopping => op.kind \in {"none", "stop"}
  /\ op.commit => /\ op.kind \in {"load", "recover"}
                  /\ op.at \in Shards
                  /\ op.kind = "load" => op.at \in op.touched

\* A key has a port or was rejected by name.
Settled(i, k) == shard[i].ports[k] # NoPort \/ k \in shard[i].rejected

\* A Reload on its way has settled the shards it has passed.
LoadOK ==
  op.kind = "load" /\ ~op.failed =>
    \A i \in Shards : i < op.at => \A k \in Target(i) : Settled(i, k)

Untouched(i) == assigned[i] = op.oldKeys[i] /\ shard[i].nodes = op.oldNodes[i]

Restored(i) ==
  /\ assigned[i] = op.oldKeys[i]
  /\ shard[i].nodes \subseteq op.oldNodes[i]
  /\ op.oldNodes[i] \ shard[i].nodes \subseteq shard[i].rejected

\* Shards it has not touched are as they were, and a roll-back on its way has
\* restored the ones it has passed.
UndoOK ==
  /\ op.kind \in {"load", "undo"} => \A i \in Shards \ op.touched : Untouched(i)
  /\ op.kind = "undo" /\ ~op.broken => \A i \in Shards : i < op.at => Restored(i)

\* The inductive invariant.
RuntimeInv ==
  /\ TypeOK
  /\ ShardsOK
  /\ CallOK
  /\ LoadOK
  /\ UndoOK
  /\ StopIsFinal

-----------------------------------------------------------------------------
(* Shards.                                                                 *)

\* A cleared shard is in order (the state of every shard at the start).
LEMMA ClearedOK == Cleared \in Process /\ \A i \in Shards : ShardOK(i, Cleared)
<1>1. NoPorts \in PortMap
  BY DEF NoPorts, PortMap
<1>2. Cleared \in Process
  BY <1>1 DEF Cleared, Process, Statuses
<1>3. \A k \in Keys : NoPorts[k] = NoPort
  BY DEF NoPorts
<1>4. QED
  BY <1>2, <1>3 DEF Cleared, ShardOK

\* Whatever SingBoxProcess.Reload does, the shard stays in order; a reload that
\* succeeds holds the target except for the nodes it rejects.
LEMMA ReloadOK ==
  ASSUME NEW i \in Shards, NEW target, target \subseteq Owned(i),
         shard[i] \in Process, ShardOK(i, shard[i]),
         NEW s \in ReloadShard(i, target)
  PROVE  /\ s \in Process
         /\ ShardOK(i, s)
         /\ ~ReloadFailed(s) => s.nodes \subseteq target /\ target \ s.nodes \subseteq s.rejected
<1>1. CASE s = Cleared /\ target = {}
  BY <1>1, ClearedOK DEF Cleared
<1>2. CASE s = Refused(i)
  <2>1. s \in Process
    BY <1>2 DEF Refused, Process, Statuses
  <2>2. s.nodes = shard[i].nodes /\ s.ports = shard[i].ports /\ s.proc = shard[i].proc
        /\ s.serves = shard[i].serves /\ s.status = "failed"
    BY <1>2 DEF Refused, Process
  <2>3. QED
    BY <2>1, <2>2 DEF ShardOK, ReloadFailed
<1>3. CASE s \in NotStarted(i)
  <2>1. PICK x \in {"none", "dead"} : s = [shard[i] EXCEPT !.status = "failed", !.proc = x]
    BY <1>3 DEF NotStarted
  <2>2. s \in Process
    BY <2>1 DEF Process, Statuses
  <2>3. s.nodes = shard[i].nodes /\ s.ports = shard[i].ports /\ s.proc # "up"
        /\ s.status = "failed"
    BY <2>1 DEF Process
  <2>4. QED
    BY <2>2, <2>3 DEF ShardOK, ReloadFailed
<1>4. CASE s \in Restarted(i, target)
  <2>1. PICK f \in Allocations(i, shard[i].ports, target), good \in (SUBSET target) \ {{}},
             status \in {"running", "partial"} : s = Started(f, target, good, status)
    BY <1>4 DEF Restarted
  <2>2. f \in [target -> Segment[i]] /\ \A j, k \in target : f[j] = f[k] => j = k
    BY <2>1 DEF Allocations
  <2>3. target \subseteq Keys /\ good \subseteq target
    BY <2>1 DEF Owned
  <2> DEFINE ports == [k \in Keys |-> IF k \in good THEN f[k] ELSE NoPort]
  <2>4. \A k \in Keys : ports[k] = IF k \in good THEN f[k] ELSE NoPort
    OBVIOUS
  <2>5. \A k \in good : f[k] \in Segment[i] /\ f[k] \in Port
    BY <2>2, <2>3 DEF Port
  <2>6. ports \in PortMap
    BY <2>5 DEF PortMap
  <2>7. s = [nodes |-> good, ports |-> ports, rejected |-> target \ good,
             status |-> status, proc |-> "up", serves |-> ports]
    BY <2>1 DEF Started
  <2> HIDE DEF ports
  <2>8. s \in Process
    BY <2>3, <2>6, <2>7 DEF Process, Statuses
  <2>9. /\ s.nodes = good /\ s.ports = ports /\ s.rejected = target \ good
        /\ s.proc = "up" /\ s.serves = ports
    BY <2>7
  <2>10. \A j, k \in Keys : ports[j] = ports[k] /\ ports[j] # NoPort => j = k
    BY <2>2, <2>3, <2>4
  <2>11. \A k \in Keys : ports[k] # NoPort => k \in Owned(i) /\ ports[k] \in Segment[i]
    BY <2>3, <2>4, <2>5
  <2>12. ShardOK(i, s)
    BY <2>3, <2>9, <2>10, <2>11 DEF ShardOK
  <2>13. s.nodes \subseteq target /\ target \ s.nodes \subseteq s.rejected
    BY <2>3, <2>9
  <2>14. QED
    BY <2>8, <2>12, <2>13
<1>5. QED
  BY <1>1, <1>2, <1>3, <1>4 DEF ReloadShard

\* The merged port map looks a key up in its own shard, so distinctness within
\* the shards and disjoint segments make it distinct overall.
LEMMA MergedDistinct ==
  ASSUME TypeOK, ShardsOK
  PROVE  PortsDistinct /\ MergedPorts \in PortMap
<1> USE SingBoxAssumption
<1>1. \A k \in Keys : ShardOf[k] \in Shards
  OBVIOUS
<1>2. \A k \in Keys : MergedPorts[k] = shard[ShardOf[k]].ports[k]
  BY DEF MergedPorts
<1>3. ASSUME NEW j \in Keys, NEW k \in Keys, MergedPorts[j] = MergedPorts[k],
             MergedPorts[j] # NoPort
      PROVE  j = k
  <2>1. MergedPorts[j] \in Segment[ShardOf[j]] /\ MergedPorts[k] \in Segment[ShardOf[k]]
    BY <1>1, <1>2, <1>3 DEF ShardsOK, ShardOK
  <2>2. ShardOf[j] = ShardOf[k]
    BY <1>1, <1>3, <2>1
  <2>3. QED
    BY <1>1, <1>2, <1>3, <2>2 DEF ShardsOK, ShardOK
<1>4. \A k \in Keys : shard[ShardOf[k]].ports[k] \in Port \cup {NoPort}
  <2>1. \A i \in Shards : shard[i].ports \in PortMap
    BY DEF TypeOK, Process
  <2>2. QED
    BY <1>1, <2>1 DEF PortMap
<1>5. MergedPorts \in PortMap
  BY <1>4 DEF MergedPorts, PortMap
<1>6. QED
  BY <1>3, <1>5 DEF PortsDistinct

-----------------------------------------------------------------------------
(* Preservation: one lemma per group of conjuncts.                         *)

\* The initial state.
LEMMA InitInv == Init => RuntimeInv
<1> SUFFICES ASSUME Init PROVE RuntimeInv
  OBVIOUS
<1> USE SingBoxAssumption
<1>1. NoKeys \in [Shards -> SUBSET Keys] /\ \A i \in Shards : NoKeys[i] = {}
  BY DEF NoKeys
<1>2. 1 \in 1..(NumShards + 1)
  OBVIOUS
<1>3. NoCall \in Call
  BY <1>1, <1>2 DEF NoCall, Call, Calls
<1>4. NoPorts \in PortMap
  BY DEF NoPorts, PortMap
<1>5. TypeOK
  BY <1>1, <1>3, <1>4, ClearedOK DEF Init, TypeOK
<1>6. ShardsOK
  BY ClearedOK DEF Init, ShardsOK
<1>7. CallOK /\ LoadOK /\ UndoOK /\ StopIsFinal
  BY <1>1 DEF Init, NoCall, CallOK, LoadOK, UndoOK, StopIsFinal
<1>8. QED
  BY <1>5, <1>6, <1>7 DEF RuntimeInv

\* A call that begins: it holds the mutex, has visited no shard, and remembers
\* what the shards held.
LEMMA BeginInv ==
  ASSUME RuntimeInv, NEW c \in Call, Idle, op' = c,
         c.at = 1, ~c.commit, c.kind \in {"load", "clear", "recover", "stop"},
         c.kind = "load" => \A i \in Shards : c.oldNodes[i] = shard[i].nodes
                                              /\ c.oldKeys[i] = assigned[i],
         c.kind # "load" => \A i \in Shards : c.oldNodes[i] = {},
         UNCHANGED <<shard, assigned>>,
         stopping' \in BOOLEAN, stopping' = (c.kind = "stop")
  PROVE  RuntimeInv'
<1> USE SingBoxAssumption DEF RuntimeInv
<1>1. TypeOK'
  BY DEF TypeOK
<1>2. ShardsOK'
  BY DEF ShardsOK, ShardOK, Owned
<1>3. CallOK'
  BY DEF CallOK, ShardsOK, ShardOK, Owned
<1>4. LoadOK' /\ UndoOK'
  BY DEF LoadOK, UndoOK, Untouched, Restored, Shards, Settled, Target
<1>5. StopIsFinal'
  <2>1. \A i \in Shards : 1 <= i
    BY DEF Shards
  <2>2. stopping' => op'.kind = "stop" /\ op'.at = 1
    OBVIOUS
  <2>3. QED
    BY <2>1, <2>2 DEF StopIsFinal
<1>6. QED
  BY <1>1, <1>2, <1>3, <1>4, <1>5

\* The four calls.
LEMMA CallsBegin ==
  ASSUME RuntimeInv,
         \/ \E target \in SUBSET Keys : BeginReload(target)
         \/ BeginClear \/ BeginRecover \/ BeginStop
  PROVE  RuntimeInv'
<1> USE SingBoxAssumption
<1>0. /\ NoKeys \in [Shards -> SUBSET Keys] /\ \A i \in Shards : NoKeys[i] = {}
      /\ 1 \in 1..(NumShards + 1)
  BY DEF NoKeys
<1>1. ASSUME NEW target \in SUBSET Keys, BeginReload(target) PROVE RuntimeInv'
  <2> DEFINE nodes == [i \in Shards |-> shard[i].nodes]
  <2>1. nodes \in [Shards -> SUBSET Keys] /\ \A i \in Shards : nodes[i] = shard[i].nodes
    BY DEF RuntimeInv, TypeOK, Process
  <2>2. assigned \in [Shards -> SUBSET Keys]
    BY DEF RuntimeInv, TypeOK
  <2>3. op' = [kind |-> "load", at |-> 1, commit |-> FALSE, target |-> target,
               oldNodes |-> nodes, oldKeys |-> assigned, touched |-> {},
               failed |-> FALSE, broken |-> FALSE]
    BY <1>1 DEF BeginReload, NoCall
  <2> HIDE DEF nodes
  <2>4. op' \in Call
    BY <1>0, <2>1, <2>2, <2>3 DEF Call, Calls
  <2>5. stopping' = FALSE
    BY <1>1 DEF BeginReload, RuntimeInv, TypeOK
  <2>6. /\ op'.at = 1 /\ ~op'.commit /\ op'.kind = "load"
        /\ \A i \in Shards : op'.oldNodes[i] = shard[i].nodes /\ op'.oldKeys[i] = assigned[i]
    BY <2>1, <2>3
  <2>7. Idle /\ UNCHANGED <<shard, assigned>>
    BY <1>1 DEF BeginReload
  <2>8. stopping' = (op'.kind = "stop")
    BY <2>5, <2>6
  <2> DEFINE c == op'
  <2>9. /\ c \in Call /\ c.at = 1 /\ ~c.commit /\ c.kind = "load" /\ stopping' = (c.kind = "stop")
        /\ \A i \in Shards : c.oldNodes[i] = shard[i].nodes /\ c.oldKeys[i] = assigned[i]
        /\ op' = c
    BY <2>4, <2>6, <2>8
  <2> HIDE DEF c
  <2>10. QED
    BY <2>5, <2>7, <2>9, BeginInv
<1>2. ASSUME NEW k \in {"clear", "recover", "stop"}, Idle, op' = [NoCall EXCEPT !.kind = k],
             stopping' = (k = "stop"), UNCHANGED <<shard, assigned>>
      PROVE RuntimeInv'
  <2> DEFINE c == op'
  <2>0. op' = [kind |-> k, at |-> 1, commit |-> FALSE, target |-> {},
             oldNodes |-> NoKeys, oldKeys |-> NoKeys, touched |-> {},
             failed |-> FALSE, broken |-> FALSE]
    BY <1>2 DEF NoCall
  <2>1. c = [kind |-> k, at |-> 1, commit |-> FALSE, target |-> {},
             oldNodes |-> NoKeys, oldKeys |-> NoKeys, touched |-> {},
             failed |-> FALSE, broken |-> FALSE]
    BY <2>0
  <2>2. op' = c
    OBVIOUS
  <2> HIDE DEF c
  <2>3. c \in Call
    BY <1>0, <2>1 DEF Call, Calls
  <2>4. c.at = 1 /\ ~c.commit /\ c.kind = k /\ c.oldNodes = NoKeys
    BY <2>1
  <2>5. stopping' \in BOOLEAN
    BY <1>2
  <2>6. QED
    BY <1>0, <1>2, <2>2, <2>3, <2>4, <2>5, BeginInv
<1>3. ~stopping => stopping = FALSE
  BY DEF RuntimeInv, TypeOK
<1>4. QED
  BY <1>1, <1>2, <1>3 DEF BeginClear, BeginRecover, BeginStop

\* What moving on to the next shard does to the call.
LEMMA AdvanceFacts ==
  ASSUME op \in Call, op.at \in Shards
  PROVE  /\ Advance \in Call
         /\ Advance.at = op.at + 1 /\ Advance.commit = FALSE
         /\ Advance.kind = op.kind /\ Advance.target = op.target
         /\ Advance.oldNodes = op.oldNodes /\ Advance.oldKeys = op.oldKeys
         /\ Advance.touched = op.touched /\ Advance.failed = op.failed
         /\ Advance.broken = op.broken
<1>1. op.at + 1 \in 1..(NumShards + 1)
  BY SingBoxAssumption DEF Shards
<1>2. QED
  BY <1>1 DEF Advance, Call

\* A shard passed in order to the next one: i < at + 1 means i < at or i = at.
LEMMA Passed ==
  ASSUME NEW a \in Shards, NEW i \in Shards, i < a + 1
  PROVE  i < a \/ i = a
BY SingBoxAssumption DEF Shards

\* SkipShard: the shard it passes is as the call wants it.
LEMMA SkipInv == RuntimeInv /\ SkipShard => RuntimeInv'
<1> SUFFICES ASSUME RuntimeInv, SkipShard PROVE RuntimeInv'
  OBVIOUS
<1> USE DEF RuntimeInv
<1> DEFINE a == op.at
<1>1. /\ op.kind \in {"load", "recover", "undo"} /\ a \in Shards /\ op' = Advance
      /\ UNCHANGED <<shard, assigned, stopping>>
  BY DEF SkipShard, At
<1>2. op \in Call
  BY DEF TypeOK
<1>3. /\ op' \in Call /\ op'.at = a + 1 /\ op'.commit = FALSE /\ op'.kind = op.kind
      /\ op'.target = op.target /\ op'.oldNodes = op.oldNodes /\ op'.oldKeys = op.oldKeys
      /\ op'.touched = op.touched /\ op'.failed = op.failed /\ op'.broken = op.broken
  BY <1>1, <1>2, AdvanceFacts
<1>4. ~stopping
  BY <1>1 DEF CallOK
<1>5. op.kind = "load" => \A k \in Target(a) : Settled(a, k)
  BY <1>1 DEF SkipShard, At, NeedsReload, CommitError, Settled
<1>6. op.kind = "undo" => Restored(a)
  BY <1>1 DEF SkipShard, At, UndoOK, Untouched, Restored
<1>7. TypeOK' /\ ShardsOK' /\ CallOK' /\ StopIsFinal'
  BY <1>1, <1>3, <1>4 DEF TypeOK, ShardsOK, ShardOK, CallOK, StopIsFinal, Owned
<1>8. LoadOK'
  <2> SUFFICES ASSUME op.kind = "load", ~op.failed, NEW i \in Shards, i < a + 1,
                      NEW k \in Target(i)
               PROVE  Settled(i, k)
    BY <1>1, <1>3 DEF LoadOK, Target, Settled, Owned
  <2>1. QED
    BY <1>1, <1>5, Passed DEF LoadOK
<1>9. UndoOK'
  <2>1. op.kind \in {"load", "undo"} => \A i \in Shards \ op.touched : Untouched(i)
    BY DEF UndoOK
  <2>2. op.kind = "undo" /\ ~op.broken => \A i \in Shards : i < a + 1 => Restored(i)
    BY <1>1, <1>6, Passed DEF UndoOK
  <2>3. QED
    BY <1>1, <1>3, <2>1, <2>2 DEF UndoOK, Untouched, Restored
<1>10. QED
  BY <1>7, <1>8, <1>9

\* A step that replaces shard a by s keeps the shards in order.
LEMMA ReplaceShard ==
  ASSUME TypeOK, ShardsOK, NEW a \in Shards, NEW s \in Process, ShardOK(a, s),
         shard' = [shard EXCEPT ![a] = s]
  PROVE  /\ shard' \in [Shards -> Process]
         /\ ShardsOK'
         /\ shard'[a] = s
         /\ \A i \in Shards : i # a => shard'[i] = shard[i]
<1>1. shard' \in [Shards -> Process]
  BY DEF TypeOK
<1>2. shard'[a] = s /\ \A i \in Shards : i # a => shard'[i] = shard[i]
  BY DEF TypeOK
<1>3. ShardsOK'
  BY <1>2 DEF ShardsOK, ShardOK, Owned
<1>4. QED
  BY <1>1, <1>2, <1>3

\* What LoadShard does: only the shard at hand changes, and it counts as touched.
LEMMA LoadEffect ==
  ASSUME RuntimeInv, LoadShard
  PROVE  /\ op.kind = "load" /\ op.at \in Shards /\ ~op.commit
         /\ UNCHANGED <<assigned, stopping>>
         /\ \E s \in ReloadShard(op.at, Target(op.at)), bad \in BOOLEAN :
              /\ bad = ReloadFailed(s)
              /\ s \in Process /\ ShardOK(op.at, s)
              /\ shard' \in [Shards -> Process] /\ ShardsOK' /\ shard'[op.at] = s
              /\ \A i \in Shards : i # op.at => shard'[i] = shard[i]
              /\ op' \in Call /\ op'.kind = "load" /\ op'.target = op.target
              /\ op'.oldNodes = op.oldNodes /\ op'.oldKeys = op.oldKeys
              /\ op'.touched = op.touched \cup {op.at} /\ op'.commit = ~bad
              /\ op'.failed = (op.failed \/ bad) /\ op'.broken = op.broken
              /\ op'.at = IF bad THEN op.at + 1 ELSE op.at
<1> USE DEF RuntimeInv
<1> DEFINE a == op.at
<1>1. PICK s \in ReloadShard(a, Target(a)) :
        /\ shard' = [shard EXCEPT ![a] = s]
        /\ op' = [(IF ReloadFailed(s) THEN Advance ELSE op) EXCEPT
                      !.touched = @ \cup {a},
                      !.commit = ~ReloadFailed(s),
                      !.failed = @ \/ ReloadFailed(s)]
  BY DEF LoadShard
<1>2. op.kind = "load" /\ a \in Shards /\ ~op.commit /\ UNCHANGED <<assigned, stopping>>
  BY DEF LoadShard, At
<1>3. op \in Call /\ shard[a] \in Process /\ ShardOK(a, shard[a])
  BY <1>2 DEF TypeOK, ShardsOK
<1>4. Target(a) \subseteq Owned(a)
  BY DEF Target
<1>5. s \in Process /\ ShardOK(a, s)
  BY <1>1, <1>2, <1>3, <1>4, ReloadOK
<1>6. /\ shard' \in [Shards -> Process] /\ ShardsOK' /\ shard'[a] = s
      /\ \A i \in Shards : i # a => shard'[i] = shard[i]
  BY <1>1, <1>2, <1>5, ReplaceShard
<1> DEFINE bad == ReloadFailed(s)
<1>7. bad \in BOOLEAN
  BY DEF ReloadFailed
<1>8. /\ op' \in Call /\ op'.kind = "load" /\ op'.target = op.target
      /\ op'.oldNodes = op.oldNodes /\ op'.oldKeys = op.oldKeys
      /\ op'.touched = op.touched \cup {a} /\ op'.commit = ~bad
      /\ op'.failed = (op.failed \/ bad) /\ op'.broken = op.broken
      /\ op'.at = IF bad THEN a + 1 ELSE a
  <2> DEFINE from == IF bad THEN Advance ELSE op
  <2>1. /\ from \in Call /\ from.kind = "load" /\ from.target = op.target
        /\ from.oldNodes = op.oldNodes /\ from.oldKeys = op.oldKeys
        /\ from.touched = op.touched /\ from.failed = op.failed /\ from.broken = op.broken
        /\ from.at = IF bad THEN a + 1 ELSE a
    BY <1>2, <1>3, AdvanceFacts
  <2>2. op' = [from EXCEPT !.touched = @ \cup {a}, !.commit = ~bad, !.failed = @ \/ bad]
    BY <1>1
  <2> HIDE DEF from, bad
  <2>3. op.failed \in BOOLEAN /\ op.touched \subseteq Shards
    BY <1>3 DEF Call
  <2>4. op' \in Call
    BY <1>2, <1>7, <2>1, <2>2, <2>3 DEF Call
  <2>5. QED
    BY <2>1, <2>2, <2>4 DEF Call
<1>9. QED
  BY <1>1, <1>2, <1>5, <1>6, <1>7, <1>8

\* LoadShard preserves the invariant.
LEMMA LoadInv == RuntimeInv /\ LoadShard => RuntimeInv'
<1> SUFFICES ASSUME RuntimeInv, LoadShard PROVE RuntimeInv'
  OBVIOUS
<1> USE DEF RuntimeInv
<1> DEFINE a == op.at
<1>1. op.kind = "load" /\ a \in Shards /\ UNCHANGED <<assigned, stopping>>
  BY LoadEffect
<1>2. PICK s \in ReloadShard(a, Target(a)), bad \in BOOLEAN :
        /\ s \in Process /\ ShardOK(a, s)
        /\ shard' \in [Shards -> Process] /\ ShardsOK' /\ shard'[a] = s
        /\ \A i \in Shards : i # a => shard'[i] = shard[i]
        /\ op' \in Call /\ op'.kind = "load" /\ op'.target = op.target
        /\ op'.oldNodes = op.oldNodes /\ op'.oldKeys = op.oldKeys
        /\ op'.touched = op.touched \cup {a} /\ op'.commit = ~bad
        /\ op'.failed = (op.failed \/ bad) /\ op'.broken = op.broken
        /\ op'.at = IF bad THEN a + 1 ELSE a
  BY LoadEffect
<1>3. TypeOK'
  BY <1>1, <1>2 DEF TypeOK
<1>4. ~stopping
  BY <1>1 DEF CallOK
<1>5. CallOK'
  BY <1>1, <1>2, <1>4 DEF CallOK, Owned
<1>6. LoadOK'
  <2> SUFFICES ASSUME ~op'.failed, NEW i \in Shards, i < op'.at, NEW k \in Target(i)'
               PROVE  Settled(i, k)'
    BY DEF LoadOK
  <2>1. ~bad /\ op'.at = a /\ ~op.failed
    BY <1>2
  <2>2. i # a /\ i < a
    BY <2>1, <1>1 DEF Shards
  <2>3. k \in Target(i)
    BY <1>2 DEF Target, Owned
  <2>4. Settled(i, k)
    BY <1>1, <2>1, <2>2, <2>3 DEF LoadOK
  <2>5. QED
    BY <1>2, <2>2, <2>4 DEF Settled
<1>7. UndoOK' /\ StopIsFinal'
  BY <1>1, <1>2, <1>4 DEF UndoOK, Untouched, StopIsFinal
<1>8. QED
  BY <1>2, <1>3, <1>5, <1>6, <1>7

\* What CommitShard does: the keys of the shard at hand are committed, or the call
\* has failed.
LEMMA CommitEffect ==
  ASSUME RuntimeInv, CommitShard,
         NEW target, target = IF op.kind = "load" THEN Target(op.at) ELSE op.oldNodes[op.at],
         NEW bad \in BOOLEAN, bad = CommitError(shard[op.at], target)
  PROVE  /\ op.kind \in {"load", "recover"} /\ op.at \in Shards /\ op.commit
         /\ op.kind = "load" => op.at \in op.touched
         /\ UNCHANGED <<shard, stopping>> /\ ~stopping
         /\ assigned' \in [Shards -> SUBSET Keys]
         /\ \A i \in Shards : i # op.at => assigned'[i] = assigned[i]
         /\ assigned'[op.at] = IF bad THEN assigned[op.at] ELSE target \ shard[op.at].rejected
         /\ op' \in Call /\ op'.kind = op.kind /\ op'.at = op.at + 1 /\ op'.commit = FALSE
         /\ op'.target = op.target /\ op'.oldNodes = op.oldNodes /\ op'.oldKeys = op.oldKeys
         /\ op'.touched = op.touched /\ op'.broken = op.broken
         /\ op'.failed = (op.failed \/ bad)
<1> USE DEF RuntimeInv
<1> DEFINE a == op.at
<1>1. /\ op.kind \in {"load", "recover"} /\ a \in Shards /\ op.commit
      /\ op.kind = "load" => a \in op.touched
      /\ UNCHANGED <<shard, stopping>>
  BY DEF CommitShard, CallOK
<1>2. op \in Call /\ assigned \in [Shards -> SUBSET Keys] /\ ~stopping
  BY <1>1 DEF TypeOK, CallOK
<1>3. target \subseteq Keys /\ op.failed \in BOOLEAN
  BY <1>1, <1>2 DEF Call, Target
<1>4. CASE bad
  <2>1. op' = [Advance EXCEPT !.failed = TRUE] /\ assigned' = assigned
    BY <1>4 DEF CommitShard
  <2>2. QED
    BY <1>1, <1>2, <1>3, <1>4, <2>1, AdvanceFacts DEF Call
<1>5. CASE ~bad
  <2>1. /\ op' = Advance
        /\ assigned' = [assigned EXCEPT ![a] = target \ shard[a].rejected]
    BY <1>5 DEF CommitShard, Accepted
  <2>2. QED
    BY <1>1, <1>2, <1>3, <1>5, <2>1, AdvanceFacts
<1>6. QED
  BY <1>4, <1>5

\* CommitShard preserves the invariant.
LEMMA CommitInv == RuntimeInv /\ CommitShard => RuntimeInv'
<1> SUFFICES ASSUME RuntimeInv, CommitShard PROVE RuntimeInv'
  OBVIOUS
<1> USE DEF RuntimeInv
<1> DEFINE a == op.at
           target == IF op.kind = "load" THEN Target(a) ELSE op.oldNodes[a]
           bad == CommitError(shard[a], target)
<1>1. bad \in BOOLEAN
  BY DEF CommitError
<1>2. op.kind = "load" /\ ~bad => \A k \in Target(a) : Settled(a, k)
  BY DEF CommitError, Settled
<1>3. target = IF op.kind = "load" THEN Target(a) ELSE op.oldNodes[a]
  OBVIOUS
<1>4. bad = CommitError(shard[a], target)
  OBVIOUS
<1> HIDE DEF bad, target
<1>5. /\ op.kind \in {"load", "recover"} /\ a \in Shards
      /\ op.kind = "load" => a \in op.touched
      /\ UNCHANGED <<shard, stopping>> /\ ~stopping
      /\ assigned' \in [Shards -> SUBSET Keys]
      /\ \A i \in Shards : i # a => assigned'[i] = assigned[i]
      /\ op' \in Call /\ op'.kind = op.kind /\ op'.at = a + 1 /\ op'.commit = FALSE
      /\ op'.target = op.target /\ op'.oldNodes = op.oldNodes /\ op'.oldKeys = op.oldKeys
      /\ op'.touched = op.touched /\ op'.broken = op.broken
      /\ op'.failed = (op.failed \/ bad)
  BY <1>1, <1>3, <1>4, CommitEffect
<1>6. TypeOK' /\ ShardsOK' /\ CallOK' /\ StopIsFinal'
  BY <1>5 DEF TypeOK, ShardsOK, ShardOK, CallOK, StopIsFinal, Owned
<1>7. LoadOK'
  <2> SUFFICES ASSUME op.kind = "load", ~op.failed, ~bad, NEW i \in Shards, i < a + 1,
                      NEW k \in Target(i)
               PROVE  Settled(i, k)
    BY <1>5 DEF LoadOK, Target, Settled, Owned
  <2>1. QED
    BY <1>2, <1>5, Passed DEF LoadOK
<1>8. UndoOK'
  BY <1>5 DEF UndoOK, Untouched
<1>9. QED
  BY <1>6, <1>7, <1>8

\* What RecoverShard does: only the shard at hand changes.
LEMMA RecoverEffect ==
  ASSUME RuntimeInv, RecoverShard
  PROVE  /\ op.kind = "recover" /\ op.at \in Shards /\ ~op.commit /\ ~stopping
         /\ shard[op.at].nodes \subseteq Owned(op.at) /\ shard[op.at].nodes \subseteq Keys
         /\ UNCHANGED <<assigned, stopping>>
         /\ \E s \in ReloadShard(op.at, shard[op.at].nodes), bad \in BOOLEAN :
              /\ bad = ReloadFailed(s)
              /\ s \in Process /\ ShardOK(op.at, s)
              /\ shard' \in [Shards -> Process] /\ ShardsOK' /\ shard'[op.at] = s
              /\ \A i \in Shards : i # op.at => shard'[i] = shard[i]
              /\ op' \in Call /\ op'.kind = "recover" /\ op'.commit = ~bad
              /\ op'.target = op.target /\ op'.broken = op.broken
              /\ op'.at = IF bad THEN op.at + 1 ELSE op.at
              /\ \A i \in Shards :
                   op'.oldNodes[i] = IF i = op.at THEN shard[op.at].nodes ELSE op.oldNodes[i]
<1> USE DEF RuntimeInv
<1> DEFINE a == op.at
<1>1. PICK s \in ReloadShard(a, shard[a].nodes) :
        /\ shard' = [shard EXCEPT ![a] = s]
        /\ op' = [(IF ReloadFailed(s) THEN Advance ELSE op) EXCEPT
                      !.commit = ~ReloadFailed(s), !.oldNodes[a] = shard[a].nodes]
  BY DEF RecoverShard
<1>2. op.kind = "recover" /\ a \in Shards /\ ~op.commit /\ UNCHANGED <<assigned, stopping>>
  BY DEF RecoverShard, At
<1>3. op \in Call /\ shard[a] \in Process /\ ShardOK(a, shard[a])
  BY <1>2 DEF TypeOK, ShardsOK
<1>4. shard[a].nodes \subseteq Owned(a) /\ shard[a].nodes \subseteq Keys
  BY <1>3 DEF ShardOK, Process
<1>5. s \in Process /\ ShardOK(a, s)
  BY <1>1, <1>2, <1>3, <1>4, ReloadOK
<1>6. /\ shard' \in [Shards -> Process] /\ ShardsOK' /\ shard'[a] = s
      /\ \A i \in Shards : i # a => shard'[i] = shard[i]
  BY <1>1, <1>2, <1>5, ReplaceShard
<1> DEFINE bad == ReloadFailed(s)
           nodes == shard[a].nodes
<1>7. bad \in BOOLEAN
  BY DEF ReloadFailed
<1>8. /\ op' \in Call /\ op'.kind = "recover" /\ op'.commit = ~bad
      /\ op'.target = op.target /\ op'.broken = op.broken
      /\ op'.at = IF bad THEN a + 1 ELSE a
      /\ op'.oldNodes = [op.oldNodes EXCEPT ![a] = nodes]
  <2> DEFINE from == IF bad THEN Advance ELSE op
  <2>1. /\ from \in Call /\ from.kind = "recover" /\ from.oldNodes = op.oldNodes
        /\ from.target = op.target /\ from.broken = op.broken
        /\ from.at = IF bad THEN a + 1 ELSE a
    BY <1>2, <1>3, AdvanceFacts
  <2>2. op' = [from EXCEPT !.commit = ~bad, !.oldNodes[a] = nodes]
    BY <1>1
  <2> DEFINE new == [from.oldNodes EXCEPT ![a] = nodes]
  <2>3. new \in [Shards -> SUBSET Keys] /\ new = [op.oldNodes EXCEPT ![a] = nodes]
    BY <1>2, <1>4, <2>1 DEF Call
  <2>4. op' = [from EXCEPT !.commit = ~bad, !.oldNodes = new]
    BY <2>2
  <2> HIDE DEF from, bad, new, nodes
  <2>5. op' \in Call
    BY <1>7, <2>1, <2>3, <2>4 DEF Call
  <2>6. QED
    BY <2>1, <2>3, <2>4, <2>5 DEF Call
<1>9. ~stopping
  BY <1>2 DEF CallOK
<1>10. \A i \in Shards : op'.oldNodes[i] = IF i = a THEN nodes ELSE op.oldNodes[i]
  BY <1>2, <1>3, <1>8 DEF Call
<1>11. QED
  BY <1>1, <1>2, <1>4, <1>5, <1>6, <1>7, <1>8, <1>9, <1>10

\* RecoverShard preserves the invariant.
LEMMA RecoverInv == RuntimeInv /\ RecoverShard => RuntimeInv'
<1> SUFFICES ASSUME RuntimeInv, RecoverShard PROVE RuntimeInv'
  OBVIOUS
<1> USE DEF RuntimeInv
<1>1. /\ op.kind = "recover" /\ op.at \in Shards /\ ~stopping
      /\ shard[op.at].nodes \subseteq Owned(op.at) /\ UNCHANGED <<assigned, stopping>>
  BY RecoverEffect
<1>2. PICK bad \in BOOLEAN :
        /\ shard' \in [Shards -> Process] /\ ShardsOK'
        /\ op' \in Call /\ op'.kind = "recover" /\ op'.commit = ~bad
        /\ op'.at = IF bad THEN op.at + 1 ELSE op.at
        /\ \A i \in Shards :
             op'.oldNodes[i] = IF i = op.at THEN shard[op.at].nodes ELSE op.oldNodes[i]
  BY RecoverEffect
<1>3. CallOK'
  BY <1>1, <1>2 DEF CallOK, Owned
<1>4. TypeOK' /\ LoadOK' /\ UndoOK' /\ StopIsFinal'
  BY <1>1, <1>2 DEF TypeOK, LoadOK, UndoOK, StopIsFinal
<1>5. QED
  BY <1>2, <1>3, <1>4

\* BeginUndo: no shard has been visited yet.
LEMMA BeginUndoInv == RuntimeInv /\ BeginUndo => RuntimeInv'
<1> SUFFICES ASSUME RuntimeInv, BeginUndo PROVE RuntimeInv'
  OBVIOUS
<1> USE DEF RuntimeInv
<1>1. op.kind = "load" /\ op.at = NumShards + 1 /\ op' = [op EXCEPT !.kind = "undo", !.at = 1]
      /\ UNCHANGED <<shard, assigned, stopping>>
  BY DEF BeginUndo
<1>2. op \in Call /\ ~stopping /\ 1 \in 1..(NumShards + 1) /\ NumShards + 1 \notin Shards
  BY <1>1, SingBoxAssumption DEF TypeOK, CallOK, Shards
<1>3. /\ op' \in Call /\ op'.kind = "undo" /\ op'.at = 1 /\ op'.oldNodes = op.oldNodes
      /\ op'.oldKeys = op.oldKeys /\ op'.touched = op.touched /\ op'.commit = op.commit
  BY <1>1, <1>2 DEF Call, Calls
<1>4. ~op.commit
  BY <1>1, <1>2 DEF CallOK
<1>5. TypeOK' /\ ShardsOK' /\ CallOK' /\ StopIsFinal' /\ LoadOK'
  BY <1>1, <1>2, <1>3, <1>4 DEF TypeOK, ShardsOK, ShardOK, CallOK, StopIsFinal, LoadOK, Owned
<1>6. UndoOK'
  BY <1>1, <1>3, SingBoxAssumption DEF UndoOK, Untouched, Shards
<1>7. QED
  BY <1>5, <1>6

\* What UndoShard does: the shard at hand is restored, or the roll-back is broken.
LEMMA UndoEffect ==
  ASSUME RuntimeInv, UndoShard
  PROVE  /\ op.kind = "undo" /\ op.at \in Shards /\ op.at \in op.touched
         /\ UNCHANGED stopping /\ ~stopping
         /\ assigned' \in [Shards -> SUBSET Keys] /\ assigned'[op.at] = op.oldKeys[op.at]
         /\ \A i \in Shards : i # op.at => assigned'[i] = assigned[i]
         /\ \E s \in ReloadShard(op.at, op.oldNodes[op.at]), bad \in BOOLEAN :
              /\ bad = ReloadFailed(s)
              /\ s \in Process /\ ShardOK(op.at, s)
              /\ ~bad => s.nodes \subseteq op.oldNodes[op.at]
                         /\ op.oldNodes[op.at] \ s.nodes \subseteq s.rejected
              /\ shard' \in [Shards -> Process] /\ ShardsOK' /\ shard'[op.at] = s
              /\ \A i \in Shards : i # op.at => shard'[i] = shard[i]
              /\ op' \in Call /\ op'.kind = "undo" /\ op'.at = op.at + 1
              /\ op'.commit = FALSE /\ op'.target = op.target
              /\ op'.oldNodes = op.oldNodes /\ op'.oldKeys = op.oldKeys
              /\ op'.touched = op.touched /\ op'.broken = (op.broken \/ bad)
<1> USE DEF RuntimeInv
<1> DEFINE a == op.at
<1>1. PICK s \in ReloadShard(a, op.oldNodes[a]) :
        /\ shard' = [shard EXCEPT ![a] = s]
        /\ op' = [Advance EXCEPT !.broken = @ \/ ReloadFailed(s)]
  BY DEF UndoShard
<1>2. /\ op.kind = "undo" /\ a \in Shards /\ a \in op.touched
      /\ assigned' = [assigned EXCEPT ![a] = op.oldKeys[a]]
      /\ UNCHANGED stopping
  BY DEF UndoShard, At
<1>3. /\ op \in Call /\ shard[a] \in Process /\ ShardOK(a, shard[a])
      /\ assigned \in [Shards -> SUBSET Keys] /\ op.oldNodes[a] \subseteq Owned(a)
      /\ op.oldKeys[a] \subseteq Keys
  BY <1>2 DEF TypeOK, ShardsOK, CallOK, Call
<1>4. /\ s \in Process /\ ShardOK(a, s)
      /\ ~ReloadFailed(s) => s.nodes \subseteq op.oldNodes[a]
                             /\ op.oldNodes[a] \ s.nodes \subseteq s.rejected
  BY <1>1, <1>2, <1>3, ReloadOK
<1>5. /\ shard' \in [Shards -> Process] /\ ShardsOK' /\ shard'[a] = s
      /\ \A i \in Shards : i # a => shard'[i] = shard[i]
  BY <1>1, <1>2, <1>4, ReplaceShard
<1>6. /\ assigned' \in [Shards -> SUBSET Keys] /\ assigned'[a] = op.oldKeys[a]
      /\ \A i \in Shards : i # a => assigned'[i] = assigned[i]
  BY <1>2, <1>3
<1> DEFINE bad == ReloadFailed(s)
<1>7. /\ op' \in Call /\ op'.kind = "undo" /\ op'.at = a + 1 /\ op'.commit = FALSE
      /\ op'.target = op.target
      /\ op'.oldNodes = op.oldNodes /\ op'.oldKeys = op.oldKeys /\ op'.touched = op.touched
      /\ op'.broken = (op.broken \/ bad) /\ bad \in BOOLEAN
  <2>1. bad \in BOOLEAN /\ op.broken \in BOOLEAN
    BY <1>3 DEF ReloadFailed, Call
  <2> HIDE DEF bad
  <2>2. op' = [Advance EXCEPT !.broken = @ \/ bad]
    BY <1>1 DEF bad
  <2>3. QED
    BY <1>2, <1>3, <2>1, <2>2, AdvanceFacts DEF Call
<1>8. ~stopping
  BY <1>2 DEF CallOK
<1>9. QED
  BY <1>1, <1>2, <1>4, <1>5, <1>6, <1>7, <1>8

\* UndoShard preserves the invariant.
LEMMA UndoInv == RuntimeInv /\ UndoShard => RuntimeInv'
<1> SUFFICES ASSUME RuntimeInv, UndoShard PROVE RuntimeInv'
  OBVIOUS
<1> USE DEF RuntimeInv
<1> DEFINE a == op.at
<1>1. /\ op.kind = "undo" /\ a \in Shards /\ a \in op.touched
      /\ UNCHANGED stopping /\ ~stopping
      /\ assigned' \in [Shards -> SUBSET Keys] /\ assigned'[a] = op.oldKeys[a]
      /\ \A i \in Shards : i # a => assigned'[i] = assigned[i]
  BY UndoEffect
<1>2. PICK s \in ReloadShard(a, op.oldNodes[a]), bad \in BOOLEAN :
        /\ ~bad => s.nodes \subseteq op.oldNodes[a] /\ op.oldNodes[a] \ s.nodes \subseteq s.rejected
        /\ shard' \in [Shards -> Process] /\ ShardsOK' /\ shard'[a] = s
        /\ \A i \in Shards : i # a => shard'[i] = shard[i]
        /\ op' \in Call /\ op'.kind = "undo" /\ op'.at = a + 1 /\ op'.commit = FALSE
        /\ op'.oldNodes = op.oldNodes /\ op'.oldKeys = op.oldKeys
        /\ op'.touched = op.touched /\ op'.broken = (op.broken \/ bad)
  BY UndoEffect
<1>3. TypeOK' /\ CallOK' /\ LoadOK' /\ StopIsFinal'
  BY <1>1, <1>2 DEF TypeOK, CallOK, LoadOK, StopIsFinal, Owned
<1>4. \A i \in Shards \ op'.touched : Untouched(i)'
  BY <1>1, <1>2 DEF UndoOK, Untouched
<1>5. ASSUME ~op'.broken, NEW i \in Shards, i < a + 1 PROVE Restored(i)'
  <2>1. CASE i = a
    BY <1>1, <1>2, <1>5, <2>1 DEF Restored
  <2>2. CASE i # a
    <3>1. i < a /\ ~op.broken
      BY <1>1, <1>2, <1>5, <2>2, Passed
    <3>2. Restored(i)
      BY <1>1, <3>1 DEF UndoOK
    <3>3. QED
      BY <1>1, <1>2, <2>2, <3>2 DEF Restored
  <2>3. QED
    BY <2>1, <2>2
<1>6. UndoOK'
  BY <1>2, <1>4, <1>5 DEF UndoOK
<1>7. QED
  BY <1>2, <1>3, <1>6

\* ClearShard: the shard at hand is cleared.
LEMMA ClearInv == RuntimeInv /\ ClearShard => RuntimeInv'
<1> SUFFICES ASSUME RuntimeInv, ClearShard PROVE RuntimeInv'
  OBVIOUS
<1> USE DEF RuntimeInv
<1> DEFINE a == op.at
<1>1. /\ op.kind = "clear" /\ a \in Shards /\ op' = Advance
      /\ shard' = [shard EXCEPT ![a] = Cleared]
      /\ assigned' = [assigned EXCEPT ![a] = {}]
      /\ UNCHANGED stopping
  BY DEF ClearShard, At
<1>2. op \in Call /\ assigned' \in [Shards -> SUBSET Keys] /\ ~stopping
  BY <1>1 DEF TypeOK, CallOK
<1>3. shard' \in [Shards -> Process] /\ ShardsOK'
  <2>1. Cleared \in Process /\ ShardOK(a, Cleared)
    BY <1>1, ClearedOK
  <2>2. QED
    BY <1>1, <2>1, ReplaceShard
<1>4. /\ op' \in Call /\ op'.commit = FALSE /\ op'.kind = "clear"
      /\ op'.oldNodes = op.oldNodes
  BY <1>1, <1>2, AdvanceFacts
<1>5. QED
  BY <1>1, <1>2, <1>3, <1>4 DEF TypeOK, CallOK, LoadOK, UndoOK, StopIsFinal, Owned

\* StopShard: no process runs on the shard at hand, nor on those passed.
LEMMA StopInv == RuntimeInv /\ StopShard => RuntimeInv'
<1> SUFFICES ASSUME RuntimeInv, StopShard PROVE RuntimeInv'
  OBVIOUS
<1> USE DEF RuntimeInv
<1> DEFINE a == op.at
           s == Stopped(shard[a])
<1>1. /\ op.kind = "stop" /\ a \in Shards /\ op' = Advance
      /\ shard' = [shard EXCEPT ![a] = s]
      /\ UNCHANGED <<assigned, stopping>>
  BY DEF StopShard, At
<1>2. op \in Call /\ shard[a] \in Process /\ ShardOK(a, shard[a])
  BY <1>1 DEF TypeOK, ShardsOK
<1>3. s \in Process /\ ShardOK(a, s) /\ s.proc = "none"
  <2>1. CASE shard[a].proc = "none"
    BY <1>2, <2>1 DEF Stopped
  <2>2. CASE shard[a].proc # "none"
    <3> DEFINE st == IF shard[a].ports = NoPorts THEN "no_tunnel_nodes" ELSE "stopped"
    <3>1. st \in Statuses
      BY DEF Statuses
    <3>2. s = [shard[a] EXCEPT !.proc = "none", !.status = st]
      BY <2>2 DEF Stopped
    <3> HIDE DEF st, s
    <3>3. /\ s \in Process /\ s.proc = "none"
          /\ s.nodes = shard[a].nodes /\ s.ports = shard[a].ports
      BY <1>2, <3>1, <3>2 DEF Process
    <3>4. QED
      BY <1>2, <3>3 DEF ShardOK
  <2>3. QED
    BY <2>1, <2>2
<1> HIDE DEF s
<1>4. /\ shard' \in [Shards -> Process] /\ ShardsOK' /\ shard'[a] = s
      /\ \A i \in Shards : i # a => shard'[i] = shard[i]
  BY <1>1, <1>3, ReplaceShard
<1>5. /\ op' \in Call /\ op'.commit = FALSE /\ op'.kind = "stop" /\ op'.at = a + 1
      /\ op'.oldNodes = op.oldNodes
  BY <1>1, <1>2, AdvanceFacts
<1>6. StopIsFinal'
  <2> SUFFICES ASSUME stopping, NEW i \in Shards, ~(a + 1 <= i) PROVE shard'[i].proc = "none"
    BY <1>1, <1>5 DEF StopIsFinal
  <2>1. i = a \/ ~(a <= i)
    BY <1>1, SingBoxAssumption DEF Shards
  <2>2. QED
    BY <1>1, <1>3, <1>4, <2>1 DEF StopIsFinal
<1>7. QED
  BY <1>1, <1>2, <1>4, <1>5, <1>6 DEF TypeOK, CallOK, LoadOK, UndoOK, Owned

\* Return: the mutex is free again.
LEMMA ReturnInv == RuntimeInv /\ Return => RuntimeInv'
<1> SUFFICES ASSUME RuntimeInv, Return PROVE RuntimeInv'
  OBVIOUS
<1> USE DEF RuntimeInv
<1>1. /\ op' = NoCall /\ op.at = NumShards + 1 /\ op \in Call
      /\ UNCHANGED <<shard, assigned, stopping>>
  BY DEF Return, TypeOK
<1>3. NoKeys \in [Shards -> SUBSET Keys] /\ \A i \in Shards : NoKeys[i] = {}
  BY DEF NoKeys
<1>4. 1 \in 1..(NumShards + 1)
  BY SingBoxAssumption
<1>5. /\ op' \in Call /\ op'.kind = "none" /\ op'.commit = FALSE
      /\ \A i \in Shards : op'.oldNodes[i] = {}
  BY <1>1, <1>3, <1>4 DEF NoCall, Call, Calls
<1>6. \A i \in Shards : ~(op.at <= i)
  BY <1>1, SingBoxAssumption DEF Shards
<1>7. StopIsFinal'
  BY <1>1, <1>6 DEF StopIsFinal
<1>8. QED
  BY <1>1, <1>5, <1>7 DEF TypeOK, ShardsOK, ShardOK, CallOK, LoadOK, UndoOK, Owned

\* A process that dies or whose death is noticed: the shard's nodes, ports and
\* rejections stay.
LEMMA ExitInv ==
  ASSUME RuntimeInv, NEW a \in Shards, ProcessDies(a) \/ ExitNoticed(a)
  PROVE  RuntimeInv'
<1> USE DEF RuntimeInv
<1> DEFINE s == shard'[a]
<1>1. /\ shard[a] \in Process /\ ShardOK(a, shard[a]) /\ shard \in [Shards -> Process]
      /\ UNCHANGED <<assigned, stopping, op>>
  BY DEF TypeOK, ShardsOK, ProcessDies, ExitNoticed
<1>2. /\ s \in Process /\ shard' = [shard EXCEPT ![a] = s]
      /\ s.nodes = shard[a].nodes /\ s.ports = shard[a].ports
      /\ s.rejected = shard[a].rejected /\ s.proc # "up"
      /\ shard[a].proc # "none"
  <2>1. CASE ProcessDies(a)
    <3>1. s = [shard[a] EXCEPT !.proc = "dead"]
      BY <1>1, <2>1 DEF ProcessDies
    <3>2. shard' = [shard EXCEPT ![a] = s] /\ shard[a].proc = "up"
      BY <1>1, <2>1, <3>1 DEF ProcessDies
    <3> HIDE DEF s
    <3>3. QED
      BY <1>1, <3>1, <3>2 DEF Process
  <2>2. CASE ExitNoticed(a)
    <3> DEFINE st == IF shard[a].status = "failed" THEN shard[a].status ELSE "stopped"
    <3>1. s = [shard[a] EXCEPT !.proc = "none", !.status = st]
      BY <1>1, <2>2 DEF ExitNoticed, Process
    <3>2. shard' = [shard EXCEPT ![a] = s] /\ shard[a].proc = "dead"
      BY <1>1, <2>2, <3>1 DEF ExitNoticed
    <3>3. st \in Statuses
      BY <1>1 DEF Process, Statuses
    <3> HIDE DEF s, st
    <3>4. QED
      BY <1>1, <3>1, <3>2, <3>3 DEF Process
  <2>3. QED
    BY <2>1, <2>2
<1>3. ShardOK(a, s)
  BY <1>1, <1>2 DEF ShardOK
<1>4. /\ shard' \in [Shards -> Process] /\ ShardsOK'
      /\ \A i \in Shards : i # a => shard'[i] = shard[i]
  BY <1>2, <1>3, ReplaceShard
<1>5. \A i \in Shards : /\ shard'[i].nodes = shard[i].nodes
                        /\ shard'[i].ports = shard[i].ports
                        /\ shard'[i].rejected = shard[i].rejected
  BY <1>2, <1>4
<1>6. LoadOK'
  BY <1>1, <1>5 DEF LoadOK, Settled, Target, Owned
<1>7. UndoOK'
  BY <1>1, <1>5 DEF UndoOK, Untouched, Restored
<1>8. StopIsFinal'
  BY <1>1, <1>2, <1>4 DEF StopIsFinal
<1>9. QED
  BY <1>1, <1>4, <1>6, <1>7, <1>8 DEF TypeOK, CallOK, Owned

-----------------------------------------------------------------------------
(* The theorems.                                                           *)

\* The invariant holds in every reachable state, for any number of shards,
\* keys and ports.
THEOREM RuntimeInvariant == Spec => []RuntimeInv
<1>1. RuntimeInv /\ [Next]_vars => RuntimeInv'
  <2> SUFFICES ASSUME RuntimeInv, [Next]_vars PROVE RuntimeInv'
    OBVIOUS
  <2>1. CASE UNCHANGED vars
    BY <2>1 DEF vars, RuntimeInv, TypeOK, ShardsOK, ShardOK, Owned, CallOK, LoadOK, Target,
                Settled, UndoOK, Untouched, Restored, StopIsFinal
  <2>2. CASE \/ \E target \in SUBSET Keys : BeginReload(target)
             \/ BeginClear \/ BeginRecover \/ BeginStop
    BY <2>2, CallsBegin
  <2>3. CASE Working
    BY <2>3, SkipInv, LoadInv, CommitInv, RecoverInv, BeginUndoInv, UndoInv, ClearInv,
       StopInv, ReturnInv DEF Working
  <2>4. CASE \E i \in Shards : ProcessDies(i) \/ ExitNoticed(i)
    BY <2>4, ExitInv
  <2>5. QED
    BY <2>1, <2>2, <2>3, <2>4 DEF Next
<1>2. QED
  BY <1>1, InitInv, PTL DEF Spec

\* Every variable of the runtime keeps its type.
THEOREM RuntimeTypeOK == Spec => []TypeOK
<1>1. RuntimeInv => TypeOK
  BY DEF RuntimeInv
<1>2. QED
  BY <1>1, RuntimeInvariant, PTL

\* A process that is up serves exactly the ports its shard publishes.
THEOREM PortsServed == Spec => []PortMapServed
<1>1. RuntimeInv => PortMapServed
  BY DEF RuntimeInv, ShardsOK, ShardOK, PortMapServed
<1>2. QED
  BY <1>1, RuntimeInvariant, PTL

\* No port stands for two nodes.
THEOREM PortsStayDistinct == Spec => []PortsDistinct
<1>1. RuntimeInv => PortsDistinct
  BY MergedDistinct DEF RuntimeInv
<1>2. QED
  BY <1>1, RuntimeInvariant, PTL

\* A Reload that succeeds has settled every node it was asked for.
THEOREM ReloadServes == Spec => []SuccessServesTarget
<1>1. RuntimeInv => SuccessServesTarget
  <2> SUFFICES ASSUME RuntimeInv, op.kind = "load", op.at = NumShards + 1, ~op.failed,
                      NEW k \in op.target
               PROVE  MergedPorts[k] # NoPort \/ k \in shard[ShardOf[k]].rejected
    BY DEF SuccessServesTarget
  <2>1. k \in Keys
    BY DEF RuntimeInv, TypeOK, Call
  <2>2. ShardOf[k] \in Shards /\ ShardOf[k] < op.at
    BY <2>1, SingBoxAssumption DEF Shards
  <2>3. k \in Target(ShardOf[k])
    BY <2>1 DEF Target, Owned
  <2>4. Settled(ShardOf[k], k)
    BY <2>2, <2>3 DEF RuntimeInv, LoadOK
  <2>5. QED
    BY <2>1, <2>4 DEF Settled, MergedPorts
<1>2. QED
  BY <1>1, RuntimeInvariant, PTL

\* A Reload that fails and can roll back leaves nothing behind.
THEOREM RollbackRestores == Spec => []FailureRestores
<1>1. RuntimeInv => FailureRestores
  <2>1. \A i \in Shards : i < NumShards + 1
    BY SingBoxAssumption DEF Shards
  <2>2. QED
    BY <2>1 DEF RuntimeInv, UndoOK, Restored, FailureRestores
<1>2. QED
  BY <1>1, RuntimeInvariant, PTL

\* Once Stop has visited a shard, no process runs there again.
THEOREM StopStays == Spec => []StopIsFinal
<1>1. RuntimeInv => StopIsFinal
  BY DEF RuntimeInv
<1>2. QED
  BY <1>1, RuntimeInvariant, PTL

-----------------------------------------------------------------------------
(* The runtime implements its contract.                                    *)

\* A shard publishes a port for exactly the nodes it holds.
NodesHavePorts(s) == \A k \in Keys : k \in s.nodes <=> s.ports[k] # NoPort

\* What the shard at hand was asked for, while its commit is pending.
Pending == IF op.kind = "load" THEN Target(op.at) ELSE op.oldNodes[op.at]

\* Shards hold committed nodes, or nodes a broken roll-back has left.
Covered(i) == shard[i].nodes \subseteq assigned[i] \cup extra

\* The port of k is the published one, or k has lost it.
PortKept(k) == MergedPorts[k] \in {published[k], NoPort}

\* Nodes that were published and still have a port have the same.
PortStays(k) == MergedPorts[k] # NoPort /\ published[k] # NoPort => PortKept(k)

PublishedBy(i) == {k \in Owned(i) : published[k] # NoPort}

\* Between calls the published map is the current one; a call may move away
\* from it only as far as the contract allows at its end.
OutsideLoad ==
  op.kind \notin {"load", "undo"} =>
    /\ \A i \in Shards : Covered(i)
    /\ op.kind \in {"none", "stop"} => \A k \in Keys : MergedPorts[k] = published[k]
    /\ op.kind = "recover" => \A k \in Keys : PortKept(k)
    /\ op.kind = "clear" => \A i \in Shards : i < op.at => shard[i].nodes = {}
    /\ op.target = {}

\* The snapshot a Reload takes is what was published, and its shards hold
\* nothing but that and what was asked for.
SnapshotPublished ==
  op.kind \in {"load", "undo"} =>
    \A i \in Shards :
      /\ op.oldNodes[i] = PublishedBy(i)
      /\ op.oldNodes[i] \subseteq op.oldKeys[i] \cup extra
      /\ shard[i].nodes \subseteq op.oldNodes[i] \cup op.target

\* A shard that a Reload has passed: nodes that were not asked for are leftovers.
\* Where nodes were asked for, one is there.
Delivered(i) ==
  /\ \A k \in shard[i].nodes :
       \/ k \in assigned[i] /\ k \in op.target
       \/ k \in extra /\ k \notin op.target
  /\ Target(i) # {} => shard[i].nodes \cap Target(i) # {}

InsideLoad ==
  op.kind = "load" =>
    /\ \A i \in op.touched : i < op.at \/ (i = op.at /\ op.commit)
    /\ \A k \in Keys : PortStays(k)
    /\ ~op.failed => \A i \in Shards : i < op.at => Delivered(i)

InsideUndo ==
  /\ op.kind = "undo" => \A i \in Shards : i < op.at => assigned[i] = op.oldKeys[i]
  /\ op.broken => op.kind = "undo"

\* The inductive invariant of the refinement, on top of RuntimeInv.
ContractInv ==
  /\ published \in PortMap
  /\ extra \subseteq Keys
  /\ \A i \in Shards : NodesHavePorts(shard[i])
  /\ op.commit => shard[op.at].nodes = Pending \ shard[op.at].rejected
  /\ OutsideLoad
  /\ SnapshotPublished
  /\ InsideLoad
  /\ InsideUndo

\* The published map and the current one look a key up in its own shard.
LEMMA MergedAt ==
  /\ \A k \in Keys : ShardOf[k] \in Shards /\ k \in Owned(ShardOf[k])
  /\ \A i \in Shards : \A k \in Owned(i) : k \in Keys /\ i = ShardOf[k]
  /\ \A k \in Keys : MergedPorts[k] = shard[ShardOf[k]].ports[k]
  /\ \A k \in Keys : MergedPorts'[k] = shard'[ShardOf[k]].ports[k]
BY SingBoxAssumption DEF Owned, MergedPorts

\* What SingBoxProcess.Reload does to nodes and ports: it loads nothing but the
\* target, and a node that is still there has its old port.
LEMMA ReloadPorts ==
  ASSUME NEW i \in Shards, NEW target, target \subseteq Owned(i),
         shard[i] \in Process, NodesHavePorts(shard[i]),
         NEW s \in ReloadShard(i, target)
  PROVE  /\ NodesHavePorts(s)
         /\ s.nodes \subseteq target \cup shard[i].nodes
         /\ ~ReloadFailed(s) => s.nodes = target \ s.rejected
         /\ \A k \in Keys : s.ports[k] # NoPort /\ shard[i].ports[k] # NoPort
                            => s.ports[k] = shard[i].ports[k]
<1>1. CASE s = Cleared /\ target = {}
  BY <1>1 DEF Cleared, NodesHavePorts, NoPorts
<1>2. CASE s = Refused(i)
  <2>1. s.nodes = shard[i].nodes /\ s.ports = shard[i].ports /\ s.status = "failed"
    BY <1>2 DEF Refused, Process
  <2>2. QED
    BY <2>1 DEF NodesHavePorts, ReloadFailed
<1>3. CASE s \in NotStarted(i)
  <2>1. s.nodes = shard[i].nodes /\ s.ports = shard[i].ports /\ s.status = "failed"
    BY <1>3 DEF NotStarted, Process
  <2>2. QED
    BY <2>1 DEF NodesHavePorts, ReloadFailed
<1>4. CASE s \in Restarted(i, target)
  <2>1. PICK f \in Allocations(i, shard[i].ports, target), good \in (SUBSET target) \ {{}},
             status \in {"running", "partial"} : s = Started(f, target, good, status)
    BY <1>4 DEF Restarted
  <2>2. /\ f \in [target -> Segment[i]]
        /\ \A k \in target : shard[i].ports[k] # NoPort => f[k] = shard[i].ports[k]
    BY <2>1 DEF Allocations, Kept
  <2>3. target \subseteq Keys /\ good \subseteq target
    BY <2>1 DEF Owned
  <2>4. \A k \in good : f[k] # NoPort
    BY <2>2, <2>3, SingBoxAssumption DEF NoPort
  <2> DEFINE ports == [k \in Keys |-> IF k \in good THEN f[k] ELSE NoPort]
  <2>5. s.nodes = good /\ s.ports = ports /\ s.rejected = target \ good
    BY <2>1 DEF Started
  <2>6. \A k \in Keys : ports[k] = IF k \in good THEN f[k] ELSE NoPort
    OBVIOUS
  <2> HIDE DEF ports
  <2>7. NodesHavePorts(s)
    BY <2>3, <2>4, <2>5, <2>6 DEF NodesHavePorts
  <2>8. QED
    BY <2>2, <2>3, <2>5, <2>6, <2>7
<1>5. QED
  BY <1>1, <1>2, <1>3, <1>4 DEF ReloadShard

\* Initially nothing is loaded and nothing published.
LEMMA InitContract == InitPublished => ContractInv
<1> SUFFICES ASSUME InitPublished PROVE ContractInv
  OBVIOUS
<1> USE SingBoxAssumption DEF InitPublished, Init
<1>1. MergedPorts \in PortMap
  BY InitInv, MergedDistinct DEF RuntimeInv
<1>2. \A i \in Shards : shard[i].nodes = {} /\ \A k \in Keys : shard[i].ports[k] = NoPort
  BY DEF Cleared, NoPorts
<1>3. \A i \in Shards : NodesHavePorts(shard[i])
  BY <1>2 DEF NodesHavePorts
<1>4. op.kind = "none" /\ ~op.commit /\ ~op.broken /\ op.target = {}
  BY DEF NoCall
<1>5. OutsideLoad /\ SnapshotPublished /\ InsideLoad /\ InsideUndo
  BY <1>2, <1>4 DEF OutsideLoad, SnapshotPublished, InsideLoad, InsideUndo, Covered
<1>6. QED
  BY <1>1, <1>3, <1>4, <1>5 DEF ContractInv

\* A call that begins: nothing has changed yet, and the snapshot of a Reload is
\* what is published.
LEMMA BeginContract ==
  ASSUME RuntimeInv, ContractInv, UNCHANGED <<published, extra>>,
         \/ \E target \in SUBSET Keys : BeginReload(target)
         \/ BeginClear \/ BeginRecover \/ BeginStop
  PROVE  ContractInv'
<1> USE DEF ContractInv
<1>1. /\ op.kind = "none" /\ UNCHANGED <<shard, assigned>>
      /\ \A i \in Shards : Covered(i)
      /\ \A k \in Keys : MergedPorts[k] = published[k]
  BY DEF BeginReload, BeginClear, BeginRecover, BeginStop, Idle, OutsideLoad
<1>2. UNCHANGED MergedPorts
  BY <1>1 DEF MergedPorts
<1>3. \A i \in Shards : NodesHavePorts(shard[i])'
  BY <1>1 DEF NodesHavePorts
<1>4. \A i \in Shards : ~(i < 1)
  BY SingBoxAssumption DEF Shards
<1>5. ASSUME NEW target \in SUBSET Keys, BeginReload(target) PROVE ContractInv'
  <2>1. /\ op'.kind = "load" /\ op'.at = 1 /\ ~op'.commit /\ ~op'.broken /\ ~op'.failed
        /\ op'.touched = {} /\ op'.oldKeys = assigned
        /\ op'.oldNodes = [i \in Shards |-> shard[i].nodes]
    BY <1>5 DEF BeginReload, NoCall
  <2>2. \A i \in Shards : op'.oldNodes[i] = shard[i].nodes
    BY <2>1
  <2>3. \A i \in Shards : shard[i].nodes = PublishedBy(i)
    <3> SUFFICES ASSUME NEW i \in Shards PROVE shard[i].nodes = PublishedBy(i)
      OBVIOUS
    <3>1. shard[i].nodes \subseteq Owned(i)
      BY DEF RuntimeInv, ShardsOK, ShardOK
    <3>2. \A k \in Owned(i) : k \in shard[i].nodes <=> published[k] # NoPort
      BY <1>1, MergedAt DEF NodesHavePorts
    <3>3. QED
      BY <3>1, <3>2 DEF PublishedBy
  <2>4. SnapshotPublished'
    BY <1>1, <2>1, <2>2, <2>3 DEF SnapshotPublished, PublishedBy, Covered, Owned
  <2>5. InsideLoad'
    BY <1>1, <1>2, <1>4, <2>1 DEF InsideLoad, PortStays, PortKept
  <2>6. QED
    BY <1>3, <2>1, <2>4, <2>5 DEF OutsideLoad, InsideUndo
<1>6. ASSUME NEW c \in {"clear", "recover", "stop"}, op' = [NoCall EXCEPT !.kind = c]
      PROVE  ContractInv'
  <2>1. op'.kind = c /\ op'.at = 1 /\ ~op'.commit /\ ~op'.broken /\ op'.target = {}
    BY <1>6 DEF NoCall
  <2>2. OutsideLoad'
    BY <1>1, <1>2, <1>4, <2>1 DEF OutsideLoad, Covered, PortKept
  <2>3. QED
    BY <1>3, <2>1, <2>2 DEF SnapshotPublished, InsideLoad, InsideUndo
<1>7. QED
  BY <1>5, <1>6 DEF BeginClear, BeginRecover, BeginStop

\* A shard without a commit error has a node of its target.
LEMMA NoErrorServes ==
  ASSUME NEW t \in Process, NodesHavePorts(t), NEW target \in SUBSET Keys, target # {},
         ~CommitError(t, target)
  PROVE  t.nodes \cap target # {}
BY DEF CommitError, NodesHavePorts

\* SkipShard: the shard it passes has delivered already.
LEMMA SkipContract ==
  ASSUME RuntimeInv, ContractInv, SkipShard, UNCHANGED <<published, extra>>
  PROVE  ContractInv'
<1> USE DEF ContractInv
<1> DEFINE a == op.at
<1>1. /\ op.kind \in {"load", "recover", "undo"} /\ a \in Shards /\ op' = Advance /\ ~op.commit
      /\ UNCHANGED <<shard, assigned>>
  BY DEF SkipShard, At
<1>2. /\ op'.at = a + 1 /\ ~op'.commit /\ op'.kind = op.kind
      /\ op'.target = op.target /\ op'.oldNodes = op.oldNodes /\ op'.oldKeys = op.oldKeys
      /\ op'.touched = op.touched /\ op'.failed = op.failed /\ op'.broken = op.broken
  BY <1>1, AdvanceFacts DEF RuntimeInv, TypeOK
<1>3. UNCHANGED MergedPorts /\ \A i \in Shards : NodesHavePorts(shard[i])'
  BY <1>1 DEF MergedPorts, NodesHavePorts
<1>4. OutsideLoad' /\ SnapshotPublished'
  BY <1>1, <1>2, <1>3 DEF OutsideLoad, SnapshotPublished, Covered, PortKept, PublishedBy, Owned
<1>5. ASSUME op.kind = "load" PROVE Delivered(a)
  <2>1. a \notin op.touched
    BY <1>1, <1>5 DEF InsideLoad, Shards
  <2>2. assigned[a] = op.oldKeys[a] /\ shard[a].nodes = op.oldNodes[a]
    BY <1>1, <1>5, <2>1 DEF RuntimeInv, UndoOK, Untouched
  <2>3. Target(a) = assigned[a] /\ ~NeedsReload(shard[a], Target(a))
    BY <1>5 DEF SkipShard, At
  <2>4. \A k \in shard[a].nodes : k \in Owned(a) /\ (k \in assigned[a] \/ k \in extra)
    BY <1>1, <1>5, <2>2 DEF SnapshotPublished, RuntimeInv, ShardsOK, ShardOK
  <2>5. Target(a) # {} => shard[a].nodes \cap Target(a) # {}
    <3>1. Target(a) \in SUBSET Keys /\ shard[a] \in Process
      BY <1>1 DEF Target, Owned, RuntimeInv, TypeOK
    <3>2. Target(a) # {} => ~CommitError(shard[a], Target(a))
      BY <2>3 DEF NeedsReload
    <3>3. QED
      BY <1>1, <3>1, <3>2, NoErrorServes
  <2>6. QED
    BY <2>3, <2>4, <2>5 DEF Delivered, Target
<1>6. InsideLoad'
  <2> SUFFICES ASSUME op.kind = "load" PROVE InsideLoad'
    BY <1>2 DEF InsideLoad
  <2>1. \A i \in op.touched : i < a + 1
    BY <1>1 DEF InsideLoad, Shards, RuntimeInv, TypeOK, Call
  <2>2. \A k \in Keys : PortStays(k)'
    BY <1>3 DEF InsideLoad, PortStays, PortKept
  <2>3. ~op.failed => \A i \in Shards : i < a + 1 => Delivered(i)
    BY <1>1, <1>5, Passed DEF InsideLoad
  <2>4. \A i \in Shards : Delivered(i) => Delivered(i)'
    BY <1>1, <1>2 DEF Delivered, Target, Owned
  <2>5. QED
    BY <1>2, <2>1, <2>2, <2>3, <2>4 DEF InsideLoad
<1>7. InsideUndo'
  <2>1. op.kind = "undo" => assigned[a] = op.oldKeys[a]
    BY <1>1 DEF SkipShard, At, RuntimeInv, UndoOK, Untouched
  <2>2. QED
    BY <1>1, <1>2, <2>1, Passed DEF InsideUndo
<1>8. QED
  BY <1>2, <1>3, <1>4, <1>6, <1>7

\* LoadShard: kept nodes keep their ports.
LEMMA LoadContract ==
  ASSUME RuntimeInv, ContractInv, LoadShard, UNCHANGED <<published, extra>>
  PROVE  ContractInv'
<1> USE DEF ContractInv
<1> DEFINE a == op.at
<1>1. op.kind = "load" /\ a \in Shards /\ ~op.commit /\ UNCHANGED assigned
  BY LoadEffect
<1>2. PICK s \in ReloadShard(a, Target(a)), bad \in BOOLEAN :
        /\ bad = ReloadFailed(s)
        /\ shard'[a] = s
        /\ \A i \in Shards : i # a => shard'[i] = shard[i]
        /\ op'.kind = "load" /\ op'.target = op.target
        /\ op'.oldNodes = op.oldNodes /\ op'.oldKeys = op.oldKeys
        /\ op'.touched = op.touched \cup {a} /\ op'.commit = ~bad
        /\ op'.failed = (op.failed \/ bad) /\ op'.broken = op.broken
        /\ op'.at = IF bad THEN a + 1 ELSE a
  BY LoadEffect
<1>3. /\ NodesHavePorts(s)
      /\ s.nodes \subseteq Target(a) \cup shard[a].nodes
      /\ ~bad => s.nodes = Target(a) \ s.rejected
      /\ \A k \in Keys : s.ports[k] # NoPort /\ shard[a].ports[k] # NoPort
                         => s.ports[k] = shard[a].ports[k]
  <2>1. Target(a) \subseteq Owned(a) /\ shard[a] \in Process
    BY <1>1 DEF Target, RuntimeInv, TypeOK
  <2>2. QED
    BY <1>1, <1>2, <2>1, ReloadPorts
<1>4. \A i \in Shards : NodesHavePorts(shard'[i])
  BY <1>1, <1>2, <1>3
<1>5. op'.commit => shard'[op'.at].nodes = Pending' \ shard'[op'.at].rejected
  BY <1>1, <1>2, <1>3 DEF Pending, Target, Owned
<1>6. SnapshotPublished'
  BY <1>1, <1>2, <1>3 DEF SnapshotPublished, PublishedBy, Target, Owned
<1>7. a \notin op.touched
  BY <1>1 DEF InsideLoad, Shards
<1>8. \A k \in Keys : PortStays(k)'
  <2> SUFFICES ASSUME NEW k \in Keys, MergedPorts'[k] # NoPort, published[k] # NoPort
               PROVE  MergedPorts'[k] = published[k]
    BY DEF PortStays, PortKept
  <2>1. CASE ShardOf[k] = a
    <3>1. s.ports[k] # NoPort /\ k \in Owned(a)
      BY <1>2, <2>1, MergedAt
    <3>2. shard[a].nodes = PublishedBy(a)
      BY <1>1, <1>7 DEF SnapshotPublished, RuntimeInv, UndoOK, Untouched
    <3>3. shard[a].ports[k] # NoPort
      BY <1>1, <3>1, <3>2, MergedAt DEF PublishedBy, NodesHavePorts
    <3>4. s.ports[k] = shard[a].ports[k]
      BY <1>3, <3>1, <3>3
    <3>5. MergedPorts'[k] = MergedPorts[k]
      BY <1>2, <2>1, <3>4, MergedAt
    <3>6. QED
      BY <1>1, <3>5 DEF InsideLoad, PortStays, PortKept
  <2>2. CASE ShardOf[k] # a
    <3>1. MergedPorts'[k] = MergedPorts[k]
      BY <1>2, <2>2, MergedAt
    <3>2. QED
      BY <1>1, <3>1 DEF InsideLoad, PortStays, PortKept
  <2>3. QED
    BY <2>1, <2>2
<1>9. InsideLoad'
  <2>0. a \in Nat /\ \A i \in op.touched : i < a
    BY <1>1, <1>7 DEF InsideLoad, Shards
  <2>1. \A i \in op'.touched : i < op'.at \/ (i = op'.at /\ op'.commit)
    <3>1. ASSUME NEW i \in op.touched PROVE i < a + 1
      <4>1. i \in Nat /\ i < a
        BY <2>0 DEF RuntimeInv, TypeOK, Call, Shards
      <4>2. QED
        BY <2>0, <4>1
    <3>2. CASE bad
      BY <1>2, <2>0, <3>1, <3>2
    <3>3. CASE ~bad
      BY <1>2, <2>0, <3>3
    <3>4. QED
      BY <3>2, <3>3
  <2>2. ASSUME ~op'.failed, NEW i \in Shards, i < op'.at PROVE Delivered(i)'
    <3>0. ~bad /\ ~op.failed
      BY <1>2, <2>2
    <3>1. i < a /\ i # a
      BY <1>2, <2>0, <2>2, <3>0
    <3>2. Delivered(i)
      BY <1>1, <3>0, <3>1 DEF InsideLoad
    <3>3. QED
      BY <1>1, <1>2, <3>1, <3>2 DEF Delivered, Target, Owned
  <2>3. QED
    BY <1>8, <2>1, <2>2 DEF InsideLoad
<1>10. OutsideLoad' /\ InsideUndo'
  BY <1>1, <1>2 DEF OutsideLoad, InsideUndo
<1>11. QED
  BY <1>4, <1>5, <1>6, <1>9, <1>10

\* CommitShard: the nodes of the shard at hand are committed now, or the call has
\* failed.
LEMMA CommitContract ==
  ASSUME RuntimeInv, ContractInv, CommitShard, UNCHANGED <<published, extra>>
  PROVE  ContractInv'
<1> USE DEF ContractInv
<1> DEFINE a == op.at
           bad == CommitError(shard[a], Pending)
<1>1. bad \in BOOLEAN
  BY DEF CommitError
<1> HIDE DEF bad
<1>2. /\ op.kind \in {"load", "recover"} /\ a \in Shards /\ op.commit
      /\ UNCHANGED shard
      /\ \A i \in Shards : i # a => assigned'[i] = assigned[i]
      /\ assigned'[a] = IF bad THEN assigned[a] ELSE Pending \ shard[a].rejected
      /\ op'.kind = op.kind /\ op'.at = a + 1 /\ ~op'.commit
      /\ op'.target = op.target /\ op'.oldNodes = op.oldNodes /\ op'.oldKeys = op.oldKeys
      /\ op'.touched = op.touched /\ op'.broken = op.broken
      /\ op'.failed = (op.failed \/ bad)
  <2>1. Pending = IF op.kind = "load" THEN Target(a) ELSE op.oldNodes[a]
    BY DEF Pending
  <2>2. bad = CommitError(shard[a], Pending)
    BY DEF bad
  <2> HIDE DEF a
  <2>3. QED
    BY <1>1, <2>1, <2>2, CommitEffect DEF a
<1>3. UNCHANGED MergedPorts /\ \A i \in Shards : NodesHavePorts(shard[i])'
  BY <1>2 DEF MergedPorts, NodesHavePorts
<1>4. shard[a].nodes = Pending \ shard[a].rejected
  BY <1>2
<1>5. SnapshotPublished' /\ InsideUndo'
  BY <1>2 DEF SnapshotPublished, PublishedBy, Owned, InsideUndo
<1>6. OutsideLoad'
  <2> SUFFICES ASSUME op.kind = "recover" PROVE OutsideLoad'
    BY <1>2 DEF OutsideLoad
  <2>1. \A i \in Shards : Covered(i)'
    BY <1>2, <1>4 DEF OutsideLoad, Covered
  <2>2. \A k \in Keys : PortKept(k)'
    BY <1>3 DEF OutsideLoad, PortKept
  <2>3. QED
    BY <1>2, <2>1, <2>2 DEF OutsideLoad
<1>7. InsideLoad'
  <2> SUFFICES ASSUME op.kind = "load" PROVE InsideLoad'
    BY <1>2 DEF InsideLoad
  <2>1. \A i \in op.touched : i < a + 1
    BY <1>2 DEF InsideLoad, Shards, RuntimeInv, TypeOK, Call
  <2>2. \A k \in Keys : PortStays(k)'
    BY <1>3 DEF InsideLoad, PortStays, PortKept
  <2>3. ASSUME ~op'.failed, NEW i \in Shards, i < a + 1 PROVE Delivered(i)'
    <3>1. ~bad /\ ~op.failed
      BY <1>2, <2>3
    <3>2. CASE i = a
      <4>1. Pending = Target(a) /\ Target(a) \in SUBSET Keys /\ shard[a] \in Process
        BY <1>2 DEF Pending, Target, Owned, RuntimeInv, TypeOK
      <4>2. Target(a) # {} => shard[a].nodes \cap Target(a) # {}
        BY <1>2, <3>1, <4>1, NoErrorServes DEF bad
      <4>3. \A k \in shard[a].nodes : k \in assigned'[a] /\ k \in op.target
        BY <1>2, <1>4, <3>1, <4>1 DEF Target
      <4>4. QED
        BY <1>2, <3>2, <4>2, <4>3 DEF Delivered, Target, Owned
    <3>3. CASE i # a
      <4>1. Delivered(i)
        BY <1>2, <2>3, <3>1, <3>3, Passed DEF InsideLoad
      <4>2. QED
        BY <1>2, <3>3, <4>1 DEF Delivered, Target, Owned
    <3>4. QED
      BY <3>2, <3>3
  <2>4. QED
    BY <1>2, <2>1, <2>2, <2>3 DEF InsideLoad
<1>8. QED
  BY <1>2, <1>3, <1>5, <1>6, <1>7

\* RecoverShard: nodes are loaded again on their old ports, or lost.
LEMMA RecoverContract ==
  ASSUME RuntimeInv, ContractInv, RecoverShard, UNCHANGED <<published, extra>>
  PROVE  ContractInv'
<1> USE DEF ContractInv
<1> DEFINE a == op.at
<1>1. op.kind = "recover" /\ a \in Shards /\ UNCHANGED assigned
      /\ shard[a].nodes \subseteq Owned(a)
  BY RecoverEffect
<1>2. PICK s \in ReloadShard(a, shard[a].nodes), bad \in BOOLEAN :
        /\ bad = ReloadFailed(s)
        /\ shard'[a] = s
        /\ \A i \in Shards : i # a => shard'[i] = shard[i]
        /\ op'.kind = "recover" /\ op'.commit = ~bad
        /\ op'.target = op.target /\ op'.broken = op.broken
        /\ op'.at = IF bad THEN a + 1 ELSE a
        /\ \A i \in Shards : op'.oldNodes[i] = IF i = a THEN shard[a].nodes ELSE op.oldNodes[i]
  BY RecoverEffect
<1>3. /\ NodesHavePorts(s)
      /\ s.nodes \subseteq shard[a].nodes
      /\ ~bad => s.nodes = shard[a].nodes \ s.rejected
      /\ \A k \in Keys : s.ports[k] # NoPort /\ shard[a].ports[k] # NoPort
                         => s.ports[k] = shard[a].ports[k]
  <2>1. shard[a] \in Process
    BY <1>1 DEF RuntimeInv, TypeOK
  <2>2. QED
    BY <1>1, <1>2, <2>1, ReloadPorts
<1>4. \A i \in Shards : NodesHavePorts(shard'[i])
  BY <1>1, <1>2, <1>3
<1>5. op'.commit => shard'[op'.at].nodes = Pending' \ shard'[op'.at].rejected
  BY <1>1, <1>2, <1>3 DEF Pending
<1>6. \A i \in Shards : Covered(i)'
  BY <1>1, <1>2, <1>3 DEF OutsideLoad, Covered
<1>7. ASSUME NEW k \in Keys PROVE PortKept(k)'
  <2>1. PortKept(k)
    BY <1>1, <1>7 DEF OutsideLoad
  <2>2. CASE ShardOf[k] = a
    <3>1. s.ports[k] = NoPort \/ s.ports[k] = shard[a].ports[k]
      BY <1>1, <1>3, <1>7 DEF NodesHavePorts
    <3>2. MergedPorts'[k] = s.ports[k] /\ MergedPorts[k] = shard[a].ports[k]
      BY <1>2, <1>7, <2>2, MergedAt
    <3>3. QED
      BY <2>1, <3>1, <3>2 DEF PortKept
  <2>3. CASE ShardOf[k] # a
    <3>1. MergedPorts'[k] = MergedPorts[k]
      BY <1>2, <1>7, <2>3, MergedAt
    <3>2. QED
      BY <2>1, <3>1 DEF PortKept
  <2>4. QED
    BY <2>2, <2>3
<1>8. QED
  BY <1>1, <1>2, <1>4, <1>5, <1>6, <1>7
     DEF OutsideLoad, SnapshotPublished, InsideLoad, InsideUndo

\* BeginUndo: the snapshot is still the published map.
LEMMA BeginUndoContract ==
  ASSUME RuntimeInv, ContractInv, BeginUndo, UNCHANGED <<published, extra>>
  PROVE  /\ ContractInv'
         /\ op.kind = "load" /\ op'.kind = "undo" /\ op'.target = op.target /\ ~op'.broken
<1> USE DEF ContractInv
<1>1. /\ op.kind = "load" /\ op.at = NumShards + 1
      /\ op' = [op EXCEPT !.kind = "undo", !.at = 1]
      /\ UNCHANGED <<shard, assigned>>
  BY DEF BeginUndo
<1>2. op \in Call /\ NumShards + 1 \notin Shards /\ \A i \in Shards : ~(i < 1)
  BY SingBoxAssumption DEF RuntimeInv, TypeOK, Shards
<1>3. /\ op'.kind = "undo" /\ op'.at = 1 /\ op'.oldNodes = op.oldNodes
      /\ op'.oldKeys = op.oldKeys /\ op'.commit = op.commit
      /\ op'.broken = op.broken /\ op'.target = op.target
  BY <1>1, <1>2 DEF Call
<1>4. ~op.commit /\ ~op.broken
  BY <1>1, <1>2 DEF RuntimeInv, CallOK, InsideUndo
<1>5. \A i \in Shards : NodesHavePorts(shard[i])'
  BY <1>1 DEF NodesHavePorts
<1>6. SnapshotPublished'
  BY <1>1, <1>3 DEF SnapshotPublished, PublishedBy, Owned
<1>7. QED
  BY <1>1, <1>2, <1>3, <1>4, <1>5, <1>6 DEF OutsideLoad, InsideLoad, InsideUndo

\* UndoShard: the shard at hand has its old keys, and no node that was neither
\* there nor asked for.
LEMMA UndoContract ==
  ASSUME RuntimeInv, ContractInv, UndoShard, UNCHANGED <<published, extra>>
  PROVE  /\ ContractInv'
         /\ op.kind = "undo" /\ op'.kind = "undo" /\ op'.target = op.target
         /\ op'.broken \in BOOLEAN /\ op.broken => op'.broken
<1> USE DEF ContractInv
<1> DEFINE a == op.at
<1>1. /\ op.kind = "undo" /\ a \in Shards
      /\ assigned'[a] = op.oldKeys[a]
      /\ \A i \in Shards : i # a => assigned'[i] = assigned[i]
  BY UndoEffect
<1>2. PICK s \in ReloadShard(a, op.oldNodes[a]), bad \in BOOLEAN :
        /\ shard'[a] = s
        /\ \A i \in Shards : i # a => shard'[i] = shard[i]
        /\ op'.kind = "undo" /\ op'.at = a + 1 /\ op'.commit = FALSE
        /\ op'.target = op.target
        /\ op'.oldNodes = op.oldNodes /\ op'.oldKeys = op.oldKeys
        /\ op'.broken = (op.broken \/ bad)
  BY UndoEffect
<1>3. NodesHavePorts(s) /\ s.nodes \subseteq op.oldNodes[a] \cup shard[a].nodes
  <2>1. shard[a] \in Process /\ op.oldNodes[a] \subseteq Owned(a)
    BY <1>1 DEF RuntimeInv, TypeOK, CallOK
  <2>2. QED
    BY <1>1, <1>2, <2>1, ReloadPorts
<1>4. \A i \in Shards : NodesHavePorts(shard'[i])
  BY <1>1, <1>2, <1>3
<1>5. SnapshotPublished'
  BY <1>1, <1>2, <1>3 DEF SnapshotPublished, PublishedBy, Owned
<1>6. InsideUndo'
  BY <1>1, <1>2, Passed DEF InsideUndo
<1>7. op.broken \in BOOLEAN
  BY DEF RuntimeInv, TypeOK, Call
<1>8. QED
  BY <1>1, <1>2, <1>4, <1>5, <1>6, <1>7 DEF OutsideLoad, InsideLoad

\* ClearShard: nothing is left of the shard at hand.
LEMMA ClearContract ==
  ASSUME RuntimeInv, ContractInv, ClearShard, UNCHANGED <<published, extra>>
  PROVE  ContractInv'
<1> USE DEF ContractInv
<1> DEFINE a == op.at
<1>1. /\ op.kind = "clear" /\ a \in Shards /\ op' = Advance
      /\ shard' = [shard EXCEPT ![a] = Cleared]
      /\ assigned' = [assigned EXCEPT ![a] = {}]
  BY DEF ClearShard, At
<1>2. /\ op \in Call /\ shard \in [Shards -> Process] /\ assigned \in [Shards -> SUBSET Keys]
  BY DEF RuntimeInv, TypeOK
<1>3. /\ ~op'.commit /\ op'.kind = "clear" /\ op'.at = a + 1
      /\ op'.target = op.target /\ op'.broken = op.broken
  BY <1>1, <1>2, AdvanceFacts
<1>4. /\ shard'[a].nodes = {} /\ NodesHavePorts(shard'[a])
      /\ \A i \in Shards : i # a => shard'[i] = shard[i] /\ assigned'[i] = assigned[i]
  BY <1>1, <1>2 DEF Cleared, NodesHavePorts, NoPorts
<1>5. \A i \in Shards : NodesHavePorts(shard'[i]) /\ Covered(i)'
  BY <1>1, <1>4 DEF OutsideLoad, Covered
<1>6. \A i \in Shards : i < a + 1 => shard'[i].nodes = {}
  BY <1>1, <1>4, Passed DEF OutsideLoad
<1>7. QED
  BY <1>1, <1>3, <1>5, <1>6 DEF OutsideLoad, SnapshotPublished, InsideLoad, InsideUndo

\* StopShard, a process that dies, and the notice of it leave nodes and ports alone.
LEMMA ProcessContract ==
  ASSUME RuntimeInv, ContractInv, UNCHANGED <<published, extra>>,
         StopShard \/ \E i \in Shards : ProcessDies(i) \/ ExitNoticed(i)
  PROVE  /\ ContractInv'
         /\ op'.kind = op.kind /\ op'.target = op.target /\ op'.broken = op.broken
         /\ op' # op => op.kind = "stop"
<1> USE DEF ContractInv
<1>1. op \in Call /\ shard \in [Shards -> Process]
  BY DEF RuntimeInv, TypeOK
<1>2. /\ UNCHANGED assigned
      /\ \A i \in Shards : /\ shard'[i].nodes = shard[i].nodes
                           /\ shard'[i].ports = shard[i].ports
                           /\ shard'[i].rejected = shard[i].rejected
      /\ \/ UNCHANGED op
         \/ op' = Advance /\ op.kind = "stop" /\ op.at \in Shards
  <2>1. CASE StopShard
    BY <1>1, <2>1 DEF StopShard, At, Stopped, Process
  <2>2. ASSUME NEW a \in Shards, ProcessDies(a) PROVE <1>2
    BY <1>1, <2>2 DEF ProcessDies, Process
  <2>3. ASSUME NEW a \in Shards, ExitNoticed(a) PROVE <1>2
    BY <1>1, <2>3 DEF ExitNoticed, Process
  <2>4. QED
    BY <2>1, <2>2, <2>3
<1>3. /\ op'.kind = op.kind /\ op'.target = op.target /\ op'.broken = op.broken
      /\ \/ UNCHANGED op
         \/ op.kind = "stop" /\ ~op'.commit
  BY <1>1, <1>2, AdvanceFacts
<1>4. \A i \in Shards : NodesHavePorts(shard'[i])
  BY <1>2 DEF NodesHavePorts
<1>5. MergedPorts' = MergedPorts
  BY <1>2, SingBoxAssumption DEF MergedPorts
<1>6. op'.commit => shard'[op'.at].nodes = Pending' \ shard'[op'.at].rejected
  <2> SUFFICES ASSUME op'.commit PROVE shard'[op.at].nodes = Pending \ shard'[op.at].rejected
               /\ UNCHANGED op /\ UNCHANGED Pending
    OBVIOUS
  <2>1. UNCHANGED op /\ op.at \in Shards
    BY <1>3 DEF RuntimeInv, CallOK
  <2>2. QED
    BY <1>2, <2>1 DEF Pending, Target, Owned
<1>7. OutsideLoad'
  <2>1. \A i \in Shards : Covered(i) => Covered(i)'
    BY <1>2 DEF Covered
  <2>2. \A k \in Keys : PortKept(k) => PortKept(k)'
    BY <1>5 DEF PortKept
  <2>3. op.kind = "clear" => UNCHANGED op
    BY <1>3
  <2>4. QED
    BY <1>2, <1>3, <1>5, <2>1, <2>2, <2>3 DEF OutsideLoad
<1>8. SnapshotPublished'
  <2> SUFFICES ASSUME op.kind \in {"load", "undo"} PROVE SnapshotPublished'
    BY <1>3 DEF SnapshotPublished
  <2>1. UNCHANGED op
    BY <1>3
  <2>2. QED
    BY <1>2, <2>1 DEF SnapshotPublished, PublishedBy, Owned
<1>9. InsideLoad'
  <2> SUFFICES ASSUME op.kind = "load" PROVE InsideLoad'
    BY <1>3 DEF InsideLoad
  <2>1. UNCHANGED op
    BY <1>3
  <2>2. \A k \in Keys : PortStays(k) => PortStays(k)'
    BY <1>5 DEF PortStays, PortKept
  <2>3. \A i \in Shards : Delivered(i) => Delivered(i)'
    BY <1>2, <2>1 DEF Delivered, Target, Owned
  <2>4. QED
    BY <2>1, <2>2, <2>3 DEF InsideLoad
<1>10. InsideUndo'
  <2>1. op.kind = "undo" => UNCHANGED op
    BY <1>3
  <2>2. QED
    BY <1>2, <1>3, <2>1 DEF InsideUndo
<1>11. QED
  BY <1>3, <1>4, <1>6, <1>7, <1>8, <1>9, <1>10

\* What the call in progress is for the contract.
LEMMA ContractCallIs ==
  /\ ContractCall.target = op.target
  /\ op.kind \in {"load", "clear"} => ContractCall.kind = "reload"
  /\ op.kind = "undo" /\ op.broken => ContractCall.kind = "broken"
  /\ op.kind = "undo" /\ ~op.broken => ContractCall.kind = "failing"
  /\ op.kind \in {"none", "recover", "stop"} => ContractCall.kind = op.kind
BY DEF ContractCall

\* The nodes of the merged map are the nodes the shards hold.
LEMMA MergedLoaded ==
  ASSUME ContractInv, RuntimeInv
  PROVE  /\ \A k \in Keys : MergedPorts[k] # NoPort <=> k \in shard[ShardOf[k]].nodes
         /\ \A i \in Shards : \A k \in shard[i].nodes : k \in Keys /\ ShardOf[k] = i
BY MergedAt DEF ContractInv, NodesHavePorts, RuntimeInv, ShardsOK, ShardOK

\* Return: what the call publishes is what the contract allows at its end.
LEMMA ReturnResult ==
  ASSUME RuntimeInv, ContractInv, Return
  PROVE  \/ op.kind \in {"load", "clear"}
              /\ MergedPorts \in Contract!Succeeded(published, op.target)
         \/ op.kind = "undo" /\ ~op.broken /\ MergedPorts \in Contract!RolledBack(published)
         \/ op.kind = "undo" /\ op.broken
              /\ MergedPorts \in Contract!LeftBehind(published, op.target)
         \/ op.kind = "recover" /\ MergedPorts \in Contract!Recovered(published)
         \/ op.kind = "stop" /\ MergedPorts = published
<1> USE DEF ContractInv
<1> DEFINE new == MergedPorts
<1>1. op.kind # "none" /\ op.at = NumShards + 1 /\ ~(op.kind = "load" /\ op.failed)
  BY DEF Return, Idle
<1>2. \A i \in Shards : i < op.at
  BY <1>1, SingBoxAssumption DEF Shards
<1>3. new \in PortMap /\ \A j, k \in Keys : new[j] = new[k] /\ new[j] # NoPort => j = k
  BY MergedDistinct DEF RuntimeInv, PortsDistinct
<1>4. \A f \in PortMap : Contract!Loaded(f) = {k \in Keys : f[k] # NoPort}
  BY DEF Contract!Loaded, Contract!NoPort, NoPort
<1>5. new \in Contract!PortMaps
  BY <1>3, <1>4 DEF Contract!PortMaps, Contract!NoPort, PortMap, NoPort
<1>6. /\ \A k \in Keys : new[k] # NoPort <=> k \in shard[ShardOf[k]].nodes
      /\ \A i \in Shards : \A k \in shard[i].nodes : k \in Keys /\ ShardOf[k] = i
      /\ \A k \in Keys : ShardOf[k] \in Shards /\ k \in Owned(ShardOf[k])
  BY MergedLoaded, MergedAt
<1> HIDE DEF new
<1>7. CASE op.kind = "load"
  <2>1. \A i \in Shards : Delivered(i)
    BY <1>1, <1>2, <1>7 DEF InsideLoad
  <2>2. Contract!Loaded(new) \subseteq op.target \cup extra
    BY <1>3, <1>4, <1>6, <2>1 DEF Delivered
  <2>3. op.target # {} => Contract!Loaded(new) # {}
    <3> SUFFICES ASSUME NEW j \in op.target PROVE Contract!Loaded(new) # {}
      OBVIOUS
    <3>1. j \in Keys
      BY DEF RuntimeInv, TypeOK, Call
    <3>2. Target(ShardOf[j]) # {}
      BY <1>6, <3>1 DEF Target
    <3>3. PICK k \in shard[ShardOf[j]].nodes : TRUE
      BY <1>6, <2>1, <3>1, <3>2 DEF Delivered
    <3>4. k \in Contract!Loaded(new)
      BY <1>3, <1>4, <1>6, <3>1, <3>3
    <3>5. QED
      BY <3>4
  <2>4. \A k \in Contract!Loaded(new) : published[k] # NoPort => new[k] = published[k]
    BY <1>3, <1>4, <1>7 DEF InsideLoad, PortStays, PortKept, new
  <2>5. QED
    BY <1>5, <1>7, <2>2, <2>3, <2>4 DEF Contract!Succeeded, Contract!NoPort, NoPort, new
<1>8. CASE op.kind = "clear"
  <2>1. \A i \in Shards : shard[i].nodes = {}
    BY <1>2, <1>8 DEF OutsideLoad
  <2>2. Contract!Loaded(new) = {} /\ op.target = {}
    BY <1>3, <1>4, <1>6, <1>8, <2>1 DEF OutsideLoad
  <2>3. QED
    BY <1>5, <1>8, <2>2 DEF Contract!Succeeded, new
<1>9. CASE op.kind = "undo"
  <2>1. \A i \in Shards : \A k \in op.oldNodes[i] : k \in Keys /\ published[k] # NoPort
    BY <1>9 DEF SnapshotPublished, PublishedBy, Owned
  <2>2. CASE ~op.broken
    <3>1. \A i \in Shards : shard[i].nodes \subseteq op.oldNodes[i]
      BY <1>2, <1>9, <2>2 DEF RuntimeInv, UndoOK, Restored
    <3>2. Contract!Loaded(new) \subseteq Contract!Loaded(published)
      BY <1>3, <1>4, <1>6, <2>1, <3>1
    <3>3. QED
      BY <1>5, <1>9, <2>2, <3>2 DEF Contract!RolledBack, new
  <2>3. CASE op.broken
    <3>1. \A i \in Shards : shard[i].nodes \subseteq op.oldNodes[i] \cup op.target
      BY <1>9 DEF SnapshotPublished
    <3>2. Contract!Loaded(new) \subseteq Contract!Loaded(published) \cup op.target
      BY <1>3, <1>4, <1>6, <2>1, <3>1
    <3>3. QED
      BY <1>5, <1>9, <2>3, <3>2 DEF Contract!LeftBehind, new
  <2>4. QED
    BY <2>2, <2>3
<1>10. CASE op.kind = "recover"
  <2>1. \A k \in Keys : new[k] \in {published[k], NoPort}
    BY <1>10 DEF OutsideLoad, PortKept, new
  <2>2. QED
    BY <1>5, <1>10, <2>1 DEF Contract!Recovered, Contract!NoPort, NoPort, new
<1>11. CASE op.kind = "stop"
  <2>1. \A k \in Keys : new[k] = published[k]
    BY <1>11 DEF OutsideLoad, new
  <2>2. new = published
    BY <1>3, <2>1 DEF PortMap
  <2>3. QED
    BY <1>11, <2>2 DEF new
<1>12. QED
  <2>1. op.kind \in Calls
    BY DEF RuntimeInv, TypeOK, Call
  <2>2. QED
    BY <1>1, <1>7, <1>8, <1>9, <1>10, <1>11, <2>1 DEF Calls

\* What counts as left behind when a call returns covers the nodes that were not
\* committed.
LEMMA ReturnCovers ==
  ASSUME RuntimeInv, ContractInv, Return, NEW i \in Shards
  PROVE  shard[i].nodes \subseteq
           assigned[i] \cup Contract!ExtraAfter(ContractCall.kind, op.target, MergedPorts)
<1> USE DEF ContractInv
<1> DEFINE new == MergedPorts
           after == Contract!ExtraAfter(ContractCall.kind, op.target, new)
<1>1. op.kind # "none" /\ op.at = NumShards + 1 /\ ~(op.kind = "load" /\ op.failed)
  BY DEF Return, Idle
<1>2. i < op.at
  BY <1>1, SingBoxAssumption DEF Shards
<1>3. new \in PortMap
  BY MergedDistinct DEF RuntimeInv
<1>4. \A f \in PortMap : Contract!Loaded(f) = {k \in Keys : f[k] # NoPort}
  BY DEF Contract!Loaded, Contract!NoPort, NoPort
<1>5. \A k \in shard[i].nodes : k \in Contract!Loaded(new) /\ k \in Owned(i)
  <2>1. \A k \in shard[i].nodes : k \in Keys /\ new[k] # NoPort /\ k \in Owned(i)
    BY MergedLoaded, MergedAt
  <2>2. QED
    BY <1>3, <1>4, <2>1
<1>6. after = CASE ContractCall.kind = "broken" ->
                     extra \cup (Contract!Loaded(new) \ Contract!Loaded(published))
                [] ContractCall.kind = "reload" -> (extra \cap Contract!Loaded(new)) \ op.target
                [] OTHER -> extra \cap Contract!Loaded(new)
  BY DEF Contract!ExtraAfter
<1> HIDE DEF new, after
<1>7. CASE op.kind = "load"
  <2>1. Delivered(i)
    BY <1>1, <1>2, <1>7 DEF InsideLoad
  <2>2. after = (extra \cap Contract!Loaded(new)) \ op.target
    BY <1>6, <1>7, ContractCallIs
  <2>3. QED
    BY <1>5, <2>1, <2>2 DEF Delivered, after, new
<1>8. CASE op.kind = "clear"
  BY <1>2, <1>8 DEF OutsideLoad
<1>9. CASE op.kind = "undo"
  <2>1. /\ assigned[i] = op.oldKeys[i]
        /\ op.oldNodes[i] \subseteq assigned[i] \cup extra
        /\ op.oldNodes[i] = PublishedBy(i)
    BY <1>2, <1>9 DEF InsideUndo, SnapshotPublished
  <2>2. CASE ~op.broken
    <3>1. shard[i].nodes \subseteq op.oldNodes[i]
      BY <1>2, <1>9, <2>2 DEF RuntimeInv, UndoOK, Restored
    <3>2. after = extra \cap Contract!Loaded(new)
      BY <1>6, <1>9, <2>2, ContractCallIs
    <3>3. QED
      BY <1>5, <2>1, <3>1, <3>2 DEF after, new
  <2>3. CASE op.broken
    <3>1. after = extra \cup (Contract!Loaded(new) \ Contract!Loaded(published))
      BY <1>6, <1>9, <2>3, ContractCallIs
    <3>2. Contract!Loaded(published) = {k \in Keys : published[k] # NoPort}
      BY <1>4
    <3>3. \A k \in shard[i].nodes : k \in Contract!Loaded(published) => k \in PublishedBy(i)
      BY <1>5, <3>2 DEF PublishedBy
    <3>4. QED
      BY <1>5, <2>1, <3>1, <3>3 DEF after, new
  <2>4. QED
    BY <2>2, <2>3
<1>10. CASE op.kind \in {"recover", "stop"}
  <2>1. after = extra \cap Contract!Loaded(new)
    BY <1>6, <1>10, ContractCallIs
  <2>2. shard[i].nodes \subseteq assigned[i] \cup extra
    BY <1>10 DEF OutsideLoad, Covered
  <2>3. QED
    BY <1>5, <2>1, <2>2 DEF after, new
<1>11. QED
  <2>1. op.kind \in Calls
    BY DEF RuntimeInv, TypeOK, Call
  <2>2. QED
    BY <1>1, <1>7, <1>8, <1>9, <1>10, <2>1 DEF Calls

\* Return: the map is published, and the contract's call ends with it.
LEMMA ReturnContract ==
  ASSUME RuntimeInv, ContractInv, Return,
         published' = MergedPorts',
         extra' = Contract!ExtraAfter(ContractCall.kind, op.target, published')
  PROVE  ContractInv' /\ Contract!Next
<1> USE DEF ContractInv
<1>1. /\ op.kind # "none" /\ op' = NoCall /\ UNCHANGED <<shard, assigned>>
  BY DEF Return, Idle
<1>2. MergedPorts' = MergedPorts /\ MergedPorts \in PortMap
  BY <1>1, MergedDistinct DEF MergedPorts, RuntimeInv
<1>3. published' = MergedPorts
      /\ extra' = Contract!ExtraAfter(ContractCall.kind, op.target, MergedPorts)
  BY <1>2
<1>4. op'.kind = "none" /\ ~op'.commit /\ ~op'.broken /\ op'.target = {}
  BY <1>1 DEF NoCall
<1>5. extra' \subseteq Keys
  <2>1. \A f : Contract!Loaded(f) \subseteq Keys
    BY DEF Contract!Loaded
  <2>2. QED
    BY <1>3, <2>1 DEF Contract!ExtraAfter
<1>6. \A i \in Shards : Covered(i)'
  BY <1>1, <1>3, ReturnCovers DEF Covered
<1>7. \A i \in Shards : NodesHavePorts(shard'[i])
  BY <1>1
<1>8. ContractInv'
  BY <1>2, <1>3, <1>4, <1>5, <1>6, <1>7
     DEF OutsideLoad, SnapshotPublished, InsideLoad, InsideUndo
<1>9. ContractCall' = Contract!NoCall
  BY <1>4 DEF ContractCall, Contract!NoCall
<1>10. ASSUME NEW kind, NEW results, ContractCall.kind = kind, MergedPorts \in results
       PROVE  Contract!Ends(kind, results)
  BY <1>3, <1>9, <1>10, ContractCallIs DEF Contract!Ends
<1>11. Contract!Next
  <2>1. ContractCall.target = op.target
    BY ContractCallIs
  <2>2. CASE op.kind \in {"load", "clear"}
    BY <1>10, <2>1, <2>2, ReturnResult, ContractCallIs DEF Contract!Next
  <2>3. CASE op.kind = "undo" /\ ~op.broken
    BY <1>10, <2>1, <2>3, ReturnResult, ContractCallIs DEF Contract!Next
  <2>4. CASE op.kind = "undo" /\ op.broken
    BY <1>10, <2>1, <2>4, ReturnResult, ContractCallIs DEF Contract!Next
  <2>5. CASE op.kind = "recover"
    BY <1>10, <2>1, <2>5, ReturnResult, ContractCallIs DEF Contract!Next
  <2>6. CASE op.kind = "stop"
    BY <1>10, <2>1, <2>6, ReturnResult, ContractCallIs DEF Contract!Next
  <2>7. QED
    BY <2>2, <2>3, <2>4, <2>5, <2>6, ReturnResult
<1>12. QED
  BY <1>8, <1>11

\* A step that leaves kind, target and outcome of the call alone is none for the
\* contract.
LEMMA SameCall ==
  ASSUME op'.kind = op.kind, op'.target = op.target, op'.broken = op.broken
  PROVE  ContractCall' = ContractCall
BY DEF ContractCall

\* The steps on one shard of a call that has not returned and is not rolled back.
LEMMA ShardStep ==
  ASSUME RuntimeInv, SkipShard \/ LoadShard \/ CommitShard \/ RecoverShard \/ ClearShard
  PROVE  /\ op'.kind = op.kind /\ op.kind # "none"
         /\ op'.target = op.target /\ op'.broken = op.broken
<1>1. op \in Call
  BY DEF RuntimeInv, TypeOK
<1>2. CASE SkipShard
  <2>1. op.kind # "none" /\ op.at \in Shards /\ op' = Advance
    BY <1>2 DEF SkipShard, At
  <2>2. QED
    BY <1>1, <2>1, AdvanceFacts
<1>3. CASE LoadShard
  BY <1>3, LoadEffect
<1>4. CASE CommitShard
  <2> DEFINE t == IF op.kind = "load" THEN Target(op.at) ELSE op.oldNodes[op.at]
             bad == CommitError(shard[op.at], t)
  <2>1. bad \in BOOLEAN
    BY DEF CommitError
  <2> HIDE DEF bad
  <2>2. bad = CommitError(shard[op.at], t)
    BY DEF bad
  <2>3. t = IF op.kind = "load" THEN Target(op.at) ELSE op.oldNodes[op.at]
    OBVIOUS
  <2> HIDE DEF t
  <2>4. QED
    BY <1>4, <2>1, <2>2, <2>3, CommitEffect
<1>5. CASE RecoverShard
  BY <1>5, RecoverEffect
<1>6. CASE ClearShard
  <2>1. op.kind # "none" /\ op.at \in Shards /\ op' = Advance
    BY <1>6 DEF ClearShard, At
  <2>2. QED
    BY <1>1, <2>1, AdvanceFacts
<1>7. QED
  BY <1>2, <1>3, <1>4, <1>5, <1>6

\* A call that begins begins for the contract.
LEMMA BeginStep ==
  ASSUME UNCHANGED <<published, extra>>,
         \/ \E target \in SUBSET Keys : BeginReload(target)
         \/ BeginClear \/ BeginRecover \/ BeginStop,
         RuntimeInv, ContractInv
  PROVE  Contract!Next
<1>1. op.kind = "none" /\ op.target = {}
  BY DEF BeginReload, BeginClear, BeginRecover, BeginStop, Idle, ContractInv, OutsideLoad
<1>2. ContractCall = Contract!NoCall
  BY <1>1 DEF ContractCall, Contract!NoCall
<1>3. ASSUME NEW target \in SUBSET Keys, BeginReload(target) PROVE Contract!Next
  <2>1. op'.kind = "load" /\ op'.target = target
    BY <1>3 DEF BeginReload, NoCall
  <2>2. ContractCall' = [kind |-> "reload", target |-> target]
    BY <2>1 DEF ContractCall
  <2>3. Contract!Begin("reload", target)
    BY <1>2, <2>2 DEF Contract!Begin
  <2>4. QED
    BY <2>3 DEF Contract!Next
<1>4. CASE BeginClear
  <2>1. op'.kind = "clear" /\ op'.target = {}
    BY <1>4 DEF BeginClear, NoCall
  <2>2. ContractCall' = [kind |-> "reload", target |-> {}]
    BY <2>1 DEF ContractCall
  <2>3. Contract!Begin("reload", {})
    BY <1>2, <2>2 DEF Contract!Begin
  <2>4. QED
    BY <2>3 DEF Contract!Next
<1>5. CASE BeginRecover
  <2>1. op'.kind = "recover" /\ op'.target = {}
    BY <1>5 DEF BeginRecover, NoCall
  <2>2. ContractCall' = [kind |-> "recover", target |-> {}]
    BY <2>1 DEF ContractCall
  <2>3. QED
    BY <1>2, <2>2 DEF Contract!Begin, Contract!Next
<1>6. CASE BeginStop
  <2>1. op'.kind = "stop" /\ op'.target = {}
    BY <1>6 DEF BeginStop, NoCall
  <2>2. ContractCall' = [kind |-> "stop", target |-> {}]
    BY <2>1 DEF ContractCall
  <2>3. QED
    BY <1>2, <2>2 DEF Contract!Begin, Contract!Next
<1>7. QED
  BY <1>3, <1>4, <1>5, <1>6

\* Every step of the runtime is a step of the contract or none.
LEMMA ContractStep ==
  ASSUME RuntimeInv, ContractInv, NextPublished
  PROVE  ContractInv' /\ (Contract!Next \/ UNCHANGED <<published, ContractCall, extra>>)
<1> DEFINE Carried == UNCHANGED <<published, extra>>
<1>1. /\ Next
      /\ ~(op.kind # "none" /\ op'.kind = "none") => Carried
      /\ op.kind # "none" /\ op'.kind = "none" =>
           /\ published' = MergedPorts'
           /\ extra' = Contract!ExtraAfter(ContractCall.kind, op.target, published')
  BY DEF NextPublished, Idle
<1>2. CASE \/ \E target \in SUBSET Keys : BeginReload(target)
           \/ BeginClear \/ BeginRecover \/ BeginStop
  <2>1. op.kind = "none"
    BY <1>2 DEF BeginReload, BeginClear, BeginRecover, BeginStop, Idle
  <2>2. Carried
    BY <1>1, <2>1
  <2>3. QED
    BY <1>2, <2>2, BeginContract, BeginStep
<1>3. CASE SkipShard \/ LoadShard \/ CommitShard \/ RecoverShard \/ ClearShard
  <2>1. op'.kind = op.kind /\ op'.target = op.target /\ op'.broken = op.broken
    BY <1>3, ShardStep
  <2>2. Carried
    BY <1>1, <2>1
  <2>3. ContractCall' = ContractCall
    BY <2>1, SameCall
  <2>4. ContractInv'
    BY <1>3, <2>2, SkipContract, LoadContract, CommitContract, RecoverContract, ClearContract
  <2>5. QED
    BY <2>2, <2>3, <2>4
<1>4. CASE BeginUndo
  <2>1. op'.kind = "undo"
    <3>1. op \in Call
      BY DEF RuntimeInv, TypeOK
    <3>2. QED
      BY <1>4, <3>1 DEF BeginUndo, Call
  <2>2. Carried
    BY <1>1, <2>1
  <2>3. /\ ContractInv'
        /\ op.kind = "load" /\ op'.target = op.target /\ ~op'.broken
    BY <1>4, <2>2, BeginUndoContract
  <2>4. /\ ContractCall = [kind |-> "reload", target |-> op.target]
        /\ ContractCall' = [kind |-> "failing", target |-> op.target]
    BY <2>1, <2>3 DEF ContractCall
  <2>5. Contract!Turns("reload", "failing")
    BY <2>2, <2>4 DEF Contract!Turns
  <2>6. QED
    BY <2>3, <2>5 DEF Contract!Next
<1>5. CASE UndoShard
  <2>1. op'.kind = "undo"
    BY <1>5, UndoEffect
  <2>2. Carried
    BY <1>1, <2>1
  <2>3. /\ ContractInv'
        /\ op.kind = "undo" /\ op'.target = op.target
        /\ op'.broken \in BOOLEAN /\ op.broken => op'.broken
    BY <1>5, <2>2, UndoContract
  <2>4. CASE op'.broken /\ ~op.broken
    <3>1. /\ ContractCall = [kind |-> "failing", target |-> op.target]
          /\ ContractCall' = [kind |-> "broken", target |-> op.target]
      BY <2>1, <2>3, <2>4 DEF ContractCall
    <3>2. Contract!Turns("failing", "broken")
      BY <2>2, <3>1 DEF Contract!Turns
    <3>3. QED
      BY <2>3, <3>2 DEF Contract!Next
  <2>5. CASE ~(op'.broken /\ ~op.broken)
    <3>1. ContractCall' = ContractCall
      BY <2>1, <2>3, <2>5 DEF ContractCall
    <3>2. QED
      BY <2>2, <2>3, <3>1
  <2>6. QED
    BY <2>4, <2>5
<1>6. CASE StopShard \/ \E i \in Shards : ProcessDies(i) \/ ExitNoticed(i)
  <2>1. op'.kind = op.kind
    <3>1. CASE StopShard
      <4>1. op \in Call /\ op.at \in Shards /\ op' = Advance
        BY <3>1 DEF StopShard, At, RuntimeInv, TypeOK
      <4>2. QED
        BY <4>1, AdvanceFacts
    <3>2. CASE \E i \in Shards : ProcessDies(i) \/ ExitNoticed(i)
      BY <3>2 DEF ProcessDies, ExitNoticed
    <3>3. QED
      BY <1>6, <3>1, <3>2
  <2>2. Carried
    BY <1>1, <2>1
  <2>3. /\ ContractInv'
        /\ op'.target = op.target /\ op'.broken = op.broken
    BY <1>6, <2>2, ProcessContract
  <2>4. ContractCall' = ContractCall
    BY <2>1, <2>3, SameCall
  <2>5. QED
    BY <2>2, <2>3, <2>4
<1>7. CASE Return
  <2>1. op.kind # "none" /\ op'.kind = "none"
    BY <1>7 DEF Return, Idle, NoCall
  <2>2. QED
    BY <1>1, <1>7, <2>1, ReturnContract
<1>8. QED
  BY <1>1, <1>2, <1>3, <1>4, <1>5, <1>6, <1>7 DEF Next, Working

\* For any number of shards, keys and ports the sharded runtime implements the
\* contract the subscription manager relies on: the port map it publishes changes
\* once per call and only as Succeeded, RolledBack, LeftBehind and Recovered allow,
\* whatever fails inside the call and whichever processes die.
THEOREM RuntimeKeepsContract == SpecPublished => KeepsContract
<1>1. InitPublished => Contract!Init
  <2> SUFFICES ASSUME InitPublished PROVE Contract!Init
    OBVIOUS
  <2>1. op.kind = "none" /\ op.target = {} /\ extra = {} /\ published = MergedPorts
    BY DEF InitPublished, Init, NoCall
  <2>2. ContractCall = Contract!NoCall
    BY <2>1 DEF ContractCall, Contract!NoCall
  <2>3. \A k \in Keys : MergedPorts[k] = NoPort
    BY SingBoxAssumption DEF MergedPorts, InitPublished, Init, Cleared, NoPorts
  <2>4. MergedPorts = Contract!NoPorts
    BY <2>3 DEF MergedPorts, Contract!NoPorts, Contract!NoPort, NoPort
  <2>5. QED
    BY <2>1, <2>2, <2>4 DEF Contract!Init
<1>2. InitPublished => Init /\ ContractInv
  BY InitContract DEF InitPublished
<1>3. [NextPublished]_<<vars, published, extra>> => [Next]_vars
  BY DEF NextPublished
<1>4. RuntimeInv /\ ContractInv /\ [NextPublished]_<<vars, published, extra>>
      => ContractInv' /\ [Contract!Next]_<<published, ContractCall, extra>>
  <2> SUFFICES ASSUME RuntimeInv, ContractInv, [NextPublished]_<<vars, published, extra>>
               PROVE  ContractInv' /\ [Contract!Next]_<<published, ContractCall, extra>>
    OBVIOUS
  <2>1. CASE NextPublished
    BY <2>1, ContractStep
  <2>2. CASE UNCHANGED <<vars, published, extra>>
    <3>1. UNCHANGED <<shard, assigned, op, published, extra, stopping>>
      BY <2>2 DEF vars
    <3>2. ContractCall' = ContractCall
      BY <3>1, SameCall
    <3>3. ContractInv'
      BY <3>1 DEF ContractInv, NodesHavePorts, Pending, Covered, PortKept, PortStays, PublishedBy,
                  OutsideLoad, SnapshotPublished, Delivered, InsideLoad, InsideUndo,
                  MergedPorts, Target, Owned
    <3>4. QED
      BY <3>1, <3>2, <3>3
  <2>3. QED
    BY <2>1, <2>2
<1>5. QED
  <2>1. SpecPublished => Spec
    BY <1>2, <1>3, PTL DEF SpecPublished, Spec
  <2>2. SpecPublished => []RuntimeInv
    BY <2>1, RuntimeInvariant, PTL
  <2>3. SpecPublished => Contract!Spec
    BY <1>1, <1>2, <1>4, <2>2, PTL DEF SpecPublished, Contract!Spec
  <2>4. QED
    BY <2>3 DEF KeepsContract
=============================================================================
