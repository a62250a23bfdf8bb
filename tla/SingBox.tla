------------------------------ MODULE SingBox ------------------------------
(***************************************************************************)
(* The tunnel runtime: ShardedSingBox (custom/sharded_singbox.go) spreads  *)
(* the tunnel nodes over shards, and every shard is one sing-box process   *)
(* with a port segment of its own (SingBoxProcess, custom/singbox.go).     *)
(*                                                                         *)
(* Reload, recovery and Stop hold the runtime's mutex from the first shard *)
(* to the last (op); a shard's own mutex makes each visit of a shard one   *)
(* step.  Processes die, and are noticed, between any two steps.           *)
(***************************************************************************)
EXTENDS Integers

CONSTANTS
  Keys,       \* node keys that can be built into an outbound, in their order
  NumShards,  \* number of shards
  ShardOf,    \* shardIndexForKey
  Segment     \* shard -> its ports

VARIABLES
  shard,      \* shard -> the SingBoxProcess
  assigned,   \* assignedKeys
  stopping,
  op          \* the call that holds the runtime's mutex

vars == <<shard, assigned, stopping, op>>

Shards == 1..NumShards
NoPort == 0
NoPorts == [k \in Keys |-> NoPort]
Port == UNION {Segment[i] : i \in Shards}
PortMap == [Keys -> Port \cup {NoPort}]
Owned(i) == {k \in Keys : ShardOf[k] = i}

Statuses == {"no_tunnel_nodes", "running", "stopped", "partial", "failed"}

Process ==
  [nodes    : SUBSET Keys,
   ports    : PortMap,
   rejected : SUBSET Keys,              \* assembly.rejected
   status   : Statuses,
   proc     : {"none", "up", "dead"},   \* dead: exited, not yet noticed
   serves   : PortMap]                  \* the configuration the process runs

Cleared ==
  [nodes |-> {}, ports |-> NoPorts, rejected |-> {}, status |-> "no_tunnel_nodes",
   proc |-> "none", serves |-> NoPorts]

Calls == {"none", "load", "undo", "clear", "recover", "stop"}

Call ==
  [kind     : Calls,
   at       : 1..(NumShards + 1),
   commit   : BOOLEAN,                  \* shard `at' is reloaded, not committed
   target   : SUBSET Keys,
   oldNodes : [Shards -> SUBSET Keys],
   oldKeys  : [Shards -> SUBSET Keys],
   touched  : SUBSET Shards,
   failed   : BOOLEAN,
   broken   : BOOLEAN]                  \* the roll-back failed too

NoKeys == [i \in Shards |-> {}]

NoCall ==
  [kind |-> "none", at |-> 1, commit |-> FALSE, target |-> {}, oldNodes |-> NoKeys,
   oldKeys |-> NoKeys, touched |-> {}, failed |-> FALSE, broken |-> FALSE]

ASSUME SingBoxAssumption ==
  /\ Keys \subseteq Nat
  /\ NumShards \in Nat \ {0}
  /\ ShardOf \in [Keys -> Shards]
  /\ Segment \in [Shards -> SUBSET (Nat \ {0})]
  /\ \A i, j \in Shards : i # j => Segment[i] \cap Segment[j] = {}

-----------------------------------------------------------------------------
(* One shard: SingBoxProcess.                                              *)

\* Mutant of Kept: every allocation starts from an empty port map.
KeptNothing(old, target) == {}

\* The nodes that keep their port.
Kept(old, target) == {k \in target : old[k] # NoPort}

\* Mutant of Allocations: a port given to a new key is not marked as used.
AllocationsUnmarked(i, old, target) ==
  LET kept == Kept(old, target)
      used == {old[k] : k \in kept}
  IN {f \in [target -> Segment[i]] :
        /\ \A k \in kept : f[k] = old[k]
        /\ \A k \in target \ kept : f[k] \notin used
        /\ \A k \in target \ kept : \A p \in Segment[i] : p < f[k] => p \in used}

\* Mutant of Allocations: the scan runs from base + 1 to base + span, one port
\* past the segment.
AllocationsShifted(i, old, target) ==
  LET kept == Kept(old, target)
      seg  == {p + 1 : p \in Segment[i]}
  IN {f \in [target -> seg] :
        /\ \A k \in kept : f[k] = old[k]
        /\ \A j, k \in target : f[j] = f[k] => j = k
        /\ \A k \in target \ kept : \A p \in seg :
             p < f[k] => \E j \in target : f[j] = p /\ (j \in kept \/ j < k)}

\* assembleConfigWithDiagnostics: a known key keeps its port, the others take
\* in key order the lowest port of the segment that is free.  Empty when the
\* segment is too small for the target (segmentFull).
Allocations(i, old, target) ==
  LET kept == Kept(old, target)
  IN {f \in [target -> Segment[i]] :
        /\ \A k \in kept : f[k] = old[k]
        /\ \A j, k \in target : f[j] = f[k] => j = k
        /\ \A k \in target \ kept : \A p \in Segment[i] :
             p < f[k] => \E j \in target : f[j] = p /\ (j \in kept \/ j < k)}

\* generateConfig, prune and restart with the nodes of good: the process runs
\* the new configuration, all its ports ready or not.
Started(f, target, good, status) ==
  LET ports == [k \in Keys |-> IF k \in good THEN f[k] ELSE NoPort]
  IN [nodes |-> good, ports |-> ports, rejected |-> target \ good,
      status |-> status, proc |-> "up", serves |-> ports]

Restarted(i, target) ==
  {Started(f, target, good, status) :
     f \in Allocations(i, shard[i].ports, target),
     good \in (SUBSET target) \ {{}},
     status \in {"running", "partial"}}

\* Something goes wrong before the old process is stopped.
Refused(i) == [shard[i] EXCEPT !.status = "failed"]

\* The old process is stopped and the new one does not start, or exits at once.
\* restoreState brings the old port map back.
NotStarted(i) == {[shard[i] EXCEPT !.status = "failed", !.proc = s] : s \in {"none", "dead"}}

\* Mutant of ReloadShard: the new port map stays although the start failed.
ReloadShardKeepsNew(i, target) ==
  IF target = {} THEN {Cleared}
  ELSE {Refused(i)} \cup Restarted(i, target)
       \cup {[s EXCEPT !.status = "failed", !.serves = shard[i].serves] :
                s \in Restarted(i, target)}

\* SingBoxProcess.Reload: everything that can come of it.
ReloadShard(i, target) ==
  IF target = {} THEN {Cleared}
  ELSE {Refused(i)} \cup
       (IF Allocations(i, shard[i].ports, target) = {} THEN {}
        ELSE NotStarted(i) \cup Restarted(i, target))

ReloadFailed(s) == s.status \notin {"running", "no_tunnel_nodes"}

\* stopLocked: nothing to do without a process.
Stopped(s) ==
  IF s.proc = "none" THEN s
  ELSE [s EXCEPT !.proc = "none",
                 !.status = IF s.ports = NoPorts THEN "no_tunnel_nodes" ELSE "stopped"]

\* shardReloadCommitError: a key that is neither rejected nor has a port, no
\* accepted key at all, or ports that are not ready.
CommitError(s, target) ==
  /\ target # {}
  /\ \/ \E k \in target \ s.rejected : s.ports[k] = NoPort
     \/ target \subseteq s.rejected
     \/ s.status # "running"

Accepted(s, target) == target \ s.rejected

\* Mutant of NeedsReload: only the key set decides.
NeedsReloadNever(s, target) == FALSE

\* shardNeedsReloadForRuntime.
NeedsReload(s, target) ==
  /\ target # {}
  /\ s.status \in {"failed", "stopped", "partial"} \/ CommitError(s, target)

-----------------------------------------------------------------------------
(* The calls that hold the runtime's mutex.                                *)

Idle == op.kind = "none"
At(kind) == op.kind = kind /\ op.at \in Shards
Target(i) == op.target \cap Owned(i)
Advance == [op EXCEPT !.at = @ + 1, !.commit = FALSE]

\* Reload with buildable tunnel nodes (the others are refused beforehand).
BeginReload(target) ==
  /\ Idle
  /\ ~stopping
  /\ target # {}
  /\ op' = [NoCall EXCEPT !.kind = "load", !.target = target,
                          !.oldNodes = [i \in Shards |-> shard[i].nodes],
                          !.oldKeys = assigned]
  /\ UNCHANGED <<shard, assigned, stopping>>

\* Reload without tunnel nodes.
BeginClear ==
  /\ Idle
  /\ ~stopping
  /\ op' = [NoCall EXCEPT !.kind = "clear"]
  /\ UNCHANGED <<shard, assigned, stopping>>

\* recoverFailedShards, every few seconds.
BeginRecover ==
  /\ Idle
  /\ ~stopping
  /\ op' = [NoCall EXCEPT !.kind = "recover"]
  /\ UNCHANGED <<shard, assigned, stopping>>

BeginStop ==
  /\ Idle
  /\ ~stopping
  /\ stopping' = TRUE
  /\ op' = [NoCall EXCEPT !.kind = "stop"]
  /\ UNCHANGED <<shard, assigned>>

\* A shard whose keys and health are as they should be is left alone.
SkipShard ==
  LET i == op.at
  IN /\ ~op.commit
     /\ \/ /\ At("load")
           /\ Target(i) = assigned[i]
           /\ ~NeedsReload(shard[i], Target(i))
        \/ /\ At("recover")
           /\ assigned[i] = {} \/ ~NeedsReload(shard[i], shard[i].nodes)
        \/ /\ At("undo")
           /\ i \notin op.touched
     /\ op' = Advance
     /\ UNCHANGED <<shard, assigned, stopping>>

\* The reload of one shard as part of Reload.
LoadShard ==
  LET i == op.at
  IN /\ At("load")
     /\ ~op.commit
     /\ Target(i) # assigned[i] \/ NeedsReload(shard[i], Target(i))
     /\ \E s \in ReloadShard(i, Target(i)) :
          /\ shard' = [shard EXCEPT ![i] = s]
          /\ op' = [(IF ReloadFailed(s) THEN Advance ELSE op) EXCEPT
                      !.touched = @ \cup {i},
                      !.commit = ~ReloadFailed(s),
                      !.failed = @ \/ ReloadFailed(s)]
     /\ UNCHANGED <<assigned, stopping>>

\* The second look at a shard after a reload that reported success.
CommitShard ==
  LET i == op.at
      target == IF op.kind = "load" THEN Target(i) ELSE op.oldNodes[i]
  IN /\ op.commit
     /\ IF CommitError(shard[i], target)
        THEN /\ op' = [Advance EXCEPT !.failed = TRUE]
             /\ UNCHANGED assigned
        ELSE /\ assigned' = [assigned EXCEPT ![i] = Accepted(shard[i], target)]
             /\ op' = Advance
     /\ UNCHANGED <<shard, stopping>>

\* recoverFailedShards on one shard: what it holds is loaded again.
RecoverShard ==
  LET i == op.at
  IN /\ At("recover")
     /\ ~op.commit
     /\ assigned[i] # {}
     /\ NeedsReload(shard[i], shard[i].nodes)
     /\ \E s \in ReloadShard(i, shard[i].nodes) :
          /\ shard' = [shard EXCEPT ![i] = s]
          /\ op' = [(IF ReloadFailed(s) THEN Advance ELSE op) EXCEPT
                      !.commit = ~ReloadFailed(s),
                      !.oldNodes[i] = shard[i].nodes]
     /\ UNCHANGED <<assigned, stopping>>

\* Some shard failed: every shard that was touched goes back.
BeginUndo ==
  /\ op.kind = "load"
  /\ op.at = NumShards + 1
  /\ op.failed
  /\ op' = [op EXCEPT !.kind = "undo", !.at = 1]
  /\ UNCHANGED <<shard, assigned, stopping>>

\* Mutant of UndoShard: the process goes back, the committed keys do not.
UndoShardKeepsKeys ==
  LET i == op.at
  IN /\ At("undo")
     /\ i \in op.touched
     /\ \E s \in ReloadShard(i, op.oldNodes[i]) :
          /\ shard' = [shard EXCEPT ![i] = s]
          /\ op' = [Advance EXCEPT !.broken = @ \/ ReloadFailed(s)]
     /\ UNCHANGED <<assigned, stopping>>

\* The old keys and the old nodes come back; loading nothing clears the shard.
\* The commit check that follows only adds to the text of the error.
UndoShard ==
  LET i == op.at
  IN /\ At("undo")
     /\ i \in op.touched
     /\ assigned' = [assigned EXCEPT ![i] = op.oldKeys[i]]
     /\ \E s \in ReloadShard(i, op.oldNodes[i]) :
          /\ shard' = [shard EXCEPT ![i] = s]
          /\ op' = [Advance EXCEPT !.broken = @ \/ ReloadFailed(s)]
     /\ UNCHANGED stopping

ClearShard ==
  LET i == op.at
  IN /\ At("clear")
     /\ shard' = [shard EXCEPT ![i] = Cleared]
     /\ assigned' = [assigned EXCEPT ![i] = {}]
     /\ op' = Advance
     /\ UNCHANGED stopping

\* Mutant of StopShard: a shard that looks failed has no process to stop.
StopShardIfHealthy ==
  LET i == op.at
  IN /\ At("stop")
     /\ shard' = [shard EXCEPT ![i] = IF shard[i].status = "failed" THEN @ ELSE Stopped(@)]
     /\ op' = Advance
     /\ UNCHANGED <<assigned, stopping>>

StopShard ==
  LET i == op.at
  IN /\ At("stop")
     /\ shard' = [shard EXCEPT ![i] = Stopped(@)]
     /\ op' = Advance
     /\ UNCHANGED <<assigned, stopping>>

\* GetPortMap.
MergedPorts == [k \in Keys |-> shard[ShardOf[k]].ports[k]]

\* The call returns.
Return ==
  /\ ~Idle
  /\ op.at = NumShards + 1
  /\ ~(op.kind = "load" /\ op.failed)
  /\ op' = NoCall
  /\ UNCHANGED <<shard, assigned, stopping>>

-----------------------------------------------------------------------------
(* Processes.                                                              *)

ProcessDies(i) ==
  /\ shard[i].proc = "up"
  /\ shard' = [shard EXCEPT ![i].proc = "dead"]
  /\ UNCHANGED <<assigned, stopping, op>>

\* The goroutine that waits for the process gets the shard's mutex.
ExitNoticed(i) ==
  /\ shard[i].proc = "dead"
  /\ shard' = [shard EXCEPT ![i].proc = "none",
                            ![i].status = IF @ = "failed" THEN @ ELSE "stopped"]
  /\ UNCHANGED <<assigned, stopping, op>>

-----------------------------------------------------------------------------
Init ==
  /\ shard = [i \in Shards |-> Cleared]
  /\ assigned = NoKeys
  /\ stopping = FALSE
  /\ op = NoCall

Working ==
  \/ SkipShard \/ LoadShard \/ CommitShard \/ RecoverShard
  \/ BeginUndo \/ UndoShard \/ ClearShard \/ StopShard \/ Return

Next ==
  \/ \E target \in SUBSET Keys : BeginReload(target)
  \/ BeginClear \/ BeginRecover \/ BeginStop
  \/ Working
  \/ \E i \in Shards : ProcessDies(i) \/ ExitNoticed(i)

Spec == Init /\ [][Next]_vars

\* The watch loop and the holder of a mutex keep running, and starting a process
\* that may start does not fail for ever.
Recovers(i) ==
  /\ RecoverShard
  /\ op.at = i
  /\ shard'[i].status = "running"
Fairness ==
  /\ WF_vars(Working)
  /\ SF_vars(BeginRecover)
  /\ \A i \in Shards : SF_vars(Recovers(i)) /\ SF_vars(CommitShard /\ op.at = i)

FairSpec == Spec /\ Fairness

-----------------------------------------------------------------------------
(* Properties.                                                             *)

\* Every variable keeps its type.
TypeOK ==
  /\ shard \in [Shards -> Process]
  /\ assigned \in [Shards -> SUBSET Keys]
  /\ stopping \in BOOLEAN
  /\ op \in Call

\* A process that is up serves exactly the port map its shard publishes,
\* whichever step of a reload or of its roll-back failed: traffic sent to a
\* node's port never leaves through another node.
PortMapServed ==
  \A i \in Shards : shard[i].proc = "up" => shard[i].serves = shard[i].ports

\* No port stands for two nodes, within a shard or across shards.
PortsDistinct ==
  \A j, k \in Keys :
    MergedPorts[j] = MergedPorts[k] /\ MergedPorts[j] # NoPort => j = k

\* A Reload that reports success has a port for every node it was asked for,
\* except those rejected by name, also for the shards it skipped.
SuccessServesTarget ==
  op.kind = "load" /\ op.at = NumShards + 1 /\ ~op.failed =>
    \A k \in op.target : MergedPorts[k] # NoPort \/ k \in shard[ShardOf[k]].rejected

\* A Reload that reports failure, and could roll back, has left nothing behind:
\* the committed keys are the old ones and every shard holds its old nodes,
\* short only of those the process now rejects.  (The comment of Reload,
\* sharded_singbox.go:118, still says that other shards are not rolled back; the
\* code, the comment at line 182 and CHANGELOG.md:168 say that they are.)
FailureRestores ==
  op.kind = "undo" /\ op.at = NumShards + 1 /\ ~op.broken =>
    \A i \in Shards :
      /\ assigned[i] = op.oldKeys[i]
      /\ shard[i].nodes \subseteq op.oldNodes[i]
      /\ op.oldNodes[i] \ shard[i].nodes \subseteq shard[i].rejected

\* Once Stop has visited a shard no process runs there again, although reloads
\* and the watch loop may still be on their way.
StopIsFinal ==
  stopping => \A i \in Shards :
    (op.kind = "stop" /\ op.at <= i) \/ shard[i].proc = "none"

\* A shard with committed keys whose process is lost runs again, unless it is
\* cleared or the runtime stops.
Lost(i) ==
  /\ assigned[i] # {}
  /\ shard[i].nodes # {}
  /\ shard[i].status \in {"stopped", "failed", "partial"}
  /\ ~stopping
CrashedShardRecovers == \A i \in Shards : Lost(i) ~> ~Lost(i)
=============================================================================
