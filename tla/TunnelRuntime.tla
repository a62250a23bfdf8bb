--------------------------- MODULE TunnelRuntime ---------------------------
(***************************************************************************)
(* What the tunnel runtime promises the subscription manager, free of      *)
(* shards, processes and roll-backs: a map from node keys to local ports   *)
(* that changes once per call.  GetPortMap waits for the runtime's mutex,  *)
(* so nobody sees the map in the middle of a call.                         *)
(*                                                                         *)
(* ShardedRuntime shows that the sharded runtime keeps these promises, and *)
(* TunnelNodes relies on nothing else.                                     *)
(***************************************************************************)
EXTENDS Integers

CONSTANTS
  Keys,     \* node keys
  Ports     \* local ports

VARIABLES
  ports,    \* GetPortMap: key -> port
  call,     \* the call in progress
  extra     \* nodes that calls which could not be undone have left loaded

NoPort == 0
NoPorts == [k \in Keys |-> NoPort]

Loaded(f) == {k \in Keys : f[k] # NoPort}

\* Port maps in which no port stands for two nodes.
PortMaps ==
  {f \in [Keys -> Ports \cup {NoPort}] :
     \A j, k \in Loaded(f) : f[j] = f[k] => j = k}

\* A Reload that reports success loads nothing it was not asked for (it may fail
\* to notice what an earlier one left) and, unless asked for nothing, something.
\* A node that was loaded before and still is keeps its port.  Nodes of the
\* target may be missing: sing-box refused them.
Succeeded(old, target) ==
  {f \in PortMaps :
     /\ Loaded(f) \subseteq target \cup extra
     /\ target # {} => Loaded(f) # {}
     /\ \A k \in Loaded(f) : old[k] # NoPort => f[k] = old[k]}

\* A Reload that reports failure and was rolled back has loaded no new node.
\* Ports are not promised: a node that was unloaded on the way may come back on
\* another one.
RolledBack(old) == {f \in PortMaps : Loaded(f) \subseteq Loaded(old)}

\* The roll-back failed as well.
LeftBehind(old, target) == {f \in PortMaps : Loaded(f) \subseteq Loaded(old) \cup target}

\* The watch loop reloads a broken shard with what it holds: nodes keep their
\* ports or are refused now.
Recovered(old) == {f \in PortMaps : \A k \in Keys : f[k] \in {old[k], NoPort}}

-----------------------------------------------------------------------------
(* Calls.  A call is "reload" as long as it can still report success,      *)
(* "failing" once it cannot, and "broken" if it could not be undone.       *)

NoCall == [kind |-> "none", target |-> {}]

Init ==
  /\ ports = NoPorts
  /\ call = NoCall
  /\ extra = {}

Begin(kind, target) ==
  /\ call = NoCall
  /\ call' = [kind |-> kind, target |-> target]
  /\ UNCHANGED <<ports, extra>>

Turns(from, to) ==
  /\ call.kind = from
  /\ call' = [call EXCEPT !.kind = to]
  /\ UNCHANGED <<ports, extra>>

ExtraAfter(kind, target, new) ==
  CASE kind = "broken" -> extra \cup (Loaded(new) \ Loaded(ports))
    [] kind = "reload" -> (extra \cap Loaded(new)) \ target
    [] OTHER -> extra \cap Loaded(new)

\* The call returns and its effect is visible.
Ends(kind, results) ==
  /\ call.kind = kind
  /\ ports' \in results
  /\ extra' = ExtraAfter(kind, call.target, ports')
  /\ call' = NoCall

Next ==
  \/ \E target \in SUBSET Keys : Begin("reload", target)
  \/ Begin("recover", {}) \/ Begin("stop", {})
  \/ Turns("reload", "failing") \/ Turns("failing", "broken")
  \/ Ends("reload", Succeeded(ports, call.target))
  \/ Ends("failing", RolledBack(ports))
  \/ Ends("broken", LeftBehind(ports, call.target))
  \/ Ends("recover", Recovered(ports))
  \/ Ends("stop", {ports})

Spec == Init /\ [][Next]_<<ports, call, extra>>
=============================================================================
