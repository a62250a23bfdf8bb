--------------------------- MODULE ShardedRuntime ---------------------------
(***************************************************************************)
(* The sharded runtime implements the contract of TunnelRuntime.  Readers  *)
(* of the port map wait for the mutex a call holds, so what they see is    *)
(* the map of the last call that returned: the history variable published. *)
(***************************************************************************)
EXTENDS SingBox

VARIABLES
  published,  \* the port map when the last call returned
  extra       \* nodes of calls whose roll-back failed that are still loaded

ContractCall ==
  [kind |-> CASE op.kind \in {"load", "clear"} -> "reload"
              [] op.kind = "undo" -> IF op.broken THEN "broken" ELSE "failing"
              [] OTHER -> op.kind,
   target |-> op.target]

Contract == INSTANCE TunnelRuntime WITH
  Ports <- Port,
  ports <- published,
  call <- ContractCall

InitPublished ==
  /\ Init
  /\ published = MergedPorts
  /\ extra = {}

NextPublished ==
  /\ Next
  /\ IF ~Idle /\ Idle'
     THEN /\ published' = MergedPorts'
          /\ extra' = Contract!ExtraAfter(ContractCall.kind, op.target, published')
     ELSE UNCHANGED <<published, extra>>

SpecPublished == InitPublished /\ [][NextPublished]_<<vars, published, extra>>

-----------------------------------------------------------------------------
(* Properties.                                                             *)

\* Whatever fails inside a call, and whatever the watch loop does on its own,
\* the port map the manager reads changes only as the contract allows: after a
\* success nodes that stay keep their ports and nothing unasked for is loaded,
\* after a failure no new node is left, and recovery moves no node.
KeepsContract == Contract!Spec
=============================================================================
