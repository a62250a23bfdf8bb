---------------------------- MODULE MCSingBoxLive ----------------------------
(* One shard of the runtime for TLC, with its fairness. *)
EXTENDS SingBox

\* The segment is one port short of the keys.
OneShard == [k \in Keys |-> 1]
ShortSegment == [i \in Shards |-> {1, 2}]
=============================================================================
