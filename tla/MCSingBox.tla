------------------------------ MODULE MCSingBox ------------------------------
(* Two shards of the runtime for TLC. *)
EXTENDS ShardedRuntime

\* Keys 1 and 2 on the first shard, 3 on the second.
TwoShards == [k \in Keys |-> IF k = 3 THEN 2 ELSE 1]
TwoSegments == [i \in Shards |-> IF i = 1 THEN {1, 2} ELSE {11}]
=============================================================================
