--------------------------- MODULE MCAdminConfig ---------------------------
(* Instances of AdminConfig for TLC. *)
EXTENDS AdminConfig

CONSTANTS k1, cn

\* The environment blocks one country; an administrator clears the list, or
\* keeps it and changes the TTL.
Env == [ttl |-> 1, blocked |-> {cn}]
TwoSettings == {[ttl |-> 1, blocked |-> {}], [ttl |-> 2, blocked |-> {cn}]}
=============================================================================
