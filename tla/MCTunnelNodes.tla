--------------------------- MODULE MCTunnelNodes ---------------------------
(* Instances of TunnelNodes for TLC. *)
EXTENDS TunnelNodes, TLC

CONSTANTS k1, k2, p1, p2, s1

\* Keys and ports are only compared with each other.
Symmetry == Permutations(Keys) \cup Permutations(Ports)
=============================================================================
