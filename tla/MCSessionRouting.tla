-------------------------- MODULE MCSessionRouting --------------------------
(* Small instances of SessionRouting for TLC. *)
EXTENDS SessionRouting, TLC

CONSTANTS q1, q2, q3, s1, s2, n1, n2, us, jp

R(s, g, p, u) == [session |-> s, region |-> g, pin |-> p, unlock |-> u]

\* Two sessions, one of them pinned, compete for one node.
QuotaRoutes == {R(s1, NoRegion, n1, Nodes), R(s2, NoRegion, NoNode, Nodes)}
QuotaSettings == {[max |-> 1, cooldown |-> 0], [max |-> 2, cooldown |-> 1]}
QuotaTTLs == {1}

\* One session used with a region, without one, pinned, and with an unlock
\* filter that only one node passes; and requests without a session.
RouteMix == {R(s1, NoRegion, NoNode, Nodes), R(s1, us, NoNode, Nodes),
             R(s1, NoRegion, n1, Nodes), R(s1, NoRegion, NoNode, {n2}),
             R(NoSession, NoRegion, NoNode, Nodes), R(NoSession, us, n2, Nodes)}
MixSettings == {[max |-> 1, cooldown |-> 0]}
MixTTLs == {0, 1}

Symmetry == Permutations(Requests)
=============================================================================
