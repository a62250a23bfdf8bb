---------------------------- MODULE MCNodeHealth ----------------------------
(***************************************************************************)
(* Instances of NodeHealth for TLC.                                        *)
(***************************************************************************)
EXTENDS NodeHealth

CONSTANTS n1, s1, r1, r2, c1, c2, p1, p2, f1

TwoPolicies  == {{c1, c2}, {c1}}
AdmitOrNot   == {{c1}, {}}
=============================================================================
