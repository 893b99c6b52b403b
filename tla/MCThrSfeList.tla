---------------------------- MODULE MCThrSfeList ----------------------------
(* Small instances of ThrSfeList for TLC. *)
EXTENDS ThrSfeList
CONSTANTS p1, p2, c1, r1, n1, n2, n3
=============================================================================
