---------------------------- MODULE MCScreenCopy ----------------------------
(* Small instances of ScreenCopy for TLC. *)
EXTENDS ScreenCopy
CONSTANTS c1, c2, t1, t2, b1, w1, w2, w3
=============================================================================
