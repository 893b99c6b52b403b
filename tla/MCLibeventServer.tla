--------------------------- MODULE MCLibeventServer ---------------------------
(* LibeventServer with one client that goes on sending and one that wants to *)
(* be accepted; texts of 50 bytes are echoed whole.                          *)
EXTENDS LibeventServer

CONSTANTS b1, b2

OneLen == {50}
Msgs   == [c \in Clients |-> IF c = b1 THEN 3 ELSE 2]
=============================================================================
