-------------------------- MODULE MCWebSocketServer --------------------------
(* WebSocketServer with a few clients and one length of text for each answer: *)
(* 50 is echoed, 100 is echoed and cut, 200 is refused.                       *)
EXTENDS WebSocketServer

AllLens == {50, 100, 200}
OneLen  == {50}
AnyWire == BOOLEAN

ThreeEach == [c \in Clients |-> 3]
OneTyped  == [c \in Clients |-> IF c \in Console THEN 1 ELSE 2]
=============================================================================
