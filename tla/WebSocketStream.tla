--------------------------- MODULE WebSocketStream ---------------------------
(***************************************************************************)
(* What both builds of the server make of a connection.  It carries the    *)
(* client's requests as a stream.  TCP may cut it anywhere; what the       *)
(* server does depends on three pieces of each request: a frame is its     *)
(* head with the key, its text, and the last bytes of it; the handshake is *)
(* what is in front of Sec-WebSocket-Key, this name with all or part of    *)
(* the key, and the rest.  Piece p of the stream belongs to ReqOf(p).      *)
(***************************************************************************)
EXTENDS WebSocketFrame

ReqOf(p)   == (p + 2) \div 3
FirstOf(i) == 3 * i - 2
LastOf(i)  == 3 * i

\* Pieces first..last of a handshake: without "Sec-WebSocket-Key", or with
\* nothing in front of it, it is no handshake; with part of a key the answer
\* holds a null string; a chunk may end right behind the whole key.
HelloTags(first, last) ==
  (IF first = 3 \/ last = 1 THEN {} ELSE IF last = 2 THEN {"accept", "null"} ELSE {"accept"})
    \cup (IF first > 1 \/ last = 1 THEN {"error"} ELSE {})
=============================================================================
