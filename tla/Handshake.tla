------------------------------ MODULE Handshake ------------------------------
(***************************************************************************)
(* The answer to a handshake (GetAnswerStr): the key is looked for in the  *)
(* text that recv returned, which TCP may have cut.  A request is what     *)
(* stands in front of "Sec-WebSocket-Key", this name with its colon, some  *)
(* spaces, the key, and the rest, a character at a time.                   *)
(***************************************************************************)
EXTENDS Integers, Sequences

WEBSOCKET_KEY_LEN == 24
NameLen           == 17      \* of "Sec-WebSocket-Key"
NUL               == <<"nul", 0>>

Part(what, n) == [i \in 1..n |-> <<what, i>>]
Key            == Part("key", WEBSOCKET_KEY_LEN)

\* What a client sends, and how far the key in it reaches.
Request(before, spaces, after) ==
  Part("before", before) \o Part("name", NameLen + 1) \o Part("space", spaces) \o Key \o Part("after", after)
WholeKey(before, spaces) == before + NameLen + 1 + spaces + WEBSOCKET_KEY_LEN

\* socket_read_cb takes a text for a handshake that holds the name with a
\* character in front of it and one behind.
IsHandshake(text, before) == before >= 1 /\ Len(text) > before + NameLen

\* Faulty variant: the key is taken from right behind the colon.
MutAskKey(text, before) ==
  [i \in 1..WEBSOCKET_KEY_LEN |->
     LET at == before + NameLen + 1 + i IN IF at <= Len(text) THEN text[at] ELSE NUL]

\* The characters behind the name, its colon and, as sizeof counts the zero
\* byte, one more; behind the end of the text the buffer is zero.
AskKey(text, before) ==
  [i \in 1..WEBSOCKET_KEY_LEN |->
     LET at == before + NameLen + 2 + i IN IF at <= Len(text) THEN text[at] ELSE NUL]

\* CountMagicStr refuses a shorter key, and "(null)" is printed in its place.
GetAnswerStr(text, before) ==
  LET asked == AskKey(text, before)
      short == \E i \in DOMAIN asked : asked[i] = NUL
  IN  CASE ~IsHandshake(text, before)                              -> "error"
        [] IsHandshake(text, before) /\ short                      -> "null"
        [] IsHandshake(text, before) /\ ~short /\ asked = Key      -> "accept"
        [] IsHandshake(text, before) /\ ~short /\ asked # Key      -> "wrong"

-----------------------------------------------------------------------------
(* Property *)

\* With one space behind the colon, as browsers write it, and something in
\* front of the name, a request is accepted exactly when it has arrived up to
\* the end of the key, and never answered for another key; with any other
\* spacing, which HTTP allows as well, it is never accepted (WebSocket.cpp
\* 43-54, main.cpp 144).
AcceptsKey(before, spaces, after, arrived) ==
  LET request == Request(before, spaces, after)
      answer  == GetAnswerStr(SubSeq(request, 1, arrived), before)
  IN  arrived <= Len(request) =>
        /\ answer = "accept" <=> before > 0 /\ spaces = 1 /\ arrived >= WholeKey(before, spaces)
        /\ answer = "error"  <=> before = 0 \/ arrived < before + NameLen + 1
        /\ spaces = 1 => answer # "wrong"
=============================================================================
