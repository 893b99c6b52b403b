------------------------------ MODULE MCCodecs ------------------------------
(***************************************************************************)
(* What the programs write and read, each part on its own: the frames of   *)
(* every length, with four bytes made of the length for base64 and hex;    *)
(* the SHA1 object fed the text of a handshake over and over, in calls of  *)
(* several lengths, until its length of ten bits goes through zero; every  *)
(* short text of orders; every short ini file; a handshake cut anywhere.   *)
(***************************************************************************)
EXTENDS WebSocketFrame, Sha1

H == INSTANCE Sha1Block
B == INSTANCE Base64
X == INSTANCE Hex
G == INSTANCE Handshake

CONSTANTS MaxLen, MaxResets, ResetAt, SignChar, Chars, MaxText, Keys, ValueLens, Percents, BufLens, MaxLines
VARIABLES part,     \* which of the parts this behaviour is of
          len, resets,
          orderBuff, buf, orders, step,
          file, line, InfoHead, fake, alive, next, pair, asked, answer, down

orderVars == <<orderBuff, buf, orders, step>>
iniVars   == <<file, line, InfoHead, fake, alive, next, pair, asked, answer, down>>

\* A key of an ini file is none of the words that tell the other lines.
ASSUME IniAssumption ==
  /\ MaxLines \in Nat /\ ValueLens \subseteq Nat /\ Percents \subseteq Nat /\ BufLens \subseteq Nat
  /\ Keys \cap {"plain", "too long", "empty"} = {}

O == INSTANCE Orders
L == INSTANCE IniList

\* The key of RFC 6455 section 1.3 with MAGIC_STR behind it.
Handshake ==
  <<100, 71, 104, 108, 73, 72, 78, 104, 98, 88, 66, 115, 90, 83, 66, 117, 98, 50, 53, 106, 90, 81, 61, 61,
    50, 53, 56, 69, 65, 70, 65, 53, 45, 69, 57, 49, 52, 45, 52, 55, 68, 65, 45, 57, 53, 67, 65, 45,
    67, 53, 65, 66, 48, 68, 67, 56, 53, 66, 49, 49>>

MCBytes == {45, 61} \cup 48..57 \cup 65..90 \cup 97..122
MCLengths == {0, 1, 3}

\* How many octets the object has taken when it is reset.
MCResetAt == {0, 60, 100, 128}

\* "s3pPLMBiTxaQ9kYGzzhZRbK+xOo=" in base64_chars.
Accept == <<44, 55, 41, 15, 11, 12, 1, 34, 19, 49, 26, 16, 61, 36, 24, 6, 51, 51, 33, 25, 17, 27, 10, 62, 49, 14, 40, 64>>

FromText == \A i \in DOMAIN msg : msg[i] = Handshake[((i - 1) % 60) + 1]

CodecsInit ==
  /\ part \in {"frames", "sha1", "orders", "ini"}
  /\ len = 0 /\ resets = 0 /\ Init /\ O!Init /\ L!Init

Sweep ==
  /\ part = "frames" /\ len < MaxLen /\ len' = len + 1
  /\ UNCHANGED <<part, resets, vars, orderVars, iniVars>>

Again == Len(msg) \in ResetAt /\ Reset /\ resets < MaxResets /\ resets' = resets + 1

Hash ==
  /\ part = "sha1"
  /\ Again \/ ((Feed \/ Result) /\ UNCHANGED resets)
  /\ FromText'
  /\ UNCHANGED <<part, len, orderVars, iniVars>>

TakeOrders == part = "orders" /\ O!Next /\ UNCHANGED <<part, len, resets, vars, iniVars>>

UseIni == part = "ini" /\ L!Next /\ UNCHANGED <<part, len, resets, vars, orderVars>>

CodecsNext == Sweep \/ Hash \/ TakeOrders \/ UseIni

CodecsSpec == CodecsInit /\ [][CodecsNext]_<<part, len, resets, vars, orderVars, iniVars>>

\* Each property of WebSocketFrame, of the current length.
HeadIsRfcInv      == HeadIsRfc(len)
ReadsRfcInv       == ReadsRfc(len)
ReplyFitsInv      == ReplyFits(len)
SendsBelow64KInv  == SendsBelow64K(len)

\* base64 of none to four bytes; the sweep has every pair of the first two.
SomeBytes(n) == SubSeq(<<len % 256, (len \div 256) % 256, (7 * len + 3) % 256, (len \div 3) % 256>>, 1, n)
RoundTripsInv ==
  part = "frames" =>
  /\ \A n \in 0..4 : B!EncodesRfc(SomeBytes(n)) /\ B!DecodesBack(SomeBytes(n))
  /\ \A n \in 0..2 : X!HexRoundTrip(SomeBytes(n))

\* A handshake with up to two characters in front and behind, up to three
\* spaces, cut anywhere: the digits of the current length choose one.
AcceptsKeyInv ==
  part = "frames" /\ len < 2448 => G!AcceptsKey(len % 3, (len \div 3) % 4, (len \div 12) % 4, len \div 48)

\* The answer to the key of RFC 6455 section 1.3 is the one it gives
\* (WebSocket.cpp 23-41, sha1.cpp 413-500).
KnownAnswer == Computed /\ msg = Handshake => B!base64_encode(H!DigestOctets(H!Digest(hashed))) = Accept

\* The properties of Orders and of IniList.
OrdersWhole    == O!OrdersWhole
GetAnswersFile == L!GetAnswersFile
AllListed      == L!AllListed
=============================================================================
