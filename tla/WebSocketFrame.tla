--------------------------- MODULE WebSocketFrame ---------------------------
(***************************************************************************)
(* The framing of CCWebSocket: PackageAddHead writes the head of a frame,  *)
(* ReadPacket takes one apart, and the server measures what it sends with  *)
(* strlen.  A frame is its head bytes and the length of its payload; the   *)
(* payload bytes are kept apart (see Unmask).                              *)
(*                                                                         *)
(* Rfc... operators are RFC 6455 section 5.2, which the peers implement.   *)
(***************************************************************************)
EXTENDS Integers, Sequences

FIN_TEXT == 129              \* 0x81

\* Faulty variant: the boundary of the 7-bit form is off by one.
MutFrameHead(len) ==
  CASE len < 125                  -> <<FIN_TEXT, len>>
    [] len > 124 /\ len < 65535   -> <<FIN_TEXT, 126, len \div 256, len % 256>>
    [] len = 65535                -> <<FIN_TEXT>>
    [] len > 65535                -> <<FIN_TEXT, 127>>

\* The head PackageAddHead writes before len payload bytes.  0xFFFF is in none
\* of the branches, and above it only the marker is written.
FrameHead(len) ==
  CASE len < 126                  -> <<FIN_TEXT, len>>
    [] len > 125 /\ len < 65535   -> <<FIN_TEXT, 126, len \div 256, len % 256>>
    [] len = 65535                -> <<FIN_TEXT>>
    [] len > 65535                -> <<FIN_TEXT, 127>>

\* Faulty variant: the terminator is put three bytes further on.
MutLastWrite(len) == len + (IF len < 126 THEN 15 ELSE 20)

\* The highest index of `answer` that PackageAddHead writes, for an answer of
\* any size: the terminator it puts behind the payload.
LastWrite(len) == len + (IF len < 126 THEN 15 ELSE 17)

\* Faulty variant: the length is read in the byte order of the machine.
MutSwap(p) == p

\* ReadPacket exchanges the bytes of the little-endian short it has loaded.
Swap(p) == (p \div 256) + (p % 256) * 256

\* ReadPacket on a buffer of bufLen bytes, the first two b1 and b2, the next
\* two e1 and e2: the payload's length and place, whether the packet is
\* accepted, whether the key was read, and whether the scratch buffer of 1024
\* bytes, which must be longer than the payload, was written.
PayloadLen(b2, e1, e2) == IF b2 % 128 = 126 THEN Swap(e1 + 256 * e2) ELSE b2 % 128

PayloadOff(b2) == 2 + (IF b2 >= 128 THEN 4 ELSE 0) + (IF b2 % 128 = 126 THEN 2 ELSE 0)

Accepts(b1, len, bufLen) == len <= bufLen /\ b1 % 16 = 1 /\ b1 >= 128 /\ len > 0

KeyRead(b2) == b2 >= 128 /\ b2 % 128 # 127

Unmasked(len) == len < 1024

\* The length of the reply text the server makes of an n byte message:
\* "Recv: %d %s \r\n %s" with the number, a 19 character time and the message.
Digits(n) == IF n < 10 THEN 1 ELSE IF n < 100 THEN 2 ELSE IF n < 1000 THEN 3 ELSE 4

ReplyLen(n) == n + 30 + Digits(n)

\* The server copies and sends the frame up to its first zero byte (snprintf
\* and strlen); a text has no zero byte, a head can have one.
Sent(len) ==
  LET h == FrameHead(len)
  IN  IF \E i \in DOMAIN h : h[i] = 0
      THEN (CHOOSE i \in DOMAIN h : h[i] = 0 /\ \A j \in 1..i - 1 : h[j] # 0) - 1
      ELSE Len(h) + len

-----------------------------------------------------------------------------
(* RFC 6455 *)

RfcHead(mask, len) ==
  IF len < 126 THEN <<FIN_TEXT, mask + len>>
               ELSE <<FIN_TEXT, mask + 126, len \div 256, len % 256>>

RfcSize(len) == Len(RfcHead(0, len)) + len

-----------------------------------------------------------------------------
(* Properties of every length *)

\* Below 0xFFFF PackageAddHead writes the head of RFC 6455.
HeadIsRfc(len) == len < 65535 => FrameHead(len) = RfcHead(0, len)

\* ReadPacket finds length, place and key of every masked text frame with a
\* 7- or 16-bit length; but only below 1024 bytes is the text it returns the
\* unmasked payload, above that DecipheringStr refuses and nobody looks.
ReadsRfc(len) ==
  0 < len /\ len < 65536 =>
    LET h  == RfcHead(128, len)
        e1 == IF len < 126 THEN 0 ELSE h[3]
        e2 == IF len < 126 THEN 0 ELSE h[4]
    IN  /\ PayloadLen(h[2], e1, e2) = len
        /\ PayloadOff(h[2]) = Len(h) + 4
        /\ Accepts(h[1], len, Len(h) + 4 + len)
        /\ KeyRead(h[2])
        /\ Unmasked(len) <=> len < 1024

\* What strlen makes of a frame: exactly the frames with a zero length byte
\* are cut short.
CutByStrlen(len) ==
  len < 65535 =>
    (Sent(len) < RfcSize(len) <=> len = 0 \/ len \in 126..255 \/ (len > 255 /\ len % 256 = 0))

\* For these messages the reply frame stays inside the 1024 bytes of RtMsg.
ReplyFits(n) == n \in 1..973 => LastWrite(ReplyLen(n)) < 1024

\* "Bytes below 0xFFFF can be sent now" (the project's readme): a text of 1 to
\* 0xFFFE bytes leaves the server as one whole frame.
SendsBelow64K(len) == len \in 1..65534 => Sent(len) = RfcSize(len)
=============================================================================
