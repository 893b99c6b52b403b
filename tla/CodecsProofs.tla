----------------------------- MODULE CodecsProofs -----------------------------
(***************************************************************************)
(* The properties of what the programs write and read: the framing         *)
(* arithmetic of WebSocketFrame for every length; those of Sha1 for every  *)
(* message, every way to cut it into calls and every size of the two words *)
(* of its length; base64 and hex for texts of any length.                  *)
(***************************************************************************)
EXTENDS MCCodecs, TLAPS

-----------------------------------------------------------------------------
(* Frames *)

\* ReadPacket's exchange of the two bytes of a loaded short.
LEMMA SwapBytes ==
  ASSUME NEW hi \in 0..255, NEW lo \in 0..255
  PROVE  Swap(hi + 256 * lo) = 256 * hi + lo
<1>1. (hi + 256 * lo) \div 256 = lo /\ (hi + 256 * lo) % 256 = hi
  OBVIOUS
<1> QED
  BY <1>1 DEF Swap

\* Below 0xFFFF PackageAddHead writes the head that RFC 6455 asks for.
THEOREM HeadIsRfcAll == \A n \in Nat : HeadIsRfc(n)
<1> SUFFICES ASSUME NEW n \in Nat, n < 65535
             PROVE  FrameHead(n) = RfcHead(0, n)
  BY DEF HeadIsRfc
<1>1. CASE n < 126
  BY <1>1 DEF FrameHead, RfcHead
<1>2. CASE n >= 126
  BY <1>2 DEF FrameHead, RfcHead
<1> QED
  BY <1>1, <1>2

\* ReadPacket takes apart every masked text frame with a short length.
THEOREM ReadsRfcAll == \A n \in Nat : ReadsRfc(n)
<1> SUFFICES ASSUME NEW n \in Nat, 0 < n, n < 65536 PROVE ReadsRfc(n)
  BY DEF ReadsRfc
<1>1. CASE n < 126
  <2>1. RfcHead(128, n) = <<129, 128 + n>>
    BY <1>1 DEF RfcHead, FIN_TEXT
  <2>2. (128 + n) % 128 = n /\ 129 % 16 = 1
    BY <1>1
  <2>3. /\ PayloadLen(128 + n, 0, 0) = n /\ PayloadOff(128 + n) = 6
        /\ Accepts(129, n, 6 + n) /\ KeyRead(128 + n) /\ (Unmasked(n) <=> n < 1024)
    BY <1>1, <2>2 DEF PayloadLen, PayloadOff, Accepts, KeyRead, Unmasked
  <2> DEFINE h == RfcHead(128, n)
  <2>4. h[1] = 129 /\ h[2] = 128 + n /\ Len(h) = 2
    BY <2>1
  <2> HIDE DEF h
  <2>5. /\ PayloadLen(h[2], 0, 0) = n /\ PayloadOff(h[2]) = Len(h) + 4
        /\ Accepts(h[1], n, Len(h) + 4 + n) /\ KeyRead(h[2]) /\ (Unmasked(n) <=> n < 1024)
    BY <2>3, <2>4
  <2> QED
    BY <1>1, <2>5 DEF ReadsRfc, h
<1>2. CASE n >= 126
  <2> DEFINE hi == n \div 256
             lo == n % 256
  <2>1. RfcHead(128, n) = <<129, 254, hi, lo>>
    BY <1>2 DEF RfcHead, FIN_TEXT
  <2>2. Swap(hi + 256 * lo) = n
    <3>1. hi \in 0..255
      OBVIOUS
    <3>2. lo \in 0..255
      OBVIOUS
    <3>3. n - 256 * hi = lo
      OBVIOUS
    <3> HIDE DEF hi, lo
    <3>4. Swap(hi + 256 * lo) = 256 * hi + lo
      BY ONLY <3>1, <3>2, SwapBytes
    <3> QED
      BY <3>1, <3>2, <3>3, <3>4
  <2>3. 254 % 128 = 126 /\ 129 % 16 = 1
    OBVIOUS
  <2>4. /\ PayloadLen(254, hi, lo) = n /\ PayloadOff(254) = 8
        /\ Accepts(129, n, 8 + n) /\ KeyRead(254) /\ (Unmasked(n) <=> n < 1024)
    BY <1>2, <2>2, <2>3 DEF PayloadLen, PayloadOff, Accepts, KeyRead, Unmasked
  <2> DEFINE h == RfcHead(128, n)
  <2>5. h[1] = 129 /\ h[2] = 254 /\ h[3] = hi /\ h[4] = lo /\ Len(h) = 4
    BY <2>1
  <2> HIDE DEF h
  <2>6. /\ PayloadLen(h[2], h[3], h[4]) = n /\ PayloadOff(h[2]) = Len(h) + 4
        /\ Accepts(h[1], n, Len(h) + 4 + n) /\ KeyRead(h[2]) /\ (Unmasked(n) <=> n < 1024)
    BY <2>4, <2>5
  <2>7. ~(n < 126)
    BY <1>2
  <2> QED
    BY <2>6, <2>7 DEF ReadsRfc, h
<1> QED
  BY <1>1, <1>2

\* strlen cuts a frame exactly when a byte of its length is zero.
THEOREM CutByStrlenAll == \A n \in Nat : CutByStrlen(n)
<1> SUFFICES ASSUME NEW n \in Nat, n < 65535
             PROVE  Sent(n) < RfcSize(n)
                      <=> n = 0 \/ n \in 126..255 \/ (n > 255 /\ n % 256 = 0)
  BY DEF CutByStrlen
<1> DEFINE h == FrameHead(n)
           Zero(i) == i \in DOMAIN h /\ h[i] = 0
           First == CHOOSE i \in DOMAIN h : h[i] = 0 /\ \A j \in 1..i - 1 : h[j] # 0
<1>1. h = RfcHead(0, n)
  BY HeadIsRfcAll DEF HeadIsRfc
<1>2. RfcSize(n) = Len(h) + n /\ Len(h) \in Nat /\ DOMAIN h = 1..Len(h)
  <2>1. CASE n < 126
    BY <2>1, <1>1 DEF RfcSize, RfcHead
  <2>2. CASE n >= 126
    <3>1. h = <<FIN_TEXT, 126, n \div 256, n % 256>>
      BY <2>2, <1>1 DEF RfcHead
    <3>2. RfcSize(n) = Len(h) + n
      BY <1>1 DEF RfcSize
    <3> HIDE DEF h
    <3> QED
      BY <3>1, <3>2
  <2> QED
    BY <2>1, <2>2
<1>3. (\E i \in DOMAIN h : h[i] = 0)
        <=> n = 0 \/ n \in 126..255 \/ (n > 255 /\ n % 256 = 0)
  <2>1. CASE n < 126
    <3>1. h = <<129, n>>
      BY <2>1, <1>1 DEF RfcHead, FIN_TEXT
    <3> QED
      BY <3>1, <2>1
  <2>2. CASE n >= 126
    <3>1. h = <<129, 126, n \div 256, n % 256>>
      BY <2>2, <1>1 DEF RfcHead, FIN_TEXT
    <3>2. (\E i \in DOMAIN h : h[i] = 0) <=> n \div 256 = 0 \/ n % 256 = 0
      BY <3>1
    <3>3. n \div 256 = 0 <=> n < 256
      OBVIOUS
    <3> QED
      BY <3>2, <3>3, <2>2
  <2> QED
    BY <2>1, <2>2
<1>4. ASSUME \E i \in DOMAIN h : h[i] = 0
      PROVE  First \in DOMAIN h
  <2>1. \E i \in DOMAIN h : h[i] = 0 /\ \A j \in 1..i - 1 : h[j] # 0
    <3>1. CASE n < 126
      <4>1. h = <<129, n>>
        BY <3>1, <1>1 DEF RfcHead, FIN_TEXT
      <4> QED
        BY <4>1, <1>4
    <3>2. CASE n >= 126
      <4>1. h = <<129, 126, n \div 256, n % 256>>
        BY <3>2, <1>1 DEF RfcHead, FIN_TEXT
      <4>2. h[1] # 0 /\ h[2] # 0 /\ DOMAIN h = 1..4
        BY <4>1
      <4>3. CASE h[3] = 0
        BY <4>2, <4>3
      <4>4. CASE h[3] # 0
        BY <4>2, <4>4, <1>4
      <4> QED
        BY <4>3, <4>4
    <3> QED
      BY <3>1, <3>2
  <2> HIDE DEF h
  <2> QED
    BY <2>1
<1> HIDE DEF h
<1>5. CASE \E i \in DOMAIN h : h[i] = 0
  <2>1. Sent(n) = First - 1
    BY <1>5 DEF Sent, h
  <2> HIDE DEF First
  <2> QED
    BY <2>1, <1>2, <1>3, <1>4, <1>5
<1>6. CASE ~\E i \in DOMAIN h : h[i] = 0
  <2>1. Sent(n) = Len(h) + n
    BY <1>6 DEF Sent, h
  <2> QED
    BY <2>1, <1>2, <1>3, <1>6
<1> QED
  BY <1>5, <1>6

\* The reply to a message of up to 973 bytes stays inside the reply buffer.
THEOREM ReplyFitsAll == \A n \in Nat : ReplyFits(n)
  BY DEF ReplyFits, LastWrite, ReplyLen, Digits
\* The length the sweep is at.
LEMMA LenIsNat == CodecsSpec => [](len \in Nat)
<1>1. CodecsInit => len \in Nat
  BY DEF CodecsInit
<1>2. len \in Nat /\ [CodecsNext]_<<part, len, resets, vars, orderVars, iniVars>> => (len \in Nat)'
  BY DEF CodecsNext, Sweep, Hash, TakeOrders, UseIni
<1> QED BY <1>1, <1>2, PTL DEF CodecsSpec

\* However far the sweep goes, PackageAddHead's head is that of RFC 6455 below
\* 0xFFFF (WebSocket.cpp 68-93).
THEOREM HeadIsRfcSwept == CodecsSpec => []HeadIsRfcInv
<1>1. len \in Nat => HeadIsRfcInv
  BY HeadIsRfcAll DEF HeadIsRfcInv
<1> QED BY <1>1, LenIsNat, PTL

\* ReadPacket finds what such a head says (WebSocket.cpp 95-145).
THEOREM ReadsRfcSwept == CodecsSpec => []ReadsRfcInv
<1>1. len \in Nat => ReadsRfcInv
  BY ReadsRfcAll DEF ReadsRfcInv
<1> QED BY <1>1, LenIsNat, PTL

\* What PackageAddHead writes stays inside the buffer of the reply (main.cpp
\* 157-165, WebSocket.cpp 75-86).
THEOREM ReplyFitsSwept == CodecsSpec => []ReplyFitsInv
<1>1. len \in Nat => ReplyFitsInv
  BY ReplyFitsAll DEF ReplyFitsInv
<1> QED BY <1>1, LenIsNat, PTL

-----------------------------------------------------------------------------
(* Base64 and hex *)

\* Three bytes are what the four digits made of them stand for.
LEMMA ThreeBytes ==
  ASSUME NEW a \in 0..255, NEW b \in 0..255, NEW c \in 0..255
  PROVE  LET q == B!CharArray4(a, b, c)
         IN  /\ \A k \in 1..4 : q[k] \in 0..63
             /\ B!CharArray3(q[1], q[2], q[3], q[4]) = <<a, b, c>>
<1> DEFINE q == B!CharArray4(a, b, c)
           d == q[1]
           e == q[2]
           f == q[3]
           g == q[4]
<1>1. d = a \div 4 /\ e = (a % 4) * 16 + b \div 16 /\ f = (b % 16) * 4 + c \div 64 /\ g = c % 64
  BY DEF B!CharArray4
<1> HIDE DEF d, e, f, g, q
<1> DEFINE a0 == a % 4
           b0 == b % 16
           b1 == b \div 16
           c1 == c \div 64
<1>2. a0 \in 0..3 /\ b0 \in 0..15 /\ b1 \in 0..15 /\ c1 \in 0..3
  OBVIOUS
<1>3. a = 4 * d + a0 /\ b = 16 * b1 + b0 /\ c = 64 * c1 + g /\ d \in 0..63 /\ g \in 0..63
  BY <1>1, <1>2
<1>4. e = 16 * a0 + b1 /\ f = 4 * b0 + c1
  BY <1>1, <1>2
<1> HIDE DEF a0, b0, b1, c1
<1>5. e \in 0..63 /\ f \in 0..63
  BY <1>2, <1>4
<1>6. e \div 16 = a0 /\ e % 16 = b1
  BY ONLY <1>4, <1>2
<1>7. f \div 4 = b0 /\ f % 4 = c1
  BY ONLY <1>4, <1>2
<1>8. a0 % 4 = a0 /\ b0 % 16 = b0
  BY <1>2
<1>9. /\ (d * 4 + ((e \div 16) % 4)) % 256 = a
      /\ ((e % 16) * 16 + ((f \div 4) % 16)) % 256 = b
      /\ ((f % 4) * 64 + g) % 256 = c
  <2>1. (e \div 16) % 4 = a0 /\ (f \div 4) % 16 = b0
    BY <1>6, <1>8, <1>7
  <2>2. d * 4 + a0 = a /\ b1 * 16 + b0 = b /\ c1 * 64 + g = c
    BY <1>2, <1>3
  <2>3. a % 256 = a /\ b % 256 = b /\ c % 256 = c
    OBVIOUS
  <2> QED BY <1>6, <1>7, <2>1, <2>2, <2>3
<1>10. \A k \in 1..4 : q[k] \in 0..63
  BY <1>3, <1>5 DEF d, e, f, g
<1>11. B!CharArray3(d, e, f, g) = <<a, b, c>>
  BY <1>9 DEF B!CharArray3
<1> QED BY <1>10, <1>11 DEF d, e, f, g, q

\* Which digits a byte is made of.
LEMMA TwoDigits ==
  ASSUME NEW d, NEW e, NEW f, NEW g, NEW u, NEW v
  PROVE  /\ B!CharArray3(d, e, f, g)[1] = B!CharArray3(d, e, u, v)[1]
         /\ B!CharArray3(d, e, f, g)[2] = B!CharArray3(u, e, f, v)[2]
         /\ B!CharArray3(d, e, f, g)[3] = B!CharArray3(u, v, f, g)[3]
  BY DEF B!CharArray3

\* A byte is made of its bits.
LEMMA BitsOfByte ==
  ASSUME NEW x \in 0..255
  PROVE  /\ x = 128 * ((x \div 128) % 2) + 64 * ((x \div 64) % 2) + 32 * ((x \div 32) % 2) + 16 * ((x \div 16) % 2)
                + 8 * ((x \div 8) % 2) + 4 * ((x \div 4) % 2) + 2 * ((x \div 2) % 2) + (x % 2)
         /\ (x \div 128) % 2 \in 0..1 /\ (x \div 64) % 2 \in 0..1 /\ (x \div 32) % 2 \in 0..1 /\ (x \div 16) % 2 \in 0..1
         /\ (x \div 8) % 2 \in 0..1 /\ (x \div 4) % 2 \in 0..1 /\ (x \div 2) % 2 \in 0..1 /\ x % 2 \in 0..1
<1>1. \A y \in Nat : \E b \in 0..1 : y = 2 * (y \div 2) + b
  OBVIOUS
<1>2. PICK b0 \in 0..1, x1 \in 0..127 : x = 2 * x1 + b0
  BY <1>1
<1>3. PICK b1 \in 0..1, x2 \in 0..63 : x1 = 2 * x2 + b1
  BY <1>1
<1>4. PICK b2 \in 0..1, x3 \in 0..31 : x2 = 2 * x3 + b2
  BY <1>1
<1>5. PICK b3 \in 0..1, x4 \in 0..15 : x3 = 2 * x4 + b3
  BY <1>1
<1>6. PICK b4 \in 0..1, x5 \in 0..7 : x4 = 2 * x5 + b4
  BY <1>1
<1>7. PICK b5 \in 0..1, x6 \in 0..3 : x5 = 2 * x6 + b5
  BY <1>1
<1>8. PICK b6 \in 0..1, b7 \in 0..1 : x6 = 2 * b7 + b6
  BY <1>1
<1>9. x % 2 = b0 /\ x \div 2 = x1 /\ x1 % 2 = b1
  BY <1>2, <1>3
<1>10. x \div 4 = x2 /\ x2 % 2 = b2
  BY <1>2, <1>3, <1>4
<1>11. x = 8 * x3 + 4 * b2 + 2 * b1 + b0 
  BY <1>2, <1>3, <1>4
<1>12. x \div 8 = x3 /\ x3 % 2 = b3
  BY <1>5, <1>11
<1>13. x = 16 * x4 + 8 * b3 + 4 * b2 + 2 * b1 + b0 
  BY <1>5, <1>11
<1>14. x \div 16 = x4 /\ x4 % 2 = b4
  BY <1>6, <1>13
<1>15. x = 32 * x5 + 16 * b4 + 8 * b3 + 4 * b2 + 2 * b1 + b0 
  BY <1>6, <1>13
<1>16. x \div 32 = x5 /\ x5 % 2 = b5
  BY <1>7, <1>15
<1>17. x = 64 * x6 + 32 * b5 + 16 * b4 + 8 * b3 + 4 * b2 + 2 * b1 + b0 
  BY <1>7, <1>15
<1>18. x \div 64 = x6 /\ x6 % 2 = b6
  BY <1>8, <1>17
<1>19. x = 128 * b7 + 64 * b6 + 32 * b5 + 16 * b4 + 8 * b3 + 4 * b2 + 2 * b1 + b0 
  BY <1>8, <1>17
<1>20. x \div 128 = b7 /\ b7 % 2 = b7
  BY <1>19
<1> QED BY <1>9, <1>10, <1>12, <1>14, <1>16, <1>18, <1>19, <1>20

\* A byte of s, or the zero that stands for one behind its end; how many digits
\* are written for n bytes.
ByteAt(s, i) == IF i <= Len(s) THEN s[i] ELSE 0
NDigits(n) == (4 * n + 2) \div 3

LEMMA AtIsByte == ASSUME NEW s \in Seq(B!Byte), NEW i \in Nat, i > 0 PROVE ByteAt(s, i) \in 0..255
<1>1. i <= Len(s) => s[i] \in B!Byte
  OBVIOUS
<1> QED BY <1>1 DEF ByteAt, B!Byte

\* The length of a text, and how many of its digits there are.
LEMMA DigitsFit ==
  ASSUME NEW n \in Nat
  PROVE  /\ NDigits(n) \in Nat /\ NDigits(n) <= 4 * ((n + 2) \div 3)
         /\ 4 * ((n + 2) \div 3) \in Nat
         /\ B!BytesOf(NDigits(n)) = n
         /\ n = 0 <=> 4 * ((n + 2) \div 3) = 0
         /\ 12 * ((n + 2) \div 3) \in 4 * n..(4 * n + 8)
<1>1. PICK q \in Nat, r \in 0..2 : n = 3 * q + r
  <2>1. n = 3 * (n \div 3) + (n % 3) /\ n \div 3 \in Nat /\ n % 3 \in 0..2
    OBVIOUS
  <2> QED BY <2>1
<1>2. CASE r = 0
  <2>1. NDigits(n) = 4 * q /\ (n + 2) \div 3 = q
    BY <1>1, <1>2 DEF NDigits
  <2>2. (4 * q) \div 4 = q /\ (4 * q) % 4 = 0
    OBVIOUS
  <2> QED BY <1>1, <1>2, <2>1, <2>2 DEF B!BytesOf
<1>3. CASE r = 1
  <2>1. NDigits(n) = 4 * q + 2 /\ (n + 2) \div 3 = q + 1
    BY <1>1, <1>3 DEF NDigits
  <2>2. (4 * q + 2) \div 4 = q /\ (4 * q + 2) % 4 = 2
    OBVIOUS
  <2> QED BY <1>1, <1>3, <2>1, <2>2 DEF B!BytesOf
<1>4. CASE r = 2
  <2>1. NDigits(n) = 4 * q + 3 /\ (n + 2) \div 3 = q + 1
    BY <1>1, <1>4 DEF NDigits
  <2>2. (4 * q + 3) \div 4 = q /\ (4 * q + 3) % 4 = 3
    OBVIOUS
  <2> QED BY <1>1, <1>4, <2>1, <2>2 DEF B!BytesOf
<1> QED BY <1>2, <1>3, <1>4

\* base64_encode written without its helpers.
LEMMA Encoded ==
  ASSUME NEW s \in Seq(B!Byte)
  PROVE  B!base64_encode(s)
           = [p \in 1..4 * ((Len(s) + 2) \div 3) |->
                IF p <= NDigits(Len(s))
                THEN B!CharArray4(ByteAt(s, 3 * ((p - 1) \div 4) + 1), ByteAt(s, 3 * ((p - 1) \div 4) + 2),
                                  ByteAt(s, 3 * ((p - 1) \div 4) + 3))[((p - 1) % 4) + 1]
                ELSE 64]
  BY DEF B!base64_encode, B!Equals, ByteAt, NDigits

\* The k-th digit of the three bytes at g.
LEMMA EncodedDigit ==
  ASSUME NEW s \in Seq(B!Byte), NEW g \in Nat, NEW k \in 1..4, 4 * g + k <= NDigits(Len(s))
  PROVE  B!base64_encode(s)[4 * g + k] = B!CharArray4(ByteAt(s, 3 * g + 1), ByteAt(s, 3 * g + 2), ByteAt(s, 3 * g + 3))[k]
<1> DEFINE p == 4 * g + k
<1>1. (p - 1) \div 4 = g /\ ((p - 1) % 4) + 1 = k /\ p \in Nat /\ p >= 1
  OBVIOUS
<1>2. Len(s) \in Nat
  OBVIOUS
<1>3. p <= NDigits(Len(s)) /\ p \in 1..4 * ((Len(s) + 2) \div 3)
  BY <1>1, <1>2, DigitsFit
<1> HIDE DEF p
<1>4. B!base64_encode(s)[p] = B!CharArray4(ByteAt(s, 3 * g + 1), ByteAt(s, 3 * g + 2), ByteAt(s, 3 * g + 3))[k]
  BY <1>1, <1>3, Encoded
<1> QED BY <1>4 DEF p

\* Every digit is one, and what follows them is not.
LEMMA EncodedText ==
  ASSUME NEW s \in Seq(B!Byte)
  PROVE  LET t == B!base64_encode(s)
         IN  /\ t \in Seq(0..64) /\ Len(t) = 4 * ((Len(s) + 2) \div 3)
             /\ \A p \in 1..Len(t) : IF p <= NDigits(Len(s)) THEN t[p] \in 0..63 ELSE t[p] = 64
<1> DEFINE t == B!base64_encode(s)
           n == Len(s)
           l == 4 * ((n + 2) \div 3)
<1>1. n \in Nat
  OBVIOUS
<1>2. n \in Nat /\ l \in Nat /\ NDigits(n) \in Nat
  BY <1>1, DigitsFit
<1>3. ASSUME NEW p \in 1..l, p <= NDigits(n) PROVE t[p] \in 0..63
  <2>1. PICK g \in Nat, k \in 1..4 : p = 4 * g + k
    <3>0. p \in Nat /\ p > 0
      BY <1>2
    <3> DEFINE y == p - 1
    <3>1. y \in Nat
      BY <3>0
    <3> HIDE DEF y
    <3>2. y = 4 * (y \div 4) + (y % 4) /\ y \div 4 \in Nat /\ y % 4 \in 0..3
      BY <3>1
    <3>3. p = 4 * (y \div 4) + ((y % 4) + 1) /\ (y % 4) + 1 \in 1..4
      BY <3>0, <3>2 DEF y
    <3> QED BY <3>2, <3>3 DEF y
  <2> DEFINE a == ByteAt(s, 3 * g + 1)
             b == ByteAt(s, 3 * g + 2)
             c == ByteAt(s, 3 * g + 3)
  <2>2. a \in 0..255 /\ b \in 0..255 /\ c \in 0..255
    BY AtIsByte
  <2>3. t[p] = B!CharArray4(a, b, c)[k]
    BY <1>3, <2>1, EncodedDigit
  <2> HIDE DEF a, b, c, t
  <2>4. \A j \in 1..4 : B!CharArray4(a, b, c)[j] \in 0..63
    BY <2>2, ThreeBytes
  <2> QED BY <2>3, <2>4
<1>4. t = [p \in 1..l |-> t[p]] /\ \A p \in 1..l : ~(p <= NDigits(n)) => t[p] = 64
  BY Encoded
<1> HIDE DEF t, l
<1>5. \A p \in 1..l : t[p] \in 0..64
  BY <1>2, <1>3, <1>4
<1>6. t \in Seq(0..64) /\ Len(t) = l
  <2>1. t \in [1..l -> 0..64]
    BY <1>4, <1>5
  <2> QED BY <1>2, <2>1
<1> QED BY <1>3, <1>4, <1>6 DEF t, l

\* base64_decode reads all the digits.
LEMMA ReadsDigits == ASSUME NEW s \in Seq(B!Byte) PROVE B!Read(B!base64_encode(s)) = NDigits(Len(s))
<1> DEFINE t == B!base64_encode(s)
           n == Len(s)
           d == NDigits(n)
<1>1. n \in Nat
  OBVIOUS
<1>2. n \in Nat /\ d \in Nat /\ d <= Len(t) /\ t \in Seq(0..64) /\ Len(t) \in Nat
  <2>1. d \in Nat /\ d <= 4 * ((n + 2) \div 3)
    BY <1>1, DigitsFit
  <2>2. t \in Seq(0..64) /\ Len(t) = 4 * ((n + 2) \div 3)
    BY EncodedText
  <2> HIDE DEF t, n, d
  <2> QED BY <1>1, <2>1, <2>2
<1>3. \A p \in 1..Len(t) : IF p <= d THEN t[p] \in 0..63 ELSE t[p] = 64
  BY EncodedText
<1> HIDE DEF t, d, n
<1>4. DOMAIN t = 1..Len(t)
  BY <1>2
<1>5. CASE d = Len(t)
  <2>1. ~\E i \in DOMAIN t : t[i] \notin 0..63
    BY <1>2, <1>3, <1>5, <1>4
  <2>2. B!Read(t) = Len(t)
    BY <2>1 DEF B!Read, B!Digit
  <2> QED BY <1>5, <2>2 DEF t, d, n
<1>6. CASE d < Len(t)
  <2>1. t[d + 1] \notin 0..63 /\ d + 1 \in DOMAIN t /\ t # <<>>
    <3>1. d + 1 \in 1..Len(t) /\ ~(d + 1 <= d)
      BY <1>2, <1>6
    <3>2. t[d + 1] = 64
      BY <1>3, <3>1
    <3> QED BY <1>2, <1>4, <3>1, <3>2
  <2>2. ASSUME NEW i \in DOMAIN t, t[i] \notin 0..63, \A j \in 1..i - 1 : t[j] \in 0..63 PROVE i = d + 1
    <3>0. i \in 1..Len(t)
      BY <1>4
    <3>1. i > d
      <4>1. i <= d => t[i] \in 0..63
        BY <1>3, <3>0
      <4>2. ~(i <= d)
        BY <2>2, <4>1, Zenon
      <4> QED BY <1>2, <3>0, <4>2
    <3>2. ~(i > d + 1)
      <4>1. i > d + 1 => d + 1 \in 1..i - 1
        BY <1>2, <3>0
      <4> QED BY <2>1, <2>2, <4>1
    <3> QED BY <1>2, <3>0, <3>1, <3>2
  <2>3. \A j \in 1..d : t[j] \in 0..63
    BY <1>2, <1>3
  <2>4. (CHOOSE i \in DOMAIN t : t[i] \notin 0..63 /\ \A j \in 1..i - 1 : t[j] \in 0..63) = d + 1
    <3>1. (d + 1) - 1 = d
      BY <1>2
    <3> QED BY <2>1, <2>2, <2>3, <3>1
  <2>5. B!Read(t) = (d + 1) - 1
    BY <2>1, <2>4 DEF B!Read, B!Digit
  <2> QED BY <1>2, <2>5 DEF t, d, n
<1> QED BY <1>2, <1>5, <1>6

\* base64_decode takes back what base64_encode wrote, for bytes in any number
\* (base64.cpp 41-123).
THEOREM DecodesBackAll == \A s \in Seq(B!Byte) : B!DecodesBack(s)
<1> SUFFICES ASSUME NEW s \in Seq(B!Byte) PROVE B!base64_decode(B!base64_encode(s)) = s
  BY DEF B!DecodesBack
<1> DEFINE t == B!base64_encode(s)
           n == Len(s)
           d == NDigits(n)
           at(i) == IF i <= d THEN t[i] ELSE 255
           r(p) == B!CharArray3(at(4 * ((p - 1) \div 3) + 1), at(4 * ((p - 1) \div 3) + 2),
                                at(4 * ((p - 1) \div 3) + 3), at(4 * ((p - 1) \div 3) + 4))[((p - 1) % 3) + 1]
<1>1. n \in Nat
  OBVIOUS
<1>2. n \in Nat /\ d \in Nat /\ B!BytesOf(d) = n
  BY <1>1, DigitsFit
<1>3. B!base64_decode(t) = [p \in 1..n |-> r(p)]
  BY <1>2, ReadsDigits DEF B!base64_decode
<1>4. ASSUME NEW p \in 1..n PROVE r(p) = s[p]
  <2>1. PICK g \in Nat, k \in 1..3 : p = 3 * g + k /\ (p - 1) \div 3 = g /\ ((p - 1) % 3) + 1 = k
    <3>0. p \in Nat /\ p > 0
      BY <1>2
    <3> DEFINE y == p - 1
    <3>1. y \in Nat
      BY <3>0
    <3> HIDE DEF y
    <3>2. y = 3 * (y \div 3) + (y % 3) /\ y \div 3 \in Nat /\ y % 3 \in 0..2
      BY <3>1
    <3>3. p = 3 * (y \div 3) + ((y % 3) + 1) /\ (y % 3) + 1 \in 1..3
      BY <3>0, <3>2 DEF y
    <3> QED BY <3>2, <3>3 DEF y
  <2> DEFINE a == ByteAt(s, 3 * g + 1)
             b == ByteAt(s, 3 * g + 2)
             c == ByteAt(s, 3 * g + 3)
             q == B!CharArray4(a, b, c)
             d1 == at(4 * g + 1)
             d2 == at(4 * g + 2)
             d3 == at(4 * g + 3)
             d4 == at(4 * g + 4)
  <2>2. a \in 0..255 /\ b \in 0..255 /\ c \in 0..255
    BY AtIsByte
  <2>3. 4 * g + k + 1 <= d
    BY <1>2, <2>1 DEF NDigits
  <2>4. r(p) = B!CharArray3(d1, d2, d3, d4)[k]
    <3> HIDE DEF at
    <3> QED BY <2>1
  <2>5. ASSUME NEW j \in 1..4, 4 * g + j <= d PROVE t[4 * g + j] = q[j]
    BY <2>5, EncodedDigit
  <2>6. s[p] = IF k = 1 THEN a ELSE IF k = 2 THEN b ELSE c
    BY <2>1 DEF ByteAt
  <2> HIDE DEF t, d, a, b, c, r
  <2>7. B!CharArray3(q[1], q[2], q[3], q[4]) = <<a, b, c>>
    BY <2>2, ThreeBytes
  <2> HIDE DEF q
  <2>8. CASE k = 1
    <3>1. 4 * g + 1 <= d /\ 4 * g + 2 <= d
      BY <1>2, <2>3, <2>8
    <3>2. d1 = q[1] /\ d2 = q[2]
      BY <2>5, <3>1
    <3> HIDE DEF d1, d2, d3, d4
    <3>3. r(p) = B!CharArray3(q[1], q[2], d3, d4)[1]
      BY <2>4, <2>8, <3>2
    <3>4. r(p) = B!CharArray3(q[1], q[2], q[3], q[4])[1]
      BY <3>3, TwoDigits
    <3> QED BY <2>6, <2>7, <2>8, <3>4
  <2>9. CASE k = 2
    <3>1. 4 * g + 2 <= d /\ 4 * g + 3 <= d
      BY <1>2, <2>3, <2>9
    <3>2. d2 = q[2] /\ d3 = q[3]
      BY <2>5, <3>1
    <3> HIDE DEF d1, d2, d3, d4
    <3>3. r(p) = B!CharArray3(d1, q[2], q[3], d4)[2]
      BY <2>4, <2>9, <3>2
    <3>4. r(p) = B!CharArray3(q[1], q[2], q[3], q[4])[2]
      BY <3>3, TwoDigits
    <3> QED BY <2>6, <2>7, <2>9, <3>4
  <2>10. CASE k = 3
    <3>1. 4 * g + 3 <= d /\ 4 * g + 4 <= d
      BY <1>2, <2>3, <2>10
    <3>2. d3 = q[3] /\ d4 = q[4]
      BY <2>5, <3>1
    <3> HIDE DEF d1, d2, d3, d4
    <3>3. r(p) = B!CharArray3(d1, d2, q[3], q[4])[3]
      BY <2>4, <2>10, <3>2
    <3>4. r(p) = B!CharArray3(q[1], q[2], q[3], q[4])[3]
      BY <3>3, TwoDigits
    <3> QED BY <2>6, <2>7, <2>10, <3>4
  <2> QED BY <2>8, <2>9, <2>10
<1> HIDE DEF r
<1>5. s = [p \in 1..n |-> s[p]]
  OBVIOUS
<1> QED BY <1>3, <1>4, <1>5

\* The r-th bit of a byte of s, the first one counting most.
LEMMA BitOf ==
  ASSUME NEW s \in Seq(B!Byte), NEW i \in Nat, NEW r \in 0..7
  PROVE  B!BitAt(s, 8 * i + r) = (ByteAt(s, i + 1) \div B!Weight[r + 1]) % 2
<1>1. (8 * i + r) \div 8 = i /\ (8 * i + r) % 8 = r
  OBVIOUS
<1>2. Len(s) \in Nat
  OBVIOUS
<1>3. 8 * i + r < 8 * Len(s) <=> i + 1 <= Len(s)
  BY <1>2
<1>4. B!Weight[r + 1] \in 1..128
  BY DEF B!Weight
<1>5. \A w \in 1..128 : (0 \div w) % 2 = 0
  OBVIOUS
<1> QED BY <1>1, <1>3, <1>4, <1>5 DEF B!BitAt, ByteAt

\* A byte of s is made of its bits.
LEMMA ByteOfBits ==
  ASSUME NEW s \in Seq(B!Byte), NEW i \in Nat
  PROVE  LET y(r) == B!BitAt(s, 8 * i + r)
         IN  /\ ByteAt(s, i + 1) = 128 * y(0) + 64 * y(1) + 32 * y(2) + 16 * y(3) + 8 * y(4) + 4 * y(5) + 2 * y(6) + y(7)
             /\ \A r \in 0..7 : y(r) \in 0..1
<1> DEFINE x == ByteAt(s, i + 1)
           y(r) == B!BitAt(s, 8 * i + r)
           z0 == (x \div 128) % 2
           z1 == (x \div 64) % 2
           z2 == (x \div 32) % 2
           z3 == (x \div 16) % 2
           z4 == (x \div 8) % 2
           z5 == (x \div 4) % 2
           z6 == (x \div 2) % 2
           z7 == x % 2
<1>1. x \in 0..255
  <2>1. i + 1 \in Nat /\ i + 1 > 0
    OBVIOUS
  <2> QED BY <2>1, AtIsByte
<1>2. /\ x = 128 * z0 + 64 * z1 + 32 * z2 + 16 * z3 + 8 * z4 + 4 * z5 + 2 * z6 + z7
      /\ z0 \in 0..1 /\ z1 \in 0..1 /\ z2 \in 0..1 /\ z3 \in 0..1 /\ z4 \in 0..1 /\ z5 \in 0..1 /\ z6 \in 0..1 /\ z7 \in 0..1
  <2> HIDE DEF x
  <2> QED BY <1>1, BitsOfByte
<1>3. x \div 1 = x
  <2> HIDE DEF x
  <2> QED BY <1>1
<1>4. \A r \in 0..7 : y(r) = (x \div B!Weight[r + 1]) % 2
  BY BitOf
<1> HIDE DEF x, y
<1>5. /\ y(0) = z0 /\ y(1) = z1 /\ y(2) = z2 /\ y(3) = z3
      /\ y(4) = z4 /\ y(5) = z5 /\ y(6) = z6 /\ y(7) = z7
  BY <1>3, <1>4 DEF B!Weight
<1> HIDE DEF z0, z1, z2, z3, z4, z5, z6, z7
<1>6. \A r \in 0..7 : y(r) \in 0..1
  <2> SUFFICES ASSUME NEW r \in 0..7 PROVE y(r) \in 0..1
    OBVIOUS
  <2>1. r = 0 \/ r = 1 \/ r = 2 \/ r = 3 \/ r = 4 \/ r = 5 \/ r = 6 \/ r = 7
    OBVIOUS
  <2> QED BY <1>2, <1>5, <2>1
<1>7. x = 128 * y(0) + 64 * y(1) + 32 * y(2) + 16 * y(3) + 8 * y(4) + 4 * y(5) + 2 * y(6) + y(7)
  BY <1>2, <1>5
<1> QED BY <1>6, <1>7 DEF x, y

\* The digits RFC 4648 asks for are those of CharArray4.
LEMMA RfcDigits ==
  ASSUME NEW s \in Seq(B!Byte), NEW g \in Nat, NEW k \in 1..4
  PROVE  B!RfcDigit(s, 4 * g + k - 1)
           = B!CharArray4(ByteAt(s, 3 * g + 1), ByteAt(s, 3 * g + 2), ByteAt(s, 3 * g + 3))[k]
<1> DEFINE a == ByteAt(s, 3 * g + 1)
           b == ByteAt(s, 3 * g + 2)
           c == ByteAt(s, 3 * g + 3)
           x0 == B!BitAt(s, 24 * g + 0)
           x1 == B!BitAt(s, 24 * g + 1)
           x2 == B!BitAt(s, 24 * g + 2)
           x3 == B!BitAt(s, 24 * g + 3)
           x4 == B!BitAt(s, 24 * g + 4)
           x5 == B!BitAt(s, 24 * g + 5)
           x6 == B!BitAt(s, 24 * g + 6)
           x7 == B!BitAt(s, 24 * g + 7)
           x8 == B!BitAt(s, 24 * g + 8)
           x9 == B!BitAt(s, 24 * g + 9)
           x10 == B!BitAt(s, 24 * g + 10)
           x11 == B!BitAt(s, 24 * g + 11)
           x12 == B!BitAt(s, 24 * g + 12)
           x13 == B!BitAt(s, 24 * g + 13)
           x14 == B!BitAt(s, 24 * g + 14)
           x15 == B!BitAt(s, 24 * g + 15)
           x16 == B!BitAt(s, 24 * g + 16)
           x17 == B!BitAt(s, 24 * g + 17)
           x18 == B!BitAt(s, 24 * g + 18)
           x19 == B!BitAt(s, 24 * g + 19)
           x20 == B!BitAt(s, 24 * g + 20)
           x21 == B!BitAt(s, 24 * g + 21)
           x22 == B!BitAt(s, 24 * g + 22)
           x23 == B!BitAt(s, 24 * g + 23)
<1>1. /\ a = 128 * x0 + 64 * x1 + 32 * x2 + 16 * x3 + 8 * x4 + 4 * x5 + 2 * x6 + x7
      /\ x0 \in 0..1 /\ x1 \in 0..1 /\ x2 \in 0..1 /\ x3 \in 0..1 /\ x4 \in 0..1 /\ x5 \in 0..1 /\ x6 \in 0..1 /\ x7 \in 0..1
  <2>1. 3 * g + 0 \in Nat /\ (3 * g + 0) + 1 = 3 * g + 1
    OBVIOUS
  <2> DEFINE y(r) == B!BitAt(s, 8 * (3 * g + 0) + r)
  <2>2. /\ ByteAt(s, (3 * g + 0) + 1) = 128 * y(0) + 64 * y(1) + 32 * y(2) + 16 * y(3) + 8 * y(4) + 4 * y(5) + 2 * y(6) + y(7)
        /\ \A r \in 0..7 : y(r) \in 0..1
    BY <2>1, ByteOfBits
  <2>3. \A r \in 0..7 : 8 * (3 * g + 0) + r = 24 * g + (0 + r)
    OBVIOUS
  <2>5. y(0) = x0 /\ y(1) = x1 /\ y(2) = x2 /\ y(3) = x3 /\ y(4) = x4 /\ y(5) = x5 /\ y(6) = x6 /\ y(7) = x7
    BY <2>3
  <2> HIDE DEF a, b, c, x0, x1, x2, x3, x4, x5, x6, x7, x8, x9, x10, x11, x12, x13, x14, x15, x16, x17, x18, x19, x20, x21, x22, x23, y
  <2> QED BY <2>1, <2>2, <2>5 DEF a
<1>2. /\ b = 128 * x8 + 64 * x9 + 32 * x10 + 16 * x11 + 8 * x12 + 4 * x13 + 2 * x14 + x15
      /\ x8 \in 0..1 /\ x9 \in 0..1 /\ x10 \in 0..1 /\ x11 \in 0..1 /\ x12 \in 0..1 /\ x13 \in 0..1 /\ x14 \in 0..1 /\ x15 \in 0..1
  <2>1. 3 * g + 1 \in Nat /\ (3 * g + 1) + 1 = 3 * g + 2
    OBVIOUS
  <2> DEFINE y(r) == B!BitAt(s, 8 * (3 * g + 1) + r)
  <2>2. /\ ByteAt(s, (3 * g + 1) + 1) = 128 * y(0) + 64 * y(1) + 32 * y(2) + 16 * y(3) + 8 * y(4) + 4 * y(5) + 2 * y(6) + y(7)
        /\ \A r \in 0..7 : y(r) \in 0..1
    BY <2>1, ByteOfBits
  <2>3. \A r \in 0..7 : 8 * (3 * g + 1) + r = 24 * g + (8 + r)
    OBVIOUS
  <2>5. y(0) = x8 /\ y(1) = x9 /\ y(2) = x10 /\ y(3) = x11 /\ y(4) = x12 /\ y(5) = x13 /\ y(6) = x14 /\ y(7) = x15
    BY <2>3
  <2> HIDE DEF a, b, c, x0, x1, x2, x3, x4, x5, x6, x7, x8, x9, x10, x11, x12, x13, x14, x15, x16, x17, x18, x19, x20, x21, x22, x23, y
  <2> QED BY <2>1, <2>2, <2>5 DEF b
<1>3. /\ c = 128 * x16 + 64 * x17 + 32 * x18 + 16 * x19 + 8 * x20 + 4 * x21 + 2 * x22 + x23
      /\ x16 \in 0..1 /\ x17 \in 0..1 /\ x18 \in 0..1 /\ x19 \in 0..1 /\ x20 \in 0..1 /\ x21 \in 0..1 /\ x22 \in 0..1 /\ x23 \in 0..1
  <2>1. 3 * g + 2 \in Nat /\ (3 * g + 2) + 1 = 3 * g + 3
    OBVIOUS
  <2> DEFINE y(r) == B!BitAt(s, 8 * (3 * g + 2) + r)
  <2>2. /\ ByteAt(s, (3 * g + 2) + 1) = 128 * y(0) + 64 * y(1) + 32 * y(2) + 16 * y(3) + 8 * y(4) + 4 * y(5) + 2 * y(6) + y(7)
        /\ \A r \in 0..7 : y(r) \in 0..1
    BY <2>1, ByteOfBits
  <2>3. \A r \in 0..7 : 8 * (3 * g + 2) + r = 24 * g + (16 + r)
    OBVIOUS
  <2>5. y(0) = x16 /\ y(1) = x17 /\ y(2) = x18 /\ y(3) = x19 /\ y(4) = x20 /\ y(5) = x21 /\ y(6) = x22 /\ y(7) = x23
    BY <2>3
  <2> HIDE DEF a, b, c, x0, x1, x2, x3, x4, x5, x6, x7, x8, x9, x10, x11, x12, x13, x14, x15, x16, x17, x18, x19, x20, x21, x22, x23, y
  <2> QED BY <2>1, <2>2, <2>5 DEF c
<1> HIDE DEF a, b, c
<1>4. B!RfcDigit(s, 4 * g) = 32 * x0 + 16 * x1 + 8 * x2 + 4 * x3 + 2 * x4 + x5
  BY DEF B!RfcDigit
<1>5. B!RfcDigit(s, 4 * g + 1) = 32 * x6 + 16 * x7 + 8 * x8 + 4 * x9 + 2 * x10 + x11
  BY DEF B!RfcDigit
<1>6. B!RfcDigit(s, 4 * g + 2) = 32 * x12 + 16 * x13 + 8 * x14 + 4 * x15 + 2 * x16 + x17
  BY DEF B!RfcDigit
<1>7. B!RfcDigit(s, 4 * g + 3) = 32 * x18 + 16 * x19 + 8 * x20 + 4 * x21 + 2 * x22 + x23
  BY DEF B!RfcDigit
<1> HIDE DEF x0, x1, x2, x3, x4, x5, x6, x7, x8, x9, x10, x11, x12, x13, x14, x15, x16, x17, x18, x19, x20, x21, x22, x23
<1>8. a \div 4 = 32 * x0 + 16 * x1 + 8 * x2 + 4 * x3 + 2 * x4 + x5 /\ a % 4 = 2 * x6 + x7
  <2> DEFINE h == 32 * x0 + 16 * x1 + 8 * x2 + 4 * x3 + 2 * x4 + x5
             l == 2 * x6 + x7
  <2>1. h \in Nat /\ l \in 0..3
    BY <1>1
  <2>2. a = 4 * h + l
    BY <1>1
  <2> HIDE DEF h, l
  <2>3. a \div 4 = h /\ a % 4 = l
    BY <2>1, <2>2
  <2> QED BY <2>3 DEF h, l
<1>9. b \div 16 = 8 * x8 + 4 * x9 + 2 * x10 + x11 /\ b % 16 = 8 * x12 + 4 * x13 + 2 * x14 + x15
  <2> DEFINE h == 8 * x8 + 4 * x9 + 2 * x10 + x11
             l == 8 * x12 + 4 * x13 + 2 * x14 + x15
  <2>1. h \in Nat /\ l \in 0..15
    BY <1>2
  <2>2. b = 16 * h + l
    BY <1>2
  <2> HIDE DEF h, l
  <2>3. b \div 16 = h /\ b % 16 = l
    BY <2>1, <2>2
  <2> QED BY <2>3 DEF h, l
<1>10. c \div 64 = 2 * x16 + x17 /\ c % 64 = 32 * x18 + 16 * x19 + 8 * x20 + 4 * x21 + 2 * x22 + x23
  <2> DEFINE h == 2 * x16 + x17
             l == 32 * x18 + 16 * x19 + 8 * x20 + 4 * x21 + 2 * x22 + x23
  <2>1. h \in Nat /\ l \in 0..63
    BY <1>3
  <2>2. c = 64 * h + l
    BY <1>3
  <2> HIDE DEF h, l
  <2>3. c \div 64 = h /\ c % 64 = l
    BY <2>1, <2>2
  <2> QED BY <2>3 DEF h, l
<1>11. /\ B!CharArray4(a, b, c)[1] = a \div 4 /\ B!CharArray4(a, b, c)[2] = (a % 4) * 16 + b \div 16
       /\ B!CharArray4(a, b, c)[3] = (b % 16) * 4 + c \div 64 /\ B!CharArray4(a, b, c)[4] = c % 64
  BY DEF B!CharArray4
<1>12. B!RfcDigit(s, 4 * g) = a \div 4
  BY <1>4, <1>8
<1>13. B!RfcDigit(s, 4 * g + 1) = (a % 4) * 16 + b \div 16
  BY <1>1, <1>2, <1>5, <1>8, <1>9
<1>14. B!RfcDigit(s, 4 * g + 2) = (b % 16) * 4 + c \div 64
  BY <1>2, <1>3, <1>6, <1>9, <1>10
<1>15. B!RfcDigit(s, 4 * g + 3) = c % 64
  BY <1>7, <1>10
<1>16. /\ 4 * g + 1 - 1 = 4 * g /\ 4 * g + 2 - 1 = 4 * g + 1
       /\ 4 * g + 3 - 1 = 4 * g + 2 /\ 4 * g + 4 - 1 = 4 * g + 3
  OBVIOUS
<1>17. k = 1 \/ k = 2 \/ k = 3 \/ k = 4
  OBVIOUS
<1>18. B!RfcDigit(s, 4 * g + k - 1) = B!CharArray4(a, b, c)[k]
  BY <1>11, <1>12, <1>13, <1>14, <1>15, <1>16, <1>17
<1> QED BY <1>18 DEF a, b, c

\* base64_encode writes what RFC 4648 asks for, for bytes in any number
\* (base64.cpp 41-82).
THEOREM EncodesRfcAll == \A s \in Seq(B!Byte) : B!EncodesRfc(s)
<1> SUFFICES ASSUME NEW s \in Seq(B!Byte) PROVE B!EncodesRfc(s)
  OBVIOUS
<1> DEFINE t == B!base64_encode(s)
           n == Len(s)
           d == NDigits(n)
<1>1. n \in Nat
  OBVIOUS
<1>2. Len(t) = 4 * ((n + 2) \div 3) /\ t \in Seq(0..64) /\ DOMAIN t = 1..Len(t) /\ Len(t) \in Nat
  <2>1. Len(t) = 4 * ((n + 2) \div 3) /\ t \in Seq(0..64)
    BY EncodedText
  <2> HIDE DEF t
  <2> QED BY <2>1
<1>3. Len(t) % 4 = 0
  <2> DEFINE m == (n + 2) \div 3
  <2>1. m \in Nat
    BY <1>1
  <2> HIDE DEF m
  <2>2. (4 * m) % 4 = 0
    BY <2>1
  <2> QED BY <1>2, <2>2 DEF m
<1>4. 3 * Len(t) \in 4 * n..(4 * n + 8) /\ d \in Nat
  <2>1. 12 * ((n + 2) \div 3) \in 4 * n..(4 * n + 8) /\ d \in Nat
    BY <1>1, DigitsFit
  <2> HIDE DEF t, d
  <2> QED BY <1>1, <1>2, <2>1
<1>5. ASSUME NEW p \in 1..Len(t)
      PROVE  t[p] = IF 6 * (p - 1) < 8 * n THEN B!RfcDigit(s, p - 1) ELSE 64
  <2>1. 6 * (p - 1) < 8 * n <=> p <= d
    BY <1>1 DEF NDigits
  <2>2. CASE p <= d
    <3>1. PICK g \in Nat, k \in 1..4 : p = 4 * g + k
      <4> DEFINE y == p - 1
      <4>1. y \in Nat
        OBVIOUS
      <4> HIDE DEF y
      <4>2. y = 4 * (y \div 4) + (y % 4) /\ y \div 4 \in Nat /\ y % 4 \in 0..3
        BY <4>1
      <4>3. p = 4 * (y \div 4) + ((y % 4) + 1) /\ (y % 4) + 1 \in 1..4
        BY <4>2 DEF y
      <4> QED BY <4>2, <4>3
    <3>2. t[p] = B!RfcDigit(s, p - 1)
      <4>1. 4 * g + k <= NDigits(Len(s)) /\ p - 1 = 4 * g + k - 1
        BY <2>2, <3>1
      <4>2. PICK digit : digit = B!CharArray4(ByteAt(s, 3 * g + 1), ByteAt(s, 3 * g + 2), ByteAt(s, 3 * g + 3))[k]
        OBVIOUS
      <4>3. B!base64_encode(s)[4 * g + k] = digit
        BY <4>1, <4>2, EncodedDigit
      <4>4. B!RfcDigit(s, 4 * g + k - 1) = digit
        BY <4>2, RfcDigits
      <4> QED BY <3>1, <4>1, <4>3, <4>4
    <3> QED BY <2>1, <2>2, <3>2
  <2>3. CASE ~(p <= d)
    <3>1. t[p] = 64
      BY <2>3, EncodedText
    <3> QED BY <2>1, <2>3, <3>1
  <2> QED BY <2>2, <2>3
<1> QED BY <1>2, <1>3, <1>4, <1>5 DEF B!EncodesRfc, B!Equals

\* What HexToStr wrote StrToHex reads back, for bytes in any number, in buffers
\* that just hold them, and neither works in smaller ones or with a character
\* that is no digit (MyCodes.cpp 84-150).
THEOREM HexRoundTripAll == \A s \in Seq(B!Byte) : X!HexRoundTrip(s)
<1> SUFFICES ASSUME NEW s \in Seq(B!Byte), s # <<>> PROVE X!HexRoundTrip(s)
  BY DEF X!HexRoundTrip
<1> DEFINE n == Len(s)
           t == X!HexToStr(s, 2 * n + 1)
           high(i) == s[i] \div 16
           low(i) == s[i] % 16
<1>1. n \in Nat /\ n > 0
  OBVIOUS
<1>2. \A i \in 1..n : s[i] \in 0..255
  <2>1. \A i \in 1..n : s[i] \in B!Byte
    OBVIOUS
  <2> QED BY <2>1 DEF B!Byte
<1>3. t = [p \in 1..2 * n |-> IF p % 2 = 1 THEN s[(p + 1) \div 2] \div 16 ELSE s[p \div 2] % 16]
  <2>1. ~(2 * n >= 2 * n + 1)
    BY <1>1
  <2> QED BY <2>1 DEF X!HexToStr
<1>4. X!HexToStr(s, 2 * n) = X!NULL
  <2>1. 2 * n >= 2 * n
    BY <1>1
  <2> QED BY <2>1 DEF X!HexToStr
<1>5. ASSUME NEW i \in 1..n
      PROVE  /\ 2 * i - 1 \in 1..2 * n /\ 2 * i \in 1..2 * n
             /\ t[2 * i - 1] = s[i] \div 16 /\ t[2 * i] = s[i] % 16
  <2>1. 2 * i - 1 \in 1..2 * n /\ 2 * i \in 1..2 * n
    BY <1>1
  <2>2. (2 * i - 1) % 2 = 1 /\ (2 * i - 1 + 1) \div 2 = i /\ (2 * i) % 2 = 0 /\ (2 * i) \div 2 = i
    BY <1>1
  <2> HIDE DEF t, n
  <2> QED BY <1>3, <2>1, <2>2
<1>6. ASSUME NEW p \in 1..2 * n PROVE t[p] \in 0..15
  <2>1. PICK i \in 1..n : p = 2 * i - 1 \/ p = 2 * i
    <3> DEFINE y == p + 1
    <3>1. y \in Nat /\ y = 2 * (y \div 2) + (y % 2) /\ y % 2 \in 0..1 /\ y \div 2 \in 1..n
      BY <1>1
    <3> HIDE DEF y, n
    <3>2. p = 2 * (y \div 2) + (y % 2) - 1
      BY <1>1, <3>1 DEF y
    <3> QED BY <1>1, <3>1, <3>2
  <2>2. PICK x \in 0..255 : s[i] = x
    BY <1>2
  <2>3. x \div 16 \in 0..15 /\ x % 16 \in 0..15
    OBVIOUS
  <2>4. s[i] \div 16 \in 0..15 /\ s[i] % 16 \in 0..15
    BY <2>2, <2>3
  <2>5. t[p] = s[i] \div 16 \/ t[p] = s[i] % 16
    BY <1>5, <2>1, Zenon
  <2> HIDE DEF t, n
  <2> QED BY <2>4, <2>5
<1> HIDE DEF t
<1>7. DOMAIN t = 1..2 * n /\ t \in Seq(0..15) /\ Len(t) = 2 * n
  <2>1. t \in [1..2 * n -> 0..15]
    BY <1>3, <1>6
  <2>2. 2 * n \in Nat
    BY <1>1
  <2> HIDE DEF n
  <2> QED BY <2>1, <2>2
<1>8. Len(t) \div 2 = n /\ Len(t) % 2 = 0 /\ t # <<>>
  <2> HIDE DEF n
  <2> QED BY <1>1, <1>7
<1>9. X!StrToHex(t, n) = X!NULL
  BY <1>1, <1>8 DEF X!StrToHex
<1>10. X!StrToHex(t, n + 1) = s
  <2>1. X!IsHex(t)
    <3>1. ASSUME NEW p \in 1..2 * n PROVE t[p] # 16
      <4>1. 16 \notin 0..15
        OBVIOUS
      <4> QED BY <1>6, <4>1, Zenon
    <3> QED BY <1>7, <3>1 DEF X!IsHex, X!NoDigit
  <2>2. X!StrToHex(t, n + 1) = [i \in 1..n |-> (16 * t[2 * i - 1] + t[2 * i]) % 256]
    <3>1. ~(n >= n + 1)
      BY <1>1
    <3> HIDE DEF n
    <3> QED BY <1>8, <2>1, <3>1 DEF X!StrToHex
  <2>3. ASSUME NEW i \in 1..n PROVE (16 * t[2 * i - 1] + t[2 * i]) % 256 = s[i]
    <3>1. PICK x \in 0..255 : s[i] = x
      BY <1>2
    <3>2. (16 * (x \div 16) + (x % 16)) % 256 = x
      OBVIOUS
    <3> QED BY <1>5, <3>1, <3>2
  <2>4. s = [i \in 1..n |-> s[i]]
    OBVIOUS
  <2> HIDE DEF n
  <2> QED BY <2>2, <2>3, <2>4
<1>11. ASSUME NEW p \in DOMAIN t PROVE X!StrToHex([t EXCEPT ![p] = X!NoDigit], n + 1) = X!NULL
  <2> DEFINE u == [t EXCEPT ![p] = X!NoDigit]
  <2>1. p \in DOMAIN u /\ u[p] = X!NoDigit
    BY <1>7
  <2>2. ~X!IsHex(u)
    BY <2>1 DEF X!IsHex
  <2> HIDE DEF u
  <2> QED BY <2>2 DEF X!StrToHex, u
<1> QED BY <1>4, <1>9, <1>10, <1>11 DEF X!HexRoundTrip, t, n

\* Whatever bytes are written in base64 or hex are read back, as RFC 4648 has
\* it, at every length of the sweep (base64.cpp 41-123, MyCodes.cpp 84-150).
THEOREM RoundTripsSwept == CodecsSpec => []RoundTripsInv
<1>1. len \in Nat => RoundTripsInv
  <2> SUFFICES ASSUME len \in Nat PROVE RoundTripsInv
    OBVIOUS
  <2> DEFINE four == <<len % 256, (len \div 256) % 256, (7 * len + 3) % 256, (len \div 3) % 256>>
  <2>1. four \in Seq(B!Byte) /\ Len(four) = 4
    BY DEF B!Byte
  <2> HIDE DEF four
  <2>2. ASSUME NEW n \in 0..4 PROVE SubSeq(four, 1, n) \in Seq(B!Byte)
    BY <2>1
  <2>3. ASSUME NEW n \in 0..4 PROVE SomeBytes(n) \in Seq(B!Byte)
    BY <2>2 DEF SomeBytes, four
  <2>4. \A n \in 0..2 : n \in 0..4
    OBVIOUS
  <2> QED BY <2>3, <2>4, EncodesRfcAll, DecodesBackAll, HexRoundTripAll DEF RoundTripsInv
<1> QED BY <1>1, LenIsNat, PTL

-----------------------------------------------------------------------------
(* The SHA1 object *)

\* The length of the message is what the two words say, until it does not fit
\* them; and who has refused octets remembers it.
Counted ==
  /\ Length_Low % 8 = 0
  /\ given >= Len(msg)
  /\ Computed => left = 0
  /\ Corrupted => left = 0 /\ ~(given = Len(msg) /\ 8 * given < LowMod * HighMod)
  /\ ~Corrupted => given = Len(msg) + left /\ 8 * Len(msg) = LowMod * Length_High + Length_Low
  /\ ret = "true" => Computed /\ ~Corrupted
  /\ ret = "false" => Corrupted

HashInv == TypeOK /\ StreamKept /\ DigestOfPadded /\ Counted

\* A product grows with its factor.
LEMMA Grows ==
  ASSUME NEW a \in Nat, NEW b \in Nat, NEW w \in Nat, a < b
  PROVE  w * a + w <= w * b
<1>1. PICK d \in Nat : b = a + 1 + d BY SMT
<1>2. w * b = w * a + w + w * d BY <1>1, SMT
<1>3. w * d \in Nat BY SMT
<1> QED BY <1>2, <1>3, SMT

\* Quotient and remainder are the only ones.
LEMMA QuotientRemainder ==
  ASSUME NEW q \in Nat, NEW r \in Nat, NEW w \in Nat, r < w
  PROVE  /\ (w * q + r) \div w = q
         /\ (w * q + r) % w = r
<1> DEFINE x == w * q + r
           p == x \div w
           s == x % w
<1>1. x \in Nat BY SMT
<1>2. p \in Nat /\ s \in Nat /\ s < w /\ x = w * p + s BY <1>1, SMT
<1>3. ~(p < q)
  <2> SUFFICES ASSUME p < q PROVE FALSE OBVIOUS
  <2>1. w * p + w <= w * q BY <1>2, Grows
  <2> QED BY <1>2, <2>1, SMT
<1>4. ~(q < p)
  <2> SUFFICES ASSUME q < p PROVE FALSE OBVIOUS
  <2>1. w * q + w <= w * p BY <1>2, Grows
  <2> QED BY <1>2, <2>1, SMT
<1>5. p = q BY <1>2, <1>3, <1>4, SMT
<1> HIDE DEF x, p, s
<1>6. s = r BY <1>2, <1>5, SMT DEF x
<1> QED BY <1>5, <1>6 DEF x, p, s

\* An octet of the length is one.
LEMMA LengthOctetType ==
  ASSUME NEW high \in Nat, NEW low \in Nat, NEW k \in 56..63
  PROVE  LengthOctet(high, low, k) \in 0..255
<1>1. ASSUME NEW w \in Nat, NEW j \in 0..3 PROVE Octet(w, j) \in 0..255
  <2>1. CASE j = 0 BY <2>1, SMT DEF Octet
  <2>2. CASE j = 1 BY <2>2, SMT DEF Octet
  <2>3. CASE j = 2 BY <2>3, SMT DEF Octet
  <2>4. CASE j = 3 BY <2>4, SMT DEF Octet
  <2> QED BY <2>1, <2>2, <2>3, <2>4, SMT
<1>2. CASE k < 60
  <2>1. k - 56 \in 0..3 BY <1>2, SMT
  <2> QED BY <1>1, <1>2, <2>1 DEF LengthOctet
<1>3. CASE ~(k < 60)
  <2>1. k - 60 \in 0..3 BY <1>3, SMT
  <2> QED BY <1>1, <1>3, <2>1 DEF LengthOctet
<1> QED BY <1>2, <1>3

\* The octets of the block in front of the index have been written.
LEMMA Written ==
  ASSUME TypeOK, StreamKept, ~Computed, NEW k \in 0..Message_Block_Index - 1
  PROVE  Message_Block[k] \in 0..255
<1> DEFINE h == Len(hashed)
<1>1. h \in Nat /\ Message_Block_Index \in 0..63 BY DEF TypeOK
<1>2. Len(msg) = 64 * h + Message_Block_Index BY DEF StreamKept
<1>3. 64 * h + k \in 0..Len(msg) - 1 /\ 64 * h + k + 1 \in 1..Len(msg) BY <1>1, <1>2, SMT
<1>4. At(64 * h + k) = msg[64 * h + k + 1] BY <1>3 DEF StreamKept
<1>5. (64 * h + k) % 64 = k /\ ~(64 * h + k < 64 * h) BY <1>1, SMT
<1>6. At(64 * h + k) = Message_Block[k] BY <1>5 DEF At
<1>7. msg[64 * h + k + 1] \in Bytes BY <1>3 DEF TypeOK
<1> QED BY <1>4, <1>6, <1>7, Sha1Assumption

\* One octet goes to its place, whether it fills the block or not.
LEMMA ByteKept ==
  ASSUME HashInv, NEW b \in Bytes, InputByte(b)
  PROVE  StreamKept' /\ hashed' \in Seq(Block) /\ Message_Block_Index' \in 0..63
         /\ Message_Block' \in [0..63 -> 0..255 \cup {Unset}]
<1> DEFINE h == Len(hashed)
           i == Message_Block_Index
           n == Len(msg)
           block == [Message_Block EXCEPT ![i] = b]
<1>1. i \in 0..63 /\ hashed \in Seq(Block) /\ msg \in Seq(Bytes) BY DEF HashInv, TypeOK
<1>2. h \in Nat /\ i \in 0..63 /\ n \in Nat BY <1>1
<1>3. ~Computed /\ Computed' = Computed BY DEF HashInv, Counted, InputByte
<1>4. n = 64 * h + i BY <1>3 DEF HashInv, StreamKept
<1>a. \A j \in 0..n - 1 : At(j) = msg[j + 1] BY <1>3 DEF HashInv, StreamKept
<1>5. b \in 0..255 BY Sha1Assumption
<1>6. Message_Block' = block /\ block \in [0..63 -> 0..255 \cup {Unset}] BY <1>2, <1>5 DEF HashInv, TypeOK, InputByte, Stored
<1>7. \A k \in 0..63 : block[k] = IF k = i THEN b ELSE Message_Block[k] BY <1>2 DEF HashInv, TypeOK
<1>8. msg' = Append(msg, b) /\ Len(msg') = n + 1 /\ msg'[n + 1] = b /\ \A j \in 1..n : msg'[j] = msg[j]
  BY <1>1 DEF InputByte
<1> HIDE DEF block, h, i, n
<1>9. CASE i = 63
  <2>1. hashed' = Append(hashed, block) /\ Message_Block_Index' = 0 BY <1>9 DEF InputByte, Stored, i, block
  <2>2. block \in Block
    <3>1. \A k \in 0..63 : block[k] \in 0..255
      <4> SUFFICES ASSUME NEW k \in 0..63 PROVE block[k] \in 0..255 OBVIOUS
      <4>1. CASE k = 63 BY <4>1, <1>5, <1>7, <1>9
      <4>2. CASE k # 63
        <5>1. k \in 0..Message_Block_Index - 1 BY <4>2, <1>9, SMT DEF i
        <5>2. Message_Block[k] \in 0..255 BY <5>1, <1>3, Written DEF HashInv
        <5> QED BY <5>2, <4>2, <1>7, <1>9
      <4> QED BY <4>1, <4>2
    <3>2. DOMAIN block = 0..63 /\ block = [k \in 0..63 |-> block[k]] BY <1>6
    <3> QED BY <3>1, <3>2 DEF Block
  <2>3. hashed' \in Seq(Block) /\ Len(hashed') = h + 1 /\ hashed'[h + 1] = block /\ \A k \in 1..h : hashed'[k] = hashed[k]
    BY <2>1, <2>2, <1>1 DEF h
  <2>4. \A j \in 0..n : At(j)' = msg'[j + 1]
    <3> SUFFICES ASSUME NEW j \in 0..n PROVE At(j)' = msg'[j + 1] OBVIOUS
    <3>1. j < 64 * (h + 1) BY <1>2, <1>4, <1>9, SMT
    <3>2. At(j)' = hashed'[j \div 64 + 1][j % 64] BY <3>1, <2>3 DEF At
    <3>3. CASE j < 64 * h
      <4>1. j \div 64 + 1 \in 1..h /\ j \in 0..n - 1 BY <3>3, <1>2, <1>4, SMT
      <4>2. At(j) = hashed[j \div 64 + 1][j % 64] BY <3>3 DEF At, h
      <4>3. j + 1 \in 1..n BY <4>1, <1>2, SMT
      <4> QED BY <4>1, <4>2, <4>3, <3>2, <2>3, <1>a, <1>8
    <3>4. CASE ~(j < 64 * h)
      <4>1. j \div 64 = h /\ j % 64 = j - 64 * h /\ j % 64 \in 0..63 BY <3>1, <3>4, <1>2, SMT
      <4>2. At(j)' = block[j % 64] BY <4>1, <3>2, <2>3
      <4>3. CASE j = n
        <5>1. j % 64 = i BY <4>1, <4>3, <1>2, <1>4, SMT
        <5>2. block[i] = b BY <1>2, <1>7
        <5> QED BY <5>1, <5>2, <4>2, <4>3, <1>8
      <4>4. CASE j # n
        <5>1. j \in 0..n - 1 /\ j + 1 \in 1..n /\ j % 64 # i BY <4>1, <4>4, <1>2, <1>4, SMT
        <5>2. At(j) = Message_Block[j % 64] BY <3>4 DEF At, h
        <5> QED BY <5>1, <5>2, <4>1, <4>2, <1>a, <1>7, <1>8
      <4> QED BY <4>3, <4>4
    <3> QED BY <3>3, <3>4
  <2>5. Len(msg') = 64 * Len(hashed') + Message_Block_Index' BY <2>1, <2>3, <1>2, <1>4, <1>8, <1>9, SMT
  <2>6. \A j \in 0..Len(msg') - 1 : At(j)' = msg'[j + 1] BY <2>4, <1>2, <1>8, SMT
  <2>7. StreamKept' BY <2>5, <2>6 DEF StreamKept
  <2>8. Message_Block_Index' \in 0..63 BY <2>1, SMT
  <2> QED BY <2>3, <2>7, <2>8, <1>6
<1>10. CASE i # 63
  <2>1. hashed' = hashed /\ Message_Block_Index' = i + 1 BY <1>10 DEF InputByte, Stored, i, block
  <2>2. \A j \in 0..n : At(j)' = msg'[j + 1]
    <3> SUFFICES ASSUME NEW j \in 0..n PROVE At(j)' = msg'[j + 1] OBVIOUS
    <3>1. CASE j < 64 * h
      <4>1. j \in 0..n - 1 /\ j + 1 \in 1..n BY <3>1, <1>2, <1>4, SMT
      <4>2. At(j)' = At(j) BY <3>1, <2>1 DEF At, h
      <4> QED BY <4>1, <4>2, <1>a, <1>8
    <3>2. CASE ~(j < 64 * h)
      <4>1. j % 64 = j - 64 * h /\ j % 64 \in 0..63 BY <3>2, <1>2, <1>4, SMT
      <4>2. At(j)' = block[j % 64] BY <3>2, <2>1, <1>6 DEF At, h
      <4>3. CASE j = n
        <5>1. j % 64 = i BY <4>1, <4>3, <1>2, <1>4, SMT
        <5>2. block[i] = b BY <1>2, <1>7
        <5> QED BY <5>1, <5>2, <4>2, <4>3, <1>8
      <4>4. CASE j # n
        <5>1. j \in 0..n - 1 /\ j + 1 \in 1..n /\ j % 64 # i BY <4>1, <4>4, <1>2, <1>4, SMT
        <5>2. At(j) = Message_Block[j % 64] BY <3>2 DEF At, h
        <5> QED BY <5>1, <5>2, <4>1, <4>2, <1>a, <1>7, <1>8
      <4> QED BY <4>3, <4>4
    <3> QED BY <3>1, <3>2
  <2>3. Len(msg') = 64 * Len(hashed') + Message_Block_Index' BY <2>1, <1>2, <1>4, <1>8, SMT DEF h
  <2>4. \A j \in 0..Len(msg') - 1 : At(j)' = msg'[j + 1] BY <2>2, <1>2, <1>8, SMT
  <2>5. Message_Block_Index' \in 0..63 BY <2>1, <1>2, <1>10, SMT
  <2>6. StreamKept' BY <2>3, <2>4 DEF StreamKept
  <2> QED BY <2>1, <2>5, <2>6, <1>1, <1>6
<1> QED BY <1>9, <1>10

-----------------------------------------------------------------------------
(* Its length *)

\* The two words count eight bits more, and the message is too long exactly
\* when they cannot.
LEMMA ByteCounted ==
  ASSUME HashInv, NEW b \in Bytes, InputByte(b)
  PROVE  Counted' /\ Length_Low' \in 0..LowMod - 1 /\ Length_High' \in 0..HighMod - 1
         /\ left' \in Nat /\ Corrupted' \in BOOLEAN
<1> DEFINE n == Len(msg)
<1>1. /\ n \in Nat /\ Len(msg') = n + 1
      /\ LowMod \in Nat /\ HighMod \in Nat /\ LowMod > 0 /\ HighMod > 0 /\ LowMod % 8 = 0
      /\ Length_Low \in 0..LowMod - 1 /\ Length_High \in 0..HighMod - 1
      /\ left \in Nat /\ left > 0 /\ given \in Nat
  <2>1. LowMod \in Nat /\ HighMod \in Nat /\ LowMod > 0 /\ HighMod > 0 /\ LowMod % 8 = 0 BY Sha1Assumption
  <2>2. msg \in Seq(Bytes) /\ left \in Nat /\ given \in Nat BY DEF HashInv, TypeOK
  <2>3. Length_Low \in 0..LowMod - 1 /\ Length_High \in 0..HighMod - 1 BY DEF HashInv, TypeOK
  <2>4. left > 0 /\ msg' = Append(msg, b) BY DEF InputByte
  <2>5. n \in Nat /\ Len(msg') = n + 1 BY <2>2, <2>4
  <2> QED BY <2>1, <2>2, <2>3, <2>4, <2>5
<1>2. ~Computed /\ ~Corrupted /\ ret \in {"none", "true", "false"} BY <1>1 DEF HashInv, Counted, TypeOK
<1>3. ret = "none" /\ ret' = ret /\ Computed' = Computed /\ given' = given BY <1>2 DEF HashInv, Counted, InputByte
<1>4. given = n + left /\ 8 * n = LowMod * Length_High + Length_Low /\ Length_Low % 8 = 0 BY <1>2 DEF HashInv, Counted
<1>5. Length_Low + 8 <= LowMod BY <1>1, <1>4, SMT
<1>6. Corrupted' = (Length_Low' = 0 /\ Length_High' = 0) BY DEF InputByte
<1>7. left' = IF Corrupted' THEN 0 ELSE left - 1 BY DEF InputByte
<1>8. left' \in Nat BY <1>1, <1>7, SMT
<1> HIDE DEF n
<1>9. CASE Length_Low + 8 < LowMod
  <2>1. Length_Low' = Length_Low + 8 /\ Length_Low' # 0
    <3>1. Length_Low' = (Length_Low + 8) % LowMod BY DEF InputByte
    <3>2. (Length_Low + 8) % LowMod = Length_Low + 8 BY <1>1, <1>9, SMT
    <3> QED BY <3>1, <3>2, <1>1, SMT
  <2>2. Length_High' = Length_High BY <2>1 DEF InputByte
  <2>3. ~Corrupted' /\ left' = left - 1 BY <2>1, <1>6, <1>7
  <2>4. 8 * (n + 1) = LowMod * Length_High' + Length_Low' BY <2>1, <2>2, <1>1, <1>4, SMT
  <2>5. given' = n + 1 + left' /\ given' >= n + 1 BY <2>3, <1>1, <1>3, <1>4, <1>8, SMT
  <2>6. Length_Low' % 8 = 0 BY <2>1, <1>1, <1>4, SMT
  <2>7. Length_Low' \in 0..LowMod - 1 BY <2>1, <1>1, <1>9, SMT
  <2>8. 8 * Len(msg') = LowMod * Length_High' + Length_Low' /\ given' = Len(msg') + left' /\ given' >= Len(msg')
    BY <2>4, <2>5, <1>1
  <2>9. ~Computed' /\ ret' = "none" BY <1>2, <1>3
  <2>10. Counted' BY <2>3, <2>6, <2>8, <2>9 DEF Counted
  <2> QED BY <2>2, <2>3, <2>7, <2>10, <1>1, <1>6, <1>8
<1>10. CASE Length_Low + 8 = LowMod
  <2>1. Length_Low' = 0
    <3>1. Length_Low' = (Length_Low + 8) % LowMod BY DEF InputByte
    <3>2. LowMod % LowMod = 0 BY <1>1, SMT
    <3> QED BY <3>1, <3>2, <1>10
  <2>2. Length_High' = (Length_High + 1) % HighMod BY <2>1 DEF InputByte
  <2>3. 8 * (n + 1) = LowMod * (Length_High + 1)
    <3>1. LowMod * (Length_High + 1) = LowMod * Length_High + LowMod BY <1>1, SMT
    <3> QED BY <3>1, <1>1, <1>4, <1>10, SMT
  <2>4. Length_Low' % 8 = 0 /\ Length_Low' \in 0..LowMod - 1 BY <2>1, <1>1, SMT
  <2>5. CASE Length_High + 1 < HighMod
    <3>1. Length_High' = Length_High + 1 /\ Length_High' # 0 /\ Length_High' \in 0..HighMod - 1
      <4>1. (Length_High + 1) % HighMod = Length_High + 1 BY <1>1, <2>5, SMT
      <4> QED BY <4>1, <2>2, <2>5, <1>1, SMT
    <3>2. ~Corrupted' /\ left' = left - 1 BY <3>1, <1>6, <1>7
    <3>3. LowMod * Length_High' \in Nat BY <3>1, <1>1, SMT
    <3>4. 8 * (n + 1) = LowMod * Length_High' + Length_Low' BY <3>1, <3>3, <2>1, <2>3, SMT
    <3>5. given' = n + 1 + left' /\ given' >= n + 1 BY <3>2, <1>1, <1>3, <1>4, <1>8, SMT
    <3>6. 8 * Len(msg') = LowMod * Length_High' + Length_Low' /\ given' = Len(msg') + left' /\ given' >= Len(msg')
      BY <3>4, <3>5, <1>1
    <3>7. ~Computed' /\ ret' = "none" BY <1>2, <1>3
    <3>8. Counted' BY <3>2, <3>6, <3>7, <2>4 DEF Counted
    <3> QED BY <3>1, <3>2, <3>8, <2>4, <1>6, <1>8
  <2>6. CASE Length_High + 1 = HighMod
    <3>1. Length_High' = 0 /\ Length_High' \in 0..HighMod - 1
      <4>1. HighMod % HighMod = 0 BY <1>1, SMT
      <4> QED BY <4>1, <2>2, <2>6, <1>1, SMT
    <3>2. Corrupted' /\ left' = 0 BY <3>1, <2>1, <1>6, <1>7
    <3>3. 8 * (n + 1) = LowMod * HighMod BY <2>3, <2>6
    <3>4. given' >= n + 1 /\ ~(given' = n + 1 /\ 8 * given' < LowMod * HighMod)
      <4>1. given' >= n + 1 BY <1>1, <1>3, <1>4, SMT
      <4>2. LowMod * HighMod \in Nat BY <1>1, SMT
      <4>3. ~(8 * (n + 1) < LowMod * HighMod) BY <3>3, <4>2, SMT
      <4> QED BY <4>1, <4>3
    <3> QED BY <3>1, <3>2, <3>4, <2>4, <1>1, <1>2, <1>3, <1>8 DEF Counted
  <2> QED BY <2>5, <2>6, <1>1, SMT
<1> QED BY <1>5, <1>9, <1>10, <1>1, SMT

LEMMA InputByteInv == ASSUME HashInv, NEW b \in Bytes, InputByte(b) PROVE HashInv'
<1>1. ~Computed' /\ Computed' \in BOOLEAN /\ given' \in Nat /\ ret' \in {"none", "true", "false"} /\ msg' \in Seq(Bytes)
  <2>1. Computed' = Computed /\ given' = given /\ ret' = ret /\ msg' = Append(msg, b) /\ left > 0 BY DEF InputByte
  <2>2. Computed \in BOOLEAN /\ given \in Nat /\ ret \in {"none", "true", "false"} /\ msg \in Seq(Bytes) BY DEF HashInv, TypeOK
  <2>3. ~Computed BY <2>1 DEF HashInv, Counted
  <2>4. msg' \in Seq(Bytes) BY <2>1, <2>2
  <2> QED BY <2>1, <2>2, <2>3, <2>4
<1>2. TypeOK' BY <1>1, ByteKept, ByteCounted DEF TypeOK
<1>3. DigestOfPadded' BY <1>1 DEF DigestOfPadded
<1> QED BY <1>2, <1>3, ByteKept, ByteCounted DEF HashInv

-----------------------------------------------------------------------------
(* Its padding *)

\* What PadMessage works in is what FIPS 180 asks, on both sides of 55 octets.
LEMMA PaddingRight ==
  ASSUME HashInv, ResultFirst
  PROVE  hashed' \in Seq(Block) /\ Message_Block' \in [0..63 -> 0..255] /\ DigestOfPadded'
<1> DEFINE h == Len(hashed)
           i == Message_Block_Index
           n == Len(msg)
           mark  == [k \in 0..63 |-> IF k < i THEN Message_Block[k] ELSE IF k = i THEN 128 ELSE 0]
           zeros == [k \in 0..63 |-> 0]
           close(b) == [k \in 0..63 |-> IF k < 56 THEN b[k] ELSE LengthOctet(Length_High, Length_Low, k)]
<1>0. ~Computed /\ ~Corrupted /\ left = 0 /\ msg' = msg /\ hashed \in Seq(Block) /\ msg \in Seq(Bytes) /\ i \in 0..63
  BY DEF HashInv, TypeOK, ResultFirst
<1>1. h \in Nat /\ n \in Nat BY <1>0
<1>2. n = 64 * h + i BY <1>0 DEF HashInv, StreamKept
<1>3. \A j \in 0..n - 1 : At(j) = msg[j + 1] BY <1>0 DEF HashInv, StreamKept
<1>4. Length_High \in Nat /\ Length_Low \in Nat /\ Length_Low < LowMod /\ LowMod \in Nat
  <2>1. LowMod \in Nat /\ HighMod \in Nat BY Sha1Assumption
  <2>2. Length_Low \in 0..LowMod - 1 /\ Length_High \in 0..HighMod - 1 BY DEF HashInv, TypeOK
  <2> QED BY <2>1, <2>2, SMT
<1>5. 8 * n = LowMod * Length_High + Length_Low BY <1>0 DEF HashInv, Counted
<1>6. (8 * n) \div LowMod = Length_High /\ (8 * n) % LowMod = Length_Low
  <2>1. /\ (LowMod * Length_High + Length_Low) \div LowMod = Length_High
        /\ (LowMod * Length_High + Length_Low) % LowMod = Length_Low
    BY <1>4, QuotientRemainder
  <2> QED BY <2>1, <1>5
<1>7. mark \in Block
  <2>1. ASSUME NEW k \in 0..63 PROVE mark[k] \in 0..255
    <3>1. CASE k < i
      <4>1. k \in 0..Message_Block_Index - 1 BY <3>1, <1>0, SMT
      <4>2. Message_Block[k] \in 0..255 BY <4>1, <1>0, Written DEF HashInv
      <4> QED BY <4>2, <3>1
    <3>2. CASE ~(k < i) BY <3>2, SMT
    <3> QED BY <3>1, <3>2
  <2> QED BY <2>1 DEF Block
<1>8. zeros \in Block BY SMT DEF Block
<1>9. ASSUME NEW b \in Block PROVE close(b) \in Block
  <2>1. ASSUME NEW k \in 0..63 PROVE close(b)[k] \in 0..255
    <3>1. CASE k < 56
      <4>1. b[k] \in 0..255 BY <1>9, <2>1 DEF Block
      <4>2. close(b)[k] = b[k] BY <3>1, <2>1
      <4> QED BY <4>1, <4>2
    <3>2. CASE ~(k < 56)
      <4>1. k \in 56..63 BY <3>2, SMT
      <4>2. LengthOctet(Length_High, Length_Low, k) \in 0..255 BY <4>1, <1>4, LengthOctetType
      <4>3. close(b)[k] = LengthOctet(Length_High, Length_Low, k) BY <3>2, <2>1
      <4> QED BY <4>2, <4>3
    <3> QED BY <3>1, <3>2
  <2> QED BY <2>1 DEF Block
<1>10. Padding = IF i > 55 THEN <<mark, close(zeros)>> ELSE <<close(mark)>> BY DEF Padding
<1>11. hashed' = hashed \o Padding /\ Message_Block' = Padding[Len(Padding)] BY DEF ResultFirst, PadMessage
\* A place of the message is kept where it was.
<1>12. ASSUME NEW j \in 0..64 * h - 1, hashed'[j \div 64 + 1] = hashed[j \div 64 + 1]
       PROVE  hashed'[j \div 64 + 1][j % 64] = PaddedOctet(msg, j)
  <2>1. j \in 0..n - 1 /\ j < n /\ j < 64 * h BY <1>1, <1>2, <1>0, SMT
  <2>2. At(j) = hashed[j \div 64 + 1][j % 64] BY <2>1 DEF At
  <2> QED BY <2>1, <2>2, <1>12, <1>3 DEF PaddedOctet
<1>13. ASSUME NEW k \in 0..63, k < i PROVE mark[k] = PaddedOctet(msg, 64 * h + k)
  <2>1. 64 * h + k \in 0..n - 1 /\ 64 * h + k < n /\ ~(64 * h + k < 64 * h) /\ (64 * h + k) % 64 = k
    BY <1>0, <1>1, <1>2, <1>13, SMT
  <2>2. At(64 * h + k) = Message_Block[k] BY <2>1 DEF At
  <2> QED BY <2>1, <2>2, <1>13, <1>3 DEF PaddedOctet
<1>14. PaddedOctet(msg, n) = 128 BY <1>1, SMT DEF PaddedOctet
<1> HIDE DEF mark, zeros, close, h, i, n
<1>15. CASE i > 55
  <2>1. hashed' = hashed \o <<mark, close(zeros)>> /\ Message_Block' = close(zeros) BY <1>10, <1>11, <1>15
  <2>2. mark \in Block /\ close(zeros) \in Block BY <1>7, <1>8, <1>9
  <2>3. hashed' \in Seq(Block) /\ Len(hashed') = h + 2 /\ hashed'[h + 1] = mark /\ hashed'[h + 2] = close(zeros)
        /\ \A k \in 1..h : hashed'[k] = hashed[k]
    BY <2>1, <2>2, <1>0 DEF h
  <2>4. PaddedLen(n) = 64 * (h + 2)
    <3>1. (n + 8) \div 64 = h + 1 BY <1>0, <1>1, <1>2, <1>15, SMT DEF i
    <3> QED BY <3>1, <1>1, SMT DEF PaddedLen
  <2>5. ASSUME NEW j \in 0..PaddedLen(n) - 1 PROVE At(j)' = PaddedOctet(msg, j)
    <3>1. j \in Nat /\ j < 64 * (h + 2) BY <2>4, <1>1, SMT
    <3>2. At(j)' = hashed'[j \div 64 + 1][j % 64] BY <3>1, <2>3 DEF At
    <3>3. CASE j < 64 * h
      <4>1. j \in 0..64 * h - 1 /\ j \div 64 + 1 \in 1..h BY <3>1, <3>3, <1>1, SMT
      <4> QED BY <4>1, <3>2, <2>3, <1>12
    <3>4. CASE 64 * h <= j /\ j < 64 * (h + 1)
      <4>1. PICK k \in 0..63 : j = 64 * h + k BY <3>1, <3>4, <1>1, SMT
      <4>2. j \div 64 = h /\ j % 64 = k BY <4>1, <1>1, SMT
      <4>3. At(j)' = mark[k] BY <4>2, <3>2, <2>3
      <4>4. CASE k < i BY <4>1, <4>3, <4>4, <1>13
      <4>5. CASE k = i
        <5>1. mark[k] = 128 /\ j = n BY <4>1, <4>5, <1>0, <1>1, <1>2, SMT DEF mark, i
        <5> QED BY <5>1, <4>3, <1>14
      <4>6. CASE k > i
        <5>1. mark[k] = 0 BY <4>6, <1>0, SMT DEF mark, i
        <5>2. ~(j < n) /\ j # n /\ j < PaddedLen(n) - 8 BY <4>1, <4>6, <3>4, <2>4, <1>0, <1>1, <1>2, SMT DEF i
        <5> QED BY <5>1, <5>2, <4>3 DEF PaddedOctet, n
      <4> QED BY <4>4, <4>5, <4>6, <1>0, SMT DEF i
    <3>5. CASE 64 * (h + 1) <= j
      <4>1. PICK k \in 0..63 : j = 64 * (h + 1) + k BY <3>1, <3>5, <1>1, SMT
      <4>2. j \div 64 + 1 = h + 2 /\ j % 64 = k BY <4>1, <1>1, SMT
      <4>3. At(j)' = close(zeros)[k] BY <4>2, <3>2, <2>3
      <4>4. ~(j < n) /\ j # n BY <4>1, <1>0, <1>1, <1>2, SMT DEF i
      <4>5. CASE k < 56
        <5>1. close(zeros)[k] = 0 BY <4>5 DEF close, zeros
        <5>2. j < PaddedLen(n) - 8 BY <4>1, <4>5, <2>4, <1>1, SMT
        <5> QED BY <5>1, <5>2, <4>3, <4>4 DEF PaddedOctet, n
      <4>6. CASE ~(k < 56)
        <5>1. close(zeros)[k] = LengthOctet(Length_High, Length_Low, k) BY <4>6 DEF close
        <5>2. ~(j < PaddedLen(n) - 8) /\ j - PaddedLen(n) + 64 = k BY <4>1, <4>6, <2>4, <1>1, SMT
        <5> QED BY <5>1, <5>2, <4>3, <4>4, <1>6 DEF PaddedOctet, n
      <4> QED BY <4>5, <4>6
    <3> QED BY <3>1, <3>3, <3>4, <3>5, <1>1, SMT
  <2> QED BY <2>1, <2>2, <2>3, <2>4, <2>5, <1>0 DEF DigestOfPadded, Block, n
<1>16. CASE ~(i > 55)
  <2>1. hashed' = hashed \o <<close(mark)>> /\ Message_Block' = close(mark) BY <1>10, <1>11, <1>16
  <2>2. close(mark) \in Block BY <1>7, <1>9
  <2>3. hashed' \in Seq(Block) /\ Len(hashed') = h + 1 /\ hashed'[h + 1] = close(mark)
        /\ \A k \in 1..h : hashed'[k] = hashed[k]
    BY <2>1, <2>2, <1>0 DEF h
  <2>4. PaddedLen(n) = 64 * (h + 1)
    <3>1. (n + 8) \div 64 = h BY <1>0, <1>1, <1>2, <1>16, SMT DEF i
    <3> QED BY <3>1, <1>1, SMT DEF PaddedLen
  <2>5. ASSUME NEW j \in 0..PaddedLen(n) - 1 PROVE At(j)' = PaddedOctet(msg, j)
    <3>1. j \in Nat /\ j < 64 * (h + 1) BY <2>4, <1>1, SMT
    <3>2. At(j)' = hashed'[j \div 64 + 1][j % 64] BY <3>1, <2>3 DEF At
    <3>3. CASE j < 64 * h
      <4>1. j \in 0..64 * h - 1 /\ j \div 64 + 1 \in 1..h BY <3>1, <3>3, <1>1, SMT
      <4> QED BY <4>1, <3>2, <2>3, <1>12
    <3>4. CASE 64 * h <= j
      <4>1. PICK k \in 0..63 : j = 64 * h + k BY <3>1, <3>4, <1>1, SMT
      <4>2. j \div 64 = h /\ j % 64 = k BY <4>1, <1>1, SMT
      <4>3. At(j)' = close(mark)[k] BY <4>2, <3>2, <2>3
      <4>4. CASE k < i
        <5>1. k < 56 BY <4>4, <1>16, <1>0, SMT DEF i
        <5>2. close(mark)[k] = mark[k] BY <5>1 DEF close
        <5> QED BY <5>2, <4>1, <4>3, <4>4, <1>13
      <4>5. CASE k = i
        <5>1. k < 56 /\ j = n BY <4>1, <4>5, <1>0, <1>1, <1>2, <1>16, SMT DEF i
        <5>2. close(mark)[k] = mark[k] BY <5>1 DEF close
        <5>3. mark[k] = 128 BY <4>5, <1>0, SMT DEF mark, i
        <5> QED BY <5>1, <5>2, <5>3, <4>3, <1>14
      <4>6. CASE k > i /\ k < 56
        <5>1. close(mark)[k] = mark[k] BY <4>6 DEF close
        <5>2. mark[k] = 0 BY <4>6, <1>0, SMT DEF mark, i
        <5>3. ~(j < n) /\ j # n /\ j < PaddedLen(n) - 8 BY <4>1, <4>6, <2>4, <1>0, <1>1, <1>2, SMT DEF i
        <5> QED BY <5>1, <5>2, <5>3, <4>3 DEF PaddedOctet, n
      <4>7. CASE ~(k < 56)
        <5>1. close(mark)[k] = LengthOctet(Length_High, Length_Low, k) BY <4>7 DEF close
        <5>2. ~(j < n) /\ j # n BY <4>1, <4>7, <1>0, <1>1, <1>2, <1>16, SMT DEF i
        <5>3. ~(j < PaddedLen(n) - 8) /\ j - PaddedLen(n) + 64 = k BY <4>1, <4>7, <2>4, <1>1, SMT
        <5> QED BY <5>1, <5>2, <5>3, <4>3, <1>6 DEF PaddedOctet, n
      <4> QED BY <4>4, <4>5, <4>6, <4>7, <1>0, SMT DEF i
    <3> QED BY <3>1, <3>3, <3>4, <1>1, SMT
  <2> QED BY <2>1, <2>2, <2>3, <2>4, <2>5, <1>0 DEF DigestOfPadded, Block, n
<1> QED BY <1>15, <1>16

LEMMA ResultInv == ASSUME HashInv, Result PROVE HashInv'
<1>1. CASE ResultRefused
  <2>1. TypeOK' BY <1>1 DEF HashInv, TypeOK, ResultRefused, object
  <2>2. StreamKept' /\ DigestOfPadded' BY <1>1 DEF HashInv, ResultRefused, object, StreamKept, DigestOfPadded, At, PaddedOctet
  <2>3. Counted' BY <1>1 DEF HashInv, Counted, ResultRefused, object
  <2> QED BY <2>1, <2>2, <2>3 DEF HashInv
<1>2. CASE ResultAgain
  <2>1. TypeOK' BY <1>2 DEF HashInv, TypeOK, ResultAgain, object
  <2>2. StreamKept' /\ DigestOfPadded' BY <1>2 DEF HashInv, ResultAgain, object, StreamKept, DigestOfPadded, At, PaddedOctet
  <2>3. Counted' BY <1>2 DEF HashInv, Counted, ResultAgain, object
  <2> QED BY <2>1, <2>2, <2>3 DEF HashInv
<1>3. CASE ResultFirst
  <2>1. hashed' \in Seq(Block) /\ Message_Block' \in [0..63 -> 0..255] /\ DigestOfPadded' BY <1>3, PaddingRight
  <2>2. Message_Block' \in [0..63 -> 0..255 \cup {Unset}]
    <3> DEFINE T == 0..255
    <3>1. Message_Block' \in [0..63 -> T] BY <2>1
    <3> HIDE DEF T
    <3>2. Message_Block' \in [0..63 -> T \cup {Unset}] BY <3>1, Zenon
    <3> QED BY <3>2 DEF T
  <2>3. Message_Block_Index' \in 0..63 BY <1>3, SMT DEF ResultFirst, PadMessage
  <2>4. TypeOK' BY <1>3, <2>1, <2>2, <2>3 DEF HashInv, TypeOK, ResultFirst, PadMessage
  <2>5. StreamKept' BY <1>3 DEF ResultFirst, StreamKept
  <2>6. Counted' BY <1>3 DEF HashInv, Counted, ResultFirst, PadMessage
  <2> QED BY <2>1, <2>4, <2>5, <2>6 DEF HashInv
<1> QED BY <1>1, <1>2, <1>3 DEF Result

-----------------------------------------------------------------------------
(* Its other calls *)

\* An empty message has nothing to be kept.
LEMMA EmptyKept ==
  ASSUME hashed = <<>>, msg = <<>>, Message_Block_Index = 0, Length_Low = 0, Length_High = 0, ~Computed,
         ~Corrupted, left = 0, given = 0, ret = "none"
  PROVE  StreamKept /\ DigestOfPadded /\ Counted
<1>1. Len(msg) = 0 /\ Len(hashed) = 0 OBVIOUS
<1>2. StreamKept BY <1>1, SMT DEF StreamKept
<1>3. DigestOfPadded BY DEF DigestOfPadded
<1>4. LowMod * 0 + 0 = 0 BY Sha1Assumption, SMT
<1>5. Counted BY <1>1, <1>4, SMT DEF Counted
<1> QED BY <1>2, <1>3, <1>5

LEMMA InitInv == Init => HashInv
<1> SUFFICES ASSUME Init PROVE HashInv OBVIOUS
<1>1. StreamKept /\ DigestOfPadded /\ Counted BY EmptyKept DEF Init
<1>2. 0 \in 0..LowMod - 1 /\ 0 \in 0..HighMod - 1 /\ 0 \in 0..63 BY Sha1Assumption, SMT
<1>3. Message_Block \in [0..63 -> 0..255 \cup {Unset}] BY DEF Init
<1>4. hashed \in Seq(Block) /\ msg \in Seq(Bytes) BY DEF Init
<1>5. TypeOK BY <1>2, <1>3, <1>4 DEF Init, TypeOK
<1> QED BY <1>1, <1>5 DEF HashInv

LEMMA ResetInv == ASSUME HashInv, Reset PROVE HashInv'
<1>1. StreamKept' /\ DigestOfPadded' /\ Counted'
  <2>1. Len(msg') = 0 /\ Len(hashed') = 0 BY DEF Reset
  <2>2. StreamKept' BY <2>1, SMT DEF Reset, StreamKept
  <2>3. DigestOfPadded' BY DEF Reset, DigestOfPadded
  <2>4. LowMod * 0 + 0 = 0 BY Sha1Assumption, SMT
  <2>5. Counted' BY <2>1, <2>4, SMT DEF Reset, Counted
  <2> QED BY <2>2, <2>3, <2>5
<1>2. 0 \in 0..LowMod - 1 /\ 0 \in 0..HighMod - 1 /\ 0 \in 0..63 BY Sha1Assumption, SMT
<1>3. hashed' \in Seq(Block) /\ msg' \in Seq(Bytes) BY DEF Reset
<1>4. TypeOK' BY <1>2, <1>3 DEF HashInv, TypeOK, Reset
<1> QED BY <1>1, <1>4 DEF HashInv

LEMMA InputInv == ASSUME HashInv, NEW n \in Lengths, Input(n) PROVE HashInv'
<1>1. n \in Nat /\ n > 0 /\ given \in Nat /\ given' = given + n /\ left = 0 /\ ret' = "none" /\ Len(msg) \in Nat
  <2>1. n \in Nat BY Sha1Assumption
  <2>2. given \in Nat /\ msg \in Seq(Bytes) BY DEF HashInv, TypeOK
  <2>3. n > 0 /\ given' = given + n /\ left = 0 /\ ret' = "none" BY DEF Input
  <2>4. Len(msg) \in Nat BY <2>2
  <2> QED BY <2>1, <2>2, <2>3, <2>4
<1>2. hashed' = hashed /\ Message_Block' = Message_Block /\ Message_Block_Index' = Message_Block_Index /\ msg' = msg
      /\ Length_Low' = Length_Low /\ Length_High' = Length_High /\ Computed' = Computed
  BY DEF Input, object
<1>3. given' \in Nat /\ given' > given BY <1>1, SMT
<1>4. left' \in Nat /\ Corrupted' \in BOOLEAN BY <1>1 DEF Input, HashInv, TypeOK
<1>5. TypeOK' BY <1>1, <1>2, <1>3, <1>4 DEF HashInv, TypeOK
<1>6. StreamKept' /\ DigestOfPadded' BY <1>2 DEF HashInv, StreamKept, DigestOfPadded, At, PaddedOctet
<1>7. given >= Len(msg) /\ given' >= Len(msg) /\ given' # Len(msg) BY <1>1, <1>3, SMT DEF HashInv, Counted
<1>8. CASE Computed \/ Corrupted
  <2>1. Corrupted' /\ left' = 0 BY <1>8 DEF Input
  <2>2. Counted' BY <2>1, <1>1, <1>2, <1>7 DEF HashInv, Counted
  <2> QED BY <2>2, <1>5, <1>6 DEF HashInv
<1>9. CASE ~(Computed \/ Corrupted)
  <2>1. ~Corrupted' /\ left' = n BY <1>9 DEF Input
  <2>2. given = Len(msg) + 0 /\ 8 * Len(msg) = LowMod * Length_High + Length_Low BY <1>1, <1>9 DEF HashInv, Counted
  <2>3. given' = Len(msg) + n BY <2>2, <1>1, SMT
  <2>4. Counted' BY <2>1, <2>2, <2>3, <1>1, <1>2, <1>7, <1>9 DEF HashInv, Counted
  <2> QED BY <2>4, <1>5, <1>6 DEF HashInv
<1> QED BY <1>8, <1>9

\* Neither a call with no octets nor a step of somebody else changes anything.
LEMMA NothingInv == ASSUME HashInv, InputNothing \/ UNCHANGED vars PROVE HashInv'
<1>1. hashed' = hashed /\ Message_Block' = Message_Block /\ Message_Block_Index' = Message_Block_Index /\ msg' = msg
      /\ Length_Low' = Length_Low /\ Length_High' = Length_High /\ Computed' = Computed /\ Corrupted' = Corrupted
      /\ left' = left /\ given' = given
  BY DEF InputNothing, object, vars
<1>2. ret' = "none" \/ ret' = ret BY DEF InputNothing, vars
<1>3. TypeOK' BY <1>1, <1>2 DEF HashInv, TypeOK
<1>4. StreamKept' /\ DigestOfPadded' BY <1>1 DEF HashInv, StreamKept, DigestOfPadded, At, PaddedOctet
<1>5. Counted' BY <1>1, <1>2 DEF HashInv, Counted
<1> QED BY <1>3, <1>4, <1>5 DEF HashInv

LEMMA StepInv == HashInv /\ [Next]_vars => HashInv'
<1> SUFFICES ASSUME HashInv, [Next]_vars PROVE HashInv' OBVIOUS
<1>1. CASE Reset BY <1>1, ResetInv
<1>2. CASE InputNothing \/ UNCHANGED vars BY <1>2, NothingInv
<1>3. ASSUME NEW n \in Lengths, Input(n) PROVE HashInv' BY <1>3, InputInv
<1>4. ASSUME NEW b \in Bytes, InputByte(b) PROVE HashInv' BY <1>4, InputByteInv
<1>5. CASE Result BY <1>5, ResultInv
<1> QED BY <1>1, <1>2, <1>3, <1>4, <1>5 DEF Next, Feed

\* What a digest is worth follows from the count.
LEMMA WholeFromInv == HashInv => ResultWhole
<1> SUFFICES ASSUME HashInv PROVE ResultWhole OBVIOUS
<1>1. CASE ret = "true"
  <2>1. Computed /\ ~Corrupted /\ left = 0 BY <1>1 DEF HashInv, Counted
  <2>2. given = Len(msg) /\ 8 * Len(msg) = LowMod * Length_High + Length_Low
    <3>1. given = Len(msg) + left /\ 8 * Len(msg) = LowMod * Length_High + Length_Low BY <2>1 DEF HashInv, Counted
    <3>2. Len(msg) \in Nat
      <4>1. msg \in Seq(Bytes) BY DEF HashInv, TypeOK
      <4> QED BY <4>1
    <3> QED BY <3>1, <3>2, <2>1, SMT
  <2>3. /\ Length_High \in Nat /\ HighMod \in Nat /\ LowMod \in Nat /\ Length_High < HighMod
        /\ Length_Low \in Nat /\ Length_Low < LowMod
    BY Sha1Assumption, SMT DEF HashInv, TypeOK
  <2>4. LowMod * Length_High + LowMod <= LowMod * HighMod BY <2>3, Grows
  <2>5. LowMod * Length_High \in Nat /\ LowMod * HighMod \in Nat BY <2>3, SMT
  <2>6. LowMod * Length_High + Length_Low < LowMod * HighMod BY <2>3, <2>4, <2>5, SMT
  <2> QED BY <2>1, <2>2, <2>6, <1>1 DEF ResultWhole
<1>2. CASE ret = "false" BY <1>2 DEF HashInv, Counted, ResultWhole
<1>3. CASE ret = "none" BY <1>3 DEF ResultWhole
<1> QED BY <1>1, <1>2, <1>3 DEF HashInv, TypeOK

-----------------------------------------------------------------------------
(* What holds of it *)

\* The inductive invariant (sha1.cpp 102-344).
THEOREM HashInvariant == Spec => []HashInv
<1> QED BY InitInv, StepInv, PTL DEF Spec

\* Every field keeps its type, and no block is worked in with an octet nobody
\* wrote (sha1.cpp 177-214, 523-568).
THEOREM HashTyped == Spec => []TypeOK
<1>1. HashInv => TypeOK BY DEF HashInv
<1> QED BY <1>1, HashInvariant, PTL

\* Each octet of the message is worked in once and in order, however the
\* message is cut into calls (sha1.cpp 177-214).
THEOREM OctetsInOrder == Spec => []StreamKept
<1>1. HashInv => StreamKept BY DEF HashInv
<1> QED BY <1>1, HashInvariant, PTL

\* What a digest is made of is the message padded as FIPS 180 asks, for every
\* length, whatever was fed before the last Reset (sha1.cpp 523-568).
THEOREM PaddedAsAsked == Spec => []DigestOfPadded
<1>1. HashInv => DigestOfPadded BY DEF HashInv
<1> QED BY <1>1, HashInvariant, PTL

\* Result returns true exactly for a digest of all octets of a message whose
\* length can be counted (sha1.cpp 136-157).
THEOREM NoPartialDigest == Spec => []ResultWhole
<1> QED BY HashInvariant, WholeFromInv, PTL
===============================================================================
