------------------------------- MODULE Base64 -------------------------------
(***************************************************************************)
(* base64_encode and base64_decode (base64.cpp).  A text is a sequence of  *)
(* character numbers: 0..63 in the order of base64_chars, 64 for '=' and   *)
(* 65 for any other character.                                             *)
(***************************************************************************)
EXTENDS Integers, Sequences

Byte == 0..255
Digit == 0..63
Equals == 64

\* char_array_4 of three bytes, char_array_3 of four digits; a sum that does
\* not fit its unsigned char is cut.
CharArray4(a, b, c) == <<a \div 4, (a % 4) * 16 + b \div 16, (b % 16) * 4 + c \div 64, c % 64>>

CharArray3(d, e, f, g) ==
  <<(d * 4 + ((e \div 16) % 4)) % 256, ((e % 16) * 16 + ((f \div 4) % 16)) % 256, ((f % 4) * 64 + g) % 256>>

\* Three bytes at a time; the last one or two get zeros for the rest, and '='
\* in the place of digits that stand for none of them.
base64_encode(s) ==
  LET n == Len(s)
      at(i) == IF i <= n THEN s[i] ELSE 0
      digits == (4 * n + 2) \div 3
  IN  [p \in 1..4 * ((n + 2) \div 3) |->
         LET g == (p - 1) \div 4
         IN  IF p <= digits
             THEN CharArray4(at(3 * g + 1), at(3 * g + 2), at(3 * g + 3))[((p - 1) % 4) + 1]
             ELSE Equals]

\* How many characters are read: up to the first that is no digit.
Read(t) == IF t # <<>> /\ \E i \in DOMAIN t : t[i] \notin Digit
           THEN (CHOOSE i \in DOMAIN t : t[i] \notin Digit /\ \A j \in 1..i - 1 : t[j] \in Digit) - 1
           ELSE Len(t)

\* Faulty variant: every digit left over gives a byte.
MutBytesOf(m) == 3 * (m \div 4) + (m % 4)

\* The bytes m digits give: one less than the digits left over.
BytesOf(m) == 3 * (m \div 4) + (IF m % 4 = 0 THEN 0 ELSE (m % 4) - 1)

\* Digits that are missing are looked up as 0, which base64_chars has not got.
base64_decode(t) ==
  LET m == Read(t)
      at(i) == IF i <= m THEN t[i] ELSE 255
  IN  [p \in 1..BytesOf(m) |->
         LET g == (p - 1) \div 3
         IN  CharArray3(at(4 * g + 1), at(4 * g + 2), at(4 * g + 3), at(4 * g + 4))[((p - 1) % 3) + 1]]

-----------------------------------------------------------------------------
(* RFC 4648 section 4: the bits of the bytes, six to a digit. *)

Weight == <<128, 64, 32, 16, 8, 4, 2, 1>>

BitAt(s, k) == IF k < 8 * Len(s) THEN (s[k \div 8 + 1] \div Weight[(k % 8) + 1]) % 2 ELSE 0

RfcDigit(s, p) ==
  32 * BitAt(s, 6 * p) + 16 * BitAt(s, 6 * p + 1) + 8 * BitAt(s, 6 * p + 2)
    + 4 * BitAt(s, 6 * p + 3) + 2 * BitAt(s, 6 * p + 4) + BitAt(s, 6 * p + 5)

\* base64_encode writes the digits of RFC 4648 and fills the last four up.
EncodesRfc(s) ==
  LET t == base64_encode(s)
  IN  /\ Len(t) % 4 = 0 /\ 3 * Len(t) \in 4 * Len(s)..(4 * Len(s) + 8)
      /\ \A p \in DOMAIN t : t[p] = IF 6 * (p - 1) < 8 * Len(s) THEN RfcDigit(s, p - 1) ELSE Equals

\* base64_decode takes back every text base64_encode writes.
DecodesBack(s) == base64_decode(base64_encode(s)) = s
=============================================================================
