--------------------------------- MODULE Hex ---------------------------------
(***************************************************************************)
(* HexToStr and StrToHex (MyCodes.cpp).  A character is the value of the   *)
(* digit it is, 0..15, in either case, or 16 when it is none.              *)
(***************************************************************************)
EXTENDS Integers, Sequences

NoDigit == 16

\* What a call leaves in Answer: NULL is the empty sequence of a failed call.
NULL == <<>>

\* Two digits to a byte; the caller's buffer must take one character more.
HexToStr(order, LenOfAnswer) ==
  IF 2 * Len(order) >= LenOfAnswer THEN NULL
  ELSE [p \in 1..2 * Len(order) |->
          IF p % 2 = 1 THEN order[(p + 1) \div 2] \div 16 ELSE order[p \div 2] % 16]

\* Faulty variant: the second digit of a byte is not looked at.
MutIsHex(buf) == \A p \in DOMAIN buf : p % 2 = 1 => buf[p] # NoDigit

IsHex(buf) == \A p \in DOMAIN buf : buf[p] # NoDigit

\* The loop returns with its last byte, so an empty text is a failure, as is a
\* character that is no digit.
StrToHex(buf, LenOfAnswer) ==
  IF Len(buf) % 2 # 0 \/ Len(buf) \div 2 >= LenOfAnswer \/ buf = <<>> \/ ~IsHex(buf) THEN NULL
  ELSE [i \in 1..Len(buf) \div 2 |-> (16 * buf[2 * i - 1] + buf[2 * i]) % 256]

-----------------------------------------------------------------------------
\* Bytes that are written and read back are the same, in buffers that just
\* hold them; neither is done in smaller ones, and a text with one character
\* that is no digit, at whatever place, is refused (MyCodes.cpp 84-150).
HexRoundTrip(s) ==
  LET n == Len(s)
      t == HexToStr(s, 2 * n + 1)
  IN  s # <<>> =>
        /\ HexToStr(s, 2 * n) = NULL
        /\ StrToHex(t, n) = NULL
        /\ StrToHex(t, n + 1) = s
        /\ \A p \in DOMAIN t : StrToHex([t EXCEPT ![p] = NoDigit], n + 1) = NULL
=============================================================================
