-------------------------------- MODULE Sha1 --------------------------------
(***************************************************************************)
(* The SHA1 object of CompleteConfidence (sha1.cpp): Input in any number   *)
(* of calls, Result, Reset.  The five words H are determined by the blocks *)
(* ProcessMessageBlock has worked into them, so the model keeps the blocks *)
(* (Sha1Block has what is made of them).                                   *)
(***************************************************************************)
EXTENDS Integers, Sequences

CONSTANTS Bytes,            \* the bytes of messages
          Lengths,          \* the lengths Input is called with
          LowMod, HighMod,  \* the values of Length_Low and Length_High: 2^32 each
          MaxGiven          \* bound: how many bytes are given between two Resets

ASSUME Sha1Assumption ==
  /\ Bytes \subseteq 0..255 /\ Lengths \subseteq Nat /\ MaxGiven \in Nat
  /\ HighMod \in Nat /\ HighMod > 0 /\ LowMod \in Nat /\ LowMod > 0 /\ LowMod % 8 = 0

VARIABLES
  hashed,                    \* the blocks worked into H since Reset
  Length_Low, Length_High,   \* the length of the message in bits
  Message_Block, Message_Block_Index,
  Computed, Corrupted,
  left,                      \* bytes the Input call under way has still to take
  msg,                       \* the bytes taken since Reset (ghost)
  given,                     \* how many Input was called with since Reset (ghost)
  ret                        \* what Result last returned, "none" since another call

object == <<hashed, Length_Low, Length_High, Message_Block, Message_Block_Index>>
vars == <<object, Computed, Corrupted, left, msg, given, ret>>

\* An octet nobody has written yet.
Unset == -1

Init ==
  /\ hashed = <<>> /\ Length_Low = 0 /\ Length_High = 0
  /\ Message_Block = [i \in 0..63 |-> Unset] /\ Message_Block_Index = 0
  /\ Computed = FALSE /\ Corrupted = FALSE
  /\ left = 0 /\ msg = <<>> /\ given = 0 /\ ret = "none"

\* Faulty variant: the high word of the length is left as it was.
MutReset ==
  /\ left = 0
  /\ hashed' = <<>> /\ Length_Low' = 0 /\ Message_Block_Index' = 0
  /\ Computed' = FALSE /\ Corrupted' = FALSE
  /\ msg' = <<>> /\ given' = 0 /\ ret' = "none"
  /\ UNCHANGED <<Length_High, Message_Block, left>>

\* The octets of the block stay.
Reset ==
  /\ left = 0
  /\ hashed' = <<>> /\ Length_Low' = 0 /\ Length_High' = 0 /\ Message_Block_Index' = 0
  /\ Computed' = FALSE /\ Corrupted' = FALSE
  /\ msg' = <<>> /\ given' = 0 /\ ret' = "none"
  /\ UNCHANGED <<Message_Block, left>>

\* Faulty variant: input behind a digest is passed over in silence.
MutInput(n) ==
  /\ left = 0 /\ given + n <= MaxGiven /\ n > 0
  /\ left' = IF Computed \/ Corrupted THEN 0 ELSE n
  /\ given' = given + n /\ ret' = "none"
  /\ UNCHANGED <<object, Computed, Corrupted, msg>>

\* Input of an array of n octets: refused when there is a digest already.  A
\* call with none returns at once.
Input(n) ==
  /\ left = 0 /\ given + n <= MaxGiven /\ n > 0
  /\ IF Computed \/ Corrupted
     THEN Corrupted' = TRUE /\ left' = 0
     ELSE left' = n /\ UNCHANGED Corrupted
  /\ given' = given + n /\ ret' = "none"
  /\ UNCHANGED <<object, Computed, msg>>

InputNothing == left = 0 /\ 0 \in Lengths /\ ret' = "none" /\ UNCHANGED <<object, Computed, Corrupted, left, msg, given>>

\* Faulty variant: the index is not set back behind a block.
MutStored(b) ==
  LET block == [Message_Block EXCEPT ![Message_Block_Index] = b]
  IN  /\ Message_Block' = block
      /\ IF Message_Block_Index = 63
         THEN hashed' = Append(hashed, block) /\ Message_Block_Index' = 64
         ELSE Message_Block_Index' = Message_Block_Index + 1 /\ UNCHANGED hashed

\* The octet is put in its place; a full block is worked in.
Stored(b) ==
  LET block == [Message_Block EXCEPT ![Message_Block_Index] = b]
  IN  /\ Message_Block' = block
      /\ IF Message_Block_Index = 63
         THEN hashed' = Append(hashed, block) /\ Message_Block_Index' = 0
         ELSE Message_Block_Index' = Message_Block_Index + 1 /\ UNCHANGED hashed

\* One pass of Input's loop.  The message is too long when its length in bits
\* goes through zero.
InputByte(b) ==
  /\ left > 0
  /\ Stored(b)
  /\ Length_Low' = (Length_Low + 8) % LowMod
  /\ Length_High' = IF Length_Low' = 0 THEN (Length_High + 1) % HighMod ELSE Length_High
  /\ Corrupted' = (Length_Low' = 0 /\ Length_High' = 0)
  /\ left' = IF Corrupted' THEN 0 ELSE left - 1
  /\ msg' = Append(msg, b)
  /\ UNCHANGED <<Computed, given, ret>>

\* The octets 56..63 of the last block: the length, most significant first.
Octet(w, j) == (w \div <<16777216, 65536, 256, 1>>[j + 1]) % 256
LengthOctet(high, low, k) == IF k < 60 THEN Octet(high, k - 56) ELSE Octet(low, k - 60)

\* Faulty variant: a block with 55 octets is taken to be too full.
MutPadding ==
  LET i    == Message_Block_Index
      mark == [k \in 0..63 |-> IF k < i THEN Message_Block[k] ELSE IF k = i THEN 128 ELSE 0]
      close(b) == [k \in 0..63 |-> IF k < 56 THEN b[k] ELSE LengthOctet(Length_High, Length_Low, k)]
  IN  IF i > 54 THEN <<mark, close([k \in 0..63 |-> 0])>> ELSE <<close(mark)>>

\* PadMessage: behind more than 55 octets the length needs a block of its own.
Padding ==
  LET i    == Message_Block_Index
      mark == [k \in 0..63 |-> IF k < i THEN Message_Block[k] ELSE IF k = i THEN 128 ELSE 0]
      close(b) == [k \in 0..63 |-> IF k < 56 THEN b[k] ELSE LengthOctet(Length_High, Length_Low, k)]
  IN  IF i > 55 THEN <<mark, close([k \in 0..63 |-> 0])>> ELSE <<close(mark)>>

PadMessage ==
  /\ hashed' = hashed \o Padding
  /\ Message_Block' = Padding[Len(Padding)] /\ Message_Block_Index' = 0
  /\ UNCHANGED <<Length_Low, Length_High>>

\* Result: the digest is computed once.
ResultRefused == left = 0 /\ Corrupted /\ ret' = "false" /\ UNCHANGED <<object, Computed, Corrupted, left, msg, given>>

ResultAgain == left = 0 /\ ~Corrupted /\ Computed /\ ret' = "true" /\ UNCHANGED <<object, Computed, Corrupted, left, msg, given>>

ResultFirst ==
  /\ left = 0 /\ ~Corrupted /\ ~Computed
  /\ PadMessage /\ Computed' = TRUE /\ ret' = "true"
  /\ UNCHANGED <<Corrupted, left, msg, given>>

Result == ResultRefused \/ ResultAgain \/ ResultFirst

Feed == InputNothing \/ (\E n \in Lengths : Input(n)) \/ (\E b \in Bytes : InputByte(b))

Next == Reset \/ Feed \/ Result

Spec == Init /\ [][Next]_vars

-----------------------------------------------------------------------------
(* FIPS 180: the message, a one bit, zeros, and its length in 64 bits, in   *)
(* blocks of 64 octets.                                                     *)

PaddedLen(n) == 64 * ((n + 8) \div 64 + 1)

PaddedOctet(m, i) ==
  LET n == Len(m)
  IN  IF i < n THEN m[i + 1]
      ELSE IF i = n THEN 128
      ELSE IF i < PaddedLen(n) - 8 THEN 0
      ELSE LengthOctet((8 * n) \div LowMod, (8 * n) % LowMod, i - PaddedLen(n) + 64)

-----------------------------------------------------------------------------
(* Properties *)

Block == [0..63 -> 0..255]

\* Type invariant.  A block that is worked in has no octet nobody wrote.
TypeOK ==
  /\ hashed \in Seq(Block)
  /\ Length_Low \in 0..LowMod - 1 /\ Length_High \in 0..HighMod - 1
  /\ Message_Block \in [0..63 -> 0..255 \cup {Unset}] /\ Message_Block_Index \in 0..63
  /\ Computed \in BOOLEAN /\ Corrupted \in BOOLEAN
  /\ left \in Nat /\ msg \in Seq(Bytes) /\ given \in Nat
  /\ ret \in {"none", "true", "false"}

\* Octet i of what has been worked in or waits in the block.
At(i) == IF i < 64 * Len(hashed) THEN hashed[i \div 64 + 1][i % 64] ELSE Message_Block[i % 64]

\* However a message is cut into calls of Input, its octets are worked in once
\* and in order (sha1.cpp 177-214, 302-344).
StreamKept ==
  ~Computed =>
    /\ Len(msg) = 64 * Len(hashed) + Message_Block_Index
    /\ \A i \in 0..Len(msg) - 1 : At(i) = msg[i + 1]

\* The digest is that of the message padded as FIPS 180 asks (523-568).
DigestOfPadded ==
  Computed =>
    /\ 64 * Len(hashed) = PaddedLen(Len(msg))
    /\ \A i \in 0..PaddedLen(Len(msg)) - 1 : At(i) = PaddedOctet(msg, i)

\* Result returns true exactly when the digest it hands over is that of all
\* the octets given since Reset, and the length of the message could be
\* counted; octets given behind a digest make it return false for good (140-156).
ResultWhole ==
  /\ ret = "true" => Computed
  /\ ret # "none" => (ret = "true" <=> given = Len(msg) /\ 8 * given < LowMod * HighMod)
=============================================================================
