----------------------------- MODULE Sha1Block ------------------------------
(***************************************************************************)
(* SHA1::ProcessMessageBlock (sha1.cpp): what a block of 64 octets makes   *)
(* of the five words.  A word is the set of its bits that are one, so &,   *)
(* | and ~ are the operations of sets, and a sum is taken mod 2^32.        *)
(***************************************************************************)
EXTENDS Integers, Sequences
LOCAL INSTANCE SequencesExt

Bit == 0..31

\* The bits of n, moved up by k.
BitsOf(n, k) == {i + k : i \in {j \in 0..15 : (n \div 2^j) % 2 = 1}}

\* 0x<high><low>
Word(high, low) == BitsOf(high, 16) \cup BitsOf(low, 0)

Xor(a, b) == (a \ b) \cup (b \ a)

\* Faulty variant: the bits that are shifted out are lost.
MutCircularShift(bits, word) == {i + bits : i \in word} \cap Bit

CircularShift(bits, word) == {(i + bits) % 32 : i \in word}

Carry(a, b, i) == \E j \in 0..i - 1 : j \in a \cap b /\ (j + 1)..(i - 1) \subseteq a \cup b

Sum2(a, b) == {i \in Bit : (i \in Xor(a, b)) # Carry(a, b, i)}

\* Word t of the block b, from its first octet down.
WordAt(b, t) == Word(256 * b[4 * t] + b[4 * t + 1], 256 * b[4 * t + 2] + b[4 * t + 3])

\* W[0..79]; here its index counts from 1.
Schedule(b) ==
  FoldLeft(LAMBDA W, t : Append(W, CircularShift(1, Xor(Xor(W[t - 3], W[t - 8]), Xor(W[t - 14], W[t - 16])))),
           [t \in 1..16 |-> WordAt(b, t - 1)], [i \in 1..64 |-> i + 16])

K == <<Word(23170, 31129), Word(28377, 60321), Word(36635, 48348), Word(51810, 49622)>>

F(t, B, C, D) ==
  CASE t \in 0..19  -> (B \cap C) \cup ((Bit \ B) \cap D)
    [] t \in 20..39 -> Xor(Xor(B, C), D)
    [] t \in 40..59 -> (B \cap C) \cup (B \cap D) \cup (C \cap D)
    [] t \in 60..79 -> Xor(Xor(B, C), D)

\* One of the 80 passes: s is <<E, D, C, B, A>>, in the order they are assigned.
Pass(s, t, w) ==
  LET temp == Sum2(Sum2(Sum2(CircularShift(5, s[5]), F(t, s[4], s[3], s[2])), Sum2(s[1], w)), K[t \div 20 + 1])
  IN  <<s[2], s[3], CircularShift(30, s[4]), s[5], temp>>

ProcessMessageBlock(H, b) ==
  LET W == Schedule(b)
      s == FoldLeftDomain(LAMBDA x, t : Pass(x, t - 1, W[t]), <<H[5], H[4], H[3], H[2], H[1]>>, W)
  IN  <<Sum2(H[1], s[5]), Sum2(H[2], s[4]), Sum2(H[3], s[3]), Sum2(H[4], s[2]), Sum2(H[5], s[1])>>

\* What Reset starts from.
H0 == <<Word(26437, 8961), Word(61389, 43913), Word(39098, 56574), Word(4146, 21622), Word(50130, 57840)>>

Digest(blocks) == FoldLeft(ProcessMessageBlock, H0, blocks)

\* The octets of the digest as CountMagicStr turns them for base64_encode: the
\* most significant of each word first.
DigestOctets(H) ==
  LET value(w, p) == (IF p \in w THEN 1 ELSE 0)
      octet(w, j) == FoldLeft(LAMBDA n, p : 2 * n + value(w, p), 0, [i \in 1..8 |-> 32 - 8 * j - i])
  IN  [k \in 1..20 |-> octet(H[(k - 1) \div 4 + 1], (k - 1) % 4)]
=============================================================================
