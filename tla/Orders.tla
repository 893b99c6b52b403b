------------------------------- MODULE Orders -------------------------------
(***************************************************************************)
(* A text of orders parted by a sign, as MyCodes.cpp takes it apart:       *)
(* AddSign puts the text in form, then getNextOrder is called over and     *)
(* over, and each call hands over one order and moves the caller's pointer.*)
(***************************************************************************)
EXTENDS Integers, Sequences, FiniteSets

CONSTANTS SignChar, Chars,   \* the sign, and what orders are made of
          MaxText            \* bound: length of a text

VARIABLES
  orderBuff,   \* the text the caller has
  buf,         \* what its pointer points to, behind AddSign and each order taken
  orders,      \* the orders it was handed (ghost)
  step         \* "text": still being written; "orders"; "end": getNextOrder gave NULL

Init == orderBuff = <<>> /\ buf = <<>> /\ orders = <<>> /\ step = "text"

Written(c) ==
  /\ step = "text" /\ Len(orderBuff) < MaxText
  /\ orderBuff' = Append(orderBuff, c)
  /\ UNCHANGED <<buf, orders, step>>

\* The places whose character AddSign copies: of signs in a row, the last one.
Kept(t) == {i \in DOMAIN t : ~(i < Len(t) /\ t[i] = SignChar /\ t[i + 1] = SignChar)}

\* t without what is not copied.
Squeezed(t) ==
  [k \in 1..Cardinality(Kept(t)) |-> t[CHOOSE i \in Kept(t) : Cardinality({j \in Kept(t) : j <= i}) = k]]

\* A sign in front and one at the end, if the text has none there.
Signed(t) ==
  LET front == IF t = <<>> \/ t[1] # SignChar THEN <<SignChar>> ELSE <<>>
      all   == front \o Squeezed(t)
  IN  IF all[Len(all)] = SignChar THEN all ELSE Append(all, SignChar)

AddSign ==
  /\ step = "text"
  /\ buf' = Signed(orderBuff) /\ step' = "orders"
  /\ UNCHANGED <<orderBuff, orders>>

\* strstr(t + from - 1, CutStr): the place of the next sign, 0 for none.
NextSign(t, from) ==
  LET signs == {i \in from..Len(t) : t[i] = SignChar}
  IN  IF signs = {} THEN 0 ELSE CHOOSE i \in signs : \A j \in signs : i <= j

\* Faulty variant: the pointer is put behind the second sign.
MutGetNextOrder ==
  LET head == NextSign(buf, 1)
      last == NextSign(buf, head + 1)
  IN  /\ step = "orders"
      /\ IF head = 0 \/ head = Len(buf) \/ last = 0
         THEN step' = "end" /\ UNCHANGED <<buf, orders>>
         ELSE /\ orders' = Append(orders, SubSeq(buf, head + 1, last - 1))
              /\ buf' = SubSeq(buf, last - head + 2, Len(buf))
              /\ UNCHANGED step
      /\ UNCHANGED orderBuff

\* The order between the first two signs.  The pointer moves as far as the one
\* is from the other, from where it was.  The caller's buffer holds any order.
GetNextOrder ==
  LET head == NextSign(buf, 1)
      last == NextSign(buf, head + 1)
  IN  /\ step = "orders"
      /\ IF head = 0 \/ head = Len(buf) \/ last = 0
         THEN step' = "end" /\ UNCHANGED <<buf, orders>>
         ELSE /\ orders' = Append(orders, SubSeq(buf, head + 1, last - 1))
              /\ buf' = SubSeq(buf, last - head + 1, Len(buf))
              /\ UNCHANGED step
      /\ UNCHANGED orderBuff

Next == (\E c \in Chars \cup {SignChar} : Written(c)) \/ AddSign \/ GetNextOrder

-----------------------------------------------------------------------------
(* Properties *)

\* Where the orders of t begin: behind a sign or the beginning of the text.
Starts(t) == {i \in DOMAIN t : t[i] # SignChar /\ (i = 1 \/ t[i - 1] = SignChar)}

\* s is the order of t that begins at i.
IsOrderAt(s, t, i) ==
  /\ \A k \in DOMAIN s : s[k] # SignChar /\ i + k - 1 \in DOMAIN t /\ s[k] = t[i + k - 1]
  /\ i + Len(s) \in DOMAIN t => t[i + Len(s)] = SignChar

\* However signs are put in a text, in front, behind, several in a row, the
\* calls hand over its orders, each once and in order, none of them empty, and
\* all of them before the first NULL (MyCodes.cpp 213-250).
OrdersWhole ==
  /\ Len(orders) <= Cardinality(Starts(orderBuff))
  /\ step = "end" => Len(orders) = Cardinality(Starts(orderBuff))
  /\ \A k \in DOMAIN orders : \E i \in Starts(orderBuff) :
       Cardinality({j \in Starts(orderBuff) : j <= i}) = k /\ IsOrderAt(orders[k], orderBuff, i)
=============================================================================
