----------------------------- MODULE TextsProofs ------------------------------
(***************************************************************************)
(* The properties of the texts: a handshake of any lengths, cut anywhere;  *)
(* ini files of any number of lines; texts of any number of orders.        *)
(***************************************************************************)
EXTENDS MCCodecs, FiniteSetTheorems, WellFoundedInduction, TLAPS

-----------------------------------------------------------------------------
(* Handshake *)

\* The pieces of a request.
Pieces == {"before", "name", "space", "key", "after"} \X Nat

\* A piece is that many characters.
LEMMA PartIs ==
  ASSUME NEW what \in {"before", "name", "space", "key", "after"}, NEW n \in Nat
  PROVE  /\ G!Part(what, n) \in Seq(Pieces) /\ Len(G!Part(what, n)) = n
         /\ \A i \in 1..n : G!Part(what, n)[i] = <<what, i>>
<1>1. G!Part(what, n) \in [1..n -> Pieces]
  BY DEF G!Part, Pieces
<1>2. \A i \in 1..n : G!Part(what, n)[i] = <<what, i>>
  BY DEF G!Part
<1> QED BY <1>1, <1>2

\* Two pieces in a row, and where the characters of each are.
LEMMA InARow ==
  ASSUME NEW S, NEW s \in Seq(S), NEW t \in Seq(S)
  PROVE  /\ s \o t \in Seq(S) /\ Len(s \o t) = Len(s) + Len(t)
         /\ \A p \in 1..Len(s) + Len(t) : (s \o t)[p] = IF p <= Len(s) THEN s[p] ELSE t[p - Len(s)]
  OBVIOUS

\* The key stands behind the place first, and nowhere else.
KeyBehind(request, first) ==
  \A p \in 1..Len(request) :
    IF p \in first + 1..first + 24 THEN request[p] = <<"key", p - first>> ELSE request[p][1] # "key"

\* Where the name and the key stand in a request, and that nothing else is a key.
LEMMA RequestIs ==
  ASSUME NEW before \in Nat, NEW spaces \in Nat, NEW after \in Nat,
         NEW first \in Nat, first = before + 18 + spaces
  PROVE  \E request \in Seq(Pieces) :
           /\ request = G!Request(before, spaces, after)
           /\ Len(request) = first + 24 + after
           /\ KeyBehind(request, first)
<1>1. PICK b \in Seq(Pieces) : b = G!Part("before", before)
  BY PartIs
<1>2. Len(b) = before
  BY <1>1, PartIs
<1>3. \A i \in 1..before : b[i] = <<"before", i>>
  BY <1>1, PartIs
<1>4. PICK n \in Seq(Pieces) : n = G!Part("name", 18)
  BY PartIs
<1>5. Len(n) = 18
  BY <1>4, PartIs
<1>6. \A i \in 1..18 : n[i] = <<"name", i>>
  BY <1>4, PartIs
<1>7. PICK s \in Seq(Pieces) : s = G!Part("space", spaces)
  BY PartIs
<1>8. Len(s) = spaces
  BY <1>7, PartIs
<1>9. \A i \in 1..spaces : s[i] = <<"space", i>>
  BY <1>7, PartIs
<1>10. PICK k \in Seq(Pieces) : k = G!Part("key", 24)
  BY PartIs
<1>11. Len(k) = 24
  BY <1>10, PartIs
<1>12. \A i \in 1..24 : k[i] = <<"key", i>>
  BY <1>10, PartIs
<1>13. PICK a \in Seq(Pieces) : a = G!Part("after", after)
  BY PartIs
<1>14. Len(a) = after
  BY <1>13, PartIs
<1>15. \A i \in 1..after : a[i] = <<"after", i>>
  BY <1>13, PartIs
<1>16. PICK bn : bn = b \o n
  OBVIOUS
<1>17. /\ bn \in Seq(Pieces) /\ Len(bn) = before + 18
      /\ \A p \in 1..before + 18 : bn[p] = IF p <= before THEN b[p] ELSE n[p - before]
  <2>1. /\ b \o n \in Seq(Pieces) /\ Len(b \o n) = Len(b) + Len(n)
        /\ \A p \in 1..Len(b) + Len(n) : (b \o n)[p] = IF p <= Len(b) THEN b[p] ELSE n[p - Len(b)]
    BY InARow, Zenon
  <2> QED BY <2>1, <1>16, <1>2, <1>5
<1>18. PICK named \in Nat : named = before + 18
  OBVIOUS
<1>19. ASSUME NEW p \in 1..named PROVE bn[p][1] # "key"
  <2>1. CASE p <= before
    <3>1. bn[p] = <<"before", p>>
      BY <2>1, <1>3, <1>17, <1>18
    <3> QED BY <3>1
  <2>2. CASE p > before
    <3>1. PICK i \in 1..18 : i = p - before
      BY <2>2, <1>18
    <3>2. bn[p] = n[i]
      <4>1. p \in 1..before + 18 /\ ~(p <= before)
        BY <2>2, <1>18
      <4>2. bn[p] = n[p - before]
        BY <4>1, <1>17
      <4> QED BY <4>2, <3>1
    <3>3. bn[p] = <<"name", i>>
      BY <3>2, <1>6
    <3> QED BY <3>3
  <2> QED BY <2>1, <2>2
<1>20. PICK bns : bns = bn \o s
  OBVIOUS
<1>21. /\ bns \in Seq(Pieces) /\ Len(bns) = named + spaces
      /\ \A p \in 1..named + spaces : bns[p] = IF p <= named THEN bn[p] ELSE s[p - named]
  <2>1. /\ bn \o s \in Seq(Pieces) /\ Len(bn \o s) = Len(bn) + Len(s)
        /\ \A p \in 1..Len(bn) + Len(s) : (bn \o s)[p] = IF p <= Len(bn) THEN bn[p] ELSE s[p - Len(bn)]
    BY InARow, <1>17, Zenon
  <2> QED BY <2>1, <1>20, <1>8, <1>17, <1>18
<1>22. ASSUME NEW p \in 1..first PROVE bns[p][1] # "key"
  <2>1. CASE p <= named
    <3>1. bns[p] = bn[p] /\ p \in 1..named
      BY <2>1, <1>18, <1>21
    <3> QED BY <3>1, <1>19
  <2>2. CASE p > named
    <3>1. PICK i \in 1..spaces : i = p - named
      BY <2>2, <1>18
    <3>2. bns[p] = s[i]
      BY <2>2, <3>1, <1>18, <1>21
    <3>3. bns[p] = <<"space", i>>
      BY <3>2, <1>9
    <3> QED BY <3>3
  <2> QED BY <2>1, <2>2
<1>23. Len(bns) = first
  BY <1>18, <1>21
<1>24. PICK bnsk : bnsk = bns \o k
  OBVIOUS
<1>25. /\ bnsk \in Seq(Pieces) /\ Len(bnsk) = first + 24
      /\ \A p \in 1..first + 24 : bnsk[p] = IF p <= first THEN bns[p] ELSE k[p - first]
  <2>1. /\ bns \o k \in Seq(Pieces) /\ Len(bns \o k) = Len(bns) + Len(k)
        /\ \A p \in 1..Len(bns) + Len(k) : (bns \o k)[p] = IF p <= Len(bns) THEN bns[p] ELSE k[p - Len(bns)]
    BY InARow, <1>21, Zenon
  <2> QED BY <2>1, <1>24, <1>11, <1>23
<1>26. PICK last \in Nat : last = first + 24
  OBVIOUS
<1>27. ASSUME NEW p \in 1..last
       PROVE  IF p > first THEN bnsk[p] = <<"key", p - first>> ELSE bnsk[p][1] # "key"
  <2>1. CASE p <= first
    <3>1. p \in 1..first /\ bnsk[p] = bns[p]
      BY <2>1, <1>25, <1>26
    <3> QED BY <2>1, <3>1, <1>22
  <2>2. CASE p > first
    <3>1. PICK i \in 1..24 : i = p - first
      BY <2>2, <1>26
    <3>2. bnsk[p] = k[i]
      BY <2>2, <3>1, <1>25, <1>26
    <3> QED BY <2>2, <3>1, <3>2, <1>12
  <2> QED BY <2>1, <2>2
<1>28. PICK request : request = bnsk \o a
  OBVIOUS
<1>29. /\ request \in Seq(Pieces) /\ Len(request) = last + after
      /\ \A p \in 1..last + after : request[p] = IF p <= last THEN bnsk[p] ELSE a[p - last]
  <2>1. /\ bnsk \o a \in Seq(Pieces) /\ Len(bnsk \o a) = Len(bnsk) + Len(a)
        /\ \A p \in 1..Len(bnsk) + Len(a) : (bnsk \o a)[p] = IF p <= Len(bnsk) THEN bnsk[p] ELSE a[p - Len(bnsk)]
    BY InARow, <1>25, Zenon
  <2> QED BY <2>1, <1>28, <1>14, <1>25, <1>26
<1>30. ASSUME NEW p \in 1..Len(request)
       PROVE  IF p \in first + 1..first + 24 THEN request[p] = <<"key", p - first>>
                                             ELSE request[p][1] # "key"
  <2>1. CASE p <= last
    <3>1. p \in 1..last /\ (p > first <=> p \in first + 1..first + 24)
      BY <2>1, <1>26
    <3>2. request[p] = bnsk[p]
      BY <2>1, <1>26, <1>29
    <3> QED BY <3>1, <3>2, <1>27
  <2>2. CASE p > last
    <3>1. PICK i \in 1..after : p - last = i /\ p \notin first + 1..first + 24
      BY <2>2, <1>26, <1>29
    <3>2. request[p] = a[i]
      BY <2>2, <3>1, <1>26, <1>29
    <3>3. request[p] = <<"after", i>>
      BY <3>2, <1>15
    <3> QED BY <3>1, <3>3
  <2> QED BY <2>1, <2>2, <1>26, <1>29
<1>31. request = G!Request(before, spaces, after)
  BY <1>1, <1>4, <1>7, <1>10, <1>13, <1>16, <1>20, <1>24, <1>28
     DEF G!Request, G!Key, G!NameLen, G!WEBSOCKET_KEY_LEN
<1>32. Len(request) = first + 24 + after
  BY <1>26, <1>29
<1>33. KeyBehind(request, first)
  BY <1>30 DEF KeyBehind
<1> QED BY <1>29, <1>31, <1>32, <1>33

\* GetAnswerStr accepts a request exactly when it has arrived up to the end of
\* the key and is written as browsers do, and never answers another key then:
\* for any lengths and any cut (WebSocket.cpp 43-54, main.cpp 144).
THEOREM AcceptsKeyAll ==
  \A before, spaces, after, arrived \in Nat : G!AcceptsKey(before, spaces, after, arrived)
<1> SUFFICES ASSUME NEW before \in Nat, NEW spaces \in Nat, NEW after \in Nat, NEW arrived \in Nat,
                    arrived <= Len(G!Request(before, spaces, after))
             PROVE  G!AcceptsKey(before, spaces, after, arrived)
  BY DEF G!AcceptsKey
<1>1. PICK first \in Nat : first = before + 18 + spaces
  OBVIOUS
<1>2. PICK request \in Seq(Pieces) :
        /\ request = G!Request(before, spaces, after)
        /\ Len(request) = first + 24 + after
        /\ KeyBehind(request, first)
  BY <1>1, RequestIs
<1>3. PICK text : text = SubSeq(request, 1, arrived)
  OBVIOUS
<1>4. arrived <= Len(request)
  BY <1>2
<1>5. Len(text) = arrived /\ \A p \in 1..arrived : text[p] = request[p] /\ text[p] \in Pieces
  BY <1>3, <1>4
<1>6. PICK taken : taken = G!AskKey(text, before)
  OBVIOUS
<1>7. taken = [i \in 1..24 |-> IF before + 19 + i <= arrived THEN text[before + 19 + i] ELSE G!NUL]
  <2>1. \A i \in 1..24 : before + G!NameLen + 2 + i = before + 19 + i
    BY DEF G!NameLen
  <2> QED BY <1>5, <1>6, <2>1 DEF G!AskKey, G!WEBSOCKET_KEY_LEN
<1>8. PICK short \in BOOLEAN : short <=> \E i \in 1..24 : taken[i] = G!NUL
  OBVIOUS
<1>9. short <=> arrived < before + 43
  <2>1. ASSUME arrived < before + 43 PROVE taken[24] = G!NUL
    BY <1>7, <2>1
  <2>2. ASSUME arrived >= before + 43, NEW i \in 1..24 PROVE taken[i] # G!NUL
    <3>1. before + 19 + i \in 1..arrived
      BY <2>2
    <3>2. taken[i] \in Pieces
      BY <1>5, <1>7, <3>1
    <3> QED BY <3>2 DEF Pieces, G!NUL
  <2>3. 24 \in 1..24 /\ (arrived < before + 43 <=> ~(arrived >= before + 43))
    OBVIOUS
  <2> QED BY <1>8, <2>1, <2>2, <2>3, Zenon
<1>10. G!Key = [i \in 1..24 |-> <<"key", i>>]
  BY DEF G!Key, G!Part, G!WEBSOCKET_KEY_LEN
<1>11. ASSUME spaces = 1, ~short PROVE taken = G!Key
  <2>1. ASSUME NEW i \in 1..24 PROVE taken[i] = <<"key", i>>
    <3>1. PICK p \in 1..arrived : p = before + 19 + i
      BY <1>9, <1>11
    <3>2. p \in first + 1..first + 24 /\ p - first = i /\ p \in 1..Len(request)
      BY <1>1, <1>4, <1>11, <3>1, <1>2
    <3>3. taken[i] = text[p]
      BY <1>7, <3>1
    <3>4. taken[i] = request[p]
      BY <1>5, <3>3
    <3> QED BY <1>2, <3>2, <3>4 DEF KeyBehind
  <2> QED BY <1>7, <1>10, <2>1
<1>12. ASSUME taken = G!Key, ~short PROVE spaces = 1
  <2>1. taken[1] = <<"key", 1>> /\ taken[24] = <<"key", 24>>
    BY <1>10, <1>12
  <2>2. PICK p \in 1..arrived : p = before + 20
    BY <1>9, <1>12
  <2>3. PICK q \in 1..arrived : q = before + 43
    BY <1>9, <1>12
  <2>4. taken[1] = text[p] /\ taken[24] = text[q]
    BY <1>7, <2>2, <2>3
  <2>5. p \in 1..Len(request) /\ q \in 1..Len(request)
    BY <1>2, <1>4
  <2>6. request[p][1] = "key" /\ request[q][1] = "key"
    BY <1>5, <2>1, <2>4
  <2>7. p \in first + 1..first + 24 /\ q \in first + 1..first + 24
    BY <1>2, <2>5, <2>6 DEF KeyBehind
  <2> QED BY <1>1, <2>2, <2>3, <2>7
<1>13. PICK there \in BOOLEAN : there <=> G!IsHandshake(text, before)
  OBVIOUS
<1>14. there <=> before >= 1 /\ arrived >= before + 18
  BY <1>5, <1>13 DEF G!IsHandshake, G!NameLen
<1>15. G!WholeKey(before, spaces) = first + 24
  BY <1>1 DEF G!WholeKey, G!NameLen, G!WEBSOCKET_KEY_LEN
<1>16. PICK reply : reply = G!GetAnswerStr(text, before)
  OBVIOUS
<1>17. reply = CASE ~there -> "error"
                 [] there /\ short -> "null"
                 [] there /\ ~short /\ taken = G!Key -> "accept"
                 [] there /\ ~short /\ taken # G!Key -> "wrong"
  <2>1. DOMAIN taken = 1..24
    BY <1>7
  <2>2. short <=> \E i \in DOMAIN taken : taken[i] = G!NUL
    BY <1>8, <2>1
  <2> QED BY <1>6, <1>13, <1>16, <2>2, Zenon DEF G!GetAnswerStr
<1>18. /\ reply = "error" <=> ~there
       /\ reply = "accept" <=> there /\ ~short /\ taken = G!Key
       /\ reply = "wrong" <=> there /\ ~short /\ taken # G!Key
  BY <1>17
<1>19. reply = "accept" <=> before > 0 /\ spaces = 1 /\ arrived >= first + 24
  BY <1>1, <1>9, <1>11, <1>12, <1>14, <1>18
<1>20. reply = "error" <=> before = 0 \/ arrived < before + 18
  BY <1>14, <1>18
<1>21. spaces = 1 => reply # "wrong"
  BY <1>11, <1>18
<1> QED BY <1>2, <1>3, <1>15, <1>16, <1>19, <1>20, <1>21 DEF G!AcceptsKey, G!NameLen

\* However far the sweep goes.
THEOREM AcceptsKeySwept == CodecsSpec => []AcceptsKeyInv
<1>1. CodecsInit => len \in Nat
  BY DEF CodecsInit
<1>2. len \in Nat /\ [CodecsNext]_<<part, len, resets, vars, orderVars, iniVars>> => (len \in Nat)'
  BY DEF CodecsNext, Sweep, Hash, TakeOrders, UseIni
<1>3. len \in Nat => AcceptsKeyInv
  <2> SUFFICES ASSUME len \in Nat PROVE AcceptsKeyInv
    OBVIOUS
  <2>1. len % 3 \in Nat /\ (len \div 3) % 4 \in Nat /\ (len \div 12) % 4 \in Nat /\ len \div 48 \in Nat
    OBVIOUS
  <2>2. G!AcceptsKey(len % 3, (len \div 3) % 4, (len \div 12) % 4, len \div 48)
    BY <2>1, AcceptsKeyAll, Zenon
  <2> QED BY <2>2 DEF AcceptsKeyInv
<1> QED BY <1>1, <1>2, <1>3, PTL DEF CodecsSpec

-----------------------------------------------------------------------------
(* Ini files *)

\* A set of numbers that is not empty has a least one.
LEMMA Least ==
  ASSUME NEW S, S \subseteq Nat, S # {}
  PROVE  \E m \in S : \A k \in S : m <= k
<1> DEFINE R == {ss \in Nat \X Nat : ss[1] < ss[2]}
<1>1. IsWellFoundedOn(R, Nat)
  BY NatLessThanWellFounded DEF OpToRel
<1> HIDE DEF R
<1>2. PICK m \in S : \A y \in S : ~(<<y, m>> \in R)
  BY <1>1, WFMin
<1>3. \A k \in S : ~(k < m)
  BY <1>2 DEF R
<1> QED BY <1>3

\* The list has the nodes 1 to k, each behind the one before, and node i holds
\* what is stored for the line pos[i]; these are all pairs of the lines read.
IsListOf(k, pos) ==
  /\ k \in L!Node /\ InfoHead = 1 /\ alive = 1..k /\ fake \in {L!NULL, k}
  /\ next = [n \in L!Node |-> IF n < k THEN n + 1 ELSE L!NULL]
  /\ pair = [n \in L!Node |-> pair[n]]
  /\ \A n \in L!Node : n = 1 \/ n > k => pair[n] = L!Empty
  /\ \A n \in 2..k : pair[n] \in L!Stored(file[pos[n]])
  /\ pos \in [1..k -> Nat] /\ pos[1] = 0
  /\ \A i \in 2..k : i - 1 <= pos[i] /\ pos[i] <= line /\ file[pos[i]] \in L!KeyTexts \X L!Values
  /\ \A i, j \in 1..k : i < j => pos[i] < pos[j]
  /\ \A i \in 1..line : file[i] = L!Plain \/ \E j \in 2..k : pos[j] = i
  /\ fake = L!NULL => line = Len(file) \/ file[line + 1] = L!TooLong
  /\ fake # L!NULL => answer = L!None

\* Nothing has been read, or the list was freed.
NoList ==
  /\ InfoHead = L!NULL /\ alive = {} /\ fake = L!NULL /\ answer = L!None
  /\ next = [n \in L!Node |-> L!NULL] /\ pair = [n \in L!Node |-> L!Empty]

\* How far the file was read.
Read ==
  /\ file \in Seq(L!Line) /\ Len(file) <= MaxLines
  /\ line \in 0..Len(file) /\ \A i \in 1..line : file[i] # L!TooLong

\* Inductive: the list, the place in the file, and the last answer.
IniInv ==
  /\ Read
  /\ NoList \/ \E k, pos : IsListOf(k, pos)
  /\ L!GetAnswersFile

\* The file may have any number of lines.
LEMMA MaxIsNat == MaxLines \in Nat
  BY IniAssumption

\* The three kinds of lines are told apart, and the two texts of a pair are
\* what they were made of.
LEMMA Lines ==
  /\ L!Plain # L!TooLong /\ L!Plain \notin L!KeyTexts \X L!Values /\ L!TooLong \notin L!KeyTexts \X L!Values
  /\ \A key \in L!KeyTexts : L!Empty[1] # key /\ L!Printed(L!Plain[1], {}) = {L!Plain[1]} /\ L!Plain[1] # key
  /\ \A value \in L!Values : value[2] = 0 => L!Length(value) = value[1] /\ \A any : L!Printed(value, any) = {value}
<1>1. \A key \in L!KeyTexts : key[1] \in Keys
  BY DEF L!KeyTexts
<1>2. L!Plain[1] = <<"plain", 0>> /\ L!TooLong[1] = <<"too long", 0>> /\ L!Empty[1] = <<"empty", 0>>
  BY DEF L!Plain, L!TooLong, L!Empty
<1>3. ASSUME NEW body, NEW any PROVE L!Printed(<<body, 0>>, any) = {<<body, 0>>}
  <2>1. 0 % 2 = 0 /\ 0 \div 2 = 0
    OBVIOUS
  <2>2. <<body, 0>>[1] = body /\ <<body, 0>>[2] = 0
    OBVIOUS
  <2>3. L!Printed(<<body, 0>>, any) = IF 0 % 2 = 1 THEN any ELSE {<<body, 0 \div 2>>}
    BY <2>2, Zenon DEF L!Printed, L!Converts
  <2>4. 0 % 2 # 1
    BY <2>1
  <2> QED BY <2>1, <2>3, <2>4, Zenon
<1>4. L!Plain[1][1] = "plain" /\ L!TooLong[1][1] = "too long" /\ L!Empty[1][1] = "empty" /\ L!Plain[1][2] = 0
  BY DEF L!Plain, L!TooLong, L!Empty
<1>5. L!Plain[1] \notin L!KeyTexts /\ L!TooLong[1] \notin L!KeyTexts /\ L!Empty[1] \notin L!KeyTexts
  BY <1>1, <1>4, IniAssumption
<1>6. L!Printed(L!Plain[1], {}) = {L!Plain[1]}
  BY <1>2, <1>3
<1>7. L!Plain # L!TooLong
  BY <1>4
<1>8. ASSUME NEW value \in L!Values, value[2] = 0
      PROVE  L!Length(value) = value[1] /\ \A any : L!Printed(value, any) = {value}
  <2>1. PICK n \in ValueLens : value = <<n, 0>>
    BY <1>8 DEF L!Values
  <2>2. n \in Nat
    BY IniAssumption
  <2> QED BY <1>3, <2>1, <2>2 DEF L!Length
<1> QED BY <1>5, <1>6, <1>7, <1>8

\* A text with no conversion is printed in one way, whatever another might give.
LEMMA PrintedOneWay ==
  ASSUME NEW text, NEW any, NEW printed \in L!Printed(text, {})
  PROVE  printed \in L!Printed(text, any) /\ \A p \in L!Printed(text, any) : p = printed
  BY DEF L!Printed

\* A new node is the one behind the nodes there are.
LEMMA NewIs ==
  ASSUME NEW k \in 0..MaxLines, alive = 1..k
  PROVE  L!New = k + 1 /\ k + 1 \in L!Node
<1>1. L!Node \ alive = k + 1..MaxLines + 1
  BY MaxIsNat DEF L!Node
<1>2. k + 1 \in L!Node \ alive /\ \A m \in L!Node \ alive : k + 1 <= m
  BY <1>1, MaxIsNat
<1>3. \A n \in L!Node \ alive : (\A m \in L!Node \ alive : n <= m) => n = k + 1
  BY <1>1, <1>2, MaxIsNat
<1> QED BY <1>2, <1>3 DEF L!New, L!Node

\* The walk through the list meets its nodes in order, and then stays at NULL.
LEMMA WalkInOrder ==
  ASSUME NEW k \in 0..MaxLines + 1, InfoHead = IF k = 0 THEN 0 ELSE 1,
         next = [n \in L!Node |-> IF n < k THEN n + 1 ELSE L!NULL]
  PROVE  L!Walk = [i \in 1..MaxLines + 2 |-> IF i <= k THEN i ELSE L!NULL]
<1> DEFINE I == 1..MaxLines + 2
           Step(w) == [i \in I |-> IF i = 1 THEN InfoHead ELSE L!Behind(w[i - 1])]
           e == [i \in I |-> IF i <= k THEN i ELSE L!NULL]
<1>1. ASSUME NEW i \in I, i # 1
      PROVE  IF e[i - 1] = L!NULL THEN e[i] = L!NULL ELSE e[i] = next[e[i - 1]]
  <2>1. i - 1 \in I
    BY <1>1, MaxIsNat
  <2> QED BY <1>1, <2>1, MaxIsNat DEF L!NULL, L!Node
<1>2. e[1] = InfoHead
  BY MaxIsNat DEF L!NULL
<1>3. e = Step(e)
  BY <1>1, <1>2 DEF L!Behind, L!NULL
<1>4. ASSUME NEW w, w = Step(w) PROVE w = e
  <2> DEFINE S == {i \in I : w[i] # e[i]}
  <2>1. SUFFICES ASSUME S # {} PROVE FALSE
    BY <1>4
  <2>2. PICK m \in S : \A i \in S : m <= i
    <3>1. S \subseteq Nat
      BY MaxIsNat
    <3> HIDE DEF S
    <3> QED BY <2>1, <3>1, Least
  <2>3. w[m] # e[m] /\ m \in I
    BY <2>2
  <2>4. CASE m = 1
    BY <1>2, <1>4, <2>3, <2>4
  <2>5. CASE m # 1
    <3>1. m - 1 \in I /\ m - 1 \notin S
      BY <2>2, <2>3, <2>5, MaxIsNat
    <3>2. w[m - 1] = e[m - 1]
      BY <3>1
    <3>3. w[m] = IF w[m - 1] = L!NULL THEN L!NULL ELSE next[w[m - 1]]
      BY <1>4, <2>3, <2>5 DEF L!Behind
    <3> HIDE DEF e
    <3> QED BY <1>1, <2>3, <2>5, <3>2, <3>3
  <2> QED BY <2>4, <2>5
<1>5. L!Walk = CHOOSE w : w = Step(w)
  BY DEF L!Walk
<1> HIDE DEF e, Step
<1>6. L!Walk = e
  BY <1>3, <1>4, <1>5
<1> QED BY <1>6 DEF e

\* So it does in a list that was read.
LEMMA WalkIs ==
  ASSUME NEW k, NEW pos, IsListOf(k, pos)
  PROVE  L!Walk = [i \in 1..MaxLines + 2 |-> IF i <= k THEN i ELSE L!NULL]
<1>1. k \in 1..MaxLines + 1 /\ InfoHead = 1 /\ next = [n \in L!Node |-> IF n < k THEN n + 1 ELSE L!NULL]
  BY DEF IsListOf, L!Node
<1>2. k \in 0..MaxLines + 1 /\ InfoHead = IF k = 0 THEN 0 ELSE 1
  BY <1>1
<1> QED BY <1>1, <1>2, WalkInOrder

\* What can be reached is all of the list.
LEMMA ListedIs ==
  ASSUME NEW k, NEW pos, IsListOf(k, pos)
  PROVE  L!Listed = 1..k
<1>1. k \in 1..MaxLines + 1
  BY DEF IsListOf, L!Node
<1> QED BY <1>1, WalkIs, MaxIsNat DEF L!Listed, L!NULL

\* The nodes with a key, and the one that decides.
LEMMA FoundIs ==
  ASSUME NEW k, NEW pos, IsListOf(k, pos), NEW key \in L!KeyTexts
  PROVE  /\ L!Found(key) = {i \in 2..k : pair[i][1] = key}
         /\ L!Found(key) # {} => \E i \in L!Found(key) :
              (\A j \in L!Found(key) : i <= j) /\ L!First(L!Found(key)) = pair[i][2]
<1>1. k \in 1..MaxLines + 1
  BY DEF IsListOf, L!Node
<1>2. DOMAIN L!Walk = 1..MaxLines + 2 /\ \A i \in 1..MaxLines + 2 : L!Walk[i] = IF i <= k THEN i ELSE L!NULL
  BY WalkIs
<1>3. pair[1] = L!Empty
  BY MaxIsNat DEF IsListOf, L!Node
<1>4. L!Found(key) = {i \in 2..k : pair[i][1] = key}
  <2>1. ASSUME NEW i \in 1..MaxLines + 2
        PROVE  (L!Walk[i] # L!NULL /\ pair[L!Walk[i]][1] = key) <=> i \in 2..k /\ pair[i][1] = key
    <3>1. CASE i = 1
      BY <3>1, <1>1, <1>2, <1>3, Lines
    <3>2. CASE i \in 2..k
      BY <3>2, <1>2 DEF L!NULL
    <3>3. CASE i > k
      BY <3>3, <1>1, <1>2
    <3> QED BY <3>1, <3>2, <3>3, <1>1
  <2>2. 2..k \subseteq 1..MaxLines + 2
    BY <1>1, MaxIsNat
  <2>3. L!Found(key) = {i \in 1..MaxLines + 2 : i \in 2..k /\ pair[i][1] = key}
    BY <1>2, <2>1 DEF L!Found
  <2> QED BY <2>2, <2>3
<1>5. ASSUME L!Found(key) # {}
      PROVE  \E i \in L!Found(key) : (\A j \in L!Found(key) : i <= j) /\ L!First(L!Found(key)) = pair[i][2]
  <2> DEFINE i == CHOOSE i \in L!Found(key) : \A j \in L!Found(key) : i <= j
  <2>1. \E ii \in L!Found(key) : \A j \in L!Found(key) : ii <= j
    <3>1. L!Found(key) \subseteq Nat
      BY <1>1, <1>4
    <3> QED BY <1>5, <3>1, Least
  <2>2. i \in L!Found(key) /\ \A j \in L!Found(key) : i <= j
    BY <2>1
  <2>3. L!First(L!Found(key)) = pair[L!Walk[i]][2]
    BY DEF L!First
  <2> HIDE DEF i
  <2>4. i \in 2..k
    BY <1>4, <2>2
  <2>5. L!Walk[i] = i
    BY <1>1, <1>2, <2>4, MaxIsNat
  <2> QED BY <2>2, <2>3, <2>5
<1> QED BY <1>4, <1>5

\* What GetIniInfo answers is in the file.
LEMMA IniInvGet ==
  ASSUME IniInv, NEW key \in L!KeyTexts, NEW n \in BufLens, L!GetIniInfo(key, n)
  PROVE  IniInv'
<1>1. /\ InfoHead # L!NULL /\ fake = L!NULL /\ asked' = <<key, n>>
      /\ file' = file /\ line' = line /\ InfoHead' = InfoHead /\ fake' = fake
      /\ alive' = alive /\ next' = next /\ pair' = pair
  BY DEF L!GetIniInfo, L!Idle
<1>2. Read
  BY DEF IniInv
<1>3. PICK k, pos : IsListOf(k, pos)
  BY <1>1 DEF IniInv, NoList
<1> DEFINE found == L!Found(key)
           has   == {i \in L!ReadLines : key \in L!Printed(file[i][1], {})}
           mayBe == {i \in L!ReadLines : key \in L!Printed(file[i][1], L!KeyTexts)}
<1>4. answer' \in L!Answers(found, n)
  BY DEF L!GetIniInfo
<1>5. k \in 1..MaxLines + 1 /\ pos \in [1..k -> Nat]
  BY <1>3 DEF IsListOf, L!Node
<1>6. found = {i \in 2..k : pair[i][1] = key}
  BY <1>3, FoundIs
<1>7. L!ReadLines = 1..line
  <2>1. line = Len(file) \/ file[line + 1] = L!TooLong
    BY <1>1, <1>3 DEF IsListOf
  <2>2. DOMAIN file = 1..Len(file) /\ Len(file) \in Nat
    BY <1>2 DEF Read
  <2>3. line \in 0..Len(file) /\ \A i \in 1..line : file[i] # L!TooLong
    BY <1>2 DEF Read
  <2>4. ASSUME NEW i \in 1..Len(file) PROVE i \in 1..line <=> \A j \in 1..i : file[j] # L!TooLong
    <3>1. CASE i <= line
      BY <2>2, <2>3, <3>1
    <3>2. CASE i > line
      <4>1. line + 1 \in 1..i /\ line # Len(file)
        <5>1. PICK m \in Nat : m = Len(file)
          BY <2>2
        <5>2. line \in 0..m /\ i \in 1..m
          BY <5>1, <2>3
        <5>3. line # m /\ line + 1 \in 1..i
          BY <5>2, <3>2
        <5> QED BY <5>1, <5>3
      <4>2. file[line + 1] = L!TooLong
        BY <2>1, <4>1
      <4> QED BY <3>2, <4>1, <4>2, <2>3
    <3> QED BY <3>1, <3>2, <2>2, <2>3
  <2>5. 1..line \subseteq 1..Len(file)
    BY <2>2, <2>3
  <2> QED BY <2>2, <2>4, <2>5, Zenon DEF L!ReadLines
<1>8. ASSUME NEW j \in 2..k
      PROVE  /\ pair[j][1] \in L!Printed(file[pos[j]][1], L!KeyTexts)
             /\ file[pos[j]][2] \in L!Values
             /\ file[pos[j]][2][2] = 0 => pair[j][2] = file[pos[j]][2]
  <2>1. pair[j] \in L!Stored(file[pos[j]]) /\ file[pos[j]] \in L!KeyTexts \X L!Values
    BY <1>3 DEF IsListOf
  <2>2. /\ pair[j][1] \in L!Printed(file[pos[j]][1], L!KeyTexts)
        /\ pair[j][2] \in L!Printed(file[pos[j]][2], {v \in L!Values : L!Length(v) <= L!Length(file[pos[j]][2])})
    BY <2>1 DEF L!Stored
  <2>3. file[pos[j]][2] \in L!Values
    BY <2>1
  <2> QED BY <2>2, <2>3, Lines
<1>9. ASSUME NEW i \in has PROVE \E j \in found : pos[j] = i
  <2>1. i \in 1..line /\ key \in L!Printed(file[i][1], {})
    BY <1>7
  <2>2. file[i] # L!Plain
    BY <2>1, Lines
  <2>3. PICK j \in 2..k : pos[j] = i
    BY <1>3, <2>1, <2>2 DEF IsListOf
  <2>4. pair[j][1] = key
    <3>1. PICK text : text = file[i][1]
      OBVIOUS
    <3>2. key \in L!Printed(text, {})
      BY <2>1, <3>1
    <3>3. pair[j][1] \in L!Printed(text, L!KeyTexts)
      BY <1>8, <2>3, <3>1
    <3>4. \A p \in L!Printed(text, L!KeyTexts) : p = key
      BY <3>2, PrintedOneWay
    <3> QED BY <3>3, <3>4
  <2> HIDE DEF found, has
  <2> QED BY <1>6, <2>3, <2>4
<1>10. ASSUME NEW j \in found PROVE pos[j] \in mayBe
  <2>1. j \in 2..k /\ key \in L!Printed(file[pos[j]][1], L!KeyTexts)
    BY <1>6, <1>8
  <2>2. pos[j] \in 1..line
    BY <1>3, <1>5, <2>1 DEF IsListOf
  <2> QED BY <1>7, <2>1, <2>2
<1>11. L!GetAnswersFile'
  <2>1. L!ReadLines' = L!ReadLines
    BY <1>1 DEF L!ReadLines
  <2>2. asked'[1] = key /\ asked'[2] = n
    BY <1>1
  <2>3. /\ {i \in L!ReadLines' : asked'[1] \in L!Printed(file'[i][1], {})} = has
        /\ {i \in L!ReadLines' : asked'[1] \in L!Printed(file'[i][1], L!KeyTexts)} = mayBe
    BY <1>1, <2>1, <2>2
  <2> HIDE DEF found, has, mayBe
  <2>4. CASE found = {}
    <3>1. has = {} /\ answer' = L!NoFound
      BY <1>4, <1>9, <2>4 DEF L!Answers
    <3> QED BY <2>3, <3>1 DEF L!GetAnswersFile
  <2>5. CASE found # {}
    <3>1. PICK first \in found : (\A j \in found : first <= j) /\ L!First(found) = pair[first][2]
      BY <1>3, <2>5, FoundIs DEF found
    <3>2. first \in 2..k
      BY <1>6, <3>1
    <3>3. pos[first] \in mayBe
      BY <1>10
    <3>4. ASSUME NEW i \in has PROVE pos[first] <= i
      <4>1. PICK j \in found : pos[j] = i
        BY <1>9
      <4>2. j \in 2..k /\ first <= j
        BY <1>6, <3>1
      <4>3. first = j \/ pos[first] < pos[j]
        BY <1>3, <3>2, <4>2, <1>5 DEF IsListOf
      <4>4. pos[first] \in Nat /\ pos[j] \in Nat
        BY <1>5, <3>2, <4>2
      <4> QED BY <4>1, <4>3, <4>4
    <3>5. ASSUME file[pos[first]][2][2] = 0
          PROVE  answer' = IF file[pos[first]][2][1] < n THEN <<"value", file[pos[first]][2]>> ELSE L!TooBig
      <4>1. PICK value \in L!Values : value = file[pos[first]][2]
        BY <1>8, <3>2
      <4>2. L!First(found) = value /\ value[2] = 0
        BY <1>8, <3>1, <3>2, <3>5, <4>1
      <4>3. L!Length(value) = value[1] /\ \A any : L!Printed(value, any) = {value}
        BY <4>2, Lines
      <4>4. answer' \in IF n <= L!Length(value) THEN {L!TooBig}
                        ELSE {<<"value", v>> : v \in L!Printed(value, {v \in L!Values : L!Length(v) < n})}
        BY <1>4, <2>5, <4>2 DEF L!Answers
      <4>5. n \in Nat /\ value[1] \in Nat
        BY IniAssumption DEF L!Values
      <4>6. n <= value[1] => answer' = L!TooBig
        BY <4>3, <4>4
      <4>7. ~(n <= value[1]) => answer' = <<"value", value>>
        BY <4>3, <4>4
      <4>8. n <= value[1] <=> ~(value[1] < n)
        BY <4>5
      <4> QED BY <4>1, <4>6, <4>7, <4>8
    <3>6. \E i \in mayBe :
            /\ \A j \in has : i <= j
            /\ file[i][2][2] = 0 => answer' = IF file[i][2][1] < n THEN <<"value", file[i][2]>> ELSE L!TooBig
      BY <3>3, <3>4, <3>5
    <3>7. L!TooBig' = L!TooBig /\ file' = file
      BY <1>1
    <3> QED BY <2>2, <2>3, <3>6, <3>7 DEF L!GetAnswersFile
  <2> QED BY <2>4, <2>5
<1>12. Read'
  BY <1>1, <1>2 DEF Read
<1>13. IsListOf(k, pos)'
  BY <1>1, <1>3, Zenon DEF IsListOf
<1> QED BY <1>11, <1>12, <1>13 DEF IniInv

\* No list at first.
LEMMA IniInvInit == L!Init => IniInv
<1> SUFFICES ASSUME L!Init PROVE IniInv
  OBVIOUS
<1>1. Read
  BY MaxIsNat DEF L!Init, Read
<1> QED BY <1>1 DEF L!Init, IniInv, NoList, L!GetAnswersFile

\* A file is read into a list of its empty node.
LEMMA IniInvAnalysis ==
  ASSUME IniInv, L!AnalysisIniFile
  PROVE  IniInv'
<1>1. NoList
  BY DEF IniInv, IsListOf, L!AnalysisIniFile, L!NULL
<1>2. L!New = 1 /\ 1 \in L!Node
  <2>1. 0 \in 0..MaxLines /\ alive = 1..0
    BY <1>1, MaxIsNat DEF NoList
  <2> QED BY <2>1, NewIs
<1>3. file' \in Seq(L!Line) /\ Len(file') <= MaxLines
  <2>1. file' \in L!Files \/ file' = <<>>
    BY DEF L!AnalysisIniFile
  <2>2. CASE file' = <<>>
    <3>1. Len(<<>>) = 0 /\ <<>> \in Seq(L!Line)
      OBVIOUS
    <3> QED BY <2>2, <3>1, MaxIsNat
  <2>3. CASE file' \in L!Files
    <3>1. PICK n \in 0..MaxLines : file' \in [1..n -> L!Line]
      BY <2>3 DEF L!Files
    <3> QED BY <3>1, MaxIsNat
  <2> QED BY <2>1, <2>2, <2>3
<1>4. Read'
  BY <1>3, MaxIsNat DEF Read, L!AnalysisIniFile
<1>5. /\ InfoHead' = 1 /\ alive' = 1..1 /\ line' = 0 /\ answer' = L!None
      /\ fake' = 1 \/ (fake' = L!NULL /\ file' = <<>>)
  BY <1>1, <1>2 DEF NoList, L!AnalysisIniFile
<1>6. /\ next' = [n \in L!Node |-> L!NULL] /\ pair' = [n \in L!Node |-> L!Empty]
  BY <1>1, <1>2 DEF NoList, L!AnalysisIniFile
<1>7. IsListOf(1, [i \in 1..1 |-> 0])'
  <2>1. \A n \in L!Node : ~(n < 1) /\ (n = 1 \/ n > 1)
    BY MaxIsNat DEF L!Node
  <2>2. next' = [n \in L!Node |-> IF n < 1 THEN n + 1 ELSE L!NULL]
    BY <1>6, <2>1
  <2>3. fake' = L!NULL => line' = Len(file')
    BY <1>5 DEF L!NULL
  <2> QED BY <1>2, <1>5, <1>6, <2>2, <2>3 DEF IsListOf
<1> QED BY <1>4, <1>5, <1>7 DEF IniInv, L!GetAnswersFile

\* A pair that is read becomes the last node.
LEMMA IniInvPair ==
  ASSUME IniInv, L!ReadPair
  PROVE  IniInv'
<1>1. PICK k, pos : IsListOf(k, pos)
  BY DEF IniInv, NoList, L!ReadPair, L!AtPair, L!Reading
<1>2. /\ file \in Seq(L!Line) /\ Len(file) <= MaxLines /\ Len(file) \in Nat
      /\ line \in 0..Len(file) /\ \A i \in 1..line : file[i] # L!TooLong
  BY DEF IniInv, Read
<1>3. /\ line < Len(file) /\ file[line + 1] \notin {L!Plain, L!TooLong} /\ fake # L!NULL
      /\ file' = file /\ line' = line + 1 /\ asked' = asked /\ answer' = answer /\ InfoHead' = InfoHead
      /\ alive' = alive \cup {L!New} /\ fake' = L!New
      /\ next' = [next EXCEPT ![fake] = L!New, ![L!New] = L!NULL]
  BY DEF L!ReadPair, L!Appended, L!AtPair, L!Reading
<1>4. /\ k \in 1..MaxLines + 1 /\ pos \in [1..k -> Nat] /\ fake = k /\ answer = L!None
      /\ InfoHead = 1 /\ alive = 1..k
      /\ next = [n \in L!Node |-> IF n < k THEN n + 1 ELSE L!NULL]
      /\ pair = [n \in L!Node |-> pair[n]]
      /\ \A n \in L!Node : n = 1 \/ n > k => pair[n] = L!Empty
  BY <1>1, <1>3 DEF IsListOf, L!Node
<1>5. /\ pos[1] = 0
      /\ \A i \in 2..k : i - 1 <= pos[i] /\ pos[i] <= line /\ file[pos[i]] \in L!KeyTexts \X L!Values
      /\ \A i, j \in 1..k : i < j => pos[i] < pos[j]
      /\ \A i \in 1..line : file[i] = L!Plain \/ \E j \in 2..k : pos[j] = i
  BY <1>1 DEF IsListOf
<1>6. \A i \in 1..k : pos[i] <= line /\ pos[i] \in Nat
  BY <1>2, <1>4, <1>5
<1>7. k - 1 <= line
  <2>1. k = 1 \/ k \in 2..k
    BY <1>4
  <2> QED BY <1>2, <1>5, <1>6, <1>4, <2>1
<1>8. L!New = k + 1 /\ k + 1 \in L!Node
  <2>1. k \in 0..MaxLines
    BY <1>2, <1>3, <1>4, <1>7, MaxIsNat
  <2> QED BY <2>1, <1>4, NewIs
<1>9. file[line + 1] \in L!KeyTexts \X L!Values
  <2>1. file[line + 1] \in L!Line
    BY <1>2, <1>3
  <2> QED BY <1>3, <2>1 DEF L!Line
<1>10. PICK q \in [1..k + 1 -> Nat] : q[k + 1] = line + 1 /\ \A i \in 1..k : q[i] = pos[i]
  <2> DEFINE q == [i \in 1..k + 1 |-> IF i <= k THEN pos[i] ELSE line + 1]
  <2>1. q \in [1..k + 1 -> Nat] /\ q[k + 1] = line + 1 /\ \A i \in 1..k : q[i] = pos[i]
    BY <1>2, <1>4
  <2> QED BY <2>1
<1>11. q[1] = 0 /\ q[k + 1] = line + 1
  BY <1>4, <1>5, <1>10
<1>12. ASSUME NEW i \in 2..k + 1
       PROVE  i - 1 <= q[i] /\ q[i] <= line + 1 /\ file[q[i]] \in L!KeyTexts \X L!Values
  <2>1. CASE i = k + 1
    BY <2>1, <1>2, <1>4, <1>7, <1>9, <1>11
  <2>2. CASE i \in 2..k
    <3>1. q[i] = pos[i] /\ pos[i] <= line /\ i - 1 <= pos[i] /\ file[pos[i]] \in L!KeyTexts \X L!Values /\ pos[i] \in Nat
      BY <2>2, <1>5, <1>6, <1>10
    <3> QED BY <3>1, <1>2
  <2> QED BY <2>1, <2>2, <1>4
<1>13. ASSUME NEW i \in 1..k + 1, NEW j \in 1..k + 1, i < j PROVE q[i] < q[j]
  <2>1. i \in 1..k /\ q[i] = pos[i]
    BY <1>4, <1>10, <1>13
  <2>2. CASE j = k + 1
    BY <2>1, <2>2, <1>2, <1>6, <1>11
  <2>3. CASE j \in 1..k
    BY <2>1, <2>3, <1>5, <1>10, <1>13
  <2> QED BY <2>2, <2>3, <1>4
<1>14. ASSUME NEW i \in 1..line + 1, file[i] # L!Plain PROVE \E j \in 2..k + 1 : q[j] = i
  <2>1. CASE i = line + 1
    <3>1. k + 1 \in 2..k + 1
      BY <1>4
    <3> QED BY <2>1, <3>1, <1>11
  <2>2. CASE i \in 1..line
    <3>1. PICK j \in 2..k : pos[j] = i
      BY <2>2, <1>5, <1>14
    <3>2. j \in 2..k + 1 /\ q[j] = i
      BY <3>1, <1>4, <1>10
    <3> QED BY <3>2
  <2> QED BY <2>1, <2>2, <1>2
<1>15. next' = [n \in L!Node |-> IF n < k + 1 THEN n + 1 ELSE L!NULL]
  <2>1. ASSUME NEW n \in L!Node PROVE next'[n] = IF n < k + 1 THEN n + 1 ELSE L!NULL
    <3>1. n \in 1..MaxLines + 1 /\ k \in L!Node /\ k # k + 1
      BY <1>4 DEF L!Node
    <3>2. next'[k] = k + 1 /\ next'[k + 1] = L!NULL
      BY <1>3, <1>4, <1>8, <3>1
    <3>3. n # k /\ n # k + 1 => next'[n] = IF n < k THEN n + 1 ELSE L!NULL
      BY <1>3, <1>4, <1>8
    <3> QED BY <1>4, <3>1, <3>2, <3>3, MaxIsNat
  <2>2. next' = [n \in L!Node |-> next'[n]]
    BY <1>3, <1>4
  <2> QED BY <2>1, <2>2
<1>16. PICK stored \in L!Stored(file[line + 1]) : pair' = [pair EXCEPT ![k + 1] = stored]
  BY <1>8 DEF L!ReadPair, L!Appended
<1>17. /\ pair' = [n \in L!Node |-> pair'[n]]
       /\ \A n \in L!Node : n = 1 \/ n > k + 1 => pair'[n] = L!Empty
       /\ \A n \in 2..k + 1 : pair'[n] \in L!Stored(file[q[n]])
  <2>1. pair' = [n \in L!Node |-> IF n = k + 1 THEN stored ELSE pair[n]]
    BY <1>4, <1>8, <1>16
  <2>2. ASSUME NEW n \in L!Node, n = 1 \/ n > k + 1 PROVE pair'[n] = L!Empty
    <3>1. n # k + 1 /\ (n = 1 \/ n > k)
      BY <1>4, <2>2 DEF L!Node
    <3> QED BY <1>4, <2>1, <3>1
  <2>3. ASSUME NEW n \in 2..k + 1 PROVE pair'[n] \in L!Stored(file[q[n]])
    <3>1. CASE n = k + 1
      BY <3>1, <1>8, <1>10, <1>16, <2>1
    <3>2. CASE n \in 2..k
      <4>1. n \in L!Node /\ n # k + 1 /\ q[n] = pos[n]
        BY <3>2, <1>4, <1>10, MaxIsNat DEF L!Node
      <4> QED BY <3>2, <1>1, <2>1, <4>1 DEF IsListOf
    <3> QED BY <3>1, <3>2, <1>4
  <2> QED BY <2>1, <2>2, <2>3
<1>18. alive' = 1..k + 1
  BY <1>3, <1>4, <1>8
<1>19. fake' = k + 1 /\ k + 1 # L!NULL
  BY <1>3, <1>4, <1>8 DEF L!NULL
<1>20. IsListOf(k + 1, q)'
  <2>1. \A i \in 1..line' : file'[i] = L!Plain \/ \E j \in 2..k + 1 : q[j] = i
    BY <1>3, <1>14
  <2>2. \A i \in 2..k + 1 : i - 1 <= q[i] /\ q[i] <= line' /\ file'[q[i]] \in L!KeyTexts \X L!Values
    BY <1>3, <1>12
  <2>3. \A i, j \in 1..k + 1 : i < j => q[i] < q[j]
    BY <1>13
  <2>4. InfoHead' = 1 /\ answer' = L!None /\ k + 1 \in L!Node /\ q[1] = 0 /\ q \in [1..k + 1 -> Nat]
    BY <1>3, <1>4, <1>8, <1>10, <1>11
  <2>5. /\ pair' = [n \in L!Node |-> pair'[n]]
        /\ \A n \in L!Node : n = 1 \/ n > k + 1 => pair'[n] = L!Empty
        /\ \A n \in 2..k + 1 : pair'[n] \in L!Stored(file'[q[n]])
    BY <1>3, <1>17
  <2>6. /\ fake' \in {L!NULL, k + 1}
        /\ fake' = L!NULL => line' = Len(file') \/ file'[line' + 1] = L!TooLong
        /\ fake' # L!NULL => answer' = L!None
    BY <1>19, <2>4
  <2> QED BY <1>15, <1>18, <2>1, <2>2, <2>3, <2>4, <2>5, <2>6, Zenon DEF IsListOf
<1>21. Read'
  <2>1. \A i \in 1..line + 1 : file[i] # L!TooLong
    BY <1>2, <1>3
  <2> QED BY <1>2, <1>3, <2>1 DEF Read
<1> QED BY <1>3, <1>4, <1>20, <1>21 DEF IniInv, L!GetAnswersFile

\* A line without '=' changes nothing but the place in the file.
LEMMA IniInvPlain ==
  ASSUME IniInv, L!ReadPlain
  PROVE  IniInv'
<1>1. PICK k, pos : IsListOf(k, pos)
  BY DEF IniInv, NoList, L!ReadPlain, L!Reading
<1>2. /\ line < Len(file) /\ file[line + 1] = L!Plain /\ fake # L!NULL /\ line' = line + 1
      /\ file' = file /\ InfoHead' = InfoHead /\ fake' = fake /\ alive' = alive
      /\ next' = next /\ pair' = pair /\ asked' = asked /\ answer' = answer
  BY DEF L!ReadPlain, L!Reading
<1>3. /\ Len(file) \in Nat /\ line \in 0..Len(file) /\ \A i \in 1..line : file[i] # L!TooLong
      /\ file \in Seq(L!Line) /\ Len(file) <= MaxLines
  BY DEF IniInv, Read
<1>4. Read'
  <2>1. \A i \in 1..line + 1 : file[i] # L!TooLong
    BY <1>2, <1>3, Lines
  <2> QED BY <1>2, <1>3, <2>1 DEF Read
<1>5. IsListOf(k, pos)'
  <2>1. ASSUME NEW i \in 1..line + 1 PROVE file[i] = L!Plain \/ \E j \in 2..k : pos[j] = i
    BY <1>1, <1>2, <1>3 DEF IsListOf
  <2>2. k \in Nat /\ pos \in [1..k -> Nat]
    BY <1>1, MaxIsNat DEF IsListOf, L!Node
  <2>3. ASSUME NEW i \in 2..k PROVE i - 1 <= pos[i] /\ pos[i] <= line + 1 /\ file[pos[i]] \in L!KeyTexts \X L!Values
    <3>1. i - 1 <= pos[i] /\ pos[i] <= line /\ file[pos[i]] \in L!KeyTexts \X L!Values /\ pos[i] \in Nat
      BY <1>1, <2>2 DEF IsListOf
    <3> QED BY <1>3, <3>1
  <2>4. /\ k \in L!Node /\ InfoHead = 1 /\ alive = 1..k /\ fake \in {L!NULL, k}
        /\ next = [n \in L!Node |-> IF n < k THEN n + 1 ELSE L!NULL]
        /\ pair = [n \in L!Node |-> pair[n]]
        /\ \A n \in L!Node : n = 1 \/ n > k => pair[n] = L!Empty
        /\ \A n \in 2..k : pair[n] \in L!Stored(file[pos[n]])
        /\ pos \in [1..k -> Nat] /\ pos[1] = 0
        /\ \A i, j \in 1..k : i < j => pos[i] < pos[j]
        /\ answer = L!None
    BY <1>1, <1>2 DEF IsListOf
  <2> QED BY <1>2, <2>1, <2>3, <2>4, Zenon DEF IsListOf
<1>6. answer' = L!None
  BY <1>1, <1>2 DEF IsListOf
<1> QED BY <1>4, <1>5, <1>6 DEF IniInv, L!GetAnswersFile

\* The end of the file, or a line that is too long.
LEMMA IniInvEnds ==
  ASSUME IniInv, L!ReadEnds
  PROVE  IniInv'
<1>1. PICK k, pos : IsListOf(k, pos)
  BY DEF IniInv, NoList, L!ReadEnds, L!Reading
<1>2. /\ \A i \in DOMAIN file : i = line + 1 => file[i] = L!TooLong
      /\ fake # L!NULL /\ fake' = L!NULL /\ line' = line
      /\ file' = file /\ InfoHead' = InfoHead /\ alive' = alive
      /\ next' = next /\ pair' = pair /\ asked' = asked /\ answer' = answer
  BY DEF L!ReadEnds, L!Reading
<1>3. Read' /\ line' \in 0..Len(file') /\ Len(file') \in Nat /\ DOMAIN file = 1..Len(file)
  BY <1>2 DEF Read, IniInv
<1>4. line' = Len(file') \/ file'[line' + 1] = L!TooLong
  <2>1. CASE line = Len(file)
    BY <1>2, <2>1
  <2>2. CASE line # Len(file)
    <3>1. line + 1 \in 1..Len(file)
      <4>1. line \in 0..Len(file) /\ Len(file) \in Nat
        BY <1>2, <1>3
      <4> QED BY <2>2, <4>1
    <3>2. line + 1 \in DOMAIN file
      BY <1>3, <3>1
    <3> QED BY <1>2, <3>2
  <2> QED BY <2>1, <2>2
<1>5. IsListOf(k, pos)'
  BY <1>1, <1>2, <1>4, Zenon DEF IsListOf
<1>6. answer' = L!None
  BY <1>1, <1>2 DEF IsListOf
<1> QED BY <1>3, <1>5, <1>6 DEF IniInv, L!GetAnswersFile

\* Freeing the list leaves no node.
LEMMA IniInvDel ==
  ASSUME IniInv, L!DelIniInfoList
  PROVE  IniInv'
<1>1. PICK k, pos : IsListOf(k, pos)
  BY DEF IniInv, NoList, L!DelIniInfoList
<1>2. /\ fake' = L!NULL /\ alive' = alive \ L!Listed /\ InfoHead' = L!NULL /\ file' = <<>> /\ line' = 0
      /\ next' = [n \in L!Node |-> L!NULL] /\ pair' = [n \in L!Node |-> L!Empty] /\ answer' = L!None
  BY DEF L!DelIniInfoList, L!Idle
<1>3. alive' = {}
  <2>1. alive = 1..k
    BY <1>1 DEF IsListOf
  <2> QED BY <1>1, <1>2, <2>1, ListedIs
<1>4. Read'
  BY <1>2, MaxIsNat DEF Read
<1> QED BY <1>2, <1>3, <1>4 DEF IniInv, NoList, L!GetAnswersFile

\* Where the program ends, and where it does something else, the list stays.
LEMMA IniInvSame ==
  ASSUME IniInv, UNCHANGED <<file, line, InfoHead, fake, alive, next, pair, asked, answer>>
  PROVE  IniInv'
<1>1. /\ file' = file /\ line' = line /\ InfoHead' = InfoHead /\ fake' = fake /\ alive' = alive
      /\ next' = next /\ pair' = pair /\ asked' = asked /\ answer' = answer
  OBVIOUS
<1>2. Read' /\ L!GetAnswersFile'
  BY <1>1 DEF IniInv, Read, L!GetAnswersFile, L!ReadLines
<1>3. CASE NoList
  BY <1>1, <1>2, <1>3 DEF IniInv, NoList
<1>4. ASSUME NEW k, NEW pos, IsListOf(k, pos) PROVE IsListOf(k, pos)'
  BY <1>1, <1>4, Zenon DEF IsListOf
<1> QED BY <1>2, <1>3, <1>4 DEF IniInv

\* The list of an ini file is well formed in every state.
THEOREM IniInvariant == CodecsSpec => []IniInv
<1>1. CodecsInit => IniInv
  BY IniInvInit DEF CodecsInit
<1>2. IniInv /\ [CodecsNext]_<<part, len, resets, vars, orderVars, iniVars>> => IniInv'
  <2> SUFFICES ASSUME IniInv, [CodecsNext]_<<part, len, resets, vars, orderVars, iniVars>> PROVE IniInv'
    OBVIOUS
  <2>1. CASE UseIni
    <3>1. CASE \E key \in L!KeyTexts, n \in BufLens : L!GetIniInfo(key, n)
      BY <3>1, IniInvGet
    <3>2. CASE \/ L!ReadCrashes \/ \E key \in L!KeyTexts, n \in BufLens : L!GetCrashes(key, n)
      BY <3>2, IniInvSame DEF L!ReadCrashes, L!GetCrashes
    <3> QED BY <2>1, <3>1, <3>2, IniInvAnalysis, IniInvPair, IniInvPlain, IniInvEnds, IniInvDel DEF UseIni, L!Next
  <2>2. CASE UNCHANGED iniVars
    <3>1. /\ file' = file /\ line' = line /\ InfoHead' = InfoHead /\ fake' = fake /\ alive' = alive
          /\ next' = next /\ pair' = pair /\ asked' = asked /\ answer' = answer
      BY <2>2 DEF iniVars
    <3> QED BY <3>1, IniInvSame
  <2> QED BY <2>1, <2>2 DEF CodecsNext, Sweep, Hash, TakeOrders
<1> QED BY <1>1, <1>2, PTL DEF CodecsSpec

\* GetIniInfo answers with the first line of the file that has the key, for
\* files of any length, as far as neither that line nor the key of one in front
\* of it is a conversion for snprintf (MyCodes.cpp 152-200).
THEOREM AnswersFile == CodecsSpec => []GetAnswersFile
<1>1. IniInv => GetAnswersFile
  BY DEF IniInv, GetAnswersFile
<1> QED BY <1>1, IniInvariant, PTL

\* Every node can be reached from the caller's head, so that DelIniInfoList
\* frees them all (MyCodes.cpp 203-211).
THEOREM AllAlwaysListed == CodecsSpec => []AllListed
<1>1. ASSUME IniInv PROVE AllListed
  <2>1. CASE NoList
    <3>1. L!Walk = [i \in 1..MaxLines + 2 |-> L!NULL]
      <4>1. 0 \in 0..MaxLines + 1 /\ InfoHead = 0
        BY <2>1, MaxIsNat DEF NoList, L!NULL
      <4>2. next = [n \in L!Node |-> IF n < 0 THEN n + 1 ELSE L!NULL]
        BY <2>1 DEF NoList, L!Node
      <4>3. L!Walk = [i \in 1..MaxLines + 2 |-> IF i <= 0 THEN i ELSE L!NULL]
        BY <4>1, <4>2, WalkInOrder
      <4> QED BY <4>3, MaxIsNat
    <3> QED BY <2>1, <3>1 DEF NoList, AllListed, L!AllListed, L!Listed
  <2>2. ASSUME NEW k, NEW pos, IsListOf(k, pos) PROVE AllListed
    <3>1. alive = 1..k
      BY <2>2 DEF IsListOf
    <3> QED BY <2>2, <3>1, ListedIs DEF AllListed, L!AllListed
  <2> QED BY <1>1, <2>1, <2>2 DEF IniInv
<1>2. IniInv => AllListed
  BY <1>1
<1> QED BY <1>2, IniInvariant, PTL
-----------------------------------------------------------------------------
(* Orders *)

\* How many of K are not behind i.
Count(K, i) == Cardinality({j \in K : j <= i})

\* There are finitely many, none behind the last and none in front of the first.
LEMMA CountType ==
  ASSUME NEW n \in Nat, NEW K, K \subseteq 1..n, NEW i \in 0..n
  PROVE  /\ IsFiniteSet(K) /\ IsFiniteSet({j \in K : j <= i})
         /\ Count(K, i) \in Nat /\ Count(K, 0) = 0 /\ Count(K, n) = Cardinality(K)
         /\ Count(K, i) <= Cardinality(K) /\ Cardinality(K) \in Nat
<1>1. IsFiniteSet(K)
  <2>1. IsFiniteSet(1..n)
    BY FS_Interval
  <2> QED BY <2>1, FS_Subset
<1>2. IsFiniteSet({j \in K : j <= i}) /\ Cardinality({j \in K : j <= i}) <= Cardinality(K)
  <2>1. {j \in K : j <= i} \in SUBSET K
    OBVIOUS
  <2> QED BY <1>1, <2>1, FS_Subset
<1>3. {j \in K : j <= 0} = {} /\ {j \in K : j <= n} = K
  <2>1. ASSUME NEW l \in K PROVE ~(l <= 0) /\ l <= n
    <3>1. l \in 1..n
      OBVIOUS
    <3> QED BY <3>1
  <2> QED BY <2>1, Zenon
<1>4. Count(K, 0) = 0 /\ Count(K, n) = Cardinality(K)
  BY <1>3, FS_EmptySet DEF Count
<1>5. Count(K, i) \in Nat /\ Cardinality(K) \in Nat
  BY <1>1, <1>2, FS_CardinalityType DEF Count
<1> QED BY <1>1, <1>2, <1>4, <1>5 DEF Count

\* Over places not in K the count stays.
LEMMA CountSame ==
  ASSUME NEW n \in Nat, NEW K, K \subseteq 1..n, NEW i \in 0..n, NEW j \in 0..n, i <= j,
         \A l \in i + 1..j : l \notin K
  PROVE  Count(K, j) = Count(K, i)
<1>1. {l \in K : l <= j} = {l \in K : l <= i}
  <2>1. ASSUME NEW l \in K PROVE l <= j <=> l <= i
    <3>1. l \in 1..n /\ l \notin i + 1..j
      OBVIOUS
    <3> QED BY <3>1
  <2> QED BY <2>1, Zenon
<1> QED BY <1>1 DEF Count

\* The next one counts one more.
LEMMA CountNext ==
  ASSUME NEW n \in Nat, NEW K, K \subseteq 1..n, NEW i \in 0..n, NEW j \in K, i < j,
         \A l \in i + 1..j - 1 : l \notin K
  PROVE  Count(K, j) = Count(K, i) + 1
<1>1. {l \in K : l <= j} = {l \in K : l <= i} \cup {j}
  <2>1. ASSUME NEW l \in K PROVE l <= j <=> l <= i \/ l = j
    <3>1. l \in 1..n /\ j \in 1..n /\ l \notin i + 1..j - 1
      OBVIOUS
    <3> QED BY <3>1
  <2> QED BY <2>1, Zenon
<1>2. j \notin {l \in K : l <= i} /\ IsFiniteSet({l \in K : l <= i})
  <2>1. ~(j <= i)
    OBVIOUS
  <2> QED BY <2>1, CountType, Zenon
<1>3. Cardinality({l \in K : l <= i} \cup {j}) = Cardinality({l \in K : l <= i}) + 1
  BY <1>2, FS_AddElement
<1> QED BY <1>1, <1>3 DEF Count

\* Whatever else is between, one more counts.
LEMMA CountLess ==
  ASSUME NEW n \in Nat, NEW K, K \subseteq 1..n, NEW i \in 0..n, NEW j \in K, i < j
  PROVE  Count(K, i) < Count(K, j)
<1> DEFINE A == {l \in K : l <= i}
           C == {l \in K : l <= j}
<1>1. IsFiniteSet(A) /\ Count(K, i) \in Nat /\ IsFiniteSet(C) /\ Count(K, j) \in Nat
  <2>1. j \in 0..n
    OBVIOUS
  <2> QED BY <2>1, CountType
<1>2. A \cup {j} \in SUBSET C /\ j \notin A
  <2>1. j \in 1..n /\ \A l \in K : l \in 1..n
    OBVIOUS
  <2>2. j <= j /\ ~(j <= i) /\ \A l \in K : l <= i => l <= j
    BY <2>1
  <2> QED BY <2>2, Zenon
<1> HIDE DEF A, C
<1>3. Cardinality(A \cup {j}) = Cardinality(A) + 1
  BY <1>1, <1>2, FS_AddElement
<1>4. Cardinality(A \cup {j}) <= Cardinality(C)
  BY <1>1, <1>2, FS_Subset
<1> QED BY <1>1, <1>3, <1>4 DEF Count, A, C

\* Over places in K the count follows them.
LEMMA CountRun ==
  ASSUME NEW n \in Nat, NEW K, K \subseteq 1..n, NEW i \in 0..n, NEW j \in 0..n, i <= j,
         i + 1..j \subseteq K
  PROVE  Count(K, j) = Count(K, i) + (j - i)
<1>1. {l \in K : l <= j} = {l \in K : l <= i} \cup i + 1..j
  <2>1. ASSUME NEW l PROVE l \in K /\ l <= j <=> (l \in K /\ l <= i) \/ l \in i + 1..j
    <3>1. l \in K => l \in 1..n
      OBVIOUS
    <3>2. l \in i + 1..j => l \in K /\ l \in Nat
      OBVIOUS
    <3> QED BY <3>1, <3>2
  <2> QED BY <2>1, Zenon
<1>2. {l \in K : l <= i} \cap i + 1..j = {}
  OBVIOUS
<1>3. IsFiniteSet({l \in K : l <= i}) /\ Count(K, i) \in Nat
  BY CountType
<1>4. IsFiniteSet(i + 1..j) /\ Cardinality(i + 1..j) = j - i
  <2>1. i + 1 \in Int /\ j \in Int
    OBVIOUS
  <2>2. IsFiniteSet(i + 1..j) /\ Cardinality(i + 1..j) = IF i + 1 > j THEN 0 ELSE j - (i + 1) + 1
    BY <2>1, FS_Interval, Zenon
  <2> QED BY <2>2
<1>5. Cardinality({l \in K : l <= i} \cup i + 1..j) = Cardinality({l \in K : l <= i}) + Cardinality(i + 1..j) - Cardinality({})
  <2>1. Cardinality({l \in K : l <= i} \cup i + 1..j)
          = Cardinality({l \in K : l <= i}) + Cardinality(i + 1..j) - Cardinality({l \in K : l <= i} \cap i + 1..j)
    BY <1>3, <1>4, FS_Union, Zenon
  <2> QED BY <1>2, <2>1
<1>6. Cardinality({}) = 0
  BY FS_EmptySet
<1>7. Count(K, j) = Count(K, i) + Cardinality(i + 1..j) - Cardinality({})
  BY <1>1, <1>5 DEF Count
<1> QED BY <1>3, <1>4, <1>6, <1>7

\* What AddSign keeps: all that is no sign, and of signs in a row the last.
LEMMA KeptIs ==
  ASSUME NEW S, NEW t \in Seq(S), NEW n \in Nat, Len(t) = n, NEW i \in 1..n
  PROVE  i \in O!Kept(t) <=> i = n \/ t[i] # SignChar \/ t[i + 1] # SignChar
  BY DEF O!Kept

\* Squeezed has the character kept at i at the place that counts up to i.
LEMMA SqueezedIs ==
  ASSUME NEW S, NEW t \in Seq(S), NEW n \in Nat, Len(t) = n,
         NEW K, K = O!Kept(t)
  PROVE  /\ K \subseteq 1..n
         /\ O!Squeezed(t) \in Seq(S) /\ Len(O!Squeezed(t)) = Count(K, n)
         /\ \A i \in K : O!Squeezed(t)[Count(K, i)] = t[i] /\ Count(K, i) \in 1..Count(K, n)
<1>1. K \subseteq 1..n
  BY DEF O!Kept
<1>2. Count(K, n) = Cardinality(K) /\ Count(K, n) \in Nat
  <2>1. n \in 0..n
    OBVIOUS
  <2> QED BY <1>1, <2>1, CountType
<1> DEFINE at(k) == CHOOSE i \in K : Count(K, i) = k
<1>3. O!Squeezed(t) = [k \in 1..Count(K, n) |-> t[at(k)]]
  <2>1. O!Squeezed(t) = [k \in 1..Cardinality(K) |-> t[CHOOSE i \in K : Cardinality({j \in K : j <= i}) = k]]
    <3>1. O!Squeezed(t) = [k \in 1..Cardinality(O!Kept(t)) |->
                            t[CHOOSE i \in O!Kept(t) : Cardinality({j \in O!Kept(t) : j <= i}) = k]]
      BY Zenon DEF O!Squeezed, O!Cardinality, Cardinality
    <3> QED BY <3>1, Zenon
  <2> QED BY <1>2, <2>1 DEF Count
<1>4. ASSUME NEW i \in K PROVE Count(K, i) \in 1..Count(K, n) /\ at(Count(K, i)) = i
  <2>1. i \in 1..n /\ 0 \in 0..n /\ 0 < i /\ i \in 0..n
    BY <1>1
  <2>2. Count(K, 0) = 0 /\ Count(K, i) \in Nat /\ Count(K, i) <= Cardinality(K)
    BY <1>1, <2>1, CountType
  <2>3. Count(K, 0) < Count(K, i)
    BY <1>1, <2>1, CountLess
  <2>4. ASSUME NEW j \in K, j # i PROVE Count(K, j) # Count(K, i)
    <3>1. j \in 1..n /\ j \in 0..n
      BY <1>1
    <3>2. Count(K, j) \in Nat
      BY <1>1, <3>1, CountType
    <3>3. CASE j < i
      BY <1>1, <2>1, <2>2, <3>1, <3>2, <3>3, CountLess
    <3>4. CASE i < j
      BY <1>1, <2>1, <2>2, <3>1, <3>2, <3>4, CountLess
    <3> QED BY <2>1, <2>4, <3>1, <3>3, <3>4
  <2> QED BY <1>2, <2>2, <2>3, <2>4
<1>5. ASSUME NEW k \in 1..Count(K, n) PROVE \E i \in K : Count(K, i) = k
  <2> DEFINE P == {i \in 1..n : Count(K, i) >= k}
  <2>1. n \in P
    <3>1. n # 0
      BY <1>1, CountType
    <3> QED BY <3>1, <1>2
  <2>2. PICK i \in P : \A j \in P : i <= j
    <3>1. P \subseteq Nat /\ P # {}
      BY <2>1
    <3> HIDE DEF P
    <3> QED BY <3>1, Least
  <2>3. i \in 1..n /\ Count(K, i) >= k /\ i - 1 \in 0..n
    BY <2>2
  <2>4. Count(K, i - 1) < k /\ Count(K, i - 1) \in Nat /\ Count(K, i) \in Nat
    <3>1. Count(K, i - 1) \in Nat /\ Count(K, i) \in Nat /\ Count(K, 0) = 0
      <4>1. i \in 0..n
        BY <2>3
      <4> QED BY <1>1, <2>3, <4>1, CountType
    <3>2. i - 1 # 0 => i - 1 \in 1..n /\ i - 1 \notin P
      BY <2>2, <2>3
    <3>3. CASE i - 1 = 0
      BY <3>1, <3>3
    <3>4. CASE i - 1 # 0
      BY <3>1, <3>2, <3>4
    <3> QED BY <3>3, <3>4
  <2>5. i \in K
    <3> SUFFICES ASSUME i \notin K PROVE FALSE
      OBVIOUS
    <3>1. \A l \in i - 1 + 1..i : l \notin K
      BY <2>3
    <3>2. i - 1 <= i /\ i \in 0..n
      BY <2>3
    <3>3. Count(K, i) = Count(K, i - 1)
      BY <1>1, <2>3, <3>1, <3>2, CountSame
    <3> QED BY <2>3, <2>4, <3>3
  <2>6. Count(K, i) = Count(K, i - 1) + 1
    <3>1. i - 1 < i /\ \A l \in i - 1 + 1..i - 1 : l \notin K
      BY <2>3
    <3> QED BY <1>1, <2>3, <2>5, <3>1, CountNext
  <2> QED BY <2>3, <2>4, <2>5, <2>6
<1>6. ASSUME NEW k \in 1..Count(K, n) PROVE t[at(k)] \in S
  <2>1. at(k) \in K
    BY <1>5
  <2> QED BY <1>1, <2>1
<1>7. O!Squeezed(t) \in [1..Count(K, n) -> S]
  BY <1>3, <1>6
<1>8. O!Squeezed(t) \in Seq(S) /\ Len(O!Squeezed(t)) = Count(K, n)
  BY <1>2, <1>7
<1> HIDE DEF at
<1>9. \A i \in K : O!Squeezed(t)[Count(K, i)] = t[i]
  BY <1>3, <1>4
<1> QED BY <1>1, <1>4, <1>8, <1>9

\* The sign that AddSign puts in front, and the place in its text of what is
\* kept at i.
Front(t) == IF t = <<>> \/ t[1] # SignChar THEN 1 ELSE 0
Place(t, i) == Front(t) + Count(O!Kept(t), i)

\* A sign in AddSign's text: the one in front, or one that is kept.
IsMark(t, i) == (i = 0 /\ Front(t) = 1) \/ (i \in O!Kept(t) /\ t[i] = SignChar)

\* AddSign's text, a place at a time.
LEMMA SignedIs ==
  ASSUME NEW S, SignChar \in S, NEW t \in Seq(S), NEW n \in Nat, Len(t) = n
  PROVE  \E w \in Seq(S), m \in Nat \ {0} :
           /\ w = O!Signed(t) /\ Len(w) = m /\ w[m] = SignChar
           /\ \A i \in O!Kept(t) : w[Place(t, i)] = t[i] /\ Place(t, i) \in 1..m
           /\ IsMark(t, 0) => w[1] = SignChar /\ Place(t, 0) = 1
           /\ m = Place(t, n) + IF IsMark(t, n) THEN 0 ELSE 1
<1>1. PICK K : K = O!Kept(t)
  OBVIOUS
<1>2. PICK s : s = O!Squeezed(t)
  OBVIOUS
<1>3. PICK c : c = Count(K, n)
  OBVIOUS
<1>4. K \subseteq 1..n
  BY <1>1, SqueezedIs
<1>5. s \in Seq(S) /\ Len(s) = c
  BY <1>1, <1>2, <1>3, SqueezedIs
<1>6. \A i \in K : s[Count(K, i)] = t[i] /\ Count(K, i) \in 1..c
  BY <1>1, <1>2, <1>3, SqueezedIs
<1>7. c \in Nat /\ Count(K, 0) = 0
  <2>1. n \in 0..n
    OBVIOUS
  <2> QED BY <1>3, <1>4, <2>1, CountType
<1>8. PICK f \in {0, 1} : f = Front(t)
  BY DEF Front
<1>9. PICK all : all = (IF f = 1 THEN <<SignChar>> ELSE <<>>) \o s
  OBVIOUS
<1>10. all \in Seq(S) /\ Len(all) = f + c /\ (f = 1 => all[1] = SignChar) /\ \A k \in 1..c : all[f + k] = s[k]
  <2>1. CASE f = 1
    <3>1. all = <<SignChar>> \o s
      BY <1>9, <2>1
    <3>2. all \in Seq(S) /\ Len(all) = 1 + c /\ all[1] = SignChar
      BY <1>5, <1>7, <3>1
    <3>3. ASSUME NEW k \in 1..c PROVE all[1 + k] = s[k]
      BY <1>5, <1>7, <3>1
    <3> QED BY <2>1, <3>2, <3>3
  <2>2. CASE f = 0
    <3>1. all = <<>> \o s
      BY <1>9, <2>2
    <3>2. all = s
      BY <1>5, <3>1
    <3> QED BY <1>5, <1>7, <2>2, <3>2
  <2> QED BY <2>1, <2>2
<1>11. O!Signed(t) = IF all[Len(all)] = SignChar THEN all ELSE Append(all, SignChar)
  <2>1. all = (IF t = <<>> \/ t[1] # SignChar THEN <<SignChar>> ELSE <<>>) \o O!Squeezed(t)
    BY <1>2, <1>8, <1>9 DEF Front
  <2> QED BY <2>1, Zenon DEF O!Signed
<1>12. \A i \in K : Place(t, i) = f + Count(K, i) /\ all[Place(t, i)] = t[i] /\ Place(t, i) \in 1..f + c
  <2> SUFFICES ASSUME NEW i \in K
               PROVE  Place(t, i) = f + Count(K, i) /\ all[Place(t, i)] = t[i] /\ Place(t, i) \in 1..f + c
    OBVIOUS
  <2>1. PICK k \in 1..c : k = Count(K, i) /\ s[k] = t[i]
    BY <1>6
  <2>2. Place(t, i) = f + k
    BY <1>1, <1>8, <2>1 DEF Place
  <2> QED BY <1>7, <1>10, <2>1, <2>2
<1>13. Place(t, n) = f + c /\ Place(t, 0) = f
  BY <1>1, <1>3, <1>7, <1>8 DEF Place
<1>14. f + c > 0 /\ (all[f + c] = SignChar <=> IsMark(t, n))
  <2>1. CASE n = 0
    <3>1. t = <<>>
      BY <2>1
    <3>2. f = 1 /\ IsMark(t, n)
      BY <1>8, <2>1, <3>1 DEF Front, IsMark
    <3>3. c = 0
      BY <1>3, <1>7, <2>1
    <3> QED BY <1>10, <3>2, <3>3
  <2>2. CASE n # 0
    <3>1. n \in K
      BY <1>1, <2>2, KeptIs
    <3>2. all[f + c] = t[n] /\ f + c \in 1..f + c
      BY <1>12, <1>13, <3>1
    <3>3. IsMark(t, n) <=> t[n] = SignChar
      BY <1>1, <2>2, <3>1 DEF IsMark
    <3> QED BY <3>2, <3>3
  <2> QED BY <2>1, <2>2
<1>15. CASE IsMark(t, n)
  <2>1. all = O!Signed(t)
    BY <1>10, <1>11, <1>14, <1>15
  <2>2. f + c \in Nat \ {0} /\ all[f + c] = SignChar /\ f + c = Place(t, n) + 0
    BY <1>7, <1>13, <1>14, <1>15
  <2>3. IsMark(t, 0) => all[1] = SignChar /\ Place(t, 0) = 1
    BY <1>4, <1>1, <1>8, <1>10, <1>13 DEF IsMark
  <2> QED BY <1>1, <1>10, <1>12, <1>15, <2>1, <2>2, <2>3
<1>16. CASE ~IsMark(t, n)
  <2>1. PICK w : w = Append(all, SignChar)
    OBVIOUS
  <2>2. w = O!Signed(t)
    BY <1>10, <1>11, <1>14, <1>16, <2>1
  <2>3. w \in Seq(S) /\ Len(w) = f + c + 1 /\ w[f + c + 1] = SignChar /\ \A k \in 1..f + c : w[k] = all[k]
    BY <1>7, <1>10, <2>1
  <2>4. f + c + 1 \in Nat \ {0} /\ f + c + 1 = Place(t, n) + 1
    BY <1>7, <1>13
  <2>5. IsMark(t, 0) => w[1] = SignChar /\ Place(t, 0) = 1
    <3>1. f = 1 => 1 \in 1..f + c
      BY <1>7
    <3> QED BY <1>4, <1>1, <1>8, <1>10, <1>13, <2>3, <3>1 DEF IsMark
  <2>6. \A i \in O!Kept(t) : w[Place(t, i)] = t[i] /\ Place(t, i) \in 1..f + c + 1
    BY <1>1, <1>7, <1>12, <2>3
  <2> QED BY <1>16, <2>2, <2>3, <2>4, <2>5, <2>6
<1> QED BY <1>15, <1>16

\* Where the caller's pointer may be: at a sign in AddSign's text with c orders
\* of the text in front of it.
IsPointer(t, p, c) ==
  \/ \E i \in 0..Len(t) : IsMark(t, i) /\ p = Place(t, i) /\ c = Count(O!Starts(t), i)
  \/ p = Len(O!Signed(t)) /\ c = Cardinality(O!Starts(t))

\* The order of d characters that begins at i, the c-th of t, is at p + 1 in
\* AddSign's text, between two signs.
IsNextOrder(t, p, c, d, i) ==
  LET w == O!Signed(t)
  IN  /\ i \in O!Starts(t) /\ c + 1 = Count(O!Starts(t), i)
      /\ p + d + 1 \in 1..Len(w) /\ w[p + d + 1] = SignChar
      /\ \A q \in 1..d : w[p + q] # SignChar /\ i + q - 1 \in DOMAIN t /\ w[p + q] = t[i + q - 1]
      /\ i + d \in DOMAIN t => t[i + d] = SignChar
      /\ IsPointer(t, p + d + 1, c + 1)

\* Where orders begin.
LEMMA StartsIs ==
  ASSUME NEW S, NEW t \in Seq(S), NEW n \in Nat, Len(t) = n
  PROVE  /\ O!Starts(t) \subseteq 1..n
         /\ \A i \in 1..n : i \in O!Starts(t) <=> t[i] # SignChar /\ (i = 1 \/ t[i - 1] = SignChar)
  BY DEF O!Starts

\* The first place is a pointer with nothing in front.
LEMMA PointerStarts ==
  ASSUME NEW S, SignChar \in S, NEW t \in Seq(S)
  PROVE  IsPointer(t, 1, 0)
<1>1. PICK n \in Nat : n = Len(t)
  OBVIOUS
<1>2. PICK K : K = O!Kept(t)
  OBVIOUS
<1>3. PICK T : T = O!Starts(t)
  OBVIOUS
<1>4. K \subseteq 1..n
  BY <1>1, <1>2, SqueezedIs
<1>5. T \subseteq 1..n /\ \A i \in 1..n : t[i] = SignChar => i \notin T
  BY <1>1, <1>3, StartsIs
<1>6. Count(K, 0) = 0 /\ Count(T, 0) = 0
  <2>1. 0 \in 0..n
    OBVIOUS
  <2> QED BY <1>4, <1>5, <2>1, CountType
<1>7. CASE Front(t) = 1
  <2>1. IsMark(t, 0) /\ 1 = Place(t, 0) /\ 0 = Count(O!Starts(t), 0)
    BY <1>2, <1>3, <1>6, <1>7 DEF IsMark, Place
  <2> QED BY <1>1, <2>1 DEF IsPointer
<1>8. CASE Front(t) # 1
  <2>1. n # 0 /\ t[1] = SignChar /\ Front(t) = 0
    BY <1>1, <1>8 DEF Front
  <2>2. n \in K
    BY <1>1, <1>2, <2>1, KeptIs
  <2>3. PICK i \in K : \A j \in K : i <= j
    <3>1. K \subseteq Nat /\ K # {}
      BY <1>4, <2>2
    <3> QED BY <3>1, Least
  <2>4. \A j \in 1..i - 1 : j \notin K
    BY <1>4, <2>3
  <2>5. \A j \in 1..i : t[j] = SignChar
    <3>1. ASSUME NEW j \in 1..i - 1 PROVE t[j] = SignChar /\ t[j + 1] = SignChar
      <4>1. j \in 1..n /\ j \notin K
        BY <1>4, <2>4
      <4> QED BY <1>1, <1>2, <4>1, KeptIs
    <3>2. ASSUME NEW j \in 1..i, j # 1 PROVE t[j] = SignChar
      <4>1. PICK l \in 1..i - 1 : j = l + 1
        BY <1>4, <3>2
      <4> QED BY <3>1, <4>1
    <3> QED BY <2>1, <3>2
  <2>6. i \in 1..n /\ i \in 0..n
    BY <1>4
  <2>7. Count(K, i) = Count(K, 0) + 1
    <3>1. 0 \in 0..n /\ 0 < i /\ \A l \in 0 + 1..i - 1 : l \notin K
      BY <2>4, <2>6
    <3> QED BY <1>4, <3>1, CountNext
  <2>8. Count(T, i) = Count(T, 0)
    <3>1. 0 \in 0..n /\ 0 <= i /\ \A l \in 0 + 1..i : l \notin T
      BY <1>5, <2>5, <2>6
    <3> QED BY <1>5, <2>6, <3>1, CountSame
  <2>9. IsMark(t, i)
    BY <1>2, <2>5, <2>6 DEF IsMark
  <2>10. 1 = Place(t, i) /\ 0 = Count(O!Starts(t), i)
    BY <1>2, <1>3, <1>6, <2>1, <2>7, <2>8 DEF Place
  <2> QED BY <1>1, <2>6, <2>9, <2>10 DEF IsPointer
<1> QED BY <1>7, <1>8

\* Behind every pointer is an order of the text, or its end.
LEMMA PointerMoves ==
  ASSUME NEW S, SignChar \in S, NEW t \in Seq(S), NEW p, NEW c, IsPointer(t, p, c)
  PROVE  /\ p \in 1..Len(O!Signed(t)) /\ O!Signed(t)[p] = SignChar /\ c \in Nat
         /\ \/ p = Len(O!Signed(t)) /\ c = Cardinality(O!Starts(t))
            \/ \E d \in Nat \ {0}, i \in Nat : IsNextOrder(t, p, c, d, i)
<1>1. PICK n \in Nat : n = Len(t)
  OBVIOUS
<1>2. PICK K : K = O!Kept(t)
  OBVIOUS
<1>3. PICK T : T = O!Starts(t)
  OBVIOUS
<1>4. PICK w \in Seq(S), m \in Nat \ {0} :
        /\ w = O!Signed(t) /\ Len(w) = m /\ w[m] = SignChar
        /\ \A i \in O!Kept(t) : w[Place(t, i)] = t[i] /\ Place(t, i) \in 1..m
        /\ IsMark(t, 0) => w[1] = SignChar /\ Place(t, 0) = 1
        /\ m = Place(t, n) + IF IsMark(t, n) THEN 0 ELSE 1
  BY <1>1, SignedIs
<1>5. K \subseteq 1..n
  BY <1>1, <1>2, SqueezedIs
<1>6. T \subseteq 1..n /\ \A i \in 1..n : i \in T <=> t[i] # SignChar /\ (i = 1 \/ t[i - 1] = SignChar)
  BY <1>1, <1>3, StartsIs
<1>7. T \subseteq 1..n
  BY <1>6
<1>8. Count(T, n) = Cardinality(T) /\ Cardinality(T) \in Nat /\ \A i \in 0..n : Count(T, i) \in Nat /\ Count(K, i) \in Nat
  <2>1. n \in 0..n
    OBVIOUS
  <2> QED BY <1>5, <1>6, <2>1, CountType
<1>9. CASE p = Len(O!Signed(t)) /\ c = Cardinality(O!Starts(t))
  <2>1. p = m /\ m \in 1..m /\ c \in Nat
    BY <1>3, <1>4, <1>8, <1>9
  <2> QED BY <1>4, <1>9, <2>1
<1>10. ASSUME NEW i \in 0..n, IsMark(t, i), p = Place(t, i), c = Count(T, i)
      PROVE  /\ p \in 1..m /\ w[p] = SignChar /\ c \in Nat
             /\ \/ p = m /\ c = Cardinality(T)
                \/ \E d \in Nat \ {0}, j \in Nat : IsNextOrder(t, p, c, d, j)
  <2>1. p \in 1..m /\ w[p] = SignChar /\ c \in Nat
    <3>1. c \in Nat
      BY <1>8, <1>10
    <3>2. CASE i = 0
      BY <1>4, <1>10, <3>1, <3>2
    <3>3. CASE i # 0
      <4>1. i \in O!Kept(t) /\ t[i] = SignChar
        BY <1>10, <3>3 DEF IsMark
      <4> QED BY <1>4, <1>10, <3>1, <4>1
    <3> QED BY <3>2, <3>3
  <2>2. CASE i = n
    <3>1. p = m /\ c = Cardinality(T)
      BY <1>4, <1>8, <1>10, <2>1, <2>2
    <3> QED BY <2>1, <3>1
  <2>3. CASE i # n
    <3>1. i + 1 \in 1..n /\ t[i + 1] # SignChar
      <4>1. CASE i = 0
        BY <1>1, <1>2, <1>5, <1>10, <2>3, <4>1 DEF IsMark, Front
      <4>2. CASE i # 0
        <5>1. i \in K /\ t[i] = SignChar /\ i \in 1..n
          BY <1>2, <1>10, <4>2 DEF IsMark
        <5> QED BY <1>1, <1>2, <2>3, <5>1, KeptIs
      <4> QED BY <4>1, <4>2
    <3>2. i + 1 \in T
      <4>1. i # 0 => t[i] = SignChar
        BY <1>2, <1>10 DEF IsMark
      <4>2. i + 1 = 1 \/ (i + 1 - 1 = i /\ i # 0)
        OBVIOUS
      <4> QED BY <1>6, <3>1, <4>1, <4>2
    <3>3. Count(T, i + 1) = c + 1
      <4>1. PICK j \in T : j = i + 1
        BY <3>2
      <4>2. i < j /\ \A l \in i + 1..j - 1 : l \notin T
        BY <4>1
      <4>3. Count(T, j) = Count(T, i) + 1
        BY <1>7, <4>2, CountNext
      <4> QED BY <1>10, <4>1, <4>3
    <3>4. PICK e \in 1..n : /\ i + 1 <= e /\ \A l \in i + 1..e : t[l] # SignChar
                            /\ e # n => t[e + 1] = SignChar
      <4> DEFINE Q == {l \in i + 1..n : l = n \/ t[l + 1] = SignChar}
      <4>1. Q \subseteq Nat /\ n \in Q
        BY <3>1
      <4> HIDE DEF Q
      <4>2. PICK e \in Q : \A l \in Q : e <= l
        BY <4>1, Least
      <4>3. e \in i + 1..n /\ (e = n \/ t[e + 1] = SignChar)
        BY DEF Q
      <4>4. ASSUME NEW l \in i + 1..e PROVE t[l] # SignChar
        <5>1. CASE l = i + 1
          BY <3>1, <5>1
        <5>2. CASE l # i + 1
          <6>1. l - 1 \in i + 1..n /\ ~(e <= l - 1) /\ l - 1 # n /\ l - 1 + 1 = l
            BY <4>3, <5>2
          <6>2. l - 1 \notin Q
            BY <4>2, <6>1
          <6> QED BY <6>1, <6>2 DEF Q
        <5> QED BY <5>1, <5>2
      <4> QED BY <4>3, <4>4
    <3>5. PICK d \in Nat \ {0} : d = e - i
      BY <3>4
    <3>6. i + 1..e \subseteq K
      <4> SUFFICES ASSUME NEW l \in i + 1..e PROVE l \in K
        OBVIOUS
      <4>1. l \in 1..n /\ t[l] # SignChar
        BY <3>4
      <4> QED BY <1>1, <1>2, <4>1, KeptIs
    <3>7. ASSUME NEW q \in 1..d PROVE Place(t, i + q) = p + q /\ i + q \in i + 1..e
      <4>1. i + q \in 0..n /\ i <= i + q /\ i + q \in i + 1..e /\ i + 1..i + q \subseteq i + 1..e
        BY <3>4, <3>5
      <4>2. i + 1..i + q \subseteq K
        BY <3>6, <4>1
      <4>3. Count(K, i + q) = Count(K, i) + (i + q - i)
        <5>1. PICK r \in 0..n : r = i + q
          BY <4>1
        <5>2. i <= r /\ i + 1..r \subseteq K
          BY <4>1, <4>2, <5>1
        <5>3. Count(K, r) = Count(K, i) + (r - i)
          BY <1>5, <5>2, CountRun
        <5> QED BY <5>1, <5>3
      <4>4. Front(t) \in Nat
        BY DEF Front
      <4>5. Count(K, i) \in Nat
        BY <1>8
      <4>6. Place(t, i + q) = Front(t) + Count(K, i + q) /\ p = Front(t) + Count(K, i)
        BY <1>2, <1>10 DEF Place
      <4> QED BY <4>1, <4>3, <4>4, <4>5, <4>6
    <3>8. ASSUME NEW q \in 1..d
          PROVE  w[p + q] # SignChar /\ i + 1 + q - 1 \in DOMAIN t /\ w[p + q] = t[i + 1 + q - 1]
      <4>1. i + 1 + q - 1 = i + q /\ i + q \in 1..n
        BY <3>4, <3>7
      <4>2. w[p + q] = t[i + q]
        BY <1>2, <1>4, <3>6, <3>7
      <4> QED BY <1>1, <3>4, <3>7, <4>1, <4>2
    <3>9. Place(t, e) = p + d /\ i + d = e
      <4>1. d \in 1..d /\ i + d = e
        BY <3>4, <3>5
      <4> QED BY <3>7, <4>1
    <3>10. \A l \in e + 1 - 1 + 1..e : l \notin T
      BY <3>4
    <3>11. Count(T, e) = c + 1
      <4>1. i + 1 \in 0..n /\ e \in 0..n /\ \A l \in i + 1 + 1..e : t[l - 1] # SignChar /\ l # 1 /\ l \in 1..n
        <5>1. \A l \in i + 1 + 1..e : l - 1 \in i + 1..e
          BY <3>4
        <5> QED BY <3>1, <3>4, <5>1
      <4>2. \A l \in i + 1 + 1..e : l \notin T
        BY <1>6, <4>1
      <4>3. Count(T, e) = Count(T, i + 1)
        <5>1. PICK k \in 0..n : k = i + 1
          BY <4>1
        <5>2. k <= e /\ \A l \in k + 1..e : l \notin T
          BY <3>4, <4>2, <5>1
        <5>3. n \in Nat /\ T \subseteq 1..n
          BY <1>7
        <5>4. Count(T, e) = Count(T, k)
          BY <4>1, <5>2, <5>3, CountSame
        <5> QED BY <5>1, <5>4
      <4> QED BY <3>3, <4>3
    <3>12. CASE e = n
      <4>1. ~IsMark(t, n)
        <5>1. n # 0 /\ t[n] # SignChar
          BY <3>1, <3>4, <3>12
        <5> QED BY <5>1 DEF IsMark
      <4>2. p + d + 1 = m
        BY <1>4, <3>9, <3>12, <4>1
      <4>3. IsPointer(t, p + d + 1, c + 1)
        BY <1>3, <1>4, <1>8, <3>11, <3>12, <4>2 DEF IsPointer
      <4>4. i + 1 + d \notin DOMAIN t
        BY <1>1, <3>9, <3>12
      <4>5. p + d + 1 \in 1..m /\ w[p + d + 1] = SignChar
        BY <1>4, <4>2
      <4>6. IsNextOrder(t, p, c, d, i + 1)
        BY <1>3, <1>4, <3>2, <3>3, <3>8, <4>3, <4>4, <4>5 DEF IsNextOrder
      <4> QED BY <2>1, <4>6
    <3>13. CASE e # n
      <4>1. e + 1 \in 1..n /\ t[e + 1] = SignChar
        BY <3>4, <3>13
      <4>2. PICK j \in K : j >= e + 1 /\ \A l \in e + 1..j - 1 : l \notin K
        <5> DEFINE Q == {l \in K : l >= e + 1}
        <5>1. n \in Q /\ Q \subseteq Nat
          <6>1. n \in K
            BY <1>1, <1>2, <4>1, KeptIs
          <6>2. \A l \in K : l \in Nat
            BY <1>5
          <6>3. n >= e + 1
            BY <4>1
          <6> QED BY <6>1, <6>2, <6>3
        <5> HIDE DEF Q
        <5>2. PICK j \in Q : \A l \in Q : j <= l
          BY <5>1, Least
        <5>3. ASSUME NEW l \in e + 1..j - 1 PROVE l \notin K
          <6>1. ~(j <= l) /\ l >= e + 1
            BY <5>1
          <6>2. l \notin Q
            BY <5>2, <6>1
          <6> QED BY <6>1, <6>2 DEF Q
        <5> QED BY <5>2, <5>3 DEF Q
      <4>3. j \in 1..n /\ e < j
        BY <1>5, <4>2
      <4>4. \A l \in e + 1..j : t[l] = SignChar
        <5>1. ASSUME NEW l \in e + 1..j - 1 PROVE t[l] = SignChar /\ t[l + 1] = SignChar
          <6>1. l \in 1..n /\ l \notin K
            BY <4>1, <4>2, <4>3
          <6> QED BY <1>1, <1>2, <6>1, KeptIs
        <5>2. ASSUME NEW l \in e + 1..j, l # e + 1 PROVE t[l] = SignChar
          <6>1. PICK r \in e + 1..j - 1 : l = r + 1
            BY <4>3, <5>2
          <6> QED BY <5>1, <6>1
        <5> QED BY <4>1, <5>2
      <4>5. Count(K, j) = Count(K, e) + 1
        <5>1. e \in 0..n
          BY <3>4
        <5> QED BY <1>5, <4>2, <4>3, <5>1, CountNext, Zenon
      <4>6. Count(T, j) = Count(T, e)
        <5>1. e <= j /\ e \in 0..n /\ j \in 0..n /\ \A l \in e + 1..j : l \in 1..n
          BY <3>4, <4>3
        <5>2. \A l \in e + 1..j : l \notin T
          BY <1>6, <4>4, <5>1
        <5> QED BY <1>7, <5>1, <5>2, CountSame, Zenon
      <4>7. IsMark(t, j)
        BY <1>2, <4>2, <4>3, <4>4 DEF IsMark
      <4>8. Place(t, j) = p + d + 1
        <5>1. Place(t, j) = Front(t) + (Count(K, e) + 1) /\ Place(t, e) = Front(t) + Count(K, e)
          BY <1>2, <4>5 DEF Place
        <5>2. Front(t) \in Nat /\ Count(K, e) \in Nat
          BY <1>8, <3>4 DEF Front
        <5> QED BY <3>9, <5>1, <5>2
      <4>9. IsPointer(t, p + d + 1, c + 1)
        <5>1. j \in 0..Len(t) /\ c + 1 = Count(O!Starts(t), j)
          BY <1>1, <1>3, <3>11, <4>3, <4>6
        <5> QED BY <4>7, <4>8, <5>1 DEF IsPointer
      <4>10. p + d + 1 \in 1..m /\ w[p + d + 1] = SignChar
        <5>1. t[j] = SignChar
          BY <4>3, <4>4
        <5> QED BY <1>2, <1>4, <4>2, <4>8, <5>1
      <4>11. i + 1 + d \in DOMAIN t => t[i + 1 + d] = SignChar
        <5>1. i + 1 + d = e + 1
          BY <3>9
        <5> QED BY <4>1, <5>1
      <4>12. IsNextOrder(t, p, c, d, i + 1)
        BY <1>3, <1>4, <3>2, <3>3, <3>8, <4>9, <4>10, <4>11 DEF IsNextOrder
      <4> QED BY <2>1, <4>12
    <3> QED BY <3>12, <3>13
  <2> QED BY <2>2, <2>3
<1>11. CASE \E i \in 0..n : IsMark(t, i) /\ p = Place(t, i) /\ c = Count(T, i)
  BY <1>3, <1>4, <1>10, <1>11
<1> QED BY <1>1, <1>3, <1>9, <1>11 DEF IsPointer

\* strstr finds the sign at b.
LEMMA NextSignIs ==
  ASSUME NEW S, NEW s \in Seq(S), NEW a \in Nat \ {0}, NEW b \in a..Len(s), s[b] = SignChar,
         \A i \in a..b - 1 : s[i] # SignChar
  PROVE  O!NextSign(s, a) = b
<1> DEFINE signs == {i \in a..Len(s) : s[i] = SignChar}
<1>1. b \in signs
  OBVIOUS
<1>2. \A j \in signs : b <= j
  OBVIOUS
<1>3. \A i \in signs : (\A j \in signs : i <= j) => i = b
  BY <1>1, <1>2
<1>4. O!NextSign(s, a) = IF signs = {} THEN 0 ELSE CHOOSE i \in signs : \A j \in signs : i <= j
  BY DEF O!NextSign
<1> HIDE DEF signs
<1> QED BY <1>1, <1>2, <1>3, <1>4

\* What a text of orders is made of.
Alphabet == Chars \cup {SignChar}

\* What was handed over are the first orders of the text, in order.
HandedOver ==
  \A k \in DOMAIN orders : \E i \in O!Starts(orderBuff) :
    Count(O!Starts(orderBuff), i) = k /\ O!IsOrderAt(orders[k], orderBuff, i)

\* Inductive: the caller's pointer is at a sign behind as many orders as it was
\* handed over.
OrdersInv ==
  /\ orderBuff \in Seq(Alphabet) /\ orders \in Seq(Seq(Alphabet)) /\ step \in {"text", "orders", "end"}
  /\ step = "text" => orders = <<>>
  /\ step = "orders" => \E p : /\ IsPointer(orderBuff, p, Len(orders))
                               /\ buf = SubSeq(O!Signed(orderBuff), p, Len(O!Signed(orderBuff)))
  /\ Len(orders) <= Cardinality(O!Starts(orderBuff))
  /\ step = "end" => Len(orders) = Cardinality(O!Starts(orderBuff))
  /\ HandedOver

\* The orders of a text are finitely many.
LEMMA StartsCount ==
  ASSUME NEW S, NEW t \in Seq(S)
  PROVE  /\ Cardinality(O!Starts(t)) \in Nat
         /\ \A i \in O!Starts(t) : Count(O!Starts(t), i) \in Nat /\ Count(O!Starts(t), i) <= Cardinality(O!Starts(t))
<1>1. PICK n \in Nat : n = Len(t)
  OBVIOUS
<1>2. PICK T : T = O!Starts(t)
  OBVIOUS
<1>3. T \subseteq 1..n
  BY <1>1, <1>2, StartsIs
<1>4. n \in 0..n
  OBVIOUS
<1>5. Cardinality(T) \in Nat
  BY <1>3, <1>4, CountType
<1>6. ASSUME NEW i \in T PROVE Count(T, i) \in Nat /\ Count(T, i) <= Cardinality(T)
  <2>1. i \in 0..n
    BY <1>3
  <2> QED BY <1>3, <2>1, CountType
<1> QED BY <1>2, <1>5, <1>6

\* Nothing is handed over at first.
LEMMA OrdersInvInit == O!Init => OrdersInv
<1> SUFFICES ASSUME O!Init PROVE OrdersInv
  OBVIOUS
<1>1. orderBuff = <<>> /\ orders = <<>> /\ step = "text"
  BY DEF O!Init
<1>2. orderBuff \in Seq(Alphabet) /\ orders \in Seq(Seq(Alphabet))
  BY <1>1
<1>3. Cardinality(O!Starts(orderBuff)) \in Nat
  BY <1>2, StartsCount
<1>4. HandedOver
  BY <1>1 DEF HandedOver
<1> QED BY <1>1, <1>2, <1>3, <1>4 DEF OrdersInv

\* While the text is written nothing is handed over.
LEMMA OrdersInvWritten ==
  ASSUME OrdersInv, NEW ch \in Chars \cup {SignChar}, O!Written(ch)
  PROVE  OrdersInv'
<1>1. /\ step = "text" /\ orders = <<>> /\ orders' = <<>> /\ step' = "text"
      /\ orderBuff' = Append(orderBuff, ch) /\ orderBuff \in Seq(Alphabet)
  BY DEF OrdersInv, O!Written
<1>2. orderBuff' \in Seq(Alphabet) /\ orders' \in Seq(Seq(Alphabet))
  <2>1. ch \in Alphabet
    BY DEF Alphabet
  <2> QED BY <1>1, <2>1
<1>3. Cardinality(O!Starts(orderBuff')) \in Nat
  BY <1>2, StartsCount
<1>4. HandedOver'
  BY <1>1 DEF HandedOver
<1>5. Cardinality(O!Starts(orderBuff)') \in Nat
  BY <1>3
<1> QED BY <1>1, <1>2, <1>4, <1>5 DEF OrdersInv

\* AddSign puts the pointer in front of all orders.
LEMMA OrdersInvAddSign ==
  ASSUME OrdersInv, O!AddSign
  PROVE  OrdersInv'
<1>1. /\ step = "text" /\ orders = <<>> /\ orders' = orders /\ step' = "orders" /\ orderBuff' = orderBuff
      /\ buf' = O!Signed(orderBuff) /\ orderBuff \in Seq(Alphabet)
  BY DEF OrdersInv, O!AddSign
<1>2. IsPointer(orderBuff, 1, 0)
  BY <1>1, PointerStarts DEF Alphabet
<1>3. PICK w \in Seq(Alphabet) : w = O!Signed(orderBuff)
  <2>1. SignChar \in Alphabet
    BY DEF Alphabet
  <2>2. PICK n \in Nat : n = Len(orderBuff)
    BY <1>1
  <2> QED BY <1>1, <2>1, <2>2, SignedIs
<1>4. w = SubSeq(w, 1, Len(w))
  OBVIOUS
<1>5. IsPointer(orderBuff, 1, 0)' /\ buf' = SubSeq(O!Signed(orderBuff), 1, Len(O!Signed(orderBuff)))'
  BY <1>1, <1>2, <1>3, <1>4
<1>6. Len(orders') = 0 /\ orders' \in Seq(Seq(Alphabet))
  BY <1>1
<1>7. HandedOver'
  BY <1>1 DEF HandedOver
<1>8. O!Starts(orderBuff)' = O!Starts(orderBuff)
  BY <1>1
<1> QED BY <1>1, <1>5, <1>6, <1>7, <1>8 DEF OrdersInv

\* getNextOrder hands over the next order, or there is none.
LEMMA OrdersInvGet ==
  ASSUME OrdersInv, O!GetNextOrder
  PROVE  OrdersInv'
<1>1. SignChar \in Alphabet
  BY DEF Alphabet
<1>2. PICK t \in Seq(Alphabet) : t = orderBuff /\ orderBuff' = t
  BY DEF OrdersInv, O!GetNextOrder
<1>3. PICK p : /\ IsPointer(t, p, Len(orders))
               /\ buf = SubSeq(O!Signed(t), p, Len(O!Signed(t)))
  BY <1>2 DEF OrdersInv, O!GetNextOrder
<1>4. PICK c \in Nat : c = Len(orders)
  BY DEF OrdersInv
<1>5. PICK w \in Seq(Alphabet), m \in Nat \ {0} : w = O!Signed(t) /\ Len(w) = m
  <2>1. PICK n \in Nat : n = Len(t)
    OBVIOUS
  <2> QED BY <1>1, <2>1, SignedIs
<1>6. p \in 1..m /\ w[p] = SignChar
  BY <1>1, <1>3, <1>5, PointerMoves
<1>7. PICK b \in Seq(Alphabet) :
        /\ b = buf /\ Len(b) = m - p + 1 /\ \A q \in 1..m - p + 1 : b[q] = w[p + q - 1]
  <2>1. buf = SubSeq(w, p, m)
    BY <1>3, <1>5
  <2>2. \A q \in p..m : w[q] \in Alphabet
    BY <1>5, <1>6
  <2>3. SubSeq(w, p, m) \in Seq(Alphabet) /\ Len(SubSeq(w, p, m)) = m - p + 1
    BY <1>5, <1>6, <2>2
  <2>4. \A q \in 1..m - p + 1 : SubSeq(w, p, m)[q] = w[p + q - 1]
    BY <1>5, <1>6
  <2> QED BY <2>1, <2>3, <2>4
<1>8. O!NextSign(b, 1) = 1
  <2>1. 1 \in 1..Len(b) /\ b[1] = SignChar /\ 1 \in Nat \ {0} /\ \A i \in 1..1 - 1 : b[i] # SignChar
    BY <1>6, <1>7
  <2> QED BY <2>1, NextSignIs, Zenon
<1>9. CASE p = m /\ c = Cardinality(O!Starts(t))
  <2>1. Len(b) = 1
    BY <1>5, <1>7, <1>9
  <2>2. step' = "end" /\ orders' = orders /\ buf' = buf
    BY <1>7, <1>8, <2>1 DEF O!GetNextOrder
  <2>3. HandedOver' /\ orders \in Seq(Seq(Alphabet)) /\ O!Starts(orderBuff)' = O!Starts(t)
    BY <1>2, <2>2 DEF OrdersInv, HandedOver
  <2>4. c <= c
    OBVIOUS
  <2> QED BY <1>2, <1>4, <1>9, <2>2, <2>3, <2>4 DEF OrdersInv
<1>10. ASSUME NEW d \in Nat \ {0}, NEW i \in Nat, IsNextOrder(t, p, c, d, i)
       PROVE  OrdersInv'
  <2>1. /\ i \in O!Starts(t) /\ c + 1 = Count(O!Starts(t), i)
        /\ p + d + 1 \in 1..m /\ w[p + d + 1] = SignChar
        /\ \A q \in 1..d : w[p + q] # SignChar /\ i + q - 1 \in DOMAIN t /\ w[p + q] = t[i + q - 1]
        /\ i + d \in DOMAIN t => t[i + d] = SignChar
        /\ IsPointer(t, p + d + 1, c + 1)
    BY <1>5, <1>10 DEF IsNextOrder
  <2>2. d + 2 \in 2..Len(b) /\ b[d + 2] = SignChar
    <3>1. d + 2 \in 1..m - p + 1 /\ p + (d + 2) - 1 = p + d + 1
      <4>1. p \in Nat /\ m \in Nat /\ d \in Nat
        BY <1>5, <1>6
      <4>2. p + d + 1 <= m
        BY <2>1, <4>1
      <4> QED BY <4>1, <4>2
    <3> QED BY <1>7, <2>1, <3>1
  <2>3. ASSUME NEW q \in 1..d PROVE b[q + 1] = w[p + q] /\ b[q + 1] # SignChar
    <3>1. q + 1 \in 1..m - p + 1 /\ p + (q + 1) - 1 = p + q
      BY <1>5, <1>6, <2>1
    <3> QED BY <1>7, <2>1, <3>1
  <2>4. O!NextSign(b, 1 + 1) = d + 2
    <3>1. \A q \in 2..d + 2 - 1 : b[q] # SignChar
      <4> SUFFICES ASSUME NEW q \in 2..d + 2 - 1 PROVE b[q] # SignChar
        OBVIOUS
      <4>1. PICK r \in 1..d : r + 1 = q
        OBVIOUS
      <4> QED BY <2>3, <4>1
    <3>2. 2 \in Nat \ {0} /\ 1 + 1 = 2
      OBVIOUS
    <3> QED BY <2>2, <3>1, <3>2, NextSignIs
  <2>5. PICK s : s = SubSeq(b, 2, d + 1)
    OBVIOUS
  <2>6. s \in Seq(Alphabet) /\ Len(s) = d /\ \A q \in 1..d : s[q] = b[q + 1]
    <3>1. 1..d + 1 \subseteq 1..Len(b) /\ d + 1 - 2 + 1 = d
      BY <2>2
    <3>2. \A q \in 2..d + 1 : b[q] \in Alphabet
      BY <2>2, <3>1
    <3>3. Len(s) = d /\ \A q \in 1..d : s[q] = b[q + 1]
      BY <2>2, <2>5, <3>1
    <3>4. s \in Seq(Alphabet)
      BY <2>2, <2>5, <3>1, <3>2
    <3> QED BY <3>3, <3>4
  <2>7. step' = step /\ orders' = Append(orders, s) /\ buf' = SubSeq(b, d + 2, Len(b))
    <3>1. Len(b) # 1 /\ d + 2 # 0 /\ 1 # 0 /\ d + 2 - 1 = d + 1 /\ d + 2 - 1 + 1 = d + 2
      BY <2>2
    <3>2. orders' = Append(orders, SubSeq(b, 1 + 1, d + 2 - 1)) /\ buf' = SubSeq(b, d + 2 - 1 + 1, Len(b)) /\ step' = step
      <4>1. PICK head : head = O!NextSign(buf, 1)
        OBVIOUS
      <4>2. PICK last : last = O!NextSign(buf, head + 1)
        OBVIOUS
      <4>3. IF head = 0 \/ head = Len(buf) \/ last = 0
            THEN step' = "end" /\ UNCHANGED <<buf, orders>>
            ELSE /\ orders' = Append(orders, SubSeq(buf, head + 1, last - 1))
                 /\ buf' = SubSeq(buf, last - head + 1, Len(buf))
                 /\ UNCHANGED step
        BY <4>1, <4>2, Zenon DEF O!GetNextOrder
      <4>4. head = 1 /\ last = d + 2
        <5>1. head = 1
          BY <1>7, <1>8, <4>1
        <5> QED BY <1>7, <2>4, <4>2, <5>1
      <4>5. ~(head = 0 \/ head = Len(buf) \/ last = 0)
        BY <1>7, <3>1, <4>4
      <4>6. /\ orders' = Append(orders, SubSeq(buf, head + 1, last - 1))
            /\ buf' = SubSeq(buf, last - head + 1, Len(buf))
            /\ step' = step
        BY <4>3, <4>5, Zenon
      <4> QED BY <1>7, <4>4, <4>6
    <3> QED BY <2>5, <3>1, <3>2
  <2>8. SubSeq(b, d + 2, Len(b)) = SubSeq(w, p + d + 1, m)
    <3>1. PICK u : u = SubSeq(b, d + 2, Len(b))
      OBVIOUS
    <3>2. PICK v : v = SubSeq(w, p + d + 1, m)
      OBVIOUS
    <3>3. PICK r \in Nat : r = m - (p + d + 1) + 1
      BY <1>5, <1>6, <2>1
    <3>4. u \in Seq(Alphabet) /\ Len(u) = r /\ \A q \in 1..r : u[q] = b[d + 1 + q]
      <4>1. Len(b) = m - p + 1
        BY <1>7
      <4>2. d + 2 \in 1..Len(b) /\ Len(b) - (d + 2) + 1 = r
        BY <1>6, <2>2, <3>3, <4>1
      <4>3. PICK l \in Nat : l = Len(b)
        BY <4>2
      <4>4. u = SubSeq(b, d + 2, l) /\ d + 2 \in 1..l /\ r = l - (d + 2) + 1
        BY <3>1, <4>2, <4>3
      <4>5. u \in Seq(Alphabet) /\ Len(u) = r
        BY <4>3, <4>4
      <4>6. ASSUME NEW q \in 1..r PROVE u[q] = b[d + 1 + q]
        BY <4>3, <4>4
      <4> QED BY <4>5, <4>6
    <3>5. v \in Seq(Alphabet) /\ Len(v) = r /\ \A q \in 1..r : v[q] = w[p + d + q]
      BY <1>5, <1>6, <2>1, <3>2, <3>3
    <3>6. ASSUME NEW q \in 1..r PROVE u[q] = v[q]
      <4>1. d + 1 + q \in 1..m - p + 1 /\ p + (d + 1 + q) - 1 = p + d + q
        BY <1>5, <1>6, <2>1, <3>3
      <4> QED BY <1>7, <3>4, <3>5, <4>1
    <3>7. u = v
      BY <3>3, <3>4, <3>5, <3>6
    <3> QED BY <3>1, <3>2, <3>7
  <2>9. orders \in Seq(Seq(Alphabet)) /\ step = "orders"
    BY DEF OrdersInv, O!GetNextOrder
  <2>10. /\ orders' \in Seq(Seq(Alphabet)) /\ Len(orders') = c + 1 /\ orders'[c + 1] = s
         /\ \A k \in 1..c : orders'[k] = orders[k]
    BY <1>4, <2>6, <2>7, <2>9
  <2>11. IsPointer(orderBuff, p + d + 1, Len(orders))'
    BY <1>2, <2>1, <2>10
  <2>12. buf' = SubSeq(O!Signed(orderBuff), p + d + 1, Len(O!Signed(orderBuff)))'
    BY <1>2, <1>5, <2>7, <2>8
  <2>13. c + 1 <= Cardinality(O!Starts(t)) /\ O!Starts(orderBuff)' = O!Starts(t)
    BY <1>2, <2>1, StartsCount
  <2>14. O!IsOrderAt(s, t, i)
    <3>1. DOMAIN s = 1..d
      BY <2>6
    <3>2. ASSUME NEW k \in 1..d PROVE s[k] # SignChar /\ i + k - 1 \in DOMAIN t /\ s[k] = t[i + k - 1]
      BY <2>1, <2>3, <2>6
    <3> QED BY <2>1, <2>6, <3>1, <3>2 DEF O!IsOrderAt
  <2>15. HandedOver'
    <3>1. DOMAIN orders' = 1..c + 1 /\ DOMAIN orders = 1..c
      BY <1>4, <2>9, <2>10
    <3>2. ASSUME NEW k \in 1..c + 1
          PROVE  \E l \in O!Starts(t) : Count(O!Starts(t), l) = k /\ O!IsOrderAt(orders'[k], t, l)
      <4>1. CASE k = c + 1
        BY <2>1, <2>10, <2>14, <4>1
      <4>2. CASE k \in 1..c
        BY <1>2, <2>10, <3>1, <4>2 DEF OrdersInv, HandedOver
      <4> QED BY <1>4, <4>1, <4>2
    <3> QED BY <1>2, <3>1, <3>2 DEF HandedOver
  <2>16. \E r : /\ IsPointer(orderBuff, r, Len(orders))'
                /\ buf' = SubSeq(O!Signed(orderBuff), r, Len(O!Signed(orderBuff)))'
    BY <2>11, <2>12
  <2> QED BY <1>2, <2>7, <2>9, <2>10, <2>13, <2>15, <2>16 DEF OrdersInv
<1> QED BY <1>1, <1>3, <1>4, <1>5, <1>9, <1>10, PointerMoves

\* However a text of orders is written, and however long.
THEOREM OrdersInvariant == CodecsSpec => []OrdersInv
<1>1. CodecsInit => OrdersInv
  BY OrdersInvInit DEF CodecsInit
<1>2. OrdersInv /\ [CodecsNext]_<<part, len, resets, vars, orderVars, iniVars>> => OrdersInv'
  <2> SUFFICES ASSUME OrdersInv, [CodecsNext]_<<part, len, resets, vars, orderVars, iniVars>> PROVE OrdersInv'
    OBVIOUS
  <2>1. CASE TakeOrders
    BY <2>1, OrdersInvWritten, OrdersInvAddSign, OrdersInvGet DEF TakeOrders, O!Next
  <2>2. CASE UNCHANGED orderVars
    <3>1. orderBuff' = orderBuff /\ buf' = buf /\ orders' = orders /\ step' = step
      BY <2>2 DEF orderVars
    <3> QED BY <3>1 DEF OrdersInv, HandedOver
  <2> QED BY <2>1, <2>2 DEF CodecsNext, Sweep, Hash, UseIni
<1> QED BY <1>1, <1>2, PTL DEF CodecsSpec

\* getNextOrder hands over the orders of the text, each once and in order, and
\* all of them before the first NULL (MyCodes.cpp 213-250).
THEOREM OrdersAlwaysWhole == CodecsSpec => []OrdersWhole
<1>1. ASSUME NEW K PROVE O!Cardinality(K) = Cardinality(K)
  BY DEF O!Cardinality, Cardinality
<1>2. OrdersInv => OrdersWhole
  <2> SUFFICES ASSUME OrdersInv PROVE OrdersWhole
    OBVIOUS
  <2>1. HandedOver /\ Len(orders) <= Cardinality(O!Starts(orderBuff))
        /\ (step = "end" => Len(orders) = Cardinality(O!Starts(orderBuff)))
    BY DEF OrdersInv
  <2>2. \A k \in DOMAIN orders : \E i \in O!Starts(orderBuff) :
          O!Cardinality({j \in O!Starts(orderBuff) : j <= i}) = k /\ O!IsOrderAt(orders[k], orderBuff, i)
    BY <1>1, <2>1 DEF HandedOver, Count
  <2> QED BY <1>1, <2>1, <2>2 DEF OrdersWhole, O!OrdersWhole
<1> QED BY <1>2, OrdersInvariant, PTL
=============================================================================
