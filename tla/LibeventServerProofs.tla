------------------------- MODULE LibeventServerProofs -------------------------
(***************************************************************************)
(* LibeventServer for any number of clients, descriptors and requests:     *)
(* descriptors are never overdrawn, and echoes come out of the output      *)
(* buffer once and in order.                                               *)
(***************************************************************************)
EXTENDS LibeventServer, FiniteSetTheorems, SequenceTheorems, TLAPS

Tags == {"accept", "null", "error", "garbled", "echo", "cut"}

\* The requests a sequence of answers names grow.
Increasing(s) ==
  \A i, j \in DOMAIN s : i < j /\ s[i].of # 0 /\ s[j].of # 0 => s[i].of < s[j].of

\* What is in the output names later requests than what has left it, and both
\* lie in the part of the stream that has been read.
Queued ==
  \A c \in Clients :
    /\ rcv[c] <= 3 * Len(req[c])
    /\ Increasing(ans[c]) /\ Increasing(out[c])
    /\ \A i \in DOMAIN ans[c] : 3 * ans[c][i].of - 1 <= rcv[c]
    /\ \A j \in DOMAIN out[c] : 3 * out[c][j].of - 1 <= rcv[c]
    /\ \A i \in DOMAIN ans[c], j \in DOMAIN out[c] :
         ans[c][i].of # 0 /\ out[c][j].of # 0 => ans[c][i].of < out[c][j].of

\* No request is echoed twice, and echoes reach the client in the order of its
\* requests.
EchoesInOrder == \A c \in Clients : Increasing(ans[c])

IInv == TypeOK /\ Queued

-----------------------------------------------------------------------------
(* socket_read_cb *)

\* What part of a request may get: it is not the last piece that is accepted or
\* echoed, and more than the first.
LEMMA PacketTagsShape ==
  ASSUME NEW r \in {Hello} \cup Frame, NEW first \in 1..3, NEW last \in 1..3, first <= last,
         NEW t \in PacketTags(r, first, last)
  PROVE  t \in Tags /\ (t \in {"accept", "echo", "cut"} => first < 3 /\ last > 1)
<1>1. r.kind \in {"hello", "frame"}
  BY DEF Hello, Frame
<1>2. CASE r.kind = "hello"
  <2>1. t \in HelloTags(first, last)
    BY <1>2 DEF PacketTags
  <2> QED
    BY <2>1 DEF HelloTags, Tags
<1>3. CASE r.kind = "frame" /\ first > 1
  BY <1>3 DEF PacketTags, Tags
<1>4. CASE r.kind = "frame" /\ first = 1 /\ last < 3
  BY <1>4 DEF PacketTags, Tags
<1>5. CASE r.kind = "frame" /\ first = 1 /\ last = 3
  <2>1. EchoTag(r.n) \in {"echo", "cut"}
    BY DEF EchoTag
  <2> QED
    BY <1>5, <2>1 DEF PacketTags, Tags
<1> QED
  BY <1>1, <1>2, <1>3, <1>4, <1>5

\* An answer to a request names the one the packet begins in, with a piece before
\* its last one in the packet.
LEMMA AnswersShape ==
  ASSUME TypeOK, NEW c \in Clients, NEW from \in Nat, NEW to \in Nat,
         from > 0, from <= to, to <= 3 * Len(req[c]),
         NEW a \in Answers(c, from, to)
  PROVE  /\ a \in Answer
         /\ a.of # 0 => from <= 3 * a.of - 1 /\ 3 * a.of - 1 <= to
<1> DEFINE i    == ReqOf(from)
           last == IF to < LastOf(i) THEN to ELSE LastOf(i)
           f    == from - FirstOf(i) + 1
           l    == last - FirstOf(i) + 1
<1>1. i \in Nat /\ i > 0 /\ FirstOf(i) <= from /\ from <= LastOf(i)
  BY DEF ReqOf, FirstOf, LastOf
<1>2. i \in 1..Len(req[c])
  <2>1. Len(req[c]) \in Nat
    BY DEF TypeOK
  <2> HIDE DEF i
  <2>2. 3 * i - 2 <= 3 * Len(req[c])
    BY <1>1, <2>1 DEF FirstOf
  <2> QED
    BY <1>1, <2>1, <2>2
<1>3. req[c][i] \in {Hello} \cup Frame
  BY <1>2 DEF TypeOK
<1>4. /\ f \in 1..3 /\ l \in 1..3 /\ f <= l
      /\ f < 3 => from <= LastOf(i) - 1
      /\ l > 1 => LastOf(i) - 1 <= to
  BY <1>1 DEF FirstOf, LastOf
<1>5. PICK t \in PacketTags(req[c][i], f, l) :
        a = [tag |-> t, of |-> IF t \in {"accept", "echo", "cut"} THEN i ELSE 0]
  BY DEF Answers
<1> HIDE DEF f, l
<1>6. t \in Tags /\ (t \in {"accept", "echo", "cut"} => f < 3 /\ l > 1)
  BY <1>3, <1>4, <1>5, PacketTagsShape
<1> HIDE DEF i
<1>7. a \in Answer
  BY <1>1, <1>5, <1>6 DEF Answer, Tags
<1>8. a.of # 0 => a.of = i /\ from <= LastOf(i) - 1 /\ LastOf(i) - 1 <= to
  BY <1>4, <1>5, <1>6
<1> QED
  BY <1>1, <1>7, <1>8 DEF LastOf

\* The answers of a typed state name requests by their numbers.
LEMMA AnswersTyped ==
  ASSUME TypeOK, NEW c \in Clients
  PROVE  /\ ans[c] \in Seq(Answer) /\ out[c] \in Seq(Answer)
         /\ rcv[c] \in Nat /\ req[c] \in Seq({Hello} \cup Frame) /\ Len(req[c]) \in Nat
         /\ \A i \in DOMAIN ans[c] : ans[c][i].of \in Nat
         /\ \A i \in DOMAIN out[c] : out[c][i].of \in Nat
<1>1. ans[c] \in Seq(Answer) /\ out[c] \in Seq(Answer)
  BY DEF TypeOK
<1>2. \A i \in DOMAIN ans[c] : ans[c][i] \in Answer
  BY <1>1
<1>3. \A i \in DOMAIN out[c] : out[c][i] \in Answer
  BY <1>1
<1> QED
  BY <1>1, <1>2, <1>3 DEF Answer, TypeOK

-----------------------------------------------------------------------------
(* The invariant, action by action *)

LEMMA InitInv ==
  ASSUME Init
  PROVE  IInv
<1>1. IsFiniteSet(bev) /\ Cardinality(bev) <= MaxFds
  BY FS_EmptySet, LibeventConstants DEF Init
<1>2. TypeOK
  BY <1>1 DEF Init, TypeOK
<1>3. Queued
  BY DEF Init, Queued, Increasing
<1> QED
  BY <1>2, <1>3 DEF IInv

\* A descriptor is taken only while there is one.
LEMMA AcceptInv ==
  ASSUME IInv, NEW c \in Clients, Accept(c) \/ AcceptAborted(c)
  PROVE  IInv'
<1>1. IsFiniteSet(bev \cup {c})
      /\ Cardinality(bev \cup {c}) = (IF c \in bev THEN Cardinality(bev) ELSE Cardinality(bev) + 1)
  BY FS_AddElement DEF IInv, TypeOK
<1>2. Cardinality(bev) \in Nat
  BY FS_CardinalityType DEF IInv, TypeOK
<1>3. TypeOK'
  <2>1. CASE Accept(c)
    BY <1>1, <1>2, <2>1, LibeventConstants DEF Accept, IInv, TypeOK, cltVars
  <2>2. CASE AcceptAborted(c)
    BY <2>2 DEF AcceptAborted, IInv, TypeOK, cltVars
  <2> QED
    BY <2>1, <2>2
<1>4. Queued'
  BY DEF Accept, AcceptAborted, IInv, Queued, cltVars
<1> QED
  BY <1>3, <1>4 DEF IInv

\* The new answer names a request behind all that was read before.
LEMMA ReadInv ==
  ASSUME IInv, NEW c \in Clients, Read(c)
  PROVE  IInv'
<1>1. PICK to \in rcv[c] + 1 .. 3 * Len(req[c]) : \E a \in Answers(c, rcv[c] + 1, to) :
        rcv' = [rcv EXCEPT ![c] = to] /\ out' = [out EXCEPT ![c] = Append(@, a)]
  BY DEF Read
<1>2. PICK a \in Answers(c, rcv[c] + 1, to) :
        rcv' = [rcv EXCEPT ![c] = to] /\ out' = [out EXCEPT ![c] = Append(@, a)]
  BY <1>1
<1>3. /\ rcv[c] \in Nat /\ Len(req[c]) \in Nat /\ out[c] \in Seq(Answer) /\ ans[c] \in Seq(Answer)
      /\ \A i \in DOMAIN ans[c] : ans[c][i].of \in Nat
      /\ \A i \in DOMAIN out[c] : out[c][i].of \in Nat
  BY AnswersTyped DEF IInv
<1>4. to \in Nat /\ rcv[c] < to /\ to <= 3 * Len(req[c])
  BY <1>3
<1>5. a \in Answer /\ (a.of # 0 => rcv[c] < 3 * a.of - 1 /\ 3 * a.of - 1 <= to)
  <2>1. a \in Answer /\ (a.of # 0 => rcv[c] + 1 <= 3 * a.of - 1 /\ 3 * a.of - 1 <= to)
    BY <1>3, <1>4, AnswersShape DEF IInv
  <2>2. a.of \in Nat
    BY <2>1 DEF Answer
  <2> QED
    BY <1>3, <2>1, <2>2
<1>6. a.of \in Nat
  BY <1>5 DEF Answer
<1>9. PICK n \in Nat, r \in Nat : n = a.of /\ r = rcv[c]
  BY <1>3, <1>6
<1>10. (n # 0 => r < 3 * n - 1 /\ 3 * n - 1 <= to) /\ r < to
  BY <1>4, <1>5, <1>9
<1>11. 3 * n - 1 <= to
  BY <1>4, <1>10
<1>7. TypeOK'
  BY <1>2, <1>3, <1>4, <1>5 DEF Read, IInv, TypeOK, cltVars
<1>8. Queued'
  <2> SUFFICES ASSUME NEW d \in Clients
               PROVE  Queued!(d)'
    BY DEF Queued
  <2>1. CASE d # c
    BY <1>2, <2>1 DEF Read, IInv, TypeOK, Queued, Increasing, cltVars
  <2>2. CASE d = c
    <3>1. out'[c] = Append(out[c], a) /\ rcv'[c] = to /\ ans'[c] = ans[c] /\ req'[c] = req[c]
      BY <1>2 DEF Read, IInv, TypeOK, cltVars
    <3>2. /\ Len(out'[c]) = Len(out[c]) + 1 /\ out'[c][Len(out[c]) + 1] = a
          /\ DOMAIN out'[c] = 1..Len(out[c]) + 1
          /\ \A j \in DOMAIN out[c] : out'[c][j] = out[c][j]
      BY <1>3, <1>5, <3>1
    <3>3. DOMAIN out[c] = 1..Len(out[c]) /\ Len(out[c]) \in Nat
      BY <1>3
    <3>4. \A j \in DOMAIN out'[c] : j \in DOMAIN out[c] \/ j = Len(out[c]) + 1
      BY <3>2, <3>3
    <3>5. /\ \A i \in DOMAIN ans[c] : 3 * ans[c][i].of - 1 <= rcv[c]
          /\ \A j \in DOMAIN out[c] : 3 * out[c][j].of - 1 <= rcv[c]
          /\ Increasing(ans[c]) /\ Increasing(out[c])
          /\ \A i \in DOMAIN ans[c], j \in DOMAIN out[c] :
               ans[c][i].of # 0 /\ out[c][j].of # 0 => ans[c][i].of < out[c][j].of
      BY DEF IInv, Queued
    <3>6. \A j \in DOMAIN out'[c] : 3 * out'[c][j].of - 1 <= to
      <4> SUFFICES ASSUME NEW j \in DOMAIN out'[c]
                   PROVE  3 * out'[c][j].of - 1 <= to
        OBVIOUS
      <4>1. CASE j \in DOMAIN out[c]
        <5>1. PICK v \in Nat : v = out[c][j].of
          BY <1>3, <4>1
        <5>2. 3 * v - 1 <= r
          BY <1>9, <3>5, <4>1, <5>1
        <5>3. 3 * v - 1 <= to
          BY <1>4, <1>10, <5>2
        <5>4. out'[c][j].of = v
          BY <3>2, <4>1, <5>1
        <5> QED
          BY <5>3, <5>4
      <4>2. CASE j = Len(out[c]) + 1
        <5>1. out'[c][j] = a
          BY <3>2, <4>2
        <5> QED
          BY <1>9, <1>11, <5>1
      <4> QED
        BY <3>4, <4>1, <4>2
    <3>7. \A i \in DOMAIN ans[c] : 3 * ans[c][i].of - 1 <= to
      BY <1>3, <1>4, <3>5
    <3>8. \A i \in DOMAIN ans[c], j \in DOMAIN out'[c] :
            ans[c][i].of # 0 /\ out'[c][j].of # 0 => ans[c][i].of < out'[c][j].of
      <4> SUFFICES ASSUME NEW i \in DOMAIN ans[c], NEW j \in DOMAIN out'[c],
                          ans[c][i].of # 0, out'[c][j].of # 0
                   PROVE  ans[c][i].of < out'[c][j].of
        OBVIOUS
      <4>1. CASE j \in DOMAIN out[c]
        <5>1. out'[c][j] = out[c][j]
          BY <3>2, <4>1
        <5> QED
          BY <3>5, <4>1, <5>1
      <4>2. CASE j = Len(out[c]) + 1
        <5>1. out'[c][j] = a
          BY <3>2, <4>2
        <5>2. PICK p \in Nat : p = ans[c][i].of
          BY <1>3
        <5>3. 3 * p - 1 <= r /\ n # 0
          BY <1>9, <3>5, <4>2, <5>1, <5>2
        <5>4. p < n
          BY <1>10, <5>3
        <5> QED
          BY <1>9, <5>1, <5>2, <5>4
      <4> QED
        BY <3>4, <4>1, <4>2
    <3>9. Increasing(out'[c])
      <4> SUFFICES ASSUME NEW i \in DOMAIN out'[c], NEW j \in DOMAIN out'[c], i < j,
                          out'[c][i].of # 0, out'[c][j].of # 0
                   PROVE  out'[c][i].of < out'[c][j].of
        BY DEF Increasing
      <4>1. i \in DOMAIN out[c]
        BY <3>2, <3>3
      <4>2. CASE j \in DOMAIN out[c]
        BY <3>2, <3>5, <4>1, <4>2 DEF Increasing
      <4>3. CASE j = Len(out[c]) + 1
        <5>1. out'[c][j] = a /\ out'[c][i] = out[c][i]
          BY <3>2, <4>1, <4>3
        <5>2. PICK p \in Nat : p = out[c][i].of
          BY <1>3, <4>1
        <5>3. 3 * p - 1 <= r /\ n # 0
          BY <1>9, <3>5, <4>1, <4>3, <5>1, <5>2
        <5>4. p < n
          BY <1>10, <5>3
        <5> QED
          BY <1>9, <5>1, <5>2, <5>4
      <4> QED
        BY <3>4, <4>2, <4>3
    <3> QED
      BY <1>4, <2>2, <3>1, <3>5, <3>6, <3>7, <3>8, <3>9
  <2> QED
    BY <2>1, <2>2
<1> QED
  BY <1>7, <1>8 DEF IInv

\* An answer that leaves the output is the oldest of it; none comes back.
LEMMA FlushInv ==
  ASSUME IInv, NEW c \in Clients, Flush(c)
  PROVE  IInv'
<1>1. /\ rcv[c] \in Nat /\ Len(req[c]) \in Nat /\ out[c] \in Seq(Answer) /\ ans[c] \in Seq(Answer)
      /\ \A i \in DOMAIN ans[c] : ans[c][i].of \in Nat
      /\ \A i \in DOMAIN out[c] : out[c][i].of \in Nat
  BY AnswersTyped DEF IInv
<1>2. /\ out[c] # <<>> /\ out' = [out EXCEPT ![c] = Tail(@)]
      /\ ans' \in {ans, [ans EXCEPT ![c] = Append(@, Head(out[c]))]}
      /\ bev' = bev /\ backlog' = backlog /\ peer' = peer /\ req' = req /\ rcv' = rcv
  BY DEF Flush, cltVars
<1>3. Len(out[c]) \in Nat \ {0} /\ DOMAIN out[c] = 1..Len(out[c])
  BY <1>1, <1>2
<1>4. Head(out[c]) = out[c][1] /\ out[c][1] \in Answer
  BY <1>1, <1>3
<1>5. /\ Tail(out[c]) \in Seq(Answer) /\ DOMAIN Tail(out[c]) = 1..Len(out[c]) - 1
      /\ \A j \in 1..Len(out[c]) - 1 : Tail(out[c])[j] = out[c][j + 1]
  BY <1>1, <1>2, <1>3
<1>6. TypeOK'
  <2>1. ans' \in [Clients -> Seq(Answer)] /\ out' \in [Clients -> Seq(Answer)]
    <3>1. Append(ans[c], Head(out[c])) \in Seq(Answer)
      BY <1>1, <1>4
    <3>2. ans' \in [Clients -> Seq(Answer)]
      BY <1>2, <3>1 DEF IInv, TypeOK
    <3>3. out' \in [Clients -> Seq(Answer)]
      BY <1>2, <1>5 DEF IInv, TypeOK
    <3> QED
      BY <3>2, <3>3
  <2>2. up' \in BOOLEAN /\ late' \in [Clients -> BOOLEAN]
    BY DEF Flush, IInv, TypeOK
  <2> QED
    BY <1>2, <2>1, <2>2 DEF IInv, TypeOK
<1>7. Queued'
  <2> SUFFICES ASSUME NEW d \in Clients
               PROVE  Queued!(d)'
    BY DEF Queued
  <2>1. CASE d # c
    <3>1. out'[d] = out[d] /\ ans'[d] = ans[d]
      BY <1>2, <2>1 DEF IInv, TypeOK
    <3> QED
      BY <1>2, <3>1 DEF IInv, Queued
  <2>2. CASE d = c
    <3>1. out'[c] = Tail(out[c]) /\ (ans'[c] = ans[c] \/ ans'[c] = Append(ans[c], out[c][1]))
      BY <1>2, <1>4 DEF IInv, TypeOK
    <3>2. /\ \A i \in DOMAIN ans[c] : 3 * ans[c][i].of - 1 <= rcv[c]
          /\ \A j \in DOMAIN out[c] : 3 * out[c][j].of - 1 <= rcv[c]
          /\ Increasing(ans[c]) /\ Increasing(out[c]) /\ rcv[c] <= 3 * Len(req[c])
          /\ \A i \in DOMAIN ans[c], j \in DOMAIN out[c] :
               ans[c][i].of # 0 /\ out[c][j].of # 0 => ans[c][i].of < out[c][j].of
      BY DEF IInv, Queued
    <3>3. \A j \in DOMAIN out'[c] : j + 1 \in DOMAIN out[c] /\ out'[c][j] = out[c][j + 1]
      BY <1>3, <1>5, <3>1
    <3>4. /\ Increasing(out'[c])
          /\ \A j \in DOMAIN out'[c] : 3 * out'[c][j].of - 1 <= rcv[c]
      <4>1. DOMAIN out'[c] \subseteq Nat
        BY <1>3, <1>5, <3>1
      <4> QED
        BY <3>2, <3>3, <4>1 DEF Increasing
    <3>5. CASE ans'[c] = ans[c]
      BY <1>2, <2>2, <3>2, <3>3, <3>4, <3>5
    <3>6. CASE ans'[c] = Append(ans[c], out[c][1])
      <4>1. /\ DOMAIN ans'[c] = 1..Len(ans[c]) + 1 /\ DOMAIN ans[c] = 1..Len(ans[c])
            /\ Len(ans[c]) \in Nat /\ ans'[c][Len(ans[c]) + 1] = out[c][1]
            /\ \A i \in DOMAIN ans[c] : ans'[c][i] = ans[c][i]
        BY <1>1, <1>4, <3>6
      <4>2. \A i \in DOMAIN ans'[c] : i \in DOMAIN ans[c] \/ i = Len(ans[c]) + 1
        BY <4>1
      <4>3. 1 \in DOMAIN out[c]
        BY <1>3
      <4>4. \A i \in DOMAIN ans'[c] : 3 * ans'[c][i].of - 1 <= rcv[c]
        BY <3>2, <4>1, <4>2, <4>3
      <4>5. Increasing(ans'[c])
        <5> SUFFICES ASSUME NEW i \in DOMAIN ans'[c], NEW j \in DOMAIN ans'[c], i < j,
                            ans'[c][i].of # 0, ans'[c][j].of # 0
                     PROVE  ans'[c][i].of < ans'[c][j].of
          BY DEF Increasing
        <5>1. i \in DOMAIN ans[c]
          BY <4>1
        <5>2. CASE j \in DOMAIN ans[c]
          BY <3>2, <4>1, <5>1, <5>2 DEF Increasing
        <5>3. CASE j = Len(ans[c]) + 1
          BY <3>2, <4>1, <4>3, <5>1, <5>3
        <5> QED
          BY <4>2, <5>2, <5>3
      <4>6. \A i \in DOMAIN ans'[c], j \in DOMAIN out'[c] :
              ans'[c][i].of # 0 /\ out'[c][j].of # 0 => ans'[c][i].of < out'[c][j].of
        <5> SUFFICES ASSUME NEW i \in DOMAIN ans'[c], NEW j \in DOMAIN out'[c],
                            ans'[c][i].of # 0, out'[c][j].of # 0
                     PROVE  ans'[c][i].of < out'[c][j].of
          OBVIOUS
        <5>1. j + 1 \in DOMAIN out[c] /\ out'[c][j] = out[c][j + 1] /\ 1 < j + 1
          BY <1>3, <1>5, <3>1, <3>3
        <5>2. CASE i \in DOMAIN ans[c]
          BY <3>2, <4>1, <5>1, <5>2
        <5>3. CASE i = Len(ans[c]) + 1
          BY <3>2, <4>1, <4>3, <5>1, <5>3 DEF Increasing
        <5> QED
          BY <4>2, <5>2, <5>3
      <4> QED
        BY <1>2, <2>2, <3>2, <3>4, <4>4, <4>5, <4>6
    <3> QED
      BY <3>1, <3>5, <3>6
  <2> QED
    BY <2>1, <2>2
<1> QED
  BY <1>6, <1>7 DEF IInv

\* A freed bufferevent gives its descriptor and its output back.
LEMMA FreeInv ==
  ASSUME IInv, NEW c \in Clients, Free(c)
  PROVE  IInv'
<1>1. IsFiniteSet(bev \ {c})
      /\ Cardinality(bev \ {c}) = (IF c \in bev THEN Cardinality(bev) - 1 ELSE Cardinality(bev))
  BY FS_RemoveElement DEF IInv, TypeOK
<1>2. Cardinality(bev) \in Nat
  BY FS_CardinalityType DEF IInv, TypeOK
<1>3. TypeOK'
  <2>1. <<>> \in Seq(Answer)
    OBVIOUS
  <2> QED
    BY <1>1, <1>2, <2>1, LibeventConstants DEF Free, IInv, TypeOK, cltVars
<1>4. Queued'
  BY DEF Free, IInv, TypeOK, Queued, Increasing, cltVars
<1> QED
  BY <1>3, <1>4 DEF IInv

\* A client only makes its own stream longer.
LEMMA ClientInv ==
  ASSUME IInv, NEW c \in Clients, Client(c)
  PROVE  IInv'
<1>1. CASE Connect(c) \/ Leave(c)
  <2>1. TypeOK'
    BY <1>1 DEF Connect, Leave, IInv, TypeOK
  <2>2. Queued'
    BY <1>1 DEF Connect, Leave, IInv, Queued, Increasing
  <2> QED
    BY <2>1, <2>2 DEF IInv
<1>2. ASSUME NEW r \in {Hello} \cup Frame, Send(c, r)
      PROVE  IInv'
  <2>1. /\ req' = [req EXCEPT ![c] = Append(@, r)]
        /\ UNCHANGED <<up, backlog, bev, peer, rcv, out, ans, late>>
    BY <1>2 DEF Send
  <2>2. TypeOK'
    BY <1>2, <2>1 DEF IInv, TypeOK
  <2>3. \A d \in Clients : Len(req'[d]) \in Nat /\ Len(req[d]) \in Nat /\ Len(req[d]) <= Len(req'[d])
    BY <1>2, <2>1 DEF IInv, TypeOK
  <2>4. \A d \in Clients : rcv[d] \in Nat
    BY DEF IInv, TypeOK
  <2>5. \A d \in Clients : rcv'[d] <= 3 * Len(req'[d])
    BY <2>1, <2>3, <2>4 DEF IInv, Queued
  <2>6. Queued'
    BY <2>1, <2>5 DEF IInv, Queued, Increasing
  <2> QED
    BY <2>2, <2>6 DEF IInv
<1> QED
  BY <1>1, <1>2 DEF Client

-----------------------------------------------------------------------------
(* The theorems *)

\* Types and the order of what is queued and sent hold in every state.
THEOREM Invariant == Spec => []IInv
<1>1. Init => IInv
  BY InitInv
<1>2. IInv /\ [Next]_vars => IInv'
  <2> SUFFICES ASSUME IInv, [Next]_vars
               PROVE  IInv'
    OBVIOUS
  <2>1. ASSUME NEW c \in Clients, Loop(c)
        PROVE  IInv'
    BY <2>1, AcceptInv, ReadInv, FlushInv, FreeInv DEF Loop
  <2>2. ASSUME NEW c \in Clients, Client(c)
        PROVE  IInv'
    BY <2>2, ClientInv
  <2>3. CASE UNCHANGED vars
    BY <2>3 DEF vars, cltVars, IInv, TypeOK, Queued, Increasing
  <2> QED
    BY <2>1, <2>2, <2>3 DEF Next
<1> QED
  BY <1>1, <1>2, PTL DEF Spec

\* Type correctness: no more bufferevents than descriptors, for any number of
\* clients that come and go (listener_cb, socket_event_cb).
THEOREM Typed == Spec => []TypeOK
<1>1. IInv => TypeOK
  BY DEF IInv
<1> QED
  BY <1>1, Invariant, PTL

\* Whatever part of the stream a callback reads and whenever the loop writes
\* its output, echoes reach a client once and in the order of its requests.
THEOREM EchoOrder == Spec => []EchoesInOrder
<1>1. IInv => EchoesInOrder
  BY DEF IInv, Queued, EchoesInOrder
<1> QED
  BY <1>1, Invariant, PTL

-----------------------------------------------------------------------------
(* The refinement of StreamEcho *)

\* Every answer has taken a piece of the stream.
Bounded == \A c \in Clients : Len(ans[c]) + Len(out[c]) <= rcv[c]

LEMMA BoundedStep ==
  ASSUME IInv, Bounded, [Next]_vars
  PROVE  Bounded'
<1> SUFFICES ASSUME NEW d \in Clients PROVE Len(ans'[d]) + Len(out'[d]) <= rcv'[d]
  BY DEF Bounded
<1>1. /\ ans[d] \in Seq(Answer) /\ out[d] \in Seq(Answer) /\ rcv[d] \in Nat
      /\ Len(ans[d]) \in Nat /\ Len(out[d]) \in Nat /\ Len(ans[d]) + Len(out[d]) <= rcv[d]
  <2>1. ans[d] \in Seq(Answer) /\ out[d] \in Seq(Answer) /\ rcv[d] \in Nat
    BY AnswersTyped DEF IInv
  <2>2. Len(ans[d]) + Len(out[d]) <= rcv[d]
    BY DEF Bounded
  <2>3. Len(ans[d]) \in Nat /\ Len(out[d]) \in Nat
    BY <2>1, LenProperties
  <2> QED BY ONLY <2>1, <2>2, <2>3
<1>0. PICK la \in Nat, lo \in Nat, rd \in Nat :
        la = Len(ans[d]) /\ lo = Len(out[d]) /\ rd = rcv[d]
  BY <1>1
<1>a. la + lo <= rd
  BY <1>0, <1>1
<1>2. ASSUME UNCHANGED <<ans, out, rcv>>
      PROVE  Len(ans'[d]) + Len(out'[d]) <= rcv'[d]
  <2>1. ans' = ans /\ out' = out /\ rcv' = rcv
    BY <1>2
  <2> QED BY <1>1, <2>1
<1>3. ASSUME NEW c \in Clients, Read(c)
      PROVE  Len(ans'[d]) + Len(out'[d]) <= rcv'[d]
  <2>1. PICK to \in rcv[c] + 1 .. 3 * Len(req[c]) : \E a :
          rcv' = [rcv EXCEPT ![c] = to] /\ out' = [out EXCEPT ![c] = Append(@, a)] /\ ans' = ans
    BY <1>3 DEF Read
  <2>2. out \in [Clients -> Seq(Answer)] /\ rcv \in [Clients -> Nat]
    BY DEF IInv, TypeOK
  <2>3. CASE d # c
    BY <1>1, <2>1, <2>2, <2>3
  <2>4. CASE d = c
    <3>1. PICK a : rcv'[d] = to /\ out'[d] = Append(out[d], a) /\ to >= rcv[d] + 1
      BY <1>1, <2>1, <2>2, <2>4
    <3>2. Len(out'[d]) = Len(out[d]) + 1 /\ ans'[d] = ans[d]
      BY <1>1, <2>1, <3>1
    <3>3. to \in Nat
      BY <1>1, <2>4
    <3>4. rd + 1 <= to
      BY <1>0, <3>1
    <3>5. la + (lo + 1) <= to
      BY <1>a, <3>3, <3>4
    <3> QED BY <1>0, <3>1, <3>2, <3>5
  <2> QED BY <2>3, <2>4
<1>4. ASSUME NEW c \in Clients, Flush(c)
      PROVE  Len(ans'[d]) + Len(out'[d]) <= rcv'[d]
  <2>1. /\ out[c] # <<>> /\ out' = [out EXCEPT ![c] = Tail(@)] /\ rcv' = rcv
        /\ ans' \in {ans, [ans EXCEPT ![c] = Append(@, Head(out[c]))]}
    BY <1>4 DEF Flush
  <2>2. out \in [Clients -> Seq(Answer)] /\ ans \in [Clients -> Seq(Answer)]
    BY DEF IInv, TypeOK
  <2>3. CASE d # c
    BY <1>1, <2>1, <2>2, <2>3
  <2>4. CASE d = c
    <3>1. Len(Tail(out[d])) = Len(out[d]) - 1 /\ Len(Append(ans[d], Head(out[d]))) = Len(ans[d]) + 1
      BY <1>1, <2>1, <2>4
    <3>2. out'[d] = Tail(out[d]) /\ ans'[d] \in {ans[d], Append(ans[d], Head(out[d]))}
      BY <2>1, <2>2, <2>4
    <3>3. Len(out'[d]) = Len(out[d]) - 1 /\ Len(ans'[d]) \in {Len(ans[d]), Len(ans[d]) + 1} /\ rcv'[d] = rcv[d]
      BY <2>1, <3>1, <3>2
    <3>4. la + (lo - 1) <= rd /\ (la + 1) + (lo - 1) <= rd
      BY <1>a
    <3> QED BY <1>0, <3>3, <3>4
  <2> QED BY <2>3, <2>4
<1>5. ASSUME NEW c \in Clients, Free(c)
      PROVE  Len(ans'[d]) + Len(out'[d]) <= rcv'[d]
  <2>1. out'[d] \in {out[d], <<>>} /\ ans' = ans /\ rcv' = rcv
    BY <1>5 DEF Free, IInv, TypeOK
  <2>2. Len(out'[d]) \in {Len(out[d]), 0}
    BY <2>1
  <2>3. la + 0 <= rd
    BY <1>a
  <2>4. ans'[d] = ans[d] /\ rcv'[d] = rcv[d]
    BY <2>1
  <2>5. CASE Len(out'[d]) = Len(out[d])
    BY <1>1, <2>4, <2>5
  <2>6. CASE Len(out'[d]) = 0
    BY <1>0, <2>3, <2>4, <2>6
  <2> QED BY <2>2, <2>5, <2>6
<1>6. ASSUME NEW c \in Clients, Accept(c) \/ AcceptAborted(c) \/ Client(c)
      PROVE  UNCHANGED <<ans, out, rcv>>
  BY <1>6 DEF Accept, AcceptAborted, Client, Connect, Leave, Send
<1> QED
  BY <1>2, <1>3, <1>4, <1>5, <1>6 DEF Next, Loop, vars

\* The answer to a packet is a refusal, or the right one to the request the
\* packet begins in.
LEMMA AnswersRight ==
  ASSUME TypeOK, NEW c \in Clients, NEW from \in Nat, NEW to \in Nat,
         from > 0, from <= to, to <= 3 * Len(req[c]),
         NEW a \in Answers(c, from, to)
  PROVE  \/ \E t \in {"null", "error", "garbled"} : a = [tag |-> t, of |-> 0]
         \/ /\ a.of \in DOMAIN req[c]
            /\ a = [tag |-> Right(req[c][a.of]), of |-> a.of]
            /\ Right(req[c][a.of]) \notin {"null", "error", "garbled"}
<1> DEFINE i    == ReqOf(from)
           last == IF to < LastOf(i) THEN to ELSE LastOf(i)
           f    == from - FirstOf(i) + 1
           l    == last - FirstOf(i) + 1
<1>1. i \in Nat /\ i > 0 /\ FirstOf(i) <= from /\ from <= LastOf(i)
  BY DEF ReqOf, FirstOf, LastOf
<1>2. req[c] \in Seq({Hello} \cup Frame) /\ Len(req[c]) \in Nat
  BY DEF TypeOK
<1>3. f \in 1..3 /\ l \in 1..3 /\ f <= l
  BY <1>1 DEF FirstOf, LastOf
<1>4. PICK t \in PacketTags(req[c][i], f, l) :
        a = [tag |-> t, of |-> IF t \in {"accept", "echo", "cut"} THEN i ELSE 0]
  BY DEF Answers
<1> HIDE DEF f, l, i
<1>5. i \in DOMAIN req[c]
  <2>1. 3 * i - 2 <= 3 * Len(req[c])
    BY <1>1, <1>2 DEF FirstOf
  <2> QED BY <1>1, <1>2, <2>1
<1>6. PICK r \in {Hello} \cup Frame : r = req[c][i]
  BY <1>2, <1>5
<1>7. r.kind \in {"hello", "frame"} /\ EchoTag(r.n) \in {"echo", "cut"}
  BY DEF Hello, Frame, EchoTag
<1>8. t \in {"null", "error", "garbled"} \/ (t = Right(r) /\ t \in {"accept", "echo", "cut"})
  <2>1. CASE r.kind = "hello"
    <3>1. t \in HelloTags(f, l)
      BY <1>4, <1>6, <2>1 DEF PacketTags
    <3>2. t \in {"null", "error"} \/ t = "accept"
      BY <3>1 DEF HelloTags
    <3> QED BY <2>1, <3>2 DEF Right
  <2>2. CASE r.kind = "frame" /\ f = 1 /\ l = 3
    <3>1. t = EchoTag(r.n)
      BY <1>4, <1>6, <2>2 DEF PacketTags
    <3> QED BY <1>7, <2>2, <3>1 DEF Right
  <2>3. CASE r.kind = "frame" /\ f = 1 /\ l < 3
    BY <1>3, <1>4, <1>6, <2>3 DEF PacketTags
  <2>4. CASE r.kind = "frame" /\ f > 1
    BY <1>4, <1>6, <2>4 DEF PacketTags
  <2> QED BY <1>3, <1>7, <2>1, <2>2, <2>3, <2>4
<1>9. CASE t \in {"null", "error", "garbled"}
  BY <1>4, <1>9
<1>10. CASE t = Right(r) /\ t \in {"accept", "echo", "cut"}
  <2>1. a = [tag |-> Right(req[c][i]), of |-> i] /\ a.of = i
    BY <1>4, <1>6, <1>10
  <2>2. Right(req[c][i]) \notin {"null", "error", "garbled"}
    BY <1>6, <1>10
  <2> QED BY <1>5, <2>1, <2>2
<1> QED
  BY <1>8, <1>9, <1>10

\* What a client that stays has been given: what has left the output, and what
\* is in it.
Given(c) == IF peer[c] = "gone" THEN ans[c] ELSE ans[c] \o out[c]
AllGiven == [c \in Clients |-> Given(c)]

\* A new answer comes behind all that were given.
LEMMA GivenRead ==
  ASSUME NEW s \in Seq(Answer), NEW t \in Seq(Answer), NEW a \in Answer
  PROVE  s \o Append(t, a) = Append(s \o t, a)
<1>1. Append(t, a) = t \o <<a>> /\ Append(s \o t, a) = (s \o t) \o <<a>> /\ <<a>> \in Seq(Answer)
  <2>1. s \o t \in Seq(Answer)
    BY ConcatProperties
  <2> QED BY <2>1, AppendIsConcat
<1> QED BY <1>1, ConcatAssociative

\* An answer that leaves the output is still given.
LEMMA GivenFlush ==
  ASSUME NEW s \in Seq(Answer), NEW t \in Seq(Answer), t # <<>>
  PROVE  Append(s, Head(t)) \o Tail(t) = s \o t
<1>1. PICK h \in Answer : h = Head(t)
  BY HeadTailProperties
<1>2. Tail(t) \in Seq(Answer) /\ <<h>> \in Seq(Answer)
  BY HeadTailProperties
<1>3. t = <<h>> \o Tail(t)
  <2>1. Len(t) \in Nat \ {0}
    BY EmptySeq
  <2>2. SubSeq(t, 1, Len(t)) = <<t[1]>> \o SubSeq(t, 2, Len(t))
    <3>1. 1 \in 1..Len(t) /\ Len(t) \in 1..Len(t) /\ 1 + 1 = 2
      BY <2>1
    <3> QED BY <3>1, SubSeqRecursiveFirst
  <2>3. t[1] = h
    BY <1>1, <2>1
  <2> QED BY <2>2, <2>3, SubSeqFull, TailIsSubSeq
<1>4. Append(s, h) = s \o <<h>>
  BY AppendIsConcat
<1>5. (s \o <<h>>) \o Tail(t) = s \o (<<h>> \o Tail(t))
  BY <1>2, ConcatAssociative
<1> QED BY <1>1, <1>3, <1>4, <1>5

\* A client that leaves loses what is in the output, the last of the answers.
LEMMA GivenLeave ==
  ASSUME NEW s \in Seq(Answer), NEW t \in Seq(Answer)
  PROVE  Len(s) \in 0..Len(s \o t) /\ SubSeq(s \o t, 1, Len(s)) = s
<1>1. Len(s) \in Nat /\ Len(t) \in Nat
  OBVIOUS
<1>2. Len(s \o t) = Len(s) + Len(t)
  BY ConcatProperties
<1>3. SubSeq(s \o t, 1, Len(s)) = s
  <2>1. CASE s = <<>>
    <3>1. Len(s) = 0
      BY <2>1
    <3> QED BY <2>1, <3>1, SubSeqEmpty
  <2>2. CASE s # <<>>
    <3>1. 1 \in 1..Len(s) /\ Len(s) \in 1..Len(s)
      BY <1>1, <2>2, EmptySeq
    <3>2. SubSeq(s \o t, 1, Len(s)) = SubSeq(s, 1, Len(s))
      BY <3>1, SubSeqOfConcat1
    <3> QED BY <3>2, SubSeqFull
  <2> QED BY <2>1, <2>2
<1> QED BY <1>1, <1>2, <1>3

LEMMA AllGivenTyped ==
  ASSUME TypeOK, NEW c \in Clients
  PROVE  /\ Given(c) \in Seq(Answer) /\ Len(Given(c)) \in Nat
         /\ DOMAIN Given(c) = 1..Len(Given(c)) /\ \A j \in DOMAIN Given(c) : Given(c)[j].of \in Nat
<1>1. ans[c] \in Seq(Answer) /\ out[c] \in Seq(Answer)
  BY AnswersTyped
<1>2. ans[c] \o out[c] \in Seq(Answer)
  BY <1>1, ConcatProperties
<1>3. PICK g \in Seq(Answer) : g = Given(c)
  BY <1>1, <1>2 DEF Given
<1>4. Len(g) \in Nat /\ DOMAIN g = 1..Len(g) /\ \A j \in DOMAIN g : g[j] \in Answer
  OBVIOUS
<1>5. \A j \in DOMAIN g : g[j].of \in Nat
  BY <1>4 DEF Answer
<1> QED BY <1>3, <1>4, <1>5

\* Reading a packet of a client that stays is the service's answer to it.
LEMMA ReadIsGiven ==
  ASSUME IInv, Bounded, NEW c \in Clients, Read(c), peer[c] # "gone"
  PROVE  S!Next
<1>1. PICK to \in rcv[c] + 1 .. 3 * Len(req[c]) : \E a \in Answers(c, rcv[c] + 1, to) :
        rcv' = [rcv EXCEPT ![c] = to] /\ out' = [out EXCEPT ![c] = Append(@, a)]
  BY DEF Read
<1>2. PICK a \in Answers(c, rcv[c] + 1, to) : out' = [out EXCEPT ![c] = Append(@, a)]
  BY <1>1
<1>3. /\ rcv[c] \in Nat /\ Len(req[c]) \in Nat /\ out[c] \in Seq(Answer) /\ ans[c] \in Seq(Answer)
      /\ req[c] \in Seq({Hello} \cup Frame)
  BY AnswersTyped DEF IInv
<1>4. PICK from \in Nat : from = rcv[c] + 1
  BY <1>3
<1>5. to \in Nat /\ from > 0 /\ from <= to /\ to <= 3 * Len(req[c])
  BY <1>3, <1>4
<1>6. a \in Answer /\ (a.of # 0 => from <= 3 * a.of - 1)
  BY <1>2, <1>4, <1>5, AnswersShape DEF IInv
<1>7. AllGiven' = [AllGiven EXCEPT ![c] = Append(@, a)]
  <2>1. peer' = peer /\ ans' = ans
    BY DEF Read, cltVars
  <2>2. ASSUME NEW d \in Clients, d # c PROVE Given(d)' = Given(d)
    BY <1>2, <2>1, <2>2 DEF Given, IInv, TypeOK
  <2>3. Given(c)' = Append(Given(c), a)
    <3>1. out'[c] = Append(out[c], a)
      BY <1>2 DEF IInv, TypeOK
    <3>2. ans[c] \o Append(out[c], a) = Append(ans[c] \o out[c], a)
      BY <1>3, <1>6, GivenRead
    <3> QED BY <2>1, <3>1, <3>2 DEF Given
  <2> QED BY <2>2, <2>3 DEF AllGiven
<1>8. Len(AllGiven[c]) < 3 * Len(req[c])
  <2>1. Len(ans[c] \o out[c]) = Len(ans[c]) + Len(out[c])
    BY <1>3, ConcatProperties
  <2>2. PICK n : n = Len(ans[c]) + Len(out[c]) /\ n = Len(AllGiven[c])
    BY <2>1 DEF AllGiven, Given
  <2>3. n <= rcv[c]
    BY <2>2 DEF Bounded
  <2>4. n \in Nat
    BY <2>2, AllGivenTyped DEF IInv, AllGiven
  <2>5. n < 3 * Len(req[c])
    BY <1>3, <1>4, <1>5, <2>3, <2>4
  <2> QED BY <2>2, <2>5
<1>9. up /\ up' = up /\ req' = req /\ peer' = peer /\ c \notin {d \in Clients : peer[d] = "gone"}
  BY DEF Read, cltVars
<1>10. S!Give(c, a)
  BY <1>7, <1>8, <1>9 DEF S!Give, AllGiven, Given
<1>11. ASSUME NEW t \in {"null", "error", "garbled"}, a = [tag |-> t, of |-> 0] PROVE S!Next
  <2>1. S!Refuse(c, t)
    BY <1>10, <1>11 DEF S!Refuse
  <2> QED BY <2>1 DEF S!Next
<1>12. ASSUME a.of \in DOMAIN req[c], a = [tag |-> Right(req[c][a.of]), of |-> a.of],
              Right(req[c][a.of]) \notin {"null", "error", "garbled"}
       PROVE  S!Next
  <2>1. PICK i \in DOMAIN req[c] : i = a.of
    BY <1>12
  <2>2. i \in Nat /\ i # 0 /\ from <= 3 * i - 1
    BY <1>3, <1>6, <2>1
  <2>3. \A j \in DOMAIN Given(c) : Given(c)[j].of < i
    <3> SUFFICES ASSUME NEW j \in DOMAIN Given(c) PROVE Given(c)[j].of < i
      OBVIOUS
    <3>1. \E s \in {ans[c], out[c]} : \E k \in DOMAIN s : Given(c)[j] = s[k]
      <4>1. Given(c) = ans[c] \o out[c]
        BY DEF Given
      <4>2. Len(ans[c]) \in Nat /\ Len(out[c]) \in Nat
        BY <1>3
      <4>3. Len(ans[c] \o out[c]) = Len(ans[c]) + Len(out[c])
        BY <1>3, ConcatProperties
      <4>4. j \in 1..Len(ans[c]) + Len(out[c])
        BY <4>1, <4>3, AllGivenTyped DEF IInv
      <4>5. Given(c)[j] = IF j <= Len(ans[c]) THEN ans[c][j] ELSE out[c][j - Len(ans[c])]
        BY <1>3, <4>1, <4>4, ConcatProperties
      <4>6. CASE j <= Len(ans[c])
        <5>1. j \in DOMAIN ans[c]
          BY <1>3, <4>4, <4>6
        <5> QED BY <4>5, <4>6, <5>1
      <4>7. CASE ~(j <= Len(ans[c]))
        <5>1. PICK la \in Nat, lo \in Nat : la = Len(ans[c]) /\ lo = Len(out[c])
          BY <4>2
        <5>2. j \in 1..la + lo /\ ~(j <= la)
          BY <4>4, <4>7, <5>1
        <5>3. j - la \in 1..lo
          BY <5>2
        <5>4. j - Len(ans[c]) \in DOMAIN out[c]
          BY <1>3, <5>1, <5>3
        <5> QED BY <4>5, <4>7, <5>4
      <4> QED BY <4>6, <4>7
    <3>2. 3 * Given(c)[j].of - 1 <= rcv[c]
      BY <3>1 DEF IInv, Queued
    <3>3. Given(c)[j].of \in Nat
      BY AllGivenTyped DEF IInv
    <3> QED BY <1>3, <1>4, <2>2, <3>2, <3>3
  <2>4. \A j \in DOMAIN AllGiven[c] : AllGiven[c][j].of < i
    BY <2>3 DEF AllGiven
  <2>5. Right(req[c][i]) \notin {"null", "error", "garbled"}
    BY <1>12, <2>1
  <2>6. S!Give(c, [tag |-> Right(req[c][i]), of |-> i])
    <3>1. a = [tag |-> Right(req[c][i]), of |-> i]
      BY <1>12, <2>1
    <3> QED BY <1>7, <1>8, <1>9, <3>1 DEF S!Give, AllGiven, Given
  <2>7. S!Answer(c, i)
    BY <2>4, <2>5, <2>6 DEF S!Answer, AllGiven, Given
  <2> QED BY <2>1, <2>7 DEF S!Next
<1> QED
  BY <1>2, <1>4, <1>5, <1>11, <1>12, AnswersRight DEF IInv

\* Each step is one of the service, or none of its business.
LEMMA StepIsServiceStep ==
  ASSUME IInv, Bounded, [Next]_vars
  PROVE  [S!Next]_(S!vars)
<1>1. ASSUME UNCHANGED <<up, peer, req, AllGiven>> PROVE UNCHANGED S!vars
  BY <1>1 DEF S!vars, AllGiven, Given
<1>2. ASSUME NEW c \in Clients, Accept(c) \/ AcceptAborted(c)
      PROVE  UNCHANGED <<up, peer, req, AllGiven>>
  BY <1>2 DEF Accept, AcceptAborted, cltVars, AllGiven, Given
<1>3. ASSUME NEW c \in Clients, Read(c)
      PROVE  S!Next \/ UNCHANGED <<up, peer, req, AllGiven>>
  <2>1. CASE peer[c] # "gone"
    BY <1>3, <2>1, ReadIsGiven
  <2>2. CASE peer[c] = "gone"
    <3>1. peer' = peer /\ ans' = ans /\ up' = up /\ req' = req
      BY <1>3 DEF Read, cltVars
    <3>2. \A d \in Clients : d # c => out'[d] = out[d]
      BY <1>3 DEF Read, IInv, TypeOK
    <3>3. \A d \in Clients : Given(d)' = Given(d)
      BY <2>2, <3>1, <3>2 DEF Given
    <3> QED BY <3>1, <3>3 DEF AllGiven
  <2> QED BY <2>1, <2>2
<1>4. ASSUME NEW c \in Clients, Flush(c)
      PROVE  S!Next \/ UNCHANGED <<up, peer, req, AllGiven>>
  <2>1. /\ out[c] # <<>> /\ peer' = peer /\ req' = req /\ up
        /\ \A d \in Clients : d # c => out'[d] = out[d] /\ ans'[d] = ans[d]
    BY <1>4 DEF Flush, IInv, TypeOK, cltVars
  <2>2. AllGiven' = AllGiven
    <3>1. Given(c)' = Given(c)
      <4>1. CASE peer[c] # "gone"
        <5>1. ans'[c] = Append(ans[c], Head(out[c])) /\ out'[c] = Tail(out[c])
          BY <1>4, <4>1 DEF Flush, IInv, TypeOK
        <5>2. ans[c] \in Seq(Answer) /\ out[c] \in Seq(Answer)
          BY AnswersTyped DEF IInv
        <5> QED BY <2>1, <4>1, <5>1, <5>2, GivenFlush DEF Given
      <4>2. CASE peer[c] = "gone"
        BY <1>4, <2>1, <4>2 DEF Flush, Given
      <4> QED BY <4>1, <4>2
    <3>2. \A d \in Clients : d # c => Given(d)' = Given(d)
      BY <2>1 DEF Given
    <3> QED BY <3>1, <3>2 DEF AllGiven
  <2>3. up' \in BOOLEAN
    BY <1>4 DEF Flush, IInv, TypeOK
  <2>4. CASE up' = up
    BY <2>1, <2>2, <2>4
  <2>5. CASE up' = FALSE
    <3>1. S!End
      BY <2>1, <2>2, <2>5 DEF S!End, AllGiven, Given
    <3> QED BY <3>1 DEF S!Next
  <2> QED BY <2>1, <2>3, <2>4, <2>5
<1>5. ASSUME NEW c \in Clients, Free(c)
      PROVE  UNCHANGED <<up, peer, req, AllGiven>>
  <2>1. \A d \in Clients : d # c => out'[d] = out[d]
    BY <1>5 DEF Free, IInv, TypeOK
  <2>2. peer[c] = "gone" /\ peer' = peer /\ ans' = ans /\ up' = up /\ req' = req
    BY <1>5 DEF Free, cltVars
  <2>3. \A d \in Clients : Given(d)' = Given(d)
    BY <2>1, <2>2 DEF Given
  <2> QED BY <2>2, <2>3 DEF AllGiven
<1>6. ASSUME NEW c \in Clients, Connect(c)
      PROVE  UNCHANGED S!vars
  <2>1. /\ peer[c] = "idle" /\ peer' = [peer EXCEPT ![c] = "up"]
        /\ UNCHANGED <<up, req, ans, out>>
    BY <1>6 DEF Connect
  <2>2. \A d \in Clients : peer'[d] = "gone" <=> peer[d] = "gone"
    BY <2>1 DEF IInv, TypeOK
  <2>3. AllGiven' = AllGiven
    BY <2>1, <2>2 DEF AllGiven, Given
  <2> QED BY <2>1, <2>2, <2>3 DEF S!vars, AllGiven, Given
<1>7. ASSUME NEW c \in Clients, Leave(c)
      PROVE  S!Next
  <2>1. /\ peer[c] = "up" /\ peer' = [peer EXCEPT ![c] = "gone"]
        /\ UNCHANGED <<up, req, ans, out>>
    BY <1>7 DEF Leave
  <2>2. peer'[c] = "gone" /\ \A d \in Clients : d # c => peer'[d] = peer[d]
    BY <2>1 DEF IInv, TypeOK
  <2>3. {d \in Clients : peer'[d] = "gone"} = {d \in Clients : peer[d] = "gone"} \cup {c}
    BY <2>2
  <2>4. ans[c] \in Seq(Answer) /\ out[c] \in Seq(Answer)
    BY AnswersTyped DEF IInv
  <2>5. PICK n \in 0..Len(ans[c] \o out[c]) : SubSeq(ans[c] \o out[c], 1, n) = ans[c]
    BY <2>4, GivenLeave
  <2>6. Given(c) = ans[c] \o out[c] /\ Given(c)' = ans[c]
    BY <2>1, <2>2 DEF Given
  <2>7. \A d \in Clients : d # c => Given(d)' = Given(d)
    BY <2>1, <2>2 DEF Given
  <2>8. n \in 0..Len(AllGiven[c]) /\ AllGiven' = [AllGiven EXCEPT ![c] = SubSeq(@, 1, n)]
    BY <2>5, <2>6, <2>7 DEF AllGiven
  <2>9. c \notin {d \in Clients : peer[d] = "gone"}
    BY <2>1
  <2>10. S!Leave(c)
    BY <2>1, <2>3, <2>8, <2>9 DEF S!Leave, AllGiven, Given
  <2> QED BY <2>10 DEF S!Next
<1>8. ASSUME NEW c \in Clients, NEW r \in {Hello} \cup Frame, Send(c, r)
      PROVE  S!Next
  <2>1. /\ up /\ peer[c] = "up" /\ req' = [req EXCEPT ![c] = Append(@, r)]
        /\ UNCHANGED <<up, peer, ans, out>>
    BY <1>8 DEF Send
  <2>2. AllGiven' = AllGiven
    BY <2>1 DEF AllGiven, Given
  <2>3. S!Ask(c, r)
    BY <2>1, <2>2 DEF S!Ask, AllGiven, Given
  <2> QED BY <2>3 DEF S!Next
<1>9. CASE UNCHANGED vars
  BY <1>1, <1>9 DEF vars, cltVars, AllGiven, Given
<1> QED
  BY <1>1, <1>2, <1>3, <1>4, <1>5, <1>6, <1>7, <1>8, <1>9 DEF Next, Loop, Client

\* The build on libevent gives each client, on any network, what StreamEcho
\* promises: whatever is in the stream, in a callback or in the output of the
\* bufferevent, and whoever leaves.
THEOREM ServesStreams == Spec => ImplementsStreamEcho
<1>1. Init => Bounded /\ S!Init
  <2> SUFFICES ASSUME Init PROVE Bounded /\ S!Init
    OBVIOUS
  <2>1. Bounded
    BY DEF Init, Bounded
  <2>2. \A c \in Clients : Given(c) = <<>>
    <3>1. <<>> \o <<>> = <<>>
      BY ConcatEmptySeq, EmptySeq
    <3> QED BY <3>1 DEF Given, Init
  <2>3. {c \in Clients : peer[c] = "gone"} = {}
    BY DEF Init
  <2> QED BY <2>1, <2>2, <2>3 DEF S!Init, Init, Given
<1>2. IInv /\ Bounded /\ [Next]_vars => Bounded' /\ [S!Next]_(S!vars)
  BY BoundedStep, StepIsServiceStep
<1> QED
  BY <1>1, <1>2, Invariant, PTL DEF Spec, ImplementsStreamEcho, S!Spec
=============================================================================
