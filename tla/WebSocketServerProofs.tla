----------------------- MODULE WebSocketServerProofs -----------------------
(***************************************************************************)
(* WebSocketServer for any number of clients, connections and requests:    *)
(* the hand-over of ClientInfo, the order of echoes, the promise of        *)
(* StreamEcho on any network, and the one of EchoService on a network that *)
(* keeps requests apart.                                                   *)
(***************************************************************************)
EXTENDS WebSocketServer, SequenceTheorems, TLAPS

\* The hand-over from accept to the threads: connection k has ClientInfo
\* object k, thread k and, from CopyInfo on, its socket.
HandOver ==
  /\ \A k \in Threads : pc[k] # "none" => k <= accepted /\ arg[k] = k
  /\ server = "spawn" => accepted > 0 /\ CltInfo = accepted /\ pc[accepted] = "none"
  /\ \A k \in 1..accepted :
       heap[k] \in Clients /\ heap[k] \notin backlog /\ peer[heap[k]] # "idle"
  /\ \A j, k \in 1..accepted : heap[j] = heap[k] => j = k
  /\ \A c \in backlog : peer[c] # "idle"
  /\ \A k \in Threads : pc[k] \in {"poll", "reply"} => sock[k] = heap[k]

\* The stream: what a thread holds was the last to be received, and what was
\* answered lies in front of it.
Stream ==
  /\ \A c \in Clients : rcv[c] <= 3 * Len(req[c])
  /\ \A k \in Threads : pc[k] = "reply" =>
       /\ hold[k][1] > 0 /\ hold[k][1] <= hold[k][2] /\ hold[k][2] = rcv[sock[k]]
       /\ \A i \in DOMAIN ans[sock[k]] : 3 * ans[sock[k]][i].of - 1 < hold[k][1]
  /\ \A c \in Clients : \A i \in DOMAIN ans[c] : 3 * ans[c][i].of - 1 <= rcv[c]

\* On a network that keeps requests apart: what has been received and what has
\* been answered differ by the request in hand.
Exact ==
  /\ \A k \in Threads : pc[k] = "reply" /\ peer[sock[k]] # "gone" =>
       hold[k][1] = 3 * Len(ans[sock[k]]) + 1 /\ hold[k][2] = 3 * Len(ans[sock[k]]) + 3
  /\ \A c \in Clients :
       peer[c] # "gone" /\ (\A k \in Threads : pc[k] = "reply" => sock[k] # c)
         => rcv[c] = 3 * Len(ans[c])

\* No request is echoed twice, and echoes come in the order of the requests.
EchoesInOrder ==
  \A c \in Clients : \A i, j \in DOMAIN ans[c] :
    i < j /\ ans[c][i].of # 0 /\ ans[c][j].of # 0 => ans[c][i].of < ans[c][j].of

IInv == TypeOK /\ HandOver /\ Stream /\ EchoesInOrder

Tags    == {"accept", "null", "error", "garbled", "echo", "cut"}
Answer  == [tag : Tags, of : Nat]

-----------------------------------------------------------------------------
(* socket_read_cb *)

\* Every request is of one of the three kinds.
LEMMA RequestKinds ==
  ASSUME NEW r \in Requests
  PROVE  r.kind \in {"hello", "line", "frame"}
<1>1. CASE r \in Hello
  BY <1>1 DEF Hello
<1>2. CASE r \in Line
  BY <1>2 DEF Line
<1>3. CASE r \in Frame
  BY <1>3 DEF Frame
<1> QED
  BY <1>1, <1>2, <1>3 DEF Requests

\* Piece p belongs to request ReqOf(p).
LEMMA ReqOfPiece ==
  ASSUME NEW p \in Nat, p > 0
  PROVE  /\ ReqOf(p) \in Nat /\ ReqOf(p) > 0
         /\ FirstOf(ReqOf(p)) <= p /\ p <= LastOf(ReqOf(p))
  BY DEF ReqOf, FirstOf, LastOf

\* Request i owns the pieces FirstOf(i) to LastOf(i).
LEMMA ReqOfFirst ==
  ASSUME NEW i \in Nat, i > 0
  PROVE  ReqOf(FirstOf(i)) = i
  BY DEF ReqOf, FirstOf

\* What a frame may get; only a whole one is echoed.
LEMMA FrameTagsShape ==
  ASSUME NEW r \in Requests, NEW first \in 1..3, NEW last \in 1..3, first <= last,
         NEW t \in FrameTags(r, first, last)
  PROVE  t \in Tags /\ (t \in {"accept", "echo", "cut"} => first = 1 /\ last = 3)
<1>1. EchoTag(r.n) \in {"error", "echo", "cut"}
  BY DEF EchoTag
<1>2. CASE first > 1
  BY <1>2 DEF FrameTags, Tags
<1>3. CASE first = 1 /\ (last = 1 \/ HeadHasZero(r.n))
  BY <1>3 DEF FrameTags, Tags
<1>4. CASE first = 1 /\ last = 2 /\ ~HeadHasZero(r.n)
  BY <1>4 DEF FrameTags, Tags
<1>5. CASE first = 1 /\ last = 3 /\ ~HeadHasZero(r.n)
  BY <1>1, <1>5 DEF FrameTags, Tags
<1> QED
  BY <1>2, <1>3, <1>4, <1>5

\* What part of a request may get: it is not the last piece that is accepted or
\* echoed, and more than the first.
LEMMA RequestTagsShape ==
  ASSUME NEW r \in Requests, NEW first \in 1..3, NEW last \in 1..3, first <= last,
         NEW t \in RequestTags(r, first, last)
  PROVE  t \in Tags /\ (t \in {"accept", "echo", "cut"} => first < 3 /\ last > 1)
<1>1. CASE r.kind = "hello"
  <2>1. t \in HelloTags(first, last)
    BY <1>1 DEF RequestTags
  <2> QED
    BY <2>1 DEF HelloTags, Tags
<1>2. CASE r.kind = "line"
  <2>1. t \in {"error", "garbled"}
    BY <1>2 DEF RequestTags
  <2> QED
    BY <2>1 DEF Tags
<1>3. CASE r.kind = "frame"
  <2>1. t \in FrameTags(r, first, last)
    BY <1>3 DEF RequestTags
  <2> QED
    BY <2>1, FrameTagsShape
<1> QED
  BY <1>1, <1>2, <1>3, RequestKinds

\* What a chunk of the stream may get: an answer to a request names the one the
\* chunk begins in, with a piece before its last one in the chunk.
LEMMA AnswersShape ==
  ASSUME NEW rs \in Seq(Requests), NEW from \in Nat, NEW to \in Nat,
         from > 0, from <= to, to <= 3 * Len(rs),
         NEW a \in Answers(rs, from, to)
  PROVE  /\ a \in Answer
         /\ a.of # 0 => a.of = ReqOf(from) /\ from <= 3 * a.of - 1 /\ 3 * a.of - 1 <= to
<1> DEFINE i     == ReqOf(from)
           first == from - FirstOf(i) + 1
           last  == IF to < LastOf(i) THEN to - FirstOf(i) + 1 ELSE 3
<1>1. i \in Nat /\ i > 0 /\ FirstOf(i) <= from /\ from <= LastOf(i)
  BY ReqOfPiece
<1>2. i \in 1..Len(rs)
  BY <1>1 DEF FirstOf
<1>3. rs[i] \in Requests
  BY <1>2
<1>4. /\ first \in 1..3 /\ last \in 1..3 /\ first <= last
      /\ first < 3 => from <= LastOf(i) - 1
      /\ last > 1 => LastOf(i) - 1 <= to
  BY <1>1 DEF FirstOf, LastOf
<1>5. PICK t \in RequestTags(rs[i], first, last) :
        a = [tag |-> t, of |-> IF t \in {"accept", "echo", "cut"} THEN i ELSE 0]
  BY DEF Answers
<1> HIDE DEF first, last
<1>6. t \in Tags /\ (t \in {"accept", "echo", "cut"} => first < 3 /\ last > 1)
  BY <1>3, <1>4, RequestTagsShape
<1> HIDE DEF i
<1>7. a \in Answer
  BY <1>1, <1>5, <1>6 DEF Answer
<1>8. a.of # 0 => a.of = i /\ from <= LastOf(i) - 1 /\ LastOf(i) - 1 <= to
  BY <1>4, <1>5, <1>6
<1> QED
  BY <1>1, <1>7, <1>8 DEF i, LastOf

\* A whole clean request gets the answer it deserves.
LEMMA WholeAnswer ==
  ASSUME NEW rs \in Seq(Requests), NEW i \in 1..Len(rs), rs[i].clean,
         NEW a \in Answers(rs, FirstOf(i), LastOf(i))
  PROVE  a.tag = Right(rs[i])
<1>1. ReqOf(FirstOf(i)) = i
  BY ReqOfFirst
<1>2. FirstOf(i) - FirstOf(i) + 1 = 1 /\ ~(LastOf(i) < LastOf(i))
  BY DEF FirstOf, LastOf
<1>3. \E t \in RequestTags(rs[i], 1, 3) : a.tag = t
  BY <1>1, <1>2 DEF Answers
<1>4. rs[i].kind \in {"hello", "line", "frame"}
  <2>1. rs[i] \in Requests
    OBVIOUS
  <2> QED
    BY <2>1, RequestKinds
<1>5. RequestTags(rs[i], 1, 3) = {Right(rs[i])}
  <2>1. CASE rs[i].kind = "hello"
    BY <2>1 DEF RequestTags, HelloTags, Right
  <2>2. CASE rs[i].kind = "line"
    BY <2>2 DEF RequestTags, Right
  <2>3. CASE rs[i].kind = "frame"
    <3>1. HeadHasZero(rs[i].n) => EchoTag(rs[i].n) = "error"
      BY DEF EchoTag
    <3>2. Right(rs[i]) = EchoTag(rs[i].n)
      BY <2>3 DEF Right
    <3> QED
      BY <2>3, <3>1, <3>2 DEF RequestTags, FrameTags
  <2> QED
    BY <1>4, <2>1, <2>2, <2>3
<1> QED
  BY <1>3, <1>5

-----------------------------------------------------------------------------
(* The invariant *)

\* Two threads never have the same socket.
LEMMA Sockets ==
  ASSUME TypeOK, HandOver
  PROVE  OneThreadPerSocket
<1> SUFFICES ASSUME NEW j \in Threads, NEW k \in Threads, j # k,
                    pc[j] \in {"poll", "reply"}, pc[k] \in {"poll", "reply"}
             PROVE  sock[j] # sock[k] /\ sock[k] \in Clients
  BY DEF OneThreadPerSocket
<1>1. j \in 1..accepted /\ k \in 1..accepted
  BY DEF TypeOK, HandOver, Threads
<1>2. sock[j] = heap[j] /\ sock[k] = heap[k]
  BY DEF HandOver
<1> QED
  BY <1>1, <1>2 DEF HandOver

\* What has been answered names requests by their numbers.
LEMMA AnswersTyped ==
  ASSUME TypeOK, NEW c \in Clients
  PROVE  ans[c] \in Seq(Answer) /\ \A i \in DOMAIN ans[c] : ans[c][i].of \in Nat
<1>1. ans[c] \in Seq(Answer)
  BY DEF TypeOK, Answer, Tags
<1>2. \A i \in DOMAIN ans[c] : ans[c][i] \in Answer
  BY <1>1
<1> QED
  BY <1>1, <1>2 DEF Answer

LEMMA InitInv ==
  ASSUME Init
  PROVE  IInv
<1>1. TypeOK
  BY ServerConstants DEF Init, TypeOK, Threads
<1>2. HandOver
  BY DEF Init, HandOver
<1>3. Stream
  BY DEF Init, Stream
<1>4. EchoesInOrder
  BY DEF Init, EchoesInOrder
<1> QED
  BY <1>1, <1>2, <1>3, <1>4 DEF IInv

LEMMA AcceptInv ==
  ASSUME IInv, NEW c \in Clients, Accept(c)
  PROVE  IInv'
<1> USE DEF IInv, Threads
<1>1. TypeOK'
  <2>1. /\ accepted' = accepted + 1 /\ CltInfo' = accepted + 1 /\ server' = "spawn"
        /\ accepted \in 0..MaxFds /\ accepted < MaxFds
        /\ backlog' \subseteq backlog /\ heap' = [heap EXCEPT ![accepted + 1] = c]
    BY DEF TypeOK, Accept, Alloc
  <2>2. UNCHANGED <<thrVars, peer, req, waiting, read, connVars>>
    BY DEF Accept
  <2>3. accepted' \in 0..MaxFds /\ CltInfo' \in Threads
    BY <2>1, ServerConstants
  <2> QED
    BY <2>1, <2>2, <2>3 DEF TypeOK, thrVars, connVars
<1>2. HandOver'
  <2>1. accepted' = accepted + 1 /\ CltInfo' = accepted + 1 /\ server' = "spawn"
        /\ accepted + 1 \in Threads /\ pc' = pc /\ arg' = arg /\ sock' = sock
        /\ peer' = peer /\ backlog' = backlog \ {c} /\ c \in backlog
        /\ heap' = [heap EXCEPT ![accepted + 1] = c]
    BY ServerConstants DEF TypeOK, Accept, Alloc, thrVars
  <2>2. heap'[accepted + 1] = c /\ \A k \in 1..accepted : heap'[k] = heap[k]
    BY <2>1 DEF TypeOK
  <2>3. \A k \in 1..accepted : heap[k] # c
    BY <2>1 DEF HandOver
  <2>4. \A k \in Threads : pc'[k] # "none" => k <= accepted' /\ arg'[k] = k
    BY <2>1 DEF TypeOK, HandOver
  <2>5. \A k \in 1..accepted' :
          heap'[k] \in Clients /\ heap'[k] \notin backlog' /\ peer'[heap'[k]] # "idle"
    BY <2>1, <2>2 DEF TypeOK, HandOver
  <2>6. \A j, k \in 1..accepted' : heap'[j] = heap'[k] => j = k
    <3>1. accepted \in Nat
      BY DEF TypeOK
    <3>2. \A k \in 1..accepted' : k = accepted + 1 \/ k \in 1..accepted
      BY <2>1, <3>1
    <3>3. \A j, k \in 1..accepted : heap'[j] = heap'[k] => j = k
      BY <2>2 DEF HandOver
    <3>4. \A k \in 1..accepted : heap'[k] # heap'[accepted + 1]
      BY <2>2, <2>3
    <3> QED
      BY <3>2, <3>3, <3>4
  <2>7. \A k \in Threads : pc'[k] \in {"poll", "reply"} => sock'[k] = heap'[k]
    BY <2>1, <2>2 DEF TypeOK, HandOver
  <2> QED
    BY <2>1, <2>4, <2>5, <2>6, <2>7 DEF TypeOK, HandOver
<1>3. Stream' /\ EchoesInOrder'
  BY DEF Stream, EchoesInOrder, Accept, thrVars, connVars
<1> QED
  BY <1>1, <1>2, <1>3

LEMMA AcceptFailsInv ==
  ASSUME IInv, AcceptFails
  PROVE  IInv'
<1> USE DEF IInv, AcceptFails, thrVars, cltVars, connVars
<1>1. TypeOK'
  BY DEF TypeOK
<1>2. HandOver'
  BY DEF HandOver
<1>3. Stream' /\ EchoesInOrder'
  BY DEF Stream, EchoesInOrder
<1> QED
  BY <1>1, <1>2, <1>3

LEMMA ReplyCrashesInv ==
  ASSUME IInv, NEW k \in Threads, ReplyCrashes(k)
  PROVE  IInv'
<1> USE DEF IInv, ReplyCrashes, thrVars, cltVars, connVars
<1>1. TypeOK'
  BY DEF TypeOK
<1>2. HandOver'
  BY DEF HandOver
<1>3. Stream' /\ EchoesInOrder'
  BY DEF Stream, EchoesInOrder
<1> QED
  BY <1>1, <1>2, <1>3

LEMMA StartThreadInv ==
  ASSUME IInv, StartThread
  PROVE  IInv'
<1> USE DEF IInv, Threads
<1>0. accepted \in Threads /\ CltInfo = accepted
  BY DEF StartThread, TypeOK, HandOver
<1>1. TypeOK'
  BY <1>0 DEF TypeOK, StartThread, cltVars, connVars
<1>2. PICK s \in {"created", "failed"} : pc' = [pc EXCEPT ![accepted] = s]
  BY DEF StartThread
<1>3. \A k \in Threads : pc'[k] \in {"poll", "reply"} => pc'[k] = pc[k] /\ pc[k] \in {"poll", "reply"}
  BY <1>2 DEF TypeOK
<1>4. HandOver'
  <2>1. \A k \in Threads : pc'[k] # "none" => k <= accepted' /\ arg'[k] = k
    BY <1>0, <1>2 DEF StartThread, TypeOK, HandOver
  <2>2. \A k \in Threads : pc'[k] \in {"poll", "reply"} => sock'[k] = heap'[k]
    BY <1>3 DEF StartThread, HandOver
  <2> QED
    BY <2>1, <2>2 DEF StartThread, HandOver, cltVars
<1>5. Stream' /\ EchoesInOrder'
  BY <1>3 DEF Stream, EchoesInOrder, StartThread, cltVars, connVars
<1> QED
  BY <1>1, <1>4, <1>5

LEMMA CopyInfoInv ==
  ASSUME IInv, NEW k \in Threads, CopyInfo(k)
  PROVE  IInv'
<1> USE DEF IInv, Threads
<1>0. k <= accepted /\ k \in 1..accepted /\ arg[k] = k /\ sock' = [sock EXCEPT ![k] = heap[k]]
  <2>1. k <= accepted /\ arg[k] = k
    BY DEF CopyInfo, HandOver
  <2>2. accepted \in Nat
    BY ServerConstants DEF TypeOK
  <2> QED
    BY <2>1, <2>2 DEF CopyInfo
<1>1. TypeOK'
  BY ZenonT(60), <1>0 DEF TypeOK, CopyInfo, accVars, cltVars, connVars
<1>2. HandOver'
  <2>1. \A j \in Threads : pc'[j] # "none" => j <= accepted' /\ arg'[j] = j
    BY <1>0 DEF CopyInfo, TypeOK, HandOver, accVars
  <2>2. \A j \in Threads : pc'[j] \in {"poll", "reply"} => sock'[j] = heap'[j]
    BY <1>0 DEF CopyInfo, TypeOK, HandOver, accVars
  <2> QED
    BY <2>1, <2>2 DEF CopyInfo, HandOver, accVars, cltVars
<1>3. \A j \in Threads : pc'[j] = "reply" => pc[j] = "reply" /\ j # k /\ sock'[j] = sock[j]
  BY <1>0 DEF CopyInfo, TypeOK
<1>4. Stream' /\ EchoesInOrder'
  BY <1>3 DEF Stream, EchoesInOrder, CopyInfo, cltVars, connVars
<1> QED
  BY <1>1, <1>2, <1>4

LEMMA RecvInv ==
  ASSUME IInv, NEW k \in Threads, Recv(k)
  PROVE  IInv'
<1> USE DEF IInv
<1> DEFINE c == sock[k]
<1>0. OneThreadPerSocket /\ c \in Clients
  <2>1. k \in 1..accepted /\ sock[k] = heap[k]
    BY DEF Recv, TypeOK, HandOver, Threads
  <2> QED
    BY <2>1, Sockets DEF HandOver
<1>1. PICK to \in rcv[c] + 1 .. 3 * Len(req[c]) :
        hold' = [hold EXCEPT ![k] = <<rcv[c] + 1, to>>] /\ rcv' = [rcv EXCEPT ![c] = to]
  BY DEF Recv
<1>2. rcv[c] \in Nat /\ req[c] \in Seq(Requests) /\ Len(req[c]) \in Nat /\ to \in Nat
      /\ rcv[c] < to /\ to <= 3 * Len(req[c])
  <2>1. rcv[c] \in Nat /\ req[c] \in Seq(Requests)
    BY <1>0 DEF TypeOK
  <2>2. Len(req[c]) \in Nat
    BY <2>1
  <2> QED
    BY <2>1, <2>2
<1> HIDE DEF c
<1>3. TypeOK'
  <2>1. <<rcv[c] + 1, to>> \in Nat \X Nat
    BY <1>2
  <2>2. hold' \in [Threads -> Nat \X Nat] /\ rcv' \in [Clients -> Nat]
    BY <1>0, <1>1, <1>2, <2>1 DEF TypeOK
  <2>3. pc' \in [Threads -> {"none", "created", "failed", "poll", "reply"}]
    BY DEF TypeOK, Recv
  <2> QED
    BY <2>2, <2>3 DEF TypeOK, Recv, accVars, cltVars
<1>4. HandOver'
  <2>1. server' = "spawn" => pc'[accepted'] = "none"
    BY ServerConstants DEF HandOver, Recv, TypeOK, Threads, accVars
  <2> QED
    BY ZenonT(60), <2>1 DEF HandOver, Recv, TypeOK, accVars, cltVars
<1>5. /\ \A d \in Clients : d # c => rcv'[d] = rcv[d]
      /\ rcv'[c] = to /\ hold'[k] = <<rcv[c] + 1, to>>
      /\ \A j \in Threads : j # k => hold'[j] = hold[j] /\ pc'[j] = pc[j]
  BY <1>0, <1>1 DEF TypeOK, Recv
<1>6. \A j \in Threads : j # k /\ pc'[j] = "reply" => pc[j] = "reply" /\ sock[j] # c /\ sock[j] \in Clients
  BY <1>0, <1>5 DEF OneThreadPerSocket, Recv, c
<1>7. Stream'
  <2>1. \A d \in Clients : rcv'[d] <= 3 * Len(req'[d])
    BY <1>2, <1>5 DEF Stream, Recv, cltVars
  <2>2. \A d \in Clients : \A i \in DOMAIN ans'[d] : 3 * ans'[d][i].of - 1 <= rcv'[d]
    <3> SUFFICES ASSUME NEW d \in Clients, NEW i \in DOMAIN ans[d]
                 PROVE  3 * ans[d][i].of - 1 <= rcv'[d]
      BY DEF Recv
    <3>1. 3 * ans[d][i].of - 1 <= rcv[d] /\ ans[d][i].of \in Nat /\ rcv[d] \in Nat
      BY AnswersTyped DEF Stream, TypeOK
    <3>2. rcv'[d] \in Nat /\ rcv[d] <= rcv'[d]
      <4>1. CASE d = c
        BY <4>1, <1>2, <1>5
      <4>2. CASE d # c
        BY <4>2, <3>1, <1>5
      <4> QED
        BY <4>1, <4>2
    <3>3. PICK n \in Nat : n = ans[d][i].of
      BY <3>1
    <3>4. 3 * n - 1 <= rcv'[d]
      BY <3>1, <3>2, <3>3
    <3> QED
      BY <3>3, <3>4
  <2>3. ASSUME NEW j \in Threads, pc'[j] = "reply"
        PROVE  /\ hold'[j][1] > 0 /\ hold'[j][1] <= hold'[j][2]
               /\ hold'[j][2] = rcv'[sock'[j]]
               /\ \A i \in DOMAIN ans'[sock'[j]] : 3 * ans'[sock'[j]][i].of - 1 < hold'[j][1]
    <3>1. CASE j = k
      <4>1. sock'[j] = c /\ ans' = ans
        BY <3>1 DEF Recv, c
      <4>2. \A i \in DOMAIN ans[c] : 3 * ans[c][i].of - 1 <= rcv[c] /\ ans[c][i].of \in Nat
        BY <1>0, AnswersTyped DEF Stream
      <4> QED
        BY <3>1, <4>1, <4>2, <1>2, <1>5
    <3>2. CASE j # k
      <4>1. sock' = sock /\ ans' = ans
        BY DEF Recv
      <4> QED
        BY <3>2, <4>1, <1>5, <1>6, <2>3 DEF Stream
    <3> QED
      BY <3>1, <3>2
  <2> QED
    BY <2>1, <2>2, <2>3 DEF Stream
<1>8. EchoesInOrder'
  BY DEF EchoesInOrder, Recv
<1> QED
  BY <1>3, <1>4, <1>7, <1>8

LEMMA ReplyInv ==
  ASSUME IInv, NEW k \in Threads, Reply(k)
  PROVE  IInv'
<1> USE DEF IInv
<1> DEFINE c    == sock[k]
           from == hold[k][1]
           to   == hold[k][2]
<1>0. OneThreadPerSocket /\ c \in Clients
  <2>1. k \in 1..accepted /\ sock[k] = heap[k]
    BY DEF Reply, TypeOK, HandOver, Threads
  <2> QED
    BY <2>1, Sockets DEF HandOver
<1>1. /\ from \in Nat /\ to \in Nat /\ from > 0 /\ from <= to /\ to = rcv[c]
      /\ \A i \in DOMAIN ans[c] : 3 * ans[c][i].of - 1 < from
      /\ rcv[c] \in Nat /\ req[c] \in Seq(Requests) /\ to <= 3 * Len(req[c])
  BY <1>0 DEF TypeOK, Stream, Reply
<1>2. \A j \in Threads : pc'[j] = "reply" => pc[j] = "reply" /\ j # k /\ sock[j] # c /\ sock[j] \in Clients
  BY <1>0 DEF TypeOK, Reply, OneThreadPerSocket
<1>a. server' = "spawn" => pc'[accepted'] = "none"
  <2>1. server' = "spawn" => server = "spawn"
    BY DEF Reply
  <2> QED
    BY <2>1, ServerConstants DEF HandOver, Reply, TypeOK, Threads
<1>3. CASE peer[c] = "gone"
  <2>1. ans' = ans /\ server' \in {server, "exited"} /\ late' = [late EXCEPT ![c] = TRUE]
    BY <1>3 DEF Reply
  <2>2. TypeOK'
    BY <2>1 DEF TypeOK, Reply, cltVars
  <2>3. HandOver'
    <3>1. /\ UNCHANGED <<accepted, CltInfo, heap, arg, sock, backlog, peer>>
          /\ server' \in {server, "exited"}
          /\ \A j \in Threads : pc'[j] = pc[j] \/ (pc'[j] = "poll" /\ pc[j] = "reply")
      BY <2>1 DEF TypeOK, Reply, cltVars
    <3> QED
      BY <1>a, <3>1 DEF HandOver
  <2>4. Stream' /\ EchoesInOrder'
    BY <1>2, <2>1 DEF Stream, EchoesInOrder, Reply, cltVars
  <2> QED
    BY <2>2, <2>3, <2>4
<1>4. CASE peer[c] # "gone"
  <2>1. PICK a \in Answers(req[c], from, to) : ans' = [ans EXCEPT ![c] = Append(@, a)]
    BY <1>4 DEF Reply
  <2>2. a \in Answer /\ a.of \in Nat /\ (a.of # 0 => a.of = ReqOf(from) /\ from <= 3 * a.of - 1 /\ 3 * a.of - 1 <= to)
    BY <1>1, AnswersShape DEF Answer
  <2>3. ans[c] \in Seq(Answer) /\ (\A i \in DOMAIN ans[c] : ans[c][i].of \in Nat)
        /\ Len(ans[c]) \in Nat /\ DOMAIN ans[c] = 1..Len(ans[c])
    BY <1>0, AnswersTyped
  <2> HIDE DEF c, from, to
  <2>4. /\ ans'[c] = Append(ans[c], a)
        /\ \A d \in Clients : d # c => ans'[d] = ans[d]
    BY <1>0, <2>1 DEF TypeOK
  <2>5. /\ DOMAIN ans'[c] = 1..Len(ans[c]) + 1
        /\ \A i \in 1..Len(ans[c]) : ans'[c][i] = ans[c][i]
        /\ ans'[c][Len(ans[c]) + 1] = a
    BY <2>2, <2>3, <2>4
  <2>6. server' = server /\ late' = late
    BY <1>4 DEF Reply, c
  <2>7. TypeOK'
    <3>1. Append(ans[c], a) \in Seq(Answer)
      BY <2>2, <2>3
    <3>2. ans' \in [Clients -> Seq(Answer)]
      BY <1>0, <2>1, <3>1 DEF TypeOK, Answer, Tags
    <3> QED
      BY <2>6, <3>2 DEF TypeOK, Reply, cltVars, Answer, Tags
  <2>8. HandOver'
    <3>1. /\ UNCHANGED <<accepted, CltInfo, heap, arg, sock, backlog, peer, server>>
          /\ \A j \in Threads : pc'[j] = pc[j] \/ (pc'[j] = "poll" /\ pc[j] = "reply")
      BY <2>6 DEF TypeOK, Reply, cltVars
    <3> QED
      BY <1>a, <3>1 DEF HandOver
  <2>9. Stream'
    <3>1. \A d \in Clients : rcv'[d] <= 3 * Len(req'[d])
      BY DEF Stream, Reply, cltVars
    <3>2. ASSUME NEW j \in Threads, pc'[j] = "reply"
          PROVE  /\ hold'[j][1] > 0 /\ hold'[j][1] <= hold'[j][2]
                 /\ hold'[j][2] = rcv'[sock'[j]]
                 /\ \A i \in DOMAIN ans'[sock'[j]] : 3 * ans'[sock'[j]][i].of - 1 < hold'[j][1]
      BY <1>2, <2>4, <3>2 DEF Stream, Reply
    <3>3. ASSUME NEW d \in Clients, NEW i \in DOMAIN ans'[d]
          PROVE  3 * ans'[d][i].of - 1 <= rcv'[d]
      <4>1. rcv' = rcv
        BY DEF Reply
      <4>2. CASE d # c
        BY <2>4, <4>1, <4>2, <3>3 DEF Stream
      <4>3. CASE d = c /\ i \in 1..Len(ans[c])
        BY <1>0, <2>3, <2>5, <4>1, <4>3 DEF Stream
      <4>4. CASE d = c /\ i = Len(ans[c]) + 1
        BY <1>1, <2>2, <2>5, <4>1, <4>4
      <4> QED
        BY <2>3, <2>5, <3>3, <4>2, <4>3, <4>4
    <3> QED
      BY <3>1, <3>2, <3>3 DEF Stream
  <2>10. EchoesInOrder'
    <3> SUFFICES ASSUME NEW d \in Clients, NEW i \in DOMAIN ans'[d], NEW j \in DOMAIN ans'[d],
                        i < j, ans'[d][i].of # 0, ans'[d][j].of # 0
                 PROVE  ans'[d][i].of < ans'[d][j].of
      BY DEF EchoesInOrder
    <3>1. CASE d # c
      BY <2>4, <3>1 DEF EchoesInOrder
    <3>2. CASE d = c /\ j \in 1..Len(ans[c])
      <4>1. i \in 1..Len(ans[c])
        BY <2>3, <2>5, <3>2
      <4> QED
        BY <1>0, <2>3, <2>5, <3>2, <4>1 DEF EchoesInOrder
    <3>3. CASE d = c /\ j = Len(ans[c]) + 1
      <4>1. i \in 1..Len(ans[c])
        BY <2>3, <2>5, <3>3
      <4>2. ans'[c][i] = ans[c][i] /\ 3 * ans[c][i].of - 1 < from /\ ans[c][i].of \in Nat
        BY <1>1, <2>3, <2>5, <4>1
      <4>3. ans'[d][j] = a /\ from <= 3 * a.of - 1 /\ a.of \in Nat
        BY <2>2, <2>5, <3>3
      <4> QED
        BY <1>1, <3>3, <4>2, <4>3
    <3> QED
      BY <2>3, <2>5, <3>1, <3>2, <3>3
  <2> QED
    BY <2>7, <2>8, <2>9, <2>10
<1> QED
  BY <1>3, <1>4

LEMMA SendInv ==
  ASSUME IInv, NEW c \in Clients, NEW r \in Requests, Send(c, r)
  PROVE  IInv'
<1> USE DEF IInv
<1>1. req[c] \in Seq(Requests) /\ Append(req[c], r) \in Seq(Requests)
      /\ Len(Append(req[c], r)) = Len(req[c]) + 1 /\ Len(req[c]) \in Nat
  BY DEF TypeOK
<1>2. TypeOK'
  BY <1>1 DEF TypeOK, Send, accVars, thrVars, connVars
<1>3. HandOver'
  BY DEF HandOver, Send, accVars, thrVars
<1>4. \A d \in Clients : Len(req[d]) <= Len(req'[d]) /\ Len(req[d]) \in Nat /\ Len(req'[d]) \in Nat
  BY <1>1 DEF TypeOK, Send
<1>5. Stream'
  <2>1. \A d \in Clients : rcv'[d] <= 3 * Len(req'[d])
    <3> SUFFICES ASSUME NEW d \in Clients PROVE rcv[d] <= 3 * Len(req'[d])
      BY DEF Send, connVars
    <3>1. rcv[d] \in Nat /\ rcv[d] <= 3 * Len(req[d])
      BY DEF TypeOK, Stream
    <3> QED
      BY <1>4, <3>1
  <2> QED
    BY <2>1 DEF Stream, Send, thrVars, connVars
<1>6. EchoesInOrder'
  BY DEF EchoesInOrder, Send, connVars
<1> QED
  BY <1>2, <1>3, <1>5, <1>6

LEMMA ConnectInv ==
  ASSUME IInv, NEW c \in Clients, Connect(c)
  PROVE  IInv'
<1> USE DEF IInv, Connect, accVars, thrVars, connVars
<1>1. TypeOK'
  BY DEF TypeOK
<1>2. HandOver'
  <2>1. \A k \in 1..accepted : heap[k] \in Clients /\ heap[k] # c
    BY DEF HandOver
  <2>2. \A d \in Clients : peer[d] # "idle" => peer'[d] # "idle"
    BY DEF TypeOK
  <2>3. peer'[c] # "idle" /\ backlog \subseteq Clients
    BY DEF TypeOK
  <2>4. \A k \in 1..accepted' :
          heap'[k] \in Clients /\ heap'[k] \notin backlog' /\ peer'[heap'[k]] # "idle"
    BY <2>1, <2>2 DEF HandOver
  <2>5. \A d \in backlog' : peer'[d] # "idle"
    BY <2>2, <2>3 DEF HandOver
  <2> QED
    BY <2>4, <2>5 DEF HandOver
<1>3. Stream' /\ EchoesInOrder'
  BY DEF Stream, EchoesInOrder
<1> QED
  BY <1>1, <1>2, <1>3

\* The steps of a client that change neither its connection nor its requests.
LEMMA ClientInv ==
  ASSUME IInv, NEW c \in Clients,
         SendEmpty(c) \/ Receive(c) \/ ReceiveEnd(c) \/ Leave(c)
  PROVE  IInv'
<1> USE DEF IInv, SendEmpty, Receive, ReceiveEnd, Leave, accVars, thrVars, connVars
<1>1. backlog' = backlog /\ req' = req /\ UNCHANGED <<accVars, thrVars, connVars>>
  OBVIOUS
<1>2. waiting' \in [Clients -> BOOLEAN]
  BY DEF TypeOK
<1>3. read' \in [Clients -> Nat]
  <2>1. CASE Receive(c)
    <3>1. PICK r \in read[c] + 1 .. Len(ans[c]) : read' = [read EXCEPT ![c] = r]
      BY <2>1
    <3>2. read[c] \in Nat
      BY DEF TypeOK
    <3>3. ans[c] \in Seq(Answer)
      BY AnswersTyped
    <3>4. r \in Nat
      BY <3>2, <3>3
    <3> QED
      BY <3>1, <3>4 DEF TypeOK
  <2>2. CASE ~Receive(c)
    BY <2>2 DEF TypeOK
  <2> QED
    BY <2>1, <2>2
<1>4. peer' \in [Clients -> {"idle", "up", "gone"}]
      /\ \A d \in Clients : peer[d] # "idle" => peer'[d] # "idle"
  BY DEF TypeOK
<1>5. TypeOK'
  BY <1>1, <1>2, <1>3, <1>4 DEF TypeOK
<1>6. HandOver'
  BY <1>1, <1>4 DEF HandOver, TypeOK
<1>7. Stream' /\ EchoesInOrder'
  BY <1>1 DEF Stream, EchoesInOrder
<1> QED
  BY <1>5, <1>6, <1>7

LEMMA NextInv ==
  ASSUME IInv, [Next]_vars
  PROVE  IInv'
<1>1. CASE AcceptLoop
  BY <1>1, AcceptInv, AcceptFailsInv, StartThreadInv DEF AcceptLoop
<1>2. ASSUME NEW k \in Threads, OneConn(k) PROVE IInv'
  BY <1>2, CopyInfoInv, RecvInv, ReplyInv, ReplyCrashesInv DEF OneConn
<1>3. ASSUME NEW c \in Clients, Client(c) PROVE IInv'
  BY <1>3, ConnectInv, ClientInv, SendInv DEF Client
<1>4. CASE UNCHANGED vars
  BY <1>4 DEF vars, accVars, thrVars, cltVars, connVars,
              IInv, TypeOK, HandOver, Stream, EchoesInOrder
<1> QED
  BY <1>1, <1>2, <1>3, <1>4 DEF Next

\* The invariant, for any number of clients, connections and requests.
THEOREM Invariant == Spec => []IInv
<1>1. Init => IInv
  BY InitInv
<1>2. IInv /\ [Next]_vars => IInv'
  BY NextInv
<1> QED
  BY <1>1, <1>2, PTL DEF Spec

\* Type correctness.
THEOREM Typed == Spec => []TypeOK
<1>1. IInv => TypeOK
  BY DEF IInv
<1> QED
  BY <1>1, Invariant, PTL

\* The pointer handed from accept to a thread is still its own client's when
\* the thread follows it, however late that is.
THEOREM SocketsApart == Spec => []OneThreadPerSocket
<1>1. IInv => OneThreadPerSocket
  BY Sockets DEF IInv
<1> QED
  BY <1>1, Invariant, PTL

\* However TCP cuts the stream, no request is echoed twice or out of order.
THEOREM EchoOrder == Spec => []EchoesInOrder
<1>1. IInv => EchoesInOrder
  BY DEF IInv
<1> QED
  BY <1>1, Invariant, PTL

-----------------------------------------------------------------------------
(* The refinement of StreamEcho *)

\* Every answer has taken a piece of the stream, and what a thread holds has
\* not been answered yet.
Counted ==
  /\ \A c \in Clients : Len(ans[c]) <= rcv[c]
  /\ \A k \in Threads : pc[k] = "reply" => Len(ans[sock[k]]) < hold[k][1]

\* The steps that neither receive nor answer anything.
LEMMA CountedKept ==
  ASSUME Counted, UNCHANGED <<hold, ans, rcv>>,
         \A k \in Threads : pc'[k] = "reply" => pc[k] = "reply" /\ sock'[k] = sock[k]
  PROVE  Counted'
  BY DEF Counted

\* The client whose connection a thread serves.
LEMMA Serves ==
  ASSUME IInv, NEW k \in Threads, pc[k] \in {"poll", "reply"}
  PROVE  /\ sock[k] \in Clients
         /\ \A j \in Threads : j # k /\ pc[j] = "reply" => sock[j] # sock[k] /\ sock[j] \in Clients
<1>1. k \in 1..accepted /\ sock[k] = heap[k]
  BY DEF IInv, TypeOK, HandOver, Threads
<1>2. sock[k] \in Clients
  BY <1>1 DEF IInv, HandOver
<1>3. OneThreadPerSocket
  BY Sockets DEF IInv
<1>4. ASSUME NEW j \in Threads, j # k, pc[j] = "reply"
      PROVE  sock[j] # sock[k] /\ sock[j] \in Clients
  BY <1>3, <1>4 DEF OneThreadPerSocket
<1> QED
  BY <1>2, <1>4

LEMMA CountedRecv ==
  ASSUME IInv, Counted, NEW k \in Threads, Recv(k)
  PROVE  Counted'
<1>1. PICK c \in Clients : c = sock[k] /\ \A j \in Threads : j # k /\ pc[j] = "reply" => sock[j] # c
  BY Serves DEF Recv
<1>2. PICK to \in rcv[c] + 1 .. 3 * Len(req[c]) :
        hold' = [hold EXCEPT ![k] = <<rcv[c] + 1, to>>] /\ rcv' = [rcv EXCEPT ![c] = to]
  BY <1>1 DEF Recv
<1>3. PICK n \in Nat, m \in Nat : n = rcv[c] /\ m = Len(ans[c])
  <2>1. ans[c] \in Seq(Answer)
    BY AnswersTyped DEF IInv
  <2> QED BY <2>1 DEF IInv, TypeOK
<1>4. to \in Nat /\ n < to /\ m <= n
  BY <1>3 DEF Counted
<1>5. /\ ans' = ans /\ sock' = sock /\ rcv'[c] = to /\ hold'[k] = <<n + 1, to>>
      /\ \A d \in Clients : d # c => rcv'[d] = rcv[d]
      /\ \A j \in Threads : j # k => hold'[j] = hold[j] /\ pc'[j] = pc[j]
  BY <1>2, <1>3 DEF Recv, IInv, TypeOK
<1>6. ASSUME NEW d \in Clients PROVE Len(ans'[d]) <= rcv'[d]
  <2>1. CASE d = c
    <3>1. m <= to
      BY <1>4
    <3> QED BY <1>3, <1>5, <2>1, <3>1
  <2>2. CASE d # c
    BY <1>5, <2>2 DEF Counted
  <2> QED BY <2>1, <2>2
<1>7. ASSUME NEW j \in Threads, pc'[j] = "reply" PROVE Len(ans'[sock'[j]]) < hold'[j][1]
  <2>1. CASE j = k
    <3>1. m < n + 1
      BY <1>4
    <3> QED BY <1>1, <1>3, <1>5, <2>1, <3>1
  <2>2. CASE j # k
    BY <1>5, <1>7, <2>2 DEF Counted
  <2> QED BY <2>1, <2>2
<1> QED
  BY <1>6, <1>7 DEF Counted

LEMMA CountedReply ==
  ASSUME IInv, Counted, NEW k \in Threads, Reply(k)
  PROVE  Counted'
<1>1. PICK c \in Clients : c = sock[k] /\ \A j \in Threads : j # k /\ pc[j] = "reply" => sock[j] # c /\ sock[j] \in Clients
  BY Serves DEF Reply
<1>2. /\ hold' = hold /\ sock' = sock /\ rcv' = rcv
      /\ pc[k] = "reply" /\ pc' = [pc EXCEPT ![k] = "poll"]
  BY DEF Reply
<1>3. \A j \in Threads : pc'[j] = "reply" => pc[j] = "reply" /\ j # k
  BY <1>2 DEF IInv, TypeOK
<1>4. CASE peer[c] = "gone"
  BY <1>1, <1>2, <1>3, <1>4, CountedKept DEF Reply
<1>5. CASE peer[c] # "gone"
  <2>1. PICK a : ans' = [ans EXCEPT ![c] = Append(@, a)]
    BY <1>1, <1>5 DEF Reply
  <2>2. /\ ans'[c] = Append(ans[c], a)
        /\ \A d \in Clients : d # c => ans'[d] = ans[d]
    BY <2>1 DEF IInv, TypeOK
  <2>3. PICK m \in Nat : m = Len(ans[c]) /\ Len(ans'[c]) = m + 1
    <3>1. ans[c] \in Seq(Answer)
      BY AnswersTyped DEF IInv
    <3> QED BY <2>2, <3>1
  <2>4. PICK from \in Nat, to \in Nat : from = hold[k][1] /\ to = hold[k][2]
    BY DEF IInv, TypeOK
  <2>5. m < from /\ from <= to /\ to = rcv[c]
    BY <1>1, <1>2, <2>3, <2>4 DEF Counted, IInv, Stream
  <2>6. m + 1 <= to
    BY <2>5
  <2>7. ASSUME NEW d \in Clients PROVE Len(ans'[d]) <= rcv'[d]
    <3>1. CASE d = c
      BY <1>2, <2>3, <2>5, <2>6, <3>1
    <3>2. CASE d # c
      BY <1>2, <2>2, <3>2 DEF Counted
    <3> QED BY <3>1, <3>2
  <2>8. ASSUME NEW j \in Threads, pc'[j] = "reply" PROVE Len(ans'[sock'[j]]) < hold'[j][1]
    BY <1>1, <1>2, <1>3, <2>2, <2>8 DEF Counted
  <2> QED BY <2>7, <2>8 DEF Counted
<1> QED
  BY <1>4, <1>5

LEMMA CountedStep ==
  ASSUME IInv, Counted, [Next]_vars
  PROVE  Counted'
<1>1. ASSUME NEW c \in Clients, Accept(c) PROVE Counted'
  BY <1>1, CountedKept DEF Accept, thrVars, connVars
<1>2. CASE AcceptFails
  BY <1>2, CountedKept DEF AcceptFails, thrVars, connVars
<1>3. CASE StartThread
  <2>1. UNCHANGED <<hold, ans, rcv, sock>>
    BY <1>3 DEF StartThread, connVars
  <2>2. \A k \in Threads : pc'[k] = "reply" => pc[k] = "reply"
    BY <1>3 DEF StartThread, IInv, TypeOK
  <2> QED BY <2>1, <2>2, CountedKept
<1>4. ASSUME NEW k \in Threads, CopyInfo(k) PROVE Counted'
  <2>1. UNCHANGED <<hold, ans, rcv>>
    BY <1>4 DEF CopyInfo, connVars
  <2>2. \A j \in Threads : pc'[j] = "reply" => pc[j] = "reply" /\ sock'[j] = sock[j]
    BY <1>4 DEF CopyInfo, IInv, TypeOK
  <2> QED BY <2>1, <2>2, CountedKept
<1>5. ASSUME NEW k \in Threads, Recv(k) \/ Reply(k) \/ ReplyCrashes(k) PROVE Counted'
  BY <1>5, CountedRecv, CountedReply, CountedKept DEF ReplyCrashes, thrVars, connVars
<1>6. ASSUME NEW c \in Clients, Client(c) PROVE Counted'
  <2>1. UNCHANGED <<thrVars, connVars>>
    BY <1>6 DEF Client, Connect, Send, SendEmpty, Receive, ReceiveEnd, Leave
  <2> QED BY <2>1, CountedKept DEF thrVars, connVars
<1>7. CASE UNCHANGED vars
  BY <1>7, CountedKept DEF vars, thrVars, connVars
<1> QED
  BY <1>1, <1>2, <1>3, <1>4, <1>5, <1>6, <1>7 DEF Next, AcceptLoop, OneConn

Refusals == {"null", "error", "garbled"}

\* A part of a frame is refused, or the frame echoed as it deserves.
LEMMA FrameTagsRight ==
  ASSUME NEW r \in Requests, r.kind = "frame",
         NEW first \in 1..3, NEW last \in 1..3, first <= last,
         NEW t \in FrameTags(r, first, last)
  PROVE  t \in Refusals \/ (t = Right(r) /\ t \in {"echo", "cut"})
<1>1. Right(r) = EchoTag(r.n)
  BY DEF Right
<1>2. CASE first > 1
  BY <1>2 DEF FrameTags, Refusals
<1>3. CASE first = 1 /\ (last = 1 \/ HeadHasZero(r.n))
  BY <1>3 DEF FrameTags, Refusals
<1>4. CASE first = 1 /\ last = 2 /\ ~HeadHasZero(r.n)
  BY <1>4 DEF FrameTags, Refusals
<1>5. CASE first = 1 /\ last = 3 /\ ~HeadHasZero(r.n)
  <2>1. t = EchoTag(r.n) \/ t \in Refusals
    BY <1>5 DEF FrameTags, Refusals
  <2>2. EchoTag(r.n) \in {"echo", "cut"}
    BY <1>5 DEF EchoTag
  <2> QED BY <1>1, <2>1, <2>2
<1> QED
  BY <1>2, <1>3, <1>4, <1>5

\* The answer to a chunk is a refusal, or the right one to the request the
\* chunk begins in.
LEMMA AnswersRight ==
  ASSUME NEW rs \in Seq(Requests), NEW from \in Nat, NEW to \in Nat,
         from > 0, from <= to, to <= 3 * Len(rs),
         NEW a \in Answers(rs, from, to)
  PROVE  \/ \E t \in Refusals : a = [tag |-> t, of |-> 0]
         \/ /\ a.of = ReqOf(from) /\ a.of \in DOMAIN rs
            /\ a = [tag |-> Right(rs[a.of]), of |-> a.of]
            /\ Right(rs[a.of]) \notin Refusals
<1> DEFINE i     == ReqOf(from)
           first == from - FirstOf(i) + 1
           last  == IF to < LastOf(i) THEN to - FirstOf(i) + 1 ELSE 3
<1>1. i \in Nat /\ i > 0 /\ FirstOf(i) <= from /\ from <= LastOf(i)
  BY ReqOfPiece
<1>2. i \in DOMAIN rs
  BY <1>1 DEF FirstOf
<1>3. PICK r \in Requests : r = rs[i]
  BY <1>2
<1>4. first \in 1..3 /\ last \in 1..3 /\ first <= last
  BY <1>1 DEF FirstOf, LastOf
<1>5. PICK t \in RequestTags(rs[i], first, last) :
        a = [tag |-> t, of |-> IF t \in {"accept", "echo", "cut"} THEN i ELSE 0]
  BY DEF Answers
<1> HIDE DEF first, last, i
<1>6. t \in Refusals \/ (t = Right(r) /\ t \in {"accept", "echo", "cut"})
  <2>1. CASE r.kind = "hello"
    <3>1. t \in HelloTags(first, last)
      BY <1>3, <1>5, <2>1 DEF RequestTags
    <3>2. t \in {"null", "error"} \/ t = "accept"
      BY <3>1 DEF HelloTags
    <3> QED BY <2>1, <3>2 DEF Right, Refusals
  <2>2. CASE r.kind = "line"
    BY <1>3, <1>5, <2>2 DEF RequestTags, Refusals
  <2>3. CASE r.kind = "frame"
    <3>1. t \in FrameTags(r, first, last)
      BY <1>3, <1>5, <2>3 DEF RequestTags
    <3> QED BY <1>4, <2>3, <3>1, FrameTagsRight
  <2> QED BY <2>1, <2>2, <2>3, RequestKinds
<1>7. CASE t \in Refusals
  BY <1>5, <1>7 DEF Refusals
<1>8. CASE t = Right(r) /\ t \in {"accept", "echo", "cut"}
  <2>1. a = [tag |-> Right(rs[i]), of |-> i] /\ a.of = i
    BY <1>3, <1>5, <1>8
  <2>2. Right(rs[i]) \notin Refusals
    BY <1>3, <1>8 DEF Refusals
  <2> QED BY <1>2, <2>1, <2>2 DEF i
<1> QED
  BY <1>6, <1>7, <1>8

\* The answer a client that stays is sent is the service's answer to it.
LEMMA ReplyIsServed ==
  ASSUME IInv, Counted, NEW k \in Threads, Reply(k),
         NEW c \in Clients, c = sock[k], peer[c] # "gone"
  PROVE  S!Next
<1>1. PICK from \in Nat, to \in Nat : from = hold[k][1] /\ to = hold[k][2]
  BY DEF IInv, TypeOK
<1>2. PICK a \in Answers(req[c], from, to) : ans' = [ans EXCEPT ![c] = Append(@, a)]
  BY <1>1 DEF Reply
<1>3. PICK m \in Nat, n \in Nat : m = Len(ans[c]) /\ n = Len(req[c])
  <2>1. ans[c] \in Seq(Answer) /\ req[c] \in Seq(Requests)
    BY AnswersTyped DEF IInv, TypeOK
  <2> QED BY <2>1
<1>4. from > 0 /\ from <= to /\ to = rcv[c] /\ m < from
  BY <1>1, <1>3 DEF Reply, Counted, IInv, Stream
<1>5. to <= 3 * n
  BY <1>3, <1>4 DEF IInv, Stream
<1>6. m < 3 * n
  BY <1>4, <1>5
<1>7. server # "exited" /\ server' = server /\ req' = req /\ peer' = peer
  BY DEF Reply, cltVars
<1>8. c \notin {d \in Clients : peer[d] = "gone"}
  OBVIOUS
<1>9. S!Give(c, a)
  BY <1>2, <1>3, <1>6, <1>7, <1>8 DEF S!Give
<1>10. ASSUME NEW t \in {"null", "error", "garbled"}, a = [tag |-> t, of |-> 0] PROVE S!Next
  <2>1. S!Refuse(c, t)
    BY <1>9, <1>10 DEF S!Refuse
  <2> QED BY <2>1 DEF S!Next
<1>12. req[c] \in Seq(Requests) /\ to <= 3 * Len(req[c])
  BY <1>3, <1>5 DEF IInv, TypeOK
<1>11. ASSUME a.of = ReqOf(from), a.of \in DOMAIN req[c],
              a = [tag |-> Right(req[c][a.of]), of |-> a.of], Right(req[c][a.of]) \notin Refusals
       PROVE  S!Next
  <2>1. PICK i \in DOMAIN req[c] : i = a.of
    BY <1>11
  <2>2. i \in Nat /\ from <= 3 * i - 1
    <3>1. i # 0 /\ i \in Nat
      BY <1>3, <2>1 DEF IInv, TypeOK
    <3> QED BY <1>2, <1>4, <1>12, <2>1, <3>1, AnswersShape
  <2>3. \A j \in DOMAIN ans[c] : ans[c][j].of < i
    <3> SUFFICES ASSUME NEW j \in DOMAIN ans[c] PROVE ans[c][j].of < i
      OBVIOUS
    <3>1. PICK p \in Nat : p = ans[c][j].of
      BY AnswersTyped DEF IInv
    <3>2. 3 * p - 1 < from
      BY <1>1, <3>1 DEF Reply, IInv, Stream
    <3> QED BY <2>2, <3>1, <3>2
  <2>4. Right(req[c][i]) \notin {"null", "error", "garbled"}
    BY <1>11, <2>1 DEF Refusals
  <2>5. a = [tag |-> Right(req[c][i]), of |-> i]
    BY <1>11, <2>1
  <2>6. S!Give(c, [tag |-> Right(req[c][i]), of |-> i])
    BY <1>2, <1>3, <1>6, <1>7, <1>8, <2>5 DEF S!Give
  <2>7. S!Answer(c, i)
    BY <2>3, <2>4, <2>6 DEF S!Answer
  <2> QED BY <2>1, <2>7 DEF S!Next
<1> QED
  BY <1>2, <1>4, <1>10, <1>11, <1>12, AnswersRight DEF Refusals

\* Each step is one of the service, or none of its business.
LEMMA StepIsServiceStep ==
  ASSUME IInv, Counted, [Next]_vars
  PROVE  [S!Next]_(S!vars)
<1>1. ASSUME UNCHANGED <<peer, req, ans>>, server # "exited"
      PROVE  S!Next \/ UNCHANGED S!vars
  <2>1. CASE server' # "exited"
    BY <1>1, <2>1 DEF S!vars
  <2>2. CASE server' = "exited"
    BY <1>1, <2>2 DEF S!Next, S!End
  <2> QED BY <2>1, <2>2
<1>2. ASSUME UNCHANGED <<peer, req, ans, server>> PROVE UNCHANGED S!vars
  BY <1>2 DEF S!vars
<1>3. ASSUME NEW c \in Clients, Accept(c) PROVE S!Next \/ UNCHANGED S!vars
  BY <1>1, <1>3 DEF Accept, connVars
<1>4. ASSUME AcceptFails \/ StartThread \/ \E k \in Threads : ReplyCrashes(k)
      PROVE  S!Next \/ UNCHANGED S!vars
  BY <1>1, <1>4 DEF AcceptFails, StartThread, ReplyCrashes, cltVars, connVars
<1>5. ASSUME NEW k \in Threads, CopyInfo(k) \/ Recv(k) PROVE UNCHANGED S!vars
  BY <1>2, <1>5 DEF CopyInfo, Recv, accVars, cltVars, connVars
<1>6. ASSUME NEW k \in Threads, Reply(k) PROVE S!Next \/ UNCHANGED S!vars
  <2>1. PICK c \in Clients : c = sock[k]
    BY <1>6, Serves DEF Reply
  <2>2. CASE peer[c] # "gone"
    BY <1>6, <2>1, <2>2, ReplyIsServed
  <2>3. CASE peer[c] = "gone"
    <3>1. ans' = ans /\ req' = req /\ peer' = peer /\ server # "exited"
      BY <1>6, <2>1, <2>3 DEF Reply, cltVars
    <3> QED BY <1>1, <3>1
  <2> QED BY <2>2, <2>3
<1>7. ASSUME NEW c \in Clients, NEW r \in Requests, Send(c, r) PROVE S!Next
  <2>1. c \notin {d \in Clients : peer[d] = "gone"} /\ peer' = peer /\ ans' = ans
    BY <1>7 DEF Send, connVars
  <2>2. S!Ask(c, r)
    BY <1>7, <2>1 DEF S!Ask, Send, accVars
  <2> QED BY <2>2 DEF S!Next
<1>8. ASSUME NEW c \in Clients, Connect(c) PROVE UNCHANGED S!vars
  <2>1. UNCHANGED <<server, req, ans>> /\ peer[c] = "idle" /\ peer' = [peer EXCEPT ![c] = "up"]
    BY <1>8 DEF Connect, accVars, connVars
  <2>2. \A d \in Clients : peer'[d] = "gone" <=> peer[d] = "gone"
    BY <2>1 DEF IInv, TypeOK
  <2> QED BY <2>1, <2>2 DEF S!vars
<1>9. ASSUME NEW c \in Clients, SendEmpty(c) \/ Receive(c) \/ ReceiveEnd(c) PROVE UNCHANGED S!vars
  BY <1>2, <1>9 DEF SendEmpty, Receive, ReceiveEnd, accVars, connVars
<1>10. ASSUME NEW c \in Clients, Leave(c) PROVE S!Next
  <2>1. UNCHANGED <<server, req, ans>> /\ peer[c] = "up" /\ peer' = [peer EXCEPT ![c] = "gone"]
    BY <1>10 DEF Leave, accVars, connVars
  <2>2. peer'[c] = "gone" /\ \A d \in Clients : d # c => peer'[d] = peer[d]
    BY <2>1 DEF IInv, TypeOK
  <2>3. {d \in Clients : peer'[d] = "gone"} = {d \in Clients : peer[d] = "gone"} \cup {c}
    BY <2>2
  <2>4. ans[c] \in Seq(Answer)
    BY AnswersTyped DEF IInv
  <2>5. PICK m \in Nat : m = Len(ans[c]) /\ SubSeq(ans[c], 1, m) = ans[c]
    BY <2>4, SubSeqFull
  <2>6. m \in 0..Len(ans[c]) /\ ans' = [ans EXCEPT ![c] = SubSeq(@, 1, m)]
    BY <2>1, <2>5 DEF IInv, TypeOK
  <2>7. c \notin {d \in Clients : peer[d] = "gone"}
    BY <2>1
  <2>8. S!Leave(c)
    BY <2>1, <2>3, <2>6, <2>7 DEF S!Leave
  <2> QED BY <2>8 DEF S!Next
<1>11. CASE UNCHANGED vars
  BY <1>2, <1>11 DEF vars, accVars, cltVars, connVars
<1> QED
  BY <1>3, <1>4, <1>5, <1>6, <1>7, <1>8, <1>9, <1>10, <1>11 DEF Next, AcceptLoop, OneConn, Client

\* The threads give each client, on any network, what StreamEcho promises:
\* however recv cuts the stream, whoever leaves, and wherever the server ends.
THEOREM ThreadsServeStreams == Spec => ImplementsStreamEcho
<1>1. Init => Counted /\ S!Init
  <2> SUFFICES ASSUME Init PROVE Counted /\ S!Init
    OBVIOUS
  <2>1. Counted
    BY DEF Init, Counted
  <2>2. {c \in Clients : peer[c] = "gone"} = {}
    BY DEF Init
  <2> QED BY <2>1, <2>2 DEF S!Init, Init
<1>2. IInv /\ Counted /\ [Next]_vars => Counted' /\ [S!Next]_(S!vars)
  BY CountedStep, StepIsServiceStep
<1> QED
  BY <1>1, <1>2, Invariant, PTL DEF Spec, ImplementsStreamEcho, S!Spec

-----------------------------------------------------------------------------
(* The refinement of EchoService *)

GInv == IInv /\ Gentle /\ Exact

LEMMA ExactInit ==
  ASSUME Init
  PROVE  Exact /\ Gentle
<1>1. \A c \in Clients : Len(ans[c]) = 0 /\ rcv[c] = 0
  BY DEF Init
<1>2. Exact
  BY <1>1 DEF Init, Exact
<1>3. Gentle
  BY DEF Init, Gentle
<1> QED
  BY <1>2, <1>3

\* A step that leaves the stream and the threads alone keeps Exact, as nobody
\* comes back from "gone".
LEMMA ExactKept ==
  ASSUME GInv, UNCHANGED <<hold, sock, ans, rcv>>,
         \A k \in Threads : pc'[k] = "reply" <=> pc[k] = "reply",
         \A c \in Clients : peer'[c] # "gone" => peer[c] # "gone"
  PROVE  Exact'
<1>1. \A k \in Threads : pc[k] = "reply" => sock[k] \in Clients
  <2> SUFFICES ASSUME NEW k \in Threads, pc[k] = "reply" PROVE sock[k] \in Clients
    OBVIOUS
  <2>1. k \in 1..accepted /\ sock[k] = heap[k]
    BY DEF GInv, IInv, TypeOK, HandOver, Threads
  <2> QED
    BY <2>1 DEF GInv, IInv, HandOver
<1> QED
  BY <1>1 DEF GInv, Exact

LEMMA ExactRecv ==
  ASSUME GInv, NEW k \in Threads, Recv(k), Gentle'
  PROVE  Exact'
<1> DEFINE c == sock[k]
<1>0. OneThreadPerSocket /\ c \in Clients
  <2>1. k \in 1..accepted /\ sock[k] = heap[k]
    BY DEF Recv, GInv, IInv, TypeOK, HandOver, Threads
  <2> QED
    BY <2>1, Sockets DEF GInv, IInv, HandOver
<1>1. PICK to \in rcv[c] + 1 .. 3 * Len(req[c]) :
        hold' = [hold EXCEPT ![k] = <<rcv[c] + 1, to>>] /\ rcv' = [rcv EXCEPT ![c] = to]
  BY DEF Recv
<1>2. pc'[k] = "reply" /\ hold'[k] = <<rcv[c] + 1, to>> /\ sock' = sock /\ ans' = ans /\ peer' = peer
  BY <1>1 DEF Recv, GInv, IInv, TypeOK, cltVars
<1>3. PICK i \in 1..MaxMsgs[sock'[k]] : hold'[k] = <<FirstOf(i), LastOf(i)>>
  BY <1>2 DEF Gentle
<1>4. rcv[c] \in Nat /\ ans[c] \in Seq(Answer) /\ Len(ans[c]) \in Nat
  <2>1. ans[c] \in Seq(Answer)
    BY <1>0, AnswersTyped DEF GInv, IInv
  <2> QED
    BY <1>0, <2>1 DEF GInv, IInv, TypeOK
<1> HIDE DEF c
<1>5. rcv[c] + 1 = FirstOf(i) /\ to = LastOf(i) /\ to = rcv[c] + 3
  BY <1>2, <1>3, <1>4 DEF FirstOf, LastOf
<1>6. /\ \A d \in Clients : d # c => rcv'[d] = rcv[d]
      /\ \A j \in Threads : j # k => hold'[j] = hold[j] /\ pc'[j] = pc[j]
  BY <1>0, <1>1 DEF GInv, IInv, TypeOK, Recv
<1>7. \A j \in Threads : pc[j] = "reply" => sock[j] # c /\ j # k
  BY <1>0 DEF OneThreadPerSocket, Recv, c
<1>8. peer[c] # "gone" => rcv[c] = 3 * Len(ans[c])
  BY <1>0, <1>7 DEF GInv, Exact
<1>9. ASSUME NEW j \in Threads, pc'[j] = "reply", peer'[sock'[j]] # "gone"
      PROVE  hold'[j][1] = 3 * Len(ans'[sock'[j]]) + 1 /\ hold'[j][2] = 3 * Len(ans'[sock'[j]]) + 3
  <2>1. CASE j = k
    <3>1. sock'[j] = c /\ ans'[c] = ans[c] /\ peer[c] # "gone"
      BY <1>2, <1>9, <2>1 DEF c
    <3>2. rcv[c] = 3 * Len(ans[c]) /\ hold'[j] = <<rcv[c] + 1, rcv[c] + 3>>
      BY <1>2, <1>4, <1>5, <1>8, <2>1, <3>1
    <3> QED
      BY <1>4, <3>1, <3>2
  <2>2. CASE j # k
    BY <1>2, <1>6, <1>9, <2>2 DEF GInv, Exact
  <2> QED
    BY <2>1, <2>2
<1>10. ASSUME NEW d \in Clients, peer'[d] # "gone", \A j \in Threads : pc'[j] = "reply" => sock'[j] # d
       PROVE  rcv'[d] = 3 * Len(ans'[d])
  <2>1. d # c
    BY <1>2, <1>10 DEF c
  <2>2. \A j \in Threads : pc[j] = "reply" => sock[j] # d
    BY <1>2, <1>6, <1>7, <1>10
  <2> QED
    BY <1>2, <1>6, <1>10, <2>1, <2>2 DEF GInv, Exact
<1> QED
  BY <1>9, <1>10 DEF Exact

LEMMA ExactReply ==
  ASSUME GInv, NEW k \in Threads, Reply(k)
  PROVE  Exact'
<1> DEFINE c == sock[k]
<1>0. OneThreadPerSocket /\ c \in Clients
  <2>1. k \in 1..accepted /\ sock[k] = heap[k]
    BY DEF Reply, GInv, IInv, TypeOK, HandOver, Threads
  <2> QED
    BY <2>1, Sockets DEF GInv, IInv, HandOver
<1>1. /\ hold' = hold /\ sock' = sock /\ rcv' = rcv /\ peer' = peer
      /\ pc[k] = "reply" /\ pc' = [pc EXCEPT ![k] = "poll"]
  BY DEF Reply, cltVars
<1>2. \A j \in Threads : pc'[j] = "reply" => pc[j] = "reply" /\ j # k /\ sock[j] # c /\ sock[j] \in Clients
  BY <1>0, <1>1 DEF OneThreadPerSocket, GInv, IInv, TypeOK
<1>3. \A j \in Threads : pc[j] = "reply" /\ j # k => pc'[j] = "reply"
  BY <1>1 DEF GInv, IInv, TypeOK
<1>4. \A d \in Clients : d # c => ans'[d] = ans[d]
  BY <1>0 DEF Reply, GInv, IInv, TypeOK
<1>5. peer[c] # "gone" => rcv[c] = 3 * Len(ans'[c])
  <2> SUFFICES ASSUME peer[c] # "gone" PROVE rcv[c] = 3 * Len(ans'[c])
    OBVIOUS
  <2>1. hold[k][2] = rcv[c] /\ hold[k][2] = 3 * Len(ans[c]) + 3
    BY <1>1 DEF GInv, IInv, Stream, Exact
  <2>2. PICK a : ans' = [ans EXCEPT ![c] = Append(@, a)]
    BY DEF Reply
  <2>3. ans[c] \in Seq(Answer)
    BY <1>0, AnswersTyped DEF GInv, IInv
  <2>4. ans'[c] = Append(ans[c], a)
    BY <1>0, <2>2 DEF GInv, IInv, TypeOK
  <2> HIDE DEF c
  <2>5. Len(ans'[c]) = Len(ans[c]) + 1 /\ Len(ans[c]) \in Nat
    BY <2>3, <2>4
  <2> QED
    BY <2>1, <2>5
<1> HIDE DEF c
<1>6. ASSUME NEW j \in Threads, pc'[j] = "reply", peer'[sock'[j]] # "gone"
      PROVE  hold'[j][1] = 3 * Len(ans'[sock'[j]]) + 1 /\ hold'[j][2] = 3 * Len(ans'[sock'[j]]) + 3
  BY <1>1, <1>2, <1>4, <1>6 DEF GInv, Exact
<1>7. ASSUME NEW d \in Clients, peer'[d] # "gone", \A j \in Threads : pc'[j] = "reply" => sock'[j] # d
      PROVE  rcv'[d] = 3 * Len(ans'[d])
  <2>1. CASE d = c
    BY <1>1, <1>5, <1>7, <2>1
  <2>2. CASE d # c
    <3>1. \A j \in Threads : pc[j] = "reply" => sock[j] # d
      BY <1>1, <1>3, <1>7, <2>2 DEF c
    <3> QED
      BY <1>1, <1>4, <1>7, <2>2, <3>1 DEF GInv, Exact
  <2> QED
    BY <2>1, <2>2
<1> QED
  BY <1>6, <1>7 DEF Exact

LEMMA ExactNext ==
  ASSUME GInv, [Next /\ Gentle']_vars
  PROVE  GInv'
<1> USE DEF GInv
<1>1. IInv'
  BY NextInv
<1>2. Gentle'
  <2>1. CASE UNCHANGED vars
    BY <2>1 DEF Gentle, vars, thrVars, cltVars
  <2> QED
    BY <2>1
<1>3. Exact'
  <2>1. ASSUME NEW c \in Clients, Accept(c) PROVE Exact'
    <3>1. UNCHANGED <<hold, sock, ans, rcv, pc, peer>>
      BY <2>1 DEF Accept, thrVars, connVars
    <3> QED
      BY <3>1, ExactKept
  <2>2. CASE AcceptFails
    <3>1. UNCHANGED <<hold, sock, ans, rcv, pc, peer>>
      BY <2>2 DEF AcceptFails, thrVars, cltVars, connVars
    <3> QED
      BY <3>1, ExactKept
  <2>3. CASE StartThread
    <3>1. UNCHANGED <<hold, sock, ans, rcv, peer>>
      BY <2>3 DEF StartThread, cltVars, connVars
    <3>2. \A k \in Threads : pc'[k] = "reply" <=> pc[k] = "reply"
      BY <2>3 DEF StartThread, IInv, TypeOK, HandOver
    <3> QED
      BY <3>1, <3>2, ExactKept
  <2>4. ASSUME NEW k \in Threads, CopyInfo(k) PROVE Exact'
    <3>1. UNCHANGED <<hold, ans, rcv, peer>> /\ pc[k] = "created" /\ pc' = [pc EXCEPT ![k] = "poll"]
          /\ \A j \in Threads : j # k => sock'[j] = sock[j]
      BY <2>4 DEF CopyInfo, cltVars, connVars, IInv, TypeOK
    <3>2. \A j \in Threads : (pc'[j] = "reply" <=> pc[j] = "reply") /\ (pc[j] = "reply" => sock'[j] = sock[j])
      BY <3>1 DEF IInv, TypeOK
    <3>3. \A j \in Threads : pc'[j] = "reply" /\ peer'[sock'[j]] # "gone" =>
            hold'[j][1] = 3 * Len(ans'[sock'[j]]) + 1 /\ hold'[j][2] = 3 * Len(ans'[sock'[j]]) + 3
      <4> SUFFICES ASSUME NEW j \in Threads, pc'[j] = "reply", peer'[sock'[j]] # "gone"
                   PROVE  hold[j][1] = 3 * Len(ans[sock[j]]) + 1 /\ hold[j][2] = 3 * Len(ans[sock[j]]) + 3
        BY <3>1, <3>2
      <4>1. pc[j] = "reply" /\ peer[sock[j]] # "gone"
        BY <3>1, <3>2
      <4> QED
        BY <4>1 DEF Exact
    <3>4. ASSUME NEW c \in Clients, peer'[c] # "gone", \A j \in Threads : pc'[j] = "reply" => sock'[j] # c
          PROVE  rcv'[c] = 3 * Len(ans'[c])
      <4>1. peer[c] # "gone" /\ \A j \in Threads : pc[j] = "reply" => sock[j] # c
        BY <3>1, <3>2, <3>4
      <4>2. rcv[c] = 3 * Len(ans[c])
        BY <4>1 DEF Exact
      <4> QED
        BY <3>1, <4>2
    <3> QED
      BY <3>3, <3>4 DEF Exact
  <2>5. ASSUME NEW k \in Threads, Recv(k), Gentle' PROVE Exact'
    BY <2>5, ExactRecv
  <2>6. ASSUME NEW k \in Threads, Reply(k) PROVE Exact'
    BY <2>6, ExactReply
  <2>9. ASSUME NEW k \in Threads, ReplyCrashes(k) PROVE Exact'
    <3>1. UNCHANGED <<hold, sock, ans, rcv, pc, peer>>
      BY <2>9 DEF ReplyCrashes, thrVars, cltVars, connVars
    <3> QED
      BY <3>1, ExactKept
  <2>7. ASSUME NEW c \in Clients, Client(c) PROVE Exact'
    <3>1. UNCHANGED <<hold, sock, ans, rcv, pc>>
      BY <2>7 DEF Client, Connect, Send, SendEmpty, Receive, ReceiveEnd, Leave, thrVars, connVars
    <3>2. \A d \in Clients : peer'[d] # "gone" => peer[d] # "gone"
      BY <2>7 DEF Client, Connect, Send, SendEmpty, Receive, ReceiveEnd, Leave, IInv, TypeOK
    <3> QED
      BY <3>1, <3>2, ExactKept
  <2>8. CASE UNCHANGED vars
    BY <2>8, ExactKept DEF vars, thrVars, cltVars, connVars
  <2> QED
    BY <1>2, <2>1, <2>2, <2>3, <2>4, <2>5, <2>6, <2>7, <2>8, <2>9 DEF Next, AcceptLoop, OneConn
<1> QED
  BY <1>1, <1>2, <1>3

\* The tags of a longer sequence of answers.
LEMMA TagsAppend ==
  ASSUME NEW s \in Seq(Answer), NEW a \in Answer
  PROVE  LET t == [i \in DOMAIN s |-> s[i].tag]
         IN  /\ Len(t) = Len(s)
             /\ [i \in DOMAIN Append(s, a) |-> Append(s, a)[i].tag] = Append(t, a.tag)
<1> DEFINE t == [i \in DOMAIN s |-> s[i].tag]
           u == [i \in DOMAIN Append(s, a) |-> Append(s, a)[i].tag]
<1>1. DOMAIN s = 1..Len(s) /\ Len(s) \in Nat /\ DOMAIN Append(s, a) = 1..Len(s) + 1
  OBVIOUS
<1>2. \A i \in 1..Len(s) : s[i] \in Answer /\ s[i].tag \in Tags
  <2>1. \A i \in 1..Len(s) : s[i] \in Answer
    BY <1>1
  <2>2. \A b \in Answer : b.tag \in Tags
    BY DEF Answer
  <2> QED
    BY <2>1, <2>2
<1>3. t \in Seq(Tags) /\ Len(t) = Len(s)
  BY <1>1, <1>2
<1>4. Append(t, a.tag) \in Seq(Tags) /\ Len(Append(t, a.tag)) = Len(s) + 1
  BY <1>3 DEF Answer
<1>5. \A i \in 1..Len(s) + 1 : u[i] = Append(t, a.tag)[i]
  <2> SUFFICES ASSUME NEW i \in 1..Len(s) + 1 PROVE u[i] = Append(t, a.tag)[i]
    OBVIOUS
  <2>1. u[i] = Append(s, a)[i].tag
    BY <1>1
  <2>2. CASE i \in 1..Len(s)
    BY <1>1, <1>3, <2>1, <2>2
  <2>3. CASE i = Len(s) + 1
    BY <1>1, <1>3, <2>1, <2>3
  <2> QED
    BY <1>1, <2>2, <2>3
<1>6. DOMAIN u = 1..Len(s) + 1 /\ DOMAIN Append(t, a.tag) = 1..Len(s) + 1
  BY <1>1, <1>4
<1>7. u = Append(t, a.tag)
  BY <1>5, <1>6, <1>4
<1> QED
  BY <1>3, <1>7

\* The answers of every client, as EchoService has them.
Replies == [c \in Clients |-> [i \in DOMAIN ans[c] |-> ans[c][i].tag]]

\* The answer to a request received whole is EchoService's next answer.
LEMMA ReplyIsAnswer ==
  ASSUME GInv, NEW k \in Threads, Reply(k),
         NEW c \in Clients, c = sock[k], peer[c] # "gone"
  PROVE  E!Answer(c)
<1> DEFINE n == Len(ans[c])
           t == [i \in DOMAIN ans[c] |-> ans[c][i].tag]
<1>0. c \in Clients
  OBVIOUS
<1>1. /\ hold[k][1] = 3 * n + 1 /\ hold[k][2] = 3 * n + 3
      /\ hold[k][2] = rcv[c] /\ rcv[c] <= 3 * Len(req[c])
  BY <1>0 DEF Reply, GInv, IInv, Stream, Exact
<1>2. ans[c] \in Seq(Answer) /\ n \in Nat /\ req[c] \in Seq(Requests) /\ Len(req[c]) \in Nat
  <2>1. ans[c] \in Seq(Answer)
    BY <1>0, AnswersTyped DEF GInv, IInv
  <2> QED
    BY <1>0, <2>1 DEF GInv, IInv, TypeOK
<1>3. PICK a \in Answers(req[c], hold[k][1], hold[k][2]) : ans' = [ans EXCEPT ![c] = Append(@, a)]
  BY DEF Reply
<1>4. server # "exited" /\ server' = server /\ req' = req
  BY DEF Reply, cltVars
<1>5. n + 1 \in 1..Len(req[c]) /\ hold[k][1] = FirstOf(n + 1) /\ hold[k][2] = LastOf(n + 1)
  BY <1>1, <1>2 DEF FirstOf, LastOf
<1>6. req[c][n + 1].clean
  BY <1>0, <1>2, <1>5 DEF GInv, Gentle
<1>7. a.tag = Right(req[c][n + 1])
  BY <1>2, <1>3, <1>5, <1>6, WholeAnswer
<1>8. a \in Answer
  <2> DEFINE from == hold[k][1]
             to   == hold[k][2]
  <2>1. from \in Nat /\ to \in Nat /\ from > 0 /\ from <= to /\ to <= 3 * Len(req[c])
    BY <1>1, <1>2
  <2>2. a \in Answers(req[c], from, to)
    BY <1>3
  <2> HIDE DEF from, to
  <2> QED
    BY <1>2, <2>1, <2>2, AnswersShape
<1>9. /\ Len(t) = n
      /\ [i \in DOMAIN Append(ans[c], a) |-> Append(ans[c], a)[i].tag] = Append(t, a.tag)
  BY <1>2, <1>8, TagsAppend
<1>10. /\ ans'[c] = Append(ans[c], a)
       /\ \A d \in Clients : d # c => ans'[d] = ans[d]
  BY <1>0, <1>3 DEF GInv, IInv, TypeOK
<1> HIDE DEF n
<1>11. Replies[c] = t
  BY <1>0 DEF Replies
<1>12. Replies' = [Replies EXCEPT ![c] = Append(t, a.tag)]
  <2>1. \A d \in Clients : Replies'[d] = [Replies EXCEPT ![c] = Append(t, a.tag)][d]
    <3> SUFFICES ASSUME NEW d \in Clients
                 PROVE  Replies'[d] = [Replies EXCEPT ![c] = Append(t, a.tag)][d]
      OBVIOUS
    <3>1. CASE d = c
      BY <1>0, <1>9, <1>10, <3>1 DEF Replies
    <3>2. CASE d # c
      BY <1>0, <1>10, <3>2 DEF Replies
    <3> QED
      BY <3>1, <3>2
  <2>2. DOMAIN Replies' = Clients /\ DOMAIN Replies = Clients
    BY DEF Replies
  <2> QED
    BY <2>1, <2>2 DEF Replies
<1> HIDE DEF t
<1>13. Len(Replies[c]) = n /\ n < Len(req[c])
  <2>1. n < Len(req[c])
    BY ONLY <1>2, <1>5
  <2> QED
    BY ONLY <1>9, <1>11, <2>1
<1>14. Replies' = [Replies EXCEPT ![c] = Append(Replies[c], Right(req[c][Len(Replies[c]) + 1]))]
  BY <1>7, <1>11, <1>12, <1>13
<1> QED
  BY <1>4, <1>13, <1>14 DEF E!Answer, Replies

LEMMA StepIsEchoStep ==
  ASSUME GInv, [Next /\ Gentle']_vars
  PROVE  [E!Next]_(E!vars)
<1>1. ASSUME UNCHANGED <<ans, req, server>>
      PROVE  UNCHANGED E!vars
  BY <1>1 DEF E!vars
<1>2. ASSUME UNCHANGED <<ans, req>>, server # "exited", server' # "exited"
      PROVE  UNCHANGED E!vars
  BY <1>2 DEF E!vars
<1>3. ASSUME UNCHANGED <<ans, req>>, server # "exited", server' = "exited"
      PROVE  E!Next
  BY <1>3 DEF E!Next, E!End
<1>4. ASSUME NEW c \in Clients, Accept(c) PROVE UNCHANGED E!vars
  BY <1>2, <1>4 DEF Accept, connVars
<1>5. ASSUME AcceptFails \/ \E k \in Threads : ReplyCrashes(k) PROVE E!Next
  BY <1>3, <1>5 DEF AcceptFails, ReplyCrashes, cltVars, connVars
<1>6. ASSUME StartThread PROVE UNCHANGED E!vars
  BY <1>2, <1>6 DEF StartThread, cltVars, connVars
<1>7. ASSUME NEW k \in Threads, CopyInfo(k) \/ Recv(k) PROVE UNCHANGED E!vars
  BY <1>1, <1>7 DEF CopyInfo, Recv, accVars, cltVars, connVars
<1>8. ASSUME NEW k \in Threads, Reply(k) PROVE E!Next \/ UNCHANGED E!vars
  <2>1. ASSUME peer[sock[k]] # "gone" PROVE E!Next
    <3>1. k \in 1..accepted /\ sock[k] = heap[k]
      BY <1>8 DEF Reply, GInv, IInv, TypeOK, HandOver, Threads
    <3>2. sock[k] \in Clients
      BY <3>1 DEF GInv, IInv, HandOver
    <3>3. PICK c \in Clients : c = sock[k]
      BY <3>2
    <3>4. E!Answer(c)
      BY <1>8, <2>1, <3>3, ReplyIsAnswer
    <3> QED
      BY <3>4 DEF E!Next
  <2>2. CASE peer[sock[k]] = "gone"
    <3>1. ans' = ans /\ req' = req /\ server # "exited"
      BY <1>8, <2>2 DEF Reply, cltVars
    <3>2. CASE server' = "exited"
      BY <1>3, <3>1, <3>2
    <3>3. CASE server' # "exited"
      BY <1>2, <3>1, <3>3
    <3> QED
      BY <3>2, <3>3
  <2> QED
    BY <2>1, <2>2
<1>9. ASSUME NEW c \in Clients, NEW r \in Requests, Send(c, r) PROVE E!Next
  <2>1. E!Ask(c, r)
    BY <1>9 DEF E!Ask, Send, accVars, connVars
  <2> QED
    BY <2>1 DEF E!Next
<1>10. ASSUME NEW c \in Clients,
              Connect(c) \/ SendEmpty(c) \/ Receive(c) \/ ReceiveEnd(c) \/ Leave(c)
       PROVE  UNCHANGED E!vars
  BY <1>1, <1>10 DEF Connect, SendEmpty, Receive, ReceiveEnd, Leave, accVars, connVars
<1>11. CASE UNCHANGED vars
  BY <1>1, <1>11 DEF vars, accVars, cltVars, connVars
<1> QED
  BY <1>4, <1>5, <1>6, <1>7, <1>8, <1>9, <1>10, <1>11 DEF Next, AcceptLoop, OneConn, Client

\* On a network that keeps requests apart, every client is answered once per
\* request, in order, with the answer the request deserves.
THEOREM GentleEcho == GentleSpec => ImplementsEcho
<1>1. Init => GInv /\ E!Init
  <2>1. Init => E!Init
    <3> SUFFICES ASSUME Init PROVE E!Init
      OBVIOUS
    <3>1. \A c \in Clients : [i \in DOMAIN ans[c] |-> ans[c][i].tag] = <<>>
      BY DEF Init
    <3> QED
      BY <3>1 DEF Init, E!Init
  <2> QED
    BY <2>1, InitInv, ExactInit DEF GInv
<1>2. GInv /\ [Next /\ Gentle']_vars => GInv'
  BY ExactNext
<1>3. GInv /\ [Next /\ Gentle']_vars => [E!Next]_(E!vars)
  BY StepIsEchoStep
<1> QED
  BY <1>1, <1>2, <1>3, PTL DEF GentleSpec, ImplementsEcho, E!Spec

\* A request that is received whole, alone and clean holds no conversion.
LEMMA GentleKeepsUp ==
  ASSUME GInv, NEW k \in Threads
  PROVE  ~ReplyCrashes(k)
<1> SUFFICES ASSUME ReplyCrashes(k) PROVE FALSE
  OBVIOUS
<1>1. pc[k] = "reply" /\ MayConvert(req[sock[k]], hold[k][1], hold[k][2])
  BY DEF ReplyCrashes
<1>2. PICK c \in Clients : c = sock[k]
  BY <1>1, Serves DEF GInv
<1>3. PICK i \in 1..MaxMsgs[c] : hold[k] = <<FirstOf(i), LastOf(i)>>
  BY <1>1, <1>2 DEF GInv, Gentle
<1>4. i \in Nat /\ i > 0
  BY <1>2, ServerConstants
<1>5. ReqOf(FirstOf(i)) = i /\ ReqOf(LastOf(i)) = i
  BY <1>4 DEF ReqOf, FirstOf, LastOf
<1>6. LastOf(i) <= 3 * Len(req[c])
  BY <1>1, <1>2, <1>3 DEF GInv, IInv, Stream
<1>7. i \in DOMAIN req[c]
  <2>1. req[c] \in Seq(Requests) /\ Len(req[c]) \in Nat
    BY <1>2 DEF GInv, IInv, TypeOK
  <2> QED
    BY <1>4, <1>6, <2>1 DEF LastOf
<1>8. req[c][i].clean
  BY <1>7 DEF GInv, Gentle
<1>9. \A j \in i..i : j = i
  BY <1>4
<1> QED
  BY <1>1, <1>2, <1>3, <1>5, <1>8, <1>9 DEF MayConvert

\* On such a network the server ends only for want of descriptors or because
\* somebody left (main.cpp 141, 165, 194, 245-249).
THEOREM NoOtherEnd == GentleSpec => []StaysUp
<1> DEFINE Ended == server = "exited" => accepted = MaxFds \/ \E c \in Clients : peer[c] = "gone"
<1>1. Init => GInv /\ Ended
  BY InitInv, ExactInit DEF GInv, Init
<1>2. GInv /\ Ended /\ [Next /\ Gentle']_vars => GInv' /\ Ended'
  <2> SUFFICES ASSUME GInv, Ended, [Next /\ Gentle']_vars PROVE Ended'
    BY ExactNext
  <2>1. ASSUME NEW c \in Clients, Accept(c) PROVE Ended'
    BY <2>1 DEF Accept
  <2>2. CASE AcceptFails
    BY <2>2 DEF AcceptFails, cltVars, GInv, IInv, TypeOK
  <2>3. CASE StartThread
    BY <2>3 DEF StartThread
  <2>4. ASSUME NEW k \in Threads, CopyInfo(k) \/ Recv(k) PROVE Ended'
    BY <2>4 DEF CopyInfo, Recv, accVars, cltVars
  <2>5. ASSUME NEW k \in Threads, Reply(k) PROVE Ended'
    <3>1. sock[k] \in Clients
      BY <2>5, Serves DEF Reply, GInv
    <3> QED
      BY <2>5, <3>1 DEF Reply, cltVars
  <2>6. ASSUME NEW c \in Clients, Client(c) PROVE Ended'
    BY <2>6 DEF Client, Connect, Send, SendEmpty, Receive, ReceiveEnd, Leave, accVars, GInv, IInv, TypeOK
  <2>7. CASE UNCHANGED vars
    BY <2>7 DEF vars, accVars, cltVars
  <2> QED
    BY <2>1, <2>2, <2>3, <2>4, <2>5, <2>6, <2>7, GentleKeepsUp DEF Next, AcceptLoop, OneConn
<1>3. Ended /\ GInv => StaysUp
  BY DEF StaysUp, GInv, IInv, TypeOK
<1> QED
  BY <1>1, <1>2, <1>3, PTL DEF GentleSpec

-----------------------------------------------------------------------------
(* client() and its answers *)

\* client() has read an answer to every line but the one it waits for.
Paired ==
  \A c \in Console :
    peer[c] # "gone" /\ server # "exited" =>
      IF waiting[c] THEN read[c] <= Len(req[c]) /\ Len(req[c]) <= read[c] + 1
                    ELSE read[c] = Len(req[c])

\* There is at most one answer to each request.
LEMMA AnswersBounded ==
  ASSUME GInv, NEW c \in Clients, peer[c] # "gone"
  PROVE  Len(ans[c]) \in Nat /\ Len(ans[c]) <= Len(req[c])
<1>1. Len(ans[c]) \in Nat
  <2>1. ans[c] \in Seq(Answer)
    BY AnswersTyped DEF GInv, IInv
  <2> QED
    BY <2>1
<1>2. rcv[c] \in Nat /\ rcv[c] <= 3 * Len(req[c]) /\ Len(req[c]) \in Nat
  BY DEF GInv, IInv, TypeOK, Stream
<1>3. 3 * Len(ans[c]) <= rcv[c]
  <2>1. CASE \E k \in Threads : pc[k] = "reply" /\ sock[k] = c
    <3>1. PICK k \in Threads : pc[k] = "reply" /\ sock[k] = c
      BY <2>1
    <3>2. hold[k][2] = rcv[c] /\ hold[k][2] = 3 * Len(ans[c]) + 3
      BY <3>1 DEF GInv, IInv, Stream, Exact
    <3> QED
      BY <1>1, <3>2
  <2>2. CASE ~\E k \in Threads : pc[k] = "reply" /\ sock[k] = c
    BY <1>1, <2>2 DEF GInv, Exact
  <2> QED
    BY <2>1, <2>2
<1> QED
  BY <1>1, <1>2, <1>3

LEMMA PairedStep ==
  ASSUME GInv, Paired, [Next /\ Gentle']_vars
  PROVE  Paired'
<1> SUFFICES ASSUME NEW c \in Console, peer'[c] # "gone", server' # "exited"
             PROVE  IF waiting'[c] THEN read'[c] <= Len(req'[c]) /\ Len(req'[c]) <= read'[c] + 1
                                   ELSE read'[c] = Len(req'[c])
  BY DEF Paired
<1>0. /\ c \in Clients /\ c \notin Browser
      /\ read[c] \in Nat /\ waiting[c] \in BOOLEAN /\ req[c] \in Seq(Requests) /\ Len(req[c]) \in Nat
  BY ServerConstants DEF Clients, GInv, IInv, TypeOK
<1>1. ASSUME UNCHANGED <<req, waiting, read>>, peer[c] # "gone", server # "exited"
      PROVE  IF waiting'[c] THEN read'[c] <= Len(req'[c]) /\ Len(req'[c]) <= read'[c] + 1
                            ELSE read'[c] = Len(req'[c])
  BY <1>1 DEF Paired
<1>2. ASSUME NEW d \in Clients, Client(d)
      PROVE  IF waiting'[c] THEN read'[c] <= Len(req'[c]) /\ Len(req'[c]) <= read'[c] + 1
                            ELSE read'[c] = Len(req'[c])
  <2>1. server # "exited"
    BY <1>2 DEF Client, Connect, Send, SendEmpty, Receive, ReceiveEnd, Leave, accVars
  <2>2. peer[c] # "gone"
    BY <1>0, <1>2 DEF Client, Connect, Send, SendEmpty, Receive, ReceiveEnd, Leave, GInv, IInv, TypeOK
  <2>3. IF waiting[c] THEN read[c] <= Len(req[c]) /\ Len(req[c]) <= read[c] + 1
                      ELSE read[c] = Len(req[c])
    BY <2>1, <2>2 DEF Paired
  <2>4. CASE d # c
    <3>1. read'[c] = read[c] /\ req'[c] = req[c] /\ waiting'[c] = waiting[c]
      BY <1>0, <1>2, <2>4 DEF Client, Connect, Send, SendEmpty, Receive, ReceiveEnd, Leave, GInv, IInv, TypeOK
    <3> QED
      BY <2>3, <3>1
  <2>5. CASE d = c
    <3>1. CASE Connect(c)
      BY <1>1, <2>1, <2>2, <3>1 DEF Connect
    <3>2. ASSUME NEW r \in Requests, Send(c, r)
          PROVE  waiting'[c] /\ read'[c] <= Len(req'[c]) /\ Len(req'[c]) <= read'[c] + 1
      <4>1. ~waiting[c] /\ waiting'[c] /\ read'[c] = read[c] /\ req'[c] = Append(req[c], r)
        BY <1>0, <3>2 DEF Send, MaySend, GInv, IInv, TypeOK
      <4>2. Len(req'[c]) = Len(req[c]) + 1
        BY <1>0, <4>1
      <4> QED
        BY <1>0, <2>3, <4>1, <4>2
    <3>3. CASE SendEmpty(c)
      <4>1. ~waiting[c] /\ waiting'[c] /\ read'[c] = read[c] /\ req'[c] = req[c]
        BY <1>0, <3>3 DEF SendEmpty, GInv, IInv, TypeOK
      <4> QED
        BY <1>0, <2>3, <4>1
    <3>4. CASE Receive(c)
      <4>1. /\ waiting[c] /\ ~waiting'[c] /\ req'[c] = req[c]
            /\ read'[c] \in read[c] + 1 .. Len(ans[c])
        BY <1>0, <3>4 DEF Receive, GInv, IInv, TypeOK
      <4>2. Len(ans[c]) \in Nat /\ Len(ans[c]) <= Len(req[c])
        BY <1>0, <2>2, AnswersBounded
      <4> QED
        BY <1>0, <2>3, <4>1, <4>2
    <3>5. CASE ReceiveEnd(c)
      BY <2>1, <3>5 DEF ReceiveEnd
    <3>6. CASE Leave(c)
      BY <1>0, <3>6 DEF Leave, GInv, IInv, TypeOK
    <3> QED
      BY <1>2, <2>5, <3>1, <3>2, <3>3, <3>4, <3>5, <3>6 DEF Client
  <2> QED
    BY <2>4, <2>5
<1>3. ASSUME NEW d \in Clients, Accept(d) PROVE UNCHANGED <<req, waiting, read, peer>> /\ server # "exited"
  BY <1>3 DEF Accept
<1>4. CASE StartThread
  BY <1>1, <1>4 DEF StartThread, cltVars
<1>5. ASSUME NEW k \in Threads, OneConn(k)
      PROVE  UNCHANGED <<req, waiting, read, peer>> /\ server # "exited"
  BY <1>5 DEF OneConn, CopyInfo, Recv, Reply, ReplyCrashes, cltVars
<1>6. CASE UNCHANGED vars
  BY <1>1, <1>6 DEF vars, accVars, cltVars
<1>7. CASE AcceptFails
  BY <1>7 DEF AcceptFails
<1> QED
  BY <1>1, <1>2, <1>3, <1>4, <1>5, <1>6, <1>7 DEF Next, AcceptLoop

\* client() that is not in recv has had one answer for each of its lines, when
\* the network keeps requests apart (main.cpp 285-300).
THEOREM Lines == GentleSpec => []LinesPaired
<1>1. Init => GInv /\ Paired
  <2>1. Init => Paired
    BY DEF Init, Paired, Clients
  <2> QED
    BY <2>1, InitInv, ExactInit DEF GInv
<1>2. GInv /\ Paired /\ [Next /\ Gentle']_vars => GInv' /\ Paired'
  BY ExactNext, PairedStep
<1>3. GInv /\ Paired => LinesPaired
  BY DEF Paired, LinesPaired
<1> QED
  BY <1>1, <1>2, <1>3, PTL DEF GentleSpec
=============================================================================
