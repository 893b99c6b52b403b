--------------------------- MODULE WebSocketServer ---------------------------
(***************************************************************************)
(* server(), OneConn and socket_read_cb of CompleteConfidence, and the two *)
(* kinds of clients it has: client() of the same program, which sends a    *)
(* typed line and waits, and a browser, which shakes hands and sends text  *)
(* frames.                                                                 *)
(***************************************************************************)
EXTENDS WebSocketStream

CONSTANTS Console,   \* clients running client()
          Browser,   \* WebSocket clients
          MaxFds,    \* sockets accept can return before it fails
          MaxMsgs,   \* bound: requests of each client
          Cleans,    \* is what they send clean (see Requests)?
          Lens,      \* lengths of the texts browsers send
          NoSock     \* no socket, no object

Clients == Console \cup Browser

ASSUME ServerConstants ==
  /\ MaxFds \in Nat /\ MaxMsgs \in [Clients -> Nat]
  /\ Lens \subseteq 9..973 /\ Cleans \subseteq BOOLEAN
  /\ Console \cap Browser = {} /\ NoSock \notin Clients

Threads == 1..MaxFds

\* clean: the server's snprintf takes no byte of the request, as it is on the
\* wire or unmasked, for an end of string or a conversion; a line is ASCII.
Hello  == [kind : {"hello"}, n : {0}, clean : {TRUE}]
Line   == [kind : {"line"}, n : {0}, clean : Cleans]
Frame  == [kind : {"frame"}, n : Lens, clean : Cleans]
Requests == Hello \cup Line \cup Frame

VARIABLES
  server,    \* where the accept loop is: "accept", "spawn", "exited"
  accepted,  \* connections accepted; none is ever closed
  CltInfo,   \* the pointer of that name
  heap,      \* the Socket of each ClientInfo object
  arg,       \* the pointer each OneConn was started with
  pc,        \* where each OneConn is
  sock,      \* CltInfo.Socket in each OneConn
  hold,      \* the pieces in each OneConn's buf: <<first, last>>
  backlog,   \* connections waiting to be accepted
  peer,      \* each client: "idle", "up", "gone"
  req,       \* the requests it has sent
  waiting,   \* is client() in recv?
  read,      \* how many answers it has received
  rcv,       \* the pieces recv has taken off each connection
  ans,       \* the answers sent on each connection
  late       \* was an answer sent to a peer that had gone?

accVars  == <<server, accepted, CltInfo, heap>>
thrVars  == <<arg, pc, sock, hold>>
cltVars  == <<backlog, peer, req, waiting, read>>
connVars == <<rcv, ans, late>>
vars     == <<accVars, thrVars, cltVars, connVars>>

Init ==
  /\ server = "accept" /\ accepted = 0 /\ CltInfo = 0
  /\ heap = [i \in Threads |-> NoSock]
  /\ arg = [k \in Threads |-> 0] /\ pc = [k \in Threads |-> "none"]
  /\ sock = [k \in Threads |-> NoSock] /\ hold = [k \in Threads |-> <<0, 0>>]
  /\ backlog = {} /\ peer = [c \in Clients |-> "idle"]
  /\ req = [c \in Clients |-> <<>>] /\ waiting = [c \in Clients |-> FALSE]
  /\ read = [c \in Clients |-> 0] /\ rcv = [c \in Clients |-> 0]
  /\ ans = [c \in Clients |-> <<>>] /\ late = [c \in Clients |-> FALSE]

-----------------------------------------------------------------------------
(* socket_read_cb: the answers a chunk of the stream may get *)

\* A masked frame's head with a zero length byte ends msg for strlen.
HeadHasZero(n) == \E i \in DOMAIN RfcHead(128, n) : RfcHead(128, n)[i] = 0

\* The answer to a whole frame of n bytes: its echo, unless the packet is
\* refused or the echo is cut by strlen.
EchoTag(n) == IF HeadHasZero(n) THEN "error"
              ELSE IF Sent(ReplyLen(n)) = RfcSize(ReplyLen(n)) THEN "echo" ELSE "cut"

\* The answer each request deserves.
Right(r) == CASE r.kind = "hello" -> "accept"
              [] r.kind = "line"  -> "error"
              [] r.kind = "frame" -> EchoTag(r.n)

\* Pieces first..last of a frame.  Without its last bytes a frame is accepted,
\* and without its start any bytes are taken for a head.
FrameTags(r, first, last) ==
  CASE first > 1          -> {"error", "garbled"}
    [] first = 1 /\ (last = 1 \/ HeadHasZero(r.n)) -> {"error"}
    [] first = 1 /\ last = 2 /\ ~HeadHasZero(r.n)  -> {"garbled"} \cup (IF r.clean THEN {} ELSE {"error"})
    [] first = 1 /\ last = 3 /\ ~HeadHasZero(r.n)  ->
         {EchoTag(r.n)} \cup (IF r.clean THEN {} ELSE {"error", "garbled"})

\* Pieces first..last of a request.  A typed line has no frame's first byte.
RequestTags(r, first, last) ==
  CASE r.kind = "hello" -> HelloTags(first, last)
    [] r.kind = "line"  -> {"error"} \cup (IF r.clean THEN {} ELSE {"garbled"})
    [] r.kind = "frame" -> FrameTags(r, first, last)

\* The answers to pieces from..to of the requests rs.  Only the first request
\* of the chunk counts.
Answers(rs, from, to) ==
  LET i     == ReqOf(from)
      first == from - FirstOf(i) + 1
      last  == IF to < LastOf(i) THEN to - FirstOf(i) + 1 ELSE 3
  IN  {[tag |-> t, of |-> IF t \in {"accept", "echo", "cut"} THEN i ELSE 0] :
         t \in RequestTags(rs[i], first, last)}

-----------------------------------------------------------------------------
(* server() *)

\* Faulty variant: one ClientInfo for all connections.
MutAlloc(n) == 1

\* new ClientInfo
Alloc(n) == n + 1

Accept(c) ==
  /\ server = "accept" /\ accepted < MaxFds /\ c \in backlog
  /\ accepted' = accepted + 1
  /\ CltInfo' = Alloc(accepted)
  /\ heap' = [heap EXCEPT ![CltInfo'] = c]
  /\ server' = "spawn"
  /\ backlog' = backlog \ {c}
  /\ UNCHANGED <<thrVars, peer, req, waiting, read, connVars>>

\* accept fails without a free descriptor, and may for a peer that has gone:
\* the loop is left and the program ends.
AcceptFails ==
  /\ server = "accept"
  /\ accepted = MaxFds \/ \E c \in backlog : peer[c] = "gone"
  /\ server' = "exited"
  /\ UNCHANGED <<accepted, CltInfo, heap, thrVars, cltVars, connVars>>

\* CURRENCY_StartThread; nobody looks at what it returns.
StartThread ==
  /\ server = "spawn"
  /\ server' = "accept"
  /\ arg' = [arg EXCEPT ![accepted] = CltInfo]
  /\ \E s \in {"created", "failed"} : pc' = [pc EXCEPT ![accepted] = s]
  /\ UNCHANGED <<accepted, CltInfo, heap, sock, hold, cltVars, connVars>>

-----------------------------------------------------------------------------
(* OneConn *)

\* Faulty variant: the pointer is not followed.
MutCopyInfo(k) ==
  /\ server # "exited" /\ pc[k] = "created"
  /\ sock' = [sock EXCEPT ![k] = arg[k]]
  /\ pc' = [pc EXCEPT ![k] = "poll"]
  /\ UNCHANGED <<accVars, arg, hold, cltVars, connVars>>

\* CltInfo = *(pClientInfo)pCltIf
CopyInfo(k) ==
  /\ server # "exited" /\ pc[k] = "created"
  /\ sock' = [sock EXCEPT ![k] = heap[arg[k]]]
  /\ pc' = [pc EXCEPT ![k] = "poll"]
  /\ UNCHANGED <<accVars, arg, hold, cltVars, connVars>>

\* Faulty variant: what is received stays in the stream.
MutRecv(k) ==
  /\ server # "exited" /\ pc[k] = "poll"
  /\ \E to \in rcv[sock[k]] + 1 .. 3 * Len(req[sock[k]]) :
       hold' = [hold EXCEPT ![k] = <<rcv[sock[k]] + 1, to>>]
  /\ pc' = [pc EXCEPT ![k] = "reply"]
  /\ UNCHANGED <<accVars, arg, sock, cltVars, rcv, ans, late>>

\* Faulty variant: what is received is dropped without an answer.
MutRecvDrop(k) ==
  /\ server # "exited" /\ pc[k] = "poll"
  /\ \E to \in rcv[sock[k]] + 1 .. 3 * Len(req[sock[k]]) :
       rcv' = [rcv EXCEPT ![sock[k]] = to]
  /\ UNCHANGED <<accVars, thrVars, cltVars, ans, late>>

\* recv takes some of what has arrived.  When nothing has, or the peer is
\* gone, the loop goes round.
Recv(k) ==
  /\ server # "exited" /\ pc[k] = "poll"
  /\ \E to \in rcv[sock[k]] + 1 .. 3 * Len(req[sock[k]]) :
       /\ hold' = [hold EXCEPT ![k] = <<rcv[sock[k]] + 1, to>>]
       /\ rcv' = [rcv EXCEPT ![sock[k]] = to]
  /\ pc' = [pc EXCEPT ![k] = "reply"]
  /\ UNCHANGED <<accVars, arg, sock, cltVars, ans, late>>

\* socket_read_cb and send.  What is sent to a peer that has gone is lost, and
\* the second time may raise SIGPIPE, which ends the program.
Reply(k) ==
  LET c == sock[k]
  IN  /\ server # "exited" /\ pc[k] = "reply"
      /\ pc' = [pc EXCEPT ![k] = "poll"]
      /\ \/ /\ peer[c] # "gone"
            /\ \E a \in Answers(req[c], hold[k][1], hold[k][2]) :
                 ans' = [ans EXCEPT ![c] = Append(@, a)]
            /\ UNCHANGED <<server, late>>
         \/ /\ peer[c] = "gone"
            /\ late' = [late EXCEPT ![c] = TRUE]
            /\ server' \in {server} \cup (IF late[c] THEN {"exited"} ELSE {})
            /\ UNCHANGED ans
      /\ UNCHANGED <<accepted, CltInfo, heap, arg, sock, hold, cltVars, rcv>>

\* The packet and the answer are formats of snprintf.  In the chunk from..to
\* there may be a conversion: in an unclean request, or in what is made of a
\* frame without its start, whose bytes are unmasked with others of them.
MayConvert(rs, from, to) ==
  \/ \E i \in ReqOf(from)..ReqOf(to) : ~rs[i].clean
  \/ rs[ReqOf(from)].kind = "frame" /\ from # FirstOf(ReqOf(from))

\* A conversion without an argument may end the program, whoever is connected.
ReplyCrashes(k) ==
  /\ server # "exited" /\ pc[k] = "reply"
  /\ MayConvert(req[sock[k]], hold[k][1], hold[k][2])
  /\ server' = "exited"
  /\ UNCHANGED <<accepted, CltInfo, heap, thrVars, cltVars, connVars>>

OneConn(k) == CopyInfo(k) \/ Recv(k) \/ Reply(k) \/ ReplyCrashes(k)

-----------------------------------------------------------------------------
(* The clients *)

Connect(c) ==
  /\ server # "exited" /\ peer[c] = "idle"
  /\ peer' = [peer EXCEPT ![c] = "up"]
  /\ backlog' = backlog \cup {c}
  /\ UNCHANGED <<accVars, thrVars, req, waiting, read, connVars>>

\* client() sends a line and goes into recv; a browser sends its handshake and,
\* once it is accepted, frames.
MaySend(c, r) ==
  \/ c \in Console /\ r \in Line /\ ~waiting[c]
  \/ c \in Browser /\ r \in Hello /\ req[c] = <<>>
  \/ c \in Browser /\ r \in Frame /\ read[c] > 0 /\ ans[c][1].tag = "accept"

Send(c, r) ==
  /\ server # "exited" /\ peer[c] = "up" /\ Len(req[c]) < MaxMsgs[c]
  /\ MaySend(c, r)
  /\ req' = [req EXCEPT ![c] = Append(@, r)]
  /\ waiting' = [waiting EXCEPT ![c] = c \in Console]
  /\ UNCHANGED <<accVars, thrVars, backlog, peer, read, connVars>>

\* client() sends an empty line, which is nothing, and goes into recv.
SendEmpty(c) ==
  /\ c \in Console /\ peer[c] = "up" /\ ~waiting[c]
  /\ waiting' = [waiting EXCEPT ![c] = TRUE]
  /\ UNCHANGED <<accVars, thrVars, backlog, peer, req, read, connVars>>

\* recv of a client returns one or more answers.  client() may get one that
\* belongs to an earlier line.
Receive(c) ==
  /\ peer[c] = "up" /\ (c \in Console => waiting[c])
  /\ \E r \in read[c] + 1 .. Len(ans[c]) : read' = [read EXCEPT ![c] = r]
  /\ waiting' = [waiting EXCEPT ![c] = FALSE]
  /\ UNCHANGED <<accVars, thrVars, backlog, peer, req, connVars>>

\* recv of client() returns 0 when the server has ended: not an error to it.
ReceiveEnd(c) ==
  /\ c \in Console /\ server = "exited" /\ waiting[c]
  /\ waiting' = [waiting EXCEPT ![c] = FALSE]
  /\ UNCHANGED <<accVars, thrVars, backlog, peer, req, read, connVars>>

Leave(c) ==
  /\ peer[c] = "up"
  /\ peer' = [peer EXCEPT ![c] = "gone"]
  /\ waiting' = [waiting EXCEPT ![c] = FALSE]
  /\ UNCHANGED <<accVars, thrVars, backlog, req, read, connVars>>

Client(c) ==
  \/ Connect(c) \/ SendEmpty(c) \/ Receive(c) \/ ReceiveEnd(c) \/ Leave(c)
  \/ \E r \in Requests : Send(c, r)

-----------------------------------------------------------------------------
AcceptLoop == AcceptFails \/ StartThread \/ \E c \in Clients : Accept(c)

Next ==
  \/ AcceptLoop
  \/ \E k \in Threads : OneConn(k)
  \/ \E c \in Clients : Client(c)

Spec == Init /\ [][Next]_vars

\* The network keeps requests apart: each is received whole and alone, and
\* its bytes are clean.
Gentle ==
  /\ \A k \in Threads :
       pc[k] = "reply" => \E i \in 1..MaxMsgs[sock[k]] : hold[k] = <<FirstOf(i), LastOf(i)>>
  /\ \A c \in Clients : \A i \in DOMAIN req[c] : req[c][i].clean

GentleSpec == Init /\ [][Next /\ Gentle']_vars

\* accept returns when it can; each thread is scheduled; recv of a client
\* returns what has arrived.  No client need send anything, or stay.
Fairness ==
  /\ WF_vars(AcceptLoop /\ Gentle')
  /\ \A k \in Threads : WF_vars(OneConn(k) /\ Gentle')
  /\ \A c \in Clients : WF_vars((Receive(c) \/ ReceiveEnd(c)) /\ Gentle')

FairGentleSpec == GentleSpec /\ Fairness

-----------------------------------------------------------------------------
(* Properties *)

TypeOK ==
  /\ server \in {"accept", "spawn", "exited"} /\ accepted \in 0..MaxFds
  /\ CltInfo \in 0..MaxFds /\ heap \in [Threads -> Clients \cup {NoSock}]
  /\ arg \in [Threads -> 0..MaxFds]
  /\ pc \in [Threads -> {"none", "created", "failed", "poll", "reply"}]
  /\ sock \in [Threads -> Clients \cup {NoSock}]
  /\ hold \in [Threads -> Nat \X Nat]
  /\ backlog \subseteq Clients /\ peer \in [Clients -> {"idle", "up", "gone"}]
  /\ req \in [Clients -> Seq(Requests)]
  /\ waiting \in [Clients -> BOOLEAN] /\ read \in [Clients -> Nat]
  /\ rcv \in [Clients -> Nat] /\ late \in [Clients -> BOOLEAN]
  /\ ans \in [Clients -> Seq([tag : {"accept", "null", "error", "garbled", "echo", "cut"}, of : Nat])]

\* The ClientInfo a thread is started with still holds its own client when it
\* copies it: no two threads serve one socket, and none is left without.
OneThreadPerSocket ==
  \A j, k \in Threads :
    j # k /\ pc[j] \in {"poll", "reply"} /\ pc[k] \in {"poll", "reply"}
      => sock[j] # sock[k] /\ sock[k] \in Clients

\* When the network keeps requests apart, client() that is not in recv has had
\* one answer for each of its lines: it never takes one answer for another's.
LinesPaired ==
  \A c \in Console :
    peer[c] = "up" /\ ~waiting[c] /\ server # "exited" => read[c] = Len(req[c])

\* When the network keeps requests apart and they are clean, the server does not
\* end as long as descriptors last and nobody leaves.
StaysUp == accepted < MaxFds /\ (\A c \in Clients : peer[c] # "gone") => server # "exited"

\* Every request of a client that stays is answered and the answer read, unless
\* the thread of its connection could not be started or the server ends.
Answered ==
  \A c \in Clients : \A i \in 1..MaxMsgs[c] :
    Len(req[c]) >= i
      ~> \/ read[c] >= i \/ peer[c] = "gone" \/ server = "exited"
         \/ \E k \in Threads : pc[k] = "failed" /\ heap[arg[k]] = c

\* When the network keeps requests apart, every client is answered once per
\* request, in order, with the answer the request deserves.
E == INSTANCE EchoService WITH
       up <- server # "exited",
       asked <- req,
       answered <- [c \in Clients |-> [i \in DOMAIN ans[c] |-> ans[c][i].tag]]

ImplementsEcho == E!Spec

\* On any network, however it cuts the stream: a client gets answers to its
\* requests, each once and in their order, and refusals, one for each packet.
S == INSTANCE StreamEcho WITH
       Refusals <- {"null", "error", "garbled"},
       Pieces <- 3,
       up <- server # "exited",
       left <- {c \in Clients : peer[c] = "gone"},
       asked <- req,
       answered <- ans

ImplementsStreamEcho == S!Spec
=============================================================================
