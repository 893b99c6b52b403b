---------------------------- MODULE LibeventServer ----------------------------
(***************************************************************************)
(* WebSocketMain, the build of CompleteConfidence's server on libevent: a  *)
(* listener and one bufferevent per connection, all served by one thread   *)
(* that runs one callback at a time (event_base_dispatch).  A callback     *)
(* reads what has arrived as one packet and puts the answer into the       *)
(* bufferevent's output; the loop writes the output when the socket takes  *)
(* it.  At the end of a stream, or at an error, the bufferevent is freed   *)
(* with its output, and its descriptor closed.                             *)
(*                                                                         *)
(* Other than server(), this build reads packets with their length, so a   *)
(* zero byte or a '%' in one does not matter.                              *)
(***************************************************************************)
EXTENDS WebSocketStream, FiniteSets

CONSTANTS Clients,   \* WebSocket clients
          MaxFds,    \* connections for which there are descriptors
          MaxMsgs,   \* bound: requests of each client
          Lens       \* lengths of the texts they send

ASSUME LibeventConstants ==
  MaxFds \in Nat /\ MaxMsgs \in [Clients -> Nat] /\ Lens \subseteq 9..973

Hello == [kind |-> "hello", n |-> 0]
Frame == [kind : {"frame"}, n : Lens]

VARIABLES
  up,       \* does the program run?
  backlog,  \* connections the listener has not accepted
  bev,      \* clients with a bufferevent, which holds a descriptor
  peer,     \* each client: "idle", "up", "gone"
  req,      \* the requests it has sent
  rcv,      \* the pieces of its stream that have been read
  out,      \* the answers in the output of its bufferevent
  ans,      \* the answers written to its socket
  late      \* was an answer written after it had gone?

cltVars == <<peer, req>>
vars    == <<up, backlog, bev, cltVars, rcv, out, ans, late>>

Init ==
  /\ up = TRUE /\ backlog = {} /\ bev = {}
  /\ peer = [c \in Clients |-> "idle"] /\ req = [c \in Clients |-> <<>>]
  /\ rcv = [c \in Clients |-> 0] /\ out = [c \in Clients |-> <<>>]
  /\ ans = [c \in Clients |-> <<>>] /\ late = [c \in Clients |-> FALSE]

-----------------------------------------------------------------------------
(* socket_read_cb: the answers a packet may get *)

EchoTag(n) == IF Sent(ReplyLen(n)) = RfcSize(ReplyLen(n)) THEN "echo" ELSE "cut"

\* Pieces first..last of a request (see WebSocketServer for a frame's).
PacketTags(r, first, last) ==
  CASE r.kind = "hello"                             -> HelloTags(first, last)
    [] r.kind = "frame" /\ first > 1                -> {"error", "garbled"}
    [] r.kind = "frame" /\ first = 1 /\ last = 1    -> {"error"}
    [] r.kind = "frame" /\ first = 1 /\ last = 2    -> {"garbled"}
    [] r.kind = "frame" /\ first = 1 /\ last = 3    -> {EchoTag(r.n)}

\* Pieces from..to of the stream; only the first request of them counts.
Answers(c, from, to) ==
  LET i    == ReqOf(from)
      last == IF to < LastOf(i) THEN to ELSE LastOf(i)
  IN  {[tag |-> t, of |-> IF t \in {"accept", "echo", "cut"} THEN i ELSE 0] :
         t \in PacketTags(req[c][i], from - FirstOf(i) + 1, last - FirstOf(i) + 1)}

-----------------------------------------------------------------------------
(* The event loop *)

\* Faulty variant: descriptors are never short.
MutAccept(c) ==
  /\ up /\ c \in backlog
  /\ backlog' = backlog \ {c} /\ bev' = bev \cup {c}
  /\ UNCHANGED <<up, cltVars, rcv, out, ans, late>>

\* listener_cb.  Without a descriptor accept fails, and the listener tries
\* again as long as a connection waits.
Accept(c) ==
  /\ up /\ c \in backlog /\ Cardinality(bev) < MaxFds
  /\ backlog' = backlog \ {c} /\ bev' = bev \cup {c}
  /\ UNCHANGED <<up, cltVars, rcv, out, ans, late>>

\* accept may fail for a peer that has gone, which the listener passes over.
AcceptAborted(c) ==
  /\ up /\ c \in backlog /\ peer[c] = "gone"
  /\ backlog' = backlog \ {c}
  /\ UNCHANGED <<up, bev, cltVars, rcv, out, ans, late>>

\* Faulty variant: the callback returns before it has taken a refused packet.
MutRead(c) ==
  /\ up /\ c \in bev
  /\ \E to \in rcv[c] + 1 .. 3 * Len(req[c]) : \E a \in Answers(c, rcv[c] + 1, to) :
       /\ a.tag # "error"
       /\ rcv' = [rcv EXCEPT ![c] = to]
       /\ out' = [out EXCEPT ![c] = Append(@, a)]
  /\ UNCHANGED <<up, backlog, bev, cltVars, ans, late>>

\* Faulty variant: what was read stays in the input.
MutReadAgain(c) ==
  /\ up /\ c \in bev
  /\ \E to \in rcv[c] + 1 .. 3 * Len(req[c]) : \E a \in Answers(c, rcv[c] + 1, to) :
       out' = [out EXCEPT ![c] = Append(@, a)]
  /\ UNCHANGED <<up, backlog, bev, cltVars, rcv, ans, late>>

\* Some of what the client has sent arrives; socket_read_cb takes all of it
\* (the requests here are far below its 4095 bytes) and queues one answer.
Read(c) ==
  /\ up /\ c \in bev
  /\ \E to \in rcv[c] + 1 .. 3 * Len(req[c]) : \E a \in Answers(c, rcv[c] + 1, to) :
       /\ rcv' = [rcv EXCEPT ![c] = to]
       /\ out' = [out EXCEPT ![c] = Append(@, a)]
  /\ UNCHANGED <<up, backlog, bev, cltVars, ans, late>>

\* The socket takes an answer.  It is lost if the peer has gone, and the second
\* such write may raise SIGPIPE, which ends the program.
Flush(c) ==
  /\ up /\ c \in bev /\ out[c] # <<>>
  /\ out' = [out EXCEPT ![c] = Tail(@)]
  /\ \/ /\ peer[c] # "gone"
        /\ ans' = [ans EXCEPT ![c] = Append(@, Head(out[c]))]
        /\ UNCHANGED <<up, late>>
     \/ /\ peer[c] = "gone"
        /\ late' = [late EXCEPT ![c] = TRUE]
        /\ up' \in {TRUE, ~late[c]}
        /\ UNCHANGED ans
  /\ UNCHANGED <<backlog, bev, cltVars, rcv>>

\* Faulty variant: a bufferevent is freed only when all has been read.
MutFree(c) ==
  /\ up /\ c \in bev /\ peer[c] = "gone"
  /\ rcv[c] = 3 * Len(req[c]) /\ out[c] # <<>>
  /\ bev' = bev \ {c} /\ out' = [out EXCEPT ![c] = <<>>]
  /\ UNCHANGED <<up, backlog, cltVars, rcv, ans, late>>

\* socket_event_cb: the end of the stream of a peer that has gone, or before
\* that the error of a connection it has reset.
Free(c) ==
  /\ up /\ c \in bev /\ peer[c] = "gone"
  /\ bev' = bev \ {c} /\ out' = [out EXCEPT ![c] = <<>>]
  /\ UNCHANGED <<up, backlog, cltVars, rcv, ans, late>>

Loop(c) == Accept(c) \/ AcceptAborted(c) \/ Read(c) \/ Flush(c) \/ Free(c)

-----------------------------------------------------------------------------
(* The clients *)

Connect(c) ==
  /\ up /\ peer[c] = "idle"
  /\ peer' = [peer EXCEPT ![c] = "up"] /\ backlog' = backlog \cup {c}
  /\ UNCHANGED <<up, bev, req, rcv, out, ans, late>>

\* The handshake and, once it is accepted, frames.
MaySend(c, r) ==
  \/ req[c] = <<>> /\ r = Hello
  \/ ans[c] # <<>> /\ ans[c][1].tag = "accept" /\ r \in Frame

Send(c, r) ==
  /\ up /\ peer[c] = "up" /\ Len(req[c]) < MaxMsgs[c]
  /\ MaySend(c, r)
  /\ req' = [req EXCEPT ![c] = Append(@, r)]
  /\ UNCHANGED <<up, backlog, bev, peer, rcv, out, ans, late>>

Leave(c) ==
  /\ peer[c] = "up"
  /\ peer' = [peer EXCEPT ![c] = "gone"]
  /\ UNCHANGED <<up, backlog, bev, req, rcv, out, ans, late>>

Client(c) == Connect(c) \/ Leave(c) \/ \E r \in {Hello} \cup Frame : Send(c, r)

-----------------------------------------------------------------------------
Next == \E c \in Clients : Loop(c) \/ Client(c)

\* Every round of the loop serves each event that is pending.
Fairness ==
  \A c \in Clients :
    /\ WF_vars(Accept(c)) /\ WF_vars(Read(c))
    /\ WF_vars(Flush(c))  /\ WF_vars(Free(c))

Spec == Init /\ [][Next]_vars /\ Fairness

-----------------------------------------------------------------------------
(* Properties *)

Answer == [tag : {"accept", "null", "error", "garbled", "echo", "cut"}, of : Nat]

\* Types; descriptors are never overdrawn.
TypeOK ==
  /\ up \in BOOLEAN /\ backlog \subseteq Clients
  /\ bev \subseteq Clients /\ IsFiniteSet(bev) /\ Cardinality(bev) <= MaxFds
  /\ peer \in [Clients -> {"idle", "up", "gone"}]
  /\ req \in [Clients -> Seq({Hello} \cup Frame)]
  /\ rcv \in [Clients -> Nat] /\ late \in [Clients -> BOOLEAN]
  /\ out \in [Clients -> Seq(Answer)] /\ ans \in [Clients -> Seq(Answer)]

\* The answer each request deserves.
Right(r) == IF r.kind = "hello" THEN "accept" ELSE EchoTag(r.n)

\* However the stream is cut, a client gets answers to its requests, each once
\* and in their order, and refusals, through the output of its bufferevent; no
\* answer of it is lost or overtaken as long as the client stays.
S == INSTANCE StreamEcho WITH
       Requests <- {Hello} \cup Frame,
       Refusals <- {"null", "error", "garbled"},
       Pieces <- 3,
       left <- {c \in Clients : peer[c] = "gone"},
       asked <- req,
       answered <- [c \in Clients |-> IF peer[c] = "gone" THEN ans[c] ELSE ans[c] \o out[c]]

ImplementsStreamEcho == S!Spec

\* All that a connected client sends is read and all answers to it are written,
\* as long as it stays, whatever the others do.
Drained ==
  \A c \in Clients :
    c \in bev ~> (rcv[c] = 3 * Len(req[c]) /\ out[c] = <<>>) \/ peer[c] = "gone" \/ ~up

Room == Cardinality(bev) < MaxFds \/ \E c \in bev : peer[c] = "gone"

\* Descriptors come back: if peers leave again and again, or there are enough
\* descriptors, everybody who waits is accepted; a full server does not end.
Taken ==
  []<>Room => \A c \in Clients : c \in backlog ~> c \notin backlog \/ ~up
=============================================================================
