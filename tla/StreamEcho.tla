------------------------------ MODULE StreamEcho ------------------------------
(***************************************************************************)
(* What both builds of the server promise each client, however TCP cuts    *)
(* and joins its requests: every answer is either the one a request of the *)
(* client deserves, a later request than any answered before, or a         *)
(* refusal, and the server answers no more than is asked of it.  Answers   *)
(* arrive in order, and only a client that leaves may miss the last ones.  *)
(***************************************************************************)
EXTENDS Naturals, Sequences

CONSTANTS Clients, Requests,
          Right(_),    \* the answer a request deserves
          Refusals,    \* answers to text that is no request
          Pieces       \* how many packets a request may come in

VARIABLES up,          \* does the service run?
          left,        \* the clients that have left
          asked,       \* the requests of each client
          answered     \* the answers to each client

vars == <<up, left, asked, answered>>

Init ==
  /\ up = TRUE /\ left = {}
  /\ asked = [c \in Clients |-> <<>>] /\ answered = [c \in Clients |-> <<>>]

Ask(c, r) ==
  /\ up /\ c \notin left
  /\ asked' = [asked EXCEPT ![c] = Append(@, r)]
  /\ UNCHANGED <<up, left, answered>>

\* Each packet has one answer, to nothing that has been asked behind it.
Give(c, answer) ==
  /\ up /\ c \notin left
  /\ Len(answered[c]) < Pieces * Len(asked[c])
  /\ answered' = [answered EXCEPT ![c] = Append(@, answer)]
  /\ UNCHANGED <<up, left, asked>>

\* Request i is answered, no request behind it has been.
Answer(c, i) ==
  /\ \A j \in DOMAIN answered[c] : answered[c][j].of < i
  /\ Right(asked[c][i]) \notin Refusals
  /\ Give(c, [tag |-> Right(asked[c][i]), of |-> i])

Refuse(c, t) == Give(c, [tag |-> t, of |-> 0])

\* What was on its way may be lost, from some answer on.
Leave(c) ==
  /\ c \notin left /\ left' = left \cup {c}
  /\ \E n \in 0..Len(answered[c]) : answered' = [answered EXCEPT ![c] = SubSeq(@, 1, n)]
  /\ UNCHANGED <<up, asked>>

End == up /\ up' = FALSE /\ UNCHANGED <<left, asked, answered>>

Next ==
  \/ End
  \/ \E c \in Clients :
       \/ Leave(c)
       \/ \E r \in Requests : Ask(c, r)
       \/ \E i \in DOMAIN asked[c] : Answer(c, i)
       \/ \E t \in Refusals : Refuse(c, t)

Spec == Init /\ [][Next]_vars
===============================================================================
