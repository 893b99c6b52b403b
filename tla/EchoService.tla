----------------------------- MODULE EchoService -----------------------------
(***************************************************************************)
(* What the server promises each client: one answer to every request, in   *)
(* the order of the requests, and the one that request deserves; until the *)
(* service ends.                                                           *)
(***************************************************************************)
EXTENDS Naturals, Sequences

CONSTANTS Clients, Requests, Right(_)

VARIABLES up,        \* does the service run?
          asked,     \* the requests of each client
          answered   \* the answers to each client

vars == <<up, asked, answered>>

Init == up = TRUE /\ asked = [c \in Clients |-> <<>>] /\ answered = [c \in Clients |-> <<>>]

Ask(c, r) ==
  /\ asked' = [asked EXCEPT ![c] = Append(@, r)]
  /\ UNCHANGED <<up, answered>>

Answer(c) ==
  /\ up
  /\ Len(answered[c]) < Len(asked[c])
  /\ answered' = [answered EXCEPT ![c] = Append(@, Right(asked[c][Len(@) + 1]))]
  /\ UNCHANGED <<up, asked>>

End == up /\ up' = FALSE /\ UNCHANGED <<asked, answered>>

Next == End \/ \E c \in Clients : Answer(c) \/ \E r \in Requests : Ask(c, r)

Spec == Init /\ [][Next]_vars
=============================================================================
