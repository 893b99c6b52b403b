------------------------------ MODULE FifoQueue ------------------------------
(***************************************************************************)
(* What a user of ThrSfeList relies on: a first-in first-out queue.  Items *)
(* are named by the order in which they were put: 1, 2, ...  An item that  *)
(* is too long for the reader's buffer stays where it is and everything    *)
(* behind it waits with it.                                                *)
(***************************************************************************)
EXTENDS Naturals, Sequences

CONSTANT Oversize      \* the items that do not fit the reader's buffer

VARIABLES put,         \* how many items have been put
          waiting,     \* the items that are in the queue
          out          \* the items delivered, in order

vars == <<put, waiting, out>>

Init == put = 0 /\ waiting = {} /\ out = <<>>

Put ==
  /\ put' = put + 1
  /\ waiting' = waiting \cup {put + 1}
  /\ UNCHANGED out

Take ==
  \E i \in waiting \ Oversize :
    /\ \A j \in waiting : i <= j
    /\ waiting' = waiting \ {i}
    /\ out' = Append(out, i)
    /\ UNCHANGED put

Next == Put \/ Take

Spec == Init /\ [][Next]_vars
=============================================================================
