----------------------------- MODULE ThrSfeList -----------------------------
(***************************************************************************)
(* The "Thread safe list class" of MyCodes: a ring of heap nodes around a  *)
(* static head.  Add puts a node behind the head (head.Next is the newest  *)
(* node) and GetLast copies out and deletes head.Last, the oldest one.     *)
(* Memory is a set of addresses that `new` takes from and `delete` returns *)
(* to; a freed cell keeps its contents until it is allocated again.        *)
(*                                                                         *)
(* The lock is passed to the node's constructor BY VALUE: what the         *)
(* constructor locks is a private copy, which blocks for ever if the head  *)
(* lock was held when it was copied, and protects nothing otherwise.       *)
(*                                                                         *)
(* A step is one access to shared memory; accesses only their own thread   *)
(* can see are merged into the step next to them.                          *)
(***************************************************************************)
EXTENDS Integers, Sequences

CONSTANTS Producers,   \* threads that call Add     (Thr1 of main.cpp)
          Consumer,    \* the thread that calls GetLast (Thr2)
          Readers,     \* threads that call GetBuf on the head
          Node,        \* heap addresses; HeadCell and NULL are not among them
          HeadCell, NULL,
          Oversize,    \* items with a len greater than the consumer's buffer
          MaxItems     \* bound on the number of Add calls

ASSUME ThreadsAssumption ==
  /\ Consumer \notin Producers \cup Readers
  /\ Producers \cap Readers = {}
  /\ NULL \notin Producers \cup Readers \cup {Consumer}

ASSUME MemoryAssumption ==
  /\ HeadCell \notin Node /\ NULL \notin Node /\ HeadCell # NULL
  /\ MaxItems \in Nat

Threads == Producers \cup Readers \cup {Consumer}
Cell    == Node \cup {HeadCell}

VARIABLES live,     \* the allocated nodes
          item,     \* item[n]: which Add the buffer of n comes from
          last,     \* last[c], next[c]: the two pointers of a cell
          next,
          lock,     \* the thread that holds the head's lock, or NULL
          pc,       \* where each thread is
          node,     \* node[p]: the node p's Add has allocated
          nxt,      \* nxt[p]: the value of head.Next p's Add captured
          heldCopy, \* heldCopy[p]: p copied the lock while it was held
          doomed,   \* the node the consumer's `delete Last` works on
          got,      \* the item in the consumer's buffer
          added,    \* Add calls so far: they number the items
          out,      \* the items GetLast returned, in order
          dangling  \* some thread has touched memory that is not allocated

mem   == <<live, item, last, next>>
prodv == <<node, nxt, heldCopy, added>>
consv == <<doomed, got, out>>
vars  == <<mem, lock, pc, prodv, consv, dangling>>

\* Faulty variant: the head is constructed with Next(NULL).
MutInit ==
  /\ live = {} /\ lock = NULL /\ added = 0 /\ dangling = FALSE
  /\ item = [n \in Node |-> 0]
  /\ last = [c \in Cell |-> NULL]
  /\ next = [c \in Cell |-> NULL]
  /\ pc = [t \in Threads |-> "idle"]
  /\ node = [p \in Producers |-> NULL]
  /\ nxt = [p \in Producers |-> NULL]
  /\ heldCopy = [p \in Producers |-> FALSE]
  /\ doomed = NULL /\ got = 0 /\ out = <<>>

Init ==
  /\ live = {}
  /\ item = [n \in Node |-> 0]
  /\ last = [c \in Cell |-> NULL]
  /\ next = [c \in Cell |-> IF c = HeadCell THEN HeadCell ELSE NULL]
  /\ lock = NULL
  /\ pc = [t \in Threads |-> "idle"]
  /\ node = [p \in Producers |-> NULL]
  /\ nxt = [p \in Producers |-> NULL]
  /\ heldCopy = [p \in Producers |-> FALSE]
  /\ doomed = NULL /\ got = 0 /\ out = <<>>
  /\ added = 0
  /\ dangling = FALSE

Goto(t, from, to) == pc[t] = from /\ pc' = [pc EXCEPT ![t] = to]

\* A thread reads or writes a field of cell c.
Touch(c) == dangling' = (dangling \/ c \notin live \cup {HeadCell})

-----------------------------------------------------------------------------
(* Add: `new ThrSfeList(buf, len, lock, this, Next)`, buf and len non-null *)

\* The allocation, and the copy of the lock.
AddBegin(p) ==
  /\ Goto(p, "idle", "construct")
  /\ added < MaxItems
  /\ added' = added + 1
  /\ \E a \in Node \ live :
       /\ live' = live \cup {a}
       /\ item' = [item EXCEPT ![a] = added + 1]
       /\ node' = [node EXCEPT ![p] = a]
  /\ heldCopy' = [heldCopy EXCEPT ![p] = (lock # NULL)]
  /\ UNCHANGED <<last, next, nxt, lock, consv, dangling>>

\* The copy of head.Next and the constructor up to `Last->Next = this`: it
\* gets past the lock only if the copy is not a locked mutex.
AddConstruct(p) ==
  /\ Goto(p, "construct", "linkLast")
  /\ ~heldCopy[p]
  /\ nxt' = [nxt EXCEPT ![p] = next[HeadCell]]
  /\ last' = [last EXCEPT ![node[p]] = HeadCell]
  /\ next' = [next EXCEPT ![node[p]] = next[HeadCell]]
  /\ UNCHANGED <<live, item, lock, node, heldCopy, added, consv, dangling>>

\* Faulty variant: the constructor forgets `Last->Next = this`.
MutAddLinkLast(p) ==
  /\ Goto(p, "linkLast", "linkNext")
  /\ UNCHANGED <<mem, lock, prodv, consv, dangling>>

\* Last->Next = this
AddLinkLast(p) ==
  /\ Goto(p, "linkLast", "linkNext")
  /\ next' = [next EXCEPT ![HeadCell] = node[p]]
  /\ UNCHANGED <<live, item, last, lock, prodv, consv, dangling>>

\* Faulty variant: the constructor forgets `Next->Last = this`.
MutAddLinkNext(p) ==
  /\ Goto(p, "linkNext", "idle")
  /\ UNCHANGED <<mem, lock, prodv, consv, dangling>>

\* Next->Last = this, and return.
AddLinkNext(p) ==
  /\ Goto(p, "linkNext", "idle")
  /\ last' = [last EXCEPT ![nxt[p]] = node[p]]
  /\ Touch(nxt[p])
  /\ UNCHANGED <<live, item, next, lock, prodv, consv>>

Add(p) == AddBegin(p) \/ AddConstruct(p) \/ AddLinkLast(p) \/ AddLinkNext(p)

-----------------------------------------------------------------------------
(* GetLast, with a buffer that is not NULL *)

\* The guards, and `rt = Last->len`; a call that returns 0 changes nothing.
GetLastTest ==
  /\ pc[Consumer] = "idle"
  /\ IF last[HeadCell] = NULL
     THEN UNCHANGED <<pc, dangling>>
     ELSE /\ Touch(last[HeadCell])
          /\ IF last[HeadCell] = HeadCell \/ item[last[HeadCell]] \in Oversize
             THEN UNCHANGED pc
             ELSE Goto(Consumer, "idle", "lock")
  /\ UNCHANGED <<mem, lock, prodv, consv>>

GetLastLock ==
  /\ Goto(Consumer, "lock", "copy")
  /\ lock = NULL
  /\ lock' = Consumer
  /\ UNCHANGED <<mem, prodv, consv, dangling>>

\* Faulty variant: the copy is made from the newest node.
MutGetLastCopy ==
  LET n == IF next[HeadCell] = HeadCell THEN last[HeadCell] ELSE next[HeadCell]
  IN  /\ Goto(Consumer, "copy", "delete")
      /\ got' = item[n]
      /\ Touch(n)
      /\ lock' = NULL
      /\ UNCHANGED <<mem, prodv, doomed, out>>

\* memcpy from the node that is head.Last now, and the unlock.
GetLastCopy ==
  /\ Goto(Consumer, "copy", "delete")
  /\ got' = item[last[HeadCell]]
  /\ Touch(last[HeadCell])
  /\ lock' = NULL
  /\ UNCHANGED <<mem, prodv, doomed, out>>

\* Faulty variant: the destructor forgets `Last->Next = Next`.
MutDeleteUnlinkLast ==
  /\ Goto(Consumer, "delete", "unlinkNext")
  /\ doomed' = last[HeadCell]
  /\ UNCHANGED <<mem, lock, prodv, got, out, dangling>>

\* `delete Last` outside the lock; the destructor up to `Last->Next = Next`.
DeleteUnlinkLast ==
  LET d == last[HeadCell]
  IN  /\ Goto(Consumer, "delete", "unlinkNext")
      /\ doomed' = d
      /\ next' = [next EXCEPT ![last[d]] = next[d]]
      /\ dangling' = (dangling \/ ~({d, last[d]} \subseteq live \cup {HeadCell}))
      /\ UNCHANGED <<live, item, last, lock, prodv, got, out>>

\* `Next->Last = Last`, the release of the memory, and GetLast's return.
DeleteUnlinkNext ==
  /\ Goto(Consumer, "unlinkNext", "idle")
  /\ last' = [last EXCEPT ![next[doomed]] = last[doomed]]
  /\ Touch(next[doomed])
  /\ live' = live \ {doomed}
  /\ out' = Append(out, got)
  /\ UNCHANGED <<item, next, lock, prodv, doomed, got>>

GetLast == GetLastTest \/ GetLastLock \/ GetLastCopy \/ DeleteUnlinkLast
             \/ DeleteUnlinkNext

-----------------------------------------------------------------------------
(* GetBuf of the head, whose own buffer is empty: it only takes the lock.  *)

GetBufLock(r) ==
  /\ Goto(r, "idle", "getBuf")
  /\ lock = NULL
  /\ lock' = r
  /\ UNCHANGED <<mem, prodv, consv, dangling>>

GetBufUnlock(r) ==
  /\ Goto(r, "getBuf", "idle")
  /\ lock' = NULL
  /\ UNCHANGED <<mem, prodv, consv, dangling>>

GetBuf(r) == GetBufLock(r) \/ GetBufUnlock(r)

-----------------------------------------------------------------------------
Next == \/ \E p \in Producers : Add(p)
        \/ GetLast
        \/ \E r \in Readers : GetBuf(r)

\* Threads run as in main.cpp, with no coordination but the list's own.
Spec == Init /\ [][Next]_vars

InCall(t) == pc[t] # "idle"

Adding(p) == pc[p] \in {"construct", "linkLast", "linkNext"}

\* The use the list does support: one Add at a time, and no GetLast unlinking
\* the node that an Add is linking to (or emptying the list beside an Add).
Apart ==
  /\ \A p, q \in Producers : Adding(p) /\ Adding(q) => p = q
  /\ \A p \in Producers :
       pc[Consumer] = "unlinkNext" /\ pc[p] \in {"linkLast", "linkNext"}
         => nxt[p] \notin {doomed, HeadCell}

ApartNext == Next /\ Apart'

ApartSpec == Init /\ [][ApartNext]_vars

\* The scheduler lets a thread go on with the call it is in; the consumer polls
\* for ever (Thr2's loop), and gets the lock although readers may take it again
\* and again; a reader gives it back.  Nothing makes a producer call Add.
FairApartSpec ==
  /\ ApartSpec
  /\ \A p \in Producers : WF_vars(ApartNext /\ InCall(p) /\ Add(p))
  /\ WF_vars(ApartNext /\ GetLast) /\ SF_vars(ApartNext /\ GetLastLock)
  /\ \A r \in Readers : WF_vars(ApartNext /\ GetBufUnlock(r))

-----------------------------------------------------------------------------
(* The queue the ring stands for *)

\* The nodes that are in the list: Add has returned, delete has not.
Linked == live \ {node[p] : p \in {q \in Producers : Adding(q)}}

Waiting == {item[n] : n \in Linked}

\* How many calls of Add have returned, when there is one at a time.
Added == IF \E p \in Producers : Adding(p) THEN added - 1 ELSE added

Fifo == INSTANCE FifoQueue WITH put <- Added, waiting <- Waiting

-----------------------------------------------------------------------------
(* Properties *)

AddStage  == {"idle", "construct", "linkLast", "linkNext"}
TakeStage == {"idle", "lock", "copy", "delete", "unlinkNext"}
ReadStage == {"idle", "getBuf"}

\* Type invariant of the list, its heap and the threads that use it.
TypeOK ==
  /\ live \subseteq Node
  /\ item \in [Node -> 0..MaxItems]
  /\ last \in [Cell -> Cell \cup {NULL}]
  /\ next \in [Cell -> Cell \cup {NULL}] /\ next[HeadCell] # NULL
  /\ lock \in Threads \cup {NULL}
  /\ pc \in [Threads -> AddStage \cup TakeStage \cup ReadStage]
  /\ \A p \in Producers : pc[p] \in AddStage
  /\ pc[Consumer] \in TakeStage
  /\ \A r \in Readers : pc[r] \in ReadStage
  /\ node \in [Producers -> Node \cup {NULL}]
  /\ nxt \in [Producers -> Cell \cup {NULL}]
  /\ heldCopy \in [Producers -> BOOLEAN]
  /\ doomed \in Cell \cup {NULL}
  /\ got \in 0..MaxItems
  /\ added \in 0..MaxItems
  /\ out \in Seq(0..MaxItems)
  /\ dangling \in BOOLEAN

\* No call touches a node after delete released it or before new returned it.
NoDanglingAccess == ~dangling

\* Between calls the two pointers of every cell undo each other and items get
\* older along Next: one ring through the head holds every node.
RingIntact ==
  (Linked # {} /\ \A t \in Threads : ~InCall(t)) =>
    \A c \in Linked \cup {HeadCell} :
      /\ next[c] \in Linked \cup {HeadCell} /\ last[next[c]] = c
      /\ last[c] \in Linked \cup {HeadCell} /\ next[last[c]] = c
      /\ HeadCell \notin {c, next[c]} => item[next[c]] < item[c]

\* GetLast calls implement a FIFO queue (an oversize item keeps its place).
IsFifo == Fifo!Spec

\* An item that fits, behind items that fit, is delivered, whatever readers and
\* producers do with the lock in the meantime.
Delivery == \A i \in 1..MaxItems :
              (i \in Waiting /\ (1..i) \cap Oversize = {}) ~> (Len(out) >= i)

\* The "Thread safe list class": a thread that calls Add comes back from it.
AddReturns == \A p \in Producers : InCall(p) ~> ~InCall(p)

-----------------------------------------------------------------------------
(* The inductive invariant of ApartSpec.  Items number the nodes of the    *)
(* list without a gap, Len(out)+1 (the oldest) .. Added (the newest), Last *)
(* leads from each to the one after it and Next to the one before it,      *)
(* except where the call in progress has unlinked one side only.           *)

Unlinking == pc[Consumer] = "unlinkNext"
Oldest == Len(out) + 1
Is(c, i) == c \in Linked /\ item[c] = i

ItemsInv ==
  /\ \A p \in Producers :
       Adding(p) => node[p] \in live /\ item[node[p]] = added
  /\ \A n \in live : item[n] \in Oldest..added
  /\ \A n, o \in live : item[n] = item[o] => n = o
  /\ \A i \in Oldest..Added : \E n \in Linked : item[n] = i
  /\ Oldest <= Added + 1

LastInv ==
  /\ \A n \in Linked : IF item[n] = Added THEN last[n] = HeadCell
                                          ELSE Is(last[n], item[n] + 1)
  /\ IF Linked = {} THEN last[HeadCell] \in {HeadCell, NULL}
                    ELSE Is(last[HeadCell], Oldest)

NextInv ==
  /\ \A n \in Linked :
       IF item[n] = Oldest \/ (Unlinking /\ item[n] = Oldest + 1)
       THEN next[n] = HeadCell
       ELSE Is(next[n], item[n] - 1)
  /\ (\A p \in Producers : pc[p] # "linkNext") =>
       IF Linked = {} \/ (Unlinking /\ Oldest = Added)
       THEN next[HeadCell] = HeadCell
       ELSE Is(next[HeadCell], Added)

AddInv ==
  \A p \in Producers :
    /\ pc[p] \in {"linkLast", "linkNext"} =>
         /\ last[node[p]] = HeadCell /\ next[node[p]] = nxt[p]
         /\ IF Linked = {} THEN nxt[p] = HeadCell ELSE Is(nxt[p], Added)
    /\ pc[p] = "linkNext" => next[HeadCell] = node[p]

TakeInv ==
  /\ InCall(Consumer) => Linked # {} /\ Oldest \notin Oversize
  /\ pc[Consumer] \in {"delete", "unlinkNext"} => got = Oldest
  /\ Unlinking => Is(doomed, Oldest)

ApartInv == /\ TypeOK /\ Apart /\ ~dangling
            /\ ItemsInv /\ LastInv /\ NextInv /\ AddInv /\ TakeInv
=============================================================================
