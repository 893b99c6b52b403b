-------------------------- MODULE ThrSfeListProofs --------------------------
(***************************************************************************)
(* ApartSpec of ThrSfeList is safe, for any number of threads and items    *)
(* and any heap: ApartInv is inductive, and it gives memory safety, an     *)
(* intact ring and the refinement of FifoQueue.                            *)
(***************************************************************************)
EXTENDS ThrSfeList, TLAPS

USE ThreadsAssumption, MemoryAssumption DEF ThreadsAssumption, MemoryAssumption

\* The initial state satisfies the inductive invariant.
LEMMA InitInv == Init => ApartInv
<1> SUFFICES ASSUME Init PROVE ApartInv
  OBVIOUS
<1> USE DEF Init, Cell, Threads
<1>a. 0 \in 0..MaxItems /\ <<>> \in Seq(0..MaxItems)
  OBVIOUS
<1>b. /\ \A p \in Producers : pc[p] \in AddStage
      /\ pc[Consumer] \in TakeStage
      /\ \A r \in Readers : pc[r] \in ReadStage
      /\ pc \in [Threads -> AddStage \cup TakeStage \cup ReadStage]
  BY DEF AddStage, TakeStage, ReadStage
<1>1. TypeOK
  BY <1>a, <1>b DEF TypeOK
<1>2. \A p \in Producers : ~Adding(p)
  BY DEF Adding
<1>3. Linked = {} /\ Added = 0 /\ Oldest = 1
  BY <1>2 DEF Linked, Added, Oldest
<1>4. Apart /\ ~dangling
  BY <1>2 DEF Apart
<1>5. ItemsInv
  BY <1>2, <1>3 DEF ItemsInv
<1>6. LastInv /\ NextInv
  BY <1>3 DEF LastInv, NextInv
<1>7. AddInv /\ TakeInv
  BY DEF AddInv, TakeInv, Unlinking, InCall
<1> QED
  BY <1>1, <1>4, <1>5, <1>6, <1>7 DEF ApartInv

-----------------------------------------------------------------------------
(* Each action preserves the invariant. *)

\* Add's allocation: the new node is pending, so the list does not change.
LEMMA AddBeginInv ==
  ASSUME ApartInv, Apart', NEW p \in Producers, AddBegin(p)
  PROVE  ApartInv' /\ UNCHANGED <<Added, Waiting, out>>
<1> USE DEF Threads, Cell, Goto
<1>1. PICK a \in Node \ live :
        /\ live' = live \cup {a}
        /\ item' = [item EXCEPT ![a] = added + 1]
        /\ node' = [node EXCEPT ![p] = a]
  BY DEF AddBegin
<1>2. /\ pc[p] = "idle" /\ pc' = [pc EXCEPT ![p] = "construct"]
      /\ added' = added + 1 /\ added < MaxItems
      /\ heldCopy' = [heldCopy EXCEPT ![p] = (lock # NULL)]
      /\ UNCHANGED <<last, next, nxt, lock, doomed, got, out, dangling>>
  BY DEF AddBegin, consv
<1>3. TypeOK
  BY DEF ApartInv
<1>4. TypeOK'
  <2>1. added' \in 0..MaxItems /\ item' \in [Node -> 0..MaxItems]
    BY <1>1, <1>2, <1>3 DEF TypeOK
  <2>2. /\ pc' \in [Threads -> AddStage \cup TakeStage \cup ReadStage]
        /\ \A q \in Producers : pc'[q] \in AddStage
        /\ pc'[Consumer] \in TakeStage
        /\ \A r \in Readers : pc'[r] \in ReadStage
    BY <1>2, <1>3 DEF TypeOK, AddStage
  <2> QED
    BY <1>1, <1>2, <1>3, <2>1, <2>2 DEF TypeOK
<1>5. \A q \in Producers : ~Adding(q) /\ (Adding(q)' <=> q = p)
  BY <1>2, <1>3 DEF Apart, Adding, TypeOK
<1>6. Linked = live /\ Linked' = live /\ Added = added /\ Added' = added
  <2>1. {node[q] : q \in {r \in Producers : Adding(r)}} = {}
    BY <1>5
  <2>2. {node'[q] : q \in {r \in Producers : Adding(r)'}} = {a}
    BY <1>1, <1>3, <1>5 DEF TypeOK
  <2>3. Linked = live /\ Linked' = live
    BY <1>1, <2>1, <2>2 DEF Linked
  <2>4. Added = added /\ Added' = added
    BY <1>2, <1>3, <1>5 DEF Added, TypeOK
  <2> QED
    BY <2>3, <2>4
<1>7. \A c, i : Is(c, i)' <=> Is(c, i)
  BY <1>1, <1>3, <1>6 DEF Is, TypeOK
<1>8. \A n \in live : n \in Node /\ item'[n] = item[n]
  BY <1>1, <1>3 DEF TypeOK
<1>9. Oldest' = Oldest /\ Oldest \in Nat /\ item'[a] = added + 1 /\ (Unlinking' <=> Unlinking)
  BY <1>1, <1>2, <1>3 DEF Oldest, TypeOK, Unlinking
<1>10. ItemsInv'
  <2>1. ItemsInv /\ added \in Nat
    BY <1>3 DEF ApartInv, TypeOK
  <2>2. \A q \in Producers :
          Adding(q)' => node'[q] \in live' /\ item'[node'[q]] = added'
    BY <1>1, <1>2, <1>3, <1>5, <1>9 DEF TypeOK
  <2>3. Oldest <= added + 1 /\ (\A n \in live : item[n] \in Oldest..added)
    BY <1>6, <2>1 DEF ItemsInv
  <2>4. \A n \in live' : item'[n] \in Oldest'..added'
    BY <1>1, <1>2, <1>8, <1>9, <2>1, <2>3
  <2>5. \A n, o \in live' : item'[n] = item'[o] => n = o
    BY <1>1, <1>8, <1>9, <2>1, <2>3 DEF ItemsInv
  <2>6. \A i \in Oldest'..Added' : \E n \in Linked' : item'[n] = i
    BY <1>6, <1>8, <1>9, <2>1 DEF ItemsInv
  <2> QED
    BY <1>6, <1>9, <2>2, <2>3, <2>4, <2>5, <2>6 DEF ItemsInv
<1>11. LastInv'
  BY <1>2, <1>6, <1>7, <1>8, <1>9 DEF ApartInv, LastInv
<1>12. NextInv'
  <2>1. (\A q \in Producers : pc'[q] # "linkNext") /\ (\A q \in Producers : pc[q] # "linkNext")
    BY <1>2, <1>3, <1>5 DEF Adding, TypeOK
  <2> QED
    BY <2>1, <1>2, <1>6, <1>7, <1>8, <1>9 DEF ApartInv, NextInv
<1>13. AddInv'
  BY <1>2, <1>3, <1>5 DEF AddInv, Adding, TypeOK
<1>14. TakeInv'
  BY <1>2, <1>3, <1>6, <1>7, <1>9 DEF ApartInv, TakeInv, InCall, TypeOK, Unlinking
<1>15. Waiting' = Waiting
  BY <1>6, <1>8 DEF Waiting
<1> QED
  BY <1>2, <1>4, <1>6, <1>10, <1>11, <1>12, <1>13, <1>14, <1>15 DEF ApartInv

\* While p is in Add it is the only one, and its node is allocated but not
\* in the list.
LEMMA PendingNode ==
  ASSUME ApartInv, NEW p \in Producers, Adding(p)
  PROVE  /\ \A q \in Producers : Adding(q) <=> q = p
         /\ node[p] \in live /\ node[p] \in Node
         /\ Linked = live \ {node[p]}
         /\ Added = added - 1 /\ item[node[p]] = added /\ added \in Nat
<1>1. TypeOK /\ Apart /\ ItemsInv
  BY DEF ApartInv
<1>2. \A q \in Producers : Adding(q) <=> q = p
  BY <1>1 DEF Apart
<1>3. node[p] \in live /\ node[p] \in Node /\ item[node[p]] = added /\ added \in Nat
  BY <1>1 DEF ItemsInv, TypeOK
<1>4. {node[q] : q \in {r \in Producers : Adding(r)}} = {node[p]}
  BY <1>2
<1> QED
  BY <1>2, <1>3, <1>4 DEF Linked, Added

\* The constructor up to `Last->Next = this` writes the pending node only; it
\* captures the newest node, or the head of an empty list.
LEMMA AddConstructInv ==
  ASSUME ApartInv, Apart', NEW p \in Producers, AddConstruct(p)
  PROVE  ApartInv' /\ UNCHANGED <<Added, Waiting, out>>
<1> USE DEF Threads, Cell, Goto
<1> DEFINE a == node[p]
<1>1. /\ pc[p] = "construct" /\ pc' = [pc EXCEPT ![p] = "linkLast"]
      /\ nxt' = [nxt EXCEPT ![p] = next[HeadCell]]
      /\ last' = [last EXCEPT ![a] = HeadCell]
      /\ next' = [next EXCEPT ![a] = next[HeadCell]]
      /\ UNCHANGED <<live, item, lock, node, heldCopy, added, doomed, got, out, dangling>>
  BY DEF AddConstruct, consv
<1>2. TypeOK /\ ItemsInv /\ LastInv /\ NextInv /\ TakeInv /\ ~dangling
  BY DEF ApartInv
<1>3. Adding(p)
  BY <1>1 DEF Adding
<1>4. /\ \A q \in Producers : Adding(q) <=> q = p
      /\ a \in live /\ a \in Node /\ Linked = live \ {a}
  BY <1>3, PendingNode
<1>5. /\ \A q \in Producers : Adding(q)' <=> Adding(q)
      /\ pc'[Consumer] = pc[Consumer] /\ pc'[p] = "linkLast"
  BY <1>1, <1>2, <1>3 DEF Adding, TypeOK
<1>6. Linked' = Linked /\ Added' = Added /\ Oldest' = Oldest
  BY <1>1, <1>5 DEF Linked, Added, Oldest
<1>7. \A c, i : Is(c, i)' <=> Is(c, i)
  BY <1>1, <1>6 DEF Is
<1>8. TypeOK'
  <2>1. /\ pc' \in [Threads -> AddStage \cup TakeStage \cup ReadStage]
        /\ \A q \in Producers : pc'[q] \in AddStage
        /\ \A r \in Readers : pc'[r] \in ReadStage
    BY <1>1, <1>2 DEF TypeOK, AddStage
  <2> QED
    BY <1>1, <1>2, <1>4, <1>5, <2>1 DEF TypeOK
<1>9. ItemsInv'
  BY <1>1, <1>2, <1>5, <1>6 DEF ItemsInv
<1>10. \A n \in Linked \cup {HeadCell} : last'[n] = last[n] /\ next'[n] = next[n]
  BY <1>1, <1>2, <1>4 DEF TypeOK
<1>11. LastInv'
  BY <1>1, <1>2, <1>6, <1>7, <1>10 DEF LastInv
<1>12. /\ \A q \in Producers : pc[q] # "linkNext" /\ pc'[q] # "linkNext"
       /\ Unlinking' <=> Unlinking
  BY <1>1, <1>2, <1>4, <1>5 DEF Adding, Unlinking, TypeOK
<1>13. NextInv'
  BY <1>1, <1>2, <1>6, <1>7, <1>10, <1>12 DEF NextInv
<1>14. AddInv'
  <2>1. nxt'[p] = next[HeadCell] /\ last'[a] = HeadCell /\ next'[a] = next[HeadCell] /\ node'[p] = a
    BY <1>1, <1>2, <1>4 DEF TypeOK
  <2>2. Unlinking => next[HeadCell] # HeadCell
    BY <1>5, <2>1 DEF Apart, Unlinking
  <2>3. IF Linked = {} THEN nxt'[p] = HeadCell ELSE Is(nxt'[p], Added)
    BY <1>2, <1>12, <2>1, <2>2 DEF NextInv
  <2>4. \A q \in Producers : pc'[q] \in {"linkLast", "linkNext"} => q = p
    BY <1>4, <1>5 DEF Adding
  <2> QED
    BY <1>5, <1>6, <1>7, <1>12, <2>1, <2>3, <2>4 DEF AddInv
<1>15. TakeInv'
  BY <1>1, <1>2, <1>5, <1>6, <1>7 DEF TakeInv, InCall, Unlinking
<1>16. Waiting' = Waiting
  BY <1>1, <1>6 DEF Waiting
<1> QED
  BY <1>1, <1>2, <1>6, <1>8, <1>9, <1>11, <1>13, <1>14, <1>15, <1>16 DEF ApartInv

\* `Last->Next = this`: only head.Next changes.
LEMMA AddLinkLastInv ==
  ASSUME ApartInv, Apart', NEW p \in Producers, AddLinkLast(p)
  PROVE  ApartInv' /\ UNCHANGED <<Added, Waiting, out>>
<1> USE DEF Threads, Cell, Goto
<1>1. /\ pc[p] = "linkLast" /\ pc' = [pc EXCEPT ![p] = "linkNext"]
      /\ next' = [next EXCEPT ![HeadCell] = node[p]]
      /\ UNCHANGED <<live, item, last, lock, node, nxt, heldCopy, added, doomed, got, out, dangling>>
  BY DEF AddLinkLast, prodv, consv
<1>2. TypeOK /\ ItemsInv /\ LastInv /\ NextInv /\ TakeInv /\ AddInv /\ ~dangling
  BY DEF ApartInv
<1>3. Adding(p)
  BY <1>1 DEF Adding
<1>4. /\ \A q \in Producers : Adding(q) <=> q = p
      /\ node[p] \in live /\ node[p] \in Node /\ Linked = live \ {node[p]}
  BY <1>3, PendingNode
<1>5. /\ \A q \in Producers : Adding(q)' <=> Adding(q)
      /\ pc'[Consumer] = pc[Consumer] /\ pc'[p] = "linkNext"
  BY <1>1, <1>2, <1>3 DEF Adding, TypeOK
<1>6. Linked' = Linked /\ Added' = Added /\ Oldest' = Oldest
  BY <1>1, <1>5 DEF Linked, Added, Oldest
<1>7. \A c, i : Is(c, i)' <=> Is(c, i)
  BY <1>1, <1>6 DEF Is
<1>8. TypeOK'
  <2>1. /\ pc' \in [Threads -> AddStage \cup TakeStage \cup ReadStage]
        /\ \A q \in Producers : pc'[q] \in AddStage
        /\ \A r \in Readers : pc'[r] \in ReadStage
    BY <1>1, <1>2 DEF TypeOK, AddStage
  <2> QED
    BY <1>1, <1>2, <1>4, <1>5, <2>1 DEF TypeOK
<1>9. ItemsInv'
  BY <1>1, <1>2, <1>5, <1>6 DEF ItemsInv
<1>10. next'[HeadCell] = node[p] /\ \A n \in Node : next'[n] = next[n]
  BY <1>1, <1>2 DEF TypeOK
<1>11. LastInv'
  BY <1>1, <1>2, <1>6, <1>7 DEF LastInv
<1>12. NextInv'
  <2>1. \A n \in Linked : n \in Node
    BY <1>2 DEF Linked, TypeOK
  <2>2. Unlinking' <=> Unlinking
    BY <1>5 DEF Unlinking
  <2> QED
    BY <1>1, <1>2, <1>5, <1>6, <1>7, <1>10, <2>1, <2>2 DEF NextInv
<1>13. AddInv'
  <2>1. \A q \in Producers : pc'[q] \in {"linkLast", "linkNext"} => q = p
    BY <1>4, <1>5 DEF Adding
  <2> QED
    BY <1>1, <1>2, <1>4, <1>6, <1>7, <1>10, <2>1 DEF AddInv
<1>14. TakeInv'
  BY <1>1, <1>2, <1>5, <1>6, <1>7 DEF TakeInv, InCall, Unlinking
<1>15. Waiting' = Waiting
  BY <1>1, <1>6 DEF Waiting
<1> QED
  BY <1>1, <1>2, <1>6, <1>8, <1>9, <1>11, <1>12, <1>13, <1>14, <1>15 DEF ApartInv

\* The list is empty exactly when every added item has been delivered.
LEMMA EmptyList ==
  ASSUME TypeOK, ItemsInv, Added \in Int, Linked \subseteq live
  PROVE  /\ Linked = {} <=> Oldest = Added + 1
         /\ \A n \in Linked : Oldest \in Nat /\ item[n] \in Int
                              /\ Oldest <= item[n] /\ item[n] <= Added
<1>1. Oldest \in Nat /\ added \in Nat
  BY DEF TypeOK, Oldest
<1>2. ASSUME Linked = {} PROVE Oldest = Added + 1
  BY <1>1, <1>2 DEF ItemsInv
<1>3. \A n \in Linked : item[n] \in Oldest..added
  BY DEF ItemsInv
<1>4. ASSUME NEW n \in Linked PROVE item[n] <= Added
  <2>1. CASE \E p \in Producers : Adding(p)
    <3>1. PICK p \in Producers : Adding(p)
      BY <2>1
    <3>2. node[p] \in live /\ item[node[p]] = added /\ n # node[p] /\ n \in live
      BY <3>1, <1>4 DEF ItemsInv, Linked
    <3>3. item[n] # added
      BY <3>2 DEF ItemsInv
    <3> QED
      BY <1>1, <1>3, <3>3, <2>1 DEF Added
  <2>2. CASE ~\E p \in Producers : Adding(p)
    BY <1>1, <1>3, <2>2 DEF Added
  <2> QED
    BY <2>1, <2>2
<1> QED
  BY <1>1, <1>2, <1>3, <1>4

\* `Next->Last = this` makes the node the newest of the list.
LEMMA AddLinkNextInv ==
  ASSUME ApartInv, Apart', NEW p \in Producers, AddLinkNext(p)
  PROVE  /\ ApartInv'
         /\ Added' = Added + 1 /\ UNCHANGED out
         /\ Waiting' = Waiting \cup {Added + 1}
<1> USE DEF Threads, Cell, Goto
<1> DEFINE a == node[p]
<1>1. /\ pc[p] = "linkNext" /\ pc' = [pc EXCEPT ![p] = "idle"]
      /\ last' = [last EXCEPT ![nxt[p]] = a]
      /\ dangling' = (dangling \/ nxt[p] \notin live \cup {HeadCell})
      /\ UNCHANGED <<live, item, next, lock, node, nxt, heldCopy, added, doomed, got, out>>
  BY DEF AddLinkNext, prodv, consv, Touch
<1>2. TypeOK /\ Apart /\ ItemsInv /\ LastInv /\ NextInv /\ TakeInv /\ AddInv /\ ~dangling
  BY DEF ApartInv
<1>3. Adding(p)
  BY <1>1 DEF Adding
<1>4. /\ \A q \in Producers : Adding(q) <=> q = p
      /\ a \in live /\ a \in Node /\ Linked = live \ {a}
      /\ Added = added - 1 /\ item[a] = added /\ added \in Nat
  BY <1>3, PendingNode
<1>5. /\ \A q \in Producers : ~Adding(q)'
      /\ pc'[Consumer] = pc[Consumer]
  BY <1>1, <1>2, <1>4 DEF Adding, TypeOK
<1>6. Linked' = live /\ Linked' = Linked \cup {a} /\ Added' = added /\ Oldest' = Oldest
  <2>1. {node'[q] : q \in {r \in Producers : Adding(r)'}} = {}
    BY <1>5
  <2> QED
    BY <2>1, <1>1, <1>4, <1>5 DEF Linked, Added, Oldest
<1>7. /\ \A c, i : Is(c, i) => Is(c, i)' /\ c \in Linked /\ c # a /\ c \in Node
      /\ Is(a, added)'
  BY <1>1, <1>2, <1>4, <1>6 DEF Is, TypeOK
<1>8. /\ Linked = {} <=> Oldest = Added + 1
      /\ \A n \in Linked : Oldest \in Nat /\ item[n] \in Int
                           /\ Oldest <= item[n] /\ item[n] <= Added
  BY <1>2, <1>4, EmptyList
<1>9. /\ last[a] = HeadCell /\ next[a] = nxt[p] /\ next[HeadCell] = a
      /\ IF Linked = {} THEN nxt[p] = HeadCell ELSE Is(nxt[p], Added)
  BY <1>1, <1>2 DEF AddInv
<1>10. nxt[p] \in live \cup {HeadCell} /\ nxt[p] # a
  BY <1>4, <1>9 DEF Is
<1>11. TypeOK'
  <2>1. /\ pc' \in [Threads -> AddStage \cup TakeStage \cup ReadStage]
        /\ \A q \in Producers : pc'[q] \in AddStage
        /\ \A r \in Readers : pc'[r] \in ReadStage
    BY <1>1, <1>2 DEF TypeOK, AddStage
  <2> QED
    BY <1>1, <1>2, <1>4, <1>5, <2>1 DEF TypeOK
<1>12. ~dangling'
  BY <1>1, <1>2, <1>10
<1>13. ItemsInv'
  <2>1. \A i \in Oldest'..Added' : \E n \in Linked' : item'[n] = i
    <3>1. \A i \in Oldest..Added : \E n \in Linked : item[n] = i
      BY <1>2 DEF ItemsInv
    <3>2. Oldest \in Nat
      BY <1>2 DEF TypeOK, Oldest
    <3> QED
      BY <1>1, <1>4, <1>6, <3>1, <3>2
  <2> QED
    BY <1>1, <1>2, <1>4, <1>5, <1>6, <1>8, <2>1 DEF ItemsInv, TypeOK, Oldest
<1>14. /\ \A c \in Cell : last'[c] = IF c = nxt[p] THEN a ELSE last[c]
       /\ \A n \in Linked : n \in Cell
  BY <1>1, <1>2, <1>4 DEF TypeOK
<1>15. LastInv'
  <2>1. ASSUME NEW n \in Linked
        PROVE  IF item[n] = Added' THEN last'[n] = HeadCell
                                   ELSE Is(last[n], item[n] + 1)'
    <3>1. n # a /\ item[n] # added
      BY <1>2, <1>4 DEF ItemsInv
    <3>2. CASE item[n] = Added
      <4>1. n = nxt[p]
        BY <3>2, <1>2, <1>4, <1>9 DEF Is, ItemsInv
      <4> QED
        BY <4>1, <3>1, <3>2, <1>1, <1>4, <1>6, <1>7, <1>14
    <3>3. CASE item[n] # Added
      BY <3>1, <3>3, <1>2, <1>6, <1>7, <1>9, <1>14 DEF Is, LastInv
    <3> QED
      BY <3>2, <3>3
  <2>2. last'[a] = HeadCell
    BY <1>4, <1>9, <1>10, <1>14
  <2>3. Is(last[HeadCell], Oldest)'
    <3>1. CASE Linked = {}
      BY <3>1, <1>1, <1>4, <1>6, <1>7, <1>8, <1>9, <1>14
    <3>2. CASE Linked # {}
      <4>1. nxt[p] # HeadCell
        BY <3>2, <1>7, <1>9
      <4> QED
        BY <4>1, <3>2, <1>2, <1>6, <1>7, <1>14 DEF LastInv
    <3> QED
      BY <3>1, <3>2
  <2> QED
    BY <1>1, <1>4, <1>6, <2>1, <2>2, <2>3 DEF LastInv
<1>16. (Unlinking' <=> Unlinking) /\ (Unlinking => Linked # {} /\ Oldest # Added)
  <2>1. Unlinking' <=> Unlinking
    BY <1>5 DEF Unlinking
  <2>2. ASSUME Unlinking PROVE Linked # {} /\ Oldest # Added
    <3>1. Is(doomed, Oldest) /\ nxt[p] # doomed
      BY <1>1, <1>2, <2>2 DEF TakeInv, Apart, Unlinking
    <3>2. Is(nxt[p], Added)
      BY <3>1, <1>9 DEF Is
    <3> QED
      BY <3>1, <3>2, <1>2, <1>4 DEF Is, ItemsInv
  <2> QED
    BY <2>1, <2>2
<1>17. NextInv'
  <2>1. ASSUME NEW n \in Linked
        PROVE  IF item[n] = Oldest \/ (Unlinking /\ item[n] = Oldest + 1)
               THEN next[n] = HeadCell
               ELSE Is(next[n], item[n] - 1)'
    BY <1>1, <1>2, <1>7 DEF NextInv
  <2>2. IF item[a] = Oldest \/ (Unlinking /\ item[a] = Oldest + 1)
        THEN next[a] = HeadCell
        ELSE Is(next[a], item[a] - 1)'
    <3>1. CASE Linked = {}
      BY <3>1, <1>4, <1>8, <1>9
    <3>2. CASE Linked # {}
      <4>0. PICK n \in Linked : TRUE
        BY <3>2
      <4>1. Oldest \in Nat /\ Oldest <= Added
        BY <4>0, <1>4, <1>8
      <4>2. item[a] # Oldest /\ ~(Unlinking /\ item[a] = Oldest + 1)
        BY <4>1, <1>4, <1>16
      <4> QED
        BY <4>2, <3>2, <1>1, <1>4, <1>7, <1>9
    <3> QED
      BY <3>1, <3>2
  <2>3. Is(next[HeadCell], Added)' /\ ~(Unlinking' /\ Oldest' = Added')
    BY <1>1, <1>4, <1>6, <1>7, <1>8, <1>9, <1>16
  <2> QED
    BY <1>1, <1>6, <1>16, <2>1, <2>2, <2>3 DEF NextInv
<1>18. AddInv'
  BY <1>5 DEF AddInv, Adding
<1>19. TakeInv'
  BY <1>1, <1>2, <1>5, <1>6, <1>7, <1>16 DEF TakeInv, InCall, Unlinking
<1>20. Waiting' = Waiting \cup {Added + 1}
  BY <1>1, <1>4, <1>6 DEF Waiting
<1> QED
  BY <1>1, <1>4, <1>6, <1>11, <1>20, <1>12, <1>13, <1>15, <1>17, <1>18, <1>19 DEF ApartInv

\* A step that leaves the heap, the producers and the deliveries alone keeps
\* the parts of the invariant that speak of them.
LEMMA ListUntouched ==
  ASSUME ApartInv, UNCHANGED <<mem, prodv, out>>,
         \A p \in Producers : pc'[p] = pc[p], Unlinking' <=> Unlinking
  PROVE  /\ ItemsInv' /\ LastInv' /\ NextInv' /\ AddInv'
         /\ Linked' = Linked /\ Added' = Added /\ Oldest' = Oldest
         /\ \A c, i : Is(c, i)' <=> Is(c, i)
<1> USE DEF mem, prodv
<1>1. \A p \in Producers : Adding(p)' <=> Adding(p)
  BY DEF Adding
<1>2. Linked' = Linked /\ Added' = Added /\ Oldest' = Oldest
  BY <1>1 DEF Linked, Added, Oldest
<1>3. \A c, i : Is(c, i)' <=> Is(c, i)
  BY <1>2 DEF Is
<1>4. ItemsInv'
  BY <1>1, <1>2 DEF ApartInv, ItemsInv
<1>5. LastInv' /\ NextInv'
  BY <1>2, <1>3 DEF ApartInv, LastInv, NextInv
<1>6. AddInv'
  BY <1>2, <1>3 DEF ApartInv, AddInv
<1> QED
  BY <1>2, <1>3, <1>4, <1>5, <1>6

\* GetLast's guards let it pass only with a fitting item at the head.
LEMMA GetLastTestInv ==
  ASSUME ApartInv, Apart', GetLastTest
  PROVE  ApartInv' /\ UNCHANGED <<Added, Waiting, out>>
<1> USE DEF Threads, Cell, Goto
<1>1. TypeOK /\ LastInv /\ TakeInv /\ ~dangling
  BY DEF ApartInv
<1>2. /\ UNCHANGED <<mem, prodv, lock, doomed, got, out>>
      /\ pc[Consumer] = "idle"
      /\ pc' = pc \/ pc' = [pc EXCEPT ![Consumer] = "lock"]
  BY DEF GetLastTest, consv
<1>3. (\A p \in Producers : pc'[p] = pc[p]) /\ (Unlinking' <=> Unlinking)
  BY <1>1, <1>2 DEF TypeOK, Unlinking
<1>4. /\ ItemsInv' /\ LastInv' /\ NextInv' /\ AddInv'
      /\ Linked' = Linked /\ Added' = Added /\ Oldest' = Oldest
  BY <1>2, <1>3, ListUntouched
<1>5. TypeOK' /\ ~dangling'
  <2>1. \A c, i : Is(c, i) => c \in live
    BY DEF Is, Linked
  <2>2. dangling' = FALSE
    <3>1. last[HeadCell] \in live \cup {HeadCell, NULL}
      BY <1>1, <2>1 DEF LastInv
    <3> QED
      BY <1>1, <3>1 DEF GetLastTest, Touch, TypeOK
  <2>3. /\ pc' \in [Threads -> AddStage \cup TakeStage \cup ReadStage]
        /\ pc'[Consumer] \in TakeStage
        /\ \A r \in Readers : pc'[r] \in ReadStage
    BY <1>1, <1>2 DEF TypeOK, TakeStage
  <2> QED
    BY <1>1, <1>2, <1>3, <2>2, <2>3 DEF TypeOK, mem, prodv
<1>6. TakeInv'
  <2>1. CASE pc' = pc
    BY <2>1, <1>1, <1>2, <1>4 DEF TakeInv, InCall, Unlinking
  <2>2. CASE pc' # pc
    <3>1. last[HeadCell] # NULL /\ last[HeadCell] # HeadCell /\ item[last[HeadCell]] \notin Oversize
      BY <2>2 DEF GetLastTest
    <3>2. Linked # {} /\ item[last[HeadCell]] = Oldest
      BY <1>1, <3>1 DEF LastInv, Is
    <3>3. pc'[Consumer] = "lock"
      BY <2>2, <1>1, <1>2 DEF TypeOK
    <3> QED
      BY <3>1, <3>2, <3>3, <1>4 DEF TakeInv, InCall, Unlinking
  <2> QED
    BY <2>1, <2>2
<1>7. Waiting' = Waiting
  BY <1>2, <1>4 DEF Waiting, mem
<1> QED
  BY <1>2, <1>4, <1>5, <1>6, <1>7 DEF ApartInv

\* Taking the lock.
LEMMA GetLastLockInv ==
  ASSUME ApartInv, Apart', GetLastLock
  PROVE  ApartInv' /\ UNCHANGED <<Added, Waiting, out>>
<1> USE DEF Threads, Cell, Goto
<1>1. TypeOK /\ TakeInv /\ ~dangling
  BY DEF ApartInv
<1>2. /\ UNCHANGED <<mem, prodv, doomed, got, out, dangling>>
      /\ pc[Consumer] = "lock" /\ pc' = [pc EXCEPT ![Consumer] = "copy"]
      /\ lock' = Consumer
  BY DEF GetLastLock, consv
<1>3. (\A p \in Producers : pc'[p] = pc[p]) /\ (Unlinking' <=> Unlinking)
  BY <1>1, <1>2 DEF TypeOK, Unlinking
<1>4. /\ ItemsInv' /\ LastInv' /\ NextInv' /\ AddInv'
      /\ Linked' = Linked /\ Added' = Added /\ Oldest' = Oldest
  BY <1>2, <1>3, ListUntouched
<1>5. TypeOK'
  <2>1. /\ pc' \in [Threads -> AddStage \cup TakeStage \cup ReadStage]
        /\ pc'[Consumer] \in TakeStage
        /\ \A r \in Readers : pc'[r] \in ReadStage
    BY <1>1, <1>2 DEF TypeOK, TakeStage
  <2> QED
    BY <1>1, <1>2, <1>3, <2>1 DEF TypeOK, mem, prodv
<1>6. TakeInv'
  BY <1>1, <1>2, <1>4 DEF TypeOK, TakeInv, InCall, Unlinking
<1>7. Waiting' = Waiting
  BY <1>2, <1>4 DEF Waiting, mem
<1> QED
  BY <1>1, <1>2, <1>4, <1>5, <1>6, <1>7 DEF ApartInv

\* The copy is the oldest item.
LEMMA GetLastCopyInv ==
  ASSUME ApartInv, Apart', GetLastCopy
  PROVE  ApartInv' /\ UNCHANGED <<Added, Waiting, out>>
<1> USE DEF Threads, Cell, Goto
<1>1. TypeOK /\ LastInv /\ TakeInv /\ ~dangling
  BY DEF ApartInv
<1>2. /\ UNCHANGED <<mem, prodv, doomed, out>>
      /\ pc[Consumer] = "copy" /\ pc' = [pc EXCEPT ![Consumer] = "delete"]
      /\ lock' = NULL /\ got' = item[last[HeadCell]]
      /\ dangling' = (dangling \/ last[HeadCell] \notin live \cup {HeadCell})
  BY DEF GetLastCopy, Touch
<1>3. (\A p \in Producers : pc'[p] = pc[p]) /\ (Unlinking' <=> Unlinking)
  BY <1>1, <1>2 DEF TypeOK, Unlinking
<1>4. /\ ItemsInv' /\ LastInv' /\ NextInv' /\ AddInv'
      /\ Linked' = Linked /\ Added' = Added /\ Oldest' = Oldest
  BY <1>2, <1>3, ListUntouched
<1>5. last[HeadCell] \in live /\ got' = Oldest /\ Linked # {} /\ Oldest \notin Oversize
  BY <1>1, <1>2 DEF LastInv, TakeInv, InCall, Is, Linked
<1>6. TypeOK' /\ ~dangling'
  <2>1. /\ pc' \in [Threads -> AddStage \cup TakeStage \cup ReadStage]
        /\ pc'[Consumer] \in TakeStage
        /\ \A r \in Readers : pc'[r] \in ReadStage
    BY <1>1, <1>2 DEF TypeOK, TakeStage
  <2>2. got' \in 0..MaxItems
    <3>1. last[HeadCell] \in Node /\ item \in [Node -> 0..MaxItems]
      BY <1>1, <1>5 DEF TypeOK
    <3>2. item[last[HeadCell]] \in 0..MaxItems
      BY <3>1
    <3> QED
      BY <1>2, <3>2
  <2>3. dangling' = FALSE
    BY <1>1, <1>2, <1>5
  <2> QED
    BY <1>1, <1>2, <1>3, <2>1, <2>2, <2>3 DEF TypeOK, mem, prodv
<1>7. TakeInv'
  BY <1>1, <1>2, <1>4, <1>5 DEF TypeOK, TakeInv, InCall, Unlinking
<1>8. Waiting' = Waiting
  BY <1>2, <1>4 DEF Waiting, mem
<1> QED
  BY <1>2, <1>4, <1>6, <1>7, <1>8 DEF ApartInv

\* `Last->Next = Next` of the doomed node: its newer neighbour, or the head.
LEMMA DeleteUnlinkLastInv ==
  ASSUME ApartInv, Apart', DeleteUnlinkLast
  PROVE  ApartInv' /\ UNCHANGED <<Added, Waiting, out>>
<1> USE DEF Threads, Cell, Goto
<1> DEFINE d == last[HeadCell]
<1>1. TypeOK /\ ItemsInv /\ LastInv /\ NextInv /\ AddInv /\ TakeInv /\ ~dangling
  BY DEF ApartInv
<1>2. /\ UNCHANGED <<live, item, last, lock, node, nxt, heldCopy, added, got, out>>
      /\ pc[Consumer] = "delete" /\ pc' = [pc EXCEPT ![Consumer] = "unlinkNext"]
      /\ doomed' = d
      /\ next' = [next EXCEPT ![last[d]] = next[d]]
      /\ dangling' = (dangling \/ ~({d, last[d]} \subseteq live \cup {HeadCell}))
  BY DEF DeleteUnlinkLast, prodv
<1>3. /\ \A p \in Producers : pc'[p] = pc[p] /\ (Adding(p)' <=> Adding(p))
      /\ Unlinking' /\ ~Unlinking /\ pc'[Consumer] = "unlinkNext"
  BY <1>1, <1>2 DEF TypeOK, Unlinking, Adding
<1>4. Linked' = Linked /\ Added' = Added /\ Oldest' = Oldest
  BY <1>2, <1>3 DEF Linked, Added, Oldest
<1>5. \A c, i : Is(c, i)' <=> Is(c, i)
  BY <1>2, <1>4 DEF Is
<1>6. Linked \subseteq live /\ live \subseteq Node
  BY <1>1 DEF Linked, TypeOK
<1>7. Is(d, Oldest) /\ next[d] = HeadCell /\ d \in Linked
  BY <1>1, <1>2, <1>3 DEF LastInv, NextInv, TakeInv, InCall, Is
<1>8. IF Oldest = Added THEN last[d] = HeadCell ELSE Is(last[d], Oldest + 1)
  BY <1>1, <1>7 DEF LastInv, Is
<1>9. last[d] \in Linked \cup {HeadCell} /\ last[d] \in Cell
  BY <1>6, <1>8 DEF Is
<1>10. TypeOK' /\ dangling' = FALSE
  <2>1. /\ pc' \in [Threads -> AddStage \cup TakeStage \cup ReadStage]
        /\ pc'[Consumer] \in TakeStage
        /\ \A r \in Readers : pc'[r] \in ReadStage
    BY <1>1, <1>2 DEF TypeOK, TakeStage
  <2>2. dangling' = FALSE
    BY <1>1, <1>2, <1>6, <1>7, <1>9
  <2>3. /\ next' \in [Cell -> Cell \cup {NULL}] /\ doomed' \in Cell
        /\ next'[HeadCell] # NULL
    BY <1>1, <1>2, <1>6, <1>7, <1>9 DEF TypeOK
  <2> QED
    BY <1>1, <1>2, <1>3, <2>1, <2>2, <2>3 DEF TypeOK
<1>11. ItemsInv' /\ LastInv'
  BY <1>1, <1>2, <1>3, <1>4, <1>5 DEF ItemsInv, LastInv
<1>12. \A c \in Cell : next'[c] = IF c = last[d] THEN HeadCell ELSE next[c]
  BY <1>1, <1>2, <1>7, <1>9 DEF TypeOK
<1>13. NextInv'
  <2>1. ASSUME NEW n \in Linked
        PROVE  IF item[n] = Oldest \/ item[n] = Oldest + 1
               THEN next'[n] = HeadCell
               ELSE Is(next[n], item[n] - 1)'
    <3>1. CASE n = last[d]
      BY <3>1, <1>6, <1>8, <1>12 DEF Is
    <3>2. CASE n # last[d]
      <4>1. item[n] # Oldest + 1 /\ next'[n] = next[n]
        <5>1. Oldest \in Nat /\ item[n] \in Oldest..added /\ n \in live
          BY <1>1, <1>6 DEF ItemsInv, TypeOK, Oldest
        <5>2. ASSUME item[n] = Oldest + 1 PROVE FALSE
          <6>1. CASE Oldest = Added
            <7>1. Linked # {} /\ Added \in Int
              BY <6>1, <5>1, <1>7
            <7>2. item[n] <= Added
              BY <7>1, <1>1, <1>6, EmptyList
            <7> QED
              BY <7>2, <6>1, <5>1, <5>2
          <6>2. CASE Oldest # Added
            BY <6>2, <5>2, <3>2, <1>1, <1>6, <1>8 DEF Is, ItemsInv
          <6> QED
            BY <6>1, <6>2
        <5> QED
          BY <5>2, <3>2, <1>6, <1>12
      <4> QED
        BY <4>1, <1>1, <1>2, <1>3, <1>5 DEF NextInv
    <3> QED
      BY <3>1, <3>2
  <2>2. (\A p \in Producers : pc'[p] # "linkNext") =>
          IF Linked = {} \/ Oldest = Added
          THEN next'[HeadCell] = HeadCell
          ELSE Is(next[HeadCell], Added)'
    <3>1. CASE Oldest = Added
      BY <3>1, <1>8, <1>12
    <3>2. CASE Oldest # Added
      <4>1. last[d] # HeadCell
        BY <3>2, <1>6, <1>8 DEF Is
      <4>2. next'[HeadCell] = next[HeadCell]
        BY <4>1, <1>12
      <4> QED
        BY <4>2, <3>2, <1>1, <1>2, <1>3, <1>4, <1>5, <1>7 DEF NextInv
    <3> QED
      BY <3>1, <3>2
  <2> QED
    BY <1>2, <1>3, <1>4, <1>5, <2>1, <2>2 DEF NextInv
<1>14. AddInv'
  <2> SUFFICES ASSUME NEW p \in Producers, pc[p] \in {"linkLast", "linkNext"}
               PROVE  /\ last[node[p]] = HeadCell /\ next'[node[p]] = nxt[p]
                      /\ IF Linked = {} THEN nxt[p] = HeadCell ELSE Is(nxt[p], Added)
                      /\ pc[p] = "linkNext" => next'[HeadCell] = node[p]
    BY <1>2, <1>3, <1>4, <1>5 DEF AddInv
  <2>1. Adding(p)
    BY DEF Adding
  <2>2. node[p] \in Node /\ node[p] \notin Linked
    BY <2>1, PendingNode
  <2>3. nxt[p] # d /\ nxt[p] # HeadCell
    BY <1>2, <1>3 DEF Apart
  <2>4. Is(nxt[p], Added)
    BY <1>1, <2>3 DEF AddInv
  <2>5. Oldest # Added
    BY <1>1, <1>6, <1>7, <2>3, <2>4 DEF Is, ItemsInv
  <2>6. last[d] \in Linked
    BY <2>5, <1>8 DEF Is
  <2>7. next'[node[p]] = next[node[p]] /\ next'[HeadCell] = next[HeadCell]
    BY <2>2, <2>6, <1>6, <1>12
  <2> QED
    BY <2>4, <2>7, <1>1, <1>7 DEF AddInv
<1>15. TakeInv'
  BY <1>1, <1>2, <1>3, <1>4, <1>5, <1>7 DEF TakeInv, InCall, Unlinking
<1>16. Waiting' = Waiting
  BY <1>2, <1>4 DEF Waiting
<1> QED
  BY <1>2, <1>4, <1>10, <1>11, <1>13, <1>14, <1>15, <1>16 DEF ApartInv

\* `Next->Last = Last`, the release and the return: the oldest item leaves.
LEMMA DeleteUnlinkNextInv ==
  ASSUME ApartInv, Apart', DeleteUnlinkNext
  PROVE  /\ ApartInv' /\ UNCHANGED Added
         /\ got \in Waiting \ Oversize /\ \A i \in Waiting : got <= i
         /\ Waiting' = Waiting \ {got} /\ out' = Append(out, got)
<1> USE DEF Threads, Cell, Goto
<1> DEFINE d == doomed
<1>1. /\ TypeOK /\ Apart /\ ItemsInv /\ LastInv /\ NextInv /\ AddInv /\ TakeInv
      /\ ~dangling
  BY DEF ApartInv
<1>2. /\ UNCHANGED <<item, next, lock, node, nxt, heldCopy, added, got, doomed>>
      /\ pc[Consumer] = "unlinkNext" /\ pc' = [pc EXCEPT ![Consumer] = "idle"]
      /\ last' = [last EXCEPT ![next[d]] = last[d]]
      /\ live' = live \ {d}
      /\ out' = Append(out, got)
      /\ dangling' = (dangling \/ next[d] \notin live \cup {HeadCell})
  BY DEF DeleteUnlinkNext, prodv, Touch
<1>3. /\ \A p \in Producers : pc'[p] = pc[p] /\ (Adding(p)' <=> Adding(p))
      /\ ~Unlinking' /\ Unlinking /\ pc'[Consumer] = "idle"
  BY <1>1, <1>2 DEF TypeOK, Unlinking, Adding
<1>4. /\ got = Oldest /\ Is(d, Oldest) /\ d \in Linked /\ item[d] = Oldest
      /\ Oldest \notin Oversize
  BY <1>1, <1>2, <1>3 DEF TakeInv, Is, InCall
<1>5. /\ Linked \subseteq live /\ live \subseteq Node /\ Oldest \in Nat
      /\ Added \in Int /\ added \in Nat
  BY <1>1 DEF Linked, TypeOK, Oldest, Added
<1>6. Linked' = Linked \ {d} /\ Added' = Added /\ Oldest' = Oldest + 1
  <2>1. Oldest' = Oldest + 1
    BY <1>1, <1>2 DEF TypeOK, Oldest
  <2>2. Linked' = Linked \ {d}
    BY <1>2, <1>3 DEF Linked
  <2>3. Added' = Added
    BY <1>2, <1>3 DEF Added
  <2> QED
    BY <2>1, <2>2, <2>3
<1>7. /\ \A c, i : Is(c, i)' <=> Is(c, i) /\ c # d
      /\ \A c, i : Is(c, i) /\ i # Oldest => c # d
  BY <1>2, <1>4, <1>6 DEF Is
<1>8. \A n \in Linked : /\ item[n] \in Int /\ Oldest <= item[n] /\ item[n] <= Added
                        /\ item[n] = Oldest => n = d
  <2>1. \A n \in Linked : item[n] \in Int /\ Oldest <= item[n] /\ item[n] <= Added
    BY <1>1, <1>5, EmptyList
  <2> QED
    BY <2>1, <1>1, <1>4, <1>5 DEF ItemsInv
<1>9. next[d] = HeadCell
  BY <1>1, <1>4 DEF NextInv
<1>10. IF Oldest = Added THEN last[d] = HeadCell ELSE Is(last[d], Oldest + 1)
  BY <1>1, <1>4 DEF LastInv
<1>11. last[d] \in Cell
  BY <1>5, <1>10 DEF Is
<1>12. TypeOK' /\ dangling' = FALSE
  <2>1. /\ pc' \in [Threads -> AddStage \cup TakeStage \cup ReadStage]
        /\ pc'[Consumer] \in TakeStage
        /\ \A r \in Readers : pc'[r] \in ReadStage
    BY <1>1, <1>2 DEF TypeOK, TakeStage
  <2>2. dangling' = FALSE
    BY <1>1, <1>2, <1>9
  <2>3. last' \in [Cell -> Cell \cup {NULL}] /\ live' \subseteq Node
    BY <1>1, <1>2, <1>9, <1>11 DEF TypeOK
  <2>4. out' \in Seq(0..MaxItems)
    BY <1>1, <1>2 DEF TypeOK
  <2> QED
    BY <1>1, <1>2, <1>3, <2>1, <2>2, <2>3, <2>4 DEF TypeOK
<1>13. ItemsInv'
  <2>1. \A p \in Producers : Adding(p) => node[p] # d
    BY <1>4 DEF Linked
  <2>2. \A n \in live : item[n] = Oldest => n = d
    BY <1>1, <1>4, <1>5 DEF ItemsInv
  <2>3. \A n \in live' : item'[n] \in Oldest'..added'
    BY <1>1, <1>2, <1>5, <1>6, <2>2 DEF ItemsInv
  <2>4. \A i \in Oldest'..Added' : \E n \in Linked' : item'[n] = i
    <3> SUFFICES ASSUME NEW i \in Oldest + 1..Added
                 PROVE  \E n \in Linked \ {d} : item[n] = i
      BY <1>2, <1>6
    <3>1. i \in Oldest..Added /\ i # Oldest
      BY <1>5
    <3> QED
      BY <3>1, <1>1, <1>4 DEF ItemsInv
  <2>5. Oldest' <= Added' + 1
    BY <1>4, <1>5, <1>6, <1>8
  <2> QED
    BY <1>1, <1>2, <1>3, <2>1, <2>3, <2>4, <2>5 DEF ItemsInv
<1>14. \A c \in Cell : last'[c] = IF c = HeadCell THEN last[d] ELSE last[c]
  BY <1>1, <1>2, <1>9 DEF TypeOK
<1>15. Oldest = Added <=> Linked' = {}
  <2>1. ASSUME Oldest = Added PROVE Linked' = {}
    BY <2>1, <1>5, <1>6, <1>8
  <2>2. ASSUME Oldest # Added PROVE Linked' # {}
    BY <2>2, <1>6, <1>7, <1>10 DEF Is
  <2> QED
    BY <2>1, <2>2
<1>16. LastInv'
  <2>1. ASSUME NEW n \in Linked \ {d}
        PROVE  IF item[n] = Added THEN last'[n] = HeadCell
                                  ELSE Is(last[n], item[n] + 1)'
    <3>1. last'[n] = last[n] /\ item[n] + 1 # Oldest
      BY <1>5, <1>8, <1>14
    <3> QED
      BY <3>1, <1>1, <1>2, <1>7 DEF LastInv
  <2>2. IF Linked' = {} THEN last'[HeadCell] = HeadCell
                        ELSE Is(last[HeadCell], Oldest)'
    BY <1>2, <1>5, <1>6, <1>7, <1>10, <1>14, <1>15
  <2> QED
    BY <1>2, <1>6, <2>1, <2>2 DEF LastInv
<1>17. NextInv'
  <2>1. ASSUME NEW n \in Linked \ {d}
        PROVE  IF item[n] = Oldest + 1 THEN next[n] = HeadCell
                                       ELSE Is(next[n], item[n] - 1)'
    <3>1. item[n] # Oldest
      BY <1>8
    <3>2. CASE item[n] = Oldest + 1
      BY <3>2, <1>1, <1>3 DEF NextInv
    <3>3. CASE item[n] # Oldest + 1
      <4>1. Is(next[n], item[n] - 1)
        BY <3>1, <3>3, <1>1 DEF NextInv
      <4>2. item[n] - 1 # Oldest
        BY <3>3, <1>5, <1>8
      <4> QED
        BY <3>3, <4>1, <4>2, <1>2, <1>7
    <3> QED
      BY <3>2, <3>3
  <2>2. (\A p \in Producers : pc'[p] # "linkNext") =>
          IF Linked' = {} THEN next[HeadCell] = HeadCell
                          ELSE Is(next[HeadCell], Added)'
    <3> SUFFICES ASSUME \A p \in Producers : pc[p] # "linkNext"
                 PROVE  IF Oldest = Added THEN next[HeadCell] = HeadCell
                                          ELSE Is(next[HeadCell], Added)'
      BY <1>3, <1>15
    <3>1. IF Oldest = Added THEN next[HeadCell] = HeadCell
                            ELSE Is(next[HeadCell], Added)
      BY <1>1, <1>3, <1>4 DEF NextInv
    <3> QED
      BY <3>1, <1>2, <1>6, <1>7
  <2> QED
    BY <1>2, <1>3, <1>6, <2>1, <2>2 DEF NextInv
<1>18. AddInv'
  <2> SUFFICES ASSUME NEW p \in Producers, pc[p] \in {"linkLast", "linkNext"}
               PROVE  /\ last'[node[p]] = HeadCell /\ next[node[p]] = nxt[p]
                      /\ IF Linked' = {} THEN nxt[p] = HeadCell ELSE Is(nxt[p], Added)'
                      /\ pc[p] = "linkNext" => next[HeadCell] = node[p]
    BY <1>2, <1>3, <1>6 DEF AddInv
  <2>1. node[p] \in Node
    BY PendingNode DEF Adding
  <2>2. nxt[p] # d /\ nxt[p] # HeadCell
    BY <1>1, <1>2 DEF Apart
  <2>3. Is(nxt[p], Added)
    BY <1>1, <2>2 DEF AddInv
  <2>4. Oldest # Added
    BY <1>1, <1>4, <1>5, <2>2, <2>3 DEF Is, ItemsInv
  <2>5. last'[node[p]] = last[node[p]]
    BY <2>1, <1>14
  <2> QED
    BY <2>2, <2>3, <2>4, <2>5, <1>1, <1>2, <1>6, <1>7, <1>15 DEF AddInv
<1>19. TakeInv'
  BY <1>3 DEF TakeInv, InCall, Unlinking
<1>20. Waiting' = Waiting \ {got}
  BY <1>2, <1>4, <1>6, <1>8 DEF Waiting
<1>21. got \in Waiting \ Oversize /\ \A i \in Waiting : got <= i
  BY <1>4, <1>8 DEF Waiting
<1> QED
  BY <1>2, <1>6, <1>12, <1>13, <1>16, <1>17, <1>18, <1>19, <1>20, <1>21 DEF ApartInv

\* GetBuf only moves the lock.
LEMMA GetBufInv ==
  ASSUME ApartInv, Apart', NEW r \in Readers, GetBuf(r)
  PROVE  ApartInv' /\ UNCHANGED <<Added, Waiting, out>>
<1> USE DEF Threads, Cell, Goto
<1>1. TypeOK /\ TakeInv /\ ~dangling
  BY DEF ApartInv
<1>2. /\ UNCHANGED <<mem, prodv, doomed, got, out, dangling>>
      /\ \E s \in ReadStage : pc' = [pc EXCEPT ![r] = s]
      /\ lock' \in Threads \cup {NULL}
  BY DEF GetBuf, GetBufLock, GetBufUnlock, consv, ReadStage
<1>3. /\ \A p \in Producers : pc'[p] = pc[p]
      /\ pc'[Consumer] = pc[Consumer] /\ (Unlinking' <=> Unlinking)
  BY <1>1, <1>2 DEF TypeOK, Unlinking
<1>4. /\ ItemsInv' /\ LastInv' /\ NextInv' /\ AddInv'
      /\ Linked' = Linked /\ Added' = Added /\ Oldest' = Oldest
      /\ \A c, i : Is(c, i)' <=> Is(c, i)
  BY <1>2, <1>3, ListUntouched
<1>5. TypeOK'
  <2>1. /\ pc' \in [Threads -> AddStage \cup TakeStage \cup ReadStage]
        /\ \A q \in Readers : pc'[q] \in ReadStage
    BY <1>1, <1>2 DEF TypeOK
  <2> QED
    BY <1>1, <1>2, <1>3, <2>1 DEF TypeOK, mem, prodv
<1>6. TakeInv'
  BY <1>1, <1>2, <1>3, <1>4 DEF TakeInv, InCall, Unlinking
<1>7. Waiting' = Waiting
  BY <1>2, <1>4 DEF Waiting, mem
<1> QED
  BY <1>1, <1>2, <1>4, <1>5, <1>6, <1>7 DEF ApartInv

-----------------------------------------------------------------------------
(* The theorems *)

\* A step of ApartSpec keeps the invariant and is a step or a stutter of the
\* FIFO queue: Put when Add returns, Take when GetLast does.
LEMMA StepInv ==
  ASSUME ApartInv, [ApartNext]_vars
  PROVE  ApartInv' /\ [Fifo!Next]_(Fifo!vars)
<1>1. ASSUME NEW p \in Producers, Add(p), Apart'
      PROVE  ApartInv' /\ [Fifo!Next]_(Fifo!vars)
  <2>1. CASE AddBegin(p) \/ AddConstruct(p) \/ AddLinkLast(p)
    BY <1>1, <2>1, AddBeginInv, AddConstructInv, AddLinkLastInv DEF Fifo!vars
  <2>2. CASE AddLinkNext(p)
    <3>1. Fifo!Put
      BY <1>1, <2>2, AddLinkNextInv DEF Fifo!Put
    <3> QED
      BY <3>1, <1>1, <2>2, AddLinkNextInv DEF Fifo!Next
  <2> QED
    BY <1>1, <2>1, <2>2 DEF Add
<1>2. ASSUME GetLast, Apart' PROVE ApartInv' /\ [Fifo!Next]_(Fifo!vars)
  <2>1. CASE GetLastTest \/ GetLastLock \/ GetLastCopy \/ DeleteUnlinkLast
    BY <1>2, <2>1, GetLastTestInv, GetLastLockInv, GetLastCopyInv,
       DeleteUnlinkLastInv DEF Fifo!vars
  <2>2. CASE DeleteUnlinkNext
    <3>1. Fifo!Take
      BY <1>2, <2>2, DeleteUnlinkNextInv DEF Fifo!Take
    <3> QED
      BY <3>1, <1>2, <2>2, DeleteUnlinkNextInv DEF Fifo!Next
  <2> QED
    BY <1>2, <2>1, <2>2 DEF GetLast
<1>3. ASSUME NEW r \in Readers, GetBuf(r), Apart'
      PROVE  ApartInv' /\ [Fifo!Next]_(Fifo!vars)
  BY <1>3, GetBufInv DEF Fifo!vars
<1>4. ASSUME UNCHANGED vars PROVE ApartInv' /\ [Fifo!Next]_(Fifo!vars)
  <2> USE <1>4 DEF vars, mem, prodv, consv
  <2>1. (\A p \in Producers : pc'[p] = pc[p]) /\ (Unlinking' <=> Unlinking)
    BY DEF Unlinking
  <2>2. /\ ItemsInv' /\ LastInv' /\ NextInv' /\ AddInv'
        /\ Linked' = Linked /\ Added' = Added /\ Oldest' = Oldest
        /\ \A c, i : Is(c, i)' <=> Is(c, i)
    BY <2>1, ListUntouched
  <2>3. TypeOK' /\ Apart' /\ ~dangling'
    BY DEF ApartInv, TypeOK, Apart, Adding
  <2>4. TakeInv'
    BY <2>2 DEF ApartInv, TakeInv, InCall, Unlinking
  <2>5. Waiting' = Waiting
    BY <2>2 DEF Waiting
  <2> QED
    BY <2>2, <2>3, <2>4, <2>5 DEF ApartInv, Fifo!vars
<1> QED
  BY <1>1, <1>2, <1>3, <1>4 DEF ApartNext, Next

\* The initial ring is an empty queue.
LEMMA InitFifo == Init => Fifo!Init
<1> SUFFICES ASSUME Init PROVE Fifo!Init
  OBVIOUS
<1>1. (\A p \in Producers : ~Adding(p)) /\ live = {} /\ added = 0 /\ out = <<>>
  BY DEF Init, Adding, Threads
<1> QED
  BY <1>1 DEF Fifo!Init, Added, Waiting, Linked

\* ApartInv holds in every state that a disjoint use of the list reaches.
THEOREM ApartSpecInv == ApartSpec => []ApartInv
<1>1. ApartInv /\ [ApartNext]_vars => ApartInv'
  BY StepInv
<1> QED
  BY <1>1, InitInv, PTL DEF ApartSpec

\* Types: every pointer is a cell or NULL and every thread is in its own code.
THEOREM ApartTyped == ApartSpec => []TypeOK
<1>1. ApartInv => TypeOK
  BY DEF ApartInv
<1> QED
  BY <1>1, ApartSpecInv, PTL

\* Memory safety: no call uses a node before `new` or after `delete`.
THEOREM ApartMemorySafe == ApartSpec => []NoDanglingAccess
<1>1. ApartInv => NoDanglingAccess
  BY DEF ApartInv, NoDanglingAccess
<1> QED
  BY <1>1, ApartSpecInv, PTL

\* Between calls the nodes form one ring through the head, oldest first.
THEOREM ApartRingIntact == ApartSpec => []RingIntact
<1>1. ASSUME ApartInv PROVE RingIntact
  <2> SUFFICES ASSUME Linked # {}, \A t \in Threads : ~InCall(t),
                      NEW c \in Linked \cup {HeadCell}
               PROVE  /\ next[c] \in Linked \cup {HeadCell} /\ last[next[c]] = c
                      /\ last[c] \in Linked \cup {HeadCell} /\ next[last[c]] = c
                      /\ HeadCell \notin {c, next[c]} => item[next[c]] < item[c]
    BY DEF RingIntact
  <2>1. TypeOK /\ ItemsInv /\ LastInv /\ NextInv
    BY <1>1 DEF ApartInv
  <2>2. /\ \A p \in Producers : pc[p] # "linkNext"
        /\ ~Unlinking
    BY DEF InCall, Threads, Unlinking
  <2>3. /\ Linked \subseteq live /\ live \subseteq Node
        /\ Oldest \in Nat /\ Added \in Int
    BY <2>1 DEF Linked, TypeOK, Oldest, Added
  <2>4. \A n \in Linked : /\ item[n] \in Int /\ Oldest <= item[n] /\ item[n] <= Added
    BY <2>1, <2>3, EmptyList
  <2>5. \A n, o \in Linked : item[n] = item[o] => n = o
    BY <2>1, <2>3 DEF ItemsInv
  <2>6. Is(next[HeadCell], Added) /\ Is(last[HeadCell], Oldest)
    BY <2>1, <2>2 DEF LastInv, NextInv
  <2>7. CASE c = HeadCell
    BY <2>1, <2>2, <2>6, <2>7 DEF Is, LastInv, NextInv
  <2>8. CASE c \in Linked
    <3>1. /\ next[c] \in Linked \cup {HeadCell} /\ last[next[c]] = c
          /\ HeadCell \notin {c, next[c]} => item[next[c]] < item[c]
      <4>1. CASE item[c] = Oldest
        BY <4>1, <2>1, <2>2, <2>5, <2>6, <2>8 DEF Is, NextInv
      <4>2. CASE item[c] # Oldest
        <5>1. Is(next[c], item[c] - 1)
          BY <4>2, <2>1, <2>2, <2>8 DEF NextInv
        <5>2. item[next[c]] = item[c] - 1 /\ item[next[c]] # Added /\ next[c] \in Linked
          BY <5>1, <2>3, <2>4, <2>8 DEF Is
        <5>3. Is(last[next[c]], item[next[c]] + 1)
          BY <5>2, <2>1 DEF LastInv
        <5> QED
          BY <5>2, <5>3, <2>4, <2>5, <2>8 DEF Is
      <4> QED
        BY <4>1, <4>2
    <3>2. last[c] \in Linked \cup {HeadCell} /\ next[last[c]] = c
      <4>1. CASE item[c] = Added
        BY <4>1, <2>1, <2>5, <2>6, <2>8 DEF Is, LastInv
      <4>2. CASE item[c] # Added
        <5>1. Is(last[c], item[c] + 1)
          BY <4>2, <2>1, <2>8 DEF LastInv
        <5>2. item[last[c]] = item[c] + 1 /\ item[last[c]] # Oldest /\ last[c] \in Linked
          BY <5>1, <2>3, <2>4, <2>8 DEF Is
        <5>3. Is(next[last[c]], item[last[c]] - 1)
          BY <5>2, <2>1, <2>2 DEF NextInv
        <5> QED
          BY <5>2, <5>3, <2>4, <2>5, <2>8 DEF Is
      <4> QED
        BY <4>1, <4>2
    <3> QED
      BY <3>1, <3>2
  <2> QED
    BY <2>7, <2>8
<1> QED
  BY <1>1, ApartSpecInv, PTL

\* Used disjointly the list is a FIFO queue, whatever the number of threads,
\* items and addresses.
THEOREM ApartFifo == ApartSpec => IsFifo
<1>1. ApartInv /\ [ApartNext]_vars => [Fifo!Next]_(Fifo!vars)
  BY StepInv
<1> QED
  BY <1>1, InitFifo, ApartSpecInv, PTL DEF ApartSpec, IsFifo, Fifo!Spec
=============================================================================
