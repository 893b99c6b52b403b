--------------------------- MODULE ScreenCopyProofs ---------------------------
(***************************************************************************)
(* Proofs about ScreenCopy: for any numbers of callers, threads, blocks    *)
(* and windows, whether CreateThread may fail or not, the hand-over of a   *)
(* call's arguments is exclusive and right, and every copy has the size    *)
(* of its source.                                                          *)
(***************************************************************************)
EXTENDS ScreenCopy, TLAPS

(* A caller about to create its thread has its arguments in its block. *)
BlockFilled == \A c \in Callers : pc[c] = "create" => heap[cp[c]] = req[c]

(* What the copying thread knows of its source at each place of its loop. *)
SourceKnown ==
  \A t \in Threads :
    /\ tpc[t] = "size" /\ src[t] \in alive => src[t] = got[t].in
    /\ tpc[t] \in {"look", "switch", "blit"} /\ src[t] \in alive => rect[t] = src[t]
    /\ tpc[t] = "measure" /\ src[t] \in alive => src[t] = seen[t]
    /\ tpc[t] \in {"switch", "measure"} => seen[t] \in Windows /\ seen[t] # got[t].off
    /\ tpc[t] \in Copying \ {"open"} /\ got[t].in = NoWin => src[t] # got[t].off

IInv == TypeOK /\ BlockFilled /\ OneHandOver /\ OwnArguments /\ SourceKnown

USE DEF HandOver, Copying

(* Everything is of its type after any step. *)
LEMMA TypeStep == ASSUME TypeOK, OwnArguments, [Next]_vars PROVE TypeOK'
<1> USE DEF TypeOK, OwnArguments, callVars, threadVars, windowVars
<1> ASSUME Next PROVE TypeOK'
  <2>1. ASSUME NEW c \in Callers, Call(c) PROVE TypeOK'
    BY <2>1 DEF Call
  <2>2. ASSUME NEW c \in Callers, Wait(c) PROVE TypeOK'
    BY <2>2 DEF Wait
  <2>3. ASSUME NEW c \in Callers, Fill(c) PROVE TypeOK'
    BY <2>3 DEF Fill
  <2>4. ASSUME NEW c \in Callers, Create(c) PROVE TypeOK'
    BY <2>4 DEF Create
  <2>5. ASSUME NEW c \in Callers, CreateFails(c) PROVE TypeOK'
    BY <2>5 DEF CreateFails
  <2>6. ASSUME NEW t \in Threads, ReadArgs(t) PROVE TypeOK'
    BY <2>6 DEF ReadArgs, Goto
  <2>7. ASSUME NEW t \in Threads, FreeArgs(t) PROVE TypeOK'
    BY <2>7 DEF FreeArgs, Goto
  <2>8. ASSUME NEW t \in Threads, Signal(t) PROVE TypeOK'
    BY <2>8 DEF Signal, Goto
  <2>9. ASSUME NEW t \in Threads, OpenSource(t) PROVE TypeOK'
    BY <2>9 DEF OpenSource, Goto, ContextOf
  <2>10. ASSUME NEW t \in Threads, SizeSource(t) PROVE TypeOK'
    BY <2>10 DEF SizeSource, Goto, RectAfter
  <2>11. ASSUME NEW t \in Threads, Look(t) PROVE TypeOK'
    BY <2>11 DEF Look, Goto
  <2>12. ASSUME NEW t \in Threads, Switch(t) PROVE TypeOK'
    BY <2>12 DEF Switch, Goto, ContextOf
  <2>13. ASSUME NEW t \in Threads, Measure(t) PROVE TypeOK'
    BY <2>13 DEF Measure, Goto, RectAfter
  <2>14. ASSUME NEW t \in Threads, Blit(t) PROVE TypeOK'
    BY <2>14 DEF Blit, Goto
  <2>15. ASSUME Activate PROVE TypeOK'
    BY <2>15 DEF Activate
  <2>16. ASSUME NEW w \in Windows, Destroy(w) PROVE TypeOK'
    BY <2>16 DEF Destroy
  <2> QED BY <2>1, <2>2, <2>3, <2>4, <2>5, <2>6, <2>7, <2>8, <2>9, <2>10, <2>11, <2>12,
             <2>13, <2>14, <2>15, <2>16
          DEF Next, Caller, Thread, HandOverStep, CopyStep, Desktop
<1>1. CASE UNCHANGED vars
  BY <1>1 DEF vars
<1> QED BY <1>1 DEF vars

(* The arguments of a call stay those of its thread. *)
LEMMA ArgsStep ==
  ASSUME TypeOK, TypeOK', BlockFilled, OneHandOver, OwnArguments, [Next]_vars
  PROVE  BlockFilled' /\ OwnArguments'
<1> USE DEF TypeOK, BlockFilled, OwnArguments, callVars, threadVars, windowVars
<1> USE ScreenCopyAssumption, UnsetIsNoRequest
<1>0. /\ \A c \in Callers : pc[c] \in {"fill", "create"} => HandingOver = {} /\ Filling = {c}
      /\ \A t \in Threads : tpc[t] \in HandOver => Filling = {} /\ HandingOver = {t}
  BY DEF OneHandOver, Holders, Filling, HandingOver
<1> HIDE DEF HandOver
<1>a. \A t \in Threads : tpc[t] \in {"read", "free"} => tpc[t] \in HandOver
  BY DEF HandOver
<1> DEFINE Goal == BlockFilled' /\ OwnArguments'
<1>1. ASSUME NEW c \in Callers, Call(c) PROVE Goal
  BY <1>1 DEF Call
<1>2. ASSUME NEW c \in Callers, Wait(c) PROVE Goal
  BY <1>2 DEF Wait
<1>3. ASSUME NEW c \in Callers, Fill(c) PROVE Goal
  BY <1>3, <1>0, <1>a DEF Fill, Filling, HandingOver
<1>4. ASSUME NEW c \in Callers, Create(c) PROVE Goal
  BY <1>4, <1>0 DEF Create
<1>5. ASSUME NEW c \in Callers, CreateFails(c) PROVE Goal
  BY <1>5 DEF CreateFails
<1>6. ASSUME NEW t \in Threads, ReadArgs(t) PROVE Goal
  BY <1>6 DEF ReadArgs, Goto
<1>7. ASSUME NEW t \in Threads, FreeArgs(t) PROVE Goal
  BY <1>7, <1>0, <1>a DEF FreeArgs, Goto, Filling, HandingOver
<1>8. ASSUME NEW t \in Threads, Signal(t) PROVE Goal
  BY <1>8 DEF Signal, Goto
<1>9. ASSUME NEW t \in Threads, CopyStep(t) PROVE Goal
  BY <1>9 DEF CopyStep, OpenSource, SizeSource, Look, Switch, Measure, Blit, Goto
<1>10. ASSUME Desktop PROVE Goal
  BY <1>10 DEF Desktop, Activate, Destroy
<1>11. CASE UNCHANGED vars
  BY <1>11 DEF vars
<1> QED BY <1>1, <1>2, <1>3, <1>4, <1>5, <1>6, <1>7, <1>8, <1>9, <1>10, <1>11
        DEF Next, Caller, Thread, HandOverStep

(* The event or one party: each step passes it on. *)
LEMMA LockStep ==
  ASSUME TypeOK, TypeOK', OneHandOver, [Next]_vars
  PROVE  OneHandOver'
<1> USE DEF TypeOK, callVars, threadVars, windowVars
<1> USE ScreenCopyAssumption DEF OneHandOver, Holders
<1>1. ASSUME NEW c \in Callers, Call(c) PROVE OneHandOver'
  <2>1. Filling' = Filling /\ HandingOver' = HandingOver
    BY <1>1 DEF Call, Filling, HandingOver
  <2> QED BY <2>1, <1>1 DEF Call
<1>2. ASSUME NEW c \in Callers, Wait(c) PROVE OneHandOver'
  <2>1. Filling' = Filling \cup {c} /\ HandingOver' = HandingOver
    BY <1>2 DEF Wait, Filling, HandingOver
  <2> QED BY <2>1, <1>2 DEF Wait
<1>3. ASSUME NEW c \in Callers, Fill(c) PROVE OneHandOver'
  <2>1. Filling' = Filling /\ HandingOver' = HandingOver
    BY <1>3 DEF Fill, Filling, HandingOver
  <2> QED BY <2>1, <1>3 DEF Fill
<1>4. ASSUME NEW c \in Callers, Create(c) PROVE OneHandOver'
  <2>1. PICK t \in Threads : tpc[t] = "none" /\ tpc' = [tpc EXCEPT ![t] = "read"]
    BY <1>4 DEF Create
  <2>2. Filling' = Filling \ {c} /\ c \in Filling
    BY <1>4 DEF Create, Filling
  <2>3. HandingOver' = HandingOver \cup {t}
    BY <2>1 DEF HandingOver
  <2>4. ~event /\ Holders = {c} /\ HandingOver \subseteq Threads
    BY <2>2 DEF HandingOver, Filling
  <2>5. Holders' = {t}
    BY <2>2, <2>3, <2>4, <1>4 DEF Create
  <2> QED BY <2>4, <2>5, <1>4 DEF Create
<1>5. ASSUME NEW c \in Callers, CreateFails(c) PROVE OneHandOver'
  <2>1. Filling' = Filling \ {c} /\ c \in Filling /\ HandingOver' = HandingOver
    BY <1>5 DEF CreateFails, Filling, HandingOver
  <2>2. ~event /\ Holders = {c} /\ HandingOver \subseteq Threads
    BY <2>1 DEF HandingOver, Filling
  <2>3. Holders' = {cp[c]} /\ cp[c] \in Blocks
    BY <2>1, <2>2, <1>5 DEF CreateFails
  <2> QED BY <2>2, <2>3, <1>5 DEF CreateFails
<1>6. ASSUME NEW t \in Threads, ReadArgs(t) \/ FreeArgs(t) PROVE OneHandOver'
  <2>1. Filling' = Filling /\ HandingOver' = HandingOver
    BY <1>6 DEF ReadArgs, FreeArgs, Goto, Filling, HandingOver
  <2> QED BY <2>1, <1>6 DEF ReadArgs, FreeArgs
<1>7. ASSUME NEW t \in Threads, Signal(t) PROVE OneHandOver'
  <2>1. Filling' = Filling /\ HandingOver' = HandingOver \ {t} /\ t \in HandingOver
    BY <1>7 DEF Signal, Goto, Filling, HandingOver
  <2>2. Holders = {t} /\ Filling \subseteq Callers
    BY <2>1 DEF Filling
  <2>3. Holders' = {}
    BY <2>1, <2>2, <1>7 DEF Signal
  <2> QED BY <2>3, <1>7 DEF Signal
<1>8. ASSUME NEW t \in Threads, CopyStep(t) PROVE OneHandOver'
  <2>1. Filling' = Filling
    BY <1>8 DEF CopyStep, OpenSource, SizeSource, Look, Switch, Measure, Blit, Filling
  <2>2. HandingOver' = HandingOver
    BY <1>8 DEF CopyStep, OpenSource, SizeSource, Look, Switch, Measure, Blit, Goto, HandingOver
  <2>3. UNCHANGED <<event, lost>>
    BY <1>8 DEF CopyStep, OpenSource, SizeSource, Look, Switch, Measure, Blit
  <2> QED BY <2>1, <2>2, <2>3
<1>9. ASSUME Desktop PROVE OneHandOver'
  <2>1. Filling' = Filling /\ HandingOver' = HandingOver /\ UNCHANGED <<event, lost>>
    BY <1>9 DEF Desktop, Activate, Destroy, Filling, HandingOver
  <2> QED BY <2>1
<1>10. CASE UNCHANGED vars
  BY <1>10 DEF vars, Filling, HandingOver
<1> QED BY <1>1, <1>2, <1>3, <1>4, <1>5, <1>6, <1>7, <1>8, <1>9, <1>10
        DEF Next, Caller, Thread, HandOverStep

(* The source and its size stay together along the loop. *)
LEMMA SourceStep ==
  ASSUME TypeOK, TypeOK', OwnArguments, SourceKnown, [Next]_vars
  PROVE  SourceKnown'
<1> USE DEF TypeOK, OwnArguments, SourceKnown, callVars, threadVars, windowVars
<1> USE ScreenCopyAssumption, UnsetIsNoRequest
<1>0. \A t \in Threads : tpc[t] \in Copying => got[t] \in Request
  OBVIOUS
<1>1. ASSUME NEW c \in Callers, Caller(c) PROVE SourceKnown'
  BY <1>1 DEF Caller, Call, Wait, Fill, Create, CreateFails
<1>2. ASSUME NEW t \in Threads, HandOverStep(t) PROVE SourceKnown'
  BY <1>2 DEF HandOverStep, ReadArgs, FreeArgs, Signal, Goto
<1>3. ASSUME NEW t \in Threads, OpenSource(t) PROVE SourceKnown'
  BY <1>3, <1>0 DEF OpenSource, Goto, ContextOf, Request
<1>4. ASSUME NEW t \in Threads, SizeSource(t) PROVE SourceKnown'
  BY <1>4, <1>0 DEF SizeSource, Goto, RectAfter, Request
<1>5. ASSUME NEW t \in Threads, Look(t) PROVE SourceKnown'
  BY <1>5, <1>0 DEF Look, Goto, Foreign, Request
<1>6. ASSUME NEW t \in Threads, Switch(t) PROVE SourceKnown'
  BY <1>6, <1>0 DEF Switch, Goto, ContextOf, Request
<1>7. ASSUME NEW t \in Threads, Measure(t) PROVE SourceKnown'
  BY <1>7, <1>0 DEF Measure, Goto, RectAfter, Request
<1>8. ASSUME NEW t \in Threads, Blit(t) PROVE SourceKnown'
  BY <1>8 DEF Blit, Goto
<1>9. ASSUME Desktop PROVE SourceKnown'
  BY <1>9 DEF Desktop, Activate, Destroy
<1>10. CASE UNCHANGED vars
  BY <1>10 DEF vars
<1> QED BY <1>1, <1>2, <1>3, <1>4, <1>5, <1>6, <1>7, <1>8, <1>9, <1>10
        DEF Next, Thread, CopyStep

(* The inductive invariant holds in every reachable state. *)
THEOREM Invariant == Spec => []IInv
<1>1. Init => IInv
  BY ScreenCopyAssumption
     DEF Init, IInv, TypeOK, BlockFilled, OneHandOver, Holders, Filling, HandingOver,
         OwnArguments, SourceKnown
<1>2. IInv /\ [Next]_vars => IInv'
  BY TypeStep, ArgsStep, LockStep, SourceStep DEF IInv
<1> QED BY <1>1, <1>2, PTL DEF Spec

(* Every variable keeps its type, whatever is destroyed or fails. *)
THEOREM Typed == Spec => []TypeOK
BY Invariant, PTL DEF IInv

(* One hand-over at a time, and the event set again after each (304, 328). *)
THEOREM HandOverExclusive == Spec => []OneHandOver
BY Invariant, PTL DEF IInv

(* A thread never reads a freed block and copies for its own call (305-327). *)
THEOREM ArgumentsKept == Spec => []OwnArguments
BY Invariant, PTL DEF IInv

(* A copy has the size of the window it is made from (333-345). *)
THEOREM SizeOfSource == Spec => []SourceFits
<1>1. IInv => SourceFits
  BY DEF IInv, SourceKnown, SourceFits
<1> QED BY <1>1, Invariant, PTL
===============================================================================
