----------------------------- MODULE DesktopProofs -----------------------------
(***************************************************************************)
(* Proofs that a drag follows the cursor, for any screen, border and       *)
(* limits, and however often others move the window; and that an object's  *)
(* class and list are kept in order, for any names and number of windows.  *)
(***************************************************************************)
EXTENDS MCDesktop, Sequences, TLAPS

\* Where the thread is inside of a loop and has taken hold of the window.
Inside == {"point", "grab", "cursor", "client", "set"}

\* A loop that is not run is ready to grab; "test" comes before and behind.
Places ==
  /\ fget[3 - loop]
  /\ pc \in {"top", "rect"} => fget[loop]
  /\ pc \in Inside => ~fget[loop]

\* The window as it was grabbed.
AsGrabbed ==
  /\ left = left0 /\ width = width0
  /\ rect = [l |-> left0, r |-> left0 + width0]

\* rect is what the thread wants the window to be after the cursor was at x.
Wanted(x) ==
  /\ loop = 1 => rect = [l |-> left0 + x - grabbed, r |-> left0 + x - grabbed + width0]
  /\ loop = 2 => rect = [l |-> left0, r |-> left0 + width0 + x - grabbed]

\* The window is as wanted after the cursor was at x, and pt the point under it.
Placed(x) ==
  /\ loop = 1 => left = left0 + x - grabbed /\ width = width0
  /\ loop = 2 => left = left0 /\ width = Limited(width0 + x - grabbed)
  /\ pt = ToClient(x)

\* What holds at each place of the loop, if nobody disturbs.
Held ==
  ~disturbed /\ ~fget[loop] =>
    /\ pc = "point" => AsGrabbed
    /\ pc = "grab" => AsGrabbed /\ pt = seen /\ grabbed = seen
    /\ pc \in {"test", "cursor"} => Wanted(seen) /\ Placed(seen)
    /\ pc = "client" => rt = seen /\ Wanted(pt + left + Border) /\ Placed(pt + left + Border)
    /\ pc = "set" => rt = ToClient(seen) /\ Wanted(seen) /\ Placed(pt + left + Border)

IInv == TypeOK /\ Places /\ Held

\* A width within the limits is kept.
LEMMA LimitedKeeps == \A n \in MinWidth..MaxWidth : Limited(n) = n
  BY DragConstants DEF Limited

LEMMA LimitedInRange == \A n \in Int : Limited(n) \in MinWidth..MaxWidth
  BY DragConstants DEF Limited

\* One entry of fget set.
LEMMA SetEntry ==
  ASSUME NEW f \in [1..2 -> BOOLEAN], NEW b \in 1..2, NEW v \in BOOLEAN
  PROVE  [f EXCEPT ![b] = v] \in [1..2 -> BOOLEAN]
  BY Zenon

LEMMA Start == Init => IInv
<1> SUFFICES ASSUME Init PROVE IInv
  OBVIOUS
<1>1. TypeOK
  <2>1. fget \in [1..2 -> BOOLEAN]
    BY Zenon DEF Init
  <2>2. rect \in [l : Int, r : Int]
    BY DEF Init
  <2>3. front \in BOOLEAN /\ disturbed \in BOOLEAN
    BY Zenon DEF Init
  <2> QED BY <2>1, <2>2, <2>3, DragConstants DEF Init, TypeOK
<1>2. Places /\ Held
  BY DEF Init, Places, Held, Inside
<1> QED BY <1>1, <1>2 DEF IInv

LEMMA Step == IInv /\ [Next]_vars => IInv'
<1> SUFFICES ASSUME IInv, [Next]_vars PROVE IInv'
  OBVIOUS
<1> USE DragConstants DEF IInv, TypeOK, Places, Inside
<1>1. CASE Top
  <2>1. TypeOK'
    BY <1>1 DEF Top, user, window, ghosts
  <2>2. Places' /\ Held'
    BY <1>1 DEF Top, user, window, ghosts, Held
  <2> QED BY <2>1, <2>2
<1>2. CASE Test
  <2>1. CASE loop \in down
    <3>1. TypeOK' /\ Places'
      BY <1>2, <2>1 DEF Test, user, window, ghosts
    <3>2. Held'
      BY <1>2, <2>1 DEF Test, user, window, ghosts, Held, Wanted, Placed, ToClient
    <3> QED BY <3>1, <3>2
  <2>2. CASE loop \notin down
    <3>1. fget' = [fget EXCEPT ![loop] = TRUE] /\ fget' \in [1..2 -> BOOLEAN]
      BY <1>2, <2>2, SetEntry DEF Test, LeaveLoop
    <3>2. disturbed' \in BOOLEAN
      BY <1>2, <2>2, Zenon DEF Test, LeaveLoop, Forget
    <3> HIDE DEF Places, Inside
    <3>4. TypeOK'
      BY <1>2, <2>2, <3>1, <3>2 DEF Test, LeaveLoop, Forget, user, window
    <3> USE DEF Places, Inside
    <3>3. Places' /\ Held'
      BY <1>2, <2>2, <3>1 DEF Test, LeaveLoop, Held
    <3> QED BY <3>4, <3>3
  <2> QED BY <2>1, <2>2
<1>3. CASE GrabRect
  <2>1. fget' = [fget EXCEPT ![loop] = FALSE] /\ fget' \in [1..2 -> BOOLEAN]
    BY <1>3, SetEntry DEF GrabRect
  <2>4. disturbed' \in BOOLEAN
    BY <1>3, Zenon DEF GrabRect
  <2>2. TypeOK'
    BY <1>3, <2>1, <2>4 DEF GrabRect, user, window
  <2>3. Places' /\ Held'
    BY <1>3, <2>1 DEF GrabRect, user, window, Held, AsGrabbed
  <2> QED BY <2>2, <2>3
<1>4. CASE GrabPoint
  BY <1>4 DEF GrabPoint, user, window, Held, AsGrabbed
<1>5. CASE Grab
  <2>1. TypeOK'
    <3>1. fget' \in [1..2 -> BOOLEAN]
      BY <1>5, SetEntry DEF Grab, LeaveLoop
    <3>2. pt' \in Int
      BY <1>5 DEF Grab, ToClient
    <3>3. disturbed' \in BOOLEAN
      BY <1>5, Zenon DEF Grab, LeaveLoop, Forget, ghosts
    <3> QED BY <1>5, <3>1, <3>2, <3>3 DEF Grab, LeaveLoop, Forget, user, window, ghosts
  <2>2. Places'
    BY <1>5 DEF Grab, LeaveLoop
  <2>3. Held'
    <3>1. CASE pc' = "cursor"
      BY <1>5, <3>1, LimitedKeeps DEF Grab, LeaveLoop, Held, AsGrabbed, Wanted, Placed, ToClient, user, window, ghosts
    <3>2. CASE pc' # "cursor"
      BY <1>5, <3>2 DEF Grab, LeaveLoop, Held
    <3> QED BY <3>1, <3>2
  <2> QED BY <2>1, <2>2, <2>3
<1>6. CASE ReadCursor
  BY <1>6 DEF ReadCursor, user, window, Held, Wanted, Placed, ToClient
<1>7. CASE Shift
  BY <1>7 DEF Shift, user, window, ghosts, Held, Wanted, Placed, ToClient
<1>8. CASE Move
  BY <1>8 DEF Move, user, ghosts, Held, Wanted, Placed, ToClient
<1>9. CASE Resize
  BY <1>9, LimitedInRange DEF Resize, user, ghosts, Held, Wanted, Placed, ToClient
<1>10. CASE MoveCursor
  BY <1>10 DEF MoveCursor, window, ghosts, Held, AsGrabbed, Wanted, Placed, ToClient
<1>11. CASE \E b \in 1..2 : Button(b)
  BY <1>11 DEF Button, window, ghosts, Held, AsGrabbed, Wanted, Placed, ToClient
<1>12. CASE Activate
  BY <1>12 DEF Activate, window, ghosts, Held, AsGrabbed, Wanted, Placed, ToClient
<1>13. CASE Nudge
  BY <1>13 DEF Nudge, user, Held
<1>14. CASE UNCHANGED vars
  BY <1>14 DEF vars, user, window, ghosts, Held, AsGrabbed, Wanted, Placed, ToClient
<1> QED
  BY <1>1, <1>2, <1>3, <1>4, <1>5, <1>6, <1>7, <1>8, <1>9, <1>10, <1>11, <1>12, <1>13, <1>14
  DEF Next, Thread

LEMMA Follow == IInv => DragFollows
  BY DEF IInv, TypeOK, Held, DragFollows, AtRest, Placed

\* The places of the loop, what is wanted and what is placed: inductive.
THEOREM Invariant == Spec => []IInv
  BY Start, Step, PTL DEF Spec

\* Every variable keeps its type.
THEOREM Typed == Spec => []TypeOK
<1>1. IInv => TypeOK
  BY DEF IInv
<1> QED BY <1>1, Invariant, PTL

\* Undisturbed, the window follows the cursor as it was last read
\* (LeftWindows.cpp 251-297).
THEOREM Followed == Spec => []DragFollows
  BY Invariant, Follow, PTL

-----------------------------------------------------------------------------
(* An object's list of windows *)

\* The nodes are 1, 2, ... in the order they were made in, and each is linked
\* to its neighbours; the ends are linked to nothing else.
Linked ==
  /\ made \in Seq(Nat) /\ Len(made) <= MaxWins /\ \A i \in DOMAIN made : made[i] = i
  /\ NextOf \in [P!Node -> Nat] /\ LastOf \in [P!Node -> Nat] /\ Self \in [P!Node -> Nat]
  /\ NextOf[P!ParentHead] = IF made = <<>> THEN P!ParentTail ELSE 1
  /\ LastOf[P!ParentTail] = IF made = <<>> THEN P!ParentHead ELSE Len(made)
  /\ NextOf[P!ParentTail] = P!NULL /\ LastOf[P!ParentHead] = P!NULL
  /\ \A i \in 1..Len(made) :
       /\ NextOf[i] = IF i < Len(made) THEN i + 1 ELSE P!ParentTail
       /\ LastOf[i] = IF i > 1 THEN i - 1 ELSE P!ParentHead
       /\ Self[i] = i

LEMMA LinkedInit == P!Init => Linked
  BY ClassAssumption
  DEF P!Init, Linked, P!EmptyNext, P!EmptyLast, P!Node, P!ParentHead, P!ParentTail, P!NULL

\* What two entries of a function become.
LEMMA SetTwo ==
  ASSUME NEW S, NEW f \in [S -> Nat], NEW a \in S, NEW b \in S, NEW u \in Nat, NEW v \in Nat
  PROVE  [f EXCEPT ![a] = u, ![b] = v] = [i \in S |-> IF i = b THEN v ELSE IF i = a THEN u ELSE f[i]]
  OBVIOUS

\* CreateParentsWin: the four pointers around the new node.
LEMMA LinkedCreate == ASSUME Linked, P!CreateParentsWin PROVE Linked'
<1> DEFINE k == Len(made)
<1>1. k \in Nat /\ k < MaxWins /\ MaxWins \in Nat
  BY ClassAssumption DEF Linked, P!CreateParentsWin
<1>2. made' = Append(made, k + 1) /\ Self' = [Self EXCEPT ![k + 1] = k + 1]
  BY DEF P!CreateParentsWin, P!Fresh
<1>3. made' \in Seq(Nat) /\ Len(made') = k + 1 /\ \A i \in 1..k + 1 : made'[i] = i
  BY <1>2 DEF Linked
<1>4. /\ LastOf' = [LastOf EXCEPT ![k + 1] = LastOf[MaxWins + 2], ![MaxWins + 2] = k + 1]
      /\ NextOf' = [NextOf EXCEPT ![k + 1] = MaxWins + 2, ![LastOf[MaxWins + 2]] = k + 1]
  BY DEF P!CreateParentsWin, P!AppendParent, P!Fresh, P!ParentTail
<1>5. /\ NextOf \in [1..MaxWins + 2 -> Nat] /\ LastOf \in [1..MaxWins + 2 -> Nat] /\ Self \in [1..MaxWins + 2 -> Nat]
      /\ NextOf[MaxWins + 1] = IF k = 0 THEN MaxWins + 2 ELSE 1
      /\ LastOf[MaxWins + 2] = IF k = 0 THEN MaxWins + 1 ELSE k
      /\ NextOf[MaxWins + 2] = 0 /\ LastOf[MaxWins + 1] = 0
      /\ \A i \in 1..k : /\ NextOf[i] = IF i < k THEN i + 1 ELSE MaxWins + 2
                         /\ LastOf[i] = IF i > 1 THEN i - 1 ELSE MaxWins + 1
                         /\ Self[i] = i
  BY DEF Linked, P!Node, P!ParentHead, P!ParentTail, P!NULL
<1> HIDE DEF k
<1>6. LastOf[MaxWins + 2] \in 1..MaxWins + 2 /\ k + 1 \in 1..MaxWins + 2 /\ MaxWins + 2 \in 1..MaxWins + 2
  BY <1>1, <1>5
<1> DEFINE S == 1..MaxWins + 2
           e == MaxWins + 2
           p == LastOf[e]
<1>7. p \in S /\ k + 1 \in S /\ e \in S /\ k + 1 # e /\ p \in Nat /\ k + 1 \in Nat /\ e \in Nat
  BY <1>1, <1>6
<1>8. LastOf' = [LastOf EXCEPT ![k + 1] = p, ![e] = k + 1] /\ NextOf' = [NextOf EXCEPT ![k + 1] = e, ![p] = k + 1]
  BY <1>4
<1>9. LastOf \in [S -> Nat] /\ NextOf \in [S -> Nat]
  BY <1>5
<1> HIDE DEF S, e, p
<1>10. LastOf' = [i \in S |-> IF i = e THEN k + 1 ELSE IF i = k + 1 THEN p ELSE LastOf[i]]
  BY <1>7, <1>8, <1>9, SetTwo
<1>11. NextOf' = [i \in S |-> IF i = p THEN k + 1 ELSE IF i = k + 1 THEN e ELSE NextOf[i]]
  BY <1>7, <1>8, <1>9, SetTwo
<1>12. /\ LastOf' \in [1..MaxWins + 2 -> Nat]
      /\ LastOf'[MaxWins + 2] = k + 1 /\ LastOf'[MaxWins + 1] = 0
      /\ \A i \in 1..k + 1 : LastOf'[i] = IF i > 1 THEN i - 1 ELSE MaxWins + 1
  BY <1>1, <1>5, <1>7, <1>10 DEF S, e, p
<1>13. NextOf' \in [1..MaxWins + 2 -> Nat] /\ NextOf'[MaxWins + 2] = 0 /\ NextOf'[MaxWins + 1] = 1
  BY <1>1, <1>5, <1>7, <1>11 DEF S, e, p
<1>14. \A i \in 1..k + 1 : NextOf'[i] = IF i < k + 1 THEN i + 1 ELSE MaxWins + 2
  BY <1>1, <1>5, <1>7, <1>11 DEF S, e, p
<1>15. Self' \in [1..MaxWins + 2 -> Nat] /\ \A i \in 1..k + 1 : Self'[i] = i
  BY <1>1, <1>2, <1>5, <1>6
<1>16. made' # <<>> /\ k + 1 <= MaxWins /\ DOMAIN made' = 1..k + 1
  BY <1>1, <1>3
<1> QED
  BY <1>3, <1>12, <1>13, <1>14, <1>15, <1>16 DEF Linked, P!Node, P!ParentHead, P!ParentTail, P!NULL

\* Only Construct and CreateParentsWin touch the list.
LEMMA LinkedStep == Linked /\ [P!Next]_classVars => Linked'
<1> SUFFICES ASSUME Linked, [P!Next]_classVars PROVE Linked'
  OBVIOUS
<1>1. CASE \E c \in Names : P!Construct(c)
  BY <1>1, ClassAssumption
  DEF P!Construct, Linked, P!EmptyNext, P!EmptyLast, P!Node, P!ParentHead, P!ParentTail, P!NULL
<1>2. CASE P!CreateParentsWin
  BY <1>2, LinkedCreate
<1>3. CASE UNCHANGED P!list
  BY <1>3 DEF Linked, P!list
<1> QED
  BY <1>1, <1>2, <1>3 DEF P!Next, P!ReRegClass, P!Destruct, P!CloseWindow, P!list, classVars

\* What ListWhole says of chain, link by link.
LEMMA WholeFromLinked == Linked => ListWhole
<1> SUFFICES ASSUME Linked PROVE ListWhole
  OBVIOUS
<1> DEFINE k == Len(made)
           chain == <<P!ParentHead>> \o made \o <<P!ParentTail>>
<1>1. k \in Nat /\ made \in Seq(Nat) /\ P!ParentHead \in Nat /\ P!ParentTail \in Nat
  BY ClassAssumption DEF Linked, P!ParentHead, P!ParentTail
<1>2. /\ chain[1] = P!ParentHead /\ chain[k + 2] = P!ParentTail
      /\ \A i \in 1..k : chain[i + 1] = i
  BY <1>1 DEF Linked
<1>3. /\ NextOf[P!ParentHead] = IF k = 0 THEN P!ParentTail ELSE 1
      /\ LastOf[P!ParentTail] = IF k = 0 THEN P!ParentHead ELSE k
      /\ \A i \in 1..k : /\ NextOf[i] = IF i < k THEN i + 1 ELSE P!ParentTail
                         /\ LastOf[i] = IF i > 1 THEN i - 1 ELSE P!ParentHead
  BY <1>1 DEF Linked
<1> HIDE DEF chain, k
<1>4. ASSUME NEW i \in 1..k + 1
      PROVE  NextOf[chain[i]] = chain[i + 1] /\ LastOf[chain[i + 1]] = chain[i]
  <2>1. CASE i = 1 /\ k = 0
    BY <1>1, <1>2, <1>3, <2>1
  <2>2. CASE i = 1 /\ k > 0
    <3>1. chain[2] = 1
      BY <1>1, <1>2, <2>2
    <3> QED BY <1>1, <1>2, <1>3, <2>2, <3>1
  <2>3. CASE i > 1
    <3>1. i - 1 \in 1..k /\ chain[i] = i - 1
      BY <1>1, <1>2, <2>3
    <3>2. CASE i = k + 1
      <4>1. chain[i + 1] = P!ParentTail /\ i - 1 = k
        BY <1>1, <1>2, <3>2
      <4> QED BY <1>1, <1>3, <3>1, <4>1
    <3>3. CASE i < k + 1
      <4>1. i \in 1..k /\ chain[i + 1] = i
        BY <1>1, <1>2, <3>3
      <4> QED BY <1>1, <1>3, <2>3, <3>1, <3>3, <4>1
    <3> QED BY <1>1, <3>2, <3>3
  <2> QED BY <1>1, <2>1, <2>2, <2>3
<1>5. NextOf[P!ParentTail] = P!NULL /\ LastOf[P!ParentHead] = P!NULL
  BY DEF Linked
<1>6. \A i \in DOMAIN made : Self[made[i]] # P!NULL
  <2> SUFFICES ASSUME NEW i \in DOMAIN made PROVE Self[made[i]] # 0
    BY DEF P!NULL
  <2>1. made[i] = i /\ Self[i] = i /\ i # 0
    BY <1>1 DEF Linked, k
  <2> QED BY <2>1
<1> QED
  BY <1>4, <1>5, <1>6 DEF ListWhole, P!ListWhole, chain, k

-----------------------------------------------------------------------------
(* The object's class *)

\* The names that are registered, and what they are kept for.
Kept ==
  /\ registered \subseteq Names \cup Taken /\ RegClass \in Names \cup {NoName}
  /\ ClassKept

LEMMA KeptInit == P!Init => Kept
  BY DEF P!Init, Kept, ClassKept, P!ClassKept

LEMMA KeptStep == Kept /\ [P!Next]_classVars => Kept'
<1> SUFFICES ASSUME Kept, [P!Next]_classVars PROVE Kept'
  OBVIOUS
<1> USE ClassAssumption DEF Kept, ClassKept, P!ClassKept
<1>1. ASSUME NEW c \in Names, P!Construct(c) PROVE Kept'
  BY <1>1 DEF P!Construct, P!RegisterClassEx
<1>2. ASSUME NEW c \in Names, P!ReRegClass(c) PROVE Kept'
  <2> DEFINE names == P!Unregistered(ClsName)
  <2>1. /\ names \subseteq registered
        /\ \A d \in registered \ names : d = ClsName /\ ~P!InUse(ClsName)
        /\ P!InUse(ClsName) => names = registered
        /\ ~P!InUse(ClsName) => ClsName \notin names
    BY DEF P!Unregistered
  <2> HIDE DEF names
  <2>2. registered' = names \cup {c} /\ RegClass' = (IF c \in names THEN NoName ELSE c) /\ ClsName' = c
    BY <1>2 DEF P!ReRegClass, P!RegisterClassEx, names
  <2>3. pinned' = (IF P!InUse(ClsName) THEN pinned \cup {ClsName} ELSE pinned \ {ClsName}) /\ exists /\ exists' /\ open' = open
    BY <1>2 DEF P!ReRegClass
  <2>4. \A w \in open : w.class \in names
    BY <2>1 DEF P!InUse
  <2>5. \A d \in registered' \ Taken : d \in pinned' \/ d = RegClass'
    BY <2>1, <2>2, <2>3
  <2> QED BY <2>1, <2>2, <2>3, <2>4, <2>5
<1>3. CASE P!Destruct
  BY <1>3 DEF P!Destruct
<1>4. CASE P!CreateParentsWin
  BY <1>4 DEF P!CreateParentsWin
<1>5. CASE P!CloseWindow
  BY <1>5 DEF P!CloseWindow
<1>6. CASE UNCHANGED classVars
  BY <1>6 DEF classVars
<1> QED
  BY <1>1, <1>2, <1>3, <1>4, <1>5, <1>6 DEF P!Next

-----------------------------------------------------------------------------
(* In the program, where the parts are beside each other *)

ClassInv == Linked /\ Kept

\* The list's links and what each registered name is kept for: inductive.
THEOREM ClassInvariant == DesktopSpec => []ClassInv
<1>1. DesktopInit => ClassInv
  BY LinkedInit, KeptInit DEF DesktopInit, ClassInv
<1>2. ClassInv /\ [Drag \/ Watch \/ Manage]_DesktopVars => ClassInv'
  BY LinkedStep, KeptStep DEF ClassInv, Drag, Watch, Manage, DesktopVars
<1> QED BY <1>1, <1>2, PTL DEF DesktopSpec

\* The list of an object's windows is whole from either end
\* (LeftWindows.cpp 25-40, 97-127).
THEOREM ListAlwaysWhole == DesktopSpec => []ListWhole
<1>1. ClassInv => ListWhole
  BY WholeFromLinked DEF ClassInv
<1> QED BY <1>1, ClassInvariant, PTL

\* Atom, name and what is registered go together, and the only classes left over
\* are those reRegClass could not give back for an open window and those of
\* destroyed objects (LeftWindows.cpp 43-46, 90-95).
THEOREM ClassAlwaysKept == DesktopSpec => []ClassKept
<1>1. ClassInv => ClassKept
  BY DEF ClassInv, Kept
<1> QED BY <1>1, ClassInvariant, PTL
===============================================================================
