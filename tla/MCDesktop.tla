------------------------------ MODULE MCDesktop ------------------------------
(***************************************************************************)
(* The threads and objects of LeftWindows but for CopyScreem, each on its  *)
(* own: the drag loop, the one that watches the foreground, an object's    *)
(* class and list.                                                         *)
(***************************************************************************)
EXTENDS DragLoop

CONSTANTS Windows, ClassOf, NoWin, Unset, Names, Taken, NoName, MaxWins, MaxObjects
VARIABLES part,     \* which of the parts this behaviour is of
          opened, alive, inFront, at, Win, FgrndWin, name, shown,
          objects, ClsName, RegClass, NextOf, LastOf, Self, registered, open, exists, made, pinned

\* The names of classes; an object has a place for each of its windows.
ASSUME ClassAssumption == NoName \notin Names \cup Taken /\ MaxWins \in Nat

I == INSTANCE WindowsInfo WITH front <- inFront
P == INSTANCE ParentsWins

MCScreen == 0..2
MCClassOf == [w \in Windows |-> IF w = "w3" THEN "edit" ELSE "note"]

infoVars    == <<opened, alive, inFront, at, Win, FgrndWin, name, shown>>
classVars   == <<objects, ClsName, RegClass, NextOf, LastOf, Self, made, registered, open, exists, pinned>>
DesktopVars == <<part, vars, infoVars, classVars>>

DesktopInit == part \in {"drag", "info", "class"} /\ Init /\ I!Init /\ P!Init

Drag    == part = "drag"  /\ Next   /\ UNCHANGED <<part, infoVars, classVars>>
Watch   == part = "info"  /\ I!Next /\ UNCHANGED <<part, vars, classVars>>
Manage  == part = "class" /\ P!Next /\ UNCHANGED <<part, vars, infoVars>>

DesktopSpec ==
  /\ DesktopInit /\ [][Drag \/ Watch \/ Manage]_DesktopVars
  /\ WF_DesktopVars(part = "drag" /\ Thread /\ UNCHANGED <<part, infoVars, classVars>>)
  /\ WF_DesktopVars(part = "info" /\ I!Thread /\ UNCHANGED <<part, vars, classVars>>)

Reports   == I!Reports
ListWhole == P!ListWhole
ClassKept == P!ClassKept
==============================================================================
