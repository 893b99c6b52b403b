------------------------------ MODULE ParentsWins ------------------------------
(***************************************************************************)
(* A LeftWindows object (LeftWindows.cpp 12-127): it registers a window    *)
(* class, under the name it is given or under another later on, and keeps  *)
(* the windows it creates of it in a list with a node at each end, linked  *)
(* both ways.  An atom is modelled by the name it stands for.              *)
(***************************************************************************)
EXTENDS Integers, Sequences, FiniteSets

CONSTANTS Names,       \* names of classes
          Taken,       \* those another program module has registered, with windows open
          NoName,      \* no class
          MaxWins,     \* bound: windows of an object
          MaxObjects   \* bound: objects, one after the other

NULL       == 0
ParentHead == MaxWins + 1
ParentTail == MaxWins + 2
Node == 1..MaxWins + 2

VARIABLES
  objects,                \* how many objects there have been
  ClsName, RegClass,      \* the object's class: its name and atom
  NextOf, LastOf, Self,   \* the nodes of its list
  registered,             \* the names that are registered
  open,                   \* windows that are open: [object, node, class]
  exists,                 \* is there an object?
  made,                   \* the nodes in the order they were made in
  pinned                  \* names given up while windows of the class were open, or by Destruct

list == <<NextOf, LastOf, Self, made>>
vars == <<objects, ClsName, RegClass, list, registered, open, exists, pinned>>

EmptyNext == [n \in Node |-> IF n = ParentHead THEN ParentTail ELSE NULL]
EmptyLast == [n \in Node |-> IF n = ParentTail THEN ParentHead ELSE NULL]

Init ==
  /\ objects = 0 /\ exists = FALSE /\ ClsName = NoName /\ RegClass = NoName
  /\ NextOf = EmptyNext /\ LastOf = EmptyLast /\ Self = [n \in Node |-> NULL]
  /\ registered = Taken /\ open = {} /\ made = <<>> /\ pinned = {}

\* RegisterClassEx in a state of the names: it fails if the name is taken.
RegisterClassEx(name, names) ==
  /\ registered' = names \cup {name}
  /\ RegClass' = IF name \in names THEN NoName ELSE name

\* LeftWindows(): the class and a list without windows.
Construct(name) ==
  /\ ~exists /\ objects < MaxObjects
  /\ exists' = TRUE /\ objects' = objects + 1
  /\ ClsName' = name /\ RegisterClassEx(name, registered)
  /\ NextOf' = EmptyNext /\ LastOf' = EmptyLast /\ Self' = [n \in Node |-> NULL] /\ made' = <<>>
  /\ UNCHANGED <<open, pinned>>

\* ~LeftWindows(): the class stays registered, and so do the windows.
Destruct ==
  /\ exists /\ exists' = FALSE
  /\ pinned' = IF RegClass # NoName THEN pinned \cup {RegClass} ELSE pinned
  /\ UNCHANGED <<objects, ClsName, RegClass, list, registered, open>>

InUse(name) == name \in Taken \/ \E w \in open : w.class = name

\* UnregisterClass: it fails as long as a window of the class is open.
Unregistered(name) == IF InUse(name) THEN registered ELSE registered \ {name}

\* Faulty variant: the name is changed before the old class is given back.
MutReRegClass(name) ==
  /\ exists
  /\ ClsName' = name /\ RegisterClassEx(name, Unregistered(name))
  /\ pinned' = IF InUse(ClsName) THEN pinned \cup {ClsName} ELSE pinned \ {ClsName}
  /\ UNCHANGED <<objects, list, open, exists>>

\* reRegClass, which returns true whatever becomes of it; called without a name it
\* keeps the one it has.
ReRegClass(name) ==
  /\ exists
  /\ ClsName' = name /\ RegisterClassEx(name, Unregistered(ClsName))
  /\ pinned' = IF InUse(ClsName) THEN pinned \cup {ClsName} ELSE pinned \ {ClsName}
  /\ UNCHANGED <<objects, list, open, exists>>

Fresh == Len(made) + 1

\* Faulty variant: the list's last node is replaced before it is linked.
MutAppendParent ==
  /\ LastOf' = [LastOf EXCEPT ![Fresh] = LastOf[ParentTail], ![ParentTail] = Fresh]
  /\ NextOf' = [NextOf EXCEPT ![Fresh] = Fresh]

\* The new node goes in front of the one at the end.
AppendParent ==
  /\ LastOf' = [LastOf EXCEPT ![Fresh] = LastOf[ParentTail], ![ParentTail] = Fresh]
  /\ NextOf' = [NextOf EXCEPT ![Fresh] = ParentTail, ![LastOf[ParentTail]] = Fresh]

\* CreateParentsWin of a window that the system creates; without a class, or if
\* the system creates none, it does nothing.
CreateParentsWin ==
  /\ exists /\ RegClass # NoName /\ Len(made) < MaxWins
  /\ AppendParent
  /\ Self' = [Self EXCEPT ![Fresh] = Fresh] /\ made' = Append(made, Fresh)
  /\ open' = open \cup {[object |-> objects, node |-> Fresh, class |-> RegClass]}
  /\ UNCHANGED <<objects, ClsName, RegClass, registered, exists, pinned>>

\* The user closes a window; its node stays in the list.
CloseWindow ==
  /\ \E w \in open : open' = open \ {w}
  /\ UNCHANGED <<objects, ClsName, RegClass, list, registered, exists, pinned>>

Next ==
  \/ \E name \in Names : Construct(name) \/ ReRegClass(name)
  \/ Destruct \/ CreateParentsWin \/ CloseWindow

Spec == Init /\ [][Next]_vars

-----------------------------------------------------------------------------
(* Properties *)

\* From either end the list leads through all the windows the object has made,
\* in the order of their creation, to the other end, and no further; closing a
\* window or changing the class takes none out (LeftWindows.cpp 25-40, 97-127).
ListWhole ==
  LET chain == <<ParentHead>> \o made \o <<ParentTail>>
  IN  /\ \A i \in 1..Len(made) + 1 : NextOf[chain[i]] = chain[i + 1] /\ LastOf[chain[i + 1]] = chain[i]
      /\ NextOf[ParentTail] = NULL /\ LastOf[ParentHead] = NULL
      /\ \A i \in DOMAIN made : Self[made[i]] # NULL

\* What reRegClass and the destructor leave (LeftWindows.cpp 43-46, 90-95): the
\* atom stands for the object's name, or the object has none because the name
\* was registered already; every open window's class is registered; and a class
\* that is registered and not the object's was given up while one of its windows
\* was open, or by an object that was destroyed.  LeftWindows.h 59 promises more,
\* that the class before is unregistered and a new one registered: that does not
\* hold while a window of it is open or when the new name is taken, although
\* reRegClass returns true then as well.
ClassKept ==
  /\ exists => IF RegClass = NoName THEN ClsName \in registered ELSE RegClass = ClsName
  /\ RegClass # NoName => RegClass \in registered
  /\ \A w \in open : w.class \in registered
  /\ \A c \in registered \ Taken : c \in pinned \/ (exists /\ c = RegClass)
===============================================================================
