------------------------------ MODULE WindowsInfo ------------------------------
(***************************************************************************)
(* WindowsInfo (LeftWindows.cpp 350-437): a thread that prints the class   *)
(* and the styles of the window in front when another comes there.  It     *)
(* prints the styles of the window FindWindow gives for the class, and     *)
(* remembers that one.  Windows come to the front, open and close between  *)
(* any two calls of the system.                                            *)
(***************************************************************************)
CONSTANTS Windows, ClassOf,   \* windows, each with the name of its class
          NoWin, Unset          \* no window; a name nobody has written

Classes == {ClassOf[w] : w \in Windows}

VARIABLES opened, alive,   \* windows that have been opened, and are still there
          front,           \* the window in front
          at,              \* what the thread does next
          Win, FgrndWin, name,
          shown            \* the window whose styles were printed last

thread == <<at, Win, FgrndWin, name, shown>>
vars   == <<opened, alive, front, thread>>

Init ==
  /\ opened = {} /\ alive = {} /\ front = NoWin
  /\ at = "look" /\ Win = NoWin /\ FgrndWin = NoWin /\ name = Unset /\ shown = NoWin

-----------------------------------------------------------------------------
(* The thread *)

Look ==
  /\ at = "look"
  /\ FgrndWin' = front
  /\ at' = IF FgrndWin' = Win THEN "look" ELSE "name"
  /\ UNCHANGED <<opened, alive, front, Win, name, shown>>

\* Faulty variant: only the first name is read.
MutGetClassName ==
  /\ at = "name" /\ at' = "find"
  /\ name' = IF FgrndWin \in alive /\ name = Unset THEN ClassOf[FgrndWin] ELSE name
  /\ UNCHANGED <<opened, alive, front, Win, FgrndWin, shown>>

\* The name stays when there is no such window any more.
GetClassName ==
  /\ at = "name" /\ at' = "find"
  /\ name' = IF FgrndWin \in alive THEN ClassOf[FgrndWin] ELSE name
  /\ UNCHANGED <<opened, alive, front, Win, FgrndWin, shown>>

\* Which window of a class is found depends on how they lie on the screen; an
\* unwritten name may be any.
Find ==
  /\ at = "find" /\ at' = "print"
  /\ LET found == {w \in alive : name \in {ClassOf[w], Unset}}
     IN  Win' \in IF found = {} \/ name = Unset THEN found \cup {NoWin} ELSE found
  /\ UNCHANGED <<opened, alive, front, FgrndWin, name, shown>>

\* No styles of a window that has gone.
PrintStyles ==
  /\ at = "print" /\ at' = "look"
  /\ shown' = IF Win \in alive THEN Win ELSE NoWin
  /\ UNCHANGED <<opened, alive, front, Win, FgrndWin, name>>

Thread == Look \/ GetClassName \/ Find \/ PrintStyles

-----------------------------------------------------------------------------
(* The desktop *)

Open(w) ==
  /\ w \notin opened
  /\ opened' = opened \cup {w} /\ alive' = alive \cup {w}
  /\ UNCHANGED <<front, thread>>

Activate ==
  /\ front' \in (alive \cup {NoWin}) \ {front}
  /\ UNCHANGED <<opened, alive, thread>>

Close(w) ==
  /\ w \in alive /\ alive' = alive \ {w}
  /\ front' = IF front = w THEN NoWin ELSE front
  /\ UNCHANGED <<opened, thread>>

Next == Thread \/ Activate \/ \E w \in Windows : Open(w) \/ Close(w)

Fairness == WF_vars(Thread)

Spec == Init /\ [][Next]_vars /\ Fairness

-----------------------------------------------------------------------------
(* Property *)

Alone(w) == \A v \in alive : ClassOf[v] = ClassOf[w] => v = w

\* "Prints the information of the window that is active" (LeftWindows.h 78),
\* of a window that stays in front and is the only one of its class: whatever
\* came and went before, at last its styles are the ones that were printed, and
\* the thread is quiet.  Of several of one class another may be shown, and all
\* over again.
Reports ==
  \A w \in Windows : <>[](front = w /\ Alone(w)) => <>[](shown = w /\ Win = w /\ at = "look")
===============================================================================
