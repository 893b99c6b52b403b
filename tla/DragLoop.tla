------------------------------- MODULE DragLoop -------------------------------
(***************************************************************************)
(* ExSizeChange (LeftWindows.cpp 238-299): a thread that polls the mouse   *)
(* and lets the left button move a window and the right one resize it.     *)
(* Each step is one call of the system; between any two of them the user   *)
(* moves the cursor and presses or releases buttons, another window comes  *)
(* to the front, and others move or resize the window.                     *)
(*                                                                         *)
(* One axis is modelled; both are treated alike and at the same time, so   *)
(* that what the other one does is a choice.                               *)
(* The window is never destroyed while it is dragged.                      *)
(***************************************************************************)
EXTENDS Integers

CONSTANTS Screen,     \* places on the axis the cursor can be at
          Widths,     \* widths others give the window
          MinWidth, MaxWidth, \* the system makes no window narrower or wider
          Border,     \* from a window's edge to its client area
          MaxNudges   \* bound: how often others move or resize the window

ASSUME DragConstants ==
  /\ Screen \subseteq Int /\ Border \in Int /\ MaxNudges \in Nat
  /\ MinWidth \in Nat /\ MaxWidth \in Nat /\ MinWidth <= MaxWidth /\ Widths \subseteq MinWidth..MaxWidth

VARIABLES
  cursor, down, front,   \* the cursor, the buttons held, is the window in front?
  left, width,           \* the window
  pc, loop,              \* the thread, and the button whose loop it is in
  fget, rect, pt, rt,    \* fget1 and fget2; the other variables of the function
  nudges,
  disturbed,             \* did others change the window since it was grabbed?
  left0, width0,         \* the window, and
  grabbed, seen          \*   the cursor, when it was grabbed; the cursor last read

user   == <<cursor, down, front>>
window == <<left, width>>
ghosts == <<disturbed, left0, width0, grabbed, seen>>
vars   == <<user, window, pc, loop, fget, rect, pt, rt, nudges, ghosts>>

Limited(n) == IF n < MinWidth THEN MinWidth ELSE IF n > MaxWidth THEN MaxWidth ELSE n

Init ==
  /\ cursor \in Screen /\ down = {} /\ front = FALSE
  /\ left \in Screen /\ width \in Widths
  /\ pc = "top" /\ loop = 1 /\ fget = [b \in 1..2 |-> TRUE]
  /\ rect = [l |-> 0, r |-> 0] /\ pt = 0 /\ rt = 0   \* written before they are read
  /\ nudges = 0 /\ disturbed = FALSE
  /\ left0 = 0 /\ width0 = 0 /\ grabbed = 0 /\ seen = 0

-----------------------------------------------------------------------------
(* The thread *)

\* The window has to be in front only when the loops are entered.
Top ==
  /\ pc = "top" /\ front
  /\ pc' = "test" /\ loop' = 1
  /\ UNCHANGED <<user, window, fget, rect, pt, rt, nudges, ghosts>>

\* Behind the left button's loop comes the right one's, and then the top.
\* The ghosts are forgotten.
Forget == disturbed' = FALSE /\ left0' = 0 /\ width0' = 0 /\ grabbed' = 0 /\ seen' = 0

LeaveLoop ==
  /\ fget' = [fget EXCEPT ![loop] = TRUE]
  /\ loop' = 3 - loop /\ pc' = IF loop = 1 THEN "test" ELSE "top"
  /\ Forget

Test ==
  /\ pc = "test"
  /\ \/ /\ loop \in down
        /\ pc' = IF fget[loop] THEN "rect" ELSE "cursor"
        /\ UNCHANGED <<loop, fget, ghosts>>
     \/ loop \notin down /\ LeaveLoop
  /\ UNCHANGED <<user, window, rect, pt, rt, nudges>>

GrabRect ==
  /\ pc = "rect" /\ pc' = "point"
  /\ fget' = [fget EXCEPT ![loop] = FALSE]
  /\ rect' = [l |-> left, r |-> left + width]
  /\ left0' = left /\ width0' = width /\ disturbed' = FALSE
  /\ UNCHANGED <<user, window, loop, pt, rt, nudges, grabbed, seen>>

GrabPoint ==
  /\ pc = "point" /\ pc' = "grab"
  /\ pt' = cursor /\ grabbed' = cursor /\ seen' = cursor
  /\ UNCHANGED <<user, window, loop, fget, rect, rt, nudges, disturbed, left0, width0>>

ToClient(p) == p - left - Border

\* The point is of the client area and compared with the size of the window;
\* on the other axis it may be outside.
Grab ==
  /\ pc = "grab"
  /\ pt' = ToClient(pt)
  /\ \/ /\ pt' \in 0..rect.r - rect.l
        /\ pc' = "cursor" /\ UNCHANGED <<loop, fget, ghosts>>
     \/ LeaveLoop
  /\ UNCHANGED <<user, window, rect, rt, nudges>>

ReadCursor ==
  /\ pc = "cursor" /\ pc' = "client"
  /\ rt' = cursor /\ seen' = cursor
  /\ UNCHANGED <<user, window, loop, fget, rect, pt, nudges, disturbed, left0, width0, grabbed>>

\* Nothing is set if neither axis has changed.  (rt ends with a pass.)
Shift ==
  /\ pc = "client"
  /\ LET d == ToClient(rt) - pt
     IN  /\ rect' = [l |-> IF loop = 1 THEN rect.l + d ELSE rect.l, r |-> rect.r + d]
         /\ \/ pc' = "set" /\ rt' = ToClient(rt)
            \/ d = 0 /\ pc' = "test" /\ rt' = 0
  /\ UNCHANGED <<user, window, loop, fget, pt, nudges, ghosts>>

\* Faulty variant: the point is renewed as it is when the window is resized.
MutMove ==
  /\ pc = "set" /\ loop = 1 /\ pc' = "test"
  /\ left' = rect.l /\ pt' = rt /\ rt' = 0
  /\ UNCHANGED <<user, width, loop, fget, rect, nudges, ghosts>>

\* The point that was grabbed stays: the window has come to the cursor.
Move ==
  /\ pc = "set" /\ loop = 1 /\ pc' = "test"
  /\ left' = rect.l /\ rt' = 0
  /\ UNCHANGED <<user, width, loop, fget, rect, pt, nudges, ghosts>>

\* Faulty variant: the point is not renewed.
MutResize ==
  /\ pc = "set" /\ loop = 2 /\ pc' = "test"
  /\ width' = Limited(rect.r - rect.l) /\ rt' = 0
  /\ UNCHANGED <<user, left, loop, fget, rect, pt, nudges, ghosts>>

\* The system keeps the window in its limits; rect is not told.
Resize ==
  /\ pc = "set" /\ loop = 2 /\ pc' = "test"
  /\ width' = Limited(rect.r - rect.l) /\ pt' = rt /\ rt' = 0
  /\ UNCHANGED <<user, left, loop, fget, rect, nudges, ghosts>>

Thread == Top \/ Test \/ GrabRect \/ GrabPoint \/ Grab \/ ReadCursor \/ Shift \/ Move \/ Resize

-----------------------------------------------------------------------------
(* The user and others *)

MoveCursor ==
  /\ cursor' \in Screen \ {cursor}
  /\ UNCHANGED <<down, front, window, pc, loop, fget, rect, pt, rt, nudges, ghosts>>

Button(b) ==
  /\ down' = IF b \in down THEN down \ {b} ELSE down \cup {b}
  /\ UNCHANGED <<cursor, front, window, pc, loop, fget, rect, pt, rt, nudges, ghosts>>

Activate ==
  /\ front' = ~front
  /\ UNCHANGED <<cursor, down, window, pc, loop, fget, rect, pt, rt, nudges, ghosts>>

Nudge ==
  /\ nudges < MaxNudges /\ nudges' = nudges + 1 /\ disturbed' = TRUE
  /\ left' \in Screen /\ width' \in Widths
  /\ UNCHANGED <<user, pc, loop, fget, rect, pt, rt, left0, width0, grabbed, seen>>

Next == Thread \/ MoveCursor \/ (\E b \in 1..2 : Button(b)) \/ Activate \/ Nudge

\* The thread is scheduled; nobody owes it a movement.
Fairness == WF_vars(Thread)

Spec == Init /\ [][Next]_vars /\ Fairness

-----------------------------------------------------------------------------
(* Properties *)

TypeOK ==
  /\ cursor \in Screen /\ down \subseteq 1..2 /\ front \in BOOLEAN
  /\ left \in Int /\ width \in MinWidth..MaxWidth
  /\ pc \in {"top", "test", "rect", "point", "grab", "cursor", "client", "set"}
  /\ loop \in 1..2 /\ fget \in [1..2 -> BOOLEAN]
  /\ rect \in [l : Int, r : Int] /\ pt \in Int /\ rt \in Int
  /\ nudges \in 0..MaxNudges /\ disturbed \in BOOLEAN
  /\ left0 \in Int /\ width0 \in Nat /\ grabbed \in Int /\ seen \in Int

\* At rest in a loop: what was grabbed is being dragged, and nothing is owed to
\* the last reading of the cursor.
AtRest(b) == loop = b /\ ~fget[b] /\ pc \in {"test", "cursor"}

\* As long as nobody else touches the window, however fast the cursor moves
\* between two readings, the left button has moved it by as much as the cursor
\* was moved since it was grabbed, and the right one has widened it by as much
\* within the limits, also after the cursor went beyond them and came back
\* (LeftWindows.cpp 251-297).
DragFollows ==
  ~disturbed =>
    /\ AtRest(1) => left = left0 + seen - grabbed /\ width = width0
    /\ AtRest(2) => left = left0 /\ width = Limited(width0 + seen - grabbed)

\* Whatever others did to the window during a drag with the left button, if
\* button and cursor rest then, the window comes to have the grabbed point
\* under the cursor (263-272).
Settles ==
  \A x \in Screen :
    <>[](cursor = x /\ loop = 1 /\ ~fget[1] /\ pc \notin {"point", "grab"}) => <>[](ToClient(x) = pt)
===============================================================================
