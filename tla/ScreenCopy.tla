------------------------------ MODULE ScreenCopy ------------------------------
(***************************************************************************)
(* LeftWindows::CopyScreem (LeftSupport/LeftWindows.cpp).  The public      *)
(* overload hands a heap block with its arguments to a new thread; a       *)
(* static auto-reset event, DeleteSureLock, lets one hand-over run at a    *)
(* time: the caller waits for it and the new thread sets it again once it  *)
(* has read and deleted the block.  The thread then copies one window to   *)
(* another for ever; without a window to copy from it follows the          *)
(* foreground window.                                                      *)
(*                                                                         *)
(* Windows appear, become the foreground window and are destroyed at any   *)
(* time.  A device context or a rectangle is modelled by the window it was *)
(* got from; a call on a destroyed window gives no context and leaves the  *)
(* rectangle as it was.                                                    *)
(***************************************************************************)
EXTENDS Naturals, FiniteSets

CONSTANTS
  Callers,   \* threads that call CopyScreem(inWindow, offWindow, time)
  Threads,   \* the threads CreateThread can still start: bounds the calls
  Blocks,    \* addresses a CopyScrm can be allocated at
  Windows,   \* window handles; a handle is not used again
  Inputs,    \* windows the calls name to copy from
  Outputs,   \* windows the calls name to copy to
  NoWin,     \* the NULL handle, the NULL context
  Unset,     \* a rectangle nothing was written to, a freed block
  MayFail    \* whether CreateThread may fail

ASSUME ScreenCopyAssumption ==
  /\ NoWin \notin Windows
  /\ Unset \notin Windows
  /\ Inputs \subseteq Windows /\ Outputs \subseteq Windows
  /\ Callers \cap Threads = {} /\ Callers \cap Blocks = {} /\ Threads \cap Blocks = {}
  /\ MayFail \in BOOLEAN

(* A CopyScrm; the time to sleep changes no behaviour here. *)
Request == [in : Inputs \cup {NoWin}, off : Outputs]

ASSUME UnsetIsNoRequest == Unset \notin Request

VARIABLES
  event,     \* DeleteSureLock is signalled
  alive,     \* windows that exist
  fg,        \* the foreground window, NoWin while there is none
  heap,      \* what stands in each block, Unset when it is free
  lost,      \* blocks whose thread was not created
  pc,        \* per caller: "idle", "wait" (304), "fill" (305), "create" (310)
  req,       \* per caller: the arguments of the call
  cp,        \* per caller: its block
  tpc,       \* per thread: where it stands
  arg,       \* per thread: the block it was given
  want,      \* per thread: the arguments of the call that made it (ghost)
  got,       \* per thread: inHwnd and offHwnd
  seen,      \* per thread: FgrndWin
  src,       \* per thread: inHwndDC, as the window it belongs to
  rect       \* per thread: rect, as the window it was read from

callVars == <<heap, lost, pc, req, cp>>
threadVars == <<tpc, arg, want, got, seen, src, rect>>
windowVars == <<alive, fg>>
vars == <<event, alive, fg, heap, lost, pc, req, cp, tpc, arg, want, got, seen, src, rect>>

(* Where a copying thread stands, in the order it gets there. *)
HandOver == {"read", "free", "signal"}
Copying == {"open", "size", "look", "switch", "measure", "blit"}

TypeOK ==
  /\ event \in BOOLEAN
  /\ alive \in SUBSET Windows
  /\ fg \in alive \cup {NoWin}
  /\ heap \in [Blocks -> Request \cup {Unset}]
  /\ lost \in SUBSET Blocks
  /\ pc \in [Callers -> {"idle", "wait", "fill", "create"}]
  /\ req \in [Callers -> Request \cup {Unset}]
  /\ cp \in [Callers -> Blocks \cup {Unset}]
  /\ tpc \in [Threads -> {"none"} \cup HandOver \cup Copying]
  /\ arg \in [Threads -> Blocks \cup {Unset}]
  /\ want \in [Threads -> Request \cup {Unset}]
  /\ got \in [Threads -> Request \cup {Unset}]
  /\ seen \in [Threads -> Windows \cup {NoWin}]
  /\ src \in [Threads -> Windows \cup {NoWin}]
  /\ rect \in [Threads -> Windows \cup {Unset}]
  /\ \A c \in Callers : (pc[c] # "idle" => req[c] \in Request)
                         /\ (pc[c] = "create" => cp[c] \in Blocks)
  /\ \A t \in Threads : tpc[t] # "none" => arg[t] \in Blocks /\ want[t] \in Request

Init ==
  /\ event = TRUE                       \* CreateEvent(NULL, FALSE, TRUE, NULL)
  /\ alive = Windows /\ fg \in Windows \cup {NoWin}
  /\ heap = [b \in Blocks |-> Unset] /\ lost = {}
  /\ pc = [c \in Callers |-> "idle"]
  /\ req = [c \in Callers |-> Unset] /\ cp = [c \in Callers |-> Unset]
  /\ tpc = [t \in Threads |-> "none"]
  /\ arg = [t \in Threads |-> Unset]
  /\ want = [t \in Threads |-> Unset] /\ got = [t \in Threads |-> Unset]
  /\ seen = [t \in Threads |-> NoWin] /\ src = [t \in Threads |-> NoWin]
  /\ rect = [t \in Threads |-> Unset]
-------------------------------------------------------------------------------
(* The caller, CopyScreem(inWindow, offWindow, time). *)

(* There is a thread left for every call under way and one more. *)
CallBound ==
  Cardinality({c \in Callers : pc[c] # "idle"}) < Cardinality({t \in Threads : tpc[t] = "none"})

(* A call with an output window; without one it returns false and changes
   nothing. *)
Call(c) ==
  /\ pc[c] = "idle" /\ CallBound
  /\ \E r \in Request : req' = [req EXCEPT ![c] = r]
  /\ pc' = [pc EXCEPT ![c] = "wait"]
  /\ UNCHANGED <<event, heap, lost, cp, threadVars, windowVars>>

\* Faulty variant: an event that stays signalled until it is reset by hand.
MutWait(c) ==
  /\ pc[c] = "wait" /\ event
  /\ pc' = [pc EXCEPT ![c] = "fill"]
  /\ UNCHANGED <<event, heap, lost, req, cp, threadVars, windowVars>>

(* The wait ends and resets the event. *)
Wait(c) ==
  /\ pc[c] = "wait" /\ event
  /\ event' = FALSE
  /\ pc' = [pc EXCEPT ![c] = "fill"]
  /\ UNCHANGED <<heap, lost, req, cp, threadVars, windowVars>>

(* The block is allocated anywhere free and filled. *)
Fill(c) ==
  /\ pc[c] = "fill"
  /\ \E b \in Blocks : /\ heap[b] = Unset
                       /\ heap' = [heap EXCEPT ![b] = req[c]]
                       /\ cp' = [cp EXCEPT ![c] = b]
  /\ pc' = [pc EXCEPT ![c] = "create"]
  /\ UNCHANGED <<event, lost, req, threadVars, windowVars>>

\* Faulty variant: the caller deletes the block it allocated.
MutCreate(c) ==
  /\ pc[c] = "create"
  /\ \E t \in Threads : /\ tpc[t] = "none"
                        /\ tpc' = [tpc EXCEPT ![t] = "read"]
                        /\ arg' = [arg EXCEPT ![t] = cp[c]]
                        /\ want' = [want EXCEPT ![t] = req[c]]
  /\ heap' = [heap EXCEPT ![cp[c]] = Unset]
  /\ pc' = [pc EXCEPT ![c] = "idle"]
  /\ UNCHANGED <<event, lost, req, cp, got, seen, src, rect, windowVars>>

(* CreateThread starts a thread on the block. *)
Create(c) ==
  /\ pc[c] = "create"
  /\ \E t \in Threads : /\ tpc[t] = "none"
                        /\ tpc' = [tpc EXCEPT ![t] = "read"]
                        /\ arg' = [arg EXCEPT ![t] = cp[c]]
                        /\ want' = [want EXCEPT ![t] = req[c]]
  /\ pc' = [pc EXCEPT ![c] = "idle"]
  /\ UNCHANGED <<event, heap, lost, req, cp, got, seen, src, rect, windowVars>>

(* CreateThread fails; its result is not looked at and the call returns true. *)
CreateFails(c) ==
  /\ pc[c] = "create" /\ MayFail
  /\ lost' = lost \cup {cp[c]}
  /\ pc' = [pc EXCEPT ![c] = "idle"]
  /\ UNCHANGED <<event, heap, req, cp, threadVars, windowVars>>

Caller(c) == Call(c) \/ Wait(c) \/ Fill(c) \/ Create(c) \/ CreateFails(c)
-------------------------------------------------------------------------------
(* The thread, CopyScreem(CopyScreemStu). *)

Goto(t, here, there) == tpc[t] = here /\ tpc' = [tpc EXCEPT ![t] = there]

(* GetDC of a window: its context, or none when the window is gone. *)
ContextOf(w) == IF w \in alive THEN w ELSE NoWin

(* GetWindowRect writes the rectangle only when the window exists. *)
RectAfter(t, w) == IF w \in alive THEN w ELSE rect[t]

ReadArgs(t) ==
  /\ Goto(t, "read", "free")
  /\ got' = [got EXCEPT ![t] = heap[arg[t]]]
  /\ UNCHANGED <<event, arg, want, seen, src, rect, callVars, windowVars>>

FreeArgs(t) ==
  /\ Goto(t, "free", "signal")
  /\ heap' = [heap EXCEPT ![arg[t]] = Unset]
  /\ UNCHANGED <<event, lost, pc, req, cp, arg, want, got, seen, src, rect, windowVars>>

\* Faulty variant: the thread does not set the event.
MutSignal(t) ==
  /\ Goto(t, "signal", "open")
  /\ UNCHANGED <<event, arg, want, got, seen, src, rect, callVars, windowVars>>

Signal(t) ==
  /\ Goto(t, "signal", "open")
  /\ event' = TRUE
  /\ UNCHANGED <<arg, want, got, seen, src, rect, callVars, windowVars>>

(* inHwndDC = inHwnd ? GetDC(inHwnd) : NULL *)
OpenSource(t) ==
  /\ Goto(t, "open", "size")
  /\ src' = [src EXCEPT ![t] = ContextOf(got[t].in)]
  /\ UNCHANGED <<event, arg, want, got, seen, rect, callVars, windowVars>>

(* GetWindowRect(inHwnd, &rect), which fails on NULL; the loop looks for a
   foreground window only when there is no inHwnd. *)
SizeSource(t) ==
  /\ Goto(t, "size", IF got[t].in = NoWin THEN "look" ELSE "blit")
  /\ rect' = [rect EXCEPT ![t] = RectAfter(t, got[t].in)]
  /\ UNCHANGED <<event, arg, want, got, seen, src, callVars, windowVars>>

Foreign(t, w) == w # NoWin /\ w # got[t].off

(* FgrndWin = GetForegroundWindow() *)
Look(t) ==
  /\ Goto(t, "look", IF Foreign(t, fg) THEN "switch" ELSE "blit")
  /\ seen' = [seen EXCEPT ![t] = fg]
  /\ UNCHANGED <<event, arg, want, got, src, rect, callVars, windowVars>>

(* The old context is given up for that of the window seen. *)
Switch(t) ==
  /\ Goto(t, "switch", "measure")
  /\ src' = [src EXCEPT ![t] = ContextOf(seen[t])]
  /\ UNCHANGED <<event, arg, want, got, seen, rect, callVars, windowVars>>

\* Faulty variant: the size is kept from the window before.
MutMeasure(t) ==
  /\ Goto(t, "measure", "blit")
  /\ UNCHANGED <<event, arg, want, got, seen, src, rect, callVars, windowVars>>

Measure(t) ==
  /\ Goto(t, "measure", "blit")
  /\ rect' = [rect EXCEPT ![t] = RectAfter(t, seen[t])]
  /\ UNCHANGED <<event, arg, want, got, seen, src, callVars, windowVars>>

\* Faulty variant: the foreground window is looked for once.
MutBlit(t) ==
  /\ Goto(t, "blit", "blit")
  /\ UNCHANGED <<event, arg, want, got, seen, src, rect, callVars, windowVars>>

(* BitBlt from the context, as large as the rectangle, and the sleep. *)
Blit(t) ==
  /\ Goto(t, "blit", IF got[t].in = NoWin THEN "look" ELSE "blit")
  /\ UNCHANGED <<event, arg, want, got, seen, src, rect, callVars, windowVars>>

HandOverStep(t) == ReadArgs(t) \/ FreeArgs(t) \/ Signal(t)
CopyStep(t) ==
  OpenSource(t) \/ SizeSource(t) \/ Look(t) \/ Switch(t) \/ Measure(t) \/ Blit(t)
Thread(t) == HandOverStep(t) \/ CopyStep(t)
-------------------------------------------------------------------------------
(* The desktop: another window, or none, comes to the front; a window is
   destroyed. *)
Activate ==
  /\ fg' \in alive \cup {NoWin} /\ fg' # fg
  /\ UNCHANGED <<event, alive, callVars, threadVars>>

Destroy(w) ==
  /\ w \in alive
  /\ alive' = alive \ {w}
  /\ fg' = IF fg = w THEN NoWin ELSE fg
  /\ UNCHANGED <<event, callVars, threadVars>>

Desktop == Activate \/ \E w \in Windows : Destroy(w)

Next ==
  \/ \E c \in Callers : Caller(c)
  \/ \E t \in Threads : Thread(t)
  \/ Desktop

Spec == Init /\ [][Next]_vars

(* A waiting call is woken when the event is set, and every thread runs. *)
Fairness ==
  /\ \A c \in Callers : WF_vars(Wait(c) \/ Fill(c) \/ Create(c))
  /\ \A t \in Threads : WF_vars(Thread(t))

FairSpec == Spec /\ Fairness
-------------------------------------------------------------------------------
(* Who has the event: a caller between its wait and its CreateThread, a
   thread that has not set it yet, or a block no thread will ever read. *)
Filling == {c \in Callers : pc[c] \in {"fill", "create"}}
HandingOver == {t \in Threads : tpc[t] \in HandOver}
Holders == Filling \cup HandingOver \cup lost

(* The event is set exactly while no hand-over is under way, and otherwise one
   party holds it: it is never lost except with a block whose thread was not
   created, and then no call gets past its wait again (304, 310, 328). *)
OneHandOver ==
  IF event THEN Holders = {} ELSE \E h \in Callers \cup Threads \cup Blocks : Holders = {h}

(* A new thread finds its own call's arguments in a block nobody has freed,
   frees it once, and keeps those arguments although the address is used again
   by later calls (305-310, 323-327). *)
OwnArguments ==
  \A t \in Threads :
    /\ tpc[t] = "read" => heap[arg[t]] = want[t]
    /\ tpc[t] = "free" => heap[arg[t]] # Unset
    /\ tpc[t] \notin {"none", "read"} => got[t] = want[t] /\ want[t] # Unset

(* When a copy is made from a window that exists, its size is that of the same
   window, never an uninitialised rectangle and never the size of a window
   copied before; and a window that follows the foreground is never copied to
   itself (333-345). *)
SourceFits ==
  \A t \in Threads : tpc[t] = "blit" =>
    /\ src[t] \in alive => rect[t] = src[t]
    /\ got[t].in = NoWin => src[t] # got[t].off

(* Every call returns, unless a CreateThread has failed before (304, 328). *)
CallsReturn == \A c \in Callers : pc[c] = "wait" ~> pc[c] = "idle" \/ lost # {}

(* A thread told to follow the foreground ends up copying, with its size, the
   window that stays in front (337-341). *)
Follows ==
  \A t \in Threads, w \in Windows :
    <>[](fg = w /\ tpc[t] \in Copying /\ got[t].in = NoWin /\ got[t].off # w)
      => <>[](src[t] = w /\ rect[t] = w)
===============================================================================
