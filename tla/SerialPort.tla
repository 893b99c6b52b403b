------------------------------ MODULE SerialPort ------------------------------
(***************************************************************************)
(* A serial port of LeftComSupt on Linux: opened and set by mxsp_open and  *)
(* left_SP_ioctl (MoxaSerialPort_Linux.cpp, mserial_port_lx.c), or by      *)
(* ComInit (SPofOpenFile.cpp).  Calls follow one another; every call of    *)
(* the driver may fail.  As nobody else sets the port, reading its         *)
(* attributes and writing them back is one step.                           *)
(***************************************************************************)
EXTENDS Termios

CONSTANTS Bauds,      \* what the callers ask for: rates,
          Paritys,    \* parity codes,
          Sizes,      \* data bits
          Stops,      \* and stop bits
          Found       \* bits a port is found with, or an uninitialised termios holds

ASSUME SerialPortAssumption ==
  /\ Bauds \subseteq Nat /\ Paritys \subseteq Int /\ Sizes \subseteq Int /\ Stops \subseteq Int
  /\ Found \subseteq SUBSET Bits

Arguments == [baud : Bauds, parity : Paritys, size : Sizes, stop : Stops]

VARIABLES
  cflag,     \* the port's c_cflag
  special,   \* the rate last given to the driver by UC_SET_SPECIAL_BAUD_RATE
  call,      \* the call under way: "none", "open", "ioctl", "com_speed",
             \* "com_parity"; "reading": ComInit reads for ever; "exited"
  done,      \* how many settings left_SP_ioctl has made
  args,      \* the arguments of the left_SP_ioctl or set_Parity it is, or that
             \* has just ended
  base,      \* c_cflag when that call began (ghost)
  ended,     \* the call that has just ended: "none", "open", "ioctl", "parity",
             \* "stopbits" or, when the port could not be read, "nostopbits"
  ret        \* and what it returned

vars == <<cflag, special, call, done, args, base, ended, ret>>

NoArguments == [baud |-> 0, parity |-> 0, size |-> 0, stop |-> 0]

Init ==
  /\ cflag \in [speed : {SpeedOf(r) : r \in Bauds \cap Rates}, bits : Found]
  /\ special = 0 /\ call = "none" /\ done = 0
  /\ args = NoArguments
  /\ base = cflag /\ ended = "none" /\ ret = 0

(* Another call begins or nothing is left to say of the last. *)
Forget ==
  args' = NoArguments /\ base' = cflag' /\ done' = 0 /\ ended' = "none" /\ ret' = 0

Return(what, value) == call' = "none" /\ ended' = what /\ ret' = value
-------------------------------------------------------------------------------
(* mxsp_open *)

\* Faulty variant: the size of a word is not set.
MutDefault == [speed |-> SpeedOf(9600), bits |-> {"CLOCAL", "CREAD"}]

Default == [speed |-> SpeedOf(9600), bits |-> CS8 \cup {"CLOCAL", "CREAD"}]

(* open() of the device; when it fails there is nothing to set. *)
Open ==
  /\ call = "none"
  /\ call' = "open"
  /\ UNCHANGED <<cflag, special>> /\ Forget

(* The attributes are set; whether that worked is not looked at. *)
OpenSets ==
  /\ call = "open"
  /\ \/ cflag' = Default /\ Return("open", 0)
     \/ cflag' = cflag /\ Return("open", -1)
  /\ UNCHANGED <<special, done, args, base>>
-------------------------------------------------------------------------------
(* left_SP_ioctl: four settings, given up at the first that fails *)

Ioctl(a) ==
  /\ call = "none"
  /\ call' = "ioctl" /\ ended' = "none" /\ ret' = 0 /\ done' = 0
  /\ args' = a /\ base' = cflag
  /\ UNCHANGED <<cflag, special>>

(* The setting number done + 1 is made, in the order of the calls. *)
Setting(n, made) ==
  /\ call = "ioctl" /\ done = n - 1
  /\ made
  /\ done' = n
  /\ IF n = 4 THEN Return("ioctl", 0) ELSE UNCHANGED <<call, ended, ret>>
  /\ UNCHANGED <<args, base>>

IoctlBaud ==
  Setting(1,
    \/ args.baud \in Rates /\ cflag' = SetBaudrate(cflag, args.baud) /\ special' = special
    \* The driver is asked; whether it marks c_cflag is its own affair.
    \/ args.baud \notin Rates /\ cflag' \in {cflag, [cflag EXCEPT !.speed = B4000000]}
         /\ special' = args.baud)

IoctlParity == Setting(2, cflag' = SetParity(cflag, args.parity) /\ special' = special)
IoctlSize == Setting(3, cflag' = SetDatabits(cflag, args.size) /\ special' = special)
IoctlStop == Setting(4, cflag' = SetStopbits(cflag, args.stop) /\ special' = special)

\* Faulty variant: a setting that fails is passed over.
MutIoctlFails ==
  /\ call = "ioctl"
  /\ done' = done + 1
  /\ IF done = 3 THEN Return("ioctl", 0) ELSE UNCHANGED <<call, ended, ret>>
  /\ UNCHANGED <<cflag, special, args, base>>

IoctlFails ==
  /\ call = "ioctl"
  /\ Return("ioctl", -1)
  /\ UNCHANGED <<cflag, special, done, args, base>>

IoctlStep == IoctlBaud \/ IoctlParity \/ IoctlSize \/ IoctlStop \/ IoctlFails
-------------------------------------------------------------------------------
(* set_speed, set_Parity and ComInit *)

(* The rate is set on what tcgetattr read; when that failed, on whatever the
   uninitialised termios holds.  A rate it does not know changes nothing. *)
SetSpeed(rate) ==
  \/ cflag' = cflag
  \/ rate \in name_arr /\ cflag' \in {SetBaudrate(cflag, rate)} \cup
                                     {[speed |-> SpeedOf(rate), bits |-> b] : b \in Found}

(* set_Parity succeeds when size, stop and letter are ones it supports and the
   driver takes them; otherwise nothing is changed. *)
Supported(size, stop) == size \in {7, 8} /\ stop \in {1, 2}

SetLineOf(size, stop, p) ==
  /\ ended' = "parity" /\ base' = cflag
  /\ args' = [baud |-> 0, parity |-> p, size |-> size, stop |-> stop] /\ done' = 0
  /\ \/ Supported(size, stop) /\ cflag' = SetLine(cflag, size, stop, p) /\ ret' = 0
     \/ cflag' = cflag /\ ret' = -1

set_speed(rate) ==
  /\ call = "none" /\ SetSpeed(rate)
  /\ UNCHANGED <<special, call>> /\ Forget

set_Parity(size, stop, p) ==
  /\ call = "none" /\ SetLineOf(size, stop, p)
  /\ UNCHANGED <<special, call>>

(* ComInit ends the program when it cannot open the device. *)
ComInit ==
  /\ call = "none"
  /\ call' \in {"com_speed", "exited"}
  /\ UNCHANGED <<cflag, special>> /\ Forget

ComSpeed(rate) ==
  /\ call = "com_speed" /\ SetSpeed(rate)
  /\ call' = "com_parity"
  /\ UNCHANGED special /\ Forget

\* Faulty variant: the failure of set_Parity is not looked at.
MutComParity ==
  /\ call = "com_parity" /\ SetLineOf(8, 1, "N")
  /\ call' = "reading"
  /\ UNCHANGED special

(* It writes a greeting and reads for ever, or ends the program. *)
ComParity ==
  /\ call = "com_parity" /\ SetLineOf(8, 1, "N")
  /\ call' = IF ret' = 0 THEN "reading" ELSE "exited"
  /\ UNCHANGED special

Com == ComInit \/ ComParity \/ \E r \in Bauds : ComSpeed(r)
-------------------------------------------------------------------------------
(* mxsp_get_stopbits takes the success of tcgetattr for a failure, and reads
   an uninitialised termios after a failure. *)
GetStopbits ==
  /\ call = "none"
  /\ \/ ended' = "stopbits" /\ ret' = -1
     \/ ended' = "nostopbits" /\ ret' \in {1, 2}
  /\ UNCHANGED <<cflag, special, call>>
  /\ args' = NoArguments /\ base' = cflag' /\ done' = 0

Next ==
  \/ Open \/ OpenSets
  \/ (\E a \in Arguments : Ioctl(a)) \/ IoctlStep
  \/ \E r \in Bauds : set_speed(r)
  \/ \E size \in Sizes, stop \in Stops, p \in Letters : set_Parity(size, stop, p)
  \/ Com
  \/ GetStopbits

Spec == Init /\ [][Next]_vars
-------------------------------------------------------------------------------
(* Properties *)

TypeOK ==
  /\ cflag \in Cflag /\ base \in Cflag
  /\ special \in Bauds \cup {0}
  /\ call \in {"none", "open", "ioctl", "com_speed", "com_parity", "reading", "exited"}
  /\ done \in 0..4
  /\ call = "ioctl" => args \in Arguments /\ done < 4
  /\ ended = "ioctl" => args \in Arguments
  /\ ended \in {"none", "open", "ioctl", "parity", "stopbits", "nostopbits"}
  /\ ret \in -1..2

(* The code of the parity that is asked for: "otherwise: none" (mserial_port_lx.c 223). *)
AskedParity == IF args.parity \in 1..4 THEN args.parity ELSE NONE

(* The receiver is on and the modem lines are ignored as before. *)
LineKept == cflag.bits \cap {"CLOCAL", "CREAD"} = base.bits \cap {"CLOCAL", "CREAD"}

(* The rate that is read back.  A rate no table has was given to the driver; it
   is read back where the driver marks it in c_cflag or no other was set, and a
   rate of the table that was set before is read back where it does not. *)
RateRead ==
  IF done = 0 THEN GetBaudrate(cflag, special) = GetBaudrate(base, special)
  ELSE IF args.baud \in Rates THEN GetBaudrate(cflag, special) = args.baud
  ELSE special = args.baud /\ GetBaudrate(cflag, special) \in {args.baud, GetBaudrate(base, args.baud)}

(* left_SP_ioctl has made the settings in front of the one that failed, and
   left every other as it was; it returns 0 only when all four are made.  Words
   of 5 to 8 and 1 or 2 stop bits are read back as they were asked for,
   whatever was there before; so is any parity (MoxaSerialPort_Linux.cpp 7-13,
   mserial_port_lx.c 72-272).  Not so 1.5 stop bits, "3 (for 1.5)" (176): the
   code takes every number but 2 for 1, and nothing is said of others here. *)
PrefixApplied ==
  call = "ioctl" \/ ended = "ioctl" =>
    /\ RateRead
    /\ GetParity(cflag) = IF done >= 2 THEN AskedParity ELSE GetParity(base)
    /\ IF done < 3 THEN GetDatabits(cflag) = GetDatabits(base)
       ELSE args.size \in 5..8 => GetDatabits(cflag) = args.size
    /\ IF done < 4 THEN Stopbits(cflag) = Stopbits(base)
       ELSE args.stop \in {1, 2} => Stopbits(cflag) = args.stop
    /\ LineKept
    /\ (ended = "ioctl" => (ret = 0 <=> done = 4))

(* When the attributes could be set, a port that was opened has 9600/8/N/1 in
   whatever state it was left before (mserial_port_lx.c 290, 312-326). *)
OpenDefaults ==
  ended = "open" /\ ret = 0 =>
    /\ GetBaudrate(cflag, special) = 9600
    /\ GetParity(cflag) = NONE /\ GetDatabits(cflag) = 8 /\ Stopbits(cflag) = 1

(* set_Parity that returns TRUE has set what mxsp_get_parity and the others
   read back and kept the rate, unless mxsp_set_parity left the port in mark
   or space parity: that bit set_Parity does not know (SPofOpenFile.cpp 72-122). *)
LineApplied ==
  ended = "parity" /\ ret = 0 =>
    /\ "CMSPAR" \notin base.bits => GetParity(cflag) = LetterParity(args.parity)
    /\ GetDatabits(cflag) = args.size /\ Stopbits(cflag) = args.stop
    /\ cflag.speed = base.speed /\ LineKept

(* ComInit reads only from a port of 8/N/1, even when set_speed wrote back
   attributes it never read (SPofOpenFile.cpp 42, 154-168). *)
ComReads ==
  call = "reading" => GetParity(cflag) = NONE /\ GetDatabits(cflag) = 8 /\ Stopbits(cflag) = 1

(* A port is handed over for use, by mxsp_open with its attributes set or by
   ComInit, as 8/N/1 whatever its attributes were before. *)
HandedOver8N1 == OpenDefaults /\ ComReads

(* "negative value on failure, or stop bits, 1, 2, and 3 (for 1.5)"
   (mserial_port_lx.c 200). *)
StopbitsRead == /\ ended = "stopbits" => ret \in 1..3
                /\ ended = "nostopbits" => ret < 0
===============================================================================
