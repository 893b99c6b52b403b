------------------------------- MODULE Termios -------------------------------
(***************************************************************************)
(* The control flags of a Linux serial port, as the setting functions of   *)
(* LeftComSupt (mserial_port_lx.c, SPofOpenFile.cpp) write and read them.  *)
(* A c_cflag is the number in its CBAUD bits and the set of its other bits *)
(* that are on: "|= B" adds bits and "&= ~B" takes them away.              *)
(***************************************************************************)
EXTENDS Integers

(* The bits, as <termios.h> has them: a word of 5 has none of CSIZE. *)
CSIZE == {"CS6", "CS7"}
CS5 == {}
CS6 == {"CS6"}
CS7 == {"CS7"}
CS8 == CSIZE
Bits == CSIZE \cup {"CSTOPB", "CREAD", "PARENB", "PARODD", "CLOCAL", "CMSPAR"}
Cflag == [speed : 0..31, bits : SUBSET Bits]

baudrate_table ==
  <<0, 50, 75, 110, 134, 150, 200, 300, 600, 1200, 1800, 2400, 4800, 9600, 19200, 38400,
    57600, 115200, 230400, 460800, 500000, 576000, 921600>>
Rates == {baudrate_table[i] : i \in 1..23}

(* The index of entry i: B0..B38400 count from 0, B57600.. from CBAUDEX + 1. *)
Index(i) == IF i <= 16 THEN i - 1 ELSE i
B4000000 == 31

\* Faulty variant: the rate itself in place of its index.
MutSpeedOf(rate) == rate

SpeedOf(rate) == Index(CHOOSE i \in 1..23 : baudrate_table[i] = rate)

(* mxsp_set_baudrate with a rate of the table. *)
SetBaudrate(c, rate) == [c EXCEPT !.speed = SpeedOf(rate)]

(* mxsp_get_baudrate: a rate of the table, or what the driver says. *)
GetBaudrate(c, special) ==
  IF \E i \in 1..23 : Index(i) = c.speed
  THEN baudrate_table[CHOOSE i \in 1..23 : Index(i) = c.speed] ELSE special

(* Any number but 5, 6 and 7 gives words of 8. *)
SizeOf(n) == CASE n = 5 -> CS5 [] n = 6 -> CS6 [] n = 7 -> CS7 [] OTHER -> CS8

\* Faulty variant: the bits of the old size are left on.
MutSetDatabits(c, n) == [c EXCEPT !.bits = @ \cup SizeOf(n)]

SetDatabits(c, n) == [c EXCEPT !.bits = (@ \ CSIZE) \cup SizeOf(n)]

GetDatabits(c) ==
  LET flag == c.bits \cap CSIZE
  IN  CASE flag = CS8 -> 8 [] flag = CS7 -> 7 [] flag = CS6 -> 6 [] flag = CS5 -> 5

(* Any number but 2 gives one stop bit: also 3, which is to ask for 1.5 of them
   (mserial_port_lx.c 176). *)
SetStopbits(c, n) ==
  [c EXCEPT !.bits = IF n = 2 THEN @ \cup {"CSTOPB"} ELSE @ \ {"CSTOPB"}]

(* What the flag says; mxsp_get_stopbits does not get to return it. *)
Stopbits(c) == IF "CSTOPB" \in c.bits THEN 2 ELSE 1

NONE == 0
ODD == 1
EVEN == 2
SPACE == 3
MARK == 4

(* mxsp_set_parity: any other number asks for no parity. *)
ParityBits(p) ==
  CASE p = ODD   -> {"PARENB", "PARODD"}
    [] p = EVEN  -> {"PARENB"}
    [] p = SPACE -> {"PARENB", "CMSPAR"}
    [] p = MARK  -> {"PARENB", "CMSPAR", "PARODD"}
    [] OTHER     -> {}

SetParity(c, p) == [c EXCEPT !.bits = (@ \ {"PARENB", "PARODD", "CMSPAR"}) \cup ParityBits(p)]

(* mxsp_get_parity *)
GetParity(c) ==
  CASE "PARENB" \notin c.bits -> NONE
    [] "PARENB" \in c.bits /\ "CMSPAR" \in c.bits -> IF "PARODD" \in c.bits THEN MARK ELSE SPACE
    [] "PARENB" \in c.bits /\ "CMSPAR" \notin c.bits -> IF "PARODD" \in c.bits THEN ODD ELSE EVEN

-------------------------------------------------------------------------------
(* The rates set_speed knows. *)
name_arr == {115200, 57600, 38400, 19200, 9600, 4800, 2400, 1200, 300}

(* set_Parity of SPofOpenFile.cpp, when its arguments are supported.  It knows
   nothing of CMSPAR and takes "S" for no parity. *)

Letters == {"N", "O", "E", "S"}

\* Faulty variant: even parity does not clear the bit of odd parity.
MutLetterBits(bits, p) ==
  CASE p = "O" -> bits \cup {"PARENB", "PARODD"}
    [] p = "E" -> bits \cup {"PARENB"}
    [] p \in {"N", "S"} -> bits \ {"PARENB"}

LetterBits(bits, p) ==
  CASE p = "O" -> bits \cup {"PARENB", "PARODD"}
    [] p = "E" -> (bits \cup {"PARENB"}) \ {"PARODD"}
    [] p \in {"N", "S"} -> bits \ {"PARENB"}

SetLine(c, size, stop, p) ==
  SetStopbits([c EXCEPT !.bits = LetterBits((@ \ CSIZE) \cup SizeOf(size), p)], stop)

LetterParity(p) == CASE p = "O" -> ODD [] p = "E" -> EVEN [] p \in {"N", "S"} -> NONE
===============================================================================
