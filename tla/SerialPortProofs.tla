--------------------------- MODULE SerialPortProofs ---------------------------
(***************************************************************************)
(* Proofs about the settings of a serial port: each setting function can   *)
(* be read back and leaves the other settings alone, for every c_cflag the *)
(* port is found with, and so left_SP_ioctl, mxsp_open, set_Parity and     *)
(* ComInit leave the port as they promise wherever they fail.              *)
(***************************************************************************)
EXTENDS SerialPort, TLAPS

LEMMA TableDistinct ==
  ASSUME NEW i \in 1..23, NEW j \in 1..23
  PROVE  /\ baudrate_table[i] = baudrate_table[j] => i = j
         /\ Index(i) = Index(j) => i = j
         /\ Index(i) \in 0..31
BY DEF baudrate_table, Index

LEMMA SpeedOfType == ASSUME NEW r \in Rates PROVE SpeedOf(r) \in 0..31
BY TableDistinct DEF Rates, SpeedOf

(* A rate of the table is read back. *)
LEMMA BaudrateReadBack ==
  ASSUME NEW c, NEW r \in Rates, NEW s, c.speed = SpeedOf(r)
  PROVE  GetBaudrate(c, s) = r
<1>1. PICK i \in 1..23 : baudrate_table[i] = r
  BY DEF Rates
<1>2. SpeedOf(r) = Index(i)
  BY <1>1, TableDistinct DEF SpeedOf
<1>3. \E k \in 1..23 : Index(k) = c.speed
  BY <1>2
<1>4. (CHOOSE k \in 1..23 : Index(k) = c.speed) = i
  BY <1>2, TableDistinct
<1> QED BY <1>1, <1>3, <1>4 DEF GetBaudrate

(* A port the driver has marked has its special rate. *)
LEMMA NoRateMarked ==
  ASSUME NEW c, NEW s, c.speed = B4000000 PROVE GetBaudrate(c, s) = s
<1>1. \A i \in 1..23 : Index(i) # B4000000
  BY DEF Index, B4000000
<1> QED BY <1>1 DEF GetBaudrate

(* The readers look at their own bits only. *)
LEMMA ReadersLocal ==
  ASSUME NEW c, NEW d
  PROVE  /\ c.speed = d.speed => \A s : GetBaudrate(c, s) = GetBaudrate(d, s)
         /\ c.bits \cap {"PARENB", "PARODD", "CMSPAR"} = d.bits \cap {"PARENB", "PARODD", "CMSPAR"}
              => GetParity(c) = GetParity(d)
         /\ c.bits \cap CSIZE = d.bits \cap CSIZE => GetDatabits(c) = GetDatabits(d)
         /\ c.bits \cap {"CSTOPB"} = d.bits \cap {"CSTOPB"} => Stopbits(c) = Stopbits(d)
<1>1. c.speed = d.speed => \A s : GetBaudrate(c, s) = GetBaudrate(d, s)
  BY DEF GetBaudrate
<1>2. ASSUME c.bits \cap {"PARENB", "PARODD", "CMSPAR"} = d.bits \cap {"PARENB", "PARODD", "CMSPAR"}
      PROVE  GetParity(c) = GetParity(d)
  <2>1. /\ "PARENB" \in c.bits <=> "PARENB" \in d.bits
        /\ "PARODD" \in c.bits <=> "PARODD" \in d.bits
        /\ "CMSPAR" \in c.bits <=> "CMSPAR" \in d.bits
    BY <1>2
  <2> QED BY <2>1 DEF GetParity
<1>3. c.bits \cap CSIZE = d.bits \cap CSIZE => GetDatabits(c) = GetDatabits(d)
  BY DEF GetDatabits
<1>4. c.bits \cap {"CSTOPB"} = d.bits \cap {"CSTOPB"} => Stopbits(c) = Stopbits(d)
  BY DEF Stopbits
<1> QED BY <1>1, <1>2, <1>3, <1>4

(* Setting the rate leaves every other bit alone and is read back. *)
LEMMA SetBaudrateDoes ==
  ASSUME NEW c \in Cflag, NEW r \in Rates
  PROVE  /\ SetBaudrate(c, r) \in Cflag
         /\ SetBaudrate(c, r).bits = c.bits
         /\ \A s : GetBaudrate(SetBaudrate(c, r), s) = r
BY SpeedOfType, BaudrateReadBack DEF SetBaudrate, Cflag

(* Setting the parity is read back and changes the three parity bits only. *)
LEMMA SetParityDoes ==
  ASSUME NEW c \in Cflag, NEW p \in Int
  PROVE  LET d == SetParity(c, p)
         IN  /\ d \in Cflag /\ d.speed = c.speed
             /\ d.bits \ {"PARENB", "PARODD", "CMSPAR"} = c.bits \ {"PARENB", "PARODD", "CMSPAR"}
             /\ GetParity(d) = IF p \in 1..4 THEN p ELSE NONE
<1> DEFINE d == SetParity(c, p)
<1>1. d = [speed |-> c.speed, bits |-> (c.bits \ {"PARENB", "PARODD", "CMSPAR"}) \cup ParityBits(p)]
  BY DEF SetParity, Cflag
<1>2. ParityBits(p) \in SUBSET {"PARENB", "PARODD", "CMSPAR"}
  BY DEF ParityBits
<1>3. d \in Cflag
  BY <1>1, <1>2 DEF Cflag, Bits
<1>4. d.bits \ {"PARENB", "PARODD", "CMSPAR"} = c.bits \ {"PARENB", "PARODD", "CMSPAR"}
  BY <1>1, <1>2
<1>5. GetParity(d) = IF p \in 1..4 THEN p ELSE NONE
  <2>1. /\ "PARENB" \in d.bits <=> p \in 1..4
        /\ "PARODD" \in d.bits <=> p \in {1, 4}
        /\ "CMSPAR" \in d.bits <=> p \in {3, 4}
    BY <1>1 DEF ParityBits, ODD, EVEN, SPACE, MARK
  <2> QED BY <2>1 DEF GetParity, NONE, ODD, EVEN, SPACE, MARK
<1> QED BY <1>1, <1>3, <1>4, <1>5

(* The size of a word is read back by the bits that stand for it. *)
LEMMA SizeRead ==
  ASSUME NEW c, NEW n, c.bits \cap CSIZE = SizeOf(n)
  PROVE  GetDatabits(c) = IF n \in 5..7 THEN n ELSE 8
<1>1. CS8 # CS7 /\ CS8 # CS6 /\ CS8 # CS5 /\ CS7 # CS6 /\ CS7 # CS5 /\ CS6 # CS5
  <2>1. "CS6" \in CS8 /\ "CS7" \in CS8 /\ "CS6" \notin CS7 /\ "CS7" \in CS7
        /\ "CS6" \in CS6 /\ "CS7" \notin CS6 /\ "CS6" \notin CS5 /\ "CS7" \notin CS5
    BY DEF CS5, CS6, CS7, CS8, CSIZE
  <2> QED BY <2>1
<1>2. SizeOf(n) = IF n = 5 THEN CS5 ELSE IF n = 6 THEN CS6 ELSE IF n = 7 THEN CS7 ELSE CS8
  BY DEF SizeOf
<1>3. GetDatabits(c) = IF n = 5 THEN 5 ELSE IF n = 6 THEN 6 ELSE IF n = 7 THEN 7 ELSE 8
  BY <1>1, <1>2 DEF GetDatabits
<1> QED BY <1>3

LEMMA SetDatabitsDoes ==
  ASSUME NEW c \in Cflag, NEW n
  PROVE  LET d == SetDatabits(c, n)
         IN  /\ d \in Cflag /\ d.speed = c.speed
             /\ d.bits \ CSIZE = c.bits \ CSIZE
             /\ GetDatabits(d) = IF n \in 5..7 THEN n ELSE 8
<1> DEFINE d == SetDatabits(c, n)
<1>1. d = [speed |-> c.speed, bits |-> (c.bits \ CSIZE) \cup SizeOf(n)]
  BY DEF SetDatabits, Cflag
<1>2. SizeOf(n) \in SUBSET CSIZE
  BY DEF SizeOf, CS5, CS6, CS7, CS8, CSIZE
<1>3. d \in Cflag /\ d.bits \ CSIZE = c.bits \ CSIZE /\ d.bits \cap CSIZE = SizeOf(n)
  BY <1>1, <1>2 DEF Cflag, Bits
<1> QED BY <1>1, <1>3, SizeRead

LEMMA SetStopbitsDoes ==
  ASSUME NEW c \in Cflag, NEW n
  PROVE  LET d == SetStopbits(c, n)
         IN  /\ d \in Cflag /\ d.speed = c.speed
             /\ d.bits \ {"CSTOPB"} = c.bits \ {"CSTOPB"}
             /\ Stopbits(d) = IF n = 2 THEN 2 ELSE 1
BY DEF SetStopbits, Stopbits, Cflag, Bits

(* set_Parity sets parity, size and stop bits and nothing else. *)
LEMMA SetLineDoes ==
  ASSUME NEW c \in Cflag, NEW size \in {7, 8}, NEW stop \in {1, 2}, NEW p \in Letters
  PROVE  LET d == SetLine(c, size, stop, p)
         IN  /\ d \in Cflag /\ d.speed = c.speed
             /\ d.bits \cap {"CLOCAL", "CREAD"} = c.bits \cap {"CLOCAL", "CREAD"}
             /\ GetDatabits(d) = size /\ Stopbits(d) = stop
             /\ ("CMSPAR" \notin c.bits \/ p \in {"N", "S"}) => GetParity(d) = LetterParity(p)
<1> DEFINE b == (c.bits \ CSIZE) \cup SizeOf(size)
           l == LetterBits(b, p)
           m == [c EXCEPT !.bits = l]
           d == SetStopbits(m, stop)
<1>1. SizeOf(size) \in SUBSET CSIZE
  BY DEF SizeOf, CS5, CS6, CS7, CS8, CSIZE
<1>2. /\ l \in SUBSET Bits
      /\ l \cap CSIZE = SizeOf(size)
      /\ l \cap {"CLOCAL", "CREAD"} = c.bits \cap {"CLOCAL", "CREAD"}
      /\ "CMSPAR" \in l <=> "CMSPAR" \in c.bits
      /\ "PARENB" \in l <=> p \in {"O", "E"}
      /\ p = "O" => "PARODD" \in l
      /\ p = "E" => "PARODD" \notin l
  BY <1>1 DEF LetterBits, Letters, Cflag, Bits, CSIZE
<1>3. m \in Cflag /\ m.bits = l /\ m.speed = c.speed
  BY <1>2 DEF Cflag
<1> HIDE DEF b, l, m
<1>4. d \in Cflag /\ d.speed = m.speed /\ d.bits \ {"CSTOPB"} = l \ {"CSTOPB"} /\ Stopbits(d) = stop
  BY <1>3, SetStopbitsDoes
<1> HIDE DEF d
<1>5. d.bits \cap CSIZE = SizeOf(size) /\ d.bits \cap {"CLOCAL", "CREAD"} = l \cap {"CLOCAL", "CREAD"}
  BY <1>2, <1>4 DEF CSIZE
<1>6. GetDatabits(d) = size
  BY <1>5, SizeRead
<1>7. /\ "CMSPAR" \in d.bits <=> "CMSPAR" \in l
      /\ "PARENB" \in d.bits <=> "PARENB" \in l
      /\ "PARODD" \in d.bits <=> "PARODD" \in l
  BY <1>4
<1>8. ("CMSPAR" \notin c.bits \/ p \in {"N", "S"}) => GetParity(d) = LetterParity(p)
  BY <1>2, <1>7 DEF GetParity, LetterParity, Letters
<1>9. SetLine(c, size, stop, p) = d
  BY DEF SetLine, d, m, l, b
<1> QED BY <1>2, <1>3, <1>4, <1>5, <1>6, <1>8, <1>9

-------------------------------------------------------------------------------
(* While a call is under way nothing is said of the one before. *)
Quiet == call \in {"open", "ioctl", "com_speed", "com_parity"} => ended = "none"

(* A left_SP_ioctl that has set nothing yet has changed nothing. *)
Begun == call = "ioctl" /\ done = 0 => cflag = base

IInv == TypeOK /\ Quiet /\ Begun /\ PrefixApplied /\ OpenDefaults /\ LineApplied /\ ComReads

LEMMA DefaultIs ==
  /\ Default \in Cflag
  /\ \A s : GetBaudrate(Default, s) = 9600
  /\ GetParity(Default) = NONE /\ GetDatabits(Default) = 8 /\ Stopbits(Default) = 1
<1>1. 9600 \in Rates
  BY DEF Rates, baudrate_table
<1>2. Default.speed = SpeedOf(9600) /\ SpeedOf(9600) \in 0..31
  BY <1>1, SpeedOfType DEF Default
<1>3. Default.bits = CS8 \cup {"CLOCAL", "CREAD"} /\ Default \in Cflag
  BY <1>2 DEF Default, Cflag, Bits, CS8, CSIZE
<1>4. Default.bits \cap CSIZE = SizeOf(8)
  BY <1>3 DEF SizeOf, CS8, CSIZE
<1>5. GetDatabits(Default) = 8
  BY <1>4, SizeRead
<1>6. GetParity(Default) = NONE /\ Stopbits(Default) = 1
  BY <1>3 DEF GetParity, Stopbits, CS8, CSIZE
<1> QED BY <1>1, <1>2, <1>3, <1>5, <1>6, BaudrateReadBack

(* What left_SP_ioctl is called with. *)
LEMMA ArgumentsAre == ASSUME NEW a \in Arguments PROVE a.parity \in Int /\ a.baud \in Bauds
<1>1. a.parity \in Paritys /\ a.baud \in Bauds
  BY DEF Arguments
<1>2. Paritys \subseteq Int
  BY SerialPortAssumption
<1> QED BY <1>1, <1>2

(* The parity that is set is the one asked for. *)
LEMMA AskedParitySet ==
  ASSUME cflag \in Cflag, args.parity \in Int, cflag' = SetParity(cflag, args.parity)
  PROVE  /\ cflag' \in Cflag /\ cflag'.speed = cflag.speed /\ GetParity(cflag') = AskedParity
         /\ cflag'.bits \ {"PARENB", "PARODD", "CMSPAR"} = cflag.bits \ {"PARENB", "PARODD", "CMSPAR"}
<1> DEFINE p == args.parity
<1>1. p \in Int /\ cflag' = SetParity(cflag, p) /\ AskedParity = IF p \in 1..4 THEN p ELSE NONE
  BY DEF AskedParity
<1> HIDE DEF p
<1> QED BY <1>1, SetParityDoes

(* Each of the four settings of left_SP_ioctl. *)
LEMMA SettingsStep == ASSUME IInv, IoctlStep PROVE IInv'
<1> USE SerialPortAssumption DEF IInv, TypeOK, Quiet, Begun, OpenDefaults, LineApplied, ComReads
<1>1. call = "ioctl" /\ ended = "none" /\ cflag \in Cflag /\ args \in Arguments /\ done \in 0..3
  BY DEF IoctlStep, IoctlBaud, IoctlParity, IoctlSize, IoctlStop, IoctlFails, Setting
<1>2. args.parity \in Int /\ args.baud \in Bauds
  BY <1>1, ArgumentsAre
<1>3. CASE IoctlBaud
  <2>1. /\ done = 0 /\ done' = 1 /\ call' = "ioctl" /\ ended' = "none" /\ ret' = ret
        /\ args' = args /\ base' = base
    BY <1>3 DEF IoctlBaud, Setting
  <2>2. CASE args.baud \in Rates /\ cflag' = SetBaudrate(cflag, args.baud) /\ special' = special
    <3>1. /\ cflag' \in Cflag /\ cflag'.bits = cflag.bits
          /\ GetBaudrate(cflag', special') = args.baud
      BY <2>2, SetBaudrateDoes
    <3>2. /\ GetParity(cflag') = GetParity(cflag) /\ GetDatabits(cflag') = GetDatabits(cflag)
          /\ Stopbits(cflag') = Stopbits(cflag)
      BY <3>1, ReadersLocal
    <3>3. RateRead'
      BY <2>1, <2>2, <3>1 DEF RateRead
    <3> QED BY <1>1, <2>1, <2>2, <3>1, <3>2, <3>3 DEF PrefixApplied, LineKept
  <2>3. CASE /\ args.baud \notin Rates /\ special' = args.baud
             /\ cflag' \in {cflag, [cflag EXCEPT !.speed = B4000000]}
    <3>1. cflag' \in Cflag /\ cflag'.bits = cflag.bits
      BY <1>1, <2>3 DEF Cflag, B4000000
    <3>2. /\ GetParity(cflag') = GetParity(cflag) /\ GetDatabits(cflag') = GetDatabits(cflag)
          /\ Stopbits(cflag') = Stopbits(cflag)
      BY <3>1, ReadersLocal
    <3>3. ASSUME cflag' = cflag PROVE RateRead'
      <4>1. cflag = base
        BY <1>1, <2>1
      <4>2. GetBaudrate(cflag', special') = GetBaudrate(base, args.baud)
        BY <2>3, <3>3, <4>1
      <4> QED BY <2>1, <2>3, <4>2 DEF RateRead
    <3>4. ASSUME cflag' # cflag PROVE RateRead'
      <4>1. cflag'.speed = B4000000
        BY <1>1, <2>3, <3>4 DEF Cflag
      <4>2. GetBaudrate(cflag', special') = special'
        BY <4>1, NoRateMarked
      <4> QED BY <2>1, <2>3, <4>2 DEF RateRead
    <3>5. RateRead'
      BY <3>3, <3>4
    <3> QED BY <1>1, <1>2, <2>1, <2>3, <3>1, <3>2, <3>5 DEF PrefixApplied, LineKept
  <2> QED BY <1>3, <2>2, <2>3 DEF IoctlBaud, Setting
<1>4. CASE IoctlParity
  <2>1. /\ done = 1 /\ done' = 2 /\ call' = "ioctl" /\ ended' = "none" /\ ret' = ret
        /\ args' = args /\ base' = base /\ special' = special
        /\ cflag' = SetParity(cflag, args.parity)
    BY <1>4 DEF IoctlParity, Setting
  <2>2. /\ cflag' \in Cflag /\ cflag'.speed = cflag.speed /\ GetParity(cflag') = AskedParity
        /\ cflag'.bits \ {"PARENB", "PARODD", "CMSPAR"} = cflag.bits \ {"PARENB", "PARODD", "CMSPAR"}
    BY <1>1, <1>2, <2>1, AskedParitySet
  <2>3. /\ cflag'.bits \cap CSIZE = cflag.bits \cap CSIZE
        /\ cflag'.bits \cap {"CSTOPB"} = cflag.bits \cap {"CSTOPB"}
        /\ cflag'.bits \cap {"CLOCAL", "CREAD"} = cflag.bits \cap {"CLOCAL", "CREAD"}
    BY <2>2 DEF CSIZE
  <2>4. /\ GetDatabits(cflag') = GetDatabits(cflag) /\ Stopbits(cflag') = Stopbits(cflag)
        /\ GetBaudrate(cflag', special') = GetBaudrate(cflag, special)
    BY <2>1, <2>2, <2>3, ReadersLocal
  <2>5. AskedParity' = AskedParity /\ RateRead'
    BY <1>1, <2>1, <2>4 DEF AskedParity, PrefixApplied, RateRead
  <2> QED BY <1>1, <2>1, <2>2, <2>3, <2>4, <2>5 DEF PrefixApplied, LineKept
<1>5. CASE IoctlSize
  <2>1. /\ done = 2 /\ done' = 3 /\ call' = "ioctl" /\ ended' = "none" /\ ret' = ret
        /\ args' = args /\ base' = base /\ special' = special
        /\ cflag' = SetDatabits(cflag, args.size)
    BY <1>5 DEF IoctlSize, Setting
  <2>2. /\ cflag' \in Cflag /\ cflag'.speed = cflag.speed /\ (args.size \in 5..8 => GetDatabits(cflag') = args.size)
        /\ cflag'.bits \ CSIZE = cflag.bits \ CSIZE
    BY <1>1, <2>1, SetDatabitsDoes
  <2>3. /\ cflag'.bits \cap {"PARENB", "PARODD", "CMSPAR"} = cflag.bits \cap {"PARENB", "PARODD", "CMSPAR"}
        /\ cflag'.bits \cap {"CSTOPB"} = cflag.bits \cap {"CSTOPB"}
        /\ cflag'.bits \cap {"CLOCAL", "CREAD"} = cflag.bits \cap {"CLOCAL", "CREAD"}
    BY <2>2 DEF CSIZE
  <2>4. /\ GetParity(cflag') = GetParity(cflag) /\ Stopbits(cflag') = Stopbits(cflag)
        /\ GetBaudrate(cflag', special') = GetBaudrate(cflag, special)
    BY <2>1, <2>2, <2>3, ReadersLocal
  <2>5. AskedParity' = AskedParity /\ RateRead'
    BY <1>1, <2>1, <2>4 DEF AskedParity, PrefixApplied, RateRead
  <2> QED BY <1>1, <2>1, <2>2, <2>3, <2>4, <2>5 DEF PrefixApplied, LineKept
<1>6. CASE IoctlStop
  <2>1. /\ done = 3 /\ done' = 4 /\ call' = "none" /\ ended' = "ioctl" /\ ret' = 0
        /\ args' = args /\ base' = base /\ special' = special
        /\ cflag' = SetStopbits(cflag, args.stop)
    BY <1>6 DEF IoctlStop, Setting, Return
  <2>2. /\ cflag' \in Cflag /\ cflag'.speed = cflag.speed /\ (args.stop \in {1, 2} => Stopbits(cflag') = args.stop)
        /\ cflag'.bits \ {"CSTOPB"} = cflag.bits \ {"CSTOPB"}
    BY <1>1, <2>1, SetStopbitsDoes
  <2>3. /\ cflag'.bits \cap {"PARENB", "PARODD", "CMSPAR"} = cflag.bits \cap {"PARENB", "PARODD", "CMSPAR"}
        /\ cflag'.bits \cap CSIZE = cflag.bits \cap CSIZE
        /\ cflag'.bits \cap {"CLOCAL", "CREAD"} = cflag.bits \cap {"CLOCAL", "CREAD"}
    BY <2>2 DEF CSIZE
  <2>4. /\ GetParity(cflag') = GetParity(cflag) /\ GetDatabits(cflag') = GetDatabits(cflag)
        /\ GetBaudrate(cflag', special') = GetBaudrate(cflag, special)
    BY <2>1, <2>2, <2>3, ReadersLocal
  <2>5. AskedParity' = AskedParity /\ RateRead'
    BY <1>1, <2>1, <2>4 DEF AskedParity, PrefixApplied, RateRead
  <2> QED BY <1>1, <2>1, <2>2, <2>3, <2>4, <2>5 DEF PrefixApplied, LineKept
<1>7. CASE IoctlFails
  <2>1. /\ done' = done /\ call' = "none" /\ ended' = "ioctl" /\ ret' = -1
        /\ args' = args /\ base' = base /\ special' = special /\ cflag' = cflag
    BY <1>7 DEF IoctlFails, Return
  <2>2. AskedParity' = AskedParity /\ RateRead'
    BY <1>1, <2>1 DEF AskedParity, PrefixApplied, RateRead
  <2> QED BY <1>1, <2>1, <2>2 DEF PrefixApplied, LineKept
<1> QED BY <1>3, <1>4, <1>5, <1>6, <1>7 DEF IoctlStep

(* set_speed keeps every flag a flag. *)
LEMMA SetSpeedType == ASSUME TypeOK, NEW r, SetSpeed(r) PROVE cflag' \in Cflag
<1>1. name_arr \subseteq Rates
  BY DEF name_arr, Rates, baudrate_table
<1>2. CASE cflag' = cflag
  BY <1>2 DEF TypeOK
<1>3. CASE r \in name_arr /\ cflag' = SetBaudrate(cflag, r)
  BY <1>1, <1>3, SetBaudrateDoes DEF TypeOK
<1>4. CASE r \in name_arr /\ \E b \in Found : cflag' = [speed |-> SpeedOf(r), bits |-> b]
  BY <1>1, <1>4, SpeedOfType, SerialPortAssumption DEF Cflag
<1> QED BY <1>2, <1>3, <1>4 DEF SetSpeed

LEMMA SetLineStep ==
  ASSUME TypeOK, NEW size \in Int, NEW stop \in Int, NEW p \in Letters, SetLineOf(size, stop, p)
  PROVE  /\ cflag' \in Cflag /\ base' \in Cflag /\ ended' = "parity" /\ ret' \in {0, -1}
         /\ LineApplied'
         /\ ret' = 0 => /\ GetDatabits(cflag') = size /\ Stopbits(cflag') = stop
                        /\ p = "N" => GetParity(cflag') = NONE
<1>1. /\ ended' = "parity" /\ base' = cflag /\ cflag \in Cflag
      /\ args' = [baud |-> 0, parity |-> p, size |-> size, stop |-> stop]
  BY DEF SetLineOf, TypeOK
<1>2. CASE Supported(size, stop) /\ cflag' = SetLine(cflag, size, stop, p) /\ ret' = 0
  <2>1. /\ cflag' \in Cflag /\ cflag'.speed = cflag.speed
        /\ cflag'.bits \cap {"CLOCAL", "CREAD"} = cflag.bits \cap {"CLOCAL", "CREAD"}
        /\ GetDatabits(cflag') = size /\ Stopbits(cflag') = stop
        /\ ("CMSPAR" \notin cflag.bits \/ p \in {"N", "S"}) => GetParity(cflag') = LetterParity(p)
    BY SMTT(30), <1>1, <1>2, SetLineDoes DEF Supported
  <2>2. p = "N" => LetterParity(p) = NONE
    BY DEF LetterParity
  <2> QED BY <1>1, <1>2, <2>1, <2>2 DEF LineApplied, LineKept
<1>3. CASE cflag' = cflag /\ ret' = -1
  BY <1>1, <1>3 DEF LineApplied
<1> QED BY <1>2, <1>3 DEF SetLineOf

LEMMA Step == ASSUME IInv, [Next]_vars PROVE IInv'
<1> USE SerialPortAssumption
<1> USE DEF IInv, TypeOK, Quiet, Begun
<1>1. CASE Open
  BY <1>1 DEF Open, Forget, PrefixApplied, OpenDefaults, LineApplied, ComReads
<1>2. CASE OpenSets
  <2>1. cflag' \in Cflag
    BY <1>2, DefaultIs DEF OpenSets
  <2>2. ended' = "open" /\ call' = "none" /\ UNCHANGED <<special, done, args, base>> /\ ret' \in {0, -1}
    BY <1>2 DEF OpenSets, Return
  <2>3. ret' = 0 => cflag' = Default
    BY <1>2 DEF OpenSets, Return
  <2> QED BY <2>1, <2>2, <2>3, DefaultIs DEF PrefixApplied, OpenDefaults, LineApplied, ComReads
<1>3. ASSUME NEW a \in Arguments, Ioctl(a) PROVE IInv'
  BY <1>3 DEF Ioctl, PrefixApplied, RateRead, OpenDefaults, LineApplied, ComReads, LineKept
<1>4. CASE IoctlStep
  BY <1>4, SettingsStep
<1>5. ASSUME NEW r \in Bauds, set_speed(r) PROVE IInv'
  <2>1. cflag' \in Cflag
    BY <1>5, SetSpeedType DEF set_speed
  <2> QED BY <1>5, <2>1 DEF set_speed, Forget, PrefixApplied, OpenDefaults, LineApplied, ComReads
<1>6. ASSUME NEW size \in Sizes, NEW stop \in Stops, NEW p \in Letters, set_Parity(size, stop, p)
      PROVE  IInv'
  <2>1. SetLineOf(size, stop, p) /\ UNCHANGED <<special, call>> /\ call = "none"
    BY <1>6 DEF set_Parity
  <2>2. /\ cflag' \in Cflag /\ base' \in Cflag /\ ended' = "parity" /\ ret' \in {0, -1}
        /\ LineApplied' /\ done' = 0
    BY <2>1, SetLineStep DEF SetLineOf
  <2> QED BY <2>1, <2>2 DEF PrefixApplied, OpenDefaults, ComReads
<1>7. CASE ComInit
  BY <1>7 DEF ComInit, Forget, PrefixApplied, OpenDefaults, LineApplied, ComReads
<1>8. ASSUME NEW r \in Bauds, ComSpeed(r) PROVE IInv'
  <2>1. cflag' \in Cflag
    BY <1>8, SetSpeedType DEF ComSpeed
  <2> QED BY <1>8, <2>1 DEF ComSpeed, Forget, PrefixApplied, OpenDefaults, LineApplied, ComReads
<1>9. CASE ComParity
  <2>1. SetLineOf(8, 1, "N") /\ special' = special /\ call' \in {"reading", "exited"}
        /\ (call' = "reading" => ret' = 0)
    BY <1>9 DEF ComParity
  <2>2. "N" \in Letters
    BY DEF Letters
  <2>3. /\ cflag' \in Cflag /\ base' \in Cflag /\ ended' = "parity" /\ ret' \in {0, -1}
        /\ LineApplied' /\ done' = 0
        /\ ret' = 0 => GetDatabits(cflag') = 8 /\ Stopbits(cflag') = 1 /\ GetParity(cflag') = NONE
    BY <2>1, <2>2, SetLineStep DEF SetLineOf
  <2> QED BY <2>1, <2>3 DEF PrefixApplied, OpenDefaults, ComReads
<1>10. CASE GetStopbits
  BY <1>10 DEF GetStopbits, PrefixApplied, OpenDefaults, LineApplied, ComReads
<1>11. CASE UNCHANGED vars
  BY <1>11 DEF vars, PrefixApplied, OpenDefaults, LineApplied, ComReads, LineKept, AskedParity,
               RateRead
<1> QED BY <1>1, <1>2, <1>3, <1>4, <1>5, <1>6, <1>7, <1>8, <1>9, <1>10, <1>11 DEF Next, Com

(* Types, settings made so far and defaults: in every reachable state. *)
THEOREM Invariant == Spec => []IInv
<1>1. Init => IInv
  <2> SUFFICES ASSUME Init PROVE IInv
    OBVIOUS
  <2>1. cflag \in Cflag
    BY SpeedOfType, SerialPortAssumption DEF Init, Cflag
  <2> QED BY <2>1 DEF Init, IInv, TypeOK, Quiet, Begun, PrefixApplied, OpenDefaults, LineApplied, ComReads
<1>2. IInv /\ [Next]_vars => IInv'
  BY Step
<1> QED BY <1>1, <1>2, PTL DEF Spec

(* Every variable keeps its type. *)
THEOREM Typed == Spec => []TypeOK
BY Invariant, PTL DEF IInv

(* left_SP_ioctl (MoxaSerialPort_Linux.cpp 7-13) stopped anywhere: for every
   rate and parity, and the words and stop bits PrefixApplied speaks of. *)
THEOREM SettingsApplied == Spec => []PrefixApplied
BY Invariant, PTL DEF IInv

(* mxsp_open's defaults but flow control (mserial_port_lx.c 312-326), and
   ComInit's line before it reads (SPofOpenFile.cpp 139-190). *)
THEOREM PortsHandedOver == Spec => []HandedOver8N1
<1>1. IInv => HandedOver8N1
  BY DEF IInv, HandedOver8N1
<1> QED BY <1>1, Invariant, PTL

(* set_Parity (SPofOpenFile.cpp 65-137). *)
THEOREM LineSet == Spec => []LineApplied
BY Invariant, PTL DEF IInv
===============================================================================
