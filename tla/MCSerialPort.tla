----------------------------- MODULE MCSerialPort -----------------------------
(* SerialPort with a rate below and one above B38400 and one no table has,    *)
(* every parity and one number more, and six sets of bits to start from.      *)
EXTENDS SerialPort

MCBauds == {9600, 115200, 250000}
MCParitys == {NONE, ODD, EVEN, SPACE, MARK, 5}
MCSizes == {5, 7}
MCFound ==
  {{}, Bits, CS8 \cup {"CREAD"}, {"CS7", "PARENB", "PARODD", "CLOCAL"},
   {"CS6", "CSTOPB", "PARENB", "CMSPAR", "CREAD"}, {"PARODD", "CMSPAR", "CSTOPB"}}
MCStops == {1, 2, 3}
===============================================================================
