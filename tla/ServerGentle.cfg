SPECIFICATION FairGentleSpec
CONSTANTS
  Console = {c1}
  Browser = {b1}
  MaxFds = 3
  MaxMsgs <- ThreeEach
  Lens <- AllLens
  Cleans <- AnyWire
  NoSock = NoSock
INVARIANTS LinesPaired
PROPERTIES ImplementsEcho Answered
CHECK_DEADLOCK FALSE
