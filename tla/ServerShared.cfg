SPECIFICATION Spec
CONSTANTS
  Console = {c1}
  Browser = {b1}
  MaxFds = 2
  MaxMsgs <- OneTyped
  Lens <- OneLen
  Cleans <- AnyWire
  NoSock = NoSock
INVARIANTS TypeOK OneThreadPerSocket
PROPERTIES ImplementsStreamEcho
CHECK_DEADLOCK FALSE
