SPECIFICATION Spec
CONSTANTS
  b1 = b1 b2 = b2
  Clients = {b1, b2}
  MaxFds = 1
  MaxMsgs <- Msgs
  Lens <- OneLen
INVARIANTS TypeOK
PROPERTIES ImplementsStreamEcho Drained Taken
CHECK_DEADLOCK FALSE
