SPECIFICATION Spec
CONSTANTS
  Bauds <- MCBauds Paritys <- MCParitys Sizes <- MCSizes Stops <- MCStops Found <- MCFound
INVARIANTS StopbitsRead
CHECK_DEADLOCK FALSE
