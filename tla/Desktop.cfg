SPECIFICATION DesktopSpec
CONSTANTS
  Screen <- MCScreen Widths = {2} MinWidth = 1 MaxWidth = 3 Border = 1 MaxNudges = 1
  Windows = {"w1", "w2", "w3"} ClassOf <- MCClassOf NoWin = NoWin Unset = Unset
  Names = {"a", "b", "c"} Taken = {"c"} NoName = NoName MaxWins = 3 MaxObjects = 2
INVARIANTS DragFollows ListWhole ClassKept
PROPERTIES Settles Reports
CHECK_DEADLOCK FALSE
