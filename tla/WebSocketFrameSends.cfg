SPECIFICATION CodecsSpec
CONSTANTS
  MaxLen = 65600 MaxResets = 1 ResetAt <- MCResetAt
  Bytes <- MCBytes Lengths <- MCLengths LowMod = 512 HighMod = 2 MaxGiven = 132
  SignChar = "$" Chars = {"a", "b"} MaxText = 7
  Keys = {"k"} ValueLens = {0, 1} Percents = {0, 1, 2} BufLens = {0, 1, 2, 4} MaxLines = 2
INVARIANTS SendsBelow64KInv
CHECK_DEADLOCK FALSE
