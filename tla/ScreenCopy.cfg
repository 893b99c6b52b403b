SPECIFICATION FairSpec
CONSTANTS
  c1 = c1 c2 = c2 t1 = t1 t2 = t2 b1 = b1 w1 = w1 w2 = w2 w3 = w3
  NoWin = NoWin Unset = Unset Blocks = {b1} Windows = {w1, w2, w3}
  Callers = {c1, c2} Threads = {t1, t2} Inputs = {w1} Outputs = {w3} MayFail = TRUE
INVARIANTS OneHandOver OwnArguments SourceFits
PROPERTIES CallsReturn Follows
CHECK_DEADLOCK FALSE
