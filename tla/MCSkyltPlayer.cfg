SPECIFICATION MCSpec
CONSTANTS
  f1 = f1
  f2 = f2
  f3 = f3
  Old = Old
  NBanks = 3
  Size = 2
  Cells <- MCCells
  Frames = {f1, f2, f3}
  Commands = {"mode", "sleep", "unknown"}
  Inputs <- MCInputs
  MaxForks = 3
INVARIANTS  NoneLeft 
PROPERTIES   Exits
CHECK_DEADLOCK FALSE
