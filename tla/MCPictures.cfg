SPECIFICATION MCSpec
CONSTANTS
  Colours <- MCColours
  Sizes <- MCSizes
  Depths <- MCDepths
  MaxSize = 4
  MaxImages = 1
  COLS = 4
  ROWS = 2
  BYTE = 2
  NBanks = 2
  Cells <- MCCells
  Memory <- MCMemory
  Files <- MCFiles
INVARIANTS
  NeverConfused
  TableExact
  
  
  ShowsWindow
  Blind
