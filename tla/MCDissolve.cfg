SPECIFICATION FairSpec
CONSTANTS
  NBanks = 3
  N = 4
  Width = 2
  Cells <- MCCells
  Pictures <- MCPictures
PROPERTIES LastSwitchInvisible NoFlicker ImplementsDissolve Terminates
