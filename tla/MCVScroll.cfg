SPECIFICATION FairSpec
CONSTANTS
  NBanks = 3
  Lines = 3
  Cells <- MCCells
  Line <- MCLine
  Pictures <- MCPictures
  Share = 5
  Elapsed = {0, 5}
  Wrap = 16
PROPERTIES ImplementsScroll ShowsNewPicture
