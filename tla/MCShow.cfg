SPECIFICATION FairSpec
CONSTANTS
  whole = whole
  other = other
  short = short
  shorter = shorter
  absent = absent
  p1 = p1
  p2 = p2
  NBanks = 4
  Size = 2
  Cells <- MCCells
  Progs = {p1, p2}
  Files = {whole, other, short, shorter, absent}
  FileLen <- MCFileLen
  Playlist <- MCPlaylist
  Loops <- MCLoops
  Old = Old
  Garbage = Garbage
INVARIANTS SetterNeverTears ScreenExact
PROPERTIES ImplementsSlideShow RunsGoOn
