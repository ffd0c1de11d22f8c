SPECIFICATION Spec
CONSTANTS
  p1 = p1
  p2 = p2
  own = own
  shared = shared
  Files = {own}
  Procs = {p1}
  Users <- MCUsers
  Minors = {0, 1}
  MemSize = 1
  DefAddr = 3
  DefPort = 7
  MemParams = {0}
  IoParams = {0, 5}
  Values = {0}
  Offsets = {}
  Counts = {}
  Bytes <- MCBytes
INVARIANT ActivePageSet
