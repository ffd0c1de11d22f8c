SPECIFICATION Spec
CONSTANTS
  p1 = p1
  p2 = p2
  own = own
  shared = shared
  Files = {own, shared}
  Procs = {p1, p2}
  Users <- MCUsers
  Minors = {0, 1}
  MemSize = 2
  DefAddr = 3
  DefPort = 7
  MemParams = {0, 4}
  IoParams = {0}
  Values = {0, 1}
  Offsets = {1, 2, 3}
  Counts = {1, 5}
  Bytes <- MCByte
INVARIANTS UseCountMatches 
 
