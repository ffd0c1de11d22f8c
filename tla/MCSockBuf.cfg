SPECIFICATION SockSpec
CONSTANTS
  b1 = b1
  b2 = b2
  Bufs = {b1, b2, st}
  Streams = {st}
  Reps = {r1, r2}
  BUFSIZ = 2
  MaxIn = 2
  MaxCalls = 6
SYMMETRY Symm
INVARIANTS NothingLost LinesGoOut SocketsLive ReadOnce EofTruthful
CHECK_DEADLOCK FALSE
