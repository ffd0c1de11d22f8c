SPECIFICATION FairSpec
CONSTANTS
  long = long
  shorter = shorter
  empty = empty
  Clients = {long, shorter, empty}
  Length <- MCLength
  Backlog = 2
  BufSize = 2
INVARIANTS  CopiedWhole NoDescriptorLeak
PROPERTY Served
