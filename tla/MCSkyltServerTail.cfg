SPECIFICATION Spec
CONSTANTS
  long = long
  shorter = shorter
  empty = empty
  Clients = {long, shorter}
  Length <- MCLength
  Backlog = 2
  BufSize = 2
INVARIANT DataCopied
