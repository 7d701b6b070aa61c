SPECIFICATION Spec
CONSTANTS
  BYTE = 4
  XorOf <- MCXor
  Ids = {2}
  Locations = 3
  Old = {0}
  Threads = {1, 2}
INVARIANTS
  SentIsEdges
