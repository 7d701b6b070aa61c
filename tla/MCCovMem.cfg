SPECIFICATION FairSpec
CONSTANTS
  BYTE = 4
  XorOf <- MCXor
  Ids = {2}
  Locations = 3
  Old = {}
  Threads = {1, 2}

PROPERTIES
  PromiseKept
  BranchesGrow
  Replied
