SPECIFICATION Spec
CONSTANTS
  a = a
  b = b
  Finds = {a, b}
  Seeds <- TwoSeeds
  Kinds = {"crashes"}
  Bugs = {"bug"}
  MaxStarts = 3
  FreshStarts = 1
  PeerFiles = 2
  CrashAt <- MostSteps
INVARIANTS
  SessionInv
  NothingLost
  SamplesKept
  QueuedOnce
  MarkerHonest
\* afl-fuzz may be stopped for the last time.
CHECK_DEADLOCK FALSE
