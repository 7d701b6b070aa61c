SPECIFICATION Spec
CONSTANTS
  a = a
  b = b
  Finds = {a, b}
  Seeds <- OneSeed
  Kinds = {"crashes"}
  Bugs = {"bug"}
  MaxStarts = 3
  FreshStarts = 1
  PeerFiles = 2
  CrashAt <- AllSteps
INVARIANT AbortedJobsResume
\* afl-fuzz may be stopped for the last time.
CHECK_DEADLOCK FALSE
