SPECIFICATION FairSpec
CONSTANTS
  Modes = {"plain", "persistent", "dumb"}
  Runs = 4
  LastRuns = 3
  MaxCnt = 2
INVARIANTS
  ForkInv
  TraceQuiet
PROPERTIES
  RunPromise
  RunsEnd
\* Everything stops when afl-fuzz has.
CHECK_DEADLOCK FALSE
