SPECIFICATION BridgeSpec
CONSTANTS
  f1 = f1
  f2 = f2
  i1 = i1
  i2 = i2
  Fuzzers = {f1}
  Runs = 2
  MAX_TRIES = 0
  Conns <- MCConns
  Owner <- MCOwner
  Inputs = {i1, i2}
  Patient = {}
  Corpus <- SameCorpus
  maxQueue = 1
  BodyChunks = 1
  FileMode = TRUE
  Absent = Absent
  Torn = Torn
  NoBody = NoBody
  Foreign = Foreign
  Old = {}
SYMMETRY Symmetry
INVARIANTS
  ServerInv
  VerdictSound
  CoverageSound
  NothingForgotten
  BridgeInv
  VerdictIsOwn
  TraceIsOwn
  MergedOnce
PROPERTIES
  Spec
  PostedOnce
\* Everything stops when every fuzzer has used up its runs.
CHECK_DEADLOCK FALSE
