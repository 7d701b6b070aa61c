SPECIFICATION BridgeFairSpec
CONSTANTS
  f1 = f1
  f2 = f2
  i1 = i1
  i2 = i2
  Fuzzers = {f1}
  Runs = 2
  MAX_TRIES = 0
  Conns <- MCConns
  Owner <- MCOwner
  Inputs = {i1}
  Patient = {}
  Corpus <- SameCorpus
  maxQueue = 1
  BodyChunks = 1
  FileMode = FALSE
  Absent = Absent
  Torn = Torn
  NoBody = NoBody
  Foreign = Foreign
  Old = {}
PROPERTIES
  RequestsEnd
  RunsEnd
\* Everything stops when every fuzzer has used up its runs.
CHECK_DEADLOCK FALSE
