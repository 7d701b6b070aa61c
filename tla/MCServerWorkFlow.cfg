SPECIFICATION FairSpec
CONSTANTS
  f1 = f1
  Conns = {c1, c2}
  Fuzzers = {f1}
  Owner <- OneOwner
  Inputs = {i1}
  maxQueue = 1
  BodyChunks = 1
  FileMode = TRUE
  Absent = Absent
  Torn = Torn
  NoBody = NoBody
  Foreign = Foreign
  Old = {Foreign}
PROPERTIES
  WorkFlowCompletes
\* Both threads may stop for good: the server exits, the handler dies, or all
\* connections of the instance are used up.
CHECK_DEADLOCK FALSE
