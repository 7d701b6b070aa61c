SPECIFICATION FairSpec
CONSTANTS
  a = a
  b = b
  c = c
  d = d
  NoTrace = NoTrace
  MAP_SIZE = 2
  Inputs <- FourInputs
  Len_ <- Lengths
  Traces <- Steady
  Seeds <- TwoSeeds
  MaxQueue = 4
  MaxUs = 1
  CAL_CYCLES = 2
  CAL_CYCLES_LONG = 3
  CAL_CHANCES = 2
  ManyPaths = 1
  smart_mode = FALSE
  SkipFailing = TRUE
INVARIANTS SeenBitsRated SeenIsQueued
PROPERTY EveryEntryFuzzed
