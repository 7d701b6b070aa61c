SPECIFICATION Spec
CONSTANTS
  a = a
  b = b
  c = c
  d = d
  NoTrace = NoTrace
  MAP_SIZE = 3
  Inputs <- FourInputs
  Len_ <- Lengths
  Traces <- FlickeringThree
  Seeds <- OtherSeed
  MaxQueue = 3
  MaxUs = 1
  CAL_CYCLES = 2
  CAL_CYCLES_LONG = 3
  CAL_CHANCES = 2
  ManyPaths = 1
  smart_mode = FALSE
  SkipFailing = TRUE
INVARIANTS QueueInv RefsExact FavoredCover PendingFavoredExact
PROPERTY RatingNeverWorsens
