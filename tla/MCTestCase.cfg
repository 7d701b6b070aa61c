SPECIFICATION MCSpec
CONSTANTS
  W = 4
  XorOf <- MCXor
  Lower <- MCLower
  interesting_8 <- Int8s
  interesting_16 <- Int16s
  interesting_32 <- Int32s
  ARITH_MAX = 3
  EFF_MAP_SCALE2 = 0
  EFF_MIN_LEN = 3
  EFF_MAX_PERC = 90
  MIN_AUTO_EXTRA = 2
  MAX_AUTO_EXTRA = 3
  USE_AUTO_EXTRAS = 1
  MAX_AUTO_EXTRAS = 2
  MAX_DET_EXTRAS = 3
  HAVOC_CYCLES_INIT = 2
  HAVOC_CYCLES = 1
  SPLICE_HAVOC = 1
  HAVOC_MIN = 1
  HAVOC_MAX_MULT = 2
  HAVOC_STACK_POW2 = 1
  HAVOC_BLK_SMALL = 1
  HAVOC_BLK_MEDIUM = 2
  HAVOC_BLK_LARGE = 3
  HAVOC_BLK_XL = 3
  SPLICE_CYCLES = 2
  MAX_FILE = 8
  avg_exec_us = 100
  avg_bitmap_size = 100
  havoc_div = 2
  Entries <- MCEntries
  Others <- MCOthers
  Cases <- MCCases
  Result <- MCResult
  Chars = {0, 1, 2}
  Zero = 1
  TMIN_SET_STEPS = 3
  TMIN_SET_MIN_SIZE = 2
  TRIM_START_STEPS = 2
  Files <- MCFiles
  Outcome <- MCReading
  LONG_BLOCK = 6
INVARIANTS Reproduces NoByteSpare FuzzInv NothingSkipped TokensAreRuns AutoInv
  AnalysisRight
PROPERTY ProgramsEnd
CHECK_DEADLOCK FALSE
