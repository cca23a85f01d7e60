\* One hart, 2-bit words: carries, the wrap of MTIME, the upper MSIP bits.
SPECIFICATION FairSpec
CONSTANTS
  Radix = 4
  N_CORES = 1
  FREQ = 200000
  Requests <- OneHartRequests
  CkeLevels = {TRUE}
INVARIANTS TypeOK
PROPERTIES InterruptsOnTime ArmedTimerFires
