\* The numbers of the bench: 100 MHz, a thousand edges for each tick of MTIME.
\* TLC has integers of 32 bits: a word has 28.
SPECIFICATION BenchSpec
CONSTANTS
  Radix = 268435456
  N_CORES = 1
  FREQ = 100000000
  Requests <- BenchRequests
  CkeLevels = {TRUE}
  ResetEdges = 100
  SettleEdges = 10
  Deadline = 200
  Far = 1000000
  Iterations = 250000
  MaxWait = 20
INVARIANTS TimerCountIsDeadline EachInterruptOnce
PROPERTIES TestbenchFinishes
CHECK_DEADLOCK FALSE
