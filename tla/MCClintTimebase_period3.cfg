\* 300 kHz: a tick every three edges.  MTIME is set at every phase, and the deadline.
SPECIFICATION TimebaseSpec
CONSTANTS
  Radix = 3
  N_CORES = 1
  FREQ = 300000
  Requests <- SetsTimer
  CkeLevels = {TRUE}
  MaxSince = 20
INVARIANTS CountsEvery10us PhaseAccountsForEdges DeadlineInTime
