\* 300 kHz: a tick every three edges, and a clock enable that comes and goes.
SPECIFICATION TimebaseSpec
CONSTANTS
  Radix = 3
  N_CORES = 1
  FREQ = 300000
  Requests <- LeavesMtime
  CkeLevels = {TRUE, FALSE}
  MaxSince = 20
INVARIANTS NeverAhead
