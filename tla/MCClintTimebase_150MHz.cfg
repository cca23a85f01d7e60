\* 150 MHz: a period is 1500 edges, more than iob_counter_0 can count.
SPECIFICATION TimebaseSpec
CONSTANTS
  Radix = 4
  N_CORES = 1
  FREQ = 150000000
  Requests <- LeavesMtime
  CkeLevels = {TRUE}
  MaxSince = 2000
INVARIANTS CountsEvery10us
