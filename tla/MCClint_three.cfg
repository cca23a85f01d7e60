\* Three harts, 1-bit words (registers of two bits), a tick every two edges: a
\* hart select field that can name a hart that is not there.  The clock enable
\* comes and goes.
SPECIFICATION Spec
CONSTANTS
  Radix = 2
  N_CORES = 3
  FREQ = 200000
  Requests <- ThreeHartRequests
  CkeLevels = {TRUE, FALSE}
INVARIANTS TypeOK
PROPERTIES RefinesRegMap ReadsReturnRegisters InterruptsOnTime
