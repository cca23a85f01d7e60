SPECIFICATION Spec
CONSTANTS
  Radix = 2
  N_CORES = 1
  FREQ = 300000
  Requests <- AnyRequest
  CkeLevels = {TRUE}
PROPERTY RvalidMeansRead
