\* Base-3 words: times 0 .. 8.  Another hart's registers, which stay as they are
\* but for its software interrupt.
SPECIFICATION RaceSpec
CONSTANTS
  Radix = 3
  Harts = {0, 1}
  Callers = {"main","other"}
  Calls <- TimerSet
INVARIANTS NoSpuriousInterrupt
PROPERTIES ObeysRegMap TimerSetIsClose DeadlineReadNotEarlier
