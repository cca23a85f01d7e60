\* Two harts, base-3 words: times 0 .. 8.
SPECIFICATION RaceSpec
CONSTANTS
  Radix = 3
  Harts = {0,1}
  Callers = {"main","other"}
  Calls <- Cooperating
INVARIANTS TypeOK NoSpuriousInterrupt
PROPERTIES RawTimeIsCurrent InterruptAtOffset TimerReadIsClose
