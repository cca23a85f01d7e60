\* One caller reads the time with clint_get_timer.
SPECIFICATION RaceSpec
CONSTANTS
  Radix = 3
  Harts = {0}
  Callers = {"main"}
  Calls <- OneReader
PROPERTIES TimerReadIsCurrent
