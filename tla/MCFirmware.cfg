\* Base-3 words: times 0 .. 8; deadlines two and three ticks ahead.
SPECIFICATION FirmwareSpec
CONSTANTS
  Radix = 3
  Harts = {0}
  Callers = {"main", "isr", "other"}
  Calls <- FirmwareCalls
  xlen = 32
  FirstOffset <- TwoTicks
  SecondOffset <- ThreeTicks
  irq_entry <- HandlerAddress
  AfterReset <- LeftOver
INVARIANTS OneAtATime SleepsArmed NoSpuriousInterrupt
PROPERTIES TrapsAreTheTimers HandledBeforeExit MainExits CallsReturn
