\* Two users of mie and mcountinhibit, each with fields of its own.
SPECIFICATION Spec
CONSTANTS
  xlen = 32
  Users = {"main", "isr"}
  Owns <- SharedEnables
  Lock <- SoftwareLock
  Start <- AllClear
INVARIANTS NoLostUpdate TestAndSetExcludes EnabledByNumber
