-------------------------------- MODULE Firmware ------------------------------
(***************************************************************************)
(* example_firmware.c on hart 0: main, its interrupt service routine       *)
(* irq_entry, the registers of the hart they use and, through the driver,  *)
(* the CLINT.  An interrupt may be taken between any two instructions.     *)
(* Another hart may send software interrupts.  When main returns,          *)
(* example_firmware.S resets the CPU; the CLINT keeps its registers.       *)
(***************************************************************************)
EXTENDS DriverProperties, CsrMap, RiscvInterrupts

CONSTANTS
  FirstOffset,   \* MTIMER_SECONDS_TO_CLOCKS(0.001)
  SecondOffset,  \* MTIMER_SECONDS_TO_CLOCKS(1)
  irq_entry,     \* the address of the handler
  AfterReset     \* what a reset of the CPU may leave in the hart's registers

ASSUME FirmwareAssumption ==
  /\ {"main", "isr"} \subseteq Callers
  /\ FirstOffset \in Dword /\ SecondOffset \in Dword
  /\ irq_entry \in Value

VARIABLES
  csr,        \* the hart's registers
  line,       \* the statement of main that runs next
  isr,        \* the statement of the handler that runs next, or "out"
  timestamp,  \* the global; its two words are written as one, since none reads it
  booted,     \* history: what MTIME was when main started
  stamper,    \* history: who has written timestamp since, "main", "isr" or "nobody"
  woken       \* history: an interrupt has ended main's wfi

hart  == <<csr, line, isr, timestamp, booted, stamper, woken>>
marks == <<timestamp, booted, stamper, woken>>
fvars == <<vars, hart>>

HartCall(c, fn, arg) == [caller |-> c, fn |-> fn, arg |-> arg, hart |-> 0]

-------------------------------------------------------------------------------
(* The hart.  External, by what main and irq_entry expect of it.           *)

MIE == MaskOf("mstatus", "MIE")
MPIE == MaskOf("mstatus", "MPIE")
Has(r, mask) == csr[r] \cap mask # {}

\* The value of mcause for interrupt i: the interrupt bit and its number.
Cause(i) ==
  MaskOf("mcause", "INTERRUPT") \cup {b \in 0 .. 7 : (RISCV_INT_POS[i] \div 2^b) % 2 = 1}

\* mip: the pins of the CLINT.
mipBits == (IF mtip(0) THEN RISCV_INT_MASK["MTI"] ELSE {})
           \cup (IF msip[0] = 1 THEN RISCV_INT_MASK["MSI"] ELSE {})

Pending == mipBits \cap csr["mie"]
TrapDue == Pending # {} /\ Has("mstatus", MIE) /\ isr = "out"

\* The software interrupt has the higher priority.
Taken == IF RISCV_INT_MASK["MSI"] \subseteq Pending THEN "MSI" ELSE "MTI"

\* An interrupt is taken: MPIE keeps MIE, MIE is cleared, mtvec is jumped to.
Trap ==
  /\ TrapDue
  /\ csr' = [csr EXCEPT !["mstatus"] = (@ \ MIE) \cup MPIE, !["mcause"] = Cause(Taken)]
  /\ isr' = IF csr["mtvec"] = irq_entry THEN "entry" ELSE "lost"
  /\ UNCHANGED <<vars, line, marks>>

\* mret: MIE is what it was.
Mret ==
  /\ isr = "return" /\ Idle("isr")
  /\ isr' = "out"
  /\ csr' = [csr EXCEPT !["mstatus"] = IF Has("mstatus", MPIE) THEN @ \cup MIE ELSE @ \ MIE]
  /\ UNCHANGED <<vars, line, marks>>

\* A reset of the CPU disables interrupts globally; what it leaves in the other
\* registers is not defined.
ASSUME ResetAssumption ==
  \A r \in AfterReset :
    DOMAIN r = {"mstatus", "mie", "mcause", "mtvec"} /\ r["mstatus"] \cap MIE = {}

-------------------------------------------------------------------------------
(* main, one action per statement.                                         *)

\* Faulty variant: interrupts are enabled before the timer is armed.
AfterEnablesFirst ==
  [disable |-> "write_mie", write_mie |-> "clear_cause", clear_cause |-> "write_cause",
   write_cause |-> "vector", vector |-> "enable_timer", enable_timer |-> "enable",
   enable |-> "stamp", stamp |-> "arm", arm |-> "wfi", wfi |-> "exit", exit |-> "disable"]

\* The order of the statements.  After the last one, example_firmware.S has
\* the CPU reset and the program starts again.
After ==
  [disable |-> "write_mie", write_mie |-> "clear_cause", clear_cause |-> "write_cause",
   write_cause |-> "stamp", stamp |-> "arm", arm |-> "vector", vector |-> "enable_timer",
   enable_timer |-> "enable", enable |-> "wfi", wfi |-> "exit", exit |-> "disable"]

\* The statement of main is next: no call is in progress and no handler runs.
\* An interrupt that is due comes first, unless wfi is what it ends.
Main(s) ==
  /\ line = s /\ Idle("main") /\ isr = "out" /\ (TrapDue => s = "wfi")
  /\ line' = After[s] /\ UNCHANGED isr

SetsCsr(r, v) == csr' = [csr EXCEPT ![r] = v] /\ UNCHANGED <<vars, marks>>
StartsCall(c, fn, arg) ==
  Begin(c) /\ call'[c] = HartCall(c, fn, arg) /\ UNCHANGED <<csr, marks>>

DisableGlobal == Main("disable") /\ SetsCsr("mstatus", csrrc(csr["mstatus"], MIE))

\* Faulty variant: the interrupt enables are left as they were.
WriteMieNot == Main("write_mie") /\ UNCHANGED <<csr, vars, marks>>

WriteMie == Main("write_mie") /\ SetsCsr("mie", csrrw(csr["mie"], {}))

\* MCAUSE_INTERRUPT_ALL_SET_MASK is 1: bit 0, not the interrupt bit.
ClearCause == Main("clear_cause") /\ SetsCsr("mcause", csrrc(csr["mcause"], {0}))
WriteCause == Main("write_cause") /\ SetsCsr("mcause", csrrw(csr["mcause"], {}))

Stamp == Main("stamp") /\ StartsCall("main", "mtimer_get_raw_time", Zeros)

\* Faulty variant: the timer is not armed.
ArmNot == Main("arm") /\ UNCHANGED <<csr, vars, marks>>

Arm == Main("arm") /\ StartsCall("main", "mtimer_set_raw_time_cmp", FirstOffset)

WriteVector == Main("vector") /\ SetsCsr("mtvec", csrrw(csr["mtvec"], irq_entry))
EnableTimer == Main("enable_timer") /\ SetsCsr("mie", csrrs(csr["mie"], MaskOf("mie", "MTI")))

\* Faulty variant: interrupts are not enabled.
EnableGlobalNot == Main("enable") /\ UNCHANGED <<csr, vars, marks>>

EnableGlobal == Main("enable") /\ SetsCsr("mstatus", csrrs(csr["mstatus"], MIE))

\* External: wfi ends when an interrupt enabled in mie is pending, whose handler
\* then runs before the next statement.
Wakes(interrupted) ==
  /\ Main("wfi") /\ (Pending # {} <=> interrupted) /\ woken' = interrupted
  /\ UNCHANGED <<vars, csr, timestamp, booted, stamper>>

Wfi == Wakes(TRUE)

\* The architecture also allows it to end at any other time, and it is in no loop.
WfiEarly == Wakes(FALSE)

Reboot ==
  /\ Main("exit")
  /\ csr' \in AfterReset /\ timestamp' = Zeros /\ booted' = mtime /\ stamper' = "nobody"
  /\ woken' = FALSE /\ UNCHANGED vars

-------------------------------------------------------------------------------
(* irq_entry                                                               *)

\* this_cause is the cause of a timer interrupt.
IsTimer(this_cause) ==
  /\ this_cause \cap MaskOf("mcause", "INTERRUPT") # {}
  /\ this_cause \cap 0 .. 7 = Cause("MTI") \cap 0 .. 7

\* Faulty variant: the handler returns without a new deadline.
HandleNot == isr = "entry" /\ isr' = "return" /\ UNCHANGED <<vars, csr, line, marks>>

\* The cause is read; the timer gets a new deadline, and timestamp the time.
Handle ==
  /\ isr = "entry" /\ UNCHANGED line
  /\ IF IsTimer(csr["mcause"])
     THEN isr' = "stamp" /\ StartsCall("isr", "mtimer_set_raw_time_cmp", SecondOffset)
     ELSE isr' = "return" /\ UNCHANGED <<vars, csr, marks>>

HandlerStamp ==
  /\ isr = "stamp" /\ Idle("isr") /\ isr' = "return" /\ UNCHANGED line
  /\ StartsCall("isr", "mtimer_get_raw_time", Zeros)

-------------------------------------------------------------------------------
\* One access of a call in progress.  main waits while the handler runs.
\* mtimer_get_raw_time returns into timestamp.
Access(c) ==
  /\ c = "main" => isr = "out" /\ ~TrapDue
  /\ Step(c)
  /\ IF Idle(c)' /\ call[c].fn = "mtimer_get_raw_time"
     THEN timestamp' = val[c] /\ stamper' = c
     ELSE UNCHANGED <<timestamp, stamper>>
  /\ UNCHANGED <<csr, line, isr, booted, woken>>

HartStep ==
  \/ DisableGlobal \/ WriteMie \/ ClearCause \/ WriteCause \/ Stamp \/ Arm \/ WriteVector
  \/ EnableTimer \/ EnableGlobal \/ Wfi
  \/ Trap \/ Handle \/ HandlerStamp \/ Mret
  \/ Access("main") \/ Access("isr")

\* The other harts call the driver.
OthersBegin == (\E c \in Callers \ {"main", "isr"} : Begin(c)) /\ UNCHANGED hart
OthersStep  == (\E c \in Callers \ {"main", "isr"} : Step(c)) /\ UNCHANGED hart

Clock == Tick /\ UNCHANGED hart

FirmwareInit ==
  /\ Init
  /\ csr \in AfterReset /\ line = "disable" /\ isr = "out"
  /\ timestamp = Zeros /\ booted = mtime /\ stamper = "nobody" /\ woken = FALSE

FirmwareNext == HartStep \/ WfiEarly \/ Reboot \/ OthersBegin \/ OthersStep \/ Clock

\* The harts execute and MTIME ticks; nothing makes wfi end early.
FirmwareSpec ==
  /\ FirmwareInit /\ [][FirmwareNext]_fvars
  /\ WF_fvars(HartStep) /\ WF_fvars(OthersStep) /\ WF_fvars(Clock)
===============================================================================
