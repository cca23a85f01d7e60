# A verification of iob-clint

iob-clint is a RISC-V Core Local Interrupt Controller: a 64-bit timer (MTIME),
a 64-bit compare register per hart (MTIMECMP) and a software interrupt bit per
hart (MSIP) behind a 32-bit bus, with the driver that uses them, an example
firmware and two test benches.  This directory holds TLA+ models of it, the
TLC runs that check them on small instances, and proofs checked by TLAPS.

## The system

| Component | Source | State | Operations |
|---|---|---|---|
| Core | `iob_clint.py` | `mtime_o`, `mtimecmp`, `msip_reg`, `iob_rdata_reg`, `iob_rvalid_o` | read and write of each register word, the tick, asynchronous reset |
| Tick generator | `iob_clint.py` (`iob_counter_0`, `counter_e`, `increment_timer`) | `counter`, `increment_timer_r` | counts `FREQ/100000` clock edges and pulses |
| Driver | `software/src/iob_clint.c`, `.h` | `clint_base` and the locals of a call | get and set of MTIME, MTIMECMP and MSIP, `mtimer_get_raw_time`, `mtimer_set_raw_time_cmp` |
| Firmware | `software/example_firmware.c`, `.S`, `riscv-interrupts.h` | `timestamp`, the CSRs | `main`, `irq_entry`, `wfi` |
| CSR accessors | `software/src/riscv-csr.h` | the CSRs | read, write, swap, set and clear, one instruction each |
| Verilog bench | `hardware/simulation/src/iob_clint_tb.v` | its bus outputs, `timer_read`, `i`, where it waits | `set_inputs`, `wait_responce`, `get_time`, the polling loop |
| Verilator bench | `hardware/simulation/src/iob_clint_tb.cpp` | its bus outputs | drives ports the core no longer has |
| PC emulation | `software/src/iob_clint_csrs_pc_emul.c` | none | stubs |

They interact in three ways.  A bus master (driver or bench) drives one request
per clock edge; the core is always ready, takes it at the edge and answers a
read at the next one.  The core drives two level-sensitive pins per hart, which
interrupt the firmware.  The tick generator drives the core's increment through
one more register.  Nothing orders the tick, the requests of several harts and
the asynchronous reset with respect to each other.

What is hard here, and what correctness means:

* **Core.**  A write, a tick and a reset can meet.  A write of a word must
  change that word and nothing else, of that hart and no other; the 64-bit
  comparison and increment must work across the two words the bus sees; a read
  must be answered with the register as it was when it was taken; an interrupt
  must rise at the tick that reaches its deadline and fall only for a reason.
* **Tick generator.**  One edge too many or too few per period is an error that
  grows for ever.  A 10-bit counter is compared with a constant computed from a
  parameter that has no maximum.
* **Driver.**  Every 64-bit access is two or more bus accesses with MTIME moving
  between them: torn reads, torn writes, spurious interrupts, a retry loop.
* **Firmware.**  `main` and its handler both replace hart 0's deadline, in three
  stores each, with nothing but the interrupt enable between them.  The
  interrupt may come between its enabling and `wfi`, and the handler moves the
  deadline that woke it.  `main` ends in a reset of the CPU alone: the next run
  finds the deadline of the last one, maybe reached.  Only the timer may be
  taken, only into `irq_entry`, only once the deadline of this run is reached,
  and nobody may sleep for ever.
* **CSR accessors.**  A register is shared field by field by a program and its
  handlers.  Each accessor must be one instruction that changes the bits of its
  mask only, and each mask must be the field it is named for.
* **Verilog bench.**  It waits for an answer that an earlier read may have left on
  the bus, and reads a 64-bit time in two accesses while the core counts.

## Modules

| Module | What it is |
|---|---|
| `Dwords` | a 64-bit register as two bus words: comparison and increment with carry |
| `Clint` | the core and the tick generator, one action per event of its always blocks |
| `RegMap` | the abstract specification: what the register map promises, in numbers |
| `ClintRegMap` | `Clint` seen as `RegMap` (refinement mapping), its invariants, action properties and liveness |
| `ClintTimebase` | `Clint` with two history variables: MTIME as a clock |
| `ClintClaims` | a statement of a comment that the core refutes |
| `ClintDriver` | the functions of `iob_clint.c`, one action per bus access, run by several callers while MTIME ticks |
| `DriverProperties` | what callers may rely on, and on what conditions |
| `DriverRaces` | the driver with two history variables: a time set, and a deadline read, in two accesses while others move them |
| `CsrMap` | the register sections of `riscv-csr.h`: accessors, fields, masks |
| `RiscvInterrupts` | the interrupt numbers of `riscv-interrupts.h` |
| `RiscvCsr` | the accessors at work between threads of control of one hart |
| `Firmware` | `main`, `irq_entry` and what they use of the hart, over `ClintDriver` and `CsrMap` |
| `FirmwareProperties` | what the example promises |
| `Testbench` | the Verilog bench as the bus master of `Clint` |
| `MCClint`, `MCClintTimebase`, `MCClintClaims`, `MCDriver`, `MCRiscvCsr`, `MCFirmware` | bus masters, programs of calls and owners of fields for TLC |
| `DwordProofs` | lemmas about two-word numbers: comparison and increment are those of the numbers |
| `ClintProofs`, `TimebaseProofs`, `DriverProofs`, `RaceProofs`, `CsrProofs`, `FirmwareProofs`, `TestbenchProofs` | theorems about `Clint`, `ClintTimebase`, `ClintDriver`, `DriverRaces`, `RiscvCsr`, `Firmware` and `Testbench` |

`Clint` and `ClintDriver` meet in `RegMap`: `Clint` implements it
(`RefinesRegMap`) and every step of the driver is one access of it
(`ObeysRegMap`).  So the driver is checked over the registers of the abstract
map, at the grain of one bus access, and the cycles of the core do not multiply
its states.  `Firmware` extends `ClintDriver`: each of its steps is a step of the
driver or leaves the driver alone (lemma `FirmwareIsDriver`), so that what is
proved of the driver carries over.  `Testbench` extends `Clint`: each of its
steps is an edge of the core.

### State and actions of Clint

Each variable is the register or port of the same name; `bus` groups the four
request inputs.  All registers of the design are assigned with `<=`, so one
action `Edge` is one rising edge of `clk_i`: every always block takes its
branch, reading the values from before the edge.  There is one operator per
always block (`MtimeNext`, `MtimecmpNext`, `MsipNext`, `ReadMux`) and one per
generated register (`RvalidNext`, `TickNext`, `CounterNext`).  `AssertReset`
is `posedge arst_i`, which is in the sensitivity list of every block and can
come at any time; `ResetEdge` is a clock edge under reset; `ReleaseReset` is the
falling edge of `arst_i`, which triggers no block.

A 64-bit register is a function from the word select `iob_addr_i[2]` to words,
because this is how the part-selects of the source index it.  Words are
`0 .. Radix-1`; `Radix` is 2^32 in the hardware and 2 to 4 in the runs.  Addresses
keep their 16 bits and their real values, so the bit-slices of the decoder
(`iob_addr_i[AddrSelWidth+2:3]`) and its range tests are those of the source.
A read with a hart select past the last hart is an out-of-range select in
Verilog (`x` in simulation): any word may come out.

`iob_counter` and the registers generated for `_nxt` signals come from a
library outside this repository; they are modelled from how they are
connected: cleared by reset, held while `cke_i` is low.

### State and actions of ClintDriver

A caller is a thread of control: the main program of a hart or an interrupt
service routine.  `pc` names the next volatile access of the function it is in,
`call` the function and its arguments, `val` its one 64-bit local (`read_time`,
`new_mtimecmp`, or `mtimeh_val` with `mtimel_val`).  Each volatile access of the
C code is one action; reading a value, computing with it and returning is part
of the access that comes before, since nothing shared happens in between.
`mtimer_set_raw_time_cmp` runs the accesses of `mtimer_get_raw_time` and then its
three stores, which are the ones of `clint_set_timercmp` on hart 0.  `Calls` says
which calls a caller may make; it makes them in any order and for ever.  `Tick`
comes between any two accesses.  An interrupt service routine that runs to its
end is one of the interleavings.

Two history variables serve the properties: `began`, MTIME at the start of a
call, and `deadline`, the last complete deadline of each hart.  `DriverRaces` adds
two more, which watch every step and change none: `stored`, what MTIME was after the
first store of a `clint_set_timer`, and `floor`, the deadline a
`clint_get_timercmp` reads as it was when the call began, forgotten as soon as that
deadline moves to an earlier time.  The runs of the driver are of `RaceSpec`.

### State and actions of CsrMap and RiscvCsr

A register value is the set of its 1-bits; `csrrw`, `csrrs` and `csrrc` are then
replacement, union and difference.  `CsrMap` has one entry per section of the
header: the accessors it has (all sections read, most write, seventeen have the
bit functions and the immediate macros) and offset, width and mask of each
field.  Most masks are written out as numbers and are all bits of the field;
those of fields as wide as `__riscv_xlen` allows are computed, and are what
`XlenField` says.

`RiscvCsr` lets users, the threads of control of one hart, keep fields of their
own in shared registers.  An accessor is a single instruction, so one call is
one action; a user may be interrupted between two calls.  `Take` and `Give` use
`csr_read_set_bits_x` and the clearing accessors as a lock.  Two history
variables: `wanted`, the fields set last by their owners, and `holders`, the users
that found the lock clear.

### State and actions of Firmware

`line` and `isr` name the next statement of `main` and of `irq_entry`; `csr` holds
the four registers they use.  A statement is a CSR instruction or starts a call
of the driver, whose accesses are then steps of `ClintDriver` by the callers
`"main"` and `"isr"`.  `Trap` comes between any two instructions of `main`, once an
interrupt enabled in `mie` is pending and MIE is set; `mip` is the pins of the
CLINT.  `main` does not execute while the handler runs.  The hart itself (trap,
`mret`, `wfi`) is external: it is modelled by what the firmware expects of it.
`Wfi` ends because an interrupt enabled in `mie` is pending.  The architecture also
lets it end at any other time, or be a nop, and `main` has no loop around it: that is
`WfiEarly`.  `Reboot` is the end of `main`: the CPU is reset and the program starts again
with any registers of the set `AfterReset`, of which only is assumed that global
interrupts are off, while the CLINT keeps its registers and MTIME its count.
`printf` takes any number of ticks.  Other callers are other harts.  Three history
variables: `booted`, MTIME when `main` started; `stamper`, who wrote `timestamp` last;
`woken`, whether an interrupt ended `wfi`.

### State and actions of Testbench

`at` is the edge the bench waits for.  What the bench does in the moment after an
edge (its `#1` delays) is part of the step of that edge and sees the outputs
the edge leaves; while `wait_responce` polls, it samples at the edge, before
they move.  Tasks are inlined, since each call waits for different things
afterwards.  `set_inputs` takes back `iob_valid` and `iob_wstrb` and leaves address and
data on the bus (`Cleared`).  The bench is deterministic.

### Faulty variants

Definitions that begin with the words "Faulty variant" are small mutations of the
definition that follows them.  They are not part of any specification.  Putting one
in the place of its original must make a property fail; `PROJECT.json` says
which.  This is how we know a property has teeth.

## Runs

| Run | Instance | Shows |
|---|---|---|
| `three` | 3 harts, 1-bit words, tick every 2 edges, `cke_i` high and low | every property of the register map: `RefinesRegMap`, `ReadsReturnRegisters`, `InterruptsOnTime`, `TypeOK`, with a hart select field that can name a fourth hart |
| `one` | 1 hart, 2-bit words, tick every 2 edges, fair clock | carries and wrap, the unused bits of MSIP, `ArmedTimerFires` |
| `period3` | tick every 3 edges, MTIME and a deadline set at every phase | `CountsEvery10us`, `PhaseAccountsForEdges`, `DeadlineInTime` |
| `rvalid` | 1 hart, 1-bit words | refutes `RvalidMeansRead` |
| `clk150MHz` | 1500 edges per tick | refutes `CountsEvery10us` |
| `clockenable` | tick every 3 edges, `cke_i` high and low | refutes `NeverAhead`, the half of `CountsEvery10us` that says MTIME is not fast |
| `cooperating` | 2 callers, 2 harts, words of 3 values: arming hart 0 from now, arming hart 1, reading the time both ways | `RawTimeIsCurrent`, `TimerReadIsClose`, `NoSpuriousInterrupt`, `InterruptAtOffset`, `TypeOK` |
| `timerset` | 2 harts, words of 3 values: a caller that replaces hart 0's deadline beside one that sets MTIME, sends software interrupts to hart 1 and reads hart 0's deadline | `NoSpuriousInterrupt`, `ObeysRegMap`, `TimerSetIsClose`, `DeadlineReadNotEarlier` |
| `torn` | one caller of `clint_get_timer` | refutes `TimerReadIsCurrent` |
| `firmware` | `main`, `irq_entry` and a hart that sends software interrupts, words of 3 values, deadlines 2 and 3 ticks away, three sets of registers left by a reset, a `wfi` that may end early, fair | `OneAtATime`, `SleepsArmed`, `NoSpuriousInterrupt`, `TrapsAreTheTimers`, `HandledBeforeExit`, `MainExits`, `CallsReturn` |
| `csrshared` | a program and a handler with fields of five registers, a lock bit in `mie` | `NoLostUpdate`, `TestAndSetExcludes`, `EnabledByNumber` |
| `testbench` | the bench with its own numbers: 100 MHz, 250,000 iterations | `TimerCountIsDeadline`, `EachInterruptOnce`, `TestbenchFinishes` |

**Why the bounds are enough.**  The core compares, increments and stores words;
it never looks inside a word except for bit 0 of an MSIP store.  A 64-bit
register of two 1-bit words already has a carry between its words, a wrap, and high and
low words in every order; 2-bit words add bits above bit 0.  Three harts are
enough for one to disturb another and for a select field that is not full.
The masters of the MC modules address every register word, the first word on
either side of every register file, an odd byte of a word, and an idle bus that
still shows a write.  A period of two edges has a counting and a ticking edge;
three edges tell `<` from `=` in the two comparisons; the longer periods, the
default of 1000 edges among them, are the theorem's.  `MaxSince` bounds how long
MTIME is left alone between two settings: several periods.

In the driver runs a word has few values, so MTIME carries into its high word
after every few ticks and carries land between any two accesses; the high
word changes often enough for the retry loop to go round several times.
`Tick` stops at the last value of MTIME: the header says of
`mtimer_set_raw_time_cmp` that "The time range of the 64 bit timer is large enough
not to consider a wrap around of mtime".  `NoSpuriousInterrupt` says nothing while
the high word of MTIME is all ones, the value the driver's comment calls
unachievable; `InterruptAtOffset` says nothing of a sum that does not fit.  Two callers
are all that can meet at one register, and the second hart is the one whose
registers must not be touched.  In `timerset` the deadlines move to later and to
earlier times, with a carry between the words of one and the next, so that the two
words read come from different deadlines; `DeadlineReadNotEarlier` says nothing
of a read during which the deadline moved to an earlier time, nor of a deadline whose
own high word is the dummy.

In the run `firmware` MTIME has nine values: enough for two runs of `main`, for
the interrupt before, during and after `wfi`, and for a handler that is overtaken
by its own deadline.  `SleepsArmed` (`Fits`), `TrapsAreTheTimers` and
`HandledBeforeExit` (`AfterFirst`) and `MainExits` (`NoWrap`) say nothing of a
deadline past the last value: a first deadline that wraps around is in the past,
and its interrupt comes at once.  In `csrshared` the handler and the program
share two registers, have others to themselves, and a register may have no bit
functions at all.  In `testbench` words have 28 bits, because TLC computes with
32; every value the bench uses fits.  `MaxWait` bounds how long it may wait for an
answer; the core answers at once, so the bound is reached by faulty variants
only.

**Fairness.**  `FairSpec` of `ClintRegMap` adds weak fairness on `Edge` only: `clk_i`
is a free-running clock.  It demands nothing of the master, of reset or of
software; `ArmedTimerFires` has its own premise, that software in the end
leaves the registers alone and out of reset.  `FirmwareSpec` has weak fairness on
`HartStep` (a hart executes, and takes the interrupts it owes), on `OthersStep` (a
hart inside a driver function goes on executing it) and on `Clock` (MTIME
ticks, up to its bound).  It has none on `OthersBegin`, for nobody must call
anything, nor on `Reboot`, nor on `WfiEarly`: `main` must end without it.
`BenchSpec` has weak fairness on its one action: the
clock of the bench runs until `$finish`.  All runs but `testbench`, which does
finish, keep TLC's deadlock check.

## Proofs

The theorems assume what the modules state as named assumptions on their
constants (`ClintAssumption`, `DriverAssumption`, `FirmwareAssumption`...), which TLC
evaluates for every instance, and the conditions given below.  `DwordProofs`
relates the two-word operators to numbers once for all: `Geq` is `>=` and `Incr` is
`+ 1` modulo Radix^2 of `Val`.  The proofs about registers of two words cite it.

**`ClintProofs`**, for every `N_CORES` from 1 to 8, every `FREQ`, every word
radix the assumptions allow and every bus master:

* `TypeCorrect`: `Spec => []TypeOK`.  `TypeOK` is inductive as it stands: the
  clause that the registers hold their reset values under `arst_i` is what
  `ReleaseReset` needs, and the lemmas `MsipSelect`, `CmpSelect`, `MtimeSelect`
  show that the decoder's bit-slices never leave the register file once its
  range test has passed.
* `InterruptsOnTimeCorrect`: the action property, by cases on what an edge does to
  MTIME (written, counting, still) and to MTIMECMP.
* `ReadsReturnCorrect`: the decoder's bit-slices and the read multiplexer take the
  word that the map has at the address (`NamedWord`, by the three `Select` lemmas).
* `RefinementCorrect`: `Clint` implements `RegMap`.  The mapping takes each pair of
  words to its number.  An edge is the access that `RequestedOp` names (lemma
  `OpDecoded`: a register is written exactly when the address names it, for every
  address), a store of a word is a store of that half of the number (`StoreHalf`), a
  tick is `+ 1` or the wrap (`IncrIsNumeric`).

**`TimebaseProofs`**, on three named conditions: `CounterFits` (the period
fits the counter), `AlwaysEnabled` (`cke_i` is never low) and `NoLap` (MTIME is
not left alone long enough to come round to where it was set).  Findings 2 and 3
are what happens without the first and without the second.

* `PhaseCorrect` and `TimebaseCorrect`: `CountsEvery10us` is not inductive.  The
  inductive invariant `TimeInv` says that there is a number `n` of ticks and a
  phase `start` at which MTIME was set, with `since + start` exactly `n` periods
  plus the present phase, and MTIME `n` after `origin`, modulo one wrap.  The
  bound to within one period follows because both phases lie between 0 and
  `Period`.
* `InTimeCorrect`: the bounded form of `ArmedTimerFires`, from the same invariant and the
  numeric meaning of the comparison.  A deadline so many periods after the value
  MTIME was set to is on the pin by then, and one period early at most.

**`DriverProofs`**, for every word width, every set of harts and callers and
every set of calls:

* `TypeCorrect`.
* `RawTimeCorrect`, if no call sets MTIME (`TimerNotSet`): the inductive
  invariant `RawInv` keeps, for every caller between the read of the low word
  and the check, a value that MTIME had when the low word was read; its low word is
  the one read, it lies between `began` and the present, and its high word
  lies between the one read before and the present one.  When the check finds
  the high word unchanged, that value is the one returned.
* `NoSpuriousCorrect`, if one caller owns each compare register (`OneOwner`):
  `CmpInv` keeps that a register being replaced has its high word all ones
  until the last store, that its low word is then already the new one, and that
  a register nobody is replacing holds `deadline`.  The induction needs less than
  an owner: that no two callers are setting one register at the same moment
  (`OneSetter`).  Two that do interleave their stores and leave a mixture of their
  deadlines.  The theorem puts no condition on MTIME: it may be set at any
  moment.
* `InterruptAtOffsetCorrect`, on both conditions: `OffsetInv` keeps that the sum on its
  way to the register is the offset and a time that MTIME had during the call
  (`RawInv`); `CmpInv` gives that the three stores leave that sum, and
  `PlusFits` that the sum of two-word values is the sum of the numbers.
* `TimerReadCloseCorrect`, if no call sets MTIME: `ReadInv` keeps a value that MTIME had at
  the first load.  The low word is its low word and the high word, read later, is
  at least its high word, so the time returned is not before that value; and
  it has the high word of the present.  This bounds finding 4.
* `ObeysRegMapCorrect`, without conditions: `FnInv` ties each place in the code to the
  functions that reach it.

**`RaceProofs`**, for the same, over `RaceSpec`, whose steps are those of the driver
(`Watched`):

* `TimerSetIsCloseCorrect`, for each caller that alone sets MTIME: `StoredInv` keeps that
  `stored` has the low word asked for and that MTIME has only ticked since.  What
  `clint_set_timer` stores last replaces the high word, so each carry of the low
  word since the first store is lost; nothing else is.
* `DeadlineReadNotEarlierCorrect`, if one caller owns each compare register (`OneOwner`):
  `FloorInv` keeps, for a reader between its two loads, that the low word it has
  read makes a time no earlier than `floor` with the high word of the deadline
  in force, or is the low word of a deadline whose high word is still to be
  stored.  In the second case the high word it reads next is the dummy or
  that deadline's own.  That needs `CmpInv` and `LowKept`, that the register keeps the
  old low word until the new one is stored.

**`CsrProofs`**, for every set of users and of fields they own, if masks are the
fields (`MasksAreFields`), fields do not overlap (`FieldsApart`) and start clear
(`StartsClear`).  The fields of run `csrshared` meet the conditions; the masks
computed from `__riscv_xlen` do not meet the first (see below).

* `NoLostUpdateCorrect`: `NoLostUpdate` is inductive together with the shape of the
  variables (`TypeInv`).  The argument is lemma `OneField`: an accessor whose
  operand is one field's mask changes that field and no other.
* `LockCorrect`: `LockInv` adds that the lock bit is wanted while somebody holds
  it.  Whoever comes next then finds the bit set, by `NoLostUpdate`.
* `EnabledByNumberCorrect`: in every register of the header, a field with the name of
  an interrupt is the one bit of its number (`InterruptFields`, register by
  register); the rest is `NoLostUpdate`.

**`FirmwareProofs`**, for every word width, all offsets and any calls of other
harts:

* `OneAtATimeCorrect`: `HartInv` ties the interrupt enable to the statements of
  `main`.  MIE is set only between the last call of `main` and its end, and the
  handler runs only there and with MIE clear.
* `FirmwareNoSpurious`, if other callers own the registers they set (`TimersApart`):
  main and the handler share hart 0's register, so `OneOwner` does not hold, but
  `OneAtATime` gives `OneSetter` and the driver's induction applies.
* `SleepsArmedCorrect`, if nobody else sets MTIME or hart 0's deadline
  (`TimerNotSet`, `HartsTimer`) and the first offset is not the longer one
  (`FirstIsSooner`): `WakeInv` keeps that interrupts are enabled outside the handler
  from their enabling to the end, because `MPIE` remembers it inside; `ArmedInv`
  keeps that every deadline installed, or on its way, is within the second
  offset of MTIME.  That needs `RawInv`, that the time the deadline is
  counted from is not in the future, and `CmpInv`, that the register holds it.

* `TrapsAreTheTimersCorrect` and `HandledBeforeExitCorrect`, if nobody else sets MTIME or
  hart 0's deadline (`TimerNotSet`, `TimersApart`, `HartsTimer`), whatever CSRs and
  deadline the run before left.
  `CsrInv` follows the CSRs through `main`: `mie` holds the timer's bit alone once it
  is written, so that the software interrupts of another hart stay out, and `mtvec`
  is `irq_entry` before interrupts are enabled.
  `MainInv` keeps that `main` has counted its deadline from a time of this run: once
  `Armed`, MTIME or the deadline is past the first deadline.  `HandlerInv` keeps that
  the handler runs after it, and that `main`, once `woken`, has left `wfi` with the
  timestamp taken by the handler (`Noted`), not by `main` itself, or with the
  interrupt still pending.  TLC found the properties wrong in an
  earlier form that had no `Fits`: with the clock near its end a first deadline of
  two ticks wraps around, and the interrupt comes before it.

**`TestbenchProofs`**, for every number of harts, every word width, clock and numbers
of the bench with `BenchNumbers`: the first deadline is armed before MTIME ticks and
comes before the loop ends, the second one is further away than the loop is long,
a period has more edges than the handler of the bench needs, and `cke_i` is high.
Lemma `BenchNumbersHold` evaluates them at the numbers of the source.  The run has
words of 28 bits, one hart and one clock; the theorems have those of the hardware.

* `TimerCountCorrect`, `EachInterruptCorrect`: `BenchInv` says for each place of the bench
  what is on the bus and what the registers hold.  The heart is `WaitInv`: the
  edges since reset are the periods that MTIME has counted or is about to count,
  and `counter`.  So the deadline is seen at the edge where `counter` is 1
  (`TakeInv`), the four accesses of the handler end before the next tick is counted,
  and the loop does not end before the deadline.  `DoneInv` bounds MTIME by the
  rounds of the loop: one tick for an edge at most.

Every invariant and action property of the runs that are expected to pass is a
theorem.  Model-checked only: liveness (`ArmedTimerFires`, `CallsReturn`, `MainExits`,
`TestbenchFinishes`), which needs fairness and `ENABLED` and is out of the prover's reach.
The statements of the `violation` runs are false, and their counterexamples are
TLC's.

## Findings

Shown by a run:

1. `iob_rvalid_o` is held through a write that follows a read
   (`iob_clint.py:324`): it is high for an edge that took no read (`rvalid`).
2. From a `FREQ` of 102.5 MHz on, MTIME never counts: the 10-bit counter cannot
   reach `FREQ/100000 - 1`, which is then above 1023 (`clk150MHz`).
3. The always blocks ignore `cke_i` and the tick generator obeys it: with the clock
   enable low at the edge after a tick, the tick is held and MTIME counts every
   edge of `clk_i` (`iob_clint.py:266`, `clockenable`).
4. `clint_get_timer` reads the low word, then the high one, once
   (`iob_clint.c:15-16`).  A carry between them gives a time 2^32 ticks ahead, the
   risk that the comment at `iob_clint.c:94` names and `mtimer_get_raw_time` avoids
   (`torn`).  It is never further ahead than a low word can count (`TimerReadIsClose`).

Met while modelling:

* `README.md:37` of the repository says the interrupt needs MTIME *greater than*
  MTIMECMP; the core raises it when they are equal (`iob_clint.py:245`).
* `clint_set_timer` writes the low word first (`iob_clint.c:6`): a carry out of it
  before the high word is written is lost, and between the two stores MTIME is a
  mixture of the old time and the new one, which raises the interrupt of any deadline
  it has reached.  `TimerSetIsClose` says how far the time set can be off in the end.
* `clint_get_timercmp` reads a deadline in two accesses (`iob_clint.c:33`): while another
  caller replaces it, the value may be joined from two deadlines and lie after both,
  up to the dummy high word.  `DeadlineReadNotEarlier` says what is left.
* `mtimer_set_raw_time_cmp` has no hart parameter: it stores to hart 0's register,
  in three accesses, whichever hart calls it (`iob_clint.c:65`).  Two harts that do
  interleave their stores and leave the high word of one deadline with the low
  word of the other.  With one caller at a time the interrupt comes at
  `mtime + clock_offset`, as the header promises (`InterruptAtOffset`).
* `example_firmware.c:46` says "Wait for interrupt", and line 47 is one `wfi`, which
  the architecture lets end at any time: `main` then exits before the handler has
  run.  When an interrupt ended it, it does not (`HandledBeforeExit`).
* The masks of fields as wide as `__riscv_xlen` allows are one bit instead of the
  field: clearing `MTVEC_BASE` through its mask clears one of thirty bits
  (`riscv-csr.h:305`).  That of `PLATFORM_DEFINED` (lines 478 and 595) is shifted out of
  the word and is 0.  Nothing in the repository uses them.
* `example_firmware.c:32` says "1 second interval" and the code sets a millisecond;
  "keep up the one second tick" (line 67) counts from the time the handler
  reads, so the tick drifts by the latency of every interrupt.
* `example_firmware.c:29` clears `mcause` through an `ALL_SET_MASK`, which is the
  value 1 and so bit 0, not the interrupt bit; the next line clears all.
* `riscv-csr.h:1708` puts `UPIE` of `ustatus` at bit 3, which is `MIE` in `mstatus`,
  the register it is said to be a view of.
* The bench never sets `failed` (`iob_clint_tb.v:41`): its log always says that the
  test passed.

## Not modelled

* `rt_clk_i`: no statement reads it; its synchroniser is commented out
  (`iob_clint.py:284-311`).
* `clint_init` and `clint_base`.  The base is `static` in the header, so
  each file that includes it has its own; the model's calls use the right one.
* The `__riscv_xlen == 64` branches of the driver, for a bus this core does not have.
* The CSR interface converters (axil, wishbone) that the build may put in front
  of the core: library cores.
* The `ALL_SET_MASK` constants but the one the firmware uses, and the views of one
  register through another (`sie` of `mie`): nothing in the repository uses them.
* What the firmware calls outside this repository (`uart_init`, `printf`,
  `uart_finish`), but for the time they take; the exception numbers, which nothing
  reads.
* The Verilator bench, which drives ports the core does not have (`iob_avalid`,
  `rtc`), the PC stubs, which keep no state, and the build scripts.

## Plan

The core, the driver, the CSRs, the firmware and the Verilog bench are modelled, and
their safety properties proved.  The hazards
left without a property are three: two harts in `mtimer_set_raw_time_cmp` at once and the
computed masks, where the code keeps no promise, and how far the "one second tick" of
`irq_entry` drifts from one interrupt to the next.
