-------------------------------- MODULE CsrMap --------------------------------
(***************************************************************************)
(* The control and status registers of riscv-csr.h.  Every section of the  *)
(* header is one register: which accessors it has and, of some, where its  *)
(* fields are.  A value is the set of its 1-bits, so that a mask is a set  *)
(* too and the set and clear instructions are union and difference.        *)
(***************************************************************************)
EXTENDS Integers

CONSTANT xlen  \* __riscv_xlen

ASSUME XlenAssumption == xlen \in {32, 64}

Value == SUBSET (0 .. xlen - 1)

-------------------------------------------------------------------------------
(* The instructions, on the old value and the operand.                     *)

\* External: what the processor does.
csrrw(old, new) == new
csrrs(old, mask) == old \cup mask
csrrc(old, mask) == old \ mask

-------------------------------------------------------------------------------
(* A field: NAME_BIT_OFFSET, NAME_BIT_WIDTH, NAME_BIT_MASK.                *)

Bits(offset, width) == offset .. offset + width - 1

\* The mask is written out as a number: all the bits of the field.
Field(offset, width) == [offset |-> offset, width |-> width, mask |-> Bits(offset, width)]
Flag(offset) == Field(offset, 1)

\* The mask is computed, ((1UL << (width - 1)) << offset): one bit, the field's
\* highest, or no bit at all where the shift leaves the word.
XlenField(offset, width) ==
  [offset |-> offset, width |-> width, mask |-> {offset + width - 1} \cap (0 .. xlen - 1)]

\* What a section has: csr_read_x; csr_write_x and csr_read_write_x; the bit
\* functions; and the three macros with an immediate operand.
ReadOnly     == {"read"}
Plain        == ReadOnly \cup {"write", "read_write"}
BitFunctions == {"set_bits", "clr_bits", "read_set_bits", "read_clr_bits"}
Immediates   == {"WRITE_IMM", "SET_BITS_IMM", "CLR_BITS_IMM"}

BitRegister(fields) == [calls |-> Plain \cup BitFunctions \cup Immediates, fields |-> fields]

-------------------------------------------------------------------------------
(* The sections with fields.                                               *)

mstatus == BitRegister(
  [MIE |-> Flag(3), SIE |-> Flag(2), MPIE |-> Flag(7), SPIE |-> Flag(5), MPRV |-> Flag(17),
   MPP |-> Field(11, 2), SPP |-> Flag(8)])

mtvec == BitRegister([BASE |-> XlenField(2, xlen - 2), MODE |-> Field(0, 2)])

mip == BitRegister(
  [MSI |-> Flag(3), MTI |-> Flag(7), MEI |-> Flag(11), SSI |-> Flag(1), STI |-> Flag(5),
   SEI |-> Flag(9), USI |-> Flag(0), UTI |-> Flag(4), UEI |-> Flag(8),
   PLATFORM_DEFINED |-> XlenField(16, xlen - 16 + 1)])

\* Faulty variant: the order of the privilege modes the other way round.
mieTimerMisplaced == BitRegister(
  [MSI |-> Flag(3), MTI |-> Flag(4), MEI |-> Flag(11), SSI |-> Flag(1), STI |-> Flag(5),
   SEI |-> Flag(9), USI |-> Flag(0), UTI |-> Flag(7), UEI |-> Flag(8),
   PLATFORM_DEFINED |-> XlenField(16, xlen - 16 + 1)])

mie == BitRegister(
  [MSI |-> Flag(3), MTI |-> Flag(7), MEI |-> Flag(11), SSI |-> Flag(1), STI |-> Flag(5),
   SEI |-> Flag(9), USI |-> Flag(0), UTI |-> Flag(4), UEI |-> Flag(8),
   PLATFORM_DEFINED |-> XlenField(16, xlen - 16 + 1)])

\* Faulty variant: the counters of HPM counted from bit 0.
mcountinhibitHpmFromZero == BitRegister([CY |-> Flag(0), IR |-> Flag(2), HPM |-> Field(0, 29)])

mcountinhibit == BitRegister([CY |-> Flag(0), IR |-> Flag(2), HPM |-> Field(3, 29)])
mcounteren == BitRegister([CY |-> Flag(0), TM |-> Flag(1), IR |-> Flag(2), HPM |-> Field(3, 29)])

mcause == BitRegister([INTERRUPT |-> Flag(xlen - 1), EXCEPTION_CODE |-> XlenField(0, xlen - 1)])
scause == BitRegister([INTERRUPT |-> Flag(xlen - 1), EXCEPTION_CODE |-> XlenField(0, xlen - 1)])
sstatus == BitRegister([SIE |-> Flag(2), SPIE |-> Flag(5), SPP |-> Flag(8)])
stvec == BitRegister([BASE |-> XlenField(2, xlen - 2), MODE |-> Field(0, 2)])
sip == BitRegister([SSI |-> Flag(1), STI |-> Flag(5), SEI |-> Flag(9),
                    USI |-> Flag(0), UTI |-> Flag(4), UEI |-> Flag(8)])
sie == BitRegister([SSI |-> Flag(1), STI |-> Flag(5), SEI |-> Flag(9),
                    USI |-> Flag(0), UTI |-> Flag(4), UEI |-> Flag(8)])
ustatus == BitRegister([UIE |-> Flag(1), UPIE |-> Flag(3)])
uip == BitRegister([USI |-> Flag(0), UTI |-> Flag(4), UEI |-> Flag(8)])
uie == BitRegister([USI |-> Flag(0), UTI |-> Flag(4), UEI |-> Flag(8)])
ucause == BitRegister([INTERRUPT |-> Flag(xlen - 1), EXCEPTION_CODE |-> XlenField(0, xlen - 1)])
utvec == BitRegister([BASE |-> XlenField(2, xlen - 2), MODE |-> Field(0, 2)])

BitRegisters ==
  [mstatus |-> mstatus, mtvec |-> mtvec, mip |-> mip, mie |-> mie, mcountinhibit |-> mcountinhibit,
   mcounteren |-> mcounteren, mcause |-> mcause, scause |-> scause, sstatus |-> sstatus,
   stvec |-> stvec, sip |-> sip, sie |-> sie, ustatus |-> ustatus, uip |-> uip, uie |-> uie,
   ucause |-> ucause, utvec |-> utvec]

-------------------------------------------------------------------------------
(* The sections without fields.                                            *)

MachineIds == {"mvendorid", "marchid", "mimpid", "mhartid"}
UserCounters == {"cycle", "time", "instret", "hpmcounter3", "hpmcounter4", "hpmcounter31",
                 "cycleh", "timeh", "instreth", "hpmcounter3h", "hpmcounter4h", "hpmcounter31h"}

Delegation == {"medeleg", "mideleg"}
MachineCounters == {"mcycle", "minstret", "mhpmcounter3", "mhpmevent3"}
MachineTrap == {"scounteren", "mscratch", "mepc"}
SupervisorTrap == {"mtval", "sscratch", "sepc"}
SupervisorDelegation == {"sideleg", "sedeleg"}
UserTrap == {"uscratch", "uepc"}
UserFloat == {"utval", "fflags", "frm", "fcsr"}
SupervisorMemory == {"stval", "satp"}
Hypervisor == {"hstatus", "hedeleg", "hideleg", "hcounteren", "hgatp", "htimedelta", "htimedeltah"}
VirtualSupervisor == {"vsstatus", "vsie", "vstvec", "vsscratch", "vsepc", "vscause", "vstval",
                      "vsip", "vsatp"}
BaseAndBound == {"mbase", "mbound", "mibase", "mibound", "mdbase", "mdbound"}
MemoryProtection == {"pmpcfg0", "pmpcfg1", "pmpcfg2", "pmpcfg3",
                     "pmpaddr0", "pmpaddr1", "pmpaddr15"}
PerformanceCounters == {"mhpmcounter4", "mhpmcounter31", "mcycleh", "minstreth", "mhpmcounter3h",
                        "mhpmcounter4h", "mhpmcounter31h", "mhpmevent4", "mhpmevent31"}
Debug == {"tselect", "tdata1", "tdata2", "tdata3", "dcsr", "dpc", "dscratch0", "dscratch1"}
HypervisorTrap == {"hie", "hgeie", "htval", "hip", "htinst"}
MachineTrapValues == {"mtinst", "mtval2"}

ReadOnlyRegisters == MachineIds \cup UserCounters \cup {"hgeip"}

PlainRegisters ==
  {"misa", "mstatush"} \cup Delegation \cup MachineCounters \cup MachineTrap \cup SupervisorTrap
  \cup SupervisorDelegation \cup UserTrap \cup UserFloat \cup SupervisorMemory \cup Hypervisor
  \cup VirtualSupervisor \cup BaseAndBound \cup MemoryProtection \cup PerformanceCounters
  \cup Debug \cup HypervisorTrap \cup MachineTrapValues

Whole(calls) == [calls |-> calls, fields |-> [ALL |-> Field(0, xlen)]]

\* The section of register r; without fields, the register is taken as one.
Section(r) == IF r \in ReadOnlyRegisters THEN Whole(ReadOnly)
              ELSE IF r \in PlainRegisters THEN Whole(Plain) ELSE BitRegisters[r]

\* NAME_BIT_MASK, and the bits that the field has whatever its mask is.
MaskOf(r, f) == Section(r).fields[f].mask
FieldBits(r, f) ==
  LET x == Section(r).fields[f] IN Bits(x.offset, x.width) \cap (0 .. xlen - 1)
===============================================================================
