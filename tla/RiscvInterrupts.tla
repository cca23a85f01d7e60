---------------------------- MODULE RiscvInterrupts ---------------------------
(***************************************************************************)
(* The interrupt numbers of riscv-interrupts.h: bit positions of mip and   *)
(* mie and, for an interrupt, the exception code of mcause.                *)
(***************************************************************************)
EXTENDS Integers

RISCV_INT_POS == [MSI |-> 3, MTI |-> 7, MEI |-> 11, SSI |-> 1, STI |-> 5, SEI |-> 9,
                  USI |-> 0, UTI |-> 4, UEI |-> 8]

\* A mask is the set of its 1-bits.
RISCV_INT_MASK == [i \in DOMAIN RISCV_INT_POS |-> {RISCV_INT_POS[i]}]
===============================================================================
