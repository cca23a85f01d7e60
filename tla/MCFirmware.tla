------------------------------- MODULE MCFirmware -----------------------------
(***************************************************************************)
(* The firmware beside a hart that sends it software interrupts.           *)
(***************************************************************************)
EXTENDS FirmwareProperties

Words(h, l) == [w \in Halves |-> IF w = 1 THEN h ELSE l]

TwoTicks == Words(0, 2)
ThreeTicks == Words(1, 0)
HandlerAddress == {5, 12}

\* Registers after a reset at power-up, and after one in the middle of things:
\* interrupts left enabled in mie, an old cause, no vector or that of an earlier run.
Registers(status, enables, cause, vector) ==
  [mstatus |-> status, mie |-> enables, mcause |-> cause, mtvec |-> vector]

TimerBit == RISCV_INT_MASK["MTI"]
SoftwareBit == RISCV_INT_MASK["MSI"]

LeftOver ==
  {Registers({}, {}, {}, {}),
   Registers({}, TimerBit \cup SoftwareBit, Cause("MSI"), {}),
   Registers({7}, TimerBit, Cause("MTI"), HandlerAddress)}

FirmwareCalls ==
  {HartCall("main", "mtimer_get_raw_time", Zeros),
   HartCall("main", "mtimer_set_raw_time_cmp", FirstOffset),
   HartCall("isr", "mtimer_get_raw_time", Zeros),
   HartCall("isr", "mtimer_set_raw_time_cmp", SecondOffset),
   HartCall("other", "clint_set_msip", Words(0, 1))}
===============================================================================
