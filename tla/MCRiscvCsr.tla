------------------------------- MODULE MCRiscvCsr -----------------------------
(***************************************************************************)
(* Users of one hart's registers for TLC.                                  *)
(***************************************************************************)
EXTENDS RiscvCsr

\* The interrupt enables of mie and the bits of mcountinhibit are shared between
\* the main program and an interrupt service routine; mstatus is the former's,
\* mcounteren and mscratch are the latter's.  A trap changes none of them.
SharedEnables ==
  [main |-> {<<"mie", "MTI">>, <<"mcountinhibit", "HPM">>, <<"mstatus", "MPRV">>},
   isr  |-> {<<"mie", "SSI">>, <<"mcountinhibit", "CY">>, <<"mcounteren", "IR">>,
             <<"mscratch", "ALL">>}]

SoftwareLock == <<"mie", "USI">>

AllClear == {[r \in Registers |-> {}]}
===============================================================================
