-------------------------------- MODULE Clint ---------------------------------
(***************************************************************************)
(* The iob_clint core, one action per event its always blocks react to: a  *)
(* rising edge of clk_i and the two edges of the asynchronous reset.  All  *)
(* registers are assigned with <= and change together, from the values     *)
(* they and the input ports had before the edge.                           *)
(*                                                                         *)
(* bus and cke_i are the input ports.  The master (the CPU or the test     *)
(* bench) drives them between two edges, so an edge gives them any new     *)
(* value the master may choose.                                            *)
(***************************************************************************)
EXTENDS Dwords

CONSTANTS
  N_CORES,   \* number of harts, 1..8 (the parameter's "max")
  FREQ,      \* frequency of clk_i in Hz
  Requests,  \* what the master may drive on the bus
  CkeLevels  \* levels the clock enable takes; {TRUE} where it is tied to 1

TickHz == 100000  \* MTIME counts at 100 kHz

Address == 0 .. 65535  \* ADDR_W is 16
Strobes == 0 .. 15     \* STRB_W is 4
Request == [valid: BOOLEAN, addr: Address, wstrb: Strobes, wdata: Word]

ASSUME ClintAssumption ==
  /\ N_CORES \in 1 .. 8
  /\ FREQ \in Nat /\ FREQ >= TickHz
  /\ Requests \subseteq Request
  /\ CkeLevels \subseteq BOOLEAN

VARIABLES
  arst_i,             \* the asynchronous reset
  cke_i,              \* the clock enable
  bus,                \* iob_valid_i, iob_addr_i, iob_wstrb_i, iob_wdata_i
  mtime,              \* mtime_o
  mtimecmp,           \* mtimecmp, one 64-bit register per hart
  msip_reg,           \* one bit per hart
  iob_rdata_reg,
  iob_rvalid_o,
  counter,            \* output of iob_counter_0
  increment_timer_r   \* increment_timer, one edge later

regs == <<mtime, mtimecmp, msip_reg, iob_rdata_reg, iob_rvalid_o, counter,
          increment_timer_r>>
vars == <<arst_i, cke_i, bus, regs>>

Harts == 0 .. N_CORES - 1

-------------------------------------------------------------------------------
(* The address decoder.  The bases are the localparams of the snippet.     *)

MSIBase      == 0
MTimeCMPBase == 16384
MTimeBase    == 49144

\* Faulty variant: $clog2 rounded down, so hart 2 of three shares hart 0's.
SelSpanTooNarrow == IF N_CORES <= 3 THEN 2 ELSE 4

\* How many harts a hart select field of AddrSelWidth bits can name.
SelSpan == IF N_CORES <= 2 THEN 2 ELSE IF N_CORES <= 4 THEN 4 ELSE 8

HartOfMsip(addr) == (addr \div 4) % SelSpan  \* iob_addr_i[AddrSelWidth+1:2]
HartOfCmp(addr)  == (addr \div 8) % SelSpan  \* iob_addr_i[AddrSelWidth+2:3]
HalfOf(addr)     == (addr \div 4) % 2        \* iob_addr_i[2]

\* |iob_wstrb_i: any byte strobe makes the request a write of the whole word.
write == bus.wstrb # 0

WritesIn(base, size) ==
  bus.valid /\ write /\ bus.addr >= base /\ bus.addr < base + size

\* Faulty variant: the bound of the MSIP file, used for the MTIMECMP file.
WritesMtimecmpTooNarrow == WritesIn(MTimeCMPBase, 4 * N_CORES)

WritesMsip     == WritesIn(MSIBase, 4 * N_CORES)
WritesMtimecmp == WritesIn(MTimeCMPBase, 8 * N_CORES)
WritesMtime    == WritesIn(MTimeBase, 8)

\* Faulty variant: the words of MTIME in the other order.
ReadMuxHighFirst(addr) ==
  IF addr < MTimeCMPBase THEN
    IF HartOfMsip(addr) \in Harts THEN {msip_reg[HartOfMsip(addr)]} ELSE {0, 1}
  ELSE IF addr < MTimeBase THEN
    IF HartOfCmp(addr) \in Harts THEN {mtimecmp[HartOfCmp(addr)][HalfOf(addr)]}
                                 ELSE Word
  ELSE {mtime[1 - HalfOf(addr)]}

\* The words the read multiplexer may give.  A hart select beyond the last
\* hart is an out-of-range select: x in simulation, anything in a netlist.
ReadMux(addr) ==
  IF addr < MTimeCMPBase THEN
    IF HartOfMsip(addr) \in Harts THEN {msip_reg[HartOfMsip(addr)]} ELSE {0, 1}
  ELSE IF addr < MTimeBase THEN
    IF HartOfCmp(addr) \in Harts THEN {mtimecmp[HartOfCmp(addr)][HalfOf(addr)]}
                                 ELSE Word
  ELSE {mtime[HalfOf(addr)]}

-------------------------------------------------------------------------------
(* The tick generator: iob_counter_0 is reset by counter_e_inverted and    *)
(* enabled by counter_e, so it counts 0 .. Period-1.  It is 10 bits wide.  *)

Period == FREQ \div TickHz

CounterSpan == 1024

\* Faulty variants: the count compared with one too many.
counter_eTooLong       == counter < Period
increment_timerTooLate == counter = Period

counter_e       == counter < Period - 1
increment_timer == counter = Period - 1

\* External: iob_counter and the registers generated for the _nxt signals
\* hold their value while cke_i is low.
CounterNext == IF ~cke_i THEN counter
               ELSE IF counter_e THEN (counter + 1) % CounterSpan ELSE 0

\* Faulty variant: a tick once raised is never taken back.
TickNextStuck == increment_timer \/ increment_timer_r

TickNext == IF cke_i THEN increment_timer ELSE increment_timer_r

\* Faulty variant: value and enable the other way round.
RvalidNextSwapped == IF cke_i /\ bus.valid THEN write ELSE iob_rvalid_o

\* iob_rvalid_o_nxt = iob_valid_i, enabled by ~write.
RvalidNext == IF cke_i /\ ~write THEN bus.valid ELSE iob_rvalid_o

-------------------------------------------------------------------------------
(* The registers of the snippet, one operator per always block.            *)

MtimeNext ==
  IF WritesMtime THEN [mtime EXCEPT ![HalfOf(bus.addr)] = bus.wdata]
  ELSE IF increment_timer_r THEN Incr(mtime) ELSE mtime

MtimecmpNext ==
  IF WritesMtimecmp
  THEN [mtimecmp EXCEPT ![HartOfCmp(bus.addr)][HalfOf(bus.addr)] = bus.wdata]
  ELSE mtimecmp

\* Faulty variant: the whole data word stored, not its least significant bit.
MsipNextWholeWord ==
  IF WritesMsip THEN [msip_reg EXCEPT ![HartOfMsip(bus.addr)] = bus.wdata]
  ELSE msip_reg

MsipNext ==
  IF WritesMsip THEN [msip_reg EXCEPT ![HartOfMsip(bus.addr)] = bus.wdata % 2]
  ELSE msip_reg

\* The interrupt pins.
mtip_o(h) == ~arst_i /\ Geq(mtime, mtimecmp[h])
msip_o(h) == msip_reg[h] = 1

-------------------------------------------------------------------------------
Init ==
  /\ arst_i = TRUE
  /\ cke_i \in CkeLevels
  /\ bus \in Requests
  /\ mtime = Zeros
  /\ mtimecmp = [h \in Harts |-> Ones]
  /\ msip_reg = [h \in Harts |-> 0]
  /\ iob_rdata_reg = 0
  /\ iob_rvalid_o = FALSE
  /\ counter = 0
  /\ increment_timer_r = FALSE

\* The master drives its next request, or leaves the bus idle.
DriveInputs == bus' \in Requests /\ cke_i' \in CkeLevels

\* posedge clk_i.  iob_ready_o is always 1: every request is taken at once.
Edge ==
  /\ ~arst_i
  /\ mtime' = MtimeNext
  /\ mtimecmp' = MtimecmpNext
  /\ msip_reg' = MsipNext
  /\ iob_rdata_reg' \in ReadMux(bus.addr)
  /\ iob_rvalid_o' = RvalidNext
  /\ counter' = CounterNext
  /\ increment_timer_r' = TickNext
  /\ DriveInputs
  /\ UNCHANGED arst_i

\* posedge clk_i under reset: every block takes its reset branch again.
ResetEdge ==
  /\ arst_i
  /\ DriveInputs
  /\ UNCHANGED <<arst_i, regs>>

\* Faulty variant: the compare registers are not reset.
AssertResetForgetsCmp ==
  /\ ~arst_i
  /\ arst_i' = TRUE
  /\ mtime' = Zeros
  /\ msip_reg' = [h \in Harts |-> 0]
  /\ iob_rdata_reg' = 0
  /\ iob_rvalid_o' = FALSE
  /\ counter' = 0
  /\ increment_timer_r' = FALSE
  /\ UNCHANGED <<cke_i, bus, mtimecmp>>

\* posedge arst_i, at any time between two clock edges.
AssertReset ==
  /\ ~arst_i
  /\ arst_i' = TRUE
  /\ mtime' = Zeros
  /\ mtimecmp' = [h \in Harts |-> Ones]
  /\ msip_reg' = [h \in Harts |-> 0]
  /\ iob_rdata_reg' = 0
  /\ iob_rvalid_o' = FALSE
  /\ counter' = 0
  /\ increment_timer_r' = FALSE
  /\ UNCHANGED <<cke_i, bus>>

ReleaseReset ==
  /\ arst_i
  /\ arst_i' = FALSE
  /\ UNCHANGED <<cke_i, bus, regs>>

Next == Edge \/ ResetEdge \/ AssertReset \/ ReleaseReset

Spec == Init /\ [][Next]_vars
===============================================================================
