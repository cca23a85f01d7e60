------------------------------ MODULE ClintRegMap -----------------------------
(***************************************************************************)
(* The core seen through its register map: the correctness properties of   *)
(* the registers, the interrupt pins and the bus responses of Clint, and   *)
(* the refinement of RegMap.                                               *)
(***************************************************************************)
EXTENDS Clint

\* The register map of README.md as offsets into the three register files:
\* MSIP n*4 bytes, MTIMECMP n*8 bytes, MTIME 8 bytes.
InMsip(addr)     == addr < MSIBase + 4 * N_CORES
InMtimecmp(addr) == addr >= MTimeCMPBase /\ addr < MTimeCMPBase + 8 * N_CORES
InMtime(addr)    == addr >= MTimeBase /\ addr < MTimeBase + 8

\* The access to the word at addr, of a file whose registers are width bytes.
\* A store of a byte or a half-word stores the word it falls in.
WordAccess(reg, offset, width, v) ==
  [reg |-> reg, hart |-> offset \div width, half |-> (offset % width) \div 4, val |-> v]

NoAccess == [reg |-> "none", hart |-> 0, half |-> 0, val |-> 0]

\* The access that names the word of the map at r.addr.
WordNamed(r) ==
  IF InMsip(r.addr) THEN WordAccess("msip", r.addr - MSIBase, 4, r.wdata)
  ELSE IF InMtimecmp(r.addr)
       THEN WordAccess("mtimecmp", r.addr - MTimeCMPBase, 8, r.wdata)
  ELSE IF InMtime(r.addr) THEN WordAccess("mtime", r.addr - MTimeBase, 8, r.wdata)
  ELSE NoAccess

RequestedOp(r) == IF r.valid /\ r.wstrb # 0 THEN WordNamed(r) ELSE NoAccess

RM == INSTANCE RegMap WITH
        op   <- RequestedOp(bus),
        time <- Val(mtime),
        cmp  <- [h \in Harts |-> Val(mtimecmp[h])],
        soft <- {h \in Harts : msip_o(h)}

-------------------------------------------------------------------------------
\* Every variable holds a value its declaration allows; while arst_i is high
\* the registers hold their reset values.
TypeOK ==
  /\ arst_i \in BOOLEAN /\ cke_i \in CkeLevels /\ bus \in Requests
  /\ mtime \in Dword /\ mtimecmp \in [Harts -> Dword] /\ msip_reg \in [Harts -> {0, 1}]
  /\ iob_rdata_reg \in Word /\ iob_rvalid_o \in BOOLEAN
  /\ counter \in 0 .. CounterSpan - 1 /\ increment_timer_r \in BOOLEAN
  /\ arst_i => /\ mtime = Zeros /\ mtimecmp = [h \in Harts |-> Ones]
               /\ msip_reg = [h \in Harts |-> 0]

\* Every step of the core is a step of the register map: the access on the
\* bus changes the word it names, of the hart it names, and no other; the
\* timer moves by one at most and never while it is being written.
RefinesRegMap == RM!Spec

\* A read of a register of the map is answered at the very next edge, with
\* the word that register held when the read was taken: a write, a tick or
\* another hart's registers at the same edge do not show through.
ReadsReturnRegisters ==
  [][Edge /\ cke_i /\ bus.valid /\ bus.wstrb = 0 =>
       /\ iob_rvalid_o'
       /\ LET w == WordNamed(bus) IN
          /\ w.reg = "msip" => iob_rdata_reg' = msip_reg[w.hart]
          /\ w.reg = "mtimecmp" => RM!IsHalf(Val(mtimecmp[w.hart]), w.half, iob_rdata_reg')
          /\ w.reg = "mtime" => RM!IsHalf(Val(mtime), w.half, iob_rdata_reg')]_vars

\* The request on the bus writes a word of hart h's compare register.
WritesCmpOf(h) ==
  RequestedOp(bus).reg = "mtimecmp" /\ RequestedOp(bus).hart = h

\* The timer interrupt of a hart is on time and level triggered.  It rises
\* by itself only at the tick that makes MTIME equal to the deadline, never
\* later; it falls by itself only when MTIME wraps.  Software moves it only
\* by writing MTIME or that hart's own MTIMECMP, and reset clears it.
InterruptsOnTime ==
  [][\A h \in Harts :
       /\ ~mtip_o(h) /\ mtip_o(h)' =>
            WritesMtime \/ WritesCmpOf(h) \/ mtime' = mtimecmp[h]
       /\ mtip_o(h) /\ ~mtip_o(h)' =>
            WritesMtime \/ WritesCmpOf(h) \/ mtime = Ones \/ arst_i']_vars

-------------------------------------------------------------------------------
\* clk_i is a free-running clock: an edge that can happen does happen.
FairSpec == Spec /\ WF_vars(Edge)

\* Software leaves the registers alone and the core is not in reset.
Quiet == ~arst_i /\ ~(bus.valid /\ bus.wstrb # 0)

\* A timer interrupt that is armed fires: if software stops writing, every
\* hart's timer interrupt is raised, whatever its deadline and whatever MTIME
\* was when software stopped.
ArmedTimerFires == \A h \in Harts : <>[]Quiet => []<>mtip_o(h)
===============================================================================
