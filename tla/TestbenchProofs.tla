----------------------------- MODULE TestbenchProofs --------------------------
(***************************************************************************)
(* Theorems about Testbench, for the full width of a word, every number of *)
(* harts and every clock and choice of the bench's numbers that meet the   *)
(* stated conditions.                                                      *)
(***************************************************************************)
EXTENDS Testbench, ClintProofs

\* The conditions.  The bench holds cke_i high, and the counter can hold the
\* period.  The first deadline is armed before MTIME ticks, and comes before
\* the loop ends; the second one does not.
BenchNumbers ==
  /\ CkeLevels = {TRUE} /\ Period <= CounterSpan
  /\ SettleEdges + 2 < Period /\ Deadline > 0
  /\ Period * Deadline < SettleEdges + 2 + Iterations
  /\ Iterations + 4 < Far

\* They hold of the bench: 100 MHz, ten edges after reset, deadlines at 200 and
\* 1000000 ticks, 250000 rounds of the loop.
LEMMA BenchNumbersHold ==
  /\ FREQ = 100000000 /\ CkeLevels = {TRUE} /\ SettleEdges = 10
  /\ Deadline = 200 /\ Far = 1000000 /\ Iterations = 250000
  => BenchNumbers
<1>1. 100000000 \div 100000 = 1000  OBVIOUS
<1> QED  BY <1>1 DEF BenchNumbers, Period, TickHz, CounterSpan

\* MTIME or a deadline whose high word is 0.
Count(k) == [w \in Halves |-> IF w = 0 THEN k ELSE 0]

Seen(timer, software) ==
  [what \in {"timer", "software"} |-> IF what = "timer" THEN timer ELSE software]

\* The request that is on the bus at each place of the bench; the others leave
\* the bus idle.
Driven ==
  [cmp_low |-> Inputs(MTimeCMPBase, Deadline, 15), cmp_high |-> Inputs(MTimeCMPBase + 4, 0, 15),
   msip_set |-> Inputs(MSIBase, 1, 15),
   read_low |-> Inputs(MTimeBase, 0, 0), read_high |-> Inputs(MTimeBase + 4, 0, 0),
   time_low |-> Inputs(MTimeBase, 0, 15), cmp_far |-> Inputs(MTimeCMPBase, Far, 15),
   msip_clear |-> Inputs(MSIBase, 0, 15)]

IdlePlaces == {"reset", "settle", "advance", "last", "finished"}

\* The tick that MTIME counts at the next edge.
Due == IF increment_timer_r THEN 1 ELSE 0

PortInv ==
  /\ (at \in DOMAIN Driven /\ bus = Driven[at]) \/ (at \in IdlePlaces /\ bus.valid = FALSE)
  /\ arst_i = (at = "reset") /\ cke_i = TRUE
  /\ counter \in 0 .. Period - 1 /\ (increment_timer_r => counter = 0)
  /\ \A h \in Harts \ {0} : mtimecmp[h] = Ones /\ msip_reg[h] = 0

\* Up to the store that completes the first deadline MTIME has not ticked.
ArmInv ==
  at \in {"reset", "settle", "cmp_low", "cmp_high"} =>
    /\ mtime = Zeros /\ ~increment_timer_r /\ msip_reg[0] = 0
    /\ i = 0 /\ seen = Seen(0, 0)
    /\ at = "reset" => counter = 0
    /\ at = "settle" => n \in 1 .. SettleEdges /\ counter = SettleEdges - n
    /\ at = "cmp_low" => counter = SettleEdges
    /\ at = "cmp_high" => counter = SettleEdges + 1 /\ mtimecmp[0][0] = Deadline

\* The loop, until the deadline: MTIME accounts for the edges so far.
WaitInv ==
  at = "advance" /\ seen["timer"] = 0 =>
    /\ seen = Seen(0, 0) /\ msip_reg[0] = 0
    /\ mtimecmp[0] = Count(Deadline) /\ i \in 0 .. Iterations
    /\ \E k \in 0 .. Deadline - 1 :
         mtime = Count(k) /\ SettleEdges + 2 + i = Period * (k + Due) + counter

\* The timer interrupt is being handled; a period lasts longer than the reads.
TakeInv ==
  at \in {"msip_set", "read_low", "read_high", "time_low", "cmp_far"} =>
    /\ seen = Seen(1, 0) /\ mtimecmp[0] = Count(Deadline) /\ i \in 0 .. Iterations
    /\ msip_reg[0] = IF at = "msip_set" THEN 0 ELSE 1
    /\ mtime = IF at = "cmp_far" THEN Zeros ELSE Count(Deadline)
    /\ at = "msip_set" => counter = 1
    /\ at = "read_low" => counter = 2 /\ timer_read = Zeros
    /\ at = "read_high" => counter = 3 /\ timer_read = Count(Deadline)
    /\ at = "time_low" => timer_read = Count(Deadline)

\* Both interrupts have been handled, and MTIME, which ticks once for an edge at
\* most, will not get as far as the second deadline.
DoneInv ==
  at \in {"msip_clear", "last", "finished"} \/ (at = "advance" /\ seen["timer"] # 0) =>
    /\ seen = Seen(1, 1) /\ mtimecmp[0] = Count(Far)
    /\ msip_reg[0] = IF at = "msip_clear" THEN 1 ELSE 0
    /\ i \in 0 .. Iterations + 1 /\ (at \in {"msip_clear", "advance"} => i <= Iterations)
    /\ \E k \in 0 .. i + (IF at = "msip_clear" THEN 1 ELSE IF at = "finished" THEN 3 ELSE 2) :
         mtime = Count(k)

BenchInv == PortInv /\ ArmInv /\ WaitInv /\ TakeInv /\ DoneInv
-------------------------------------------------------------------------------
(* What an edge does to the registers, for each kind of request that the   *)
(* bench drives.                                                           *)

\* A read, or an idle bus, writes nothing.
LEMMA QuietEdge ==
  ASSUME Edge, ~bus.valid \/ bus.wstrb = 0
  PROVE  mtimecmp' = mtimecmp /\ msip_reg' = msip_reg /\ ~WritesMtime
<1>1. ~WritesMsip /\ ~WritesMtimecmp /\ ~WritesMtime
  BY DEF WritesMsip, WritesMtimecmp, WritesMtime, WritesIn, write
<1> QED  BY <1>1 DEF Edge, MtimecmpNext, MsipNext

\* A store to a word of the first compare register.
LEMMA CmpEdge ==
  ASSUME Edge, NEW w \in Halves, NEW v \in Word, bus = Inputs(MTimeCMPBase + 4 * w, v, 15)
  PROVE  /\ mtimecmp' = [mtimecmp EXCEPT ![0][w] = v]
         /\ msip_reg' = msip_reg /\ ~WritesMtime
<1>1. /\ bus.valid = TRUE /\ bus.addr = MTimeCMPBase + 4 * w
      /\ bus.wstrb = 15 /\ bus.wdata = v
  BY Zenon DEF Inputs
<1>2. N_CORES \in 1 .. 8 /\ SelSpan \in {2, 4, 8}  BY ClintAssumption DEF SelSpan
<1>3. WritesMtimecmp /\ ~WritesMsip /\ ~WritesMtime
  BY <1>1, <1>2 DEF WritesMsip, WritesMtimecmp, WritesMtime, WritesIn, write,
                    MSIBase, MTimeCMPBase, MTimeBase, Halves
<1>4. HartOfCmp(bus.addr) = 0
  BY <1>1, <1>2 DEF HartOfCmp, MTimeCMPBase, Halves
<1>5. HalfOf(bus.addr) = w
  BY <1>1 DEF HalfOf, MTimeCMPBase, Halves
<1>6. mtimecmp' = [mtimecmp EXCEPT ![0][w] = v]
  BY <1>1, <1>3, <1>4, <1>5 DEF Edge, MtimecmpNext
<1> QED  BY <1>3, <1>6 DEF Edge, MsipNext

\* A store to the first hart's software interrupt bit.
LEMMA MsipEdge ==
  ASSUME Edge, NEW v \in {0, 1}, bus = Inputs(MSIBase, v, 15)
  PROVE  /\ msip_reg' = [msip_reg EXCEPT ![0] = v]
         /\ mtimecmp' = mtimecmp /\ ~WritesMtime
<1>1. bus.valid = TRUE /\ bus.addr = MSIBase /\ bus.wstrb = 15 /\ bus.wdata = v
  BY Zenon DEF Inputs
<1>2. N_CORES \in 1 .. 8 /\ SelSpan \in {2, 4, 8}  BY ClintAssumption DEF SelSpan
<1>3. WritesMsip /\ ~WritesMtimecmp /\ ~WritesMtime
  BY <1>1, <1>2 DEF WritesMsip, WritesMtimecmp, WritesMtime, WritesIn, write,
                    MSIBase, MTimeCMPBase, MTimeBase
<1>4. HartOfMsip(bus.addr) = 0 /\ bus.wdata % 2 = v
  BY <1>1, <1>2 DEF HartOfMsip, MSIBase
<1>5. msip_reg' = [msip_reg EXCEPT ![0] = v]
  BY <1>3, <1>4 DEF Edge, MsipNext
<1> QED  BY <1>3, <1>5 DEF Edge, MtimecmpNext

\* A store of 0 to the low word of MTIME.
LEMMA TimeEdge ==
  ASSUME Edge, bus = Inputs(MTimeBase, 0, 15)
  PROVE  /\ mtime' = [mtime EXCEPT ![0] = 0]
         /\ mtimecmp' = mtimecmp /\ msip_reg' = msip_reg
<1>1. bus.valid = TRUE /\ bus.addr = MTimeBase /\ bus.wstrb = 15 /\ bus.wdata = 0
  BY Zenon DEF Inputs
<1>2. N_CORES \in 1 .. 8  BY ClintAssumption
<1>3. ~WritesMsip /\ ~WritesMtimecmp /\ WritesMtime
  BY <1>1, <1>2 DEF WritesMsip, WritesMtimecmp, WritesMtime, WritesIn, write,
                    MSIBase, MTimeCMPBase, MTimeBase
<1>4. HalfOf(bus.addr) = 0  BY <1>1 DEF HalfOf, MTimeBase
<1>5. mtime' = [mtime EXCEPT ![0] = 0]  BY <1>1, <1>3, <1>4 DEF Edge, MtimeNext
<1> QED  BY <1>3, <1>5 DEF Edge, MtimecmpNext, MsipNext

\* A read of a word of MTIME is answered at once, with that word.
LEMMA ReadEdge ==
  ASSUME Edge, cke_i = TRUE, NEW w \in Halves, bus = Inputs(MTimeBase + 4 * w, 0, 0)
  PROVE  iob_rvalid_o' = TRUE /\ iob_rdata_reg' = mtime[w]
<1>1. bus.valid = TRUE /\ bus.addr = MTimeBase + 4 * w /\ bus.wstrb = 0
  BY Zenon DEF Inputs
<1>2. iob_rvalid_o' = TRUE  BY <1>1, Zenon DEF Edge, RvalidNext, write
<1>3. /\ HalfOf(bus.addr) = w
      /\ ~(bus.addr < MTimeCMPBase) /\ ~(bus.addr < MTimeBase)
  BY <1>1 DEF HalfOf, MTimeCMPBase, MTimeBase, Halves
<1>4. ReadMux(bus.addr) = {mtime[w]}  BY <1>3 DEF ReadMux
<1> QED  BY <1>2, <1>4 DEF Edge

\* An edge that does not write MTIME counts the tick that is due.
LEMMA TickEdge ==
  ASSUME TypeOK, Edge, ~WritesMtime, NEW k \in Nat, k + 1 < Radix, mtime = Count(k)
  PROVE  mtime' = Count(k + Due) /\ Due \in {0, 1}
<1>1. mtime' = IF increment_timer_r THEN Incr(mtime) ELSE mtime
  BY DEF Edge, MtimeNext
<1>2. Incr(Count(k)) = Count(k + 1)
  <2>1. Count(k) \in Dword /\ Count(k + 1) \in Dword
    BY RadixAssumption DEF Count, Dword, Word, Halves
  <2>2. Count(k)[0] = k /\ Count(k)[1] = 0 /\ Count(k + 1)[0] = k + 1 /\ Count(k + 1)[1] = 0
    BY DEF Count, Halves
  <2>3. k < Radix - 1  BY RadixAssumption
  <2> QED  BY <2>1, <2>2, <2>3, IncrWords, SameWords, DwordOps
<1>3. Count(k + 0) = Count(k)  BY DEF Count
<1> QED  BY <1>1, <1>2, <1>3 DEF Due

\* The period is long enough for the reads of the handler.
LEMMA PeriodLong == BenchNumbers => Period \in Nat /\ Period >= 4
BY PeriodPositive, TestbenchAssumption DEF BenchNumbers

\* The tick generator moves by one edge.
LEMMA CounterEdge ==
  ASSUME BenchNumbers, PortInv, Edge
  PROVE  /\ counter' = IF counter < Period - 1 THEN counter + 1 ELSE 0
         /\ increment_timer_r' <=> counter = Period - 1
         /\ counter' \in 0 .. Period - 1 /\ (increment_timer_r' => counter' = 0)
<1>1. cke_i = TRUE /\ counter \in Nat /\ counter < Period
  BY PeriodLong DEF PortInv
<1>2. counter' = IF counter < Period - 1 THEN (counter + 1) % CounterSpan ELSE 0
  BY <1>1, Zenon DEF Edge, CounterNext, counter_e
<1>3. increment_timer_r' <=> counter = Period - 1
  BY <1>1, Zenon DEF Edge, TickNext, increment_timer
<1>4. counter < Period - 1 => (counter + 1) % CounterSpan = counter + 1
  BY <1>1, PeriodLong DEF BenchNumbers, CounterSpan
<1>5. counter' = IF counter < Period - 1 THEN counter + 1 ELSE 0
  BY <1>2, <1>4
<1>6. counter' \in 0 .. Period - 1 /\ (counter = Period - 1 => counter' = 0)
  BY <1>1, <1>5, PeriodLong
<1> QED  BY <1>3, <1>5, <1>6, Zenon
-------------------------------------------------------------------------------
\* The requests, place by place.
LEMMA DrivenAt ==
  /\ DOMAIN Driven = {"cmp_low", "cmp_high", "msip_set", "read_low", "read_high", "time_low",
                      "cmp_far", "msip_clear"}
  /\ IdlePlaces = {"reset", "settle", "advance", "last", "finished"}
  /\ Driven["cmp_low"] = Inputs(MTimeCMPBase + 4 * 0, Deadline, 15)
  /\ Driven["cmp_high"] = Inputs(MTimeCMPBase + 4 * 1, 0, 15)
  /\ Driven["cmp_far"] = Inputs(MTimeCMPBase + 4 * 0, Far, 15)
  /\ Driven["msip_set"] = Inputs(MSIBase, 1, 15)
  /\ Driven["msip_clear"] = Inputs(MSIBase, 0, 15)
  /\ Driven["read_low"] = Inputs(MTimeBase + 4 * 0, 0, 0)
  /\ Driven["read_high"] = Inputs(MTimeBase + 4 * 1, 0, 0)
  /\ Driven["time_low"] = Inputs(MTimeBase, 0, 15)
<1>1. MTimeCMPBase + 4 * 0 = MTimeCMPBase /\ MTimeBase + 4 * 0 = MTimeBase
  BY DEF MTimeCMPBase, MTimeBase
<1>2. 4 * 1 = 4  OBVIOUS
<1> QED  BY <1>1, <1>2 DEF Driven, IdlePlaces

\* Where the bench reads, or leaves the bus idle.
LEMMA QuietPlaces ==
  ASSUME PortInv, at \in {"settle", "advance", "last", "finished", "read_low", "read_high"}
  PROVE  ~bus.valid \/ bus.wstrb = 0
<1>1. (at \in DOMAIN Driven /\ bus = Driven[at]) \/ bus.valid = FALSE  BY DEF PortInv
<1>2. CASE at \in {"settle", "advance", "last", "finished"}
  <2>1. bus.valid = FALSE  BY <1>1, <1>2, DrivenAt
  <2> QED  BY <2>1
<1>3. CASE at = "read_low" \/ at = "read_high"
  <2>1. bus = Inputs(MTimeBase + 4 * 0, 0, 0) \/ bus = Inputs(MTimeBase + 4 * 1, 0, 0)
        \/ bus.valid = FALSE
    BY <1>1, <1>3, DrivenAt
  <2>2. \A addr : Inputs(addr, 0, 0).wstrb = 0  BY DEF Inputs
  <2> QED  BY <2>1, <2>2
<1> QED  BY <1>2, <1>3

\* The registers of the other harts stay as the reset left them.
LEMMA OthersKept ==
  ASSUME TypeOK, PortInv, Edge
  PROVE  \A h \in Harts \ {0} : mtimecmp'[h] = Ones /\ msip_reg'[h] = 0
<1>1. ASSUME mtimecmp' = mtimecmp \/ \E w \in Halves, v \in Word :
                mtimecmp' = [mtimecmp EXCEPT ![0][w] = v],
             msip_reg' = msip_reg \/ \E v \in {0, 1} : msip_reg' = [msip_reg EXCEPT ![0] = v]
      PROVE  \A h \in Harts \ {0} : mtimecmp'[h] = Ones /\ msip_reg'[h] = 0
  BY <1>1 DEF PortInv, TypeOK
<1>2. /\ at \in DOMAIN Driven \cup IdlePlaces
      /\ at \in DOMAIN Driven => bus = Driven[at]
  BY DrivenAt DEF PortInv
<1>3. 0 \in Halves /\ 1 \in Halves /\ 0 \in Word /\ Deadline \in Word /\ Far \in Word
  BY RadixAssumption, TestbenchAssumption DEF Halves, Word
<1>4. at # "reset"  BY DEF PortInv, Edge
<1>5. CASE at \in {"settle", "advance", "last", "finished", "read_low", "read_high"}
  BY <1>1, <1>5, QuietEdge, QuietPlaces, Zenon
<1>6. CASE at \in {"cmp_low", "cmp_high", "cmp_far"}
  BY <1>1, <1>2, <1>3, <1>6, CmpEdge, DrivenAt
<1>7. CASE at \in {"msip_set", "msip_clear"}
  BY <1>1, <1>2, <1>7, MsipEdge, DrivenAt
<1>8. CASE at = "time_low"
  BY <1>1, <1>2, <1>8, TimeEdge, DrivenAt
<1> QED  BY <1>2, <1>4, <1>5, <1>6, <1>7, <1>8, DrivenAt

\* An edge, after which the bench drives the request of its next place.
LEMMA PortStep ==
  ASSUME BenchNumbers, TypeOK, PortInv, Edge, NEW p \in DOMAIN Driven \cup IdlePlaces,
         p # "reset",
         p \in IdlePlaces => Drives(Cleared(bus), p),
         p \notin IdlePlaces => Drives(Driven[p], p)
  PROVE  PortInv'
<1>1. /\ at' = p
      /\ (p \in DOMAIN Driven /\ bus' = Driven[p]) \/ (p \in IdlePlaces /\ bus'.valid = FALSE)
  <2>1. Cleared(bus).valid = FALSE  BY DEF Cleared
  <2>2. CASE p \in IdlePlaces  BY <2>1, <2>2, Zenon DEF Drives
  <2>3. CASE p \notin IdlePlaces
    <3>1. p \in DOMAIN Driven  BY <2>3
    <3> QED  BY <2>3, <3>1, Zenon DEF Drives
  <2> QED  BY <2>2, <2>3
<1>2. arst_i' = FALSE /\ cke_i' = TRUE
  BY DEF Edge, DriveInputs, TypeOK, BenchNumbers
<1> QED  BY <1>1, <1>2, CounterEdge, OthersKept DEF PortInv

\* What the bench sees on the pins: the first hart's interrupts.
LEMMA Pins ==
  ASSUME TypeOK, PortInv, Edge, NEW k \in Nat, NEW d \in Nat,
         mtime' = Count(k), mtimecmp'[0] = Count(d)
  PROVE  /\ (\E h \in Harts : mtip_o(h)') <=> k >= d
         /\ (\E h \in Harts : msip_o(h)') <=> msip_reg'[0] = 1
<1>1. 0 \in Harts  BY ClintAssumption DEF Harts
<1>2. ~arst_i'  BY DEF Edge
<1>3. Geq(mtime', mtimecmp'[0]) <=> k >= d
  BY DEF Geq, Count, Halves
<1>4. \A h \in Harts \ {0} : ~Geq(mtime', mtimecmp'[h]) /\ msip_reg'[h] = 0
  BY OthersKept, RadixAssumption DEF Geq, Count, Ones, Halves
<1> QED  BY <1>1, <1>2, <1>3, <1>4 DEF mtip_o, msip_o

\* So, while the bench looks at them, it goes where they say.
LEMMA Looks ==
  ASSUME TypeOK, PortInv, Edge, NEW k \in Nat, NEW d \in Nat,
         mtime' = Count(k), mtimecmp'[0] = Count(d)
  PROVE  /\ TestMsip /\ msip_reg'[0] = 1 =>
              Drives(Driven["msip_clear"], "msip_clear") /\ Prints("software")
         /\ TestMsip /\ msip_reg'[0] = 0 =>
              Drives(Cleared(bus), "advance") /\ UNCHANGED seen
         /\ TestMtip /\ k >= d => Drives(Driven["msip_set"], "msip_set") /\ Prints("timer")
         /\ TestMtip /\ ~(k >= d) => TestMsip
<1>1. /\ Driven["msip_clear"] = Inputs(MSIBase, 0, 15)
      /\ Driven["msip_set"] = Inputs(MSIBase, 1, 15)
  BY DrivenAt, Zenon
<1>2. msip_reg'[0] = 0 => msip_reg'[0] # 1  OBVIOUS
<1> QED  BY <1>1, <1>2, Pins, Zenon DEF TestMsip, TestMtip

\* What it prints.
LEMMA SeenPrints ==
  /\ [Seen(0, 0) EXCEPT !["timer"] = @ + 1] = Seen(1, 0)
  /\ [Seen(1, 0) EXCEPT !["software"] = @ + 1] = Seen(1, 1)
  /\ Seen(0, 0)["timer"] = 0 /\ Seen(1, 1)["timer"] = 1
<1>1. \A t, s, u : /\ Seen(t, s)["timer"] = t /\ Seen(t, s)["software"] = s
                   /\ [Seen(t, s) EXCEPT !["timer"] = u] = Seen(u, s)
                   /\ [Seen(t, s) EXCEPT !["software"] = u] = Seen(t, u)
  BY DEF Seen
<1>2. Seen(0, 0)["timer"] + 1 = 1 /\ Seen(1, 0)["software"] + 1 = 1  BY <1>1
<1> QED  BY <1>1, <1>2
-------------------------------------------------------------------------------
(* The invariant, action by action.                                        *)

LEMMA CountZero == Count(0) = Zeros
BY DEF Count, Zeros

LEMMA ResetSteps ==
  ASSUME BenchNumbers, TypeOK, BenchInv, HoldReset \/ EndReset
  PROVE  BenchInv'
<1> USE DEF BenchInv
<1>1. at = "reset" /\ UNCHANGED regs
  BY DEF HoldReset, EndReset, ResetEdge, ReleaseReset
<1>2. PortInv'
  <2>1. bus' = bus /\ cke_i' = TRUE
    BY DEF HoldReset, EndReset, ResetEdge, ReleaseReset, DriveInputs, BenchNumbers, PortInv
  <2>2. arst_i' = (at' = "reset") /\ at' \in {"reset", "settle"}
    BY DEF HoldReset, EndReset, ResetEdge, ReleaseReset, PortInv, TypeOK
  <2>3. at' \in IdlePlaces /\ bus'.valid = FALSE
    BY <1>1, <2>1, <2>2, DrivenAt DEF PortInv
  <2> QED  BY <1>1, <2>1, <2>2, <2>3 DEF PortInv, regs
<1>3. ArmInv'
  BY <1>1, TestbenchAssumption DEF ArmInv, HoldReset, EndReset, regs
<1>4. at' = "reset" \/ at' = "settle"  BY DEF HoldReset, EndReset
<1> QED  BY <1>2, <1>3, <1>4 DEF WaitInv, TakeInv, DoneInv

\* Before the deadline is armed: the tick generator counts, MTIME rests.
LEMMA ArmSteps ==
  ASSUME BenchNumbers, TypeOK, BenchInv, Settle \/ CmpLow \/ CmpHigh
  PROVE  BenchInv'
<1> USE DEF BenchInv
<1>0. /\ Edge /\ at \in {"settle", "cmp_low", "cmp_high"} /\ PortInv /\ ArmInv
      /\ SettleEdges \in Nat \ {0} /\ SettleEdges + 2 < Period /\ Period \in Nat
  BY TestbenchAssumption, PeriodLong DEF Settle, CmpLow, CmpHigh, EdgeAt, BenchNumbers
<1>1. /\ mtime = Zeros /\ ~increment_timer_r /\ msip_reg[0] = 0 /\ i = 0
      /\ seen = Seen(0, 0) /\ counter \in Nat /\ counter < SettleEdges + 2
  BY <1>0 DEF ArmInv
<1>2. counter' = counter + 1 /\ ~increment_timer_r'
  BY <1>0, <1>1, CounterEdge
<1>3. CASE Settle
  <2>1. mtime' = Zeros /\ msip_reg'[0] = 0
    BY <1>0, <1>1, <1>3, QuietEdge, QuietPlaces DEF Edge, MtimeNext, Settle, EdgeAt
  <2>2. n \in 1 .. SettleEdges /\ counter = SettleEdges - n
    BY <1>3 DEF ArmInv, Settle, EdgeAt
  <2>3. CASE n > 1
    <3>1. Drives(Cleared(bus), "settle")  BY <1>3, <2>3, Zenon DEF Settle
    <3>2. PortInv'  BY <1>0, <3>1, PortStep, DrivenAt
    <3>3. at' = "settle" /\ n' = n - 1 /\ UNCHANGED <<i, seen>>
      BY <1>3, <3>1 DEF Drives, Settle
    <3>4. ArmInv'
      BY <1>0, <1>1, <1>2, <2>1, <2>2, <2>3, <3>3 DEF ArmInv
    <3> QED  BY <3>2, <3>3, <3>4 DEF WaitInv, TakeInv, DoneInv
  <2>4. CASE ~(n > 1)
    <3>1. /\ Drives(Inputs(MTimeCMPBase, Deadline, 15), "cmp_low")
          /\ UNCHANGED <<i, seen>>
      BY <1>3, <2>4, Zenon DEF Settle
    <3>2. Driven["cmp_low"] = Inputs(MTimeCMPBase, Deadline, 15)  BY DEF Driven
    <3>3. PortInv'  BY <1>0, <3>1, <3>2, PortStep, DrivenAt
    <3>4. at' = "cmp_low"  BY <3>1 DEF Drives
    <3>5. ArmInv'
      BY <1>0, <1>1, <1>2, <2>1, <2>2, <2>4, <3>1, <3>4 DEF ArmInv
    <3> QED  BY <3>3, <3>4, <3>5 DEF WaitInv, TakeInv, DoneInv
  <2> QED  BY <2>3, <2>4
<1>4. CASE CmpLow
  <2>1. at = "cmp_low" /\ bus = Inputs(MTimeCMPBase + 4 * 0, Deadline, 15)
    BY <1>4, DrivenAt DEF CmpLow, EdgeAt, PortInv
  <2>2. /\ mtimecmp' = [mtimecmp EXCEPT ![0][0] = Deadline]
        /\ msip_reg' = msip_reg /\ ~WritesMtime
    BY <1>0, <2>1, CmpEdge, TestbenchAssumption DEF Halves
  <2>3. mtimecmp'[0][0] = Deadline /\ msip_reg'[0] = 0 /\ mtime' = Zeros
    <3>1. 0 \in Harts  BY ClintAssumption DEF Harts
    <3>2. mtimecmp'[0][0] = Deadline
      BY <2>2, <3>1 DEF TypeOK, Dword, Halves
    <3> QED  BY <1>0, <1>1, <2>2, <3>2 DEF Edge, MtimeNext
  <2>4. Drives(Inputs(MTimeCMPBase + 4, 0, 15), "cmp_high") /\ UNCHANGED <<i, seen>>
    BY <1>4 DEF CmpLow
  <2>5. Driven["cmp_high"] = Inputs(MTimeCMPBase + 4, 0, 15)  BY DEF Driven
  <2>6. PortInv'  BY <1>0, <2>4, <2>5, PortStep, DrivenAt
  <2>7. at' = "cmp_high"  BY <2>4 DEF Drives
  <2>8. ArmInv'
    BY <1>0, <1>1, <1>2, <2>1, <2>3, <2>4, <2>7 DEF ArmInv
  <2> QED  BY <2>6, <2>7, <2>8 DEF WaitInv, TakeInv, DoneInv
<1>5. CASE CmpHigh
  <2>1. at = "cmp_high" /\ bus = Inputs(MTimeCMPBase + 4 * 1, 0, 15)
    BY <1>5, DrivenAt DEF CmpHigh, EdgeAt, PortInv
  <2>2. /\ mtimecmp' = [mtimecmp EXCEPT ![0][1] = 0]
        /\ msip_reg' = msip_reg /\ ~WritesMtime
    BY <1>0, <2>1, CmpEdge, RadixAssumption DEF Halves, Word
  <2>3. mtimecmp'[0] = Count(Deadline)
    <3>1. 0 \in Harts  BY ClintAssumption DEF Harts
    <3>2. mtimecmp[0] \in Dword /\ mtimecmp[0][0] = Deadline
      BY <2>1, <3>1 DEF TypeOK, ArmInv
    <3>3. mtimecmp'[0] = [mtimecmp[0] EXCEPT ![1] = 0]
      BY <2>2, <3>1 DEF TypeOK
    <3> QED  BY <3>2, <3>3 DEF Count, Dword, Halves
  <2>4. msip_reg'[0] = 0 /\ mtime' = Count(0)
    BY <1>0, <1>1, <2>2, CountZero DEF Edge, MtimeNext
  <2>5. Deadline \in Nat /\ ~(0 >= Deadline)
    BY TestbenchAssumption, RadixAssumption DEF Word, BenchNumbers
  <2>6. Drives(Cleared(bus), "advance") /\ UNCHANGED <<i, seen>>
    BY <1>0, <1>5, <2>3, <2>4, <2>5, Looks DEF CmpHigh
  <2>7. PortInv'  BY <1>0, <2>6, PortStep, DrivenAt
  <2>8. at' = "advance"  BY <2>6 DEF Drives
  <2>9. WaitInv'
    <3>1. counter = SettleEdges + 1 /\ Due' = 0  BY <1>2, <2>1 DEF ArmInv, Due
    <3>2. SettleEdges + 2 + i' = Period * (0 + Due') + counter'
      BY <1>0, <1>1, <1>2, <2>6, <3>1
    <3>3. 0 \in 0 .. Deadline - 1 /\ i' \in 0 .. Iterations
      BY <1>1, <2>5, <2>6, TestbenchAssumption
    <3> QED  BY <1>1, <2>3, <2>4, <2>6, <3>2, <3>3 DEF WaitInv
  <2>10. seen'["timer"] = 0  BY <1>1, <2>6, SeenPrints
  <2> QED  BY <2>7, <2>8, <2>9, <2>10 DEF ArmInv, TakeInv, DoneInv
<1> QED  BY <1>3, <1>4, <1>5

\* The loop before the deadline: the edge counted is the edge MTIME accounts for,
\* so that the deadline comes before the loop ends.
LEMMA WaitStep ==
  ASSUME BenchNumbers, TypeOK, BenchInv, Advance, seen["timer"] = 0
  PROVE  BenchInv'
<1> USE DEF BenchInv
<1>0. /\ Edge /\ at = "advance" /\ PortInv /\ WaitInv
      /\ SettleEdges \in Nat /\ Iterations \in Nat /\ Period \in Nat /\ Period >= 4
      /\ Deadline \in Nat /\ Deadline < Radix
      /\ Period * Deadline < SettleEdges + 2 + Iterations
  BY TestbenchAssumption, PeriodLong, RadixAssumption
     DEF Advance, EdgeAt, BenchNumbers, Word
<1>1. /\ seen = Seen(0, 0) /\ msip_reg[0] = 0 /\ mtimecmp[0] = Count(Deadline)
      /\ i \in 0 .. Iterations
  BY <1>0 DEF WaitInv
<1>2. PICK k \in 0 .. Deadline - 1 :
         mtime = Count(k) /\ SettleEdges + 2 + i = Period * (k + Due) + counter
  BY <1>0 DEF WaitInv
<1>3. mtimecmp'[0] = Count(Deadline) /\ msip_reg'[0] = 0 /\ ~WritesMtime
  BY <1>0, <1>1, QuietEdge, QuietPlaces
<1>4. mtime' = Count(k + Due) /\ Due \in {0, 1}
  <2>1. k \in Nat /\ k + 1 < Radix  BY <1>0, RadixAssumption
  <2> QED  BY <1>0, <1>2, <1>3, <2>1, TickEdge
<1>5. PICK m \in 0 .. Deadline : m = k + Due
  BY <1>0, <1>4
<1>6. /\ mtime' = Count(m) /\ SettleEdges + 2 + i = Period * m + counter
      /\ (m = Deadline => Due = 1) /\ (Due = 1 => counter = 0)
      /\ counter \in Nat /\ counter < Period
  BY <1>0, <1>2, <1>4, <1>5 DEF PortInv, Due
<1>7. i < Iterations
  <2>1. /\ Period * m \in Nat /\ Period * (m + 1) = Period * m + Period
        /\ Deadline >= m /\ Period * Deadline \in Nat
        /\ (Deadline >= m + 1 => Period * Deadline >= Period * (m + 1))
        /\ Period * Deadline >= Period * m
    BY <1>0, Multiples
  <2>2. Period * m + counter <= Period * Deadline
    <3>1. CASE m = Deadline  BY <1>6, <2>1, <3>1
    <3>2. CASE m # Deadline
      <4>1. Deadline >= m + 1  BY <1>0, <3>2
      <4> QED  BY <1>0, <1>6, <2>1, <4>1
    <3> QED  BY <3>1, <3>2
  <2> QED  BY <1>0, <1>1, <1>6, <2>1, <2>2
<1>8. i' = i + 1 /\ ~(i' > Iterations) /\ i' \in 0 .. Iterations
  BY <1>0, <1>1, <1>7 DEF Advance
<1>9. TestMtip  BY <1>8, Zenon DEF Advance
<1>10. CASE m = Deadline
  <2>1. Drives(Driven["msip_set"], "msip_set") /\ Prints("timer")
    <3>1. m >= Deadline /\ m \in Nat  BY <1>0, <1>10
    <3> QED  BY <1>0, <1>3, <1>6, <1>9, <3>1, Looks
  <2>2. PortInv'  BY <1>0, <2>1, PortStep, DrivenAt
  <2>3. at' = "msip_set" /\ seen' = Seen(1, 0)
    BY <1>1, <2>1, SeenPrints DEF Drives, Prints
  <2>4. counter' = 1  BY <1>0, <1>6, <1>10, CounterEdge
  <2>5. TakeInv'  BY <1>3, <1>6, <1>8, <1>10, <2>3, <2>4 DEF TakeInv
  <2> QED  BY <2>2, <2>3, <2>5 DEF ArmInv, WaitInv, DoneInv
<1>11. CASE m # Deadline
  <2>1. Drives(Cleared(bus), "advance") /\ UNCHANGED seen
    <3>1. ~(m >= Deadline) /\ m \in Nat  BY <1>0, <1>11
    <3> QED  BY <1>0, <1>3, <1>6, <1>9, <3>1, Looks
  <2>2. PortInv'  BY <1>0, <2>1, PortStep, DrivenAt
  <2>3. at' = "advance"  BY <2>1 DEF Drives
  <2>4. SettleEdges + 2 + i' = Period * (m + Due') + counter'
    <3>1. counter < Period - 1 \/ counter = Period - 1  BY <1>0, <1>6
    <3>2. /\ Period * m \in Nat /\ Period * (m + 1) = Period * m + Period
          /\ m + 0 = m
      BY <1>0, Multiples
    <3>3. CASE counter < Period - 1
      <4>1. counter' = counter + 1 /\ Due' = 0
        BY <1>0, <1>6, <3>3, CounterEdge DEF Due
      <4> QED  BY <1>0, <1>1, <1>6, <1>8, <3>2, <4>1
    <3>4. CASE counter = Period - 1
      <4>1. counter' = 0 /\ Due' = 1
        BY <1>0, <1>6, <3>4, CounterEdge DEF Due
      <4> QED  BY <1>0, <1>1, <1>6, <1>8, <3>2, <3>4, <4>1
    <3> QED  BY <3>1, <3>3, <3>4
  <2>5. m \in 0 .. Deadline - 1  BY <1>0, <1>11
  <2>6. WaitInv'
    BY <1>1, <1>3, <1>6, <1>8, <2>1, <2>4, <2>5 DEF WaitInv
  <2>7. seen'["timer"] = 0  BY <1>1, <2>1, SeenPrints
  <2> QED  BY <2>2, <2>3, <2>6, <2>7 DEF ArmInv, TakeInv, DoneInv
<1> QED  BY <1>10, <1>11

\* The handler's reads: no tick falls between them.
LEMMA ReadSteps ==
  ASSUME BenchNumbers, TypeOK, BenchInv, MsipSet \/ ReadLow \/ ReadHigh
  PROVE  BenchInv'
<1> USE DEF BenchInv
<1>0. /\ Edge /\ at \in {"msip_set", "read_low", "read_high"} /\ PortInv /\ TakeInv
      /\ Period \in Nat /\ Period >= 4
  BY PeriodLong DEF MsipSet, ReadLow, ReadHigh, EdgeAt
<1>1. /\ seen = Seen(1, 0) /\ mtimecmp[0] = Count(Deadline) /\ i \in 0 .. Iterations
      /\ mtime = Count(Deadline) /\ counter \in 1 .. 3 /\ cke_i = TRUE
  BY <1>0 DEF TakeInv, PortInv
<1>2. ~increment_timer_r /\ (counter # 3 => counter' = counter + 1)
  <2>1. increment_timer_r => counter = 0  BY <1>0, Zenon DEF PortInv
  <2> QED  BY <1>0, <1>1, <2>1, CounterEdge
<1>3. /\ UNCHANGED <<i, seen>>
  BY DEF MsipSet, ReadLow, ReadHigh
<1>4. mtimecmp'[0] = Count(Deadline) /\ ~WritesMtime /\ msip_reg'[0] = 1
  <2>1. CASE at = "msip_set"
    <3>1. bus = Inputs(MSIBase, 1, 15)  BY <2>1, DrivenAt DEF PortInv
    <3>2. 0 \in Harts  BY ClintAssumption DEF Harts
    <3> QED  BY <1>0, <1>1, <3>1, <3>2, MsipEdge DEF TypeOK
  <2>2. CASE at # "msip_set"
    <3>1. msip_reg[0] = 1  BY <1>0, <2>2 DEF TakeInv
    <3>2. mtimecmp' = mtimecmp /\ msip_reg' = msip_reg /\ ~WritesMtime
      BY <1>0, <2>2, QuietEdge, QuietPlaces
    <3> QED  BY <1>1, <3>1, <3>2
  <2> QED  BY <2>1, <2>2
<1>5. mtime' = Count(Deadline)
  BY <1>0, <1>1, <1>2, <1>4 DEF Edge, MtimeNext
<1>6. CASE MsipSet
  <2>1. Drives(Driven["read_low"], "read_low") /\ timer_read' = Zeros
    BY <1>6 DEF MsipSet, Driven
  <2>2. PortInv'  BY <1>0, <2>1, PortStep, DrivenAt
  <2>3. at' = "read_low"  BY <2>1 DEF Drives
  <2>4. counter' = 2  BY <1>0, <1>2, <1>6 DEF MsipSet, EdgeAt, TakeInv
  <2>5. TakeInv'  BY <1>1, <1>3, <1>4, <1>5, <2>1, <2>3, <2>4 DEF TakeInv
  <2> QED  BY <2>2, <2>3, <2>5 DEF ArmInv, WaitInv, DoneInv
<1>7. CASE ReadLow
  <2>1. at = "read_low" /\ bus = Inputs(MTimeBase + 4 * 0, 0, 0)
    BY <1>7, DrivenAt DEF ReadLow, EdgeAt, PortInv
  <2>2. iob_rvalid_o' = TRUE /\ iob_rdata_reg' = mtime[0]
    BY <1>0, <1>1, <2>1, ReadEdge DEF Halves
  <2>3. bus.valid = TRUE  BY <2>1, Zenon DEF Inputs
  <2>4. /\ timer_read' = [timer_read EXCEPT ![0] = iob_rdata_reg']
        /\ Drives(Inputs(MTimeBase + 4, 0, 0), "read_high")
    BY <1>7, <2>2, <2>3, Zenon DEF ReadLow, Response
  <2>5. timer_read' = Count(Deadline)
    <3>1. timer_read = Zeros /\ mtime[0] = Deadline
      BY <1>0, <1>1, <2>1 DEF TakeInv, Count, Halves
    <3> QED  BY <2>2, <2>4, <3>1 DEF Zeros, Count, Halves
  <2>6. Driven["read_high"] = Inputs(MTimeBase + 4, 0, 0)  BY DEF Driven
  <2>7. PortInv'  BY <1>0, <2>4, <2>6, PortStep, DrivenAt
  <2>8. at' = "read_high" /\ counter' = 3
    BY <1>0, <1>2, <2>1, <2>4 DEF Drives, TakeInv
  <2>9. TakeInv'  BY <1>1, <1>3, <1>4, <1>5, <2>5, <2>8 DEF TakeInv
  <2> QED  BY <2>7, <2>8, <2>9 DEF ArmInv, WaitInv, DoneInv
<1>8. CASE ReadHigh
  <2>1. at = "read_high" /\ bus = Inputs(MTimeBase + 4 * 1, 0, 0)
    BY <1>8, DrivenAt DEF ReadHigh, EdgeAt, PortInv
  <2>2. iob_rvalid_o' = TRUE /\ iob_rdata_reg' = mtime[1]
    BY <1>0, <1>1, <2>1, ReadEdge DEF Halves
  <2>3. bus.valid = TRUE  BY <2>1, Zenon DEF Inputs
  <2>4. /\ timer_read' = [timer_read EXCEPT ![1] = iob_rdata_reg']
        /\ Drives(Inputs(MTimeBase, 0, 15), "time_low")
    BY <1>8, <2>2, <2>3, Zenon DEF ReadHigh, Response
  <2>5. timer_read' = Count(Deadline)
    <3>1. timer_read = Count(Deadline) /\ mtime[1] = 0
      BY <1>0, <1>1, <2>1 DEF TakeInv, Count, Halves
    <3>2. timer_read' = [Count(Deadline) EXCEPT ![1] = 0]  BY <2>2, <2>4, <3>1
    <3>3. [Count(Deadline) EXCEPT ![1] = 0] = Count(Deadline)  BY DEF Count, Halves
    <3> QED  BY <3>2, <3>3
  <2>6. Driven["time_low"] = Inputs(MTimeBase, 0, 15)  BY DEF Driven
  <2>7. PortInv'  BY <1>0, <2>4, <2>6, PortStep, DrivenAt
  <2>8. at' = "time_low"  BY <2>4 DEF Drives
  <2>9. TakeInv'  BY <1>1, <1>3, <1>4, <1>5, <2>5, <2>8 DEF TakeInv
  <2> QED  BY <2>7, <2>8, <2>9 DEF ArmInv, WaitInv, DoneInv
<1> QED  BY <1>6, <1>7, <1>8

\* MTIME goes back to 0, the second deadline is armed and the software interrupt
\* seen.
LEMMA RearmSteps ==
  ASSUME BenchNumbers, TypeOK, BenchInv, TimeLow \/ CmpFar
  PROVE  BenchInv'
<1> USE DEF BenchInv
<1>0. /\ Edge /\ at \in {"time_low", "cmp_far"} /\ PortInv /\ TakeInv
      /\ Far \in Nat /\ Far \in Word /\ Iterations \in Nat /\ Iterations + 4 < Far
  BY TestbenchAssumption, RadixAssumption DEF TimeLow, CmpFar, EdgeAt, BenchNumbers, Word
<1>1. /\ seen = Seen(1, 0) /\ mtimecmp[0] = Count(Deadline) /\ i \in 0 .. Iterations
      /\ msip_reg[0] = 1 /\ i' = i
  BY <1>0 DEF TakeInv, TimeLow, CmpFar
<1>2. CASE TimeLow
  <2>1. at = "time_low" /\ bus = Inputs(MTimeBase, 0, 15)
    BY <1>2, DrivenAt DEF TimeLow, EdgeAt, PortInv
  <2>2. /\ mtime' = Zeros /\ mtimecmp' = mtimecmp /\ msip_reg' = msip_reg
    <3>1. mtime = Count(Deadline)  BY <1>0, <2>1 DEF TakeInv
    <3> QED  BY <1>0, <2>1, <3>1, TimeEdge DEF Count, Zeros, Halves
  <2>3. Drives(Inputs(MTimeCMPBase, Far, 15), "cmp_far") /\ UNCHANGED seen
    BY <1>2 DEF TimeLow
  <2>4. Driven["cmp_far"] = Inputs(MTimeCMPBase, Far, 15)  BY DEF Driven
  <2>5. PortInv'  BY <1>0, <2>3, <2>4, PortStep, DrivenAt
  <2>6. at' = "cmp_far"  BY <2>3 DEF Drives
  <2>7. TakeInv'  BY <1>1, <2>2, <2>3, <2>6 DEF TakeInv
  <2> QED  BY <2>5, <2>6, <2>7 DEF ArmInv, WaitInv, DoneInv
<1>3. CASE CmpFar
  <2>1. at = "cmp_far" /\ bus = Inputs(MTimeCMPBase + 4 * 0, Far, 15)
    BY <1>3, DrivenAt DEF CmpFar, EdgeAt, PortInv
  <2>2. /\ mtimecmp' = [mtimecmp EXCEPT ![0][0] = Far]
        /\ msip_reg' = msip_reg /\ ~WritesMtime
    BY <1>0, <2>1, CmpEdge DEF Halves
  <2>3. mtimecmp'[0] = Count(Far)
    <3>1. 0 \in Harts  BY ClintAssumption DEF Harts
    <3>2. mtimecmp'[0] = [Count(Deadline) EXCEPT ![0] = Far]
      BY <1>1, <2>2, <3>1 DEF TypeOK
    <3> QED  BY <3>2 DEF Count, Halves
  <2>4. mtime' = Count(0 + Due) /\ Due \in {0, 1}
    <3>1. mtime = Count(0)  BY <1>0, <2>1, CountZero DEF TakeInv
    <3>2. 0 + 1 < Radix  BY RadixAssumption
    <3> QED  BY <1>0, <2>2, <3>1, <3>2, TickEdge
  <2>5. PICK k \in {0, 1} : k = 0 + Due  BY <2>4
  <2>6. Drives(Driven["msip_clear"], "msip_clear") /\ Prints("software")
    <3>1. mtime' = Count(k) /\ msip_reg'[0] = 1 /\ k \in Nat
      BY <1>1, <2>2, <2>4, <2>5
    <3> QED  BY <1>0, <1>3, <2>3, <3>1, Looks DEF CmpFar
  <2>7. PortInv'  BY <1>0, <2>6, PortStep, DrivenAt
  <2>8. at' = "msip_clear" /\ seen' = Seen(1, 1)
    BY <1>1, <2>6, SeenPrints DEF Drives, Prints
  <2>9. k \in 0 .. i' + 1 /\ mtime' = Count(k) /\ msip_reg'[0] = 1 /\ i' <= Iterations
        /\ i' \in 0 .. Iterations + 1
    BY <1>0, <1>1, <2>2, <2>4, <2>5
  <2>10. DoneInv'  BY <2>3, <2>8, <2>9 DEF DoneInv
  <2> QED  BY <2>7, <2>8, <2>10 DEF ArmInv, WaitInv, TakeInv
<1> QED  BY <1>2, <1>3

\* The loop after both interrupts, and the end: MTIME stays out of reach of the
\* second deadline, and the software interrupt was taken back.
LEMMA DoneSteps ==
  ASSUME BenchNumbers, TypeOK, BenchInv,
         MsipClear \/ (Advance /\ seen["timer"] # 0) \/ Last
  PROVE  BenchInv'
<1> USE DEF BenchInv
<1>0. /\ Edge /\ at \in {"msip_clear", "advance", "last"} /\ PortInv
      /\ Far \in Nat /\ Far < Radix /\ Iterations \in Nat /\ Iterations + 4 < Far
      /\ Radix \in Nat
  BY TestbenchAssumption, RadixAssumption
     DEF MsipClear, Advance, Last, EdgeAt, BenchNumbers, Word
<1>1. DoneInv /\ (at = "advance" => seen["timer"] # 0)
  BY DEF MsipClear, Advance, Last, EdgeAt
<1>2. /\ seen = Seen(1, 1) /\ mtimecmp[0] = Count(Far)
      /\ msip_reg[0] = IF at = "msip_clear" THEN 1 ELSE 0
      /\ i \in 0 .. Iterations + 1 /\ (at # "last" => i <= Iterations)
  BY <1>0, <1>1 DEF DoneInv
<1>3. PICK k \in Nat : mtime = Count(k) /\ k <= i + (IF at = "msip_clear" THEN 1 ELSE 2)
  BY <1>0, <1>1, <1>2 DEF DoneInv
<1>4. mtimecmp'[0] = Count(Far) /\ msip_reg'[0] = 0 /\ ~WritesMtime
  <2>1. CASE at = "msip_clear"
    <3>1. bus = Inputs(MSIBase, 0, 15)  BY <2>1, DrivenAt DEF PortInv
    <3>2. 0 \in Harts  BY ClintAssumption DEF Harts
    <3> QED  BY <1>0, <1>2, <3>1, <3>2, MsipEdge DEF TypeOK
  <2>2. CASE at # "msip_clear"
    <3>1. mtimecmp' = mtimecmp /\ msip_reg' = msip_reg /\ ~WritesMtime
      BY <1>0, <2>2, QuietEdge, QuietPlaces
    <3> QED  BY <1>2, <2>2, <3>1
  <2> QED  BY <2>1, <2>2
<1>5. mtime' = Count(k + Due) /\ Due \in {0, 1}
  <2>1. k + 1 < Radix  BY <1>0, <1>2, <1>3
  <2> QED  BY <1>0, <1>3, <1>4, <2>1, TickEdge
<1>6. PICK m \in Nat : m = k + Due  BY <1>5
<1>7. mtime' = Count(m) /\ m <= i + (IF at = "msip_clear" THEN 2 ELSE 3)
  BY <1>2, <1>3, <1>5, <1>6
<1>8. CASE MsipClear
  <2>1. Drives(Cleared(bus), "advance") /\ UNCHANGED <<i, seen>> /\ at = "msip_clear"
    BY <1>8 DEF MsipClear, EdgeAt, Driven
  <2>2. PortInv'  BY <1>0, <2>1, PortStep, DrivenAt
  <2>3. at' = "advance"  BY <2>1 DEF Drives
  <2>4. m \in 0 .. i' + 2 /\ i' <= Iterations /\ i' \in 0 .. Iterations + 1
    BY <1>2, <1>7, <2>1
  <2>5. DoneInv'  BY <1>2, <1>4, <1>7, <2>1, <2>3, <2>4 DEF DoneInv
  <2>6. seen'["timer"] # 0  BY <1>2, <2>1, SeenPrints
  <2> QED  BY <2>2, <2>3, <2>5, <2>6 DEF ArmInv, WaitInv, TakeInv
<1>9. CASE Last
  <2>1. Drives(Cleared(bus), "finished") /\ UNCHANGED <<i, seen>> /\ at = "last"
    BY <1>9 DEF Last, EdgeAt, Driven
  <2>2. PortInv'  BY <1>0, <2>1, PortStep, DrivenAt
  <2>3. at' = "finished"  BY <2>1 DEF Drives
  <2>4. m \in 0 .. i' + 3 /\ i' \in 0 .. Iterations + 1
    BY <1>2, <1>7, <2>1
  <2>5. DoneInv'  BY <1>2, <1>4, <1>7, <2>1, <2>3, <2>4 DEF DoneInv
  <2> QED  BY <2>2, <2>3, <2>5 DEF ArmInv, WaitInv, TakeInv
<1>10. CASE Advance
  <2>1. at = "advance" /\ i' = i + 1  BY <1>10 DEF Advance, EdgeAt
  <2>2. m \in 0 .. i' + 2 /\ i' \in 0 .. Iterations + 1
    BY <1>0, <1>2, <1>7, <2>1
  <2>3. CASE i' > Iterations
    <3>1. Drives(Cleared(bus), "last") /\ UNCHANGED seen
      BY <1>10, <2>3, DrivenAt, Zenon DEF Advance
    <3>2. PortInv'  BY <1>0, <3>1, PortStep, DrivenAt
    <3>3. at' = "last"  BY <3>1 DEF Drives
    <3>4. DoneInv'  BY <1>2, <1>4, <1>7, <2>2, <3>1, <3>3 DEF DoneInv
    <3> QED  BY <3>2, <3>3, <3>4 DEF ArmInv, WaitInv, TakeInv
  <2>4. CASE ~(i' > Iterations)
    <3>1. TestMtip  BY <1>10, <2>4, Zenon DEF Advance
    <3>2. ~(m >= Far)  BY <1>0, <1>2, <1>7, <2>1, <2>4
    <3>3. Drives(Cleared(bus), "advance") /\ UNCHANGED seen
      BY <1>0, <1>4, <1>7, <3>1, <3>2, Looks
    <3>4. PortInv'  BY <1>0, <3>3, PortStep, DrivenAt
    <3>5. at' = "advance" /\ i' <= Iterations
      BY <1>0, <2>2, <2>4, <3>3 DEF Drives
    <3>6. DoneInv'  BY <1>2, <1>4, <1>7, <2>2, <3>3, <3>5 DEF DoneInv
    <3>7. seen'["timer"] # 0  BY <1>2, <3>3, SeenPrints
    <3> QED  BY <3>4, <3>5, <3>6, <3>7 DEF ArmInv, WaitInv, TakeInv
  <2> QED  BY <2>3, <2>4
<1> QED  BY <1>8, <1>9, <1>10

-------------------------------------------------------------------------------
LEMMA BenchStarts == BenchNumbers /\ BenchInit => BenchInv
<1> SUFFICES ASSUME BenchNumbers, BenchInit PROVE BenchInv
  OBVIOUS
<1>1. /\ at = "reset" /\ bus = NoInputs /\ arst_i = TRUE /\ cke_i = TRUE
      /\ counter = 0 /\ increment_timer_r = FALSE /\ mtime = Zeros
      /\ mtimecmp = [h \in Harts |-> Ones] /\ msip_reg = [h \in Harts |-> 0]
      /\ i = 0 /\ seen = Seen(0, 0)
  BY DEF BenchInit, Init, BenchNumbers, Seen
<1>2. PortInv
  <2>1. at \in IdlePlaces /\ bus.valid = FALSE  BY <1>1, DrivenAt DEF NoInputs
  <2>2. counter \in 0 .. Period - 1  BY <1>1, PeriodLong
  <2> QED  BY <1>1, <2>1, <2>2 DEF PortInv
<1>3. ArmInv
  <2>1. 0 \in Harts  BY ClintAssumption DEF Harts
  <2> QED  BY <1>1, <2>1 DEF ArmInv
<1> QED  BY <1>1, <1>2, <1>3 DEF BenchInv, WaitInv, TakeInv, DoneInv

\* A bench that drives the core is a master of the core.
LEMMA BenchTypeCorrect == BenchSpec => []TypeOK
<1>1. BenchInit => TypeOK
  BY ResetTyped DEF BenchInit, Init, TypeOK
<1>2. TypeOK /\ [BenchNext]_tvars => TypeOK'
  <2>1. [BenchNext]_tvars => [Next]_vars
    BY DEF BenchNext, tvars, Next, HoldReset, EndReset, Settle, CmpLow, CmpHigh, Advance,
           MsipSet, ReadLow, ReadHigh, TimeLow, CmpFar, MsipClear, Last, EdgeAt
  <2> QED  BY <2>1, TypeInductive
<1> QED  BY <1>1, <1>2, PTL DEF BenchSpec

LEMMA BenchInductive == BenchNumbers /\ TypeOK /\ BenchInv /\ [BenchNext]_tvars => BenchInv'
<1> SUFFICES ASSUME BenchNumbers, TypeOK, BenchInv, [BenchNext]_tvars PROVE BenchInv'
  OBVIOUS
<1>1. CASE BenchNext
  BY <1>1, ResetSteps, ArmSteps, WaitStep, ReadSteps, RearmSteps, DoneSteps, Zenon
     DEF BenchNext
<1>2. CASE UNCHANGED tvars
  BY <1>2 DEF BenchInv, PortInv, ArmInv, WaitInv, TakeInv, DoneInv, Driven, Inputs,
              Due, tvars, bench, vars, regs
<1> QED  BY <1>1, <1>2

LEMMA BenchInvCorrect == BenchNumbers => (BenchSpec => []BenchInv)
<1> SUFFICES ASSUME BenchNumbers PROVE BenchSpec => []BenchInv
  OBVIOUS
<1>1. BenchInit => BenchInv  BY BenchStarts
<1>2. TypeOK /\ BenchInv /\ [BenchNext]_tvars => BenchInv'  BY BenchInductive
<1> QED  BY <1>1, <1>2, BenchTypeCorrect, PTL DEF BenchSpec

\* "Timer count": what the bench reads, one word after the other while MTIME may
\* tick, is the deadline at which it saw the interrupt.
THEOREM TimerCountCorrect == BenchNumbers => (BenchSpec => []TimerCountIsDeadline)
<1> SUFFICES ASSUME BenchNumbers PROVE BenchSpec => []TimerCountIsDeadline
  OBVIOUS
<1>1. BenchInv => TimerCountIsDeadline
  BY DEF BenchInv, TakeInv, TimerCountIsDeadline, Count
<1> QED  BY <1>1, BenchInvCorrect, PTL

\* When the test ends it has seen each interrupt exactly once, and neither is
\* pending.
THEOREM EachInterruptCorrect == BenchNumbers => (BenchSpec => []EachInterruptOnce)
<1> SUFFICES ASSUME BenchNumbers PROVE BenchSpec => []EachInterruptOnce
  OBVIOUS
<1>1. BenchInv => EachInterruptOnce
  <2> SUFFICES ASSUME BenchInv, at = "finished"
               PROVE  /\ seen = [what \in {"timer", "software"} |-> 1]
                      /\ \A h \in Harts : ~mtip_o(h) /\ ~msip_o(h)
    BY DEF EachInterruptOnce
  <2>1. PortInv /\ DoneInv  BY DEF BenchInv
  <2>2. /\ seen = Seen(1, 1) /\ mtimecmp[0] = Count(Far) /\ msip_reg[0] = 0
        /\ i \in 0 .. Iterations + 1
    BY <2>1 DEF DoneInv
  <2>3. PICK k \in 0 .. i + 3 : mtime = Count(k)  BY <2>1 DEF DoneInv
  <2>4. Iterations \in Nat /\ Far \in Nat /\ Iterations + 4 < Far
    BY TestbenchAssumption, RadixAssumption DEF BenchNumbers, Word
  <2>5. k < Far /\ k \in Nat  BY <2>2, <2>3, <2>4
  <2>6. ~Geq(mtime, mtimecmp[0])  BY <2>2, <2>3, <2>4, <2>5 DEF Geq, Count, Halves
  <2>7. \A h \in Harts \ {0} : ~Geq(mtime, mtimecmp[h]) /\ msip_reg[h] = 0
    BY <2>1, <2>3, <2>5, RadixAssumption DEF PortInv, Geq, Count, Ones, Halves
  <2>8. seen = [what \in {"timer", "software"} |-> 1]  BY <2>2 DEF Seen
  <2> QED  BY <2>2, <2>6, <2>7, <2>8 DEF mtip_o, msip_o
<1> QED  BY <1>1, BenchInvCorrect, PTL
===============================================================================
