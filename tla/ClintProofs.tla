------------------------------ MODULE ClintProofs -----------------------------
(***************************************************************************)
(* Theorems about Clint for every number of harts, clock frequency, word   *)
(* width and bus master.                                                   *)
(***************************************************************************)
EXTENDS ClintRegMap, DwordProofs

\* iob_addr_i[2] is the word's place in its 64-bit register, wherever the
\* register file starts: both bases are multiples of eight.
LEMMA HalfSelect ==
  ASSUME NEW addr \in Nat
  PROVE  /\ HalfOf(addr) = (addr % 8) \div 4
         /\ HalfOf(addr) \in Halves
         /\ addr >= MTimeCMPBase => (addr - MTimeCMPBase) % 8 = addr % 8
         /\ addr >= MTimeBase => (addr - MTimeBase) % 8 = addr % 8
<1>1. (addr \div 4) % 2 = (addr % 8) \div 4  OBVIOUS
<1>2. (addr \div 4) % 2 \in {0, 1}  OBVIOUS
<1>3. addr >= 16384 => (addr - 16384) % 8 = addr % 8  OBVIOUS
<1>4. addr >= 49144 => (addr - 49144) % 8 = addr % 8  OBVIOUS
<1> QED  BY <1>1, <1>2, <1>3, <1>4 DEF HalfOf, Halves, MTimeCMPBase, MTimeBase

\* The bit-slice of the decoder and the offset into the register file name
\* the same hart and half, for every address of the MTIMECMP file.
LEMMA CmpSelect ==
  ASSUME NEW addr \in Address, InMtimecmp(addr)
  PROVE  /\ HartOfCmp(addr) = (addr - MTimeCMPBase) \div 8
         /\ HartOfCmp(addr) \in Harts
         /\ HalfOf(addr) = ((addr - MTimeCMPBase) % 8) \div 4
         /\ HalfOf(addr) \in Halves
<1>1. N_CORES \in 1 .. 8  BY ClintAssumption
<1>2. addr \in Nat /\ addr >= 16384 /\ addr < 16384 + 8 * N_CORES
  BY <1>1 DEF InMtimecmp, MTimeCMPBase, Address
<1>3. SelSpan \in {2, 4, 8} /\ N_CORES <= SelSpan  BY <1>1 DEF SelSpan
<1>4. (addr \div 8) % SelSpan = (addr - 16384) \div 8
  <2>1. CASE SelSpan = 2  BY <1>1, <1>2, <1>3, <2>1
  <2>2. CASE SelSpan = 4  BY <1>1, <1>2, <1>3, <2>2
  <2>3. CASE SelSpan = 8  BY <1>1, <1>2, <1>3, <2>3
  <2> QED  BY <1>3, <2>1, <2>2, <2>3
<1>5. (addr - 16384) \div 8 \in Harts  BY <1>1, <1>2 DEF Harts
<1>6. HalfOf(addr) = ((addr - 16384) % 8) \div 4 /\ HalfOf(addr) \in Halves
  BY <1>2, HalfSelect DEF MTimeCMPBase
<1> QED  BY <1>4, <1>5, <1>6 DEF HartOfCmp, MTimeCMPBase

\* The same for the MSIP file.
LEMMA MsipSelect ==
  ASSUME NEW addr \in Address, InMsip(addr)
  PROVE  /\ HartOfMsip(addr) = addr \div 4
         /\ HartOfMsip(addr) \in Harts
<1>1. N_CORES \in 1 .. 8  BY ClintAssumption
<1>2. addr \in Nat /\ addr < 4 * N_CORES  BY <1>1 DEF InMsip, MSIBase, Address
<1>3. SelSpan \in {2, 4, 8} /\ N_CORES <= SelSpan  BY <1>1 DEF SelSpan
<1>4. (addr \div 4) % SelSpan = addr \div 4
  <2>1. CASE SelSpan = 2  BY <1>1, <1>2, <1>3, <2>1
  <2>2. CASE SelSpan = 4  BY <1>1, <1>2, <1>3, <2>2
  <2>3. CASE SelSpan = 8  BY <1>1, <1>2, <1>3, <2>3
  <2> QED  BY <1>3, <2>1, <2>2, <2>3
<1>5. addr \div 4 \in Harts  BY <1>1, <1>2 DEF Harts
<1> QED  BY <1>4, <1>5 DEF HartOfMsip

\* The same for MTIME.
LEMMA MtimeSelect ==
  ASSUME NEW addr \in Address, InMtime(addr)
  PROVE  /\ HalfOf(addr) = ((addr - MTimeBase) % 8) \div 4
         /\ HalfOf(addr) \in Halves
BY HalfSelect DEF InMtime, MTimeBase, Address

-------------------------------------------------------------------------------
\* What the master drives, field by field.
LEMMA BusType ==
  ASSUME bus \in Requests
  PROVE  /\ bus.valid \in BOOLEAN
         /\ bus.addr \in Address
         /\ bus.wstrb \in Strobes
         /\ bus.wdata \in Word
<1>1. bus \in Request  BY ClintAssumption, Zenon
<1>2. bus.valid \in BOOLEAN  BY <1>1, Zenon DEF Request
<1>3. bus.addr \in Address  BY <1>1, Zenon DEF Request
<1>4. bus.wstrb \in Strobes  BY <1>1, Zenon DEF Request
<1>5. bus.wdata \in Word  BY <1>1, Zenon DEF Request
<1> QED  BY <1>2, <1>3, <1>4, <1>5

\* Addresses are numbers.
LEMMA AddressIsNat == \A a \in Address : a \in Nat
BY DEF Address

\* The decoder writes inside the register files only.
LEMMA DecodedWrites ==
  ASSUME bus \in Requests
  PROVE  /\ WritesMsip => HartOfMsip(bus.addr) \in Harts
         /\ WritesMtimecmp => /\ HartOfCmp(bus.addr) \in Harts
                              /\ HalfOf(bus.addr) \in Halves
         /\ WritesMtime => HalfOf(bus.addr) \in Halves
<1>1. bus.addr \in Address  BY BusType
<1>2. WritesMsip => InMsip(bus.addr)
  BY DEF WritesMsip, WritesIn, InMsip
<1>3. WritesMtimecmp => InMtimecmp(bus.addr)
  BY DEF WritesMtimecmp, WritesIn, InMtimecmp
<1>4. WritesMtime => InMtime(bus.addr)
  BY DEF WritesMtime, WritesIn, InMtime
<1> QED  BY <1>1, <1>2, <1>3, <1>4, MsipSelect, CmpSelect, MtimeSelect

\* Each always block keeps the type of its register.
LEMMA BlocksTyped ==
  ASSUME TypeOK
  PROVE  /\ MtimeNext \in Dword
         /\ MtimecmpNext \in [Harts -> Dword]
         /\ MsipNext \in [Harts -> {0, 1}]
         /\ \A v \in ReadMux(bus.addr) : v \in Word
         /\ RvalidNext \in BOOLEAN
         /\ CounterNext \in 0 .. CounterSpan - 1
         /\ TickNext \in BOOLEAN
<1> USE BusType, DecodedWrites DEF TypeOK
<1>1. MtimeNext \in Dword
  <2>1. CASE WritesMtime  BY <2>1 DEF MtimeNext, Dword
  <2>2. CASE ~WritesMtime  BY <2>2, DwordOps DEF MtimeNext
  <2> QED  BY <2>1, <2>2
<1>2. MtimecmpNext \in [Harts -> Dword]
  <2>1. CASE WritesMtimecmp
    <3> DEFINE h == HartOfCmp(bus.addr)
               d == [mtimecmp[h] EXCEPT ![HalfOf(bus.addr)] = bus.wdata]
    <3>1. d \in Dword  BY <2>1 DEF Dword
    <3>2. MtimecmpNext = [mtimecmp EXCEPT ![h] = d]  BY <2>1 DEF MtimecmpNext
    <3> QED  BY <3>1, <3>2
  <2>2. CASE ~WritesMtimecmp  BY <2>2 DEF MtimecmpNext
  <2> QED  BY <2>1, <2>2
<1>3. MsipNext \in [Harts -> {0, 1}]
  <2>1. bus.wdata % 2 \in {0, 1}  BY LastBit
  <2> QED  BY <2>1 DEF MsipNext
<1>4. \A v \in ReadMux(bus.addr) : v \in Word
  <2>1. 0 \in Word /\ 1 \in Word  BY RadixAssumption DEF Word
  <2>2. HalfOf(bus.addr) \in Halves
    <3>1. bus.addr \in Nat  BY AddressIsNat, Zenon
    <3> QED  BY <3>1, HalfSelect
  <2>3. \A d \in Dword : d[HalfOf(bus.addr)] \in Word  BY <2>2 DEF Dword
  <2> QED  BY <2>1, <2>3 DEF ReadMux
<1>5. RvalidNext \in BOOLEAN  BY DEF RvalidNext
<1>6. CounterNext \in 0 .. CounterSpan - 1
  <2>1. \A n \in 0 .. CounterSpan - 1 : (n + 1) % CounterSpan \in 0 .. CounterSpan - 1
    BY DEF CounterSpan
  <2>2. 0 \in 0 .. CounterSpan - 1  BY DEF CounterSpan
  <2> QED  BY <2>1, <2>2 DEF CounterNext
<1>7. TickNext \in BOOLEAN  BY DEF TickNext, increment_timer
<1> QED  BY <1>1, <1>2, <1>3, <1>4, <1>5, <1>6, <1>7

LEMMA ResetTyped ==
  /\ Zeros \in Dword
  /\ [h \in Harts |-> Ones] \in [Harts -> Dword]
  /\ [h \in Harts |-> 0] \in [Harts -> {0, 1}]
  /\ 0 \in Word /\ 0 \in 0 .. CounterSpan - 1
BY DwordOps, RadixAssumption DEF Word, CounterSpan

LEMMA TypeInductive == TypeOK /\ [Next]_vars => TypeOK'
<1> SUFFICES ASSUME TypeOK, [Next]_vars PROVE TypeOK'
  OBVIOUS
<1>1. CASE Edge
  BY <1>1, BlocksTyped DEF TypeOK, Edge, DriveInputs
<1>2. CASE ResetEdge
  BY <1>2 DEF TypeOK, ResetEdge, DriveInputs, regs
<1>3. CASE AssertReset
  BY <1>3, ResetTyped DEF TypeOK, AssertReset
<1>4. CASE ReleaseReset
  BY <1>4 DEF TypeOK, ReleaseReset, regs
<1>5. CASE UNCHANGED vars
  BY <1>5 DEF TypeOK, vars, regs
<1> QED  BY <1>1, <1>2, <1>3, <1>4, <1>5 DEF Next

\* Every reachable state is well typed, and the registers rest at their reset
\* values as long as arst_i is high.
THEOREM TypeCorrect == Spec => []TypeOK
<1>1. Init => TypeOK  BY ResetTyped DEF Init, TypeOK
<1> QED  BY <1>1, TypeInductive, PTL DEF Spec

-------------------------------------------------------------------------------
\* Zeros is below Ones: no timer interrupt right after reset.
LEMMA ResetIsQuiet == ~Geq(Zeros, Ones)
BY RadixAssumption DEF Geq, Zeros, Ones, Halves

\* A clock edge at which hart h's compare register is not written leaves it
\* alone, and a clock edge at which MTIME is not written moves it by one at most.
LEMMA UnwrittenEdge ==
  ASSUME TypeOK, Edge, NEW h \in Harts
  PROVE  /\ ~WritesCmpOf(h) => mtimecmp'[h] = mtimecmp[h]
         /\ ~WritesMtime => mtime' = mtime \/ mtime' = Incr(mtime)
<1>1. bus.addr \in Address  BY BusType DEF TypeOK
<1>2. WritesMtimecmp => InMtimecmp(bus.addr) /\ ~InMsip(bus.addr) /\ bus.valid /\ bus.wstrb # 0
  <2>1. N_CORES \in 1 .. 8  BY ClintAssumption
  <2>2. bus.addr \in Nat  BY <1>1, AddressIsNat
  <2> QED  BY <2>1, <2>2
           DEF WritesMtimecmp, WritesIn, write, InMtimecmp, InMsip, MSIBase, MTimeCMPBase
<1>3. WritesMtimecmp =>
        RequestedOp(bus).reg = "mtimecmp" /\ RequestedOp(bus).hart = HartOfCmp(bus.addr)
  BY <1>1, <1>2, CmpSelect, Zenon DEF RequestedOp, WordNamed, WordAccess
<1>4. WritesMtimecmp /\ ~WritesCmpOf(h) => HartOfCmp(bus.addr) # h
  BY <1>3 DEF WritesCmpOf
<1>5. mtimecmp' = MtimecmpNext /\ mtime' = MtimeNext  BY DEF Edge
<1>6. ~WritesCmpOf(h) => mtimecmp'[h] = mtimecmp[h]
  BY <1>4, <1>5 DEF MtimecmpNext, TypeOK
<1> QED  BY <1>5, <1>6 DEF MtimeNext

\* Every timer interrupt is on time: it rises by itself only at the tick that
\* reaches the deadline and falls by itself only when MTIME wraps.
THEOREM InterruptsOnTimeCorrect == Spec => InterruptsOnTime
<1> DEFINE OnTime ==
  \A h \in Harts :
    /\ ~mtip_o(h) /\ mtip_o(h)' => WritesMtime \/ WritesCmpOf(h) \/ mtime' = mtimecmp[h]
    /\ mtip_o(h) /\ ~mtip_o(h)' => WritesMtime \/ WritesCmpOf(h) \/ mtime = Ones \/ arst_i'
<1>1. TypeOK /\ [Next]_vars => [OnTime]_vars
  <2> SUFFICES ASSUME TypeOK, Next, NEW h \in Harts
      PROVE  /\ ~mtip_o(h) /\ mtip_o(h)' =>
                  WritesMtime \/ WritesCmpOf(h) \/ mtime' = mtimecmp[h]
             /\ mtip_o(h) /\ ~mtip_o(h)' =>
                  WritesMtime \/ WritesCmpOf(h) \/ mtime = Ones \/ arst_i'
    OBVIOUS
  <2>1. CASE Edge
    <3>1. mtime \in Dword /\ mtimecmp[h] \in Dword  BY DEF TypeOK
    <3>2. arst_i' = arst_i /\ ~arst_i  BY <2>1 DEF Edge
    <3>3. mtime # Ones => /\ Geq(Incr(mtime), mtime)
                          /\ Geq(Incr(mtime), mtimecmp[h]) /\ ~Geq(mtime, mtimecmp[h])
                             => Incr(mtime) = mtimecmp[h]
      BY <3>1, IncrStep
    <3>4. \A e \in Dword : Geq(Ones, e)
      BY WordRange, RadixAssumption DEF Geq, Ones, Halves
    <3>5. CASE WritesMtime \/ WritesCmpOf(h)  BY <3>5
    <3>6. CASE ~WritesMtime /\ ~WritesCmpOf(h)
      <4>1. mtimecmp'[h] = mtimecmp[h] /\ (mtime' = mtime \/ mtime' = Incr(mtime))
        BY <2>1, <3>6, UnwrittenEdge
      <4>2. CASE mtime' = mtime  BY <3>2, <4>1, <4>2 DEF mtip_o
      <4>3. CASE mtime' = Incr(mtime) /\ mtime = Ones
        BY <3>1, <3>2, <3>4, <4>1, <4>3 DEF mtip_o
      <4>4. CASE mtime' = Incr(mtime) /\ mtime # Ones
        <5>1. Geq(mtime, mtimecmp[h]) => Geq(Incr(mtime), mtimecmp[h])
          BY <3>1, <3>3, <4>4, DwordOps, GeqOrder
        <5> QED  BY <3>2, <3>3, <4>1, <4>4, <5>1 DEF mtip_o
      <4> QED  BY <4>1, <4>2, <4>3, <4>4
    <3> QED  BY <3>5, <3>6
  <2>2. CASE ResetEdge  BY <2>2 DEF ResetEdge, mtip_o
  <2>3. CASE AssertReset  BY <2>3 DEF AssertReset, mtip_o
  <2>4. CASE ReleaseReset
    <3>1. mtime' = Zeros /\ mtimecmp'[h] = Ones /\ arst_i
      BY <2>4 DEF ReleaseReset, regs, TypeOK
    <3> QED  BY <3>1, ResetIsQuiet DEF mtip_o
  <2> QED  BY <2>1, <2>2, <2>3, <2>4 DEF Next
<1>2. Spec => [][OnTime]_vars
  <2> HIDE DEF OnTime
  <2> QED  BY <1>1, TypeCorrect, PTL DEF Spec
<1> QED  BY <1>2 DEF InterruptsOnTime

\* At least one edge per tick.
LEMMA PeriodPositive == Period \in Nat /\ Period >= 1
BY ClintAssumption DEF Period, TickHz

-------------------------------------------------------------------------------
(* The register map.  The decoder's bit-slices name the word of the map    *)
(* that the offset into the register file names.                           *)

\* The three register files lie apart.
LEMMA FilesApart ==
  ASSUME NEW addr \in Address
  PROVE  /\ InMsip(addr) => addr < MTimeCMPBase
         /\ InMtimecmp(addr) => /\ ~InMsip(addr)
                                /\ ~(addr < MTimeCMPBase) /\ addr < MTimeBase
         /\ InMtime(addr) => /\ ~InMsip(addr) /\ ~InMtimecmp(addr)
                             /\ ~(addr < MTimeCMPBase) /\ ~(addr < MTimeBase)
<1>1. N_CORES \in 1 .. 8  BY ClintAssumption
<1> QED  BY <1>1, AddressIsNat
         DEF InMsip, InMtimecmp, InMtime, MSIBase, MTimeCMPBase, MTimeBase

\* The word of the map that a request names, as the decoder selects it.
LEMMA NamedWord ==
  ASSUME NEW r \in Requests
  PROVE  /\ InMsip(r.addr) =>
              WordNamed(r) = [reg |-> "msip", hart |-> HartOfMsip(r.addr),
                              half |-> 0, val |-> r.wdata]
         /\ InMtimecmp(r.addr) =>
              WordNamed(r) = [reg |-> "mtimecmp", hart |-> HartOfCmp(r.addr),
                              half |-> HalfOf(r.addr), val |-> r.wdata]
         /\ InMtime(r.addr) =>
              WordNamed(r) = [reg |-> "mtime", hart |-> 0,
                              half |-> HalfOf(r.addr), val |-> r.wdata]
         /\ ~InMsip(r.addr) /\ ~InMtimecmp(r.addr) /\ ~InMtime(r.addr) =>
              WordNamed(r) = NoAccess
<1> DEFINE a == r.addr
<1>1. a \in Address
  <2>1. r \in Request  BY ClintAssumption, Zenon
  <2> QED  BY <2>1, Zenon DEF Request
<1>2. ASSUME InMsip(a)
      PROVE  HartOfMsip(a) = (a - MSIBase) \div 4 /\ ((a - MSIBase) % 4) \div 4 = 0
  <2>1. a \in Nat  BY <1>1, AddressIsNat
  <2>2. HartOfMsip(a) = a \div 4  BY <1>1, <1>2, MsipSelect
  <2> HIDE DEF a
  <2>3. (a % 4) \div 4 = 0  BY <2>1
  <2>4. a - MSIBase = a  BY <2>1 DEF MSIBase
  <2> QED  BY <2>2, <2>3, <2>4
<1>3. InMtimecmp(a) => /\ HartOfCmp(a) = (a - MTimeCMPBase) \div 8
                       /\ HalfOf(a) = ((a - MTimeCMPBase) % 8) \div 4
  BY <1>1, CmpSelect
<1>4. ASSUME InMtime(a)
      PROVE  (a - MTimeBase) \div 8 = 0 /\ HalfOf(a) = ((a - MTimeBase) % 8) \div 4
  <2>1. a \in Nat  BY <1>1, AddressIsNat
  <2>2. HalfOf(a) = ((a - MTimeBase) % 8) \div 4  BY <1>1, <1>4, MtimeSelect
  <2>3. a - MTimeBase \in 0 .. 7  BY <1>4, <2>1 DEF InMtime, MTimeBase
  <2>4. \A k \in 0 .. 7 : k \div 8 = 0  OBVIOUS
  <2> QED  BY <2>2, <2>3, <2>4
<1> HIDE DEF a
<1>5. InMsip(a) => WordAccess("msip", a - MSIBase, 4, r.wdata) =
                     [reg |-> "msip", hart |-> HartOfMsip(a), half |-> 0, val |-> r.wdata]
  BY <1>2, Zenon DEF WordAccess
<1>6. InMtimecmp(a) => WordAccess("mtimecmp", a - MTimeCMPBase, 8, r.wdata) =
                         [reg |-> "mtimecmp", hart |-> HartOfCmp(a), half |-> HalfOf(a),
                          val |-> r.wdata]
  BY <1>3, Zenon DEF WordAccess
<1>7. InMtime(a) => WordAccess("mtime", a - MTimeBase, 8, r.wdata) =
                      [reg |-> "mtime", hart |-> 0, half |-> HalfOf(a), val |-> r.wdata]
  BY <1>4, Zenon DEF WordAccess
<1>8. WordNamed(r) = IF InMsip(a) THEN WordAccess("msip", a - MSIBase, 4, r.wdata)
                     ELSE IF InMtimecmp(a)
                          THEN WordAccess("mtimecmp", a - MTimeCMPBase, 8, r.wdata)
                     ELSE IF InMtime(a) THEN WordAccess("mtime", a - MTimeBase, 8, r.wdata)
                     ELSE NoAccess
  BY DEF WordNamed, a
<1>9. (InMtimecmp(a) => ~InMsip(a)) /\ (InMtime(a) => ~InMsip(a) /\ ~InMtimecmp(a))
  BY <1>1, FilesApart
<1> QED  BY <1>5, <1>6, <1>7, <1>8, <1>9, Zenon DEF a

\* The harts and words that the map knows are those of the core.
LEMMA MapDomains == 0 \in Harts /\ 0 \in Word /\ 0 \in Halves /\ RM!Word = Word
BY ClintAssumption, RadixAssumption DEF Harts, Word, Halves, RM!Word

\* The access of any request is one of the map's.
LEMMA RequestedIsOp ==
  ASSUME NEW r \in Requests
  PROVE  RequestedOp(r) \in RM!Ops
<1>1. r.addr \in Address /\ r.wdata \in Word
  <2>1. r \in Request  BY ClintAssumption, Zenon
  <2> QED  BY <2>1, Zenon DEF Request
<1>2. /\ \A x \in {"msip", "mtimecmp", "mtime"}, h \in Harts, w \in Halves, v \in Word :
           [reg |-> x, hart |-> h, half |-> w, val |-> v] \in RM!Ops
      /\ NoAccess \in RM!Ops
  BY MapDomains DEF NoAccess, RM!Ops, Halves
<1>3. WordNamed(r) \in RM!Ops
  <2>1. InMsip(r.addr) => HartOfMsip(r.addr) \in Harts
    BY <1>1, MsipSelect
  <2>2. InMtimecmp(r.addr) => HartOfCmp(r.addr) \in Harts /\ HalfOf(r.addr) \in Halves
    BY <1>1, CmpSelect
  <2>3. InMtime(r.addr) => HalfOf(r.addr) \in Halves
    BY <1>1, MtimeSelect
  <2>4. InMsip(r.addr) => WordNamed(r) \in RM!Ops
    BY <1>1, <1>2, <2>1, NamedWord, MapDomains, Zenon
  <2>5. InMtimecmp(r.addr) => WordNamed(r) \in RM!Ops
    BY <1>1, <1>2, <2>2, NamedWord, MapDomains, Zenon
  <2>6. InMtime(r.addr) => WordNamed(r) \in RM!Ops
    BY <1>1, <1>2, <2>3, NamedWord, MapDomains, Zenon
  <2> QED  BY <1>2, <2>4, <2>5, <2>6, NamedWord
<1> QED  BY <1>2, <1>3 DEF RequestedOp

\* What the decoder writes is what the map calls the access.
LEMMA OpDecoded ==
  ASSUME bus \in Requests
  PROVE  /\ WritesMsip =>
              RequestedOp(bus) = [reg |-> "msip", hart |-> HartOfMsip(bus.addr),
                                  half |-> 0, val |-> bus.wdata]
         /\ WritesMtimecmp =>
              RequestedOp(bus) = [reg |-> "mtimecmp", hart |-> HartOfCmp(bus.addr),
                                  half |-> HalfOf(bus.addr), val |-> bus.wdata]
         /\ WritesMtime =>
              RequestedOp(bus) = [reg |-> "mtime", hart |-> 0,
                                  half |-> HalfOf(bus.addr), val |-> bus.wdata]
         /\ RequestedOp(bus).reg = "msip" <=> WritesMsip
         /\ RequestedOp(bus).reg = "mtimecmp" <=> WritesMtimecmp
         /\ RequestedOp(bus).reg = "mtime" <=> WritesMtime
<1> DEFINE writing == bus.valid /\ bus.wstrb # 0
<1>1. bus.addr \in Address  BY BusType
<1>2. /\ WritesMsip <=> writing /\ InMsip(bus.addr)
      /\ WritesMtimecmp <=> writing /\ InMtimecmp(bus.addr)
      /\ WritesMtime <=> writing /\ InMtime(bus.addr)
  <2>1. bus.addr >= MSIBase
    <3>1. \A a \in Nat : a >= MSIBase  BY DEF MSIBase
    <3> QED  BY <1>1, <3>1, AddressIsNat, Zenon
  <2> QED  BY <2>1, Zenon
           DEF WritesMsip, WritesMtimecmp, WritesMtime, WritesIn, write, InMsip, InMtimecmp, InMtime
<1>3. RequestedOp(bus) = IF writing THEN WordNamed(bus) ELSE NoAccess
  BY DEF RequestedOp
<1> HIDE DEF writing
<1>4. /\ InMtimecmp(bus.addr) => ~InMsip(bus.addr)
      /\ InMtime(bus.addr) => ~InMsip(bus.addr) /\ ~InMtimecmp(bus.addr)
  BY <1>1, FilesApart
<1>5. NoAccess.reg = "none"  BY DEF NoAccess
<1> QED  BY <1>2, <1>3, <1>4, <1>5, NamedWord

\* Every read is answered at the next edge, with the word that the register it
\* names held when the read was taken.
THEOREM ReadsReturnCorrect == Spec => ReadsReturnRegisters
<1> DEFINE Returned ==
  Edge /\ cke_i /\ bus.valid /\ bus.wstrb = 0 =>
    /\ iob_rvalid_o'
    /\ LET w == WordNamed(bus) IN
       /\ w.reg = "msip" => iob_rdata_reg' = msip_reg[w.hart]
       /\ w.reg = "mtimecmp" => RM!IsHalf(Val(mtimecmp[w.hart]), w.half, iob_rdata_reg')
       /\ w.reg = "mtime" => RM!IsHalf(Val(mtime), w.half, iob_rdata_reg')
<1>1. TypeOK /\ [Next]_vars => [Returned]_vars
  <2> SUFFICES ASSUME TypeOK, Edge, cke_i, bus.valid, bus.wstrb = 0
      PROVE  /\ iob_rvalid_o'
             /\ LET w == WordNamed(bus) IN
                /\ w.reg = "msip" => iob_rdata_reg' = msip_reg[w.hart]
                /\ w.reg = "mtimecmp" => RM!IsHalf(Val(mtimecmp[w.hart]), w.half, iob_rdata_reg')
                /\ w.reg = "mtime" => RM!IsHalf(Val(mtime), w.half, iob_rdata_reg')
    OBVIOUS
  <2>1. bus \in Requests /\ bus.addr \in Address  BY BusType DEF TypeOK
  <2>2. iob_rvalid_o'  BY DEF Edge, RvalidNext, write
  <2>3. iob_rdata_reg' \in ReadMux(bus.addr)  BY DEF Edge
  <2>4. \A d \in Dword, w \in Halves : RM!IsHalf(Val(d), w, d[w])
    BY LoadHalf DEF RM!IsHalf, RM!Word, Word
  <2>5. CASE InMsip(bus.addr)
    <3>1. ReadMux(bus.addr) = {msip_reg[HartOfMsip(bus.addr)]}
      BY <2>1, <2>5, FilesApart, MsipSelect DEF ReadMux
    <3> QED  BY <2>1, <2>2, <2>3, <2>5, <3>1, NamedWord
  <2>6. CASE InMtimecmp(bus.addr)
    <3>1. HartOfCmp(bus.addr) \in Harts /\ HalfOf(bus.addr) \in Halves
      BY <2>1, <2>6, CmpSelect
    <3>2. ReadMux(bus.addr) = {mtimecmp[HartOfCmp(bus.addr)][HalfOf(bus.addr)]}
      BY <2>1, <2>6, <3>1, FilesApart DEF ReadMux
    <3>3. mtimecmp[HartOfCmp(bus.addr)] \in Dword  BY <3>1 DEF TypeOK
    <3> QED  BY <2>1, <2>2, <2>3, <2>4, <2>6, <3>1, <3>2, <3>3, NamedWord
  <2>7. CASE InMtime(bus.addr)
    <3>1. HalfOf(bus.addr) \in Halves  BY <2>1, <2>7, MtimeSelect
    <3>2. ReadMux(bus.addr) = {mtime[HalfOf(bus.addr)]}
      BY <2>1, <2>7, FilesApart DEF ReadMux
    <3>3. mtime \in Dword  BY DEF TypeOK
    <3> QED  BY <2>1, <2>2, <2>3, <2>4, <2>7, <3>1, <3>2, <3>3, NamedWord
  <2>8. CASE ~InMsip(bus.addr) /\ ~InMtimecmp(bus.addr) /\ ~InMtime(bus.addr)
    BY <2>1, <2>2, <2>8, NamedWord DEF NoAccess
  <2> QED  BY <2>5, <2>6, <2>7, <2>8
<1>2. Spec => [][Returned]_vars
  <2> HIDE DEF Returned
  <2> QED  BY <1>1, TypeCorrect, PTL DEF Spec
<1> QED  BY <1>2 DEF ReadsReturnRegisters

-------------------------------------------------------------------------------
(* Clint implements RegMap: every clock edge is an access of the map, every *)
(* reset the reset of the map.                                              *)

\* The greatest number of the map is all ones.
LEMMA MapTop == RM!Top = Val(Ones) /\ Val(Zeros) = 0
BY ValRange, DwordOps DEF RM!Top

\* A store to a word of a register is a write of that half of its number.
LEMMA StoreSets ==
  ASSUME NEW d \in Dword, NEW w \in Halves, NEW v \in Word
  PROVE  RM!SetsHalf(Val(d), w, v, Val([d EXCEPT ![w] = v]))
BY StoreHalf DEF RM!SetsHalf, RM!Word, Word

LEMMA EdgeTime ==
  ASSUME TypeOK, Edge
  PROVE  RM!TimeStep
<1>1. mtime' = MtimeNext /\ mtime \in Dword /\ bus \in Requests  BY DEF Edge, TypeOK
<1>2. CASE WritesMtime
  <2>1. HalfOf(bus.addr) \in Halves /\ bus.wdata \in Word
    BY <1>1, <1>2, BusType, DecodedWrites
  <2>2. Val(mtime') = Val([mtime EXCEPT ![HalfOf(bus.addr)] = bus.wdata])
    BY <1>1, <1>2 DEF MtimeNext
  <2>3. /\ RequestedOp(bus).reg = "mtime" /\ RequestedOp(bus).half = HalfOf(bus.addr)
        /\ RequestedOp(bus).val = bus.wdata
    BY <1>1, <1>2, OpDecoded
  <2>4. RM!SetsHalf(Val(mtime), HalfOf(bus.addr), bus.wdata, Val(mtime'))
    BY <1>1, <2>1, <2>2, StoreSets
  <2> QED  BY <2>3, <2>4 DEF RM!TimeStep
<1>3. CASE ~WritesMtime
  <2>1. RequestedOp(bus).reg # "mtime"  BY <1>1, <1>3, OpDecoded
  <2>2. mtime' = mtime \/ mtime' = Incr(mtime)  BY <1>1, <1>3 DEF MtimeNext
  <2>3. Val(Incr(mtime)) = IF Val(mtime) = RM!Top THEN 0 ELSE Val(mtime) + 1
    BY <1>1, IncrIsNumeric DEF RM!Top
  <2> QED  BY <2>1, <2>2, <2>3 DEF RM!TimeStep
<1> QED  BY <1>2, <1>3

LEMMA EdgeCmp ==
  ASSUME TypeOK, Edge
  PROVE  RM!CmpStep
<1> DEFINE numbers == [h \in Harts |-> Val(mtimecmp[h])]
<1>1. /\ mtimecmp' = MtimecmpNext /\ mtimecmp \in [Harts -> Dword] /\ bus \in Requests
      /\ mtimecmp' \in [Harts -> Dword]
  BY BlocksTyped DEF Edge, TypeOK
<1>2. CASE WritesMtimecmp
  <2> DEFINE k == HartOfCmp(bus.addr)  w == HalfOf(bus.addr)  v == bus.wdata
             d == [mtimecmp[k] EXCEPT ![w] = v]
  <2>1. k \in Harts /\ w \in Halves /\ v \in Word
    BY <1>1, <1>2, BusType, DecodedWrites
  <2>2. /\ RequestedOp(bus).reg = "mtimecmp" /\ RequestedOp(bus).hart = k
        /\ RequestedOp(bus).half = w /\ RequestedOp(bus).val = v
    BY <1>1, <1>2, OpDecoded
  <2>3. mtimecmp' = [mtimecmp EXCEPT ![k] = d]
    BY <1>1, <1>2 DEF MtimecmpNext
  <2> HIDE DEF k, w, v
  <2>4. mtimecmp[k] \in Dword /\ d \in Dword
    BY <1>1, <2>1 DEF Dword
  <2>5. RM!SetsHalf(numbers[k], w, v, Val(d))
    BY <2>1, <2>4, StoreSets
  <2> HIDE DEF d
  <2>6. Val(d) \in 0 .. RM!Top
    BY <2>4, ValRange, RadixAssumption DEF RM!Top
  <2>7. numbers' = [numbers EXCEPT ![k] = Val(d)]
    BY <1>1, <2>1, <2>3
  <2> HIDE DEF numbers
  <2>8. \E new \in 0 .. RM!Top : /\ RM!SetsHalf(numbers[k], w, v, new)
                                 /\ numbers' = [numbers EXCEPT ![k] = new]
    BY <2>5, <2>6, <2>7, Zenon
  <2> QED  BY <2>2, <2>8 DEF RM!CmpStep, numbers
<1>3. CASE ~WritesMtimecmp
  <2>1. RequestedOp(bus).reg # "mtimecmp"  BY <1>1, <1>3, OpDecoded
  <2>2. mtimecmp' = mtimecmp  BY <1>1, <1>3 DEF MtimecmpNext
  <2> QED  BY <2>1, <2>2 DEF RM!CmpStep
<1> QED  BY <1>2, <1>3

LEMMA EdgeSoft ==
  ASSUME TypeOK, Edge
  PROVE  RM!SoftStep
<1> DEFINE soft == {h \in Harts : msip_o(h)}
<1>1. msip_reg' = MsipNext /\ msip_reg \in [Harts -> {0, 1}] /\ bus \in Requests
  BY DEF Edge, TypeOK
<1>2. CASE WritesMsip
  <2> DEFINE k == HartOfMsip(bus.addr)  v == bus.wdata
  <2>1. k \in Harts /\ v \in Word  BY <1>1, <1>2, BusType, DecodedWrites
  <2>2. /\ RequestedOp(bus).reg = "msip" /\ RequestedOp(bus).hart = k
        /\ RequestedOp(bus).val = v
    BY <1>1, <1>2, OpDecoded
  <2>3. msip_reg' = [msip_reg EXCEPT ![k] = v % 2]  BY <1>1, <1>2 DEF MsipNext
  <2> HIDE DEF k, v
  <2>4. \A h \in Harts : msip_reg'[h] = IF h = k THEN v % 2 ELSE msip_reg[h]
    BY <1>1, <2>3
  <2>5. soft' = IF v % 2 = 1 THEN soft \cup {k} ELSE soft \ {k}
    BY <2>1, <2>4 DEF msip_o
  <2> HIDE DEF soft
  <2> QED  BY <2>2, <2>5 DEF RM!SoftStep, soft
<1>3. CASE ~WritesMsip
  <2>1. RequestedOp(bus).reg # "msip"  BY <1>1, <1>3, OpDecoded
  <2>2. msip_reg' = msip_reg  BY <1>1, <1>3 DEF MsipNext
  <2>3. soft' = soft  BY <2>2 DEF msip_o
  <2> QED  BY <2>1, <2>3 DEF RM!SoftStep
<1> QED  BY <1>2, <1>3

\* Registers at their reset values are the map's.
LEMMA ResetNumbers ==
  /\ \A c : c = [h \in Harts |-> Ones] =>
              [h \in Harts |-> Val(c[h])] = [h \in Harts |-> RM!Top]
  /\ \A m : m = [h \in Harts |-> 0] => {h \in Harts : m[h] = 1} = {}
BY MapTop

\* The core implements its register map: each access on the bus changes the
\* word it names, of the hart it names, and nothing else changes but MTIME,
\* which counts by one.
THEOREM RefinementCorrect == Spec => RefinesRegMap
<1>1. Init => RM!Init
  <2> SUFFICES ASSUME Init PROVE RM!Init
    OBVIOUS
  <2>1. RequestedOp(bus) \in RM!Ops  BY RequestedIsOp DEF Init
  <2>2. Val(mtime) = 0  BY MapTop DEF Init
  <2>3. [h \in Harts |-> Val(mtimecmp[h])] = [h \in Harts |-> RM!Top]
    BY ResetNumbers DEF Init
  <2>4. {h \in Harts : msip_o(h)} = {}  BY ResetNumbers DEF Init, msip_o
  <2> QED  BY <2>1, <2>2, <2>3, <2>4 DEF RM!Init
<1>2. TypeOK /\ TypeOK' /\ [Next]_vars => [RM!Next]_(RM!vars)
  <2> SUFFICES ASSUME TypeOK, TypeOK', [Next]_vars PROVE [RM!Next]_(RM!vars)
    OBVIOUS
  <2>1. RequestedOp(bus)' \in RM!Ops  BY RequestedIsOp DEF TypeOK
  <2>2. CASE Edge
    BY <2>1, <2>2, EdgeTime, EdgeCmp, EdgeSoft DEF RM!Next, RM!Access
  <2>3. CASE arst_i'
    <3>1. Val(mtime') = 0  BY <2>3, MapTop DEF TypeOK
    <3>2. [h \in Harts |-> Val(mtimecmp'[h])] = [h \in Harts |-> RM!Top]
      BY <2>3, ResetNumbers DEF TypeOK
    <3>3. {h \in Harts : msip_o(h)'} = {}  BY <2>3, ResetNumbers DEF TypeOK, msip_o
    <3> QED  BY <2>1, <3>1, <3>2, <3>3 DEF RM!Next, RM!Reset
  <2>4. CASE ReleaseReset \/ UNCHANGED vars
    <3>1. UNCHANGED <<bus, mtime, mtimecmp, msip_reg>>
      BY <2>4 DEF ReleaseReset, vars, regs
    <3> QED  BY <3>1 DEF RM!vars, msip_o
  <2> QED  BY <2>2, <2>3, <2>4 DEF Next, ResetEdge, AssertReset
<1> QED  BY <1>1, <1>2, TypeCorrect, PTL DEF Spec, RM!Spec, RefinesRegMap
===============================================================================
