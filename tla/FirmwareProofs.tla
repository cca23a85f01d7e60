----------------------------- MODULE FirmwareProofs ---------------------------
(***************************************************************************)
(* Theorems about Firmware, for every word width, every pair of offsets    *)
(* and whatever the other harts call.                                      *)
(***************************************************************************)
EXTENDS FirmwareProperties, DriverProofs

\* The masks that the trap and main use: bits 3 and 7 of mstatus.
LEMMA StatusMasks == MIE = {3} /\ MPIE = {7}
<1>1. Section("mstatus") = mstatus
  BY DEF Section, ReadOnlyRegisters, MachineIds, UserCounters, PlainRegisters, Delegation,
     MachineCounters, MachineTrap, SupervisorTrap, SupervisorDelegation, UserTrap, UserFloat,
     SupervisorMemory, Hypervisor, VirtualSupervisor, BaseAndBound, MemoryProtection,
     PerformanceCounters, Debug, HypervisorTrap, MachineTrapValues, BitRegisters
<1>2. MIE = Bits(3, 1) /\ MPIE = Bits(7, 1)
  BY <1>1 DEF MIE, MPIE, MaskOf, mstatus, BitRegister, Flag, Field
<1> QED  BY <1>2 DEF Bits

\* A step of the driver moves one caller, which was in a call; a call begins
\* where its caller was idle.
LEMMA DriverMoves ==
  ASSUME TypeOK, NEW c \in Callers
  PROVE  /\ Step(c) => ~Idle(c) /\ \A b \in Callers \ {c} : pc'[b] = pc[b]
         /\ Begin(c) => Idle(c) /\ \A b \in Callers \ {c} : pc'[b] = pc[b]
<1> USE DEF TypeOK, Idle, At, Goto, Return
<1>1. ASSUME Step(c) PROVE ~Idle(c) /\ \A b \in Callers \ {c} : pc'[b] = pc[b]
  BY <1>1 DEF Step, SetTimerLow, SetTimerHigh, GetLow, GetHigh, MaskCmp,
     SetCmpLow, SetCmpHigh, SetMsip, GetMsip, RawHigh, RawLow, RawRetry, RawReturn, RawDone
<1>2. ASSUME Begin(c) PROVE Idle(c) /\ \A b \in Callers \ {c} : pc'[b] = pc[b]
  BY <1>2 DEF Begin
<1> QED  BY <1>1, <1>2

LEMMA HartCallers == "main" \in Callers /\ "isr" \in Callers
BY FirmwareAssumption

\* Every step of the firmware is a step of the driver or leaves it alone.
LEMMA FirmwareIsDriver == [FirmwareNext]_fvars => [Next]_vars
<1> USE DEF SetsCsr, StartsCall
<1>1. CASE HartStep
  BY <1>1, HartCallers DEF HartStep, DisableGlobal, WriteMie, ClearCause, WriteCause, Stamp, Arm,
     WriteVector, EnableTimer, EnableGlobal, Wfi, Wakes, Trap, Handle, HandlerStamp, Mret,
     Access, Next
<1>2. CASE WfiEarly \/ Reboot  BY <1>2 DEF WfiEarly, Wakes, Reboot
<1>3. CASE OthersBegin \/ OthersStep  BY <1>3 DEF OthersBegin, OthersStep, Next
<1>4. CASE Clock  BY <1>4 DEF Clock, Next
<1>5. CASE UNCHANGED fvars  BY <1>5 DEF fvars
<1> QED  BY <1>1, <1>2, <1>3, <1>4, <1>5 DEF FirmwareNext

\* main is in a call only before it enables interrupts; a handler runs only
\* after that, and with interrupts disabled.
Enabled == csr["mstatus"] \cap {3} # {}
Calling == {"arm", "vector"}
Enabling == {"wfi", "exit"}

HartInv ==
  /\ DOMAIN csr = {"mstatus", "mie", "mcause", "mtvec"}
  /\ line \in DOMAIN After
  /\ ~Idle("main") => line \in Calling
  /\ Enabled => line \in Enabling /\ isr = "out"
  /\ isr # "out" => line \in Enabling
  /\ isr = "out" => Idle("isr")

LEMMA HartInit == FirmwareInit => HartInv
<1> SUFFICES ASSUME FirmwareInit PROVE HartInv
  OBVIOUS
<1>1. DOMAIN csr = {"mstatus", "mie", "mcause", "mtvec"} /\ 3 \notin csr["mstatus"]
  BY ResetAssumption, StatusMasks DEF FirmwareInit
<1>2. Idle("main") /\ Idle("isr")  BY HartCallers DEF FirmwareInit, Init, Idle
<1> QED  BY <1>1, <1>2 DEF FirmwareInit, HartInv, Enabled, After

LEMMA HartInductive ==
  ASSUME TypeOK, HartInv, [FirmwareNext]_fvars
  PROVE  HartInv'
<1> USE HartCallers, StatusMasks DEF HartInv, Enabled, Calling, Enabling
<1>1. ASSUME NEW s \in DOMAIN After, Main(s)
      PROVE  /\ line = s /\ line' = After[s] /\ isr = "out" /\ isr' = "out"
             /\ Idle("main") /\ Idle("isr")
  BY <1>1 DEF Main
<1>2. CASE \/ DisableGlobal \/ WriteMie \/ ClearCause \/ WriteCause
           \/ WriteVector \/ EnableTimer \/ Wfi \/ WfiEarly
  <2>1. UNCHANGED pc
    BY <1>2 DEF DisableGlobal, WriteMie, ClearCause, WriteCause, WriteVector, EnableTimer,
       Wfi, WfiEarly, Wakes, SetsCsr, vars, locals
  <2>2. csr' = csr \/ (\E r \in {"mie", "mcause", "mtvec"} : \E v : csr' = [csr EXCEPT ![r] = v])
        \/ csr' = [csr EXCEPT !["mstatus"] = @ \ {3}]
    BY <1>2 DEF DisableGlobal, WriteMie, ClearCause, WriteCause, WriteVector, EnableTimer,
       Wfi, WfiEarly, Wakes, SetsCsr, csrrc
  <2>3. DOMAIN csr' = DOMAIN csr /\ (Enabled' => Enabled)  BY <2>2
  <2>4. \E s \in DOMAIN After \ {"stamp", "arm", "enable", "exit"} : Main(s)
    BY <1>2 DEF DisableGlobal, WriteMie, ClearCause, WriteCause, WriteVector, EnableTimer,
       Wfi, WfiEarly, Wakes, After
  <2> QED  BY <1>1, <2>1, <2>3, <2>4 DEF After, Idle
<1>3. CASE Stamp \/ Arm
  <2>1. Begin("main") /\ UNCHANGED csr  BY <1>3 DEF Stamp, Arm, StartsCall
  <2>2. Main("stamp") \/ Main("arm")  BY <1>3 DEF Stamp, Arm
  <2>3. pc'["isr"] = pc["isr"]  BY <2>1, DriverMoves
  <2> QED  BY <1>1, <2>1, <2>2, <2>3 DEF After, Idle
<1>4. CASE EnableGlobal
  <2>1. UNCHANGED pc /\ csr' = [csr EXCEPT !["mstatus"] = @ \cup {3}] /\ Main("enable")
    BY <1>4 DEF EnableGlobal, SetsCsr, csrrs, vars, locals
  <2> QED  BY <1>1, <2>1 DEF After, Idle
<1>5. CASE Trap
  <2>1. Enabled /\ UNCHANGED <<pc, line>>  BY <1>5 DEF Trap, TrapDue, Has, vars, locals
  <2>2. csr' = [csr EXCEPT !["mstatus"] = (@ \ {3}) \cup {7}, !["mcause"] = Cause(Taken)]
    BY <1>5 DEF Trap
  <2>3. DOMAIN csr' = DOMAIN csr /\ ~Enabled'  BY <2>2
  <2>4. isr' # "out"  BY <1>5 DEF Trap
  <2> QED  BY <2>1, <2>3, <2>4 DEF Idle
<1>6. CASE Handle \/ HandlerStamp
  <2>1. isr # "out" /\ isr' # "out" /\ UNCHANGED <<line, csr>>
    BY <1>6 DEF Handle, HandlerStamp, StartsCall
  <2>2. pc'["main"] = pc["main"]
    BY <1>6, DriverMoves DEF Handle, HandlerStamp, StartsCall, vars, locals
  <2> QED  BY <2>1, <2>2 DEF Idle
<1>7. CASE Mret
  <2>1. isr # "out" /\ isr' = "out" /\ Idle("isr") /\ UNCHANGED <<pc, line>>
    BY <1>7 DEF Mret, vars, locals
  <2>2. DOMAIN csr' = DOMAIN csr  BY <1>7 DEF Mret
  <2> QED  BY <2>1, <2>2 DEF Idle
<1>8. CASE Access("main")
  <2>1. isr = "out" /\ Step("main") /\ UNCHANGED <<line, csr, isr>>  BY <1>8 DEF Access
  <2> QED  BY <2>1, DriverMoves DEF Idle
<1>9. CASE Access("isr")
  <2>1. Step("isr") /\ UNCHANGED <<line, csr, isr>>  BY <1>9 DEF Access
  <2> QED  BY <2>1, DriverMoves DEF Idle
<1>10. CASE Reboot
  <2>1. DOMAIN csr' = DOMAIN csr /\ 3 \notin csr'["mstatus"]
    BY <1>10, ResetAssumption DEF Reboot
  <2>2. UNCHANGED pc /\ Main("exit")  BY <1>10 DEF Reboot, vars, locals
  <2> QED  BY <1>1, <2>1, <2>2 DEF After, Idle
<1>11. CASE OthersBegin \/ OthersStep
  <2>1. UNCHANGED <<line, csr, isr>>  BY <1>11 DEF OthersBegin, OthersStep, hart
  <2>2. pc'["main"] = pc["main"] /\ pc'["isr"] = pc["isr"]
    BY <1>11, DriverMoves DEF OthersBegin, OthersStep
  <2> QED  BY <2>1, <2>2 DEF Idle
<1>12. CASE Clock \/ UNCHANGED fvars
  BY <1>12 DEF Clock, Tick, fvars, hart, vars, locals, Idle
<1> QED  BY <1>2, <1>3, <1>4, <1>5, <1>6, <1>7, <1>8, <1>9, <1>10, <1>11, <1>12
         DEF FirmwareNext, HartStep

LEMMA HartExcludes == HartInv => OneAtATime
BY StatusMasks DEF HartInv, OneAtATime, Has, Enabled, Calling, Enabling

LEMMA FirmwareTypes == FirmwareSpec => []TypeOK
<1>1. FirmwareInit => TypeOK
  BY DwordOps, DriverAssumption DEF FirmwareInit, Init, TypeOK, Idle, SettingCmp
<1>2. TypeOK /\ [FirmwareNext]_fvars => TypeOK'  BY FirmwareIsDriver, TypeInductive
<1> QED  BY <1>1, <1>2, PTL DEF FirmwareSpec

\* main and the handler are never both in a call of the driver: main makes its
\* calls with interrupts disabled.
THEOREM OneAtATimeCorrect == FirmwareSpec => []OneAtATime
<1>1. TypeOK /\ HartInv /\ [FirmwareNext]_fvars => HartInv'  BY HartInductive
<1> QED  BY <1>1, HartInit, HartExcludes, FirmwareTypes, PTL DEF FirmwareSpec

-------------------------------------------------------------------------------
\* The condition: main and the handler may share a compare register, other
\* callers own theirs.
TimersApart ==
  \A x, y \in Calls :
    SetsCmp(x) /\ SetsCmp(y) /\ HartOf(x) = HartOf(y) =>
      x.caller = y.caller \/ {x.caller, y.caller} \subseteq {"main", "isr"}

LEMMA HartSets == TimersApart /\ TypeOK /\ OneAtATime => OneSetter
<1> SUFFICES ASSUME TimersApart, TypeOK, OneAtATime, NEW b \in Callers, NEW c \in Callers,
                    SettingCmp(b), SettingCmp(c), Target(b) = Target(c)
             PROVE  b = c
  BY DEF OneSetter
<1>1. ~Idle(b) /\ ~Idle(c)  BY DEF SettingCmp, Idle
<1>2. b = c \/ {b, c} \subseteq {"main", "isr"}
  BY <1>1 DEF TimersApart, TypeOK, Target
<1> QED  BY <1>1, <1>2 DEF OneAtATime

\* The example raises no spurious timer interrupt, although main and the handler
\* both replace hart 0's deadline and no lock keeps them apart.
THEOREM FirmwareNoSpurious == TimersApart => (FirmwareSpec => []NoSpuriousInterrupt)
<1> SUFFICES ASSUME TimersApart PROVE FirmwareSpec => []NoSpuriousInterrupt
  OBVIOUS
<1>1. TypeOK /\ OneAtATime /\ CmpInv /\ [FirmwareNext]_fvars => CmpInv'
  BY HartSets, FirmwareIsDriver, CmpInductive
<1>2. FirmwareInit => CmpInv  BY CmpInit DEF FirmwareInit
<1> QED  BY <1>1, <1>2, CmpPins, FirmwareTypes, OneAtATimeCorrect, PTL DEF FirmwareSpec

-------------------------------------------------------------------------------
(* No wakeup is lost.  The last deadline installed for hart 0 is at most   *)
(* SecondOffset away from the moment main has armed the timer on.          *)

\* The conditions: main and the handler alone set hart 0's timer, nobody sets
\* MTIME, and the first deadline is not the later one.
HartsTimer == \A x \in Calls : SetsCmp(x) /\ HartOf(x) = 0 => x.caller \in {"main", "isr"}
FirstIsSooner == Val(FirstOffset) <= Val(SecondOffset)

\* Whoever waits or runs after the enabling has interrupts enabled again when
\* the handler returns.
WakeInv ==
  /\ isr # "out" => csr["mstatus"] \cap {7} # {}
  /\ line \in Enabling /\ isr = "out" => Enabled
  /\ line \in {"enable", "wfi", "exit"} => csr["mie"] \cap MaskOf("mie", "MTI") # {}

LEMMA TimerMask == MaskOf("mie", "MTI") = {7}
<1>1. Section("mie") = mie
  BY DEF Section, ReadOnlyRegisters, MachineIds, UserCounters, PlainRegisters, Delegation,
     MachineCounters, MachineTrap, SupervisorTrap, SupervisorDelegation, UserTrap, UserFloat,
     SupervisorMemory, Hypervisor, VirtualSupervisor, BaseAndBound, MemoryProtection,
     PerformanceCounters, Debug, HypervisorTrap, MachineTrapValues, BitRegisters
<1>2. MaskOf("mie", "MTI") = Bits(7, 1)
  BY <1>1 DEF MaskOf, mie, BitRegister, Flag, Field
<1> QED  BY <1>2 DEF Bits

LEMMA WakeInductive ==
  ASSUME HartInv, WakeInv, [FirmwareNext]_fvars
  PROVE  WakeInv'
<1> USE StatusMasks, TimerMask DEF HartInv, WakeInv, Enabled, Enabling
<1>1. ASSUME NEW s \in DOMAIN After, Main(s)
      PROVE  line = s /\ line' = After[s] /\ isr = "out" /\ isr' = "out"
  BY <1>1 DEF Main
<1>2. CASE DisableGlobal \/ WriteMie \/ ClearCause \/ WriteCause \/ Stamp \/ Arm \/ WriteVector
  <2>1. \E s \in {"disable", "write_mie", "clear_cause", "write_cause", "stamp", "arm", "vector"} :
          Main(s)
    BY <1>2 DEF DisableGlobal, WriteMie, ClearCause, WriteCause, Stamp, Arm, WriteVector
  <2> QED  BY <1>1, <2>1 DEF After
<1>3. CASE EnableTimer
  BY <1>1, <1>3 DEF EnableTimer, SetsCsr, csrrs, After
<1>4. CASE EnableGlobal
  BY <1>1, <1>4 DEF EnableGlobal, SetsCsr, csrrs, After
<1>5. CASE Wfi \/ WfiEarly
  <2>1. Main("wfi") /\ UNCHANGED csr  BY <1>5 DEF Wfi, WfiEarly, Wakes
  <2> QED  BY <1>1, <2>1 DEF After
<1>6. CASE Trap
  <2>1. UNCHANGED line /\ isr' # "out"  BY <1>6 DEF Trap
  <2>2. csr' = [csr EXCEPT !["mstatus"] = (@ \ {3}) \cup {7}, !["mcause"] = Cause(Taken)]
    BY <1>6 DEF Trap
  <2>3. 7 \in csr'["mstatus"] /\ csr'["mie"] = csr["mie"]  BY <2>2
  <2> QED  BY <2>1, <2>3
<1>7. CASE Mret
  <2>1. UNCHANGED line /\ isr # "out"  BY <1>7 DEF Mret
  <2>2. csr' = [csr EXCEPT !["mstatus"] = @ \cup {3}]
    BY <1>7, <2>1 DEF Mret, Has
  <2>3. 3 \in csr'["mstatus"] /\ csr'["mie"] = csr["mie"] /\ isr' = "out"
    BY <1>7, <2>2 DEF Mret
  <2> QED  BY <2>1, <2>3
<1>8. CASE Reboot
  <2>1. Main("exit")  BY <1>8 DEF Reboot
  <2> QED  BY <1>1, <2>1 DEF After
<1>9. CASE \/ Handle \/ HandlerStamp \/ Access("main") \/ Access("isr")
           \/ OthersBegin \/ OthersStep \/ Clock \/ UNCHANGED fvars
  <2>1. UNCHANGED <<line, csr>> /\ (isr = "out" <=> isr' = "out")
    BY <1>9 DEF Handle, HandlerStamp, StartsCall, Access, OthersBegin, OthersStep, Clock,
       fvars, hart
  <2> QED  BY <2>1
<1> QED  BY <1>2, <1>3, <1>4, <1>5, <1>6, <1>7, <1>8, <1>9 DEF FirmwareNext, HartStep

-------------------------------------------------------------------------------
\* d is at most SecondOffset away.
Within(d) == Fits(SecondOffset) => Val(d) <= Val(mtime) + Val(SecondOffset)

\* What a call of main or of the handler can be, and what it is about to store.
CallInv(c) ==
  /\ pc[c] \in {"idle", "raw_high", "raw_low", "raw_check",
                 "set_cmp_mask", "set_cmp_low", "set_cmp_high"}
  /\ ~Idle(c) => /\ call[c].fn \in {"mtimer_get_raw_time", "mtimer_set_raw_time_cmp"}
                 /\ call[c].arg \in Dword /\ Val(call[c].arg) <= Val(SecondOffset)
                 /\ Target(c) = 0
  /\ SettingCmp(c) => Within(val[c])

Armed == line \in {"vector", "enable_timer", "enable", "wfi", "exit"} /\ Idle("main")

ArmedInv ==
  /\ CallInv("main") /\ CallInv("isr")
  /\ line = "vector" /\ ~Idle("main") => call["main"].fn = "mtimer_set_raw_time_cmp"
  /\ Armed => Within(deadline[0])

\* A deadline stays within reach while MTIME ticks.
LEMMA WithinKept ==
  ASSUME TypeOK, NEW d \in Dword, Within(d), mtime' = mtime \/ Tick
  PROVE  Fits(SecondOffset)' => Val(d) <= Val(mtime') + Val(SecondOffset)
<1>1. Val(mtime) \in Nat /\ Val(SecondOffset) \in Nat /\ Val(d) \in Nat
  BY ValRange, FirmwareAssumption DEF TypeOK
<1>2. CASE mtime' = mtime  BY <1>2 DEF Within, Fits
<1>3. CASE Tick
  <2>1. mtime' = Incr(mtime) /\ mtime # Ones /\ mtime \in Dword  BY <1>3 DEF Tick, TypeOK
  <2>2. Val(mtime') = Val(mtime) + 1
    <3>1. Incr(mtime) \in Dword /\ Geq(Incr(mtime), mtime)  BY <2>1, DwordOps, IncrStep
    <3>2. Val(mtime) = Radix * Radix - 1 => Val(mtime') = 0 /\ Val(mtime') >= Val(mtime)
      BY <2>1, <3>1, IncrIsNumeric, GeqIsNumeric
    <3>3. Radix * Radix - 1 > 0
      BY RadixAssumption
    <3> QED  BY <1>1, <2>1, <3>2, <3>3, IncrIsNumeric
  <2> HIDE DEF Within
  <2>3. Fits(SecondOffset)' => Fits(SecondOffset)
    <3>1. Radix * Radix \in Nat  BY RadixAssumption
    <3> QED  BY <1>1, <2>2, <3>1 DEF Fits
  <2> QED  BY <1>1, <2>2, <2>3 DEF Within
<1> QED  BY <1>2, <1>3

LEMMA CallInvFrame ==
  ASSUME TypeOK, NEW c \in Callers, CallInv(c), UNCHANGED <<pc[c], call[c], val[c]>>,
         mtime' = mtime \/ Tick
  PROVE  CallInv(c)'
<1>1. SettingCmp(c) => (Fits(SecondOffset)' => Val(val[c]) <= Val(mtime') + Val(SecondOffset))
  BY WithinKept DEF CallInv, TypeOK
<1> QED  BY <1>1 DEF CallInv, SettingCmp, Idle, Within, Fits, Target

\* A call of main or the handler begins.
LEMMA CallInvBegin ==
  ASSUME TypeOK, FirstIsSooner, NEW c \in Callers,
         NEW fn \in {"mtimer_get_raw_time", "mtimer_set_raw_time_cmp"},
         NEW arg \in {Zeros, FirstOffset, SecondOffset}, StartsCall(c, fn, arg)
  PROVE  CallInv(c)' /\ call'[c].fn = fn /\ ~Idle(c)' /\ UNCHANGED <<mtime, deadline>>
<1>1. PICK x \in Calls : /\ call' = [call EXCEPT ![c] = x]
                         /\ pc' = [pc EXCEPT ![c] = Entry(x.fn)]
  BY DEF StartsCall, Begin, Goto
<1>2. call'[c] = x /\ x.fn = fn /\ x.arg = arg /\ x.hart = 0
  BY <1>1 DEF StartsCall, HartCall, TypeOK
<1>3. pc'[c] = "raw_high"  BY <1>1, <1>2 DEF Entry, TypeOK
<1>4. arg \in Dword /\ Val(arg) <= Val(SecondOffset)
  BY FirmwareAssumption, DwordOps, ValRange DEF FirstIsSooner
<1>5. UNCHANGED <<mtime, deadline>>  BY DEF StartsCall, Begin, device
<1> QED  BY <1>2, <1>3, <1>4, <1>5 DEF CallInv, Idle, SettingCmp, Target, HartOf

\* One access of it.  The deadline it stores is the time it read and its offset.
LEMMA CallInvStep ==
  ASSUME TypeOK, RawInv, NEW c \in Callers, CallInv(c), Step(c)
  PROVE  /\ CallInv(c)' /\ UNCHANGED mtime /\ (call'[c] = call[c] \/ Idle(c)')
         /\ deadline'[0] = deadline[0] \/ Within(deadline'[0])
         /\ Idle(c)' /\ call[c].fn = "mtimer_set_raw_time_cmp" => Within(deadline'[0])
<1> USE DEF CallInv, Idle, At, Goto, SettingCmp, TypeOK, Target
<1>1. CASE RawHigh(c) \/ RawLow(c) \/ RawRetry(c)
  <2>1. UNCHANGED <<mtime, call, deadline>>
    BY <1>1 DEF RawHigh, RawLow, RawRetry, device, history
  <2>2. pc'[c] \in {"raw_high", "raw_low", "raw_check"}
    BY <1>1 DEF RawHigh, RawLow, RawRetry
  <2> QED  BY <1>1, <2>1, <2>2 DEF RawHigh, RawLow, RawRetry
<1>2. CASE MaskCmp(c) \/ SetCmpLow(c)
  <2>1. UNCHANGED <<mtime, call, val, deadline>>
    BY <1>2 DEF MaskCmp, SetCmpLow, history
  <2>2. pc'[c] \in {"set_cmp_low", "set_cmp_high"} /\ SettingCmp(c)
    BY <1>2 DEF MaskCmp, SetCmpLow
  <2> QED  BY <1>2, <2>1, <2>2 DEF Within, Fits, MaskCmp, SetCmpLow
<1>3. CASE SetCmpHigh(c)
  <2>1. Within(val[c]) /\ UNCHANGED mtime /\ pc'[c] = "idle"
    BY <1>3 DEF SetCmpHigh, Return
  <2>2. deadline'[0] = val[c]
    BY <1>3, DriverAssumption DEF SetCmpHigh
  <2> QED  BY <2>1, <2>2
<1>4. CASE RawReturn(c)
  <2>1. Geq(mtime, val[c]) /\ UNCHANGED <<mtime, deadline>>
    BY <1>4, RawReadIsSeen DEF RawReturn, device
  <2>2. CASE call[c].fn # "mtimer_set_raw_time_cmp"
    BY <1>4, <2>1, <2>2 DEF RawReturn, Return
  <2>3. CASE call[c].fn = "mtimer_set_raw_time_cmp"
    <3>1. /\ val'[c] = Plus(val[c], call[c].arg) /\ pc'[c] = "set_cmp_mask"
          /\ UNCHANGED call
      BY <1>4, <2>3 DEF RawReturn, Keep
    <3>2. call[c].arg \in Dword /\ Val(call[c].arg) <= Val(SecondOffset)
      BY <1>4 DEF RawReturn, RawDone
    <3>3. Val(val[c]) <= Val(mtime)  BY <2>1, GeqIsNumeric, ValRange
    <3>4. Fits(SecondOffset) => Val(val'[c]) <= Val(mtime) + Val(SecondOffset)
      <4>1. /\ Val(val[c]) \in Nat /\ Val(mtime) \in Nat /\ Val(SecondOffset) \in Nat
            /\ Val(call[c].arg) \in Nat
        BY <3>2, ValRange, FirmwareAssumption
      <4>2. Radix * Radix \in Nat  BY RadixAssumption
      <4>3. Fits(SecondOffset) => Val(val[c]) + Val(call[c].arg) < Radix * Radix
        BY <3>2, <3>3, <4>1, <4>2 DEF Fits
      <4>4. Fits(SecondOffset) => Val(val'[c]) = Val(val[c]) + Val(call[c].arg)
        BY <3>1, <3>2, <4>3, PlusFits
      <4> QED  BY <3>2, <3>3, <4>1, <4>4
    <3>5. Within(val[c])'  BY <2>1, <3>4 DEF Within, Fits
    <3>6. ~Idle(c) /\ ~Idle(c)' /\ UNCHANGED call[c]
      BY <1>4, <3>1 DEF RawReturn, RawDone
    <3>7. CallInv(c)'  BY <2>3, <3>1, <3>2, <3>5, <3>6
    <3> QED  BY <2>1, <3>6, <3>7
  <2> QED  BY <2>2, <2>3
<1>5. ~(SetTimerLow(c) \/ SetTimerHigh(c) \/ GetLow(c) \/ GetHigh(c) \/ SetMsip(c) \/ GetMsip(c))
  BY DEF SetTimerLow, SetTimerHigh, GetLow, GetHigh, SetMsip, GetMsip
<1> QED  BY <1>1, <1>2, <1>3, <1>4, <1>5 DEF Step

LEMMA ArmedInductive ==
  ASSUME TimerNotSet, HartsTimer, FirstIsSooner, TypeOK, RawInv, HartInv, ArmedInv,
         [FirmwareNext]_fvars
  PROVE  ArmedInv'
<1> USE HartCallers DEF ArmedInv
<1>0. deadline[0] \in Dword  BY DriverAssumption DEF TypeOK
<1>1. ASSUME NEW s \in DOMAIN After, Main(s)
      PROVE  line = s /\ line' = After[s] /\ Idle("main")
  BY <1>1 DEF Main
<1>2. ASSUME UNCHANGED <<pc, call, val, deadline>>, mtime' = mtime \/ Tick,
             Armed' => Armed, line' = "vector" => line = "vector"
      PROVE  ArmedInv'
  <2>1. CallInv("main")' /\ CallInv("isr")'  BY <1>2, CallInvFrame
  <2>2. Armed' => Within(deadline[0])'
    BY <1>0, <1>2, WithinKept DEF Within, Fits
  <2> QED  BY <1>2, <2>1, <2>2 DEF Idle
<1>3. CASE \/ DisableGlobal \/ WriteMie \/ ClearCause \/ WriteCause \/ WriteVector
           \/ EnableTimer \/ EnableGlobal \/ Wfi \/ WfiEarly \/ Reboot
  <2>1. \E s \in DOMAIN After \ {"stamp", "arm"} : Main(s)
    BY <1>3 DEF DisableGlobal, WriteMie, ClearCause, WriteCause, WriteVector, EnableTimer,
       EnableGlobal, Wfi, WfiEarly, Wakes, Reboot, After
  <2>2. UNCHANGED vars
    BY <1>3 DEF DisableGlobal, WriteMie, ClearCause, WriteCause, WriteVector, EnableTimer,
       EnableGlobal, Wfi, WfiEarly, Wakes, Reboot, SetsCsr
  <2>3. UNCHANGED <<mtime, pc, call, val, deadline>>
    BY <2>2 DEF vars, device, locals, history
  <2> QED  BY <1>1, <1>2, <2>1, <2>3 DEF After, Armed, Idle
<1>4. CASE Trap \/ Mret
  BY <1>2, <1>4 DEF Trap, Mret, vars, device, locals, history, Armed, Idle
<1>5. CASE Clock \/ UNCHANGED fvars
  BY <1>2, <1>5 DEF Clock, Tick, fvars, hart, vars, device, locals, history, Armed, Idle
<1>6. ASSUME NEW b \in Callers, NEW c \in Callers, b # c, CallInv(b), UNCHANGED mtime,
             Begin(c) \/ Step(c)
      PROVE  CallInv(b)'
  <2>1. UNCHANGED <<pc[b], call[b], val[b]>>
    BY <1>6 DEF Begin, Step, SetTimerLow, SetTimerHigh, GetLow, GetHigh, MaskCmp, SetCmpLow,
       SetCmpHigh, SetMsip, GetMsip, RawHigh, RawLow, RawRetry, RawReturn, Return, Goto, Keep,
       KeepWord, TypeOK
  <2> QED  BY <1>6, <2>1, CallInvFrame
<1>7. CASE Stamp \/ Arm
  <2>1. PICK fn \in {"mtimer_get_raw_time", "mtimer_set_raw_time_cmp"},
             arg \in {Zeros, FirstOffset} :
          /\ StartsCall("main", fn, arg) /\ (line' = "vector" => fn = "mtimer_set_raw_time_cmp")
    BY <1>1, <1>7 DEF Stamp, Arm, After
  <2>2. /\ CallInv("main")' /\ call'["main"].fn = fn /\ ~Idle("main")'
        /\ UNCHANGED <<mtime, deadline>>
    BY <2>1, CallInvBegin
  <2>3. CallInv("isr")'  BY <1>6, <2>1, <2>2 DEF StartsCall
  <2> QED  BY <2>1, <2>2, <2>3 DEF Armed
<1>8. CASE Handle \/ HandlerStamp
  <2>1. UNCHANGED line  BY <1>8 DEF Handle, HandlerStamp
  <2>2. CASE UNCHANGED vars
    BY <1>2, <2>1, <2>2 DEF vars, device, locals, history, Armed, Idle
  <2>3. CASE ~UNCHANGED vars
    <3>1. PICK fn \in {"mtimer_get_raw_time", "mtimer_set_raw_time_cmp"},
               arg \in {Zeros, SecondOffset} : StartsCall("isr", fn, arg)
      BY <1>8, <2>3 DEF Handle, HandlerStamp
    <3>2. CallInv("isr")' /\ UNCHANGED <<mtime, deadline>>  BY <3>1, CallInvBegin
    <3>3. CallInv("main")'  BY <1>6, <3>1, <3>2 DEF StartsCall
    <3>4. pc'["main"] = pc["main"] /\ call'["main"] = call["main"]
      BY <3>1 DEF StartsCall, Begin, Goto, TypeOK
    <3> QED  BY <2>1, <3>2, <3>3, <3>4 DEF Armed, Idle, Within, Fits
  <2> QED  BY <2>2, <2>3
<1>9. CASE Access("main")
  <2>1. Step("main") /\ UNCHANGED line  BY <1>9 DEF Access
  <2>2. ~Idle("main") /\ line \in Calling  BY <2>1, DriverMoves DEF HartInv
  <2>3. /\ CallInv("main")' /\ UNCHANGED mtime
        /\ call'["main"] = call["main"] \/ Idle("main")'
        /\ Idle("main")' /\ line = "vector" => Within(deadline'[0])
    BY <2>1, <2>2, CallInvStep
  <2>4. CallInv("isr")'  BY <1>6, <2>1, <2>3
  <2>5. Armed' => Within(deadline'[0])
    BY <2>1, <2>2, <2>3 DEF Armed, Calling
  <2> QED  BY <2>1, <2>2, <2>3, <2>4, <2>5 DEF Within, Fits
<1>10. CASE Access("isr")
  <2>1. Step("isr") /\ UNCHANGED line  BY <1>10 DEF Access
  <2>2. /\ CallInv("isr")' /\ UNCHANGED mtime
        /\ deadline'[0] = deadline[0] \/ Within(deadline'[0])
    BY <2>1, CallInvStep
  <2>3. CallInv("main")'  BY <1>6, <2>1, <2>2
  <2>4. pc'["main"] = pc["main"] /\ call'["main"] = call["main"]
    BY <2>1 DEF Step, SetTimerLow, SetTimerHigh, GetLow, GetHigh, MaskCmp, SetCmpLow,
       SetCmpHigh, SetMsip, GetMsip, RawHigh, RawLow, RawRetry, RawReturn, Return, Goto, TypeOK
  <2> QED  BY <2>1, <2>2, <2>3, <2>4 DEF Armed, Idle, Within, Fits
<1>11. CASE OthersBegin \/ OthersStep
  <2>1. PICK c \in Callers \ {"main", "isr"} : Begin(c) \/ Step(c)
    BY <1>11 DEF OthersBegin, OthersStep
  <2>2. UNCHANGED line  BY <1>11 DEF OthersBegin, OthersStep, hart
  <2>3. UNCHANGED mtime
    BY <2>1 DEF RawInv, At, Begin, Step, SetTimerLow, SetTimerHigh, GetLow, GetHigh, MaskCmp,
       SetCmpLow, SetCmpHigh, SetMsip, GetMsip, RawHigh, RawLow, RawRetry, RawReturn, device
  <2>4. UNCHANGED deadline \/ SetCmpHigh(c)
    BY <2>1 DEF Begin, Step, SetTimerLow, SetTimerHigh, GetLow, GetHigh, MaskCmp,
       SetCmpLow, SetMsip, GetMsip, RawHigh, RawLow, RawRetry, RawReturn, history
  <2>5. deadline'[0] = deadline[0]
    <3>1. SetCmpHigh(c) => Target(c) # 0
      BY <2>1 DEF SetCmpHigh, At, HartsTimer, TypeOK, Idle, SettingCmp, Target
    <3>2. SetCmpHigh(c) => deadline' = [deadline EXCEPT ![Target(c)] = val[c]]
      BY DEF SetCmpHigh
    <3> QED  BY <2>4, <3>1, <3>2, DriverAssumption DEF TypeOK
  <2>6. pc'["main"] = pc["main"] /\ call'["main"] = call["main"]
    BY <2>1 DEF Begin, Step, SetTimerLow, SetTimerHigh, GetLow, GetHigh, MaskCmp, SetCmpLow,
       SetCmpHigh, SetMsip, GetMsip, RawHigh, RawLow, RawRetry, RawReturn, Return, Goto, TypeOK
  <2>7. CallInv("main")' /\ CallInv("isr")'  BY <1>6, <2>1, <2>3
  <2> QED  BY <2>2, <2>3, <2>5, <2>6, <2>7 DEF Armed, Idle, Within, Fits
<1> QED  BY <1>3, <1>4, <1>5, <1>7, <1>8, <1>9, <1>10, <1>11 DEF FirmwareNext, HartStep

LEMMA SleepsBecauseArmed ==
  TypeOK /\ HartsTimer /\ HartInv /\ WakeInv /\ CmpInv /\ ArmedInv => SleepsArmed
<1> SUFFICES ASSUME TypeOK, HartsTimer, HartInv, WakeInv, CmpInv, ArmedInv,
                    line = "wfi", isr = "out", Fits(SecondOffset)
             PROVE  /\ Has("mstatus", MIE) /\ Has("mie", MaskOf("mie", "MTI"))
                    /\ Val(mtimecmp[0]) <= Val(mtime) + Val(SecondOffset)
  BY DEF SleepsArmed
<1>1. Has("mstatus", MIE) /\ Has("mie", MaskOf("mie", "MTI"))
  BY StatusMasks DEF WakeInv, Has, Enabled, Enabling
<1>2. Idle("main") /\ Idle("isr")  BY DEF HartInv, Calling
<1>3. ~Masked(0)
  BY <1>2 DEF Masked, HartsTimer, TypeOK, Idle, SettingCmp, Target
<1>4. mtimecmp[0] = deadline[0]  BY <1>3, DriverAssumption DEF CmpInv
<1> QED  BY <1>1, <1>2, <1>4 DEF ArmedInv, Armed, Within

\* Whoever waits in wfi is woken: interrupts are enabled, and a deadline not
\* more than SecondOffset away is armed, even if the first interrupt came before.
THEOREM SleepsArmedCorrect ==
  TimerNotSet /\ TimersApart /\ HartsTimer /\ FirstIsSooner => (FirmwareSpec => []SleepsArmed)
<1> SUFFICES ASSUME TimerNotSet, TimersApart, HartsTimer, FirstIsSooner
             PROVE  FirmwareSpec => []SleepsArmed
  OBVIOUS
<1>1. FirmwareInit => RawInv /\ CmpInv /\ HartInv /\ WakeInv /\ ArmedInv
  <2> SUFFICES ASSUME FirmwareInit PROVE RawInv /\ CmpInv /\ HartInv /\ WakeInv /\ ArmedInv
    OBVIOUS
  <2>1. RawInv /\ CmpInv  BY CmpInit DEF FirmwareInit, Init, RawInv, Idle, At
  <2>2. WakeInv  BY DEF FirmwareInit, WakeInv, Enabling
  <2>3. CallInv("main") /\ CallInv("isr") /\ ~Armed /\ line # "vector"
    BY HartCallers DEF FirmwareInit, Init, CallInv, Idle, SettingCmp, Armed
  <2> QED  BY <2>1, <2>2, <2>3, HartInit DEF ArmedInv
<1>2. TypeOK /\ RawInv /\ CmpInv /\ HartInv /\ WakeInv /\ ArmedInv /\ [FirmwareNext]_fvars
        => (RawInv /\ CmpInv /\ HartInv /\ WakeInv /\ ArmedInv)'
  BY FirmwareIsDriver, RawInductive, HartExcludes, HartSets, CmpInductive, HartInductive,
     WakeInductive, ArmedInductive
<1>3. TypeOK /\ CmpInv /\ HartInv /\ WakeInv /\ ArmedInv => SleepsArmed
  BY SleepsBecauseArmed
<1> QED  BY <1>1, <1>2, <1>3, FirmwareTypes, PTL DEF FirmwareSpec

-------------------------------------------------------------------------------
(* The traps and the end of main.  Interrupts are enabled with the timer's *)
(* alone in mie, the vector written and a deadline of this run installed.  *)

Vectored == line \in {"enable_timer", "enable", "wfi", "exit"}

\* What the hart's registers hold.
CsrInv ==
  /\ line \in {"enable", "wfi", "exit"} => csr["mie"] = {7}
  /\ line \notin {"enable", "wfi", "exit", "disable", "write_mie"} => csr["mie"] = {}
  /\ Vectored => csr["mtvec"] = irq_entry
  /\ isr = "entry" => csr["mcause"] = Cause("MTI")
  /\ isr \in {"out", "entry", "stamp", "return"}

\* What main has called, and when.
MainInv ==
  /\ Geq(mtime, booted) /\ booted \in Dword
  /\ ~Idle("main") => Geq(began["main"], booted)
  /\ line = "vector" /\ ~Idle("main") =>
       call["main"] = HartCall("main", "mtimer_set_raw_time_cmp", FirstOffset)
  /\ Armed => AfterFirst(mtime) \/ AfterFirst(deadline[0])

\* The handler has noted a time after the first deadline of this run.
Noted == stamper = "isr" /\ AfterFirst(timestamp)

\* What the handler has called, and when.
HandlerInv ==
  /\ timestamp \in Dword
  /\ isr # "out" => AfterFirst(mtime)
  /\ isr = "entry" => Idle("isr")
  /\ isr = "stamp" /\ ~Idle("isr") => call["isr"].fn = "mtimer_set_raw_time_cmp"
  /\ isr = "return" /\ ~Idle("isr") =>
       call["isr"].fn = "mtimer_get_raw_time" /\ AfterFirst(began["isr"])
  /\ isr = "return" /\ Idle("isr") => Noted
  /\ woken /\ line = "exit" /\ isr = "out" => Noted \/ mtip(0)

LEMMA InterruptMasks == RISCV_INT_MASK["MTI"] = {7} /\ RISCV_INT_MASK["MSI"] = {3}
BY DEF RISCV_INT_MASK, RISCV_INT_POS

\* The handler recognises the cause of a timer interrupt.
LEMMA TimerCause == IsTimer(Cause("MTI"))
<1>1. Section("mcause") = mcause
  BY DEF Section, ReadOnlyRegisters, MachineIds, UserCounters, PlainRegisters, Delegation,
     MachineCounters, MachineTrap, SupervisorTrap, SupervisorDelegation, UserTrap, UserFloat,
     SupervisorMemory, Hypervisor, VirtualSupervisor, BaseAndBound, MemoryProtection,
     PerformanceCounters, Debug, HypervisorTrap, MachineTrapValues, BitRegisters
<1>2. MaskOf("mcause", "INTERRUPT") = Bits(xlen - 1, 1)
  BY <1>1 DEF MaskOf, mcause, BitRegister, Flag, Field
<1>3. xlen - 1 \in Bits(xlen - 1, 1)  BY XlenAssumption DEF Bits
<1> QED  BY <1>2, <1>3 DEF IsTimer, Cause

\* With the timer's alone enabled in mie, an interrupt is pending when the
\* timer's is, and is taken for it.
LEMMA TimerPends ==
  ASSUME csr["mie"] = {7}
  PROVE  (Pending # {} <=> mtip(0)) /\ (Pending # {} => Taken = "MTI")
BY InterruptMasks DEF Pending, mipBits, Taken

\* A trap is the timer's and enters the handler.
LEMMA TrapIsTimer ==
  ASSUME HartInv, CsrInv, Trap
  PROVE  /\ mtip(0) /\ isr' = "entry" /\ csr'["mcause"] = Cause("MTI")
         /\ line \in Enabling /\ isr = "out" /\ Idle("main") /\ Idle("isr")
<1>1. Enabled /\ Pending # {}  BY StatusMasks DEF Trap, TrapDue, Has, Enabled
<1>2. line \in Enabling /\ isr = "out" /\ Idle("main") /\ Idle("isr")
  BY <1>1 DEF HartInv, Calling, Enabling
<1>3. csr["mie"] = {7} /\ csr["mtvec"] = irq_entry
  BY <1>2 DEF CsrInv, Enabling, Vectored
<1>4. mtip(0) /\ Taken = "MTI"  BY <1>1, <1>3, TimerPends
<1> QED  BY <1>2, <1>3, <1>4 DEF Trap, HartInv

LEMMA CsrInductive ==
  ASSUME HartInv, CsrInv, [FirmwareNext]_fvars
  PROVE  CsrInv'
<1> USE DEF CsrInv, Vectored
<1>1. ASSUME NEW s \in DOMAIN After, Main(s)
      PROVE  line = s /\ line' = After[s] /\ isr = "out" /\ isr' = "out"
  BY <1>1 DEF Main
<1>2. CASE DisableGlobal \/ ClearCause \/ WriteCause
  <2>1. /\ csr'["mie"] = csr["mie"] /\ csr'["mtvec"] = csr["mtvec"]
    BY <1>2 DEF DisableGlobal, ClearCause, WriteCause, SetsCsr, HartInv
  <2>2. \E s \in {"disable", "clear_cause", "write_cause"} : Main(s)
    BY <1>2 DEF DisableGlobal, ClearCause, WriteCause
  <2> QED  BY <1>1, <2>1, <2>2 DEF After
<1>3. CASE WriteMie
  BY <1>1, <1>3 DEF WriteMie, SetsCsr, csrrw, After, HartInv
<1>4. CASE Stamp \/ Arm \/ Wfi \/ WfiEarly
  <2>1. UNCHANGED csr /\ \E s \in {"stamp", "arm", "wfi"} : Main(s)
    BY <1>4 DEF Stamp, Arm, Wfi, WfiEarly, Wakes, StartsCall
  <2> QED  BY <1>1, <2>1 DEF After
<1>5. CASE WriteVector
  BY <1>1, <1>5 DEF WriteVector, SetsCsr, csrrw, After, HartInv
<1>6. CASE EnableTimer
  BY <1>1, <1>6, TimerMask DEF EnableTimer, SetsCsr, csrrs, After, HartInv
<1>7. CASE EnableGlobal
  BY <1>1, <1>7 DEF EnableGlobal, SetsCsr, After, HartInv
<1>8. CASE Trap
  <2>1. UNCHANGED line /\ csr'["mie"] = csr["mie"] /\ csr'["mtvec"] = csr["mtvec"]
    BY <1>8 DEF Trap, HartInv
  <2> QED  BY <1>8, <2>1, TrapIsTimer
<1>9. CASE Mret
  <2>1. /\ UNCHANGED line /\ isr' = "out"
        /\ csr'["mie"] = csr["mie"] /\ csr'["mtvec"] = csr["mtvec"]
    BY <1>9 DEF Mret, HartInv
  <2> QED  BY <2>1
<1>10. CASE Handle \/ HandlerStamp
  BY <1>10 DEF Handle, HandlerStamp, StartsCall
<1>11. CASE Reboot
  <2>1. Main("exit")  BY <1>11 DEF Reboot
  <2> QED  BY <1>1, <2>1 DEF After
<1>12. CASE \/ Access("main") \/ Access("isr")
            \/ OthersBegin \/ OthersStep \/ Clock \/ UNCHANGED fvars
  <2>1. UNCHANGED <<line, csr, isr>>
    BY <1>12 DEF Access, OthersBegin, OthersStep, Clock, fvars, hart
  <2> QED  BY <2>1
<1> QED  BY <1>2, <1>3, <1>4, <1>5, <1>6, <1>7, <1>8, <1>9, <1>10, <1>11, <1>12
         DEF FirmwareNext, HartStep

\* A step of one caller leaves the calls of the others alone.
LEMMA CallApart ==
  ASSUME TypeOK, NEW b \in Callers, NEW c \in Callers, b # c, Begin(b) \/ Step(b)
  PROVE  UNCHANGED <<pc[c], call[c], val[c], began[c]>>
BY DEF Begin, Step, SetTimerLow, SetTimerHigh, GetLow, GetHigh, MaskCmp, SetCmpLow,
   SetCmpHigh, SetMsip, GetMsip, RawHigh, RawLow, RawRetry, RawReturn, Return, Goto, Keep,
   KeepWord, TypeOK, history

\* Which actions move the call of main, and which that of the handler.
LEMMA WhoCalls ==
  ASSUME TypeOK, [FirmwareNext]_fvars
  PROVE  /\ \/ Stamp \/ Arm \/ Access("main")
            \/ UNCHANGED <<pc["main"], call["main"], val["main"], began["main"]>>
         /\ \/ Handle \/ HandlerStamp \/ Access("isr")
            \/ UNCHANGED <<pc["isr"], call["isr"], val["isr"], began["isr"]>>
<1> USE HartCallers
<1>1. CASE \/ DisableGlobal \/ WriteMie \/ ClearCause \/ WriteCause \/ WriteVector
           \/ EnableTimer \/ EnableGlobal \/ Wfi \/ WfiEarly \/ Trap \/ Mret \/ Reboot \/ UNCHANGED fvars
  <2>1. UNCHANGED vars
    BY <1>1 DEF DisableGlobal, WriteMie, ClearCause, WriteCause, WriteVector, EnableTimer,
       EnableGlobal, Wfi, WfiEarly, Wakes, Trap, Mret, Reboot, SetsCsr, fvars
  <2> QED  BY <2>1 DEF vars, locals, history
<1>2. CASE Clock  BY <1>2 DEF Clock, Tick, locals, history
<1>3. CASE Stamp \/ Arm \/ Access("main")
  <2>1. Begin("main") \/ Step("main")  BY <1>3 DEF Stamp, Arm, Access, StartsCall
  <2> QED  BY <1>3, <2>1, CallApart
<1>4. CASE Handle \/ HandlerStamp \/ Access("isr")
  <2>1. UNCHANGED vars \/ Begin("isr") \/ Step("isr")
    BY <1>4 DEF Handle, HandlerStamp, Access, StartsCall
  <2>2. CASE UNCHANGED vars  BY <2>2 DEF vars, locals, history
  <2> QED  BY <1>4, <2>1, <2>2, CallApart
<1>5. CASE OthersBegin \/ OthersStep
  BY <1>5, CallApart DEF OthersBegin, OthersStep
<1> QED  BY <1>1, <1>2, <1>3, <1>4, <1>5 DEF FirmwareNext, HartStep

\* main moves on from one statement to the next, in no call.
LEMMA LineMoves ==
  ASSUME [FirmwareNext]_fvars
  PROVE  UNCHANGED line \/ Stamp \/ Arm \/ \E s \in DOMAIN After \ {"stamp", "arm"} : Main(s)
<1>1. CASE \/ DisableGlobal \/ WriteMie \/ ClearCause \/ WriteCause \/ WriteVector
           \/ EnableTimer \/ EnableGlobal \/ Wfi \/ WfiEarly \/ Reboot
  BY <1>1 DEF DisableGlobal, WriteMie, ClearCause, WriteCause, WriteVector, EnableTimer,
     EnableGlobal, Wfi, WfiEarly, Wakes, Reboot, After
<1>2. CASE \/ Trap \/ Handle \/ HandlerStamp \/ Mret \/ Access("main") \/ Access("isr")
           \/ OthersBegin \/ OthersStep \/ Clock \/ UNCHANGED fvars
  BY <1>2 DEF Trap, Handle, HandlerStamp, Mret, Access, OthersBegin, OthersStep, Clock, fvars, hart
<1> QED  BY <1>1, <1>2 DEF FirmwareNext, HartStep

\* Hart 0's timer changes only while main or the handler stores to it.
LEMMA TimerKept ==
  ASSUME HartsTimer, TypeOK, [Next]_vars, ~SettingCmp("main"), ~SettingCmp("isr")
  PROVE  mtimecmp'[0] = mtimecmp[0] /\ deadline'[0] = deadline[0]
<1>1. CASE Tick \/ UNCHANGED vars
  BY <1>1 DEF Tick, vars, device, history
<1>2. ASSUME NEW c \in Callers, Begin(c) \/ Step(c)
      PROVE  mtimecmp'[0] = mtimecmp[0] /\ deadline'[0] = deadline[0]
  <2>1. CASE MaskCmp(c) \/ SetCmpLow(c) \/ SetCmpHigh(c)
    <3>1. SettingCmp(c) /\ ~Idle(c)
      BY <2>1 DEF MaskCmp, SetCmpLow, SetCmpHigh, At, SettingCmp, Idle
    <3>2. Target(c) # 0  BY <3>1 DEF HartsTimer, TypeOK, Target
    <3>3. /\ mtimecmp'[0] = mtimecmp[0]
          /\ UNCHANGED deadline \/ deadline' = [deadline EXCEPT ![Target(c)] = val[c]]
      BY <2>1, <3>2, DriverAssumption DEF MaskCmp, SetCmpLow, SetCmpHigh, StoreCmp, TypeOK, history
    <3> QED  BY <3>2, <3>3, DriverAssumption DEF TypeOK
  <2>2. CASE ~(MaskCmp(c) \/ SetCmpLow(c) \/ SetCmpHigh(c))
    BY <1>2, <2>2 DEF Begin, Step, SetTimerLow, SetTimerHigh, GetLow, GetHigh,
       SetMsip, GetMsip, RawHigh, RawLow, RawRetry, RawReturn, device, history
  <2> QED  BY <2>1, <2>2
<1> QED  BY <1>1, <1>2 DEF Next

\* Once a time is after the first deadline, it and any later one stay so.
LEMMA AfterFirstKept ==
  ASSUME TypeOK, TypeOK', booted \in Dword, Geq(mtime', mtime),
         NEW t \in Dword, NEW u \in Dword, AfterFirst(t), Geq(u, t)
  PROVE  Fits(FirstOffset)' => Val(u) >= Val(booted) + Val(FirstOffset)
<1>1. Val(mtime) \in Nat /\ Val(mtime') \in Nat /\ Val(FirstOffset) \in Nat /\ Val(booted) \in Nat
      /\ Val(t) \in Nat /\ Val(u) \in Nat /\ Radix * Radix \in Nat
  BY ValRange, FirmwareAssumption, RadixAssumption DEF TypeOK
<1>2. Val(mtime') >= Val(mtime) /\ Val(u) >= Val(t)
  BY GeqIsNumeric DEF TypeOK
<1>3. Fits(FirstOffset)' => Fits(FirstOffset)  BY <1>1, <1>2 DEF Fits
<1> QED  BY <1>1, <1>2, <1>3 DEF AfterFirst

\* The time main started at changes only when it starts again.
LEMMA BootedKept ==
  ASSUME [FirmwareNext]_fvars
  PROVE  \/ UNCHANGED booted /\ ~Reboot
         \/ Reboot /\ booted' = mtime /\ UNCHANGED vars
BY DEF FirmwareNext, HartStep, DisableGlobal, WriteMie, ClearCause, WriteCause, Stamp, Arm,
   WriteVector, EnableTimer, EnableGlobal, Wfi, WfiEarly, Wakes, Trap, Handle, HandlerStamp,
   Mret, Access, Reboot, OthersBegin, OthersStep, Clock, fvars, hart, marks, SetsCsr, StartsCall

\* An access of a call of main or the handler: its call and the time it began at
\* stay until it returns.
LEMMA CallStays ==
  ASSUME TypeOK, NEW c \in Callers, Step(c)
  PROVE  ~Idle(c) /\ (Idle(c)' \/ UNCHANGED <<call[c], began[c]>>)
BY DEF Step, SetTimerLow, SetTimerHigh, GetLow, GetHigh, MaskCmp, SetCmpLow, SetCmpHigh,
   SetMsip, GetMsip, RawHigh, RawLow, RawRetry, RawReturn, Return, Goto, TypeOK, Idle, At,
   RawDone, history

\* What the end of main's call to mtimer_set_raw_time_cmp installs.
LEMMA FirstInstalled ==
  ASSUME TypeOK, RawInv, OffsetInv, FnInv, MainInv, Access("main"), Idle("main")',
         line = "vector"
  PROVE  Fits(FirstOffset) => Val(deadline'[0]) >= Val(booted) + Val(FirstOffset)
<1> USE HartCallers
<1>1. Step("main") /\ ~Idle("main")  BY CallStays DEF Access
<1>2. /\ call["main"].fn = "mtimer_set_raw_time_cmp" /\ call["main"].arg = FirstOffset
      /\ Geq(began["main"], booted) /\ booted \in Dword
  BY <1>1 DEF MainInv, HartCall
<1>3. SetCmpHigh("main") /\ Offsetting("main")
  <2>1. pc["main"] \in {"raw_high", "raw_low", "raw_check"} \/ Offsetting("main")
    BY <1>1, <1>2 DEF FnInv
  <2>2. SetCmpHigh("main")
    BY <1>1, <1>2, <2>1 DEF Step, SetTimerLow, SetTimerHigh, GetLow, GetHigh, MaskCmp, SetCmpLow,
       SetMsip, GetMsip, RawHigh, RawLow, RawRetry, RawReturn, Goto, Idle, At, TypeOK,
       Offsetting, SettingCmp
  <2> QED  BY <2>1, <2>2 DEF SetCmpHigh, At
<1>4. deadline'[0] = val["main"]
  BY <1>2, <1>3, DriverAssumption DEF SetCmpHigh, Target, HartOf, TypeOK
<1>5. PICK t \in Dword : SeenSince("main", t) /\ val["main"] = Plus(t, FirstOffset)
  BY <1>2, <1>3 DEF OffsetInv
<1>6. /\ Val(t) \in Nat /\ Val(mtime) \in Nat /\ Val(FirstOffset) \in Nat /\ Val(booted) \in Nat
      /\ Val(began["main"]) \in Nat /\ Radix * Radix \in Nat
  BY <1>2, ValRange, FirmwareAssumption, RadixAssumption DEF TypeOK
<1>7. Val(mtime) >= Val(t) /\ Val(t) >= Val(began["main"]) /\ Val(began["main"]) >= Val(booted)
  BY <1>2, <1>5, GeqIsNumeric DEF SeenSince, TypeOK
<1>8. Fits(FirstOffset) => Val(t) + Val(FirstOffset) < Radix * Radix
  BY <1>6, <1>7 DEF Fits
<1>9. Fits(FirstOffset) => Val(val["main"]) = Val(t) + Val(FirstOffset)
  BY <1>5, <1>8, PlusFits, FirmwareAssumption
<1> QED  BY <1>4, <1>6, <1>7, <1>9

LEMMA MainInductive ==
  ASSUME HartsTimer, TypeOK, TypeOK', RawInv, OffsetInv, FnInv, HartInv, MainInv, HandlerInv,
         [FirmwareNext]_fvars
  PROVE  MainInv'
<1> USE HartCallers
<1>1. Geq(mtime', mtime) /\ mtime \in Dword /\ mtime' \in Dword /\ booted \in Dword
      /\ deadline[0] \in Dword /\ Geq(mtime, booted) /\ Geq(mtime, mtime)
      /\ Geq(deadline[0], deadline[0])
  BY FirmwareIsDriver, TimeGrows, GeqOrder, DriverAssumption DEF TypeOK, MainInv
<1>2. Geq(mtime', booted') /\ booted' \in Dword
  <2>1. CASE UNCHANGED booted  BY <1>1, <2>1, GeqOrder
  <2>2. CASE Reboot  BY <1>1, <2>2, BootedKept
  <2> QED  BY <2>1, <2>2, BootedKept
<1>3. ASSUME NEW s, Main(s)
      PROVE  line = s /\ line' = After[s] /\ Idle("main") /\ isr = "out"
  BY <1>3 DEF Main
<1>4. ASSUME ~Idle("main")
      PROVE  UNCHANGED <<line, booted>> \/ Stamp \/ Arm
  BY <1>3, <1>4, BootedKept, LineMoves DEF Reboot
<1>5. CASE Stamp \/ Arm
  <2>1. /\ began'["main"] = mtime /\ ~Idle("main")' /\ UNCHANGED booted
        /\ Main("stamp") \/ Main("arm")
        /\ Arm => call'["main"] = HartCall("main", "mtimer_set_raw_time_cmp", FirstOffset)
    <3>1. Begin("main")  BY <1>5 DEF Stamp, Arm, StartsCall
    <3>2. began'["main"] = mtime  BY <3>1 DEF Begin, TypeOK
    <3>3. ~Idle("main")'
      <4>1. PICK x \in Calls : pc' = [pc EXCEPT !["main"] = Entry(x.fn)]
        BY <3>1 DEF Begin, Goto
      <4>2. Entry(x.fn) # "idle"  BY DEF Entry
      <4> QED  BY <4>1, <4>2 DEF Idle, TypeOK
    <3> QED  BY <1>5, <3>2, <3>3 DEF Stamp, Arm, StartsCall, marks
  <2>2. line' = "vector" => Arm  BY <1>3, <1>5, <2>1 DEF Stamp, After
  <2> QED  BY <1>1, <1>2, <2>1, <2>2 DEF MainInv, Armed
<1>6. CASE Access("main")
  <2>1. /\ Step("main") /\ UNCHANGED <<line, booted>> /\ ~Idle("main")
        /\ Idle("main")' \/ UNCHANGED <<call["main"], began["main"]>>
    BY <1>6, CallStays DEF Access
  <2>2. Armed' => line = "vector" /\ Idle("main")'
    BY <2>1 DEF Armed, HartInv, Calling
  <2>3. UNCHANGED mtime
    BY <2>1 DEF RawInv, At, Step, SetTimerLow, SetTimerHigh, GetLow, GetHigh, MaskCmp,
       SetCmpLow, SetCmpHigh, SetMsip, GetMsip, RawHigh, RawLow, RawRetry, RawReturn, device
  <2>4. Armed' => AfterFirst(deadline[0])'
    BY <1>6, <2>1, <2>2, <2>3, FirstInstalled DEF AfterFirst, Fits
  <2> QED  BY <1>2, <2>1, <2>4 DEF MainInv
<1>7. CASE /\ UNCHANGED <<pc["main"], call["main"], val["main"], began["main"]>>
           /\ ~(Stamp \/ Arm)
  <2>0. Reboot => line' = "disable"
    <3>1. Reboot => Main("exit")  BY DEF Reboot
    <3> QED  BY <1>3, <3>1 DEF After
  <2>1. ~Idle("main")' => ~Idle("main") /\ UNCHANGED <<line, booted>>
    BY <1>4, <1>7 DEF Idle
  <2>2. Armed' => Armed /\ UNCHANGED booted
    <3>1. CASE UNCHANGED line
      <4>1. UNCHANGED booted \/ line' = "disable"  BY <2>0, BootedKept
      <4> QED  BY <1>7, <3>1, <4>1 DEF Armed, Idle
    <3>2. ASSUME NEW s \in DOMAIN After \ {"stamp", "arm"}, Main(s)
          PROVE  Armed' => Armed /\ UNCHANGED booted
      <4>1. line = s /\ line' = After[s]  BY <1>3, <3>2
      <4>2. UNCHANGED booted \/ line' = "disable"  BY <2>0, BootedKept
      <4> QED  BY <1>7, <3>2, <4>1, <4>2 DEF Armed, Idle, After
    <3> QED  BY <1>7, <3>1, <3>2, LineMoves
  <2>3. Armed' /\ AfterFirst(mtime) => AfterFirst(mtime)'
    BY <1>1, <2>2, AfterFirstKept DEF AfterFirst
  <2>4. Armed' /\ ~AfterFirst(mtime) => AfterFirst(deadline[0])'
    <3> SUFFICES ASSUME Armed', ~AfterFirst(mtime) PROVE AfterFirst(deadline[0])'
      OBVIOUS
    <3>1. AfterFirst(deadline[0]) /\ Idle("main") /\ UNCHANGED booted
      BY <2>2 DEF MainInv, Armed
    <3>2. Idle("isr")  BY DEF HandlerInv, HartInv
    <3>3. deadline'[0] = deadline[0]
      BY <3>1, <3>2, FirmwareIsDriver, TimerKept DEF Idle, SettingCmp
    <3>4. Fits(FirstOffset)' => Val(deadline[0]) >= Val(booted) + Val(FirstOffset)
      BY <1>1, <3>1, AfterFirstKept
    <3> QED  BY <3>1, <3>3, <3>4 DEF AfterFirst
  <2> QED  BY <1>2, <1>7, <2>1, <2>3, <2>4 DEF MainInv, Idle
<1> QED  BY <1>5, <1>6, <1>7, WhoCalls

\* The deadline that a trap finds reached is one of this run of main.
LEMMA TrapAfterFirst ==
  ASSUME HartsTimer, TypeOK, CmpInv, HartInv, CsrInv, MainInv, Trap
  PROVE  AfterFirst(mtime)
<1>1. mtip(0) /\ line \in Enabling /\ Idle("main") /\ Idle("isr")
  BY TrapIsTimer
<1>2. AfterFirst(mtime) \/ AfterFirst(deadline[0])
  BY <1>1 DEF MainInv, Armed, Enabling
<1>3. ~Masked(0)
  BY <1>1 DEF Masked, HartsTimer, TypeOK, Idle, SettingCmp, Target
<1>4. Geq(mtime, deadline[0]) /\ deadline[0] \in Dword /\ mtime \in Dword
  BY <1>1, <1>3, DriverAssumption DEF CmpInv, mtip, TypeOK
<1>5. Val(mtime) >= Val(deadline[0])  BY <1>4, GeqIsNumeric
<1>6. /\ Val(mtime) \in Nat /\ Val(deadline[0]) \in Nat
      /\ Val(booted) \in Nat /\ Val(FirstOffset) \in Nat
  BY <1>4, ValRange, FirmwareAssumption DEF MainInv
<1> QED  BY <1>2, <1>5, <1>6 DEF AfterFirst

\* The end of the handler's call to mtimer_get_raw_time.
LEMMA StampedAfterFirst ==
  ASSUME TypeOK, TypeOK', RawInv, FnInv, MainInv, HandlerInv, Access("isr"), Idle("isr")',
         isr = "return", UNCHANGED mtime
  PROVE  Noted'
<1> USE HartCallers
<1>1. Step("isr") /\ ~Idle("isr") /\ UNCHANGED booted  BY CallStays DEF Access
<1>2. call["isr"].fn = "mtimer_get_raw_time" /\ AfterFirst(began["isr"])
  BY <1>1 DEF HandlerInv
<1>3. RawReturn("isr")
  <2>1. pc["isr"] \in {"raw_high", "raw_low", "raw_check"}
    BY <1>1, <1>2 DEF FnInv, Offsetting
  <2> QED
    BY <1>1, <2>1 DEF Step, SetTimerLow, SetTimerHigh, GetLow, GetHigh, MaskCmp, SetCmpLow,
       SetCmpHigh, SetMsip, GetMsip, RawHigh, RawLow, RawRetry, Goto, Idle, At, TypeOK
<1>4. /\ Geq(val["isr"], began["isr"]) /\ val["isr"] \in Dword /\ began["isr"] \in Dword
      /\ Geq(mtime', mtime) /\ booted \in Dword
  BY <1>3, RawReadIsSeen, GeqOrder DEF TypeOK, MainInv
<1>5. timestamp' = val["isr"] /\ stamper' = "isr"  BY <1>2 DEF Access
<1>6. Fits(FirstOffset)' => Val(val["isr"]) >= Val(booted) + Val(FirstOffset)
  BY <1>2, <1>4, AfterFirstKept
<1> QED  BY <1>1, <1>5, <1>6 DEF Noted, AfterFirst

LEMMA HandlerInductive ==
  ASSUME HartsTimer, TypeOK, TypeOK', RawInv, CmpInv, FnInv, HartInv, CsrInv, MainInv, HandlerInv,
         [FirmwareNext]_fvars
  PROVE  HandlerInv'
<1> USE HartCallers
<1>1. /\ Geq(mtime', mtime) /\ mtime \in Dword /\ mtime' \in Dword /\ booted \in Dword
      /\ timestamp \in Dword /\ Geq(timestamp, timestamp) /\ Zeros \in Dword
      /\ \A c \in Callers : began[c] \in Dword /\ val[c] \in Dword /\ Geq(began[c], began[c])
  BY FirmwareIsDriver, TimeGrows, GeqOrder, DwordOps DEF TypeOK, MainInv, HandlerInv
<1>2. ASSUME NEW s, Main(s)
      PROVE  line = s /\ line' = After[s] /\ Idle("main") /\ isr = "out" /\ isr' = "out"
  BY <1>2 DEF Main
<1>3. /\ AfterFirst(mtime) /\ UNCHANGED booted => AfterFirst(mtime)'
      /\ Noted /\ UNCHANGED marks => Noted'
      /\ \A c \in Callers : AfterFirst(began[c]) /\ UNCHANGED <<booted, began[c]>> =>
                              (Fits(FirstOffset)' => Val(began'[c]) >= Val(booted') + Val(FirstOffset))
  BY <1>1, AfterFirstKept DEF AfterFirst, Noted, marks
<1>4. CASE \/ DisableGlobal \/ WriteMie \/ ClearCause \/ WriteCause \/ Stamp \/ Arm
           \/ WriteVector \/ EnableTimer \/ EnableGlobal \/ Reboot
  <2>1. timestamp' \in {timestamp, Zeros} /\ \E s \in DOMAIN After \ {"wfi"} : Main(s)
    BY <1>4 DEF DisableGlobal, WriteMie, ClearCause, WriteCause, Stamp, Arm, WriteVector,
       EnableTimer, EnableGlobal, Reboot, SetsCsr, StartsCall, After, marks
  <2> QED  BY <1>1, <1>2, <2>1 DEF HandlerInv, After
<1>5. CASE Wfi \/ WfiEarly
  <2>1. Main("wfi") /\ (woken' => Pending # {}) /\ UNCHANGED <<vars, csr, timestamp, booted>>
    BY <1>5 DEF Wfi, WfiEarly, Wakes
  <2>2. woken' => mtip(0)'
    BY <1>2, <2>1, TimerPends DEF CsrInv, mtip, vars, device
  <2> QED  BY <1>1, <1>2, <2>1, <2>2 DEF HandlerInv, After
<1>6. CASE Trap
  <2>1. isr' = "entry" /\ Idle("isr") /\ AfterFirst(mtime)
    BY <1>6, TrapIsTimer, TrapAfterFirst
  <2>2. UNCHANGED <<pc, timestamp, booted>>  BY <1>6 DEF Trap, vars, locals, marks
  <2> QED  BY <1>1, <1>3, <2>1, <2>2 DEF HandlerInv, Idle
<1>7. CASE Handle
  <2>1. /\ isr = "entry" /\ isr' = "stamp" /\ UNCHANGED <<timestamp, booted>>
        /\ call'["isr"] = HartCall("isr", "mtimer_set_raw_time_cmp", SecondOffset)
    BY <1>7, TimerCause DEF Handle, CsrInv, StartsCall, marks
  <2> QED  BY <1>1, <1>3, <2>1 DEF HandlerInv, HartCall
<1>8. CASE HandlerStamp
  <2>1. /\ isr = "stamp" /\ isr' = "return" /\ UNCHANGED <<timestamp, booted>> /\ Begin("isr")
        /\ call'["isr"] = HartCall("isr", "mtimer_get_raw_time", Zeros)
    BY <1>8 DEF HandlerStamp, StartsCall, marks
  <2>2. began'["isr"] = mtime /\ UNCHANGED mtime  BY <2>1 DEF Begin, TypeOK, device
  <2>3. ~Idle("isr")'
    <3>1. PICK x \in Calls : /\ pc' = [pc EXCEPT !["isr"] = Entry(x.fn)]
                             /\ call' = [call EXCEPT !["isr"] = x]
      BY <2>1 DEF Begin, Goto
    <3>2. x.fn = "mtimer_get_raw_time"  BY <2>1, <3>1 DEF HartCall, TypeOK
    <3>3. Entry(x.fn) = "raw_high"  BY <3>2 DEF Entry
    <3> QED  BY <3>1, <3>3 DEF Idle, TypeOK
  <2>4. AfterFirst(mtime)' /\ AfterFirst(began["isr"])'
    BY <1>3, <2>1, <2>2 DEF HandlerInv, AfterFirst
  <2> QED  BY <1>1, <2>1, <2>3, <2>4 DEF HandlerInv, HartCall
<1>9. CASE Mret
  <2>1. /\ isr = "return" /\ Idle("isr") /\ isr' = "out" /\ UNCHANGED marks
        /\ UNCHANGED <<timestamp, booted>>
    BY <1>9 DEF Mret, marks
  <2> QED  BY <1>1, <1>3, <2>1 DEF HandlerInv
<1>10. CASE Access("isr")
  <2>1. /\ UNCHANGED <<line, isr, booted>> /\ Step("isr") /\ ~Idle("isr")
        /\ Idle("isr")' \/ UNCHANGED <<call["isr"], began["isr"]>>
        /\ timestamp' \in {timestamp, val["isr"]}
    BY <1>10, CallStays DEF Access
  <2>2. isr # "out" /\ isr # "entry" /\ AfterFirst(mtime)
    BY <2>1 DEF HartInv, HandlerInv
  <2>3. UNCHANGED mtime
    BY <2>1 DEF RawInv, At, Step, SetTimerLow, SetTimerHigh, GetLow, GetHigh, MaskCmp,
       SetCmpLow, SetCmpHigh, SetMsip, GetMsip, RawHigh, RawLow, RawRetry, RawReturn, device
  <2>4. isr = "return" /\ Idle("isr")' => Noted'
    BY <1>10, <2>3, StampedAfterFirst
  <2>5. ~Idle("isr")' /\ isr = "return" =>
          call'["isr"].fn = "mtimer_get_raw_time" /\ AfterFirst(began["isr"])'
    BY <1>3, <2>1 DEF HandlerInv, AfterFirst
  <2> QED  BY <1>1, <1>3, <2>1, <2>2, <2>4, <2>5 DEF HandlerInv
<1>11. CASE Access("main")
  <2>1. /\ UNCHANGED <<line, isr>> /\ isr = "out" /\ ~Idle("main")
        /\ timestamp' \in {timestamp, val["main"]}
    BY <1>11, CallStays DEF Access
  <2> QED  BY <1>1, <2>1 DEF HandlerInv, HartInv, Calling
<1>12. CASE OthersBegin \/ OthersStep \/ Clock \/ UNCHANGED fvars
  <2>1. UNCHANGED <<line, isr, timestamp, booted, woken, marks>>
    BY <1>12 DEF marks, OthersBegin, OthersStep, Clock, fvars, hart
  <2>2. UNCHANGED <<pc["isr"], call["isr"], began["isr"]>>
    BY <1>12, CallApart DEF OthersBegin, OthersStep, Clock, Tick, locals, history, fvars, vars
  <2>3. line = "exit" /\ isr = "out" /\ mtip(0) => mtip(0)'
    <3> SUFFICES ASSUME line = "exit", isr = "out", mtip(0) PROVE mtip(0)'
      OBVIOUS
    <3>1. ~SettingCmp("main") /\ ~SettingCmp("isr")
      BY DEF HartInv, Calling, Idle, SettingCmp
    <3>2. mtimecmp'[0] = mtimecmp[0] /\ mtimecmp[0] \in Dword
      BY <3>1, FirmwareIsDriver, TimerKept, DriverAssumption DEF TypeOK
    <3> QED  BY <1>1, <3>2, GeqOrder DEF mtip
  <2>4. AfterFirst(began["isr"]) => AfterFirst(began["isr"])'
    BY <1>3, <2>1, <2>2 DEF AfterFirst
  <2> QED  BY <1>1, <1>3, <2>1, <2>2, <2>3, <2>4 DEF HandlerInv, Idle
<1> QED  BY <1>4, <1>5, <1>6, <1>7, <1>8, <1>9, <1>10, <1>11, <1>12 DEF FirmwareNext, HartStep

\* If an interrupt ended wfi, main exits only when the handler has stamped the time.
LEMMA ExitNoted ==
  ASSUME woken, HartInv, WakeInv, CsrInv, HandlerInv, Reboot
  PROVE  Noted
<1>1. line = "exit" /\ isr = "out" /\ ~TrapDue  BY DEF Reboot, Main
<1>2. csr["mie"] = {7} /\ Enabled  BY <1>1 DEF CsrInv, WakeInv, Enabling
<1>3. ~mtip(0)  BY <1>1, <1>2, TimerPends, StatusMasks DEF TrapDue, Has, Enabled
<1> QED  BY <1>1, <1>3 DEF HandlerInv

FirmwareInv ==
  /\ RawInv /\ CmpInv /\ OffsetInv /\ FnInv
  /\ HartInv /\ WakeInv /\ CsrInv /\ MainInv /\ HandlerInv

LEMMA FirmwareInvCorrect ==
  ASSUME TimerNotSet, TimersApart, HartsTimer
  PROVE  FirmwareSpec => [](TypeOK /\ FirmwareInv)
<1>1. FirmwareInit => FirmwareInv
  <2> SUFFICES ASSUME FirmwareInit PROVE FirmwareInv
    OBVIOUS
  <2>1. Init /\ line = "disable" /\ isr = "out" /\ timestamp = Zeros /\ booted = mtime
    BY DEF FirmwareInit
  <2>2. RawInv /\ CmpInv /\ OffsetInv /\ FnInv
    BY <2>1, CmpInit, FnInit DEF Init, RawInv, OffsetInv, Offsetting, SettingCmp, Idle, At
  <2>3. HartInv /\ WakeInv /\ CsrInv
    BY <2>1, HartInit DEF WakeInv, CsrInv, Enabling, Vectored
  <2>4. Idle("main") /\ mtime = Zeros  BY <2>1, HartCallers DEF Init, Idle
  <2>5. MainInv /\ HandlerInv
    BY <2>1, <2>4, DwordOps, GeqOrder DEF MainInv, HandlerInv, Armed
  <2> QED  BY <2>2, <2>3, <2>5 DEF FirmwareInv
<1>2. TypeOK /\ TypeOK' /\ FirmwareInv /\ [FirmwareNext]_fvars => FirmwareInv'
  BY FirmwareIsDriver, RawInductive, HartExcludes, HartSets, CmpInductive, OffsetInductive,
     FnInductive, HartInductive, WakeInductive, CsrInductive, MainInductive, HandlerInductive
     DEF FirmwareInv
<1> QED  BY <1>1, <1>2, FirmwareTypes, PTL DEF FirmwareSpec

\* Every trap is the timer's, enters irq_entry and comes no earlier than the
\* deadline this run of main has set: neither the software interrupts of other
\* harts nor a deadline that an earlier run has left can cause one.
THEOREM TrapsAreTheTimersCorrect ==
  TimerNotSet /\ TimersApart /\ HartsTimer => (FirmwareSpec => TrapsAreTheTimers)
<1> SUFFICES ASSUME TimerNotSet, TimersApart, HartsTimer
             PROVE  FirmwareSpec => TrapsAreTheTimers
  OBVIOUS
<1> DEFINE IsTheTimers ==
  Trap => /\ isr' = "entry" /\ csr'["mcause"] = Cause("MTI") /\ AfterFirst(mtime)
<1>1. TypeOK /\ FirmwareInv /\ [FirmwareNext]_fvars => [IsTheTimers]_fvars
  BY TrapIsTimer, TrapAfterFirst DEF FirmwareInv
<1>2. FirmwareSpec => [][IsTheTimers]_fvars
  <2> HIDE DEF IsTheTimers
  <2> QED  BY <1>1, FirmwareInvCorrect, PTL DEF FirmwareSpec
<1> QED  BY <1>2, PTL DEF TrapsAreTheTimers

\* If an interrupt ended wfi, main exits only when the handler has run and has
\* itself noted a time after the first deadline of this run, however late main is.
THEOREM HandledBeforeExitCorrect ==
  TimerNotSet /\ TimersApart /\ HartsTimer => (FirmwareSpec => HandledBeforeExit)
<1> SUFFICES ASSUME TimerNotSet, TimersApart, HartsTimer
             PROVE  FirmwareSpec => HandledBeforeExit
  OBVIOUS
<1> DEFINE IsHandled == Reboot /\ woken => stamper = "isr" /\ AfterFirst(timestamp)
<1>1. FirmwareInv /\ [FirmwareNext]_fvars => [IsHandled]_fvars
  BY ExitNoted DEF FirmwareInv, Noted
<1>2. FirmwareSpec => [][IsHandled]_fvars
  <2> HIDE DEF IsHandled
  <2> QED  BY <1>1, FirmwareInvCorrect, PTL DEF FirmwareSpec
<1> QED  BY <1>2, PTL DEF HandledBeforeExit
===============================================================================
