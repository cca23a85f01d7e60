------------------------------- MODULE RaceProofs -----------------------------
(***************************************************************************)
(* Theorems about DriverRaces for every word width, number of harts and    *)
(* callers, and every set of calls that meets the stated condition.        *)
(***************************************************************************)
EXTENDS DriverRaces, DriverProofs

\* The history variables watch the driver's steps: whatever holds of the driver
\* holds here.
LEMMA Watched == [RaceNext]_rvars => [Next]_vars /\ (Watch \/ UNCHANGED rvars)
<1>1. RaceNext => Next /\ Watch  BY DEF RaceNext, Next, Step
<1> QED  BY <1>1 DEF rvars

\* A step is the caller's own or leaves its locals alone.
LEMMA OwnStep ==
  ASSUME TypeOK, [Next]_vars, NEW c \in Callers
  PROVE  UNCHANGED <<pc[c], call[c], val[c]>> \/ Begin(c) \/ Step(c)
<1> USE DEF TypeOK, Goto, Keep, KeepWord, Return
<1>1. CASE Tick \/ UNCHANGED vars  BY <1>1 DEF Tick, vars, locals
<1>2. ASSUME NEW b \in Callers, b # c, Begin(b) \/ Step(b)
      PROVE  UNCHANGED <<pc[c], call[c], val[c]>>
  BY <1>2 DEF Begin, Step, SetTimerLow, SetTimerHigh, GetLow, GetHigh, MaskCmp, SetCmpLow,
     SetCmpHigh, SetMsip, GetMsip, RawHigh, RawLow, RawRetry, RawReturn
<1> QED  BY <1>1, <1>2 DEF Next

\* MTIME moves by a tick or by a store of clint_set_timer.
LEMMA MovesMtime ==
  ASSUME [Next]_vars
  PROVE  UNCHANGED mtime \/ Tick \/ \E b \in Callers : SetTimerLow(b) \/ SetTimerHigh(b)
BY DEF Next, Begin, Step, GetLow, GetHigh, MaskCmp, SetCmpLow, SetCmpHigh, SetMsip, GetMsip,
   RawHigh, RawLow, RawRetry, RawReturn, vars, device

\* A compare register is stored to, and a deadline installed, by a caller that
\* is setting it.
Stores(b) == MaskCmp(b) \/ SetCmpLow(b) \/ SetCmpHigh(b)

LEMMA MovesCmp ==
  ASSUME TypeOK, [Next]_vars, NEW k \in Harts, \A b \in Callers : Stores(b) => Target(b) # k
  PROVE  UNCHANGED <<mtimecmp[k], deadline[k]>>
<1>1. CASE UNCHANGED <<mtimecmp, deadline>>  BY <1>1
<1>2. ASSUME NEW b \in Callers, Stores(b)
      PROVE  UNCHANGED <<mtimecmp[k], deadline[k]>>
  <2>1. Target(b) # k  BY <1>2
  <2> QED  BY <1>2, <2>1
           DEF Stores, MaskCmp, SetCmpLow, SetCmpHigh, StoreCmp, TypeOK, history
<1>3. UNCHANGED <<mtimecmp, deadline>> \/ \E b \in Callers : Stores(b)
  BY DEF Stores, Next, Tick, Begin, Step, SetTimerLow, SetTimerHigh, GetLow, GetHigh, SetMsip,
     GetMsip, RawHigh, RawLow, RawRetry, RawReturn, vars, device, history
<1> QED  BY <1>1, <1>2, <1>3

-------------------------------------------------------------------------------
(* clint_set_timer.  Between its two stores MTIME has only ticked.         *)

StoredInv ==
  \A c \in Callers : At(c, "set_timer_high") /\ OnlyTimeSetter(c) =>
    stored[c] \in Dword /\ stored[c][0] = val[c][0] /\ Geq(mtime, stored[c])

LEMMA StoredInductive ==
  ASSUME TypeOK, TypeOK', FnInv, StoredInv, [RaceNext]_rvars
  PROVE  StoredInv'
<1> SUFFICES ASSUME NEW c \in Callers, At(c, "set_timer_high")', OnlyTimeSetter(c)
             PROVE  /\ stored'[c] \in Dword /\ stored'[c][0] = val'[c][0]
                    /\ Geq(mtime', stored'[c])
  BY DEF StoredInv, OnlyTimeSetter
<1>1. [Next]_vars  BY Watched
<1>2. CASE SetTimerLow(c)
  <2>1. mtime' = [mtime EXCEPT ![0] = val[c][0]] /\ UNCHANGED val /\ ~UNCHANGED pc
    BY <1>2 DEF SetTimerLow, At, Goto, TypeOK
  <2>2. stored'[c] = mtime'  BY <1>2, <2>1, Watched DEF Watch, rvars, vars, locals
  <2>3. mtime'[0] = val[c][0]  BY <2>1 DEF TypeOK, Dword, Halves
  <2> QED  BY <2>1, <2>2, <2>3, GeqOrder DEF TypeOK
<1>3. CASE ~SetTimerLow(c)
  <2>1. At(c, "set_timer_high") /\ UNCHANGED val[c]
    <3>1. ~Begin(c)
      <4>1. SUFFICES ASSUME Begin(c) PROVE FALSE  OBVIOUS
      <4>2. PICK x \in Calls : pc' = [pc EXCEPT ![c] = Entry(x.fn)]
        BY <4>1 DEF Begin, Goto
      <4>3. Entry(x.fn) # "set_timer_high"  BY DriverAssumption DEF Call, Functions, Entry
      <4> QED  BY <4>2, <4>3 DEF At, TypeOK
    <3>2. ~Step(c)
      BY <1>3 DEF At, Goto, Return, TypeOK, Step, SetTimerHigh, GetLow, GetHigh, MaskCmp, SetCmpLow,
         SetCmpHigh, SetMsip, GetMsip, RawHigh, RawLow, RawRetry, RawReturn
    <3> QED  BY <1>1, <3>1, <3>2, OwnStep DEF At
  <2>2. stored'[c] = stored[c]  BY <1>3, Watched DEF Watch, rvars
  <2>3. UNCHANGED mtime \/ Tick
    <3>1. ASSUME NEW b \in Callers, SetTimerLow(b) \/ SetTimerHigh(b) PROVE FALSE
      <4>1. call[b].fn = "clint_set_timer" /\ ~Idle(b)
        BY <3>1 DEF SetTimerLow, SetTimerHigh, At, Idle, FnInv
      <4>2. b = c  BY <4>1 DEF TypeOK, OnlyTimeSetter
      <4> QED  BY <1>3, <3>1, <4>2 DEF SetTimerHigh, Return, Goto, At, TypeOK
    <3> QED  BY <1>1, <3>1, MovesMtime
  <2>4. stored[c] \in Dword /\ stored[c][0] = val[c][0] /\ Geq(mtime, stored[c])
    BY <2>1 DEF StoredInv
  <2>5. Geq(mtime', mtime)  BY <2>3, IncrStep, GeqOrder DEF Tick, TypeOK
  <2> QED  BY <2>1, <2>2, <2>4, <2>5, GeqOrder DEF TypeOK
<1> QED  BY <1>2, <1>3

\* The high word stored last drops the carries MTIME made since the first store.
LEMMA SetIsClose ==
  ASSUME TypeOK, StoredInv, NEW c \in Callers, SetTimerHigh(c), OnlyTimeSetter(c)
  PROVE  LET meant == Val(val[c]) + (Val(mtime) - Val(stored[c])) IN
         /\ Val(mtime') <= meant
         /\ mtime[1] = stored[c][1] => Val(mtime') = meant
         /\ Val(mtime) < Val(stored[c]) + Radix => meant <= Val(mtime') + Radix
<1> DEFINE s == stored[c]  v == val[c]
<1>1. s \in Dword /\ s[0] = v[0] /\ Geq(mtime, s)
  BY DEF StoredInv, SetTimerHigh
<1>2. mtime \in Dword /\ v \in Dword /\ v[1] \in Word  BY DwordWords DEF TypeOK
<1>3. mtime' = [mtime EXCEPT ![1] = v[1]]  BY DEF SetTimerHigh
<1>4. mtime'[1] = v[1] /\ mtime'[0] = mtime[0]
  BY <1>2, <1>3, StoreWords
<1> DEFINE h0 == s[1] * Radix  h1 == mtime[1] * Radix  h == v[1] * Radix
           l0 == s[0]  l1 == mtime[0]
<1>5. h0 \in Nat /\ h1 \in Nat /\ h \in Nat /\ l0 \in Nat /\ l1 \in Nat /\ Radix \in Nat
  BY <1>1, <1>2, WordRange, RadixAssumption
<1>6. l0 < Radix /\ l1 < Radix  BY <1>1, <1>2, WordRange
<1>7. /\ Val(s) = h0 + l0 /\ Val(mtime) = h1 + l1
      /\ Val(v) = h + l0 /\ Val(mtime') = h + l1
  BY <1>1, <1>4 DEF Val
<1>8. mtime[1] = s[1] => h1 = h0  OBVIOUS
<1>9. h1 = h0 \/ h1 = h0 + Radix \/ h1 >= h0 + Radix + Radix
  <2>1. mtime[1] \in Nat /\ s[1] \in Nat  BY <1>1, <1>2, WordRange
  <2>2. mtime[1] >= s[1]  BY <1>1, <2>1 DEF Geq
  <2>3. CASE mtime[1] = s[1]  BY <2>3
  <2>4. CASE mtime[1] = s[1] + 1  BY <2>1, <2>4, RadixAssumption
  <2>5. CASE mtime[1] > s[1] + 1
    <3>1. h1 >= (s[1] + 1) * Radix + Radix  BY <2>1, <2>5, TimesRadix
    <3>2. (s[1] + 1) * Radix = h0 + Radix  BY <2>1, RadixAssumption
    <3> QED  BY <3>1, <3>2
  <2> QED  BY <2>1, <2>2, <2>3, <2>4, <2>5
<1> HIDE DEF s, v, h0, h1, h, l0, l1
<1>10. /\ Val(mtime') <= Val(v) + (Val(mtime) - Val(s))
       /\ h1 = h0 => Val(mtime') = Val(v) + (Val(mtime) - Val(s))
       /\ Val(mtime) < Val(s) + Radix => Val(v) + (Val(mtime) - Val(s)) <= Val(mtime') + Radix
  BY <1>5, <1>6, <1>7, <1>9
<1> QED  BY <1>8, <1>10 DEF s, v

\* For every program of calls in which c alone sets the time, whatever the other
\* callers do.
THEOREM TimerSetIsCloseCorrect == RaceSpec => TimerSetIsClose
<1> DEFINE Close ==
      \A c \in Callers :
        SetTimerHigh(c) /\ OnlyTimeSetter(c) =>
          LET meant == Val(val[c]) + (Val(mtime) - Val(stored[c])) IN
          /\ Val(mtime') <= meant
          /\ mtime[1] = stored[c][1] => Val(mtime') = meant
          /\ Val(mtime) < Val(stored[c]) + Radix => meant <= Val(mtime') + Radix
<1>1. RaceInit => Init /\ FnInv /\ StoredInv
  BY FnInit DEF RaceInit, Init, StoredInv, At
<1>2. [RaceNext]_rvars => [Next]_vars  BY Watched
<1>3. TypeOK /\ TypeOK' /\ FnInv /\ StoredInv /\ [RaceNext]_rvars => (FnInv /\ StoredInv)'
  BY Watched, FnInductive, StoredInductive
<1>4. TypeOK /\ StoredInv => [Close]_vars
  BY SetIsClose
<1>5. RaceSpec => [][Close]_vars
  <2> HIDE DEF Close
  <2>1. RaceSpec => []TypeOK  BY <1>1, <1>2, TypeCorrect, PTL DEF RaceSpec, Spec
  <2> QED  BY <1>1, <1>3, <1>4, <2>1, PTL DEF RaceSpec
<1> QED  BY <1>5 DEF TimerSetIsClose

-------------------------------------------------------------------------------
(* clint_get_timercmp.  The low word read first, with the high word of the *)
(* deadline, is no earlier than floor; or it is the low word of a deadline *)
(* whose high word is not stored yet, and which will replace this one.     *)

\* Until the low word is stored the register still has the deadline's.
LowKept ==
  \A b \in Callers : At(b, "set_cmp_low") => mtimecmp[Target(b)][0] = deadline[Target(b)][0]

\* d with the low word that c has read.
Joined(c, d) == [val[c] EXCEPT ![1] = d[1]]

FloorInv ==
  \A c \in Callers : ReadingCmp(c) =>
    /\ pc[c] \in {"get_low", "get_high"}
    /\ floor[c] \in Dword
    /\ floor[c][1] # Radix - 1 =>
         /\ Geq(deadline[Target(c)], floor[c])
         /\ At(c, "get_high") =>
              \/ Geq(Joined(c, deadline[Target(c)]), floor[c])
              \/ \E b \in Callers : /\ At(b, "set_cmp_high") /\ Target(b) = Target(c)
                                    /\ val[b][0] = val[c][0]

LEMMA LowKeptInductive ==
  ASSUME OneSetter, TypeOK, CmpInv, LowKept, [Next]_vars
  PROVE  LowKept'
<1> SUFFICES ASSUME NEW b \in Callers, At(b, "set_cmp_low")'
             PROVE  mtimecmp'[Target(b)'][0] = deadline'[Target(b)'][0]
  BY DEF LowKept
<1>1. CASE UNCHANGED <<pc[b], call[b], val[b]>>
  <2>1. At(b, "set_cmp_low") /\ Target(b)' = Target(b)  BY <1>1 DEF At, Target
  <2>2. SettingCmp(b) /\ Target(b) \in Harts
    BY <2>1, TargetIsHart DEF At, SettingCmp, Idle
  <2>3. ~Stores(b)
    BY <1>1 DEF Stores, MaskCmp, SetCmpLow, SetCmpHigh, Goto, Return, At, TypeOK
  <2>4. \A a \in Callers : Stores(a) => Target(a) # Target(b)
    BY <2>2, <2>3 DEF Stores, MaskCmp, SetCmpLow, SetCmpHigh, At, SettingCmp, OneSetter
  <2>5. UNCHANGED <<mtimecmp[Target(b)], deadline[Target(b)]>>
    <3>1. PICK k \in Harts : k = Target(b)  BY <2>2
    <3>2. UNCHANGED <<mtimecmp[k], deadline[k]>>  BY <2>4, <3>1, MovesCmp
    <3>3. Target(b)' = k  BY <2>1, <3>1
    <3> QED  BY <3>1, <3>2, <3>3
  <2> QED  BY <2>1, <2>5 DEF LowKept
<1>2. CASE MaskCmp(b)
  <2>1. SettingCmp(b) /\ ~Idle(b) /\ At(b, "set_cmp_mask")
    BY <1>2 DEF MaskCmp, At, SettingCmp, Idle
  <2>2. Target(b) \in Harts  BY <2>1, TargetIsHart
  <2>3. ~Masked(Target(b))  BY <2>1 DEF Masked, OneSetter, SettingCmp, At
  <2>4. mtimecmp[Target(b)] = deadline[Target(b)]  BY <2>2, <2>3 DEF CmpInv
  <2>5. UNCHANGED <<call, deadline>>  BY <1>2 DEF MaskCmp, history
  <2>6. mtimecmp'[Target(b)][0] = mtimecmp[Target(b)][0]
    BY <1>2, <2>2 DEF MaskCmp, StoreCmp, TypeOK, Dword, Halves
  <2> QED  BY <2>4, <2>5, <2>6 DEF Target
<1>3. ~Begin(b)
  <2>1. SUFFICES ASSUME Begin(b) PROVE FALSE  OBVIOUS
  <2>2. PICK x \in Calls : pc' = [pc EXCEPT ![b] = Entry(x.fn)]  BY <2>1 DEF Begin, Goto
  <2>3. Entry(x.fn) # "set_cmp_low"  BY DriverAssumption DEF Call, Functions, Entry
  <2> QED  BY <2>2, <2>3 DEF At, TypeOK
<1>4. Step(b) => MaskCmp(b)
  BY DEF At, Goto, Return, TypeOK, Step, SetTimerLow, SetTimerHigh, GetLow, GetHigh, SetCmpLow,
     SetCmpHigh, SetMsip, GetMsip, RawHigh, RawLow, RawRetry, RawReturn
<1> QED  BY <1>1, <1>2, <1>3, <1>4, OwnStep

\* A value with a later deadline's high word is no earlier.
LEMMA JoinedGrows ==
  ASSUME TypeOK, NEW c \in Callers, NEW d \in Dword, NEW e \in Dword, NEW f \in Dword,
         Geq(e, d), Geq(Joined(c, d), f)
  PROVE  Geq(Joined(c, e), f)
<1>1. val[c] \in Dword /\ d[1] \in Word /\ e[1] \in Word  BY DwordWords DEF TypeOK
<1>2. /\ Joined(c, d)[1] = d[1] /\ Joined(c, d)[0] = val[c][0]
      /\ Joined(c, e)[1] = e[1] /\ Joined(c, e)[0] = val[c][0]
  BY <1>1, StoreWords DEF Joined
<1> QED  BY <1>1, <1>2, WordRange DEF Geq

\* The first of the two reads.
LEMMA FloorAtLow ==
  ASSUME OneSetter, TypeOK, CmpInv, LowKept, FloorInv,
         NEW c \in Callers, ReadingCmp(c), At(c, "get_low"), floor[c][1] # Radix - 1
  PROVE  LET k == Target(c)
             read == [val[c] EXCEPT ![0] = mtimecmp[k][0]]
         IN  \/ Geq([read EXCEPT ![1] = deadline[k][1]], floor[c])
             \/ \E b \in Callers : /\ At(b, "set_cmp_high") /\ Target(b) = k
                                   /\ val[b][0] = read[0]
<1> DEFINE k == Target(c)
           read == [val[c] EXCEPT ![0] = mtimecmp[k][0]]
<1>1. k \in Harts  BY TargetIsHart DEF At, Idle
<1>2. /\ mtimecmp[k] \in Dword /\ deadline[k] \in Dword /\ val[c] \in Dword
      /\ mtimecmp[k][0] \in Word /\ deadline[k][1] \in Word
  BY <1>1, DwordWords DEF TypeOK
<1>3. read \in Dword /\ read[0] = mtimecmp[k][0]  BY <1>2, StoreWords, DwordOps
<1>4. CASE \E b \in Callers : At(b, "set_cmp_high") /\ Target(b) = k
  <2>1. PICK b \in Callers : At(b, "set_cmp_high") /\ Target(b) = k  BY <1>4
  <2>2. mtimecmp[k][0] = val[b][0]  BY <2>1 DEF CmpInv
  <2> QED  BY <1>3, <2>1, <2>2
<1>5. CASE ~\E b \in Callers : At(b, "set_cmp_high") /\ Target(b) = k
  <2>1. mtimecmp[k][0] = deadline[k][0]
    <3>1. CASE Masked(k)
      <4>1. PICK b \in Callers : At(b, "set_cmp_low") /\ Target(b) = k
        BY <1>5, <3>1 DEF Masked, At
      <4> QED  BY <4>1 DEF LowKept
    <3>2. CASE ~Masked(k)  BY <1>1, <3>2 DEF CmpInv
    <3> QED  BY <3>1, <3>2
  <2> DEFINE r == [read EXCEPT ![1] = deadline[k][1]]
  <2>2. r \in Dword /\ r[0] = deadline[k][0] /\ r[1] = deadline[k][1]
    <3> HIDE DEF read
    <3> QED  BY <1>2, <1>3, <2>1, StoreWords, DwordOps
  <2> HIDE DEF r
  <2>3. r = deadline[k]  BY <1>2, <2>2, SameWords
  <2>4. Geq(deadline[k], floor[c])  BY DEF FloorInv
  <2> QED  BY <2>3, <2>4 DEF r
<1> QED  BY <1>4, <1>5

LEMMA FloorInductive ==
  ASSUME OneSetter, TypeOK, TypeOK', CmpInv, LowKept, FloorInv, [RaceNext]_rvars
  PROVE  FloorInv'
<1> USE DEF At, Idle
<1> SUFFICES ASSUME NEW c \in Callers, ReadingCmp(c)'
             PROVE  /\ pc'[c] \in {"get_low", "get_high"}
                    /\ floor'[c] \in Dword
                    /\ floor'[c][1] # Radix - 1 =>
                         /\ Geq(deadline'[Target(c)'], floor'[c])
                         /\ At(c, "get_high")' =>
                              \/ Geq(Joined(c, deadline[Target(c)])', floor'[c])
                              \/ \E b \in Callers :
                                   /\ At(b, "set_cmp_high")' /\ Target(b)' = Target(c)'
                                   /\ val'[b][0] = val'[c][0]
  BY DEF FloorInv
<1>1. [Next]_vars  BY Watched
<1>3. CASE Begin(c)
  <2>1. PICK x \in Calls : call' = [call EXCEPT ![c] = x] /\ pc' = [pc EXCEPT ![c] = Entry(x.fn)]
    BY <1>3 DEF Begin, Goto
  <2>2. x.fn = "clint_get_timercmp" /\ call'[c] = x /\ pc'[c] = Entry(x.fn)
    BY <2>1 DEF ReadingCmp, TypeOK
  <2>3. pc'[c] = "get_low"  BY <2>2 DEF Entry
  <2>4. Target(c)' \in Harts  BY <2>2, DriverAssumption DEF Target, HartOf, Call
  <2>5. UNCHANGED deadline /\ ~UNCHANGED vars
    BY <1>3, <2>3 DEF Begin, vars, locals
  <2>6. floor'[c] = deadline[Target(c)']  BY <1>3, <2>5, Watched DEF Watch, rvars, Begin
  <2> QED  BY <2>3, <2>4, <2>5, <2>6, GeqOrder DEF TypeOK
<1>4. CASE ~Begin(c)
  <2>1. \/ UNCHANGED <<pc[c], call[c], val[c]>>
        \/ GetLow(c)
    <3>1. CASE Step(c)
      <4>1. call'[c] # Nothing  BY DEF ReadingCmp, Nothing
      <4>2. call'[c] = call[c]
        BY <3>1, <4>1 DEF TypeOK, Return, Step, SetTimerLow, SetTimerHigh, GetLow, GetHigh, MaskCmp,
           SetCmpLow, SetCmpHigh, SetMsip, GetMsip, RawHigh, RawLow, RawRetry, RawReturn
      <4>3. pc[c] \in {"get_low", "get_high"}  BY <4>2 DEF FloorInv, ReadingCmp
      <4>4. ~GetHigh(c)  BY <4>1 DEF GetHigh, Return, TypeOK
      <4> QED
        BY <3>1, <4>3, <4>4 DEF Step, SetTimerLow, SetTimerHigh, GetLow, MaskCmp,
           SetCmpLow, SetCmpHigh, SetMsip, GetMsip, RawHigh, RawLow, RawRetry, RawReturn, RawDone
    <3> QED  BY <1>1, <1>4, <3>1, OwnStep
  <2>2. /\ ReadingCmp(c) /\ Target(c)' = Target(c) /\ pc[c] \in {"get_low", "get_high"}
        /\ call'[c] = call[c]
    <3>1. call'[c] = call[c]  BY <2>1 DEF GetLow
    <3> QED  BY <3>1 DEF ReadingCmp, Target, FloorInv
  <2>3. pc'[c] \in {"get_low", "get_high"}
    BY <2>1, <2>2 DEF GetLow, Goto, TypeOK
  <2>4. PICK k \in Harts : k = Target(c) /\ k = Target(c)'  BY <2>2, TargetIsHart
  <2>5. deadline[k] \in Dword /\ deadline'[k] \in Dword /\ floor[c] \in Dword
    BY <2>2 DEF TypeOK, FloorInv
  <2>6. \/ floor'[c] = floor[c] /\ Geq(deadline'[k], deadline[k])
        \/ floor'[c] = Zeros
    <3>1. CASE UNCHANGED rvars  BY <2>5, <3>1, GeqOrder DEF rvars, vars, history
    <3>2. CASE Watch
      <4>1. floor'[c] = IF MovesBack(c) THEN Zeros ELSE floor[c]
        BY <2>2, <3>2 DEF Watch
      <4> QED  BY <2>4, <4>1 DEF MovesBack
    <3> QED  BY <3>1, <3>2, Watched
  <2>7. CASE floor'[c] = Zeros
    <3>1. Zeros \in Dword /\ \A d \in Dword : Geq(d, Zeros)
      BY DwordOps, WordRange, RadixAssumption DEF Zeros, Geq, Halves
    <3>2. Joined(c, deadline[k])' \in Dword
      BY <2>5, DwordOps, DwordWords DEF Joined, TypeOK
    <3>3. deadline'[Target(c)'] = deadline'[k]  BY <2>4
    <3> QED  BY <2>3, <2>5, <2>7, <3>1, <3>2, <3>3, <2>4
  <2>8. CASE floor'[c] = floor[c] /\ Geq(deadline'[k], deadline[k])
    <3>1. floor'[c][1] # Radix - 1 => Geq(deadline'[k], floor[c])
      BY <2>2, <2>4, <2>5, <2>8, GeqOrder DEF FloorInv
    <3>2. ASSUME At(c, "get_high")', floor[c][1] # Radix - 1
          PROVE  \/ Geq(Joined(c, deadline[k])', floor[c])
                 \/ \E b \in Callers : /\ At(b, "set_cmp_high")' /\ Target(b)' = k
                                       /\ val'[b][0] = val'[c][0]
      <4>1. CASE GetLow(c)
        <5>1. /\ At(c, "get_low") /\ UNCHANGED <<mtimecmp, deadline, call>>
              /\ pc' = [pc EXCEPT ![c] = "get_high"]
              /\ val' = [val EXCEPT ![c][0] = mtimecmp[k][0]]
          BY <2>2, <2>4, <4>1
             DEF GetLow, Goto, KeepWord, ReadsFrom, ReadingCmp, device, history
        <5> DEFINE read == [val[c] EXCEPT ![0] = mtimecmp[k][0]]
        <5>2. val'[c] = read  BY <5>1 DEF TypeOK
        <5>3. \/ Geq([read EXCEPT ![1] = deadline[k][1]], floor[c])
              \/ \E b \in Callers : /\ At(b, "set_cmp_high") /\ Target(b) = k
                                    /\ val[b][0] = read[0]
          BY <2>2, <2>4, <3>2, <5>1, FloorAtLow
        <5> HIDE DEF read
        <5>4. CASE Geq([read EXCEPT ![1] = deadline[k][1]], floor[c])
          BY <5>1, <5>2, <5>4 DEF Joined
        <5>5. CASE \E b \in Callers : /\ At(b, "set_cmp_high") /\ Target(b) = k
                                      /\ val[b][0] = read[0]
          <6>1. PICK b \in Callers : /\ At(b, "set_cmp_high") /\ Target(b) = k
                                     /\ val[b][0] = read[0]
            BY <5>5
          <6>2. b # c  BY <5>1, <6>1
          <6>3. pc'[b] = pc[b] /\ val'[b] = val[b]  BY <5>1, <6>2 DEF TypeOK
          <6>4. Target(b)' = k  BY <5>1, <6>1 DEF Target
          <6> QED  BY <5>2, <6>1, <6>3, <6>4
        <5> QED  BY <5>3, <5>4, <5>5
      <4>2. CASE UNCHANGED <<pc[c], call[c], val[c]>>
        <5>1. \/ Geq(Joined(c, deadline[k]), floor[c])
              \/ \E b \in Callers : /\ At(b, "set_cmp_high") /\ Target(b) = k
                                    /\ val[b][0] = val[c][0]
          BY <2>2, <2>4, <3>2, <4>2 DEF FloorInv
        <5>2. CASE Geq(Joined(c, deadline[k]), floor[c])
          <6>1. PICK e \in Dword : e = deadline'[k]  BY <2>5
          <6>2. Geq(Joined(c, e), floor[c])
            BY <2>5, <2>8, <5>2, <6>1, JoinedGrows
          <6>3. Joined(c, deadline[k])' = Joined(c, e)  BY <4>2, <6>1 DEF Joined
          <6> QED  BY <6>2, <6>3
        <5>3. ASSUME NEW b \in Callers, At(b, "set_cmp_high"), Target(b) = k, val[b][0] = val[c][0]
              PROVE  \/ UNCHANGED <<pc[b], call[b], val[b]>>
                     \/ Geq(Joined(c, deadline[k])', floor[c])
          <6>1. CASE SetCmpHigh(b)
            <7>1. deadline'[k] = val[b]  BY <5>3, <6>1 DEF SetCmpHigh, TypeOK
            <7>2. val[c] \in Dword /\ val[b] \in Dword /\ val[b][1] \in Word
              BY DwordWords DEF TypeOK
            <7>3. Joined(c, deadline[k])' = [val[c] EXCEPT ![1] = val[b][1]]
              BY <4>2, <7>1 DEF Joined
            <7>4. [val[c] EXCEPT ![1] = val[b][1]] = val[b]
              <8> DEFINE j == [val[c] EXCEPT ![1] = val[b][1]]
              <8>1. j \in Dword /\ j[0] = val[b][0] /\ j[1] = val[b][1]
                BY <5>3, <7>2, DwordOps, StoreWords
              <8> HIDE DEF j
              <8>2. j = val[b]  BY <7>2, <8>1, SameWords
              <8> QED  BY <8>2 DEF j
            <7>5. Joined(c, deadline[k])' = deadline'[k]  BY <7>1, <7>3, <7>4
            <7>6. Geq(deadline'[k], floor[c])  BY <2>8, <3>1, <3>2
            <7> QED  BY <7>5, <7>6
          <6>2. ~Begin(b)  BY <5>3 DEF Begin
          <6>3. Step(b) => SetCmpHigh(b)
            BY <5>3 DEF Step, SetTimerLow, SetTimerHigh, GetLow, GetHigh, MaskCmp, SetCmpLow,
               SetMsip, GetMsip, RawHigh, RawLow, RawRetry, RawReturn, RawDone
          <6> QED  BY <1>1, <6>1, <6>2, <6>3, OwnStep
        <5>4. CASE \E b \in Callers : /\ At(b, "set_cmp_high") /\ Target(b) = k
                                      /\ val[b][0] = val[c][0]
          <6>1. PICK b \in Callers : /\ At(b, "set_cmp_high") /\ Target(b) = k
                                     /\ val[b][0] = val[c][0]
            BY <5>4
          <6>2. CASE UNCHANGED <<pc[b], call[b], val[b]>>
            <7>1. Target(b)' = k  BY <6>1, <6>2 DEF Target
            <7> QED  BY <4>2, <6>1, <6>2, <7>1
          <6> QED  BY <5>3, <6>1, <6>2
        <5> QED  BY <5>1, <5>2, <5>4
      <4> QED  BY <2>1, <4>1, <4>2
    <3> QED  BY <2>3, <2>4, <2>5, <2>8, <3>1, <3>2
  <2> QED  BY <2>6, <2>7, <2>8
<1> QED  BY <1>3, <1>4
\* With a deadline that only moves to later times, what is read is no earlier
\* than it was when the call began.
LEMMA ReadsFromFloor ==
  ASSUME OneSetter, TypeOK, CmpInv, FloorInv,
         NEW c \in Callers, GetHigh(c), ReadingCmp(c), floor[c][1] # Radix - 1
  PROVE  Geq(ReadTime(c), floor[c])
<1>1. At(c, "get_high") /\ ~Idle(c)  BY DEF GetHigh, At, Idle
<1>2. PICK k \in Harts : k = Target(c)  BY <1>1, TargetIsHart
<1>3. ReadTime(c) = Joined(c, mtimecmp[k])
  BY <1>2 DEF ReadTime, ReadsFrom, ReadingCmp, Joined
<1>4. /\ floor[c] \in Dword /\ val[c] \in Dword
      /\ mtimecmp[k] \in Dword /\ mtimecmp[k][1] \in Word
  BY DwordWords DEF FloorInv, TypeOK
<1>5. CASE Masked(k)
  <2>1. mtimecmp[k][1] = Radix - 1  BY <1>5 DEF CmpInv
  <2>2. Joined(c, mtimecmp[k])[1] = Radix - 1  BY <1>4, <2>1, StoreWords DEF Joined
  <2> QED  BY <1>3, <1>4, <2>2, WordRange, RadixAssumption DEF Geq
<1>6. CASE ~Masked(k)
  <2>1. mtimecmp[k] = deadline[k]  BY <1>6 DEF CmpInv
  <2>2. \A b \in Callers : ~(At(b, "set_cmp_high") /\ Target(b) = k)
    BY <1>6 DEF Masked, At
  <2>3. Geq(Joined(c, deadline[k]), floor[c])  BY <1>1, <1>2, <2>2 DEF FloorInv
  <2> QED  BY <1>3, <2>1, <2>3
<1> QED  BY <1>5, <1>6

\* For every program of calls with one owner for each compare register.
THEOREM DeadlineReadNotEarlierCorrect == RaceSpec => DeadlineReadNotEarlier
<1> DEFINE NotEarlier ==
      \A c \in Callers :
        GetHigh(c) /\ ReadingCmp(c) /\ OneOwner /\ floor[c][1] # Radix - 1 =>
          Geq(ReadTime(c), floor[c])
<1>1. CASE OneOwner
  <2>1. RaceInit => Init /\ CmpInv /\ LowKept /\ FloorInv
    BY CmpInit DEF RaceInit, Init, LowKept, FloorInv, At, ReadingCmp, Nothing
  <2>2. [RaceNext]_rvars => [Next]_vars  BY Watched
  <2>3. /\ TypeOK /\ TypeOK' /\ CmpInv /\ LowKept /\ FloorInv /\ [RaceNext]_rvars
        => (CmpInv /\ LowKept /\ FloorInv)'
    BY <1>1, OwnerSets, Watched, CmpInductive, LowKeptInductive, FloorInductive
  <2>4. TypeOK /\ CmpInv /\ FloorInv => [NotEarlier]_vars
    BY <1>1, OwnerSets, ReadsFromFloor
  <2>5. RaceSpec => [][NotEarlier]_vars
    <3> HIDE DEF NotEarlier
    <3>1. RaceSpec => []TypeOK  BY <2>1, <2>2, TypeCorrect, PTL DEF RaceSpec, Spec
    <3> QED  BY <2>1, <2>3, <2>4, <3>1, PTL DEF RaceSpec
  <2> QED  BY <2>5 DEF DeadlineReadNotEarlier
<1>2. CASE ~OneOwner
  <2>1. [NotEarlier]_vars  BY <1>2
  <2>2. [][NotEarlier]_vars
    <3> HIDE DEF NotEarlier
    <3> QED  BY <2>1, PTL
  <2> QED  BY <2>2 DEF DeadlineReadNotEarlier
<1> QED  BY <1>1, <1>2
===============================================================================
