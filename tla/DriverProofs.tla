----------------------------- MODULE DriverProofs -----------------------------
(***************************************************************************)
(* Theorems about ClintDriver for every word width, number of harts and    *)
(* callers, and every set of calls that meets the stated condition.        *)
(***************************************************************************)
EXTENDS DriverProperties, DwordProofs

\* A call is about a hart that the device has.
LEMMA TargetIsHart == TypeOK => \A c \in Callers : ~Idle(c) => Target(c) \in Harts
BY DriverAssumption DEF TypeOK, Target, HartOf, Call

\* Storing a word of one compare register keeps the file typed.
LEMMA StoreTyped ==
  ASSUME NEW f \in [Harts -> Dword], NEW k \in Harts, NEW w \in Halves, NEW v \in Word
  PROVE  [f EXCEPT ![k][w] = v] \in [Harts -> Dword]
<1>1. [f[k] EXCEPT ![w] = v] \in Dword  BY DEF Dword
<1> QED  BY <1>1

\* What a caller keeps in its locals stays typed.
LEMMA KeepTyped ==
  ASSUME TypeOK, NEW c \in Callers
  PROVE  /\ \A d \in Dword : [val EXCEPT ![c] = d] \in [Callers -> Dword]
         /\ \A w \in Halves, v \in Word : [val EXCEPT ![c][w] = v] \in [Callers -> Dword]
         /\ [began EXCEPT ![c] = Zeros] \in [Callers -> Dword]
<1>1. \A w \in Halves, v \in Word : [val[c] EXCEPT ![w] = v] \in Dword
  BY DEF TypeOK, Dword
<1> QED  BY <1>1, DwordOps DEF TypeOK

LEMMA TypeInductive == TypeOK /\ [Next]_vars => TypeOK'
<1> SUFFICES ASSUME TypeOK, [Next]_vars PROVE TypeOK'
  OBVIOUS
<1> USE DEF TypeOK, Idle, At, Goto, Keep, KeepWord, Return, SettingCmp, device, locals, history
<1>1. CASE Tick
  BY <1>1, DwordOps DEF Tick
<1>2. ASSUME NEW c \in Callers, Begin(c) PROVE TypeOK'
  <2>1. PICK x \in Calls :
          /\ x.caller = c
          /\ call' = [call EXCEPT ![c] = x]
          /\ pc' = [pc EXCEPT ![c] = Entry(x.fn)]
          /\ val' = [val EXCEPT ![c] = IF x.fn \in Setters THEN x.arg ELSE Zeros]
    BY <1>2 DEF Begin
  <2>2. x.fn \in Functions /\ x.arg \in Dword
    BY DriverAssumption DEF Call
  <2>3. /\ Entry(x.fn) \in {"set_timer_low", "get_low", "set_cmp_mask", "set_msip",
                            "get_msip", "raw_high"}
        /\ Entry(x.fn) = "set_cmp_mask" => SetsCmp(x)
    BY <2>2 DEF Entry, Functions, SetsCmp
  <2>4. val' \in [Callers -> Dword]  BY <2>1, <2>2, DwordOps
  <2> QED  BY <1>2, <2>1, <2>3, <2>4 DEF Begin
<1>3. ASSUME NEW c \in Callers, Step(c) PROVE TypeOK'
  <2> USE KeepTyped
  <2>1. /\ val[c][0] \in Word /\ val[c][1] \in Word
        /\ mtime[0] \in Word /\ mtime[1] \in Word
        /\ 0 \in Halves /\ 1 \in Halves /\ Radix - 1 \in Word
    BY DwordWords, RadixAssumption DEF Halves, Word
  <2>2. ~Idle(c) => Target(c) \in Harts  BY TargetIsHart
  <2>3. CASE SetTimerLow(c)  BY <2>1, <2>3, DwordOps DEF SetTimerLow
  <2>4. CASE SetTimerHigh(c)  BY <2>1, <2>4, DwordOps DEF SetTimerHigh
  <2>5. CASE GetLow(c)
    <3>1. ReadsFrom(c)[0] \in Word
      BY <2>1, <2>2, <2>5, DwordWords DEF GetLow, ReadsFrom
    <3> QED  BY <2>1, <2>5, <3>1 DEF GetLow
  <2>6. CASE GetHigh(c)  BY <2>6, DwordOps DEF GetHigh
  <2>7. CASE MaskCmp(c)  BY <2>1, <2>2, <2>7, StoreTyped DEF MaskCmp, StoreCmp
  <2>8. CASE SetCmpLow(c)  BY <2>1, <2>2, <2>8, StoreTyped DEF SetCmpLow, StoreCmp
  <2>9. CASE SetCmpHigh(c)
    BY <2>1, <2>2, <2>9, StoreTyped, DwordOps DEF SetCmpHigh, StoreCmp
  <2>10. CASE SetMsip(c)
    <3>1. val[c][0] % 2 \in {0, 1}  BY <2>1, LastBit, Zenon
    <3> QED  BY <2>10, <3>1, DwordOps DEF SetMsip
  <2>11. CASE GetMsip(c)  BY <2>11, DwordOps DEF GetMsip
  <2>12. CASE RawHigh(c)  BY <2>1, <2>12 DEF RawHigh
  <2>13. CASE RawLow(c)  BY <2>1, <2>13 DEF RawLow
  <2>14. CASE RawRetry(c)  BY <2>14 DEF RawRetry
  <2>15. CASE RawReturn(c)
    <3>1. CASE call[c].fn = "mtimer_set_raw_time_cmp"
      <4>1. Plus(val[c], call[c].arg) \in Dword
        BY <2>15, PlusType, DriverAssumption DEF RawReturn, RawDone, Call
      <4> QED  BY <2>15, <3>1, <4>1 DEF RawReturn, RawDone, SetsCmp
    <3>2. CASE call[c].fn # "mtimer_set_raw_time_cmp"
      BY <2>15, <3>2, DwordOps DEF RawReturn, RawDone
    <3> QED  BY <3>1, <3>2
  <2> QED  BY <1>3, <2>3, <2>4, <2>5, <2>6, <2>7, <2>8, <2>9, <2>10,
              <2>11, <2>12, <2>13, <2>14, <2>15 DEF Step
<1>4. CASE UNCHANGED vars
  BY <1>4 DEF vars
<1> QED  BY <1>1, <1>2, <1>3, <1>4 DEF Next

\* A caller is only ever inside the function it called, with typed locals.
THEOREM TypeCorrect == Spec => []TypeOK
<1>1. Init => TypeOK
  BY DwordOps, DriverAssumption DEF Init, TypeOK, Idle, SettingCmp
<1> QED  BY <1>1, TypeInductive, PTL DEF Spec

-------------------------------------------------------------------------------
(* mtimer_get_raw_time.  While nobody sets MTIME it only grows, so the low *)
(* word read last and a high word at least the one read first belong to a  *)
(* value MTIME had since the call began.                                   *)

\* t was MTIME's value at some moment since the call of c began.
SeenSince(c, t) == Geq(t, began[c]) /\ Geq(mtime, t)

RawInv ==
  \A c \in Callers :
    /\ pc[c] \notin {"set_timer_low", "set_timer_high"}
    /\ ~Idle(c) => Geq(mtime, began[c])
    /\ At(c, "raw_low") => val[c][1] <= mtime[1]
    /\ At(c, "raw_check") =>
         \E t \in Dword : SeenSince(c, t) /\ t[0] = val[c][0] /\ val[c][1] <= t[1]

\* The invariant survives a caller's own step as long as MTIME stands still
\* and the other callers' locals are left alone.
LEMMA RawInvOwnStep ==
  ASSUME RawInv, NEW c \in Callers, UNCHANGED mtime,
         \A b \in Callers \ {c} : /\ pc'[b] = pc[b]
                                  /\ val'[b] = val[b] /\ began'[b] = began[b],
         /\ pc'[c] \notin {"set_timer_low", "set_timer_high"}
         /\ ~Idle(c)' => Geq(mtime, began'[c])
         /\ At(c, "raw_low")' => val'[c][1] <= mtime[1]
         /\ At(c, "raw_check")' =>
              \E t \in Dword : SeenSince(c, t)' /\ t[0] = val'[c][0] /\ val'[c][1] <= t[1]
  PROVE  RawInv'
<1> SUFFICES ASSUME NEW b \in Callers
             PROVE  /\ pc'[b] \notin {"set_timer_low", "set_timer_high"}
                    /\ ~Idle(b)' => Geq(mtime', began'[b])
                    /\ At(b, "raw_low")' => val'[b][1] <= mtime'[1]
                    /\ At(b, "raw_check")' =>
                         \E t \in Dword : SeenSince(b, t)' /\ t[0] = val'[b][0] /\ val'[b][1] <= t[1]
  BY DEF RawInv
<1>1. CASE b = c  BY <1>1
<1>2. CASE b # c  BY <1>2 DEF RawInv, Idle, At, SeenSince
<1> QED  BY <1>1, <1>2

LEMMA RawInductive ==
  ASSUME TimerNotSet, TypeOK, RawInv, [Next]_vars
  PROVE  RawInv'
<1>1. CASE Tick
  <2>1. mtime' = Incr(mtime) /\ mtime \in Dword /\ mtime' \in Dword /\ UNCHANGED <<locals, history>>
    BY <1>1, DwordOps DEF Tick, TypeOK
  <2>2. Geq(mtime', mtime) /\ mtime'[1] >= mtime[1]
    BY <1>1, <2>1, IncrStep DEF Tick
  <2> SUFFICES ASSUME NEW c \in Callers
               PROVE  /\ pc[c] \notin {"set_timer_low", "set_timer_high"}
                      /\ ~Idle(c) => Geq(mtime', began[c])
                      /\ At(c, "raw_low") => val[c][1] <= mtime'[1]
                      /\ At(c, "raw_check") =>
                           \E t \in Dword : /\ Geq(t, began[c]) /\ Geq(mtime', t)
                                            /\ t[0] = val[c][0] /\ val[c][1] <= t[1]
    BY <2>1 DEF RawInv, locals, history, Idle, At, SeenSince
  <2>3. began[c] \in Dword /\ val[c] \in Dword  BY DEF TypeOK
  <2>4. ~Idle(c) => Geq(mtime', began[c])
    BY <2>1, <2>2, <2>3, GeqOrder DEF RawInv
  <2>5. At(c, "raw_low") => val[c][1] <= mtime'[1]
    BY <2>1, <2>2, <2>3, WordRange DEF RawInv
  <2>6. \A t \in Dword : Geq(mtime, t) => Geq(mtime', t)
    BY <2>1, <2>2, GeqOrder
  <2> QED  BY <2>4, <2>5, <2>6 DEF RawInv, SeenSince
<1>2. ASSUME NEW c \in Callers, Begin(c) PROVE RawInv'
  <2>1. PICK x \in Calls :
          /\ pc' = [pc EXCEPT ![c] = Entry(x.fn)]
          /\ val' = [val EXCEPT ![c] = IF x.fn \in Setters THEN x.arg ELSE Zeros]
    BY <1>2 DEF Begin, Goto, Keep
  <2>2. Entry(x.fn) \in {"get_low", "set_cmp_mask", "set_msip", "get_msip", "raw_high"}
    BY DriverAssumption DEF TimerNotSet, Call, Functions, Entry
  <2>3. Geq(mtime, mtime)  BY GeqOrder DEF TypeOK
  <2>4. UNCHANGED mtime /\ began' = [began EXCEPT ![c] = mtime]
    BY <1>2 DEF Begin, device
  <2> QED  BY <2>1, <2>2, <2>3, <2>4, RawInvOwnStep DEF TypeOK, Idle, At
<1>3. ASSUME NEW c \in Callers, Step(c) PROVE RawInv'
  <2> USE DEF Idle, At, Goto, Keep, KeepWord, Return, device, history
  <2>0. /\ pc[c] \notin {"set_timer_low", "set_timer_high"}
        /\ ~Idle(c) => Geq(mtime, began[c])
    BY DEF RawInv
  <2>1. CASE GetLow(c) \/ MaskCmp(c) \/ SetCmpLow(c)
    <3>1. pc'[c] \in {"get_high", "set_cmp_low", "set_cmp_high"}
      BY <2>1 DEF GetLow, MaskCmp, SetCmpLow, TypeOK
    <3>2. UNCHANGED <<mtime, began>> /\ \A b \in Callers \ {c} : pc'[b] = pc[b] /\ val'[b] = val[b]
      BY <2>1 DEF GetLow, MaskCmp, SetCmpLow, TypeOK
    <3>3. ~Idle(c)  BY <2>1 DEF GetLow, MaskCmp, SetCmpLow
    <3> QED  BY <2>0, <3>1, <3>2, <3>3, RawInvOwnStep
  <2>2. CASE \/ GetHigh(c) \/ SetCmpHigh(c) \/ SetMsip(c) \/ GetMsip(c)
    <3>1. UNCHANGED mtime /\ Return(c)
      BY <2>2 DEF GetHigh, SetCmpHigh, SetMsip, GetMsip
    <3> QED  BY <3>1, RawInvOwnStep DEF TypeOK
  <2>3. CASE RawHigh(c)
    <3>1. /\ pc' = [pc EXCEPT ![c] = "raw_low"] /\ UNCHANGED <<mtime, began>>
          /\ val' = [val EXCEPT ![c][1] = mtime[1]] /\ ~Idle(c)
      BY <2>3 DEF RawHigh
    <3>2. val'[c][1] = mtime[1] /\ mtime[1] \in Nat
      BY <3>1, WordRange DEF TypeOK, Dword, Halves
    <3> QED  BY <2>0, <3>1, <3>2, RawInvOwnStep DEF TypeOK
  <2>4. CASE RawLow(c)
    <3>1. /\ pc' = [pc EXCEPT ![c] = "raw_check"] /\ UNCHANGED <<mtime, began>>
          /\ val' = [val EXCEPT ![c][0] = mtime[0]] /\ ~Idle(c)
      BY <2>4 DEF RawLow
    <3>2. val'[c][0] = mtime[0] /\ val'[c][1] = val[c][1]
      BY <3>1 DEF TypeOK, Dword, Halves
    <3>3. val[c][1] <= mtime[1]  BY <2>4 DEF RawLow, RawInv
    <3>4. mtime \in Dword /\ SeenSince(c, mtime)'
      BY <2>0, <3>1, GeqOrder DEF SeenSince, TypeOK
    <3> QED  BY <2>0, <3>1, <3>2, <3>3, <3>4, RawInvOwnStep DEF TypeOK
  <2>5. CASE RawRetry(c)
    BY <2>0, <2>5, RawInvOwnStep DEF RawRetry, TypeOK
  <2>6. CASE RawReturn(c)
    BY <2>0, <2>6, RawInvOwnStep DEF RawReturn, RawDone, TypeOK
  <2>7. ~SetTimerLow(c) /\ ~SetTimerHigh(c)
    BY <2>0 DEF SetTimerLow, SetTimerHigh
  <2> QED  BY <1>3, <2>1, <2>2, <2>3, <2>4, <2>5, <2>6, <2>7 DEF Step
<1>4. CASE UNCHANGED vars
  BY <1>4 DEF vars, device, locals, history, RawInv, Idle, At, SeenSince
<1> QED  BY <1>1, <1>2, <1>3, <1>4 DEF Next

\* When the check succeeds the value read is the one seen.
LEMMA RawReadIsSeen ==
  ASSUME TypeOK, RawInv, NEW c \in Callers, RawReturn(c)
  PROVE  Geq(val[c], began[c]) /\ Geq(mtime, val[c])
<1>1. PICK t \in Dword : SeenSince(c, t) /\ t[0] = val[c][0] /\ val[c][1] <= t[1]
  BY DEF RawReturn, RawDone, RawInv, At
<1>2. val[c][1] = mtime[1] /\ val[c] \in Dword /\ mtime \in Dword
  BY DEF RawReturn, RawDone, TypeOK
<1>3. t[1] <= mtime[1]  BY <1>1, <1>2, WordRange DEF SeenSince, Geq
<1>4. t[1] = val[c][1]  BY <1>1, <1>2, <1>3, WordRange
<1>5. t = val[c]  BY <1>1, <1>2, <1>4, SameWords
<1> QED  BY <1>1, <1>5 DEF SeenSince

\* As long as no call sets MTIME, every time that mtimer_get_raw_time reads
\* was current during the call, however many callers there are.
THEOREM RawTimeCorrect == TimerNotSet => (Spec => RawTimeIsCurrent)
<1> SUFFICES ASSUME TimerNotSet PROVE Spec => RawTimeIsCurrent
  OBVIOUS
<1>1. Init => RawInv  BY DEF Init, RawInv, Idle, At
<1>2. TypeOK /\ RawInv /\ [Next]_vars => RawInv'  BY RawInductive
<1>3. TypeOK /\ RawInv /\ [Next]_vars =>
        [\A c \in Callers : RawReturn(c) => Geq(val[c], began[c]) /\ Geq(mtime, val[c])]_vars
  BY RawReadIsSeen
<1> QED  BY <1>1, <1>2, <1>3, TypeCorrect, PTL DEF Spec, RawTimeIsCurrent

-------------------------------------------------------------------------------
(* Replacing a deadline.  Between the first and the last store the high    *)
(* word is all ones; at any other time the register holds a deadline that  *)
(* was asked for.                                                          *)

Replacing(c) == pc[c] \in {"set_cmp_low", "set_cmp_high"}

CmpInv ==
  /\ \A k \in Harts : IF Masked(k) THEN mtimecmp[k][1] = Radix - 1
                                   ELSE mtimecmp[k] = deadline[k]
  /\ \A c \in Callers : At(c, "set_cmp_high") => mtimecmp[Target(c)][0] = val[c][0]

\* No two callers are setting the same compare register.
OneSetter ==
  \A b, c \in Callers : SettingCmp(b) /\ SettingCmp(c) /\ Target(b) = Target(c) => b = c

LEMMA OwnerSets == OneOwner /\ TypeOK => OneSetter
BY DEF OneSetter, OneOwner, TypeOK, SettingCmp, Idle, Target

\* A step that moves no caller into, along or out of a replacement, and does
\* not touch the registers or deadlines, keeps the invariant.
LEMMA CmpInvFrame ==
  ASSUME CmpInv, UNCHANGED <<mtimecmp, deadline>>,
         \A c \in Callers : /\ Replacing(c)' <=> Replacing(c)
                            /\ Replacing(c) => UNCHANGED <<pc[c], call[c], val[c]>>
  PROVE  CmpInv'
<1>1. \A c \in Callers : Replacing(c) => Target(c)' = Target(c)
  BY DEF Target
<1>2. \A k : Masked(k)' <=> Masked(k)
  BY <1>1 DEF Masked, Replacing
<1> QED  BY <1>1, <1>2 DEF CmpInv, At, Replacing

\* A store to the register of k by the one caller c that is setting it: what
\* holds of c and k after it is the invariant, since nobody else is replacing
\* that deadline.
LEMMA CmpInvStore ==
  ASSUME OneSetter, TypeOK, CmpInv,
         NEW c \in Callers, NEW k \in Harts, SettingCmp(c), Target(c) = k,
         \A b \in Callers \ {c} : UNCHANGED <<pc[b], call[b], val[b]>>,
         \A j \in Harts \ {k} : UNCHANGED <<mtimecmp[j], deadline[j]>>,
         Replacing(c)' => Target(c)' = k /\ mtimecmp'[k][1] = Radix - 1,
         ~Replacing(c)' => mtimecmp'[k] = deadline'[k],
         At(c, "set_cmp_high")' => mtimecmp'[k][0] = val'[c][0]
  PROVE  CmpInv'
<1>1. \A b \in Callers \ {c} : /\ Target(b)' = Target(b)
                               /\ Replacing(b)' <=> Replacing(b)
                               /\ At(b, "set_cmp_high")' <=> At(b, "set_cmp_high")
  BY DEF Target, Replacing, At
<1>2. \A b \in Callers \ {c} : Replacing(b) => Target(b) # k /\ Target(b) \in Harts
  BY TargetIsHart DEF OneSetter, Replacing, SettingCmp, Idle
<1>3. /\ \A j : Masked(j) <=> \E b \in Callers : Replacing(b) /\ Target(b) = j
      /\ \A j : Masked(j)' <=> \E b \in Callers : Replacing(b)' /\ Target(b)' = j
  BY DEF Masked, Replacing
<1>4. \A j \in Harts \ {k} : Masked(j)' <=> Masked(j)  BY <1>1, <1>3
<1>5. Masked(k)' <=> Replacing(c)'  BY <1>1, <1>2, <1>3
<1>6. \A j \in Harts : IF Masked(j)' THEN mtimecmp'[j][1] = Radix - 1
                                     ELSE mtimecmp'[j] = deadline'[j]
  <2>1. CASE Replacing(c)'  BY <1>4, <1>5, <2>1 DEF CmpInv
  <2>2. CASE ~Replacing(c)'  BY <1>4, <1>5, <2>2 DEF CmpInv
  <2> QED  BY <2>1, <2>2
<1>7. ASSUME NEW b \in Callers, At(b, "set_cmp_high")'
      PROVE  mtimecmp'[Target(b)'][0] = val'[b][0]
  <2>1. CASE b = c  BY <1>7, <2>1 DEF Replacing, At
  <2>2. CASE b # c
    <3>1. mtimecmp[Target(b)][0] = val[b][0] /\ Target(b) \in Harts \ {k}
      BY <1>1, <1>2, <1>7, <2>2 DEF CmpInv, Replacing, At
    <3> QED  BY <1>1, <2>2, <3>1
  <2> QED  BY <2>1, <2>2
<1> QED  BY <1>6, <1>7 DEF CmpInv

LEMMA CmpInductive ==
  ASSUME OneSetter, TypeOK, CmpInv, [Next]_vars
  PROVE  CmpInv'
<1>1. CASE Tick
  BY <1>1, CmpInvFrame DEF Tick, locals, history, Replacing
<1>2. ASSUME NEW c \in Callers, Begin(c) PROVE CmpInv'
  <2>1. PICK x \in Calls : pc' = [pc EXCEPT ![c] = Entry(x.fn)]
    BY <1>2 DEF Begin, Goto
  <2>2. Entry(x.fn) \notin {"set_cmp_low", "set_cmp_high"}
    BY DriverAssumption DEF Call, Functions, Entry
  <2>3. ~Replacing(c) /\ ~Replacing(c)'
    BY <1>2, <2>1, <2>2 DEF Begin, Idle, Replacing, TypeOK
  <2>4. \A b \in Callers \ {c} : UNCHANGED <<pc[b], call[b], val[b]>>
    BY <1>2 DEF Begin, Goto, Keep, TypeOK
  <2> QED  BY <1>2, <2>3, <2>4, CmpInvFrame DEF Begin, device, Replacing
<1>3. ASSUME NEW c \in Callers, Step(c) PROVE CmpInv'
  <2> USE DEF At, Goto, Keep, KeepWord, Return, device, history
  <2>0. \A b \in Callers \ {c} : UNCHANGED <<pc[b], call[b], val[b]>>
    BY <1>3 DEF Step, SetTimerLow, SetTimerHigh, GetLow, GetHigh, MaskCmp,
       SetCmpLow, SetCmpHigh, SetMsip, GetMsip, RawHigh, RawLow,
       RawRetry, RawReturn, TypeOK
  <2>1. CASE \/ SetTimerLow(c) \/ SetTimerHigh(c) \/ GetLow(c) \/ GetHigh(c)
             \/ SetMsip(c) \/ GetMsip(c)
             \/ RawHigh(c) \/ RawLow(c) \/ RawRetry(c) \/ RawReturn(c)
    <3>1. ~Replacing(c) /\ ~Replacing(c)' /\ UNCHANGED <<mtimecmp, deadline>>
      BY <2>1 DEF SetTimerLow, SetTimerHigh, GetLow, GetHigh,
         SetMsip, GetMsip, RawHigh, RawLow, RawRetry, RawReturn, RawDone, Replacing, TypeOK
    <3> QED  BY <2>0, <3>1, CmpInvFrame DEF Replacing
  <2>2. ASSUME SettingCmp(c) PROVE \E k \in Harts : Target(c) = k
    BY <2>2, TargetIsHart DEF SettingCmp, Idle
  <2>3. CASE MaskCmp(c)
    <3>1. SettingCmp(c) /\ pc'[c] = "set_cmp_low" /\ Target(c)' = Target(c) /\ UNCHANGED deadline
      BY <2>3 DEF MaskCmp, SettingCmp, Target, TypeOK
    <3>2. PICK k \in Harts : Target(c) = k  BY <2>2, <3>1
    <3>3. mtimecmp' = [mtimecmp EXCEPT ![k][1] = Radix - 1]
      BY <2>3, <3>2 DEF MaskCmp, StoreCmp
    <3>4. mtimecmp'[k][1] = Radix - 1 /\ \A j \in Harts \ {k} : mtimecmp'[j] = mtimecmp[j]
      BY <3>3 DEF TypeOK, Dword, Halves
    <3> QED  BY <2>0, <3>1, <3>2, <3>4, CmpInvStore DEF Replacing
  <2>4. CASE SetCmpLow(c)
    <3>1. /\ SettingCmp(c) /\ Replacing(c) /\ pc'[c] = "set_cmp_high"
          /\ Target(c)' = Target(c) /\ UNCHANGED <<val, deadline>>
      BY <2>4 DEF SetCmpLow, SettingCmp, Target, TypeOK, Replacing
    <3>2. PICK k \in Harts : Target(c) = k  BY <2>2, <3>1
    <3>3. mtimecmp' = [mtimecmp EXCEPT ![k][0] = val[c][0]]
      BY <2>4, <3>2 DEF SetCmpLow, StoreCmp
    <3>4. /\ mtimecmp'[k][0] = val[c][0] /\ mtimecmp'[k][1] = mtimecmp[k][1]
          /\ \A j \in Harts \ {k} : mtimecmp'[j] = mtimecmp[j]
      BY <3>3 DEF TypeOK, Dword, Halves
    <3>5. mtimecmp[k][1] = Radix - 1
      BY <3>1, <3>2 DEF CmpInv, Masked, Replacing
    <3> QED  BY <2>0, <3>1, <3>2, <3>4, <3>5, CmpInvStore DEF Replacing
  <2>5. CASE SetCmpHigh(c)
    <3>1. SettingCmp(c) /\ pc'[c] = "idle" /\ mtimecmp[Target(c)][0] = val[c][0]
      BY <2>5 DEF SetCmpHigh, SettingCmp, TypeOK, CmpInv
    <3>2. PICK k \in Harts : Target(c) = k  BY <2>2, <3>1
    <3>3. /\ mtimecmp' = [mtimecmp EXCEPT ![k][1] = val[c][1]]
          /\ deadline' = [deadline EXCEPT ![k] = val[c]]
      BY <2>5, <3>2 DEF SetCmpHigh, StoreCmp
    <3>4. /\ mtimecmp'[k][0] = val[c][0] /\ mtimecmp'[k][1] = val[c][1]
          /\ deadline'[k] = val[c]
          /\ \A j \in Harts \ {k} : mtimecmp'[j] = mtimecmp[j] /\ deadline'[j] = deadline[j]
      BY <3>1, <3>2, <3>3 DEF TypeOK, Dword, Halves
    <3>5. mtimecmp'[k] \in Dword /\ val[c] \in Dword  BY TypeInductive DEF TypeOK
    <3>6. mtimecmp'[k] = val[c]  BY <3>4, <3>5, SameWords
    <3> QED  BY <2>0, <3>1, <3>2, <3>4, <3>6, CmpInvStore DEF Replacing
  <2> QED  BY <1>3, <2>1, <2>3, <2>4, <2>5 DEF Step
<1>4. CASE UNCHANGED vars
  BY <1>4, CmpInvFrame DEF vars, device, locals, history, Replacing
<1> QED  BY <1>1, <1>2, <1>3, <1>4 DEF Next

LEMMA CmpInit == Init => CmpInv
BY DEF Init, CmpInv, Masked, At

LEMMA CmpPins == TypeOK /\ CmpInv => NoSpuriousInterrupt
<1> SUFFICES ASSUME TypeOK, CmpInv, NEW k \in Harts, mtip(k), mtime[1] # Radix - 1
             PROVE  ~Masked(k) /\ Geq(mtime, deadline[k])
  BY DEF NoSpuriousInterrupt
<1>1. ~Masked(k)
  BY WordRange, RadixAssumption DEF TypeOK, CmpInv, mtip, Geq
<1> QED  BY <1>1 DEF CmpInv, mtip

\* The compare register of a hart never holds a mixture of two deadlines that
\* could raise its interrupt, if one caller owns it; whatever MTIME does,
\* software setting it included.
THEOREM NoSpuriousCorrect == OneOwner => (Spec => []NoSpuriousInterrupt)
<1> SUFFICES ASSUME OneOwner PROVE Spec => []NoSpuriousInterrupt
  OBVIOUS
<1>1. TypeOK /\ CmpInv /\ [Next]_vars => CmpInv'  BY OwnerSets, CmpInductive
<1> QED  BY <1>1, CmpInit, CmpPins, TypeCorrect, PTL DEF Spec

-------------------------------------------------------------------------------
(* mtimer_set_raw_time_cmp.  Until its last store the value it is about to *)
(* install is the sum of its offset and a time of the call.                *)

\* As long as nobody sets MTIME it only grows.
LEMMA TimeGrows ==
  ASSUME TypeOK, RawInv, [Next]_vars
  PROVE  Geq(mtime', mtime) /\ mtime' \in Dword
<1>1. mtime \in Dword /\ Geq(mtime, mtime)  BY GeqOrder DEF TypeOK
<1>2. CASE Tick  BY <1>1, <1>2, IncrStep, DwordOps DEF Tick
<1>3. ASSUME NEW c \in Callers, Begin(c) \/ Step(c) PROVE UNCHANGED mtime
  BY <1>3 DEF RawInv, At, Begin, Step, SetTimerLow, SetTimerHigh, GetLow, GetHigh, MaskCmp,
     SetCmpLow, SetCmpHigh, SetMsip, GetMsip, RawHigh, RawLow, RawRetry, RawReturn, device
<1>4. CASE UNCHANGED vars  BY <1>1, <1>4 DEF vars, device
<1> QED  BY <1>1, <1>2, <1>3, <1>4 DEF Next

Offsetting(c) == SettingCmp(c) /\ call[c].fn = "mtimer_set_raw_time_cmp"

OffsetInv ==
  \A c \in Callers : Offsetting(c) =>
    \E t \in Dword : SeenSince(c, t) /\ val[c] = Plus(t, call[c].arg)

\* Whoever is about to install such a value was so before, or has just read the time.
LEMMA OffsetEntered ==
  ASSUME TypeOK, [Next]_vars, NEW c \in Callers, Offsetting(c)'
  PROVE  \/ Offsetting(c) /\ UNCHANGED <<call[c], val[c], began[c]>>
         \/ RawReturn(c)
<1> USE DEF Offsetting, SettingCmp, TypeOK, Idle, At, Goto, Keep, KeepWord, Return
<1>1. CASE Tick \/ UNCHANGED vars
  BY <1>1 DEF Tick, vars, device, locals, history
<1>2. ASSUME NEW b \in Callers, b # c, Begin(b) \/ Step(b)
      PROVE  UNCHANGED <<pc[c], call[c], val[c], began[c]>>
  BY <1>2 DEF Begin, Step, SetTimerLow, SetTimerHigh, GetLow, GetHigh, MaskCmp, SetCmpLow,
     SetCmpHigh, SetMsip, GetMsip, RawHigh, RawLow, RawRetry, RawReturn, history
<1>3. CASE Begin(c)
  <2>1. PICK x \in Calls : call' = [call EXCEPT ![c] = x] /\ pc' = [pc EXCEPT ![c] = Entry(x.fn)]
    BY <1>3 DEF Begin
  <2>2. call'[c].fn = "mtimer_set_raw_time_cmp" => pc'[c] = "raw_high"
    BY <2>1 DEF Entry
  <2> QED  BY <2>2
<1>4. CASE MaskCmp(c) \/ SetCmpLow(c)
  BY <1>4 DEF MaskCmp, SetCmpLow, history
<1>5. CASE \/ SetTimerLow(c) \/ SetTimerHigh(c) \/ GetLow(c) \/ GetHigh(c) \/ SetCmpHigh(c)
           \/ SetMsip(c) \/ GetMsip(c) \/ RawHigh(c) \/ RawLow(c) \/ RawRetry(c)
  <2>1. pc'[c] \notin {"set_cmp_mask", "set_cmp_low", "set_cmp_high"}
    BY <1>5 DEF SetTimerLow, SetTimerHigh, GetLow, GetHigh, SetCmpHigh,
       SetMsip, GetMsip, RawHigh, RawLow, RawRetry
  <2> QED  BY <2>1
<1> QED  BY <1>1, <1>2, <1>3, <1>4, <1>5 DEF Next, Step

LEMMA OffsetInductive ==
  ASSUME TypeOK, RawInv, OffsetInv, [Next]_vars
  PROVE  OffsetInv'
<1> SUFFICES ASSUME NEW c \in Callers, Offsetting(c)'
             PROVE  \E t \in Dword : /\ Geq(t, began'[c]) /\ Geq(mtime', t)
                                     /\ val'[c] = Plus(t, call'[c].arg)
  BY DEF OffsetInv, SeenSince
<1>1. Geq(mtime', mtime) /\ mtime' \in Dword /\ mtime \in Dword
  BY TimeGrows DEF TypeOK
<1>2. CASE Offsetting(c) /\ UNCHANGED <<call[c], val[c], began[c]>>
  <2>1. PICK t \in Dword : SeenSince(c, t) /\ val[c] = Plus(t, call[c].arg)
    BY <1>2 DEF OffsetInv
  <2>2. Geq(t, began'[c]) /\ Geq(mtime', t)
    BY <1>1, <1>2, <2>1, GeqOrder DEF SeenSince
  <2> QED  BY <1>2, <2>1, <2>2
<1>3. CASE RawReturn(c)
  <2>1. Geq(val[c], began[c]) /\ Geq(mtime, val[c]) /\ val[c] \in Dword
    BY <1>3, RawReadIsSeen DEF TypeOK
  <2>2. call[c].fn = "mtimer_set_raw_time_cmp"
    BY <1>3 DEF RawReturn, Return, Goto, Offsetting, SettingCmp, TypeOK
  <2>3. /\ val'[c] = Plus(val[c], call[c].arg)
        /\ UNCHANGED <<mtime, call, began>>
    BY <1>3, <2>2 DEF RawReturn, Keep, TypeOK, device
  <2> QED  BY <2>1, <2>3
<1> QED  BY <1>2, <1>3, OffsetEntered

\* The last store installs a deadline one offset after a time of the call.
LEMMA InstallsAtOffset ==
  ASSUME TypeOK, OffsetInv, CmpInv, NEW c \in Callers, SetCmpHigh(c),
         call[c].fn = "mtimer_set_raw_time_cmp",
         Val(mtime) + Val(call[c].arg) < Radix * Radix
  PROVE  /\ Val(began[c]) + Val(call[c].arg) <= Val(mtimecmp'[0])
         /\ Val(mtimecmp'[0]) <= Val(mtime) + Val(call[c].arg)
<1> DEFINE arg == call[c].arg
<1>1. At(c, "set_cmp_high") /\ SettingCmp(c) /\ ~Idle(c) /\ Target(c) = 0 /\ 0 \in Harts
  BY DriverAssumption DEF SetCmpHigh, At, SettingCmp, Idle, Target, HartOf
<1>2. PICK t \in Dword : SeenSince(c, t) /\ val[c] = Plus(t, arg)
  BY <1>1 DEF OffsetInv, Offsetting
<1>3. arg \in Dword /\ mtime \in Dword /\ began[c] \in Dword
  BY <1>1, DriverAssumption DEF TypeOK, Call
<1>4. mtimecmp'[0] = val[c]
  <2>1. mtimecmp' = [mtimecmp EXCEPT ![0][1] = val[c][1]]
    BY <1>1 DEF SetCmpHigh, StoreCmp
  <2>2. mtimecmp'[0] = [mtimecmp[0] EXCEPT ![1] = val[c][1]]
    BY <1>1, <2>1 DEF TypeOK
  <2>3. mtimecmp[0][0] = val[c][0]  BY <1>1 DEF CmpInv
  <2>4. mtimecmp[0] \in Dword /\ val[c] \in Dword  BY <1>1 DEF TypeOK
  <2>5. mtimecmp'[0][0] = val[c][0] /\ mtimecmp'[0][1] = val[c][1] /\ mtimecmp'[0] \in Dword
    BY <2>2, <2>3, <2>4, StoreWords, DwordWords, DwordOps
  <2> QED  BY <2>4, <2>5, SameWords
<1>5. Val(began[c]) <= Val(t) /\ Val(t) <= Val(mtime)
  BY <1>2, <1>3, GeqIsNumeric, ValRange DEF SeenSince
<1>6. /\ Val(t) \in Nat /\ Val(mtime) \in Nat /\ Val(arg) \in Nat /\ Val(began[c]) \in Nat
      /\ Radix * Radix \in Nat
  BY <1>3, ValRange, RadixAssumption
<1>7. Val(t) + Val(arg) < Radix * Radix  BY <1>5, <1>6
<1>8. Val(mtimecmp'[0]) = Val(t) + Val(arg)  BY <1>2, <1>3, <1>4, <1>7, PlusFits
<1> QED  BY <1>5, <1>6, <1>8

\* As long as nobody sets MTIME and a compare register has one owner, the
\* interrupt comes clock_offset after a moment of the call.
THEOREM InterruptAtOffsetCorrect == TimerNotSet /\ OneOwner => (Spec => InterruptAtOffset)
<1> SUFFICES ASSUME TimerNotSet, OneOwner PROVE Spec => InterruptAtOffset
  OBVIOUS
<1> DEFINE AtOffset ==
  \A c \in Callers :
    LET offset == Val(call[c].arg) IN
    /\ SetCmpHigh(c)
    /\ call[c].fn = "mtimer_set_raw_time_cmp"
    /\ Val(mtime) + offset < Radix * Radix
    => /\ Val(began[c]) + offset <= Val(mtimecmp'[0])
       /\ Val(mtimecmp'[0]) <= Val(mtime) + offset
<1>1. Init => RawInv /\ CmpInv /\ OffsetInv
  BY CmpInit DEF Init, RawInv, OffsetInv, Offsetting, SettingCmp, Idle, At
<1>2. TypeOK /\ RawInv /\ CmpInv /\ OffsetInv /\ [Next]_vars => (RawInv /\ CmpInv /\ OffsetInv)'
  BY OwnerSets, RawInductive, CmpInductive, OffsetInductive
<1>3. TypeOK /\ OffsetInv /\ CmpInv => [AtOffset]_vars
  BY InstallsAtOffset
<1>4. Spec => [][AtOffset]_vars
  <2> HIDE DEF AtOffset
  <2> QED  BY <1>1, <1>2, <1>3, TypeCorrect, PTL DEF Spec
<1> QED  BY <1>4 DEF InterruptAtOffset

-------------------------------------------------------------------------------
(* clint_get_timer.  The low word read first is the low word of a time     *)
(* since the call began.                                                   *)

Reading(c, fn) == At(c, "get_high") /\ call[c].fn = fn

ReadInv ==
  \A c \in Callers : Reading(c, "clint_get_timer") =>
    \E t \in Dword : SeenSince(c, t) /\ t[0] = val[c][0]

\* Whoever is between the two loads was there before, or has just done the first.
LEMMA ReadEntered ==
  ASSUME TypeOK, [Next]_vars, NEW c \in Callers, At(c, "get_high")'
  PROVE  \/ At(c, "get_high") /\ UNCHANGED <<call[c], val[c], began[c]>>
         \/ GetLow(c)
<1> USE DEF TypeOK, Idle, At, Goto, Keep, KeepWord, Return
<1>1. CASE Tick \/ UNCHANGED vars
  BY <1>1 DEF Tick, vars, locals, history
<1>2. ASSUME NEW b \in Callers, b # c, Begin(b) \/ Step(b)
      PROVE  UNCHANGED <<pc[c], call[c], val[c], began[c]>>
  BY <1>2 DEF Begin, Step, SetTimerLow, SetTimerHigh, GetLow, GetHigh, MaskCmp, SetCmpLow,
     SetCmpHigh, SetMsip, GetMsip, RawHigh, RawLow, RawRetry, RawReturn, history
<1>3. CASE Begin(c)
  <2>1. PICK x \in Calls : pc' = [pc EXCEPT ![c] = Entry(x.fn)]
    BY <1>3 DEF Begin
  <2>2. Entry(x.fn) # "get_high"  BY DriverAssumption DEF Call, Functions, Entry
  <2> QED  BY <2>1, <2>2
<1>4. CASE \/ SetTimerLow(c) \/ SetTimerHigh(c) \/ GetHigh(c)
           \/ MaskCmp(c) \/ SetCmpLow(c) \/ SetCmpHigh(c) \/ SetMsip(c) \/ GetMsip(c)
           \/ RawHigh(c) \/ RawLow(c) \/ RawRetry(c) \/ RawReturn(c)
  <2>1. pc'[c] # "get_high"
    BY <1>4 DEF SetTimerLow, SetTimerHigh, GetHigh, MaskCmp, SetCmpLow, SetCmpHigh,
       SetMsip, GetMsip, RawHigh, RawLow, RawRetry, RawReturn
  <2> QED  BY <2>1
<1> QED  BY <1>1, <1>2, <1>3, <1>4 DEF Next, Step

LEMMA ReadInductive ==
  ASSUME TypeOK, RawInv, ReadInv, [Next]_vars
  PROVE  ReadInv'
<1> SUFFICES ASSUME NEW c \in Callers, At(c, "get_high")', call'[c].fn = "clint_get_timer"
             PROVE  \E t \in Dword : /\ Geq(t, began'[c]) /\ Geq(mtime', t)
                                     /\ t[0] = val'[c][0]
  BY DEF ReadInv, Reading, SeenSince
<1>1. Geq(mtime', mtime) /\ mtime' \in Dword /\ mtime \in Dword
  BY TimeGrows DEF TypeOK
<1>2. CASE At(c, "get_high") /\ UNCHANGED <<call[c], val[c], began[c]>>
  <2>1. PICK t \in Dword : SeenSince(c, t) /\ t[0] = val[c][0]
    BY <1>2 DEF ReadInv, Reading
  <2>2. Geq(t, began'[c]) /\ Geq(mtime', t)
    BY <1>1, <1>2, <2>1, GeqOrder DEF SeenSince
  <2> QED  BY <1>2, <2>1, <2>2
<1>3. CASE GetLow(c)
  <2>1. UNCHANGED <<mtime, call, began>>  BY <1>3 DEF GetLow, device, history
  <2>2. val'[c][0] = mtime[0]
    BY <1>3, <2>1 DEF GetLow, KeepWord, ReadsFrom, TypeOK, Dword, Halves
  <2>3. Geq(mtime, began'[c])  BY <1>3, <2>1 DEF GetLow, RawInv, At, Idle
  <2> QED  BY <1>1, <2>1, <2>2, <2>3
<1> QED  BY <1>2, <1>3, ReadEntered

\* With a low word of a time in the past, and the high word of now, the time
\* returned is not before the call began and less than a low word ahead.
LEMMA ReadIsClose ==
  ASSUME TypeOK, ReadInv, NEW c \in Callers, GetHigh(c), call[c].fn = "clint_get_timer"
  PROVE  Geq(ReadTime(c), began[c]) /\ Val(ReadTime(c)) < Val(mtime) + Radix
<1>1. PICK t \in Dword : SeenSince(c, t) /\ t[0] = val[c][0]
  BY DEF GetHigh, ReadInv, Reading
<1> DEFINE r == ReadTime(c)
<1>2. mtime \in Dword /\ began[c] \in Dword /\ val[c] \in Dword  BY DEF TypeOK
<1>3. r = [val[c] EXCEPT ![1] = mtime[1]] /\ mtime[1] \in Word
  BY <1>2, DwordWords DEF ReadTime, ReadsFrom
<1>4. r[0] = t[0] /\ r[1] = mtime[1] /\ r \in Dword
  BY <1>1, <1>2, <1>3, StoreWords, DwordOps DEF Dword
<1> HIDE DEF r
<1>5. t[1] <= r[1]
  BY <1>1, <1>2, <1>4, WordRange DEF SeenSince, Geq
<1>6. Geq(r, t)
  BY <1>4, <1>5, WordRange DEF Geq
<1>7. Geq(r, began[c])
  BY <1>1, <1>2, <1>4, <1>6, GeqOrder DEF SeenSince
<1>8. Val(r) < Val(mtime) + Radix
  <2> DEFINE high == mtime[1] * Radix
  <2>1. high \in Nat /\ r[0] < Radix /\ r[0] \in Nat /\ mtime[0] \in Nat /\ Radix \in Nat
    BY <1>2, <1>4, WordRange, RadixAssumption
  <2>2. Val(r) = high + r[0] /\ Val(mtime) = high + mtime[0]
    BY <1>4 DEF Val
  <2> HIDE DEF high
  <2> QED  BY <2>1, <2>2
<1> QED  BY <1>7, <1>8 DEF r

\* As long as no call sets MTIME, what clint_get_timer gives up by not looking
\* at the high word again is less than a low word: it never returns a time
\* before its call, and is never further ahead than that.
THEOREM TimerReadCloseCorrect == TimerNotSet => (Spec => TimerReadIsClose)
<1> SUFFICES ASSUME TimerNotSet PROVE Spec => TimerReadIsClose
  OBVIOUS
<1> DEFINE Close == \A c \in Callers : GetHigh(c) /\ call[c].fn = "clint_get_timer" =>
                      Geq(ReadTime(c), began[c]) /\ Val(ReadTime(c)) < Val(mtime) + Radix
<1>1. Init => RawInv /\ ReadInv  BY DEF Init, RawInv, ReadInv, Reading, Idle, At
<1>2. TypeOK /\ RawInv /\ ReadInv /\ [Next]_vars => (RawInv /\ ReadInv)'
  BY RawInductive, ReadInductive
<1>3. TypeOK /\ ReadInv => [Close]_vars
  BY ReadIsClose
<1>4. Spec => [][Close]_vars
  <2> HIDE DEF Close
  <2> QED  BY <1>1, <1>2, <1>3, TypeCorrect, PTL DEF Spec
<1> QED  BY <1>4 DEF TimerReadIsClose

-------------------------------------------------------------------------------
(* The driver uses the registers as the register map has them.             *)

\* Who is storing to MTIME or to an MSIP bit was called to do so, and the mtimer
\* functions stay within their own statements.
FnInv ==
  \A c \in Callers :
    /\ pc[c] \in {"set_timer_low", "set_timer_high"} => call[c].fn = "clint_set_timer"
    /\ At(c, "set_msip") => call[c].fn = "clint_set_msip"
    /\ ~Idle(c) /\ call[c].fn \in {"mtimer_get_raw_time", "mtimer_set_raw_time_cmp"} =>
         pc[c] \in {"raw_high", "raw_low", "raw_check"} \/ Offsetting(c)

LEMMA FnInit == Init => FnInv
BY DEF Init, FnInv, At, Idle

LEMMA FnInductive ==
  ASSUME TypeOK, FnInv, [Next]_vars
  PROVE  FnInv'
<1> DEFINE setting == {"set_cmp_mask", "set_cmp_low", "set_cmp_high"}
           raw == {"raw_high", "raw_low", "raw_check"}
           fits(p, fn) ==
             /\ p \in {"set_timer_low", "set_timer_high"} => fn = "clint_set_timer"
             /\ p = "set_msip" => fn = "clint_set_msip"
             /\ p # "idle" /\ fn \in {"mtimer_get_raw_time", "mtimer_set_raw_time_cmp"} =>
                  p \in raw \/ (p \in setting /\ fn = "mtimer_set_raw_time_cmp")
<1> USE DEF TypeOK, Idle, At, Goto, Return, Offsetting, SettingCmp
<1>0. /\ FnInv <=> \A c \in Callers : fits(pc[c], call[c].fn)
      /\ FnInv' <=> \A c \in Callers : fits(pc'[c], call'[c].fn)
  BY DEF FnInv
<1> SUFFICES ASSUME NEW c \in Callers PROVE fits(pc'[c], call'[c].fn)
  BY <1>0
<1>1. CASE UNCHANGED <<pc[c], call[c]>>
  BY <1>0, <1>1
<1>2. CASE Tick \/ UNCHANGED vars
  BY <1>1, <1>2 DEF Tick, vars, locals
<1>3. ASSUME NEW b \in Callers, b # c, Begin(b) \/ Step(b)
      PROVE  UNCHANGED <<pc[c], call[c]>>
  BY <1>3 DEF Begin, Step, SetTimerLow, SetTimerHigh, GetLow, GetHigh, MaskCmp, SetCmpLow,
     SetCmpHigh, SetMsip, GetMsip, RawHigh, RawLow, RawRetry, RawReturn
<1>4. CASE Begin(c)
  <2>1. PICK x \in Calls : call' = [call EXCEPT ![c] = x] /\ pc' = [pc EXCEPT ![c] = Entry(x.fn)]
    BY <1>4 DEF Begin
  <2>2. x.fn \in Functions  BY DriverAssumption DEF Call
  <2>3. fits(Entry(x.fn), x.fn)  BY <2>2 DEF Entry, Functions
  <2> QED  BY <2>1, <2>3
<1>5. CASE \/ SetTimerLow(c) \/ GetLow(c) \/ MaskCmp(c) \/ SetCmpLow(c)
           \/ RawHigh(c) \/ RawLow(c) \/ RawRetry(c)
  <2>1. fits(pc[c], call[c].fn) /\ call'[c] = call[c]
    BY <1>0, <1>5 DEF SetTimerLow, GetLow, MaskCmp, SetCmpLow, RawHigh, RawLow, RawRetry
  <2>2. fits(pc'[c], call[c].fn)
    BY <1>5, <2>1 DEF SetTimerLow, GetLow, MaskCmp, SetCmpLow, RawHigh, RawLow, RawRetry
  <2> QED  BY <2>1, <2>2
<1>6. CASE SetTimerHigh(c) \/ GetHigh(c) \/ SetCmpHigh(c) \/ SetMsip(c) \/ GetMsip(c)
  BY <1>6 DEF SetTimerHigh, GetHigh, SetCmpHigh, SetMsip, GetMsip
<1>7. CASE RawReturn(c)
  BY <1>7 DEF RawReturn
<1> QED  BY <1>1, <1>2, <1>3, <1>4, <1>5, <1>6, <1>7 DEF Next, Step

Obeys(o) == /\ o.reg = "none" \/ \E c \in Callers : MadeBy(c, o)
            /\ RM(o)!TimeStep /\ RM(o)!CmpStep /\ RM(o)!SoftStep

\* The register map's view of a store.
LEMMA StoreSets ==
  ASSUME NEW o, NEW d \in Dword, NEW w \in Halves, NEW v \in Word
  PROVE  RM(o)!SetsHalf(Val(d), w, v, Val([d EXCEPT ![w] = v]))
BY StoreHalf DEF RM!SetsHalf, RM!Word, Word

\* A step that stores nothing obeys the map as an access of no register.
LEMMA QuietObeys ==
  ASSUME TypeOK, UNCHANGED <<mtimecmp, msip>>, mtime' = mtime \/ Tick
  PROVE  \E o \in Accesses : Obeys(o)
<1> DEFINE o == [reg |-> "none", hart |-> 0, half |-> 0, val |-> 0]
<1>1. o \in Accesses
  BY DriverAssumption, RadixAssumption DEF Accesses, Halves, Word
<1>2. o.reg = "none"  OBVIOUS
<1> HIDE DEF o
<1>3. Val(mtime') \in {Val(mtime), IF Val(mtime) = Radix * Radix - 1 THEN 0 ELSE Val(mtime) + 1}
  BY IncrIsNumeric DEF Tick, TypeOK
<1>4. RM(o)!TimeStep  BY <1>2, <1>3 DEF RM!TimeStep, RM!Top
<1>5. RM(o)!CmpStep  BY <1>2 DEF RM!CmpStep
<1>6. RM(o)!SoftStep  BY <1>2 DEF RM!SoftStep
<1> QED  BY <1>1, <1>2, <1>4, <1>5, <1>6 DEF Obeys

\* A store to MTIME.
LEMMA TimeObeys ==
  ASSUME TypeOK, FnInv, NEW c \in Callers, SetTimerLow(c) \/ SetTimerHigh(c)
  PROVE  \E o \in Accesses : Obeys(o)
<1>1. PICK w \in Halves : mtime' = [mtime EXCEPT ![w] = val[c][w]]
  BY DEF SetTimerLow, SetTimerHigh, Halves
<1> DEFINE v == val[c][w]
<1>2. v \in Word /\ mtime \in Dword  BY DEF TypeOK, Dword
<1> HIDE DEF v
<1>3. [reg |-> "mtime", hart |-> 0, half |-> w, val |-> v] \in Accesses
  BY <1>2, DriverAssumption DEF Accesses
<1>4. PICK o \in Accesses : o.reg = "mtime" /\ o.half = w /\ o.val = v
  BY <1>3
<1>5. RM(o)!SetsHalf(Val(mtime), w, v, Val(mtime'))
  BY <1>1, <1>2, StoreSets DEF v
<1>6. RM(o)!TimeStep  BY <1>4, <1>5 DEF RM!TimeStep
<1>7. UNCHANGED <<mtimecmp, msip>>  BY DEF SetTimerLow, SetTimerHigh
<1>8. RM(o)!CmpStep  BY <1>4, <1>7 DEF RM!CmpStep
<1>9. RM(o)!SoftStep  BY <1>4, <1>7 DEF RM!SoftStep
<1>10. MadeBy(c, o)
  <2>1. pc[c] \in {"set_timer_low", "set_timer_high"} /\ pc'[c] # pc[c]
    BY DEF SetTimerLow, SetTimerHigh, At, Goto, Return, TypeOK
  <2>2. call[c].fn = "clint_set_timer"  BY <2>1 DEF FnInv
  <2> QED  BY <1>4, <2>1, <2>2 DEF MadeBy
<1>11. Obeys(o)  BY <1>6, <1>8, <1>9, <1>10 DEF Obeys
<1> QED  BY <1>11

\* A store to a compare register.
LEMMA CmpObeys ==
  ASSUME TypeOK, TypeOK', NEW c \in Callers, MaskCmp(c) \/ SetCmpLow(c) \/ SetCmpHigh(c)
  PROVE  \E o \in Accesses : Obeys(o)
<1>1. val[c][0] \in Word /\ val[c][1] \in Word /\ Radix - 1 \in Word /\ 0 \in Halves /\ 1 \in Halves
  BY DwordWords, RadixAssumption DEF TypeOK, Word, Halves
<1>2. PICK w \in Halves, v \in Word : StoreCmp(c, w, v)
  BY <1>1 DEF MaskCmp, SetCmpLow, SetCmpHigh
<1> DEFINE k == Target(c)
           d == [mtimecmp[k] EXCEPT ![w] = v]
           numbers == [j \in Harts |-> Val(mtimecmp[j])]
<1>3. SettingCmp(c) /\ ~Idle(c) /\ pc'[c] # pc[c]
  BY DEF MaskCmp, SetCmpLow, SetCmpHigh, At, Goto, Return, TypeOK, SettingCmp, Idle
<1>4. k \in Harts /\ SetsCmp(call[c])
  BY <1>3, TargetIsHart DEF TypeOK
<1>5. mtimecmp' = [mtimecmp EXCEPT ![k] = d] /\ mtimecmp[k] \in Dword
  BY <1>2, <1>4 DEF StoreCmp, TypeOK
<1>6. d \in Dword  BY <1>5 DEF Dword
<1> HIDE DEF k
<1>7. [reg |-> "mtimecmp", hart |-> k, half |-> w, val |-> v] \in Accesses
  BY <1>4 DEF Accesses
<1>8. PICK o \in Accesses : o.reg = "mtimecmp" /\ o.hart = k /\ o.half = w /\ o.val = v
  BY <1>7
<1>9. RM(o)!SetsHalf(numbers[k], w, v, Val(d))  BY <1>4, <1>5, StoreSets
<1> HIDE DEF d
<1>10. Val(d) \in 0 .. RM(o)!Top  BY <1>6, ValRange, RadixAssumption DEF RM!Top
<1>11. numbers' = [numbers EXCEPT ![k] = Val(d)]
  BY <1>4, <1>5 DEF TypeOK
<1>12. RM(o)!CmpStep
  <2> HIDE DEF numbers
  <2>1. \E new \in 0 .. RM(o)!Top : /\ RM(o)!SetsHalf(numbers[k], w, v, new)
                                    /\ numbers' = [numbers EXCEPT ![k] = new]
    BY <1>9, <1>10, <1>11, Zenon
  <2> QED  BY <1>8, <2>1 DEF RM!CmpStep, numbers
<1>13. UNCHANGED <<mtime, msip>>  BY DEF MaskCmp, SetCmpLow, SetCmpHigh
<1>14. RM(o)!TimeStep  BY <1>8, <1>13 DEF RM!TimeStep
<1>15. RM(o)!SoftStep  BY <1>8, <1>13 DEF RM!SoftStep
<1>16. MadeBy(c, o)  BY <1>3, <1>4, <1>8 DEF MadeBy, k
<1>17. Obeys(o)  BY <1>12, <1>14, <1>15, <1>16 DEF Obeys
<1> QED  BY <1>17

\* A store to an MSIP bit.
LEMMA MsipObeys ==
  ASSUME TypeOK, FnInv, NEW c \in Callers, SetMsip(c)
  PROVE  \E o \in Accesses : Obeys(o)
<1> DEFINE k == Target(c)  v == val[c][0]
           soft == {j \in Harts : msip[j] = 1}
<1>1. At(c, "set_msip") /\ ~Idle(c) /\ pc'[c] # pc[c]
  BY DEF SetMsip, At, Return, Goto, TypeOK, Idle
<1>2. k \in Harts /\ v \in Word
  BY <1>1, TargetIsHart, DwordWords DEF TypeOK
<1>3. msip' = [msip EXCEPT ![k] = v % 2]  BY DEF SetMsip
<1> HIDE DEF k, v
<1>4. [reg |-> "msip", hart |-> k, half |-> 0, val |-> v] \in Accesses
  BY <1>2 DEF Accesses, Halves
<1>5. PICK o \in Accesses : o.reg = "msip" /\ o.hart = k /\ o.val = v
  BY <1>4
<1>6. RM(o)!SoftStep
  <2>1. \A j \in Harts : msip'[j] = IF j = k THEN v % 2 ELSE msip[j]
    BY <1>2, <1>3 DEF TypeOK
  <2>2. soft' = IF v % 2 = 1 THEN soft \cup {k} ELSE soft \ {k}  BY <1>2, <2>1
  <2> HIDE DEF soft
  <2> QED  BY <1>5, <2>2 DEF RM!SoftStep, soft
<1>7. UNCHANGED <<mtime, mtimecmp>>  BY DEF SetMsip
<1>8. RM(o)!TimeStep  BY <1>5, <1>7 DEF RM!TimeStep
<1>9. RM(o)!CmpStep  BY <1>5, <1>7 DEF RM!CmpStep
<1>10. MadeBy(c, o)  BY <1>1, <1>5 DEF MadeBy, FnInv, k
<1>11. Obeys(o)  BY <1>6, <1>8, <1>9, <1>10 DEF Obeys
<1> QED  BY <1>11

\* Whatever is called, and however the callers interleave, every step is at most
\* one access of the register map, to a register that the caller's function is
\* about, and MTIME moves by itself only by counting.
THEOREM ObeysRegMapCorrect == Spec => ObeysRegMap
<1>1. Init => FnInv  BY FnInit
<1>2. TypeOK /\ FnInv /\ [Next]_vars => FnInv'  BY FnInductive
<1>3. TypeOK /\ TypeOK' /\ FnInv /\ [Next]_vars => [\E o \in Accesses : Obeys(o)]_vars
  <2> SUFFICES ASSUME TypeOK, TypeOK', FnInv, Next PROVE \E o \in Accesses : Obeys(o)
    OBVIOUS
  <2>1. CASE Tick  BY <2>1, QuietObeys DEF Tick
  <2>2. ASSUME NEW c \in Callers, Begin(c) \/ Step(c)
        PROVE  \E o \in Accesses : Obeys(o)
    <3>1. CASE SetTimerLow(c) \/ SetTimerHigh(c)  BY <3>1, TimeObeys
    <3>2. CASE MaskCmp(c) \/ SetCmpLow(c) \/ SetCmpHigh(c)  BY <3>2, CmpObeys
    <3>3. CASE SetMsip(c)  BY <3>3, MsipObeys
    <3>4. CASE \/ Begin(c) \/ GetLow(c) \/ GetHigh(c) \/ GetMsip(c)
               \/ RawHigh(c) \/ RawLow(c) \/ RawRetry(c) \/ RawReturn(c)
      <4>1. UNCHANGED <<mtime, mtimecmp, msip>>
        BY <3>4 DEF Begin, GetLow, GetHigh, GetMsip, RawHigh, RawLow, RawRetry, RawReturn, device
      <4> QED  BY <4>1, QuietObeys
    <3> QED  BY <2>2, <3>1, <3>2, <3>3, <3>4 DEF Step
  <2> QED  BY <2>1, <2>2 DEF Next
<1>4. Spec => [][\E o \in Accesses : Obeys(o)]_vars
  BY <1>1, <1>2, <1>3, TypeCorrect, PTL DEF Spec
<1> QED  BY <1>4 DEF ObeysRegMap, Obeys
===============================================================================
