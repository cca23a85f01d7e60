----------------------------- MODULE TimebaseProofs ---------------------------
(***************************************************************************)
(* MTIME keeps time: theorems about ClintTimebase for every clock          *)
(* frequency whose period the counter can hold.                            *)
(***************************************************************************)
EXTENDS ClintTimebase, ClintProofs

-------------------------------------------------------------------------------
\* n ticks since MTIME was set to origin: the whole number of periods that the
\* edges, the phase MTIME was set at and the present phase make.  MTIME shows
\* them, and has come round at most once.
Elapsed(n) ==
  /\ \E start \in 0 .. Period : since + start = Period * n + Phase
  /\ \/ Val(mtime) = Val(origin) + n
     \/ Val(mtime) = Val(origin) + n - Radix * Radix

TimeInv ==
  /\ origin \in Dword /\ since \in 0 .. MaxSince
  /\ counter < Period /\ (increment_timer_r => counter = 0)
  /\ arst_i => counter = 0 /\ ~increment_timer_r /\ since = 0 /\ origin = Zeros
  /\ \E n \in Nat : Elapsed(n)

\* The phase never passes a period.
LEMMA PhaseRange == TypeOK /\ TimeInv => Phase \in 0 .. Period
BY PeriodPositive DEF TypeOK, TimeInv, Phase

\* In the stretch that MaxSince allows MTIME does not come round to origin.
LEMMA TicksElapsed ==
  ASSUME NoLap, TypeOK, TimeInv, NEW n \in Nat, Elapsed(n)
  PROVE  n < Radix * Radix /\ Ticks = n
<1> DEFINE R == Radix * Radix  m == Val(mtime)  o == Val(origin)
<1>1. R \in Nat /\ Period \in Nat  BY RadixAssumption, PeriodPositive
<1>2. m \in Nat /\ m <= R - 1 /\ o \in Nat /\ o <= R - 1
  BY ValRange DEF TypeOK, TimeInv
<1>3. Phase \in Nat /\ since \in Nat /\ since <= MaxSince
  BY PhaseRange, PeriodPositive, TimebaseAssumption DEF TimeInv
<1>4. Period * n \in Nat /\ Period * R \in Nat /\ (n >= R => Period * n >= Period * R)
  BY <1>1, Multiples
<1>5. MaxSince + Period < Period * R  BY DEF NoLap
<1>6. m = o + n \/ m = o + n - R  BY DEF Elapsed
<1>7. PICK start \in 0 .. Period : since + start = Period * n + Phase  BY DEF Elapsed
<1> DEFINE x == Period * n  y == Period * R
<1>8. n >= R => x >= y  BY <1>4
<1>9. since + start = x + Phase /\ MaxSince + Period < y /\ x \in Nat /\ y \in Nat
  BY <1>4, <1>5, <1>7
<1>10. MaxSince \in Nat  BY TimebaseAssumption
<1> HIDE DEF R, m, o, x, y
<1>11. n < R  BY <1>1, <1>3, <1>8, <1>9, <1>10
<1>12. (IF m >= o THEN m - o ELSE m + R - o) = n  BY <1>1, <1>2, <1>6, <1>11
<1> QED  BY <1>11, <1>12 DEF R, m, o, Ticks

\* One edge of an enabled clock moves the phase by one, and takes a period off
\* when MTIME is about to count it.
LEMMA PhaseStep ==
  ASSUME CounterFits, AlwaysEnabled, TypeOK, TimeInv, Edge
  PROVE  /\ counter' \in 0 .. Period - 1 /\ (increment_timer_r' => counter' = 0)
         /\ Phase' = counter + 1
         /\ Phase' = Phase + 1 - (IF increment_timer_r THEN Period ELSE 0)
         /\ Phase' \in 0 .. Period
<1>1. cke_i = TRUE  BY DEF AlwaysEnabled, TypeOK
<1>2. counter \in Nat /\ counter < Period  BY DEF TypeOK, TimeInv
<1>3. counter' = IF counter < Period - 1 THEN (counter + 1) % CounterSpan ELSE 0
  BY <1>1, Zenon DEF Edge, CounterNext, counter_e
<1>4. increment_timer_r' <=> counter = Period - 1
  BY <1>1, Zenon DEF Edge, TickNext, increment_timer
<1>5. counter < Period - 1 => (counter + 1) % CounterSpan = counter + 1
  BY <1>2, PeriodPositive DEF CounterFits, CounterSpan
<1>6. counter' = IF counter < Period - 1 THEN counter + 1 ELSE 0
  BY <1>3, <1>5
<1>7. Phase' = counter' + (IF increment_timer_r' THEN Period ELSE 0)  BY DEF Phase
<1>8. increment_timer_r => counter = 0  BY DEF TimeInv
<1>9. CASE counter < Period - 1
  <2>0. counter # Period - 1 /\ counter' = counter + 1
    BY <1>2, <1>6, <1>9, PeriodPositive
  <2>1. ~increment_timer_r' /\ counter' = counter + 1  BY <1>4, <2>0, Zenon
  <2>2. Phase' = counter + 1  BY <1>2, <1>7, <2>1
  <2> QED  BY <1>2, <1>8, <1>9, <2>1, <2>2, PeriodPositive DEF Phase
<1>10. CASE counter = Period - 1
  <2>0. counter' = 0  BY <1>6, <1>10, PeriodPositive
  <2>1. increment_timer_r' /\ counter' = 0  BY <1>4, <1>10, <2>0, Zenon
  <2>2. Phase' = counter + 1  BY <1>7, <1>10, <2>1, PeriodPositive
  <2> QED  BY <1>8, <1>10, <2>1, <2>2, PeriodPositive DEF Phase
<1> QED  BY <1>2, <1>9, <1>10, PeriodPositive

\* An edge that does not set MTIME adds one edge, and the tick if there is one.
LEMMA ElapsedStep ==
  ASSUME CounterFits, AlwaysEnabled, NoLap, TypeOK, TimeInv, Edge, ~WritesMtime,
         since' = since + 1, UNCHANGED origin
  PROVE  \E n \in Nat : Elapsed(n)'
<1>1. PICK n \in Nat : Elapsed(n)  BY DEF TimeInv
<1>2. PICK start \in 0 .. Period : since + start = Period * n + Phase  BY <1>1 DEF Elapsed
<1>3. n < Radix * Radix  BY <1>1, TicksElapsed
<1>4. /\ Period \in Nat /\ Period * n \in Nat /\ Period * (n + 1) = Period * n + Period
      /\ Phase \in Nat /\ since \in Nat
  BY PeriodPositive, Multiples, PhaseRange DEF TimeInv
<1>5. CASE increment_timer_r
  <2>1. since' + start = Period * (n + 1) + Phase'
    BY <1>2, <1>4, <1>5, PhaseStep
  <2>2. mtime' = Incr(mtime) /\ mtime \in Dword /\ origin \in Dword
    BY <1>5 DEF Edge, MtimeNext, TypeOK, TimeInv
  <2> DEFINE R == Radix * Radix  m == Val(mtime)  o == Val(origin)
  <2>3. Val(mtime') = IF m = R - 1 THEN 0 ELSE m + 1  BY <2>2, IncrIsNumeric
  <2>4. m \in Nat /\ o \in Nat /\ m <= R - 1 /\ o <= R - 1 /\ R \in Nat
    BY <2>2, ValRange, RadixAssumption
  <2>5. m = o + n \/ m = o + n - R  BY <1>1 DEF Elapsed
  <2>6. n < R  BY <1>3
  <2>7. Val(mtime)' = Val(mtime') /\ Val(origin)' = o  BY DEF Val
  <2> HIDE DEF R, m, o
  <2>8. Val(mtime') = o + (n + 1) \/ Val(mtime') = o + (n + 1) - R
    BY <2>3, <2>4, <2>5, <2>6
  <2>9. Elapsed(n + 1)'  BY <2>1, <2>7, <2>8 DEF Elapsed, R, o
  <2> QED  BY <2>9
<1>6. CASE ~increment_timer_r
  <2>1. since' + start = Period * n + Phase'
    BY <1>2, <1>4, <1>6, PhaseStep
  <2>2. UNCHANGED mtime  BY <1>6 DEF Edge, MtimeNext
  <2>3. Val(mtime)' = Val(mtime) /\ Val(origin)' = Val(origin)  BY <2>2 DEF Val
  <2>4. Elapsed(n)'  BY <1>1, <2>1, <2>3 DEF Elapsed
  <2> QED  BY <2>4
<1> QED  BY <1>5, <1>6

\* When MTIME has just been set there is no tick and no edge to account for.
LEMMA ElapsedNone ==
  ASSUME mtime' \in Dword, origin' = mtime', since' = 0, Phase' \in 0 .. Period
  PROVE  \E n \in Nat : Elapsed(n)'
<1>1. Period * 0 = 0 /\ Phase' \in Nat  BY PeriodPositive
<1>2. since' + Phase' = Period * 0 + Phase'  BY <1>1
<1>3. Val(mtime)' = Val(mtime') /\ Val(origin)' = Val(mtime')  BY DEF Val
<1>4. Val(mtime') \in Nat  BY ValRange
<1>5. Val(mtime)' = Val(origin)' + 0  BY <1>3, <1>4
<1>6. Elapsed(0)'  BY <1>2, <1>5 DEF Elapsed
<1> QED  BY <1>6

LEMMA TimeInductive ==
  ASSUME CounterFits, AlwaysEnabled, NoLap, TypeOK, TypeOK', TimeInv, [TimebaseNext]_tvars
  PROVE  TimeInv'
<1> USE DEF TimeInv
<1>1. ASSUME Edge, WritesMtime, origin' = mtime', since' = 0 PROVE TimeInv'
  <2>1. ~arst_i' /\ mtime' \in Dword  BY <1>1 DEF Edge, TypeOK
  <2>2. 0 \in 0 .. MaxSince  BY TimebaseAssumption
  <2> QED  BY <1>1, <2>1, <2>2, PhaseStep, ElapsedNone, PeriodPositive
<1>2. ASSUME Edge, ~WritesMtime, since < MaxSince, since' = since + 1, UNCHANGED origin
      PROVE  TimeInv'
  <2>1. ~arst_i'  BY <1>2 DEF Edge
  <2>2. since' \in 0 .. MaxSince  BY <1>2, TimebaseAssumption
  <2> QED  BY <1>2, <2>1, <2>2, PhaseStep, ElapsedStep, PeriodPositive
<1>3. ASSUME ResetEdge \/ AssertReset \/ ReleaseReset, origin' = Zeros, since' = 0
      PROVE  TimeInv'
  <2>1. mtime' = Zeros /\ counter' = 0 /\ ~increment_timer_r'
    BY <1>3 DEF ResetEdge, AssertReset, ReleaseReset, regs, TypeOK
  <2>2. Phase' \in 0 .. Period  BY <2>1, PeriodPositive DEF Phase
  <2>3. 0 \in 0 .. MaxSince /\ 0 < Period  BY TimebaseAssumption, PeriodPositive
  <2> QED  BY <1>3, <2>1, <2>2, <2>3, ElapsedNone, DwordOps
<1>4. ASSUME UNCHANGED tvars PROVE TimeInv'
  BY <1>4 DEF tvars, vars, regs, Elapsed, Phase
<1> QED  BY <1>1, <1>2, <1>3, <1>4 DEF TimebaseNext, TimebaseEdge, TimebaseReset

-------------------------------------------------------------------------------
LEMMA TimeInit == TimebaseInit => TimeInv
<1> SUFFICES ASSUME TimebaseInit PROVE TimeInv
  OBVIOUS
<1>1. /\ mtime = Zeros /\ origin = Zeros /\ since = 0 /\ counter = 0
      /\ increment_timer_r = FALSE
  BY DEF TimebaseInit, Init
<1>2. Phase = 0  BY <1>1 DEF Phase
<1>3. since + 0 = Period * 0 + Phase  BY <1>1, <1>2, PeriodPositive
<1>4. Val(mtime) = Val(origin) + 0  BY <1>1, ValRange, DwordOps
<1>5. Elapsed(0)  BY <1>3, <1>4, PeriodPositive DEF Elapsed
<1>6. 0 \in 0 .. MaxSince /\ 0 < Period  BY TimebaseAssumption, PeriodPositive
<1> QED  BY <1>1, <1>5, <1>6, DwordOps DEF TimeInv

\* A clock with its history variables is the core.
LEMMA TimebaseTypeCorrect == TimebaseSpec => []TypeOK
<1>1. TimebaseInit => TypeOK
  BY ResetTyped DEF TimebaseInit, Init, TypeOK
<1>2. TypeOK /\ [TimebaseNext]_tvars => TypeOK'
  <2>1. [TimebaseNext]_tvars => [Next]_vars
    BY DEF TimebaseNext, TimebaseEdge, TimebaseReset, tvars, Next
  <2> QED  BY <2>1, TypeInductive
<1> QED  BY <1>1, <1>2, PTL DEF TimebaseSpec

\* The invariant gives the two bounds and the exact account.
LEMMA TimeInvKeepsTime ==
  ASSUME NoLap, TypeOK, TimeInv
  PROVE  CountsEvery10us /\ PhaseAccountsForEdges
<1>1. PICK n \in Nat : Elapsed(n)  BY DEF TimeInv
<1>2. Ticks = n  BY <1>1, TicksElapsed
<1>3. PICK start \in 0 .. Period : since + start = Period * n + Phase  BY <1>1 DEF Elapsed
<1>4. Period \in Nat /\ Period * n \in Nat /\ since \in Nat /\ Phase \in 0 .. Period
  BY PeriodPositive, Multiples, PhaseRange DEF TimeInv
<1>5. CountsEvery10us  BY <1>2, <1>3, <1>4 DEF CountsEvery10us, NeverAhead
<1>6. PhaseAccountsForEdges  BY <1>2, <1>3 DEF PhaseAccountsForEdges, TimeInv
<1> QED  BY <1>5, <1>6

LEMMA TimeInvCorrect ==
  CounterFits /\ AlwaysEnabled /\ NoLap => (TimebaseSpec => [](TypeOK /\ TimeInv))
<1> SUFFICES ASSUME CounterFits, AlwaysEnabled, NoLap
             PROVE  TimebaseSpec => [](TypeOK /\ TimeInv)
  OBVIOUS
<1>1. TypeOK /\ TypeOK' /\ TimeInv /\ [TimebaseNext]_tvars => TimeInv'
  BY TimeInductive
<1> QED  BY <1>1, TimeInit, TimebaseTypeCorrect, PTL DEF TimebaseSpec

\* Every edge since MTIME was set is accounted for by whole periods counted
\* and the phase of the tick generator, for every frequency whose period the
\* 10-bit counter can hold.
THEOREM PhaseCorrect ==
  CounterFits /\ AlwaysEnabled /\ NoLap => (TimebaseSpec => []PhaseAccountsForEdges)
<1> SUFFICES ASSUME CounterFits, AlwaysEnabled, NoLap
             PROVE  TimebaseSpec => []PhaseAccountsForEdges
  OBVIOUS
<1>1. TypeOK /\ TimeInv => PhaseAccountsForEdges  BY TimeInvKeepsTime
<1>2. TimebaseSpec => [](TypeOK /\ TimeInv)  BY TimeInvCorrect
<1> QED  BY <1>1, <1>2, PTL

\* MTIME counts every 10us, to within one period however long it is left alone.
THEOREM TimebaseCorrect ==
  CounterFits /\ AlwaysEnabled /\ NoLap => (TimebaseSpec => []CountsEvery10us)
<1> SUFFICES ASSUME CounterFits, AlwaysEnabled, NoLap
             PROVE  TimebaseSpec => []CountsEvery10us
  OBVIOUS
<1>1. TypeOK /\ TimeInv => CountsEvery10us  BY TimeInvKeepsTime
<1>2. TimebaseSpec => [](TypeOK /\ TimeInv)  BY TimeInvCorrect
<1> QED  BY <1>1, <1>2, PTL

\* The timer interrupt is pending one period early at most and never late.
THEOREM InTimeCorrect ==
  CounterFits /\ AlwaysEnabled /\ NoLap => (TimebaseSpec => []DeadlineInTime)
<1> SUFFICES ASSUME CounterFits, AlwaysEnabled, NoLap
             PROVE  TimebaseSpec => []DeadlineInTime
  OBVIOUS
<1>1. TypeOK /\ TimeInv => DeadlineInTime
  <2> SUFFICES ASSUME TypeOK, TimeInv, NEW h \in Harts,
                      Val(origin) <= Val(mtimecmp[h]), Val(origin) <= Val(mtime)
               PROVE  IF mtip_o(h) THEN Period * (Val(mtimecmp[h]) - Val(origin)) <= since + Period
                      ELSE arst_i \/ since <= Period * (Val(mtimecmp[h]) - Val(origin))
    BY DEF DeadlineInTime
  <2> DEFINE o == Val(origin)  d == Val(mtimecmp[h])  m == Val(mtime)
             ahead == d - o  ticks == m - o
  <2>1. o \in Nat /\ d \in Nat /\ m \in Nat /\ Period \in Nat /\ since \in Nat
    BY ValRange, PeriodPositive, TimebaseAssumption DEF TypeOK, TimeInv
  <2>2. ahead \in Nat /\ ticks \in Nat /\ Ticks = ticks  BY <2>1 DEF Ticks
  <2>3. Period * ticks <= since + Period /\ since <= Period * ticks + Period
    BY <2>2, TimeInvKeepsTime DEF CountsEvery10us, NeverAhead
  <2>4. Geq(mtime, mtimecmp[h]) <=> m >= d  BY GeqIsNumeric DEF TypeOK
  <2>5. /\ Period * ticks \in Nat /\ Period * ahead \in Nat
        /\ Period * (ticks + 1) = Period * ticks + Period
        /\ (ticks >= ahead => Period * ticks >= Period * ahead)
        /\ (ahead >= ticks + 1 => Period * ahead >= Period * (ticks + 1))
    BY <2>1, <2>2, Multiples
  <2>6. m >= d => ticks >= ahead  BY <2>1
  <2>7. ~(m >= d) => ahead >= ticks + 1  BY <2>1
  <2> HIDE DEF o, d, m, ahead, ticks
  <2>8. m >= d => Period * ahead <= since + Period  BY <2>1, <2>2, <2>3, <2>5, <2>6
  <2>9. ~(m >= d) => since <= Period * ahead  BY <2>1, <2>2, <2>3, <2>5, <2>7
  <2> QED  BY <2>4, <2>8, <2>9 DEF mtip_o, o, d, m, ahead
<1>2. TimebaseSpec => [](TypeOK /\ TimeInv)  BY TimeInvCorrect
<1> QED  BY <1>1, <1>2, PTL
===============================================================================
