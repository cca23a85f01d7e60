----------------------------- MODULE ClintTimebase ----------------------------
(***************************************************************************)
(* MTIME as a clock.  Two history variables remember the last time MTIME   *)
(* was given a value, by reset or by a bus write: the value, and how many  *)
(* clock edges have passed since.  MaxSince bounds that stretch.           *)
(***************************************************************************)
EXTENDS Clint

CONSTANT MaxSince

ASSUME TimebaseAssumption == MaxSince \in Nat

VARIABLES
  origin,  \* what MTIME was last set to
  since    \* clk_i edges since then

tvars == <<vars, origin, since>>

TimebaseInit == Init /\ origin = Zeros /\ since = 0

TimebaseEdge ==
  /\ Edge
  /\ IF WritesMtime THEN origin' = mtime' /\ since' = 0
     ELSE since < MaxSince /\ since' = since + 1 /\ UNCHANGED origin

TimebaseReset ==
  /\ ResetEdge \/ AssertReset \/ ReleaseReset
  /\ origin' = Zeros /\ since' = 0

TimebaseNext == TimebaseEdge \/ TimebaseReset

TimebaseSpec == TimebaseInit /\ [][TimebaseNext]_tvars

-------------------------------------------------------------------------------
\* The conditions under which MTIME keeps time: the counter can hold the
\* period, the clock is not disabled, and MTIME does not come round to origin.
CounterFits   == Period <= CounterSpan
AlwaysEnabled == CkeLevels = {TRUE}
NoLap         == MaxSince + Period < Period * (Radix * Radix)

\* How far MTIME has come from origin; it may have wrapped once.
Ticks == IF Val(mtime) >= Val(origin) THEN Val(mtime) - Val(origin)
         ELSE Val(mtime) + Radix * Radix - Val(origin)

\* "Increment timer every 10uS": Period edges of clk_i are 10us.  MTIME never
\* counts more of them than have passed, to within one period.
NeverAhead == Period * Ticks <= since + Period

\* However long MTIME is left alone, it has counted the elapsed time to within
\* one period either way.  The error does not accumulate.
CountsEvery10us == NeverAhead /\ since <= Period * Ticks + Period

\* Where the tick generator stands inside a period.
Phase == counter + (IF increment_timer_r THEN Period ELSE 0)

\* The edges since MTIME was set, plus the phase it was set at, are exactly
\* the whole periods counted and the present phase.
PhaseAccountsForEdges ==
  /\ counter < Period
  /\ increment_timer_r => counter = 0
  /\ \E start \in 0 .. Period : since + start = Period * Ticks + Phase

\* The timer interrupt in time, not in ticks: a deadline so many 10us after the
\* value MTIME was set to is seen on the pin one period early at most, by the phase
\* MTIME was set at, and never late, unless MTIME has wrapped in between.
DeadlineInTime ==
  \A h \in Harts :
    LET ahead == Val(mtimecmp[h]) - Val(origin) IN
    Val(origin) <= Val(mtimecmp[h]) /\ Val(origin) <= Val(mtime) =>
      IF mtip_o(h) THEN Period * ahead <= since + Period
                   ELSE arst_i \/ since <= Period * ahead
===============================================================================
