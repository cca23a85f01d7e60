------------------------------ MODULE DriverRaces -----------------------------
(***************************************************************************)
(* Two functions of iob_clint.c that neither retry nor mask: what is left  *)
(* of a time set in two stores while MTIME ticks, and of a deadline read   *)
(* in two accesses while another caller replaces it.  Two history          *)
(* variables watch the steps of the driver and change none of them.        *)
(***************************************************************************)
EXTENDS DriverProperties

VARIABLES
  stored,  \* what MTIME was after the first store of a clint_set_timer
  floor    \* the deadline a clint_get_timercmp reads as it was when the call
           \* began, or Zeros once it has moved to an earlier time

rvars == <<vars, stored, floor>>

ReadingCmp(c) == call[c].fn = "clint_get_timercmp"

\* The step moves the deadline that c is reading to an earlier time.
MovesBack(c) == ~Geq(deadline'[Target(c)], deadline[Target(c)])

Watch ==
  /\ stored' = [c \in Callers |->
       IF SetTimerLow(c) THEN mtime' ELSE IF At(c, "set_timer_high")' THEN stored[c] ELSE Zeros]
  /\ floor' = [c \in Callers |->
       IF ~ReadingCmp(c)' THEN Zeros
       ELSE IF Idle(c) THEN deadline[Target(c)']
       ELSE IF MovesBack(c) THEN Zeros ELSE floor[c]]

RaceInit ==
  Init /\ stored = [c \in Callers |-> Zeros] /\ floor = [c \in Callers |-> Zeros]

\* A step of the driver, watched.
RaceNext ==
  \/ Tick /\ Watch
  \/ \E c \in Callers :
       \/ Begin(c) /\ Watch
       \/ SetTimerLow(c) /\ Watch
       \/ SetTimerHigh(c) /\ Watch
       \/ GetLow(c) /\ Watch
       \/ GetHigh(c) /\ Watch
       \/ MaskCmp(c) /\ Watch
       \/ SetCmpLow(c) /\ Watch
       \/ SetCmpHigh(c) /\ Watch
       \/ SetMsip(c) /\ Watch
       \/ GetMsip(c) /\ Watch
       \/ RawHigh(c) /\ Watch
       \/ RawLow(c) /\ Watch
       \/ RawRetry(c) /\ Watch
       \/ RawReturn(c) /\ Watch

RaceSpec == RaceInit /\ [][RaceNext]_rvars

-------------------------------------------------------------------------------
\* Nobody but c sets MTIME.
OnlyTimeSetter(c) == \A x \in Calls : x.fn = "clint_set_timer" => x.caller = c

\* clint_set_timer stores the low word first and does not stop the clock.  When
\* it returns MTIME is the time asked for and the ticks since the first store,
\* exactly unless the low word has carried meanwhile; it is never ahead, and
\* what a carry loses is one carry, if the call does not last as long as the
\* low word takes to count round.
TimerSetIsClose ==
  [][\A c \in Callers :
       SetTimerHigh(c) /\ OnlyTimeSetter(c) =>
         LET meant == Val(val[c]) + (Val(mtime) - Val(stored[c])) IN
         /\ Val(mtime') <= meant
         /\ mtime[1] = stored[c][1] => Val(mtime') = meant
         /\ Val(mtime) < Val(stored[c]) + Radix => meant <= Val(mtime') + Radix]_vars

\* clint_get_timercmp joins two words of a register that another caller replaces
\* with three stores, any number of times, between the two reads.  If the
\* deadline only moves to later times meanwhile, the one returned is no earlier
\* than it was when the call began, unless that was in the range of the dummy
\* high word.  One caller sets each hart's deadline.
DeadlineReadNotEarlier ==
  [][\A c \in Callers :
       GetHigh(c) /\ ReadingCmp(c) /\ OneOwner /\ floor[c][1] # Radix - 1 =>
         Geq(ReadTime(c), floor[c])]_vars
===============================================================================
