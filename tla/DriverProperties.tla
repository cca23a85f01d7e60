---------------------------- MODULE DriverProperties --------------------------
(***************************************************************************)
(* What callers of the driver may rely on, and on what conditions.         *)
(***************************************************************************)
EXTENDS ClintDriver

\* The conditions: no call sets MTIME; one caller only sets the compare
\* register of a hart.
TimerNotSet == \A x \in Calls : x.fn # "clint_set_timer"

SetsCmp(x) == x.fn \in {"clint_set_timercmp", "mtimer_set_raw_time_cmp"}

OneOwner == \A x, y \in Calls :
              SetsCmp(x) /\ SetsCmp(y) /\ HartOf(x) = HartOf(y) => x.caller = y.caller

-------------------------------------------------------------------------------
SettingCmp(c) == pc[c] \in {"set_cmp_mask", "set_cmp_low", "set_cmp_high"}

\* Every variable holds a value its declaration allows, and a caller is only
\* ever inside the function it called.
TypeOK ==
  /\ mtime \in Dword /\ mtimecmp \in [Harts -> Dword] /\ msip \in [Harts -> {0, 1}]
  /\ pc \in [Callers -> {"idle", "set_timer_low", "set_timer_high", "get_low", "get_high",
                         "set_cmp_mask", "set_cmp_low", "set_cmp_high",
                         "set_msip", "get_msip", "raw_high", "raw_low", "raw_check"}]
  /\ call \in [Callers -> Calls \cup {Nothing}]
  /\ val \in [Callers -> Dword]
  /\ began \in [Callers -> Dword] /\ deadline \in [Harts -> Dword]
  /\ \A c \in Callers :
       /\ ~Idle(c) => call[c] \in Calls /\ call[c].caller = c
       /\ SettingCmp(c) => SetsCmp(call[c])

\* mtimer_get_raw_time reads 64 bits in 32-bit accesses, yet the time it
\* returns was MTIME's at some moment of the call: not before the call began
\* and not in the future, however MTIME ticked and carried meanwhile.
RawTimeIsCurrent ==
  [][\A c \in Callers : RawReturn(c) => Geq(val[c], began[c]) /\ Geq(mtime, val[c])]_vars

\* Between the first and the last store of a new deadline for hart k.
Masked(k) == \E c \in Callers : pc[c] \in {"set_cmp_low", "set_cmp_high"} /\ Target(c) = k

\* The timer interrupt of hart k is pending.
mtip(k) == Geq(mtime, mtimecmp[k])

\* "An intermediate mtimecmp value may cause spurious interrupts.  Prevent
\* that by first setting the dummy MSB to an unachievable value": while a
\* deadline is replaced no interrupt is pending, and otherwise one is pending
\* only if the deadline last installed has been reached.  The value is not
\* achieved as long as the high word of MTIME is not all ones.
NoSpuriousInterrupt ==
  \A k \in Harts : mtip(k) /\ mtime[1] # Radix - 1 => ~Masked(k) /\ Geq(mtime, deadline[k])

\* The header: "An interrupt will be generated at mtime + clock_offset".  When
\* mtimer_set_raw_time_cmp returns, hart 0 has a deadline clock_offset after a
\* moment of the call, in both words, unless the sum does not fit 64 bits.
InterruptAtOffset ==
  [][\A c \in Callers :
       LET offset == Val(call[c].arg) IN
       /\ SetCmpHigh(c)
       /\ call[c].fn = "mtimer_set_raw_time_cmp"
       /\ Val(mtime) + offset < Radix * Radix
       => /\ Val(began[c]) + offset <= Val(mtimecmp'[0])
          /\ Val(mtimecmp'[0]) <= Val(mtime) + offset]_vars

\* clint_get_timer reads the low word, then the high one, and does not look
\* again: the time it returns may be in the future, by less than the low word can
\* count, but never before the call began.
TimerReadIsClose ==
  [][\A c \in Callers : GetHigh(c) /\ call[c].fn = "clint_get_timer" =>
       Geq(ReadTime(c), began[c]) /\ Val(ReadTime(c)) < Val(mtime) + Radix]_vars

\* The registers as RegMap has them, o being the access of the step.
RM(o) == INSTANCE RegMap WITH
           op   <- o,
           time <- Val(mtime),
           cmp  <- [k \in Harts |-> Val(mtimecmp[k])],
           soft <- {k \in Harts : msip[k] = 1}

Accesses == [reg: {"none", "msip", "mtimecmp", "mtime"}, hart: Harts, half: Halves, val: Word]

\* The access is one that the function a caller is in may make: of the register
\* it is named for, and of the hart it was given.
MadeBy(c, o) ==
  /\ pc'[c] # pc[c]
  /\ o.reg = "mtime" => call[c].fn = "clint_set_timer"
  /\ o.reg = "mtimecmp" => SetsCmp(call[c]) /\ o.hart = Target(c)
  /\ o.reg = "msip" => call[c].fn = "clint_set_msip" /\ o.hart = Target(c)

\* Every step is one access of the register map at most, made by a caller whose
\* function is about that register, and MTIME moves by itself only by counting.
ObeysRegMap ==
  [][\E o \in Accesses :
       /\ o.reg = "none" \/ \E c \in Callers : MadeBy(c, o)
       /\ RM(o)!TimeStep /\ RM(o)!CmpStep /\ RM(o)!SoftStep]_vars

-------------------------------------------------------------------------------
\* Every call returns, if the harts go on executing: the retry loop of
\* mtimer_get_raw_time ends, since the high word of a timer that does not wrap
\* changes a finite number of times.
CallsReturn == \A c \in Callers : []<>Idle(c)

-------------------------------------------------------------------------------
(* Claims of the comments that the code does not keep.                     *)

\* iob_clint.c:94-97: "There is a small risk the mtimeh will tick over after
\* reading mtimel"; clint_get_timer reads the same two words and takes it.
TimerReadIsCurrent ==
  [][\A c \in Callers : GetHigh(c) /\ call[c].fn = "clint_get_timer" =>
       Geq(ReadTime(c), began[c]) /\ Geq(mtime, ReadTime(c))]_vars
===============================================================================
