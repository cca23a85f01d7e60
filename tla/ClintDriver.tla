------------------------------ MODULE ClintDriver -----------------------------
(***************************************************************************)
(* The functions of iob_clint.c, as a 32-bit hart runs them: one action    *)
(* per volatile access, with MTIME ticking and other callers running       *)
(* between any two.  A caller is a thread of control: the main program of  *)
(* a hart or an interrupt service routine.  The registers are those of     *)
(* RegMap; an access is atomic because the core takes one request per edge.*)
(***************************************************************************)
EXTENDS Dwords

CONSTANTS
  Harts,    \* the harts whose registers the device has
  Callers,  \* the threads of control
  Calls     \* the calls they may make

Functions == {"clint_set_timer", "clint_get_timer", "clint_set_timercmp",
              "clint_get_timercmp", "clint_set_msip", "clint_get_msip",
              "mtimer_set_raw_time_cmp", "mtimer_get_raw_time"}

\* A call: arg is the time, the clock_offset or the msip_value (its word 0).
Call == [caller: Callers, fn: Functions, arg: Dword, hart: Harts]

ASSUME DriverAssumption == 0 \in Harts /\ Calls \subseteq Call

VARIABLES
  mtime, mtimecmp, msip,  \* the registers
  pc,        \* the access each caller performs next, or "idle"
  call,      \* the call in progress, or Nothing
  val,       \* a caller's 64-bit local, as two words: read_time, new_mtimecmp,
             \* or mtimeh_val and mtimel_val
  began,     \* history: what MTIME was when the call began
  deadline   \* history: the deadline last installed for each hart

device  == <<mtime, mtimecmp, msip>>
locals  == <<pc, call, val>>
history == <<began, deadline>>
vars    == <<device, locals, history>>

Nothing == [caller |-> "nobody", fn |-> "nothing", arg |-> Zeros, hart |-> 0]

Idle(c)    == pc[c] = "idle"
At(c, p)   == pc[c] = p
Goto(c, p) == pc' = [pc EXCEPT ![c] = p]
Keep(c, d) == val' = [val EXCEPT ![c] = d]
KeepWord(c, w, v) == val' = [val EXCEPT ![c][w] = v]

\* The function returns; its locals are gone.
Return(c) == /\ Goto(c, "idle") /\ Keep(c, Zeros)
             /\ call' = [call EXCEPT ![c] = Nothing]
             /\ began' = [began EXCEPT ![c] = Zeros]

\* The hart whose registers a call is about.  The mtimer functions have no
\* hart parameter: MTIMECMP_BASE is hart 0's.
HartOf(x) == IF x.fn = "mtimer_set_raw_time_cmp" THEN 0 ELSE x.hart
Target(c) == HartOf(call[c])

\* Where each function starts.
Entry(fn) ==
  CASE fn = "clint_set_timer"    -> "set_timer_low"
    [] fn = "clint_set_timercmp" -> "set_cmp_mask"
    [] fn \in {"clint_get_timer", "clint_get_timercmp"} -> "get_low"
    [] fn = "clint_set_msip"     -> "set_msip"
    [] fn = "clint_get_msip"     -> "get_msip"
    [] OTHER                     -> "raw_high"

\* The functions that start from their argument.
Setters == {"clint_set_timer", "clint_set_timercmp", "clint_set_msip"}

-------------------------------------------------------------------------------
Init ==
  /\ mtime = Zeros /\ mtimecmp = [k \in Harts |-> Ones] /\ msip = [k \in Harts |-> 0]
  /\ pc = [c \in Callers |-> "idle"]
  /\ call = [c \in Callers |-> Nothing]
  /\ val = [c \in Callers |-> Zeros]
  /\ began = [c \in Callers |-> Zeros]
  /\ deadline = [k \in Harts |-> Ones]

\* MTIME ticks at any moment.  "The time range of the 64 bit timer is large
\* enough not to consider a wrap around of mtime" (iob_clint.h).
Tick ==
  /\ mtime # Ones
  /\ mtime' = Incr(mtime)
  /\ UNCHANGED <<mtimecmp, msip, locals, history>>

Begin(c) ==
  /\ Idle(c)
  /\ \E x \in Calls :
       /\ x.caller = c
       /\ call' = [call EXCEPT ![c] = x]
       /\ Goto(c, Entry(x.fn))
       /\ Keep(c, IF x.fn \in Setters THEN x.arg ELSE Zeros)
  /\ began' = [began EXCEPT ![c] = mtime]
  /\ UNCHANGED <<device, deadline>>

\* clint_set_timer
SetTimerLow(c) ==
  /\ At(c, "set_timer_low") /\ Goto(c, "set_timer_high")
  /\ mtime' = [mtime EXCEPT ![0] = val[c][0]]
  /\ UNCHANGED <<mtimecmp, msip, call, val, history>>

\* Faulty variant: the time is not shifted, the low word is stored again.
SetTimerHighCopied(c) ==
  /\ At(c, "set_timer_high") /\ Return(c)
  /\ mtime' = [mtime EXCEPT ![1] = val[c][0]]
  /\ UNCHANGED <<mtimecmp, msip, deadline>>

SetTimerHigh(c) ==
  /\ At(c, "set_timer_high") /\ Return(c)
  /\ mtime' = [mtime EXCEPT ![1] = val[c][1]]
  /\ UNCHANGED <<mtimecmp, msip, deadline>>

\* Faulty variant: both functions read MTIME.
ReadsFromTimer(c) == mtime

\* clint_get_timer and clint_get_timercmp: the low word, then the high one.
ReadsFrom(c) == IF call[c].fn = "clint_get_timer" THEN mtime ELSE mtimecmp[Target(c)]

GetLow(c) ==
  /\ At(c, "get_low") /\ Goto(c, "get_high")
  /\ KeepWord(c, 0, ReadsFrom(c)[0])
  /\ UNCHANGED <<device, call, history>>

\* Faulty variant: the high word is not shifted in.
ReadTimeLowOnly(c) == val[c]

\* The value returned: the high word is or-ed to the low one.
ReadTime(c) == [val[c] EXCEPT ![1] = ReadsFrom(c)[1]]

GetHigh(c) == At(c, "get_high") /\ Return(c) /\ UNCHANGED <<device, deadline>>

\* clint_set_timercmp, and the stores of mtimer_set_raw_time_cmp.
StoreCmp(c, w, v) == mtimecmp' = [mtimecmp EXCEPT ![Target(c)][w] = v]

\* Faulty variant: the high word is not first set to all ones.
MaskCmpNot(c) ==
  /\ At(c, "set_cmp_mask") /\ Goto(c, "set_cmp_low")
  /\ UNCHANGED <<device, call, val, history>>

MaskCmp(c) ==
  /\ At(c, "set_cmp_mask") /\ Goto(c, "set_cmp_low")
  /\ StoreCmp(c, 1, Radix - 1)
  /\ UNCHANGED <<mtime, msip, call, val, history>>

SetCmpLow(c) ==
  /\ At(c, "set_cmp_low") /\ Goto(c, "set_cmp_high")
  /\ StoreCmp(c, 0, val[c][0])
  /\ UNCHANGED <<mtime, msip, call, val, history>>

SetCmpHigh(c) ==
  /\ At(c, "set_cmp_high") /\ Return(c)
  /\ StoreCmp(c, 1, val[c][1])
  /\ deadline' = [deadline EXCEPT ![Target(c)] = val[c]]
  /\ UNCHANGED <<mtime, msip>>

\* clint_set_msip and clint_get_msip: the register keeps one bit of the word.
SetMsip(c) ==
  /\ At(c, "set_msip") /\ Return(c)
  /\ msip' = [msip EXCEPT ![Target(c)] = val[c][0] % 2]
  /\ UNCHANGED <<mtime, mtimecmp, deadline>>

GetMsip(c) == At(c, "get_msip") /\ Return(c) /\ UNCHANGED <<device, deadline>>

\* mtimer_get_raw_time: the high word, the low word, and again until the high
\* word is the same before and after.
RawHigh(c) ==
  /\ At(c, "raw_high") /\ Goto(c, "raw_low")
  /\ KeepWord(c, 1, mtime[1])
  /\ UNCHANGED <<device, call, history>>

RawLow(c) ==
  /\ At(c, "raw_low") /\ Goto(c, "raw_check")
  /\ KeepWord(c, 0, mtime[0])
  /\ UNCHANGED <<device, call, history>>

\* Faulty variant: the retry reads the low word again, not the high one.
RawRetryLowOnly(c) ==
  /\ At(c, "raw_check") /\ val[c][1] # mtime[1] /\ Goto(c, "raw_low")
  /\ UNCHANGED <<device, call, val, history>>

RawRetry(c) ==
  /\ At(c, "raw_check") /\ val[c][1] # mtime[1] /\ Goto(c, "raw_high")
  /\ UNCHANGED <<device, call, val, history>>

\* Faulty variant: the high word is not polled again.
RawDoneUnchecked(c) == At(c, "raw_check")

\* The loop ends: val[c] is the time read.
RawDone(c) == At(c, "raw_check") /\ val[c][1] = mtime[1]

\* Faulty variant: either function goes on to the stores.
RawReturnArms(c) ==
  /\ RawDone(c) /\ Goto(c, "set_cmp_mask")
  /\ Keep(c, Plus(val[c], call[c].arg))
  /\ UNCHANGED <<device, call, history>>

\* mtimer_get_raw_time returns it; mtimer_set_raw_time_cmp adds its offset
\* and goes on to the three stores.
RawReturn(c) ==
  /\ RawDone(c)
  /\ IF call[c].fn = "mtimer_set_raw_time_cmp"
     THEN /\ Keep(c, Plus(val[c], call[c].arg))
          /\ Goto(c, "set_cmp_mask")
          /\ UNCHANGED <<call, began>>
     ELSE Return(c)
  /\ UNCHANGED <<device, deadline>>

\* One access of the function a caller is in.
Step(c) ==
  \/ SetTimerLow(c) \/ SetTimerHigh(c) \/ GetLow(c) \/ GetHigh(c)
  \/ MaskCmp(c) \/ SetCmpLow(c) \/ SetCmpHigh(c) \/ SetMsip(c) \/ GetMsip(c)
  \/ RawHigh(c) \/ RawLow(c) \/ RawRetry(c) \/ RawReturn(c)

Next == Tick \/ \E c \in Callers : Begin(c) \/ Step(c)

Spec == Init /\ [][Next]_vars
===============================================================================
