--------------------------- MODULE FirmwareProperties -------------------------
(***************************************************************************)
(* What the example promises: one timer interrupt a moment after main has  *)
(* armed it, and an end.                                                   *)
(***************************************************************************)
EXTENDS Firmware

\* A deadline d after now is a 64-bit number: "the time range of the 64 bit
\* timer is large enough".
Fits(d) == Val(mtime) + Val(d) < Radix * Radix

\* t is no earlier than the first deadline of this run of main, if that is one.
AfterFirst(t) == Fits(FirstOffset) => Val(t) >= Val(booted) + Val(FirstOffset)

\* Every trap is taken for the timer, into irq_entry, and not before the
\* deadline that this run of main has set.  Software interrupts of another
\* hart, and the deadline that an earlier run left in MTIMECMP when the CPU
\* alone was reset, are kept out by the order of main's statements.
TrapsAreTheTimers ==
  [][Trap =>
       /\ isr' = "entry" /\ csr'["mcause"] = Cause("MTI")
       /\ AfterFirst(mtime)]_fvars

\* main and the handler both set hart 0's deadline, which takes three stores,
\* and neither uses a lock: interrupts are enabled only where main is in no
\* call, so that no store of one comes between two of the other.
OneAtATime == Idle("main") \/ (isr = "out" /\ ~Has("mstatus", MIE) /\ Idle("isr"))

\* No wakeup is lost: the interrupt may be taken before main reaches wfi, yet
\* whoever waits there has interrupts enabled and a deadline at most one second
\* away, for the handler has armed the next one.
SleepsArmed ==
  line = "wfi" /\ isr = "out" /\ Fits(SecondOffset) =>
    /\ Has("mstatus", MIE) /\ Has("mie", MaskOf("mie", "MTI"))
    /\ Val(mtimecmp[0]) <= Val(mtime) + Val(SecondOffset)

\* When main exits after an interrupt that ended wfi, the handler has run and noted
\* when: timestamp was last written by the handler, not by main, and is a time after
\* the first deadline of this run.  When wfi ends early main may exit before.
HandledBeforeExit ==
  [][Reboot /\ woken => stamper = "isr" /\ AfterFirst(timestamp)]_fvars

-------------------------------------------------------------------------------
\* No deadline being installed has wrapped around 2^64.
NoWrap == \A c \in Callers : SettingCmp(c) => Geq(val[c], began[c])

\* main exits, in every run of the program: whether the interrupt comes before
\* or during wfi, and however often, the hart neither sleeps for ever nor stays
\* in the handler.
MainExits == []NoWrap => []<>(line = "exit")
===============================================================================
