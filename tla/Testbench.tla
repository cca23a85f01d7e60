------------------------------- MODULE Testbench ------------------------------
(***************************************************************************)
(* iob_clint_tb.v: the bench as the bus master of the core, edge by edge.  *)
(* What it does in the moment after an edge (#1), up to its next wait for  *)
(* an edge, is part of the step of that edge; it sees the outputs of the   *)
(* core as the edge leaves them.                                           *)
(***************************************************************************)
EXTENDS Clint

CONSTANTS
  ResetEdges,   \* clk_i edges under reset
  SettleEdges,  \* and after it: "an arbitray (10) number of cycles"
  Deadline,     \* the first compare value, 200
  Far,          \* the second one, rtc_per * 100
  Iterations,   \* of the main loop: rtc_per * 250 / clk_per
  MaxWait       \* bound on the edges spent in wait_responce; the code has none

ASSUME TestbenchAssumption ==
  /\ ResetEdges \in Nat /\ SettleEdges \in Nat \ {0}
  /\ Deadline \in Word /\ Far \in Word /\ Iterations \in Nat /\ MaxWait \in Nat

VARIABLES
  at,          \* the place of the bench, while it waits for an edge
  n,           \* what is left of repeat (...), then the edges waited for responses
  i,           \* in clk_per
  timer_read,
  seen         \* history: the interrupts the bench has printed

bench == <<at, n, i, timer_read, seen>>
tvars == <<vars, bench>>

Inputs(addr, data, strb) == [valid |-> TRUE, addr |-> addr, wstrb |-> strb, wdata |-> data]
NoInputs == [valid |-> FALSE, addr |-> 0, wstrb |-> 0, wdata |-> 0]

\* What set_inputs leaves: the address and the data of the request stay.
Cleared(request) ==
  [valid |-> FALSE, addr |-> request.addr, wstrb |-> 0, wdata |-> request.wdata]

BenchRequests ==
  LET made ==
        {Inputs(MTimeBase, 0, 0), Inputs(MTimeBase + 4, 0, 0), Inputs(MTimeBase, 0, 15),
         Inputs(MTimeCMPBase, Deadline, 15), Inputs(MTimeCMPBase + 4, 0, 15),
         Inputs(MTimeCMPBase, Far, 15), Inputs(MSIBase, 0, 15), Inputs(MSIBase, 1, 15)}
  IN {NoInputs} \cup made \cup {Cleared(request) : request \in made}

-------------------------------------------------------------------------------
\* The bench drives a request and waits at place p for the edge that takes it.
Drives(request, p) == bus' = request /\ at' = p

Prints(what) == seen' = [seen EXCEPT ![what] = @ + 1]

\* if (msip > 0): the second half of the loop.
TestMsip == IF \E h \in Harts : msip_o(h)'
            THEN Drives(Inputs(MSIBase, 0, 15), "msip_clear") /\ Prints("software")
            ELSE Drives(Cleared(bus), "advance") /\ UNCHANGED seen

\* if (mtip > 0): the top of the loop.
TestMtip == IF \E h \in Harts : mtip_o(h)'
            THEN Drives(Inputs(MSIBase, 1, 15), "msip_set") /\ Prints("timer")
            ELSE TestMsip

\* The edge of the core that the bench waits for at place p.
EdgeAt(p) == at = p /\ Edge

HoldReset ==
  /\ at = "reset" /\ n > 0 /\ n' = n - 1
  /\ UNCHANGED <<bus, at, i, timer_read, seen>> /\ ResetEdge

EndReset ==
  /\ at = "reset" /\ n = 0 /\ ReleaseReset
  /\ at' = "settle" /\ n' = SettleEdges
  /\ UNCHANGED <<i, timer_read, seen>>

Settle ==
  /\ EdgeAt("settle") /\ n' = n - 1
  /\ IF n > 1 THEN Drives(Cleared(bus), "settle")
              ELSE Drives(Inputs(MTimeCMPBase, Deadline, 15), "cmp_low")
  /\ UNCHANGED <<i, timer_read, seen>>

CmpLow ==
  /\ EdgeAt("cmp_low") /\ Drives(Inputs(MTimeCMPBase + 4, 0, 15), "cmp_high")
  /\ UNCHANGED <<n, i, timer_read, seen>>

CmpHigh == EdgeAt("cmp_high") /\ TestMtip /\ UNCHANGED <<n, i, timer_read>>

\* @(posedge clk_i) #1 i = i + clk_per, and the end of the test.
Advance ==
  /\ EdgeAt("advance") /\ i' = i + 1
  /\ IF i' > Iterations THEN Drives(Cleared(bus), "last") /\ UNCHANGED seen ELSE TestMtip
  /\ UNCHANGED <<n, timer_read>>

MsipSet ==
  /\ EdgeAt("msip_set") /\ Drives(Inputs(MTimeBase, 0, 0), "read_low")
  /\ timer_read' = Zeros /\ UNCHANGED <<n, i, seen>>

\* wait_responce.  Answered at once, the bench looks at the outputs in the moment
\* after the edge; once it waits, with the bus idle, at an edge before they move.
\* (That a request it makes after such a wait is taken an edge later is one of
\* the two outcomes of a race, but the core never makes it wait.)
Response(w, request, next) ==
  LET answered == IF bus.valid THEN iob_rvalid_o' ELSE iob_rvalid_o
      data_read == IF bus.valid THEN iob_rdata_reg' ELSE iob_rdata_reg
  IN IF answered
     THEN /\ timer_read' = [timer_read EXCEPT ![w] = data_read]
          /\ Drives(request, next) /\ UNCHANGED n
     ELSE n < MaxWait /\ n' = n + 1 /\ Drives(Cleared(bus), at) /\ UNCHANGED timer_read

ReadLow ==
  /\ EdgeAt("read_low") /\ Response(0, Inputs(MTimeBase + 4, 0, 0), "read_high")
  /\ UNCHANGED <<i, seen>>

ReadHigh ==
  /\ EdgeAt("read_high") /\ Response(1, Inputs(MTimeBase, 0, 15), "time_low")
  /\ UNCHANGED <<i, seen>>

TimeLow ==
  /\ EdgeAt("time_low") /\ Drives(Inputs(MTimeCMPBase, Far, 15), "cmp_far")
  /\ UNCHANGED <<n, i, timer_read, seen>>

CmpFar == EdgeAt("cmp_far") /\ TestMsip /\ UNCHANGED <<n, i, timer_read>>

MsipClear ==
  /\ EdgeAt("msip_clear") /\ Drives(Cleared(bus), "advance")
  /\ UNCHANGED <<n, i, timer_read, seen>>

\* "Testbench finished!"
Last == /\ EdgeAt("last") /\ Drives(Cleared(bus), "finished")
        /\ UNCHANGED <<n, i, timer_read, seen>>

BenchInit ==
  /\ Init /\ bus = NoInputs
  /\ at = "reset" /\ n = ResetEdges /\ i = 0 /\ timer_read = Zeros
  /\ seen = [what \in {"timer", "software"} |-> 0]

BenchNext ==
  \/ HoldReset \/ EndReset \/ Settle \/ CmpLow \/ CmpHigh \/ Advance \/ MsipSet
  \/ ReadLow \/ ReadHigh \/ TimeLow \/ CmpFar \/ MsipClear \/ Last

\* The clock runs until $finish.
BenchSpec == BenchInit /\ [][BenchNext]_tvars /\ WF_tvars(BenchNext)

-------------------------------------------------------------------------------
\* "Timer count": the two words that get_time joins are those of MTIME when the
\* interrupt was seen, although an answer that an earlier read left on the bus
\* would end wait_responce too, and a tick may fall between the two reads.
TimerCountIsDeadline ==
  at = "time_low" => timer_read = [w \in Halves |-> IF w = 0 THEN Deadline ELSE 0]

\* When the test ends each interrupt has been seen exactly once: the deadline
\* in the compare register never matched half-written, the software interrupt
\* was taken back, and the second deadline was out of reach.
EachInterruptOnce ==
  at = "finished" => /\ seen = [what \in {"timer", "software"} |-> 1]
                     /\ \A h \in Harts : ~mtip_o(h) /\ ~msip_o(h)

\* The test ends: the bench waits for no answer that does not come.
TestbenchFinishes == <>(at = "finished")
===============================================================================
