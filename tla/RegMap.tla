-------------------------------- MODULE RegMap --------------------------------
(***************************************************************************)
(* What the CLINT promises a programmer, with no address, bit-slice or     *)
(* clock in it: a 64-bit timer, one 64-bit compare value and one software  *)
(* interrupt bit per hart, each a number.  op is the register access that  *)
(* the next step performs; nothing else may change a register but reset    *)
(* and the timer's own increment.                                          *)
(***************************************************************************)
EXTENDS Naturals

CONSTANTS Radix, Harts

Word == 0 .. Radix - 1
Top  == Radix * Radix - 1   \* all ones, 64 bits

\* A write of val to one word of a register; half 1 is the high word.
\* "none" stands for a read, an idle bus and a write that hits no register.
Ops == [reg: {"none", "msip", "mtimecmp", "mtime"},
        hart: Harts, half: {0, 1}, val: Word]

VARIABLES
  op,    \* the access on the bus
  time,  \* the number in MTIME
  cmp,   \* the number in each hart's MTIMECMP
  soft   \* the harts whose MSIP bit is 1

vars == <<op, time, cmp, soft>>

\* v is the given half of the 64-bit number n.
IsHalf(n, half, v) ==
  \E other \in Word : n = IF half = 1 THEN v * Radix + other ELSE other * Radix + v

\* new is old with the given half overwritten by v.
SetsHalf(old, half, v, new) ==
  \E hi, lo \in Word :
    /\ old = hi * Radix + lo
    /\ new = IF half = 1 THEN v * Radix + lo ELSE hi * Radix + v

Init ==
  op \in Ops /\ time = 0 /\ cmp = [h \in Harts |-> Top] /\ soft = {}

\* The timer advances by one or rests, unless software is writing it.
TimeStep ==
  IF op.reg = "mtime" THEN SetsHalf(time, op.half, op.val, time')
  ELSE time' \in {time, IF time = Top THEN 0 ELSE time + 1}

CmpStep ==
  IF op.reg = "mtimecmp"
  THEN \E new \in 0 .. Top : /\ SetsHalf(cmp[op.hart], op.half, op.val, new)
                             /\ cmp' = [cmp EXCEPT ![op.hart] = new]
  ELSE cmp' = cmp

SoftStep ==
  IF op.reg = "msip"
  THEN soft' = IF op.val % 2 = 1 THEN soft \cup {op.hart} ELSE soft \ {op.hart}
  ELSE soft' = soft

Access == TimeStep /\ CmpStep /\ SoftStep /\ op' \in Ops

Reset == /\ time' = 0 /\ cmp' = [h \in Harts |-> Top] /\ soft' = {}
         /\ op' \in Ops

Next == Access \/ Reset

Spec == Init /\ [][Next]_vars
===============================================================================
