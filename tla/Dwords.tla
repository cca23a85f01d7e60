-------------------------------- MODULE Dwords --------------------------------
(***************************************************************************)
(* The 64-bit registers of the CLINT as the two bus words software sees.   *)
(* The Verilog selects a word of a 64-bit register with the part-select    *)
(* [(iob_addr_i[2]+1)*DATA_W-1 -: DATA_W]: word 0 is the low half, word 1  *)
(* the high half.  Radix is 2^DATA_W, the number of values of one word.    *)
(***************************************************************************)
EXTENDS Naturals

CONSTANT Radix

ASSUME RadixAssumption == Radix \in Nat /\ Radix > 1

Word  == 0 .. Radix - 1
Halves == {0, 1}
Dword == [Halves -> Word]

Zeros == [w \in Halves |-> 0]
Ones  == [w \in Halves |-> Radix - 1]

\* The number a 64-bit register holds.
Val(d) == d[1] * Radix + d[0]

\* Faulty variant: both words compared, each on its own.
GeqWordByWord(d, e) == d[1] >= e[1] /\ d[0] >= e[0]

\* The 64-bit comparison d >= e, the high words first.
Geq(d, e) == \/ d[1] > e[1]
             \/ d[1] = e[1] /\ d[0] >= e[0]

\* Faulty variant: the carry out of the low word is lost.
IncrWithoutCarry(d) == [d EXCEPT ![0] = IF @ < Radix - 1 THEN @ + 1 ELSE 0]

\* d + 1'b1: the carry goes into the high word, the 64-bit sum wraps to 0.
Incr(d) == IF d[0] < Radix - 1 THEN [d EXCEPT ![0] = @ + 1]
           ELSE [w \in Halves |-> IF w = 1 /\ d[1] < Radix - 1 THEN d[1] + 1 ELSE 0]

\* The word n modulo Radix, for a sum of two words and a carry.
Low(n) == IF n < Radix THEN n ELSE n - Radix

\* Faulty variant: the words added each on its own.
PlusWithoutCarry(d, e) == [w \in Halves |-> Low(d[w] + e[w])]

\* d + e, modulo 2^64.
Plus(d, e) == [w \in Halves |->
                IF w = 1 /\ d[0] + e[0] >= Radix THEN Low(d[1] + e[1] + 1)
                ELSE Low(d[w] + e[w])]
===============================================================================
