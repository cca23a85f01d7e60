------------------------------ MODULE DwordProofs -----------------------------
(***************************************************************************)
(* Lemmas about the 64-bit arithmetic of Dwords, for every word width.     *)
(***************************************************************************)
EXTENDS Dwords, TLAPS

\* The words of a 64-bit value are words, and a value is its words.
LEMMA DwordWords ==
  ASSUME NEW d \in Dword
  PROVE  /\ d[0] \in Word /\ d[1] \in Word
         /\ d = [w \in Halves |-> IF w = 1 THEN d[1] ELSE d[0]]
BY DEF Dword, Halves

\* Two values with the same words are the same.
LEMMA SameWords ==
  ASSUME NEW d \in Dword, NEW e \in Dword, d[0] = e[0], d[1] = e[1]
  PROVE  d = e
BY DEF Dword, Halves

\* The words of a 64-bit value are natural numbers below Radix.
LEMMA WordRange ==
  ASSUME NEW d \in Dword
  PROVE  /\ d[0] \in Nat /\ d[0] < Radix
         /\ d[1] \in Nat /\ d[1] < Radix
BY DwordWords, RadixAssumption DEF Word

\* 0 and all ones are 64-bit values, and storing a word gives a 64-bit value.
LEMMA DwordOps ==
  /\ Zeros \in Dword /\ Ones \in Dword
  /\ \A d \in Dword : Incr(d) \in Dword
  /\ \A d \in Dword, v \in Word : /\ [d EXCEPT ![0] = v] \in Dword
                                  /\ [d EXCEPT ![1] = v] \in Dword
BY RadixAssumption DEF Dword, Zeros, Ones, Incr, Word, Halves

\* The last bit of a word.
LEMMA LastBit == \A v \in Word : v % 2 \in {0, 1}
BY RadixAssumption DEF Word

\* A 64-bit sum is a 64-bit value.
LEMMA PlusType ==
  ASSUME NEW d \in Dword, NEW e \in Dword
  PROVE  Plus(d, e) \in Dword
<1>1. \A w \in Halves : d[w] \in Word /\ e[w] \in Word  BY DEF Dword
<1>2. \A m, n \in Word : Low(m + n) \in Word /\ Low(m + n + 1) \in Word
  BY RadixAssumption DEF Low, Word
<1>3. 1 \in Halves  BY DEF Halves
<1> QED  BY <1>1, <1>2, <1>3 DEF Plus, Dword

\* The comparison is a total order.
LEMMA GeqOrder ==
  /\ \A d \in Dword : Geq(d, d)
  /\ \A d, e \in Dword : Geq(d, e) \/ Geq(e, d)
  /\ \A d, e \in Dword : Geq(d, e) /\ Geq(e, d) => d = e
  /\ \A d, e, f \in Dword : Geq(d, e) /\ Geq(e, f) => Geq(d, f)
<1>1. \A d \in Dword : Geq(d, d)  BY WordRange DEF Geq
<1>2. \A d, e \in Dword : Geq(d, e) \/ Geq(e, d)  BY WordRange DEF Geq
<1>3. \A d, e \in Dword : Geq(d, e) /\ Geq(e, d) => d = e
  BY WordRange, SameWords DEF Geq
<1>4. \A d, e, f \in Dword : Geq(d, e) /\ Geq(e, f) => Geq(d, f)
  BY WordRange DEF Geq
<1> QED  BY <1>1, <1>2, <1>3, <1>4

\* The words of d + 1.
LEMMA IncrWords ==
  ASSUME NEW d \in Dword
  PROVE  /\ d[0] < Radix - 1 => Incr(d)[0] = d[0] + 1 /\ Incr(d)[1] = d[1]
         /\ d[0] = Radix - 1 => /\ Incr(d)[0] = 0
                                /\ Incr(d)[1] = IF d[1] < Radix - 1 THEN d[1] + 1 ELSE 0
         /\ d[0] < Radix - 1 \/ d[0] = Radix - 1
<1>1. d[0] < Radix - 1 \/ d[0] = Radix - 1  BY WordRange, RadixAssumption
<1>2. CASE d[0] < Radix - 1  BY <1>2, RadixAssumption, WordRange DEF Incr, Dword, Halves
<1>3. CASE d[0] = Radix - 1  BY <1>3, RadixAssumption, WordRange DEF Incr, Halves
<1> QED  BY <1>1, <1>2, <1>3

\* Adding one makes a value greater by the least possible, unless it wraps.
LEMMA IncrStep ==
  ASSUME NEW d \in Dword, d # Ones
  PROVE  /\ Geq(Incr(d), d)
         /\ Incr(d)[1] >= d[1]
         /\ \A e \in Dword : Geq(Incr(d), e) /\ ~Geq(d, e) => Incr(d) = e
<1>1. Incr(d) \in Dword  BY DwordOps
<1>2. ~(d[0] = Radix - 1 /\ d[1] = Radix - 1)
  BY DwordWords DEF Ones, Halves, Dword
<1>3. Geq(Incr(d), d) /\ Incr(d)[1] >= d[1]
  BY <1>2, IncrWords, WordRange, RadixAssumption DEF Geq
<1>4. ASSUME NEW e \in Dword, Geq(Incr(d), e), ~Geq(d, e)
      PROVE  Incr(d) = e
  <2>1. Incr(d)[0] = e[0] /\ Incr(d)[1] = e[1]
    BY <1>1, <1>2, <1>4, IncrWords, WordRange, RadixAssumption DEF Geq
  <2> QED  BY <2>1, <1>1, SameWords
<1> QED  BY <1>3, <1>4

\* A product of numbers grows with either.
LEMMA Multiples ==
  /\ \A p, t \in Nat : p * t \in Nat /\ p * (t + 1) = p * t + p
  /\ \A p, t, u \in Nat : t >= u => p * t >= p * u
<1>1. \A p, t \in Nat : p * t \in Nat /\ p * (t + 1) = p * t + p  OBVIOUS
<1>2. ASSUME NEW p \in Nat, NEW t \in Nat, NEW u \in Nat, t >= u PROVE p * t >= p * u
  <2>1. PICK k \in Nat : t = u + k  BY <1>2, t - u \in Nat, t = u + (t - u)
  <2>2. p * t = p * u + p * k  BY <2>1
  <2>3. p * k \in Nat /\ p * u \in Nat  OBVIOUS
  <2> QED  BY <2>2, <2>3
<1> QED  BY <1>1, <1>2

\* Multiplication by Radix is monotone.
LEMMA TimesRadix ==
  ASSUME NEW m \in Nat, NEW n \in Nat, m > n
  PROVE  /\ m * Radix \in Nat /\ n * Radix \in Nat
         /\ m * Radix >= n * Radix + Radix
<1>1. \E k \in Nat : m = n + 1 + k  BY m - n - 1 \in Nat, m = n + 1 + (m - n - 1)
<1>2. PICK k \in Nat : m = n + 1 + k  BY <1>1
<1>3. m * Radix = n * Radix + Radix + k * Radix  BY <1>2, RadixAssumption
<1>4. k * Radix \in Nat /\ n * Radix \in Nat /\ m * Radix \in Nat  BY RadixAssumption
<1> QED  BY <1>3, <1>4, RadixAssumption

\* Comparing the words, the high ones first, compares the numbers.
LEMMA GeqIsNumeric ==
  ASSUME NEW d \in Dword, NEW e \in Dword
  PROVE  Geq(d, e) <=> Val(d) >= Val(e)
<1> DEFINE d0 == d[0]  d1 == d[1]  e0 == e[0]  e1 == e[1]
<1>1. /\ d0 \in Nat /\ d1 \in Nat /\ e0 \in Nat /\ e1 \in Nat
      /\ d0 < Radix /\ e0 < Radix
  BY WordRange
<1>2. Radix \in Nat  BY RadixAssumption
<1>3. d1 * Radix \in Nat /\ e1 * Radix \in Nat  BY <1>1, <1>2
<1>4. d1 > e1 => d1 * Radix >= e1 * Radix + Radix  BY <1>1, TimesRadix
<1>5. e1 > d1 => e1 * Radix >= d1 * Radix + Radix  BY <1>1, TimesRadix
<1> HIDE DEF d0, d1, e0, e1
<1> DEFINE p == d1 * Radix  q == e1 * Radix
<1>6. /\ p \in Nat /\ q \in Nat
      /\ d1 > e1 => p >= q + Radix
      /\ e1 > d1 => q >= p + Radix
      /\ d1 = e1 => p = q
  BY <1>3, <1>4, <1>5
<1> HIDE DEF p, q
<1>7. (d1 > e1 \/ (d1 = e1 /\ d0 >= e0)) <=> p + d0 >= q + e0
  BY <1>1, <1>2, <1>6
<1> QED  BY <1>7 DEF Geq, Val, p, q, d0, d1, e0, e1

\* The number of a 64-bit value, and its greatest one.
LEMMA ValRange ==
  ASSUME NEW d \in Dword
  PROVE  /\ Val(d) \in Nat
         /\ Val(d) <= Radix * Radix - 1
         /\ Val(Zeros) = 0
         /\ Val(Ones) = Radix * Radix - 1
<1> USE RadixAssumption
<1>1. Val(Zeros) = 0  BY DEF Val, Zeros, Halves
<1>2. Val(Ones) = Radix * Radix - 1
  <2>1. Val(Ones) = (Radix - 1) * Radix + (Radix - 1)  BY DEF Val, Ones, Halves
  <2>2. (Radix - 1) * Radix = Radix * Radix - Radix  OBVIOUS
  <2>3. Radix * Radix \in Nat  OBVIOUS
  <2> QED  BY <2>1, <2>2, <2>3
<1>3. Val(d) \in Nat  BY WordRange DEF Val
<1>4. Geq(Ones, d)  BY WordRange DEF Geq, Ones, Halves
<1>5. Val(Ones) >= Val(d)  BY <1>4, GeqIsNumeric, DwordOps
<1> QED  BY <1>1, <1>2, <1>3, <1>5

\* The carry makes d + 1 the successor of the number, unless it wraps to 0.
LEMMA IncrIsNumeric ==
  ASSUME NEW d \in Dword
  PROVE  Val(Incr(d)) = IF Val(d) = Radix * Radix - 1 THEN 0 ELSE Val(d) + 1
<1> USE RadixAssumption
<1>1. CASE d = Ones
  <2>1. Incr(d) = Zeros
    <3>1. d[0] = Radix - 1 /\ d[1] = Radix - 1  BY <1>1 DEF Ones, Halves
    <3>2. Incr(d)[0] = 0 /\ Incr(d)[1] = 0  BY <3>1, IncrWords
    <3>3. Zeros[0] = 0 /\ Zeros[1] = 0  BY DEF Zeros, Halves
    <3> QED  BY <3>2, <3>3, DwordOps, SameWords
  <2> QED  BY <1>1, <2>1, ValRange
<1>2. CASE d # Ones
  <2>1. d[0] \in Nat /\ d[1] \in Nat  BY WordRange
  <2>2. Val(Incr(d)) = Val(d) + 1
    <3>1. CASE d[0] < Radix - 1  BY <2>1, <3>1, IncrWords DEF Val
    <3>2. CASE d[0] = Radix - 1
      <4>1. d[1] < Radix - 1
        BY <1>2, <3>2, WordRange, DwordOps, SameWords DEF Ones, Halves
      <4>2. Incr(d)[0] = 0 /\ Incr(d)[1] = d[1] + 1  BY <3>2, <4>1, IncrWords
      <4>3. (d[1] + 1) * Radix = d[1] * Radix + Radix  BY <2>1
      <4>4. d[1] * Radix \in Nat  BY <2>1
      <4> QED  BY <2>1, <3>2, <4>2, <4>3, <4>4 DEF Val
    <3> QED  BY <3>1, <3>2, IncrWords
  <2>3. Val(d) # Radix * Radix - 1
    <3>1. ~Geq(d, Ones)  BY <1>2, WordRange, DwordOps, SameWords DEF Geq, Ones, Halves
    <3>2. ~(Val(d) >= Val(Ones))  BY <3>1, GeqIsNumeric, DwordOps
    <3> QED  BY <3>2, ValRange
  <2> QED  BY <2>2, <2>3
<1> QED  BY <1>1, <1>2

\* The words of a register after a store to one of them.
LEMMA StoreWords ==
  ASSUME NEW d \in Dword, NEW v \in Word
  PROVE  /\ [d EXCEPT ![0] = v][0] = v /\ [d EXCEPT ![0] = v][1] = d[1]
         /\ [d EXCEPT ![1] = v][1] = v /\ [d EXCEPT ![1] = v][0] = d[0]
BY DEF Dword, Halves

\* A word of a register is that half of its number.
LEMMA LoadHalf ==
  ASSUME NEW d \in Dword, NEW w \in Halves
  PROVE  \E other \in Word : Val(d) = IF w = 1 THEN d[w] * Radix + other
                                               ELSE other * Radix + d[w]
<1>1. CASE w = 1
  <2>1. Val(d) = d[1] * Radix + d[0]  BY DEF Val
  <2> QED  BY <1>1, <2>1, DwordWords
<1>2. CASE w = 0
  <2>1. Val(d) = d[1] * Radix + d[0]  BY DEF Val
  <2> QED  BY <1>2, <2>1, DwordWords
<1> QED  BY <1>1, <1>2 DEF Halves

\* A store to one word of a register overwrites that half of its number and
\* keeps the other.
LEMMA StoreHalf ==
  ASSUME NEW d \in Dword, NEW w \in Halves, NEW v \in Word
  PROVE  \E hi, lo \in Word :
           /\ Val(d) = hi * Radix + lo
           /\ Val([d EXCEPT ![w] = v]) = IF w = 1 THEN v * Radix + lo ELSE hi * Radix + v
<1>1. d[0] \in Word /\ d[1] \in Word  BY DwordWords
<1>2. Val(d) = d[1] * Radix + d[0]  BY DEF Val
<1>3. CASE w = 1
  <2>1. Val([d EXCEPT ![1] = v]) = v * Radix + d[0]  BY StoreWords DEF Val
  <2> QED  BY <1>1, <1>2, <1>3, <2>1
<1>4. CASE w = 0
  <2>1. Val([d EXCEPT ![0] = v]) = d[1] * Radix + v  BY StoreWords DEF Val
  <2> QED  BY <1>1, <1>2, <1>4, <2>1
<1> QED  BY <1>3, <1>4 DEF Halves

\* A 64-bit sum that fits is the sum.
LEMMA PlusFits ==
  ASSUME NEW d \in Dword, NEW e \in Dword, Val(d) + Val(e) < Radix * Radix
  PROVE  Val(Plus(d, e)) = Val(d) + Val(e)
<1> DEFINE d0 == d[0]  d1 == d[1]  e0 == e[0]  e1 == e[1]
<1>1. /\ d0 \in Nat /\ d1 \in Nat /\ e0 \in Nat /\ e1 \in Nat
      /\ d0 < Radix /\ e0 < Radix /\ d1 < Radix /\ e1 < Radix
  BY WordRange
<1>2. Radix \in Nat /\ Radix > 1  BY RadixAssumption
<1>3. /\ Plus(d, e)[0] = Low(d0 + e0)
      /\ Plus(d, e)[1] = IF d0 + e0 >= Radix THEN Low(d1 + e1 + 1) ELSE Low(d1 + e1)
  BY DEF Plus, Halves
<1>4. Val(d) + Val(e) = (d1 + e1) * Radix + (d0 + e0)
  BY <1>1, <1>2 DEF Val
<1> HIDE DEF d0, d1, e0, e1
<1>5. CASE d0 + e0 >= Radix
  <2>1. (d1 + e1 + 1) * Radix + (d0 + e0 - Radix) < Radix * Radix
    BY <1>1, <1>2, <1>4
  <2>2. d1 + e1 + 1 < Radix
    <3>1. SUFFICES ASSUME d1 + e1 + 1 >= Radix PROVE FALSE  BY <1>1, <1>2
    <3>2. (d1 + e1 + 1) * Radix >= Radix * Radix
      BY <3>1, <1>1, <1>2, TimesRadix
    <3> QED  BY <1>1, <1>2, <1>5, <2>1, <3>2
  <2>3. Plus(d, e)[0] = d0 + e0 - Radix /\ Plus(d, e)[1] = d1 + e1 + 1
    BY <1>1, <1>2, <1>3, <1>5, <2>2 DEF Low
  <2> QED  BY <1>1, <1>2, <1>4, <2>3 DEF Val
<1>6. CASE d0 + e0 < Radix
  <2>1. d1 + e1 < Radix
    <3>1. SUFFICES ASSUME d1 + e1 >= Radix PROVE FALSE  BY <1>1, <1>2
    <3>2. (d1 + e1) * Radix >= Radix * Radix
      BY <3>1, <1>1, <1>2, TimesRadix
    <3> QED  BY <1>1, <1>2, <1>4, <3>2
  <2>2. Plus(d, e)[0] = d0 + e0 /\ Plus(d, e)[1] = d1 + e1
    BY <1>1, <1>2, <1>3, <1>6, <2>1 DEF Low
  <2> QED  BY <1>1, <1>2, <1>4, <2>2 DEF Val
<1> QED  BY <1>1, <1>2, <1>5, <1>6
===============================================================================
