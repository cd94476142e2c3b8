--------------------------- MODULE SearchesProofs ---------------------------
(***************************************************************************)
(* Proofs about the programs that search for a size: find_tlb() for every  *)
(* first size, every limit and all times, memsize for every size that is   *)
(* asked for and everything that malloc() may give, and the ratios of      *)
(* cache for every number of samples and all latencies.                    *)
(***************************************************************************)
EXTENDS Searches, SequenceTheorems, TLAPS

USE TlbAssumption DEF TlbAssumption

-----------------------------------------------------------------------------
(* tlb: the inductive invariant                                            *)

Outcomes == {"unknown", "fast", "slow"}

TlbTypeOK ==
  /\ tlbAt \in {"double", "check", "bisect", "done"}
  /\ i \in Nat /\ lower \in Nat /\ upper \in Nat /\ tlb \in Nat
  /\ slow \in [1..MaxPages -> Outcomes]

\* What lies between was not measured, its ends were.
NotSlow(n) == n = Start \div 2 \/ (n \in 1..MaxPages /\ slow[n] = "fast")
Bracket ==
  /\ 1 <= lower /\ lower < upper /\ upper <= MaxPages
  /\ slow[upper] = "slow" /\ NotSlow(lower)
  /\ \A n \in 1..MaxPages : lower < n /\ n < upper => slow[n] = "unknown"
  /\ i = Middle(lower, upper)

\* While the number doubles, its half is the last one that was measured.
Doubling ==
  /\ i >= Start /\ lower = 0 /\ upper = 0
  /\ \A n \in 1..MaxPages : n > i \div 2 => slow[n] = "unknown"
  /\ NotSlow(i \div 2)

Answer == tlb > 0 =>
  tlb + 1 \in 1..MaxPages /\ slow[tlb + 1] = "slow" /\ NotSlow(tlb)

TlbInv ==
  /\ TlbTypeOK
  /\ tlbAt = "double" => Doubling
  /\ tlbAt = "check" => Bracket \/ i > MaxPages
  /\ tlbAt = "bisect" => Bracket
  /\ tlbAt # "done" => tlb = 0
  /\ Answer

-----------------------------------------------------------------------------
(* The arithmetic of halves                                                *)

\* The half of a number, and of its double.
LEMMA HalfOf ==
  ASSUME NEW n \in Nat, n >= 2
  PROVE  /\ n \div 2 \in Nat /\ 1 <= n \div 2 /\ n \div 2 < n
         /\ (2 * n) \div 2 = n
  OBVIOUS

\* The middle of two numbers that are not neighbours lies between them.
LEMMA MiddleFacts ==
  ASSUME NEW l \in Nat, NEW u \in Nat, l < u
  PROVE  /\ Middle(l, u) \in Nat /\ l <= Middle(l, u) /\ Middle(l, u) < u
         /\ l + 1 < u => l < Middle(l, u)
<1> DEFINE d == u - l
<1>1. d \in Nat /\ d >= 1 /\ l + d = u
  OBVIOUS
<1>2. d \div 2 \in Nat /\ d \div 2 < d /\ (d >= 2 => 1 <= d \div 2)
  <2> HIDE DEF d
  <2> QED
    BY <1>1
<1>3. Middle(l, u) = l + (d \div 2)
  BY DEF Middle
<1> HIDE DEF d
<1> QED
  BY <1>1, <1>2, <1>3

-----------------------------------------------------------------------------
(* The steps                                                               *)

\* A measure of one size changes what is known of that size only.
LEMMA OneMeasure ==
  ASSUME TlbTypeOK, NEW p \in 1..MaxPages, NEW outcome \in BOOLEAN,
         compute_times(p, outcome)
  PROVE  /\ slow' \in [1..MaxPages -> Outcomes]
         /\ slow'[p] = IF outcome THEN "slow" ELSE "fast"
         /\ \A n \in 1..MaxPages : n # p => slow'[n] = slow[n]
  BY DEF TlbTypeOK, compute_times, Outcomes

\* The first size is at least two, and nothing is measured.
LEMMA TlbInitInv == TlbInit => TlbInv
  BY DEF TlbInit, TlbEmpty, TlbInv, TlbTypeOK, Doubling, NotSlow, Outcomes, Answer

\* A size that was not slow is doubled; one that was closes the bracket.
LEMMA DoubleInv ==
  ASSUME TlbInv, tlbAt = "double", i <= MaxPages, tlb' = tlb,
         NEW outcome \in BOOLEAN, compute_times(i, outcome), DoubleStep(outcome)
  PROVE  TlbInv'
<1>1. Doubling /\ TlbTypeOK
  BY DEF TlbInv
<1>2. i \in 1..MaxPages /\ i >= 2
  BY <1>1 DEF TlbTypeOK, Doubling
<1>0. PICK h \in Nat : h = i \div 2
  BY <1>1, <1>2, HalfOf DEF TlbTypeOK
<1>3. h \in Nat /\ 1 <= h /\ h < i /\ (2 * i) \div 2 = i
  BY <1>0, <1>1, <1>2, HalfOf DEF TlbTypeOK
<1>4. /\ slow' \in [1..MaxPages -> Outcomes]
      /\ slow'[i] = IF outcome THEN "slow" ELSE "fast"
      /\ \A n \in 1..MaxPages : n # i => slow'[n] = slow[n]
  BY <1>1, <1>2, OneMeasure
<1>5. NotSlow(h) /\ \A n \in 1..MaxPages : n > h => slow[n] = "unknown"
  BY <1>0, <1>1 DEF Doubling
<1>6. CASE outcome
  <2>1. lower' = h /\ upper' = i /\ i' = Middle(h, i) /\ tlbAt' = "check"
    BY <1>0, <1>6 DEF DoubleStep
  <2>2. Middle(h, i) \in Nat
    BY <1>1, <1>3, MiddleFacts DEF TlbTypeOK
  <2>3. NotSlow(h)'
    BY <1>3, <1>4, <1>5 DEF NotSlow
  <2>4. Bracket'
    BY <1>2, <1>3, <1>4, <1>5, <1>6, <2>1, <2>3 DEF Bracket
  <2> QED
    BY <1>1, <1>2, <1>3, <1>4, <2>1, <2>2, <2>4 DEF TlbInv, TlbTypeOK, Answer
<1>7. CASE ~outcome
  <2>1. i' = 2 * i /\ lower' = lower /\ upper' = upper /\ tlbAt' = tlbAt
    BY <1>7 DEF DoubleStep
  <2>2. Doubling'
    <3>1. i' \div 2 = i /\ i' >= Start /\ slow'[i] = "fast"
      BY <1>1, <1>2, <1>3, <1>4, <1>7, <2>1 DEF Doubling, TlbTypeOK
    <3>2. \A n \in 1..MaxPages : n > i => slow'[n] = "unknown"
      BY <1>2, <1>3, <1>4, <1>5
    <3> QED
      BY <1>1, <1>2, <2>1, <3>1, <3>2 DEF Doubling, NotSlow
  <2> QED
    BY <1>1, <1>4, <2>1, <2>2 DEF TlbInv, TlbTypeOK, Answer
<1> QED
  BY <1>6, <1>7

\* With nothing found the answer is 0; else the bracket is below the limit.
LEMMA TlbCheckInv == TlbInv /\ Check => TlbInv'
  BY DEF TlbInv, TlbTypeOK, Check, Bracket, Answer, NotSlow

\* A measure in the middle moves one end of the bracket there.
LEMMA BisectInv ==
  ASSUME TlbInv, Bisect
  PROVE  TlbInv'
<1>1. Bracket /\ TlbTypeOK /\ tlbAt = "bisect" /\ lower + 1 < upper
  BY DEF TlbInv, Bisect
<1>2. PICK outcome \in BOOLEAN :
        /\ compute_times(i, outcome)
        /\ lower' = IF outcome THEN lower ELSE i
        /\ upper' = IF outcome THEN i ELSE upper
        /\ i' = Middle(lower', upper') /\ tlbAt' = tlbAt /\ tlb' = tlb
  BY DEF Bisect
<1>3. /\ lower \in Nat /\ upper \in Nat /\ i \in Nat /\ 1 <= lower /\ upper <= MaxPages
      /\ lower < i /\ i < upper /\ i \in 1..MaxPages
  <2>1. lower \in Nat /\ upper \in Nat /\ i = Middle(lower, upper)
    BY <1>1 DEF Bracket, TlbTypeOK
  <2>2. i \in Nat /\ lower < i /\ i < upper
    BY <1>1, <2>1, MiddleFacts
  <2> QED
    BY <1>1, <2>1, <2>2 DEF Bracket
<1>4. /\ slow' \in [1..MaxPages -> Outcomes]
      /\ slow'[i] = IF outcome THEN "slow" ELSE "fast"
      /\ \A n \in 1..MaxPages : n # i => slow'[n] = slow[n]
  BY <1>1, <1>2, <1>3, OneMeasure
<1>5. lower' \in Nat /\ upper' \in Nat /\ lower' < upper'
  BY <1>2, <1>3
<1>6. i' \in Nat
  BY <1>2, <1>5, MiddleFacts
<1>7. Bracket'
  <2>1. 1 <= lower' /\ upper' <= MaxPages /\ slow'[upper'] = "slow"
    BY <1>1, <1>2, <1>3, <1>4 DEF Bracket
  <2>2. \A n \in 1..MaxPages : lower' < n /\ n < upper' => slow'[n] = "unknown"
    BY <1>1, <1>2, <1>3, <1>4 DEF Bracket
  <2>3. NotSlow(lower)'
    <3>1. CASE outcome
      BY <1>1, <1>2, <1>3, <1>4, <3>1 DEF Bracket, NotSlow
    <3>2. CASE ~outcome
      BY <1>2, <1>3, <1>4, <3>2 DEF NotSlow
    <3> QED
      BY <3>1, <3>2
  <2> QED
    BY <1>2, <1>5, <2>1, <2>2, <2>3 DEF Bracket
<1> QED
  BY <1>1, <1>2, <1>4, <1>5, <1>6, <1>7 DEF TlbInv, TlbTypeOK, Answer

\* Nothing is slow above the limit, and what is below the bracket is found.
LEMMA TlbNextInv == TlbInv /\ [TlbNext]_tlbVars => TlbInv'
<1> SUFFICES ASSUME TlbInv, [TlbNext]_tlbVars PROVE TlbInv'
  OBVIOUS
<1>1. CASE Double
  BY <1>1, DoubleInv DEF Double
<1>2. CASE Undetected
  BY <1>2 DEF Undetected, TlbInv, TlbTypeOK, Answer, NotSlow
<1>3. CASE Check
  BY <1>3, TlbCheckInv
<1>4. CASE Bisect
  BY <1>4, BisectInv
<1>5. CASE Found
  <2>1. Bracket /\ TlbTypeOK /\ lower + 1 >= upper /\ tlb' = lower /\ tlbAt' = "done"
        /\ UNCHANGED <<i, lower, upper, slow>>
    BY <1>5 DEF Found, TlbInv
  <2>2. upper = lower + 1 /\ upper \in 1..MaxPages
    BY <2>1 DEF Bracket, TlbTypeOK
  <2> QED
    BY <2>1, <2>2 DEF TlbInv, TlbTypeOK, Answer, Bracket, NotSlow
<1>6. CASE UNCHANGED tlbVars
  BY <1>6 DEF tlbVars, TlbInv, TlbTypeOK, Doubling, Bracket, Answer, NotSlow
<1> QED
  BY <1>1, <1>2, <1>3, <1>4, <1>5, <1>6 DEF TlbNext

-----------------------------------------------------------------------------
(* The invariant of find_tlb(): between what was fast and what was slow    *)
(* nothing has been measured.                                              *)
THEOREM SearchInvariant == TlbSpec => []TlbInv
  BY TlbInitInv, TlbNextInv, PTL DEF TlbSpec

(* Whatever the times are, find_tlb() returns 0 or a number of pages that  *)
(* was not slow while one more was.                                        *)
THEOREM FindsBoundary == TlbSpec => []BoundaryFound
<1>1. TlbInv => BoundaryFound
  <2> SUFFICES ASSUME TlbInv, tlbAt = "done", tlb > 0
               PROVE  /\ tlb + 1 <= MaxPages /\ slow[tlb + 1] = "slow"
                      /\ slow[tlb] = "fast" \/ tlb = Start \div 2
    BY DEF BoundaryFound
  <2> QED
    BY DEF TlbInv, TlbTypeOK, Answer, NotSlow
<1> QED
  BY <1>1, SearchInvariant, PTL

(* No number of pages is timed twice, so that every measure narrows the    *)
(* search.                                                                 *)
THEOREM NeverTimedTwice == TlbSpec => []EveryTimeIsNew
<1>1. TlbInv => EveryTimeIsNew
  <2> SUFFICES ASSUME TlbInv,
                      \/ tlbAt = "double" /\ i <= MaxPages
                      \/ tlbAt = "bisect" /\ lower + 1 < upper
               PROVE  slow[i] = "unknown"
    BY DEF EveryTimeIsNew
  <2>1. CASE tlbAt = "double" /\ i <= MaxPages
    <3>1. i \in 1..MaxPages /\ i >= 2 /\ Doubling
      BY <2>1 DEF TlbInv, TlbTypeOK, Doubling
    <3>2. i > i \div 2
      BY <3>1, HalfOf
    <3> QED
      BY <3>1, <3>2 DEF Doubling
  <2>2. CASE tlbAt = "bisect" /\ lower + 1 < upper
    <3>1. Bracket /\ lower \in Nat /\ upper \in Nat
      BY <2>2 DEF TlbInv, TlbTypeOK
    <3>2. i \in Nat /\ lower < i /\ i < upper
      BY <2>2, <3>1, MiddleFacts DEF Bracket
    <3> QED
      BY <3>1, <3>2 DEF Bracket
  <2> QED
    BY <2>1, <2>2
<1> QED
  BY <1>1, SearchInvariant, PTL

-----------------------------------------------------------------------------
(* memsize: the inductive invariant                                        *)

MemTypes ==
  /\ memAt \in {"down", "up", "touch", "done"}
  /\ size \in Nat /\ size < TooMuch /\ max \in Nat /\ max < TooMuch
  /\ delta \in Nat /\ range \in Nat /\ incr \in Nat /\ touched \in Nat /\ reported \in Nat

\* What was touched in time is the range before its last growth; when the range
\* has passed the size, no whole megabyte of it is left.
RangeFollows ==
  /\ memAt \in {"down", "up"} => touched = 0 /\ reported = 0
  /\ memAt = "touch" =>
       /\ range = touched + incr
       /\ range > size => (size \div Mega) * Mega <= touched

MemInv == MemTypes /\ RangeFollows /\ ReportedIsTouched

\* A megabyte has bytes.
LEMMA MegaIsPositive == Mega \in Nat /\ Mega > 0
  BY MemSizeAssumption

\* The whole megabytes of a size.
LEMMA WholePart ==
  ASSUME NEW s \in Nat
  PROVE  s \div Mega \in Nat /\ (s \div Mega) * Mega <= s
  BY MegaIsPositive

\* Less than two megabytes have at most one whole one.
LEMMA LessThanTwo ==
  ASSUME NEW s \in Nat, s < 2 * Mega
  PROVE  (s \div Mega) * Mega <= Mega
  BY MegaIsPositive, WholePart

\* The step that the range grows by is a number.
LEMMA EighthIsNat ==
  ASSUME NEW r \in Nat, r < TooMuch
  PROVE  Eighth(r) \in Nat
  <1> DEFINE S == {8 * Mega * p : p \in Powers}
             Fits(s) == s > r /\ (s = 8 * Mega \/ s \div 2 <= r)
  <1>1. \E p \in Powers : 8 * Mega * p > r /\ (p = 1 \/ 4 * Mega * p <= r)
    BY MegaIsPositive DEF Powers, TooMuch
  <1>2. \A p \in Powers : (8 * Mega * p) \div 2 = 4 * Mega * p
    BY MegaIsPositive DEF Powers
  <1>3. PICK p \in Powers : Fits(8 * Mega * p)
    BY <1>1, <1>2, MegaIsPositive DEF Powers
  <1>4. \E s \in S : Fits(s)
    BY <1>3
  <1>5. (CHOOSE s \in S : Fits(s)) \in S
    BY <1>4, Zenon
  <1>6. \A s \in S : s \div 8 \in Nat
    BY MegaIsPositive DEF Powers
  <1>7. (CHOOSE s \in S : Fits(s)) \div 8 \in Nat
    BY <1>5, <1>6, Zenon
  <1> QED  BY <1>7, Zenon DEF Eighth

\* The step ends at the size, or short of it.
LEMMA NextIncrFacts ==
  ASSUME MemInv, NEW r \in Nat, r <= size
  PROVE  /\ NextIncr(r) \in Nat
         /\ r + NextIncr(r) > size => size = r
  <1>1. r < TooMuch /\ size \in Nat
    BY MegaIsPositive DEF MemInv, MemTypes, TooMuch
  <1>2. Eighth(r) \in Nat
    BY <1>1, EighthIsNat
  <1> DEFINE next == Eighth(r)
  <1>3. NextIncr(r) = IF r < size /\ size < r + next THEN size - r ELSE next
    BY DEF NextIncr
  <1> HIDE DEF next
  <1>4. next \in Nat
    BY <1>2 DEF next
  <1>5. CASE r < size /\ size < r + next
    BY <1>1, <1>3, <1>5
  <1>6. CASE ~(r < size /\ size < r + next)
    BY <1>1, <1>3, <1>4, <1>6
  <1> QED  BY <1>5, <1>6

LEMMA MemInitInv == MemInit => MemInv
  BY MemSizeAssumption
  DEF MemInit, MemEmpty, MemInv, MemTypes, RangeFollows, ReportedIsTouched, TooMuch

LEMMA HalveInv == MemInv /\ Halve => MemInv'
  BY MemSizeAssumption, MegaIsPositive
  DEF Halve, MemInv, MemTypes, RangeFollows, ReportedIsTouched, TooMuch

LEMMA GrowInv == MemInv /\ Grow => MemInv'
  <1> SUFFICES ASSUME MemInv, Grow PROVE MemInv'
    OBVIOUS
  <1>1. size' \in Nat /\ size' < TooMuch
    <2>1. delta * Mega \in Nat
      BY MegaIsPositive DEF MemInv, MemTypes
    <2>2. /\ size \in Nat /\ max \in Nat /\ size < TooMuch /\ max < TooMuch
          /\ TooMuch \in Nat
      BY MegaIsPositive DEF MemInv, MemTypes, TooMuch
    <2> DEFINE more == delta * Mega
    <2>3. size' = size \/ (size' = size + more /\ size + more <= max)
      BY DEF Grow
    <2> HIDE DEF more
    <2>4. more \in Nat
      BY <2>1 DEF more
    <2> QED  BY <2>2, <2>3, <2>4
  <1> QED
    BY <1>1 DEF Grow, MemInv, MemTypes, RangeFollows, ReportedIsTouched, TooMuch

LEMMA TakeInv == MemInv /\ Take => MemInv'
  <1> SUFFICES ASSUME MemInv, Take PROVE MemInv'
    OBVIOUS
  <1>1. size \in Nat /\ UNCHANGED <<size, max, delta, reported>> /\ memAt = "up"
    BY DEF Take, MemInv, MemTypes
  <1>2. CASE memAt' = "done" /\ UNCHANGED <<range, incr, touched>>
    BY <1>1, <1>2, MegaIsPositive
    DEF MemInv, MemTypes, RangeFollows, ReportedIsTouched, TooMuch
  <1>3. CASE memAt' = "touch" /\ range' = 2 * Mega /\ incr' = Mega /\ touched' = Mega
    <2>1. range' > size' => (size' \div Mega) * Mega <= touched'
      BY <1>1, <1>3, MegaIsPositive, LessThanTwo
    <2> QED
      BY <1>1, <1>3, <2>1, MegaIsPositive
      DEF MemInv, MemTypes, RangeFollows, ReportedIsTouched, TooMuch
  <1> QED  BY <1>2, <1>3 DEF Take

LEMMA TouchInv == MemInv /\ Touch => MemInv'
  <1> SUFFICES ASSUME MemInv, Touch PROVE MemInv'
    OBVIOUS
  <1>1. /\ memAt = "touch" /\ range <= size /\ UNCHANGED <<max, delta>>
        /\ size \in Nat /\ range \in Nat /\ incr \in Nat /\ touched \in Nat
        /\ range = touched + incr
    BY DEF Touch, MemInv, MemTypes, RangeFollows
  <1>2. CASE /\ touched' = range /\ incr' = NextIncr(range) /\ range' = range + incr'
             /\ UNCHANGED <<memAt, size, reported>>
    <2>1. incr' \in Nat /\ (range' > size => size = range)
      BY <1>1, <1>2, NextIncrFacts
    <2>2. range' > size' => (size' \div Mega) * Mega <= touched'
      BY <1>1, <1>2, <2>1, WholePart
    <2> QED
      BY <1>1, <1>2, <2>1, <2>2 DEF MemInv, MemTypes, RangeFollows, ReportedIsTouched, TooMuch
  <1>3. CASE /\ size' = range - incr /\ memAt' = "done" /\ reported' = size' \div Mega
             /\ UNCHANGED <<touched, range, incr>>
    <2>1. size' = touched
      BY <1>1, <1>3
    <2>2. reported' \in Nat /\ reported' * Mega <= touched'
      BY <1>1, <1>3, <2>1, WholePart
    <2>3. size' < TooMuch'
      BY <1>1, <2>1, MegaIsPositive DEF MemInv, MemTypes, TooMuch
    <2> QED
      BY <1>1, <1>3, <2>1, <2>2, <2>3
      DEF MemInv, MemTypes, RangeFollows, ReportedIsTouched, TooMuch
  <1> QED  BY <1>2, <1>3 DEF Touch

LEMMA AllTouchedInv == MemInv /\ AllTouched => MemInv'
  <1> SUFFICES ASSUME MemInv, AllTouched PROVE MemInv'
    OBVIOUS
  <1>1. reported' \in Nat /\ reported' * Mega <= touched'
    BY WholePart DEF AllTouched, MemInv, MemTypes, RangeFollows
  <1> QED
    BY <1>1 DEF AllTouched, MemInv, MemTypes, RangeFollows, ReportedIsTouched, TooMuch

LEMMA MemStutter == MemInv /\ UNCHANGED memVars => MemInv'
  BY DEF MemInv, MemTypes, RangeFollows, ReportedIsTouched, TooMuch, memVars

(* Every whole megabyte that memsize reports was touched in time, whatever *)
(* size is asked for, whatever malloc() gives and whenever fork() fails.   *)
THEOREM TouchedInTime == MemSpec => []ReportedIsTouched
  <1>1. MemInv /\ [MemNext]_memVars => MemInv'
    BY HalveInv, GrowInv, TakeInv, TouchInv, AllTouchedInv, MemStutter DEF MemNext
  <1>2. MemSpec => []MemInv
    BY <1>1, MemInitInv, PTL DEF MemSpec
  <1> QED  BY <1>2, PTL DEF MemInv

-----------------------------------------------------------------------------
(* memsize: the size that is found                                         *)

\* What is asked for.
Wanted == IF given < Mega THEN Default ELSE given

\* What the next part that is tried is at most: without one the search has come
\* down to a megabyte.
Rest == IF delta = 0 THEN Mega ELSE 2 * delta * Mega
TooSmall == 2 * size <= Mega
Exhausted(rest) == size <= avail /\ (size + rest > avail \/ size + rest > max)

\* On the way down the size is a power of two, and twice as much was too much;
\* on the way up the next part would be, if it were twice as large.
Halved ==
  \/ TooSmall
  \/ \E p \in Twos : size = Mega * p /\ (max = size \/ (max = 2 * size /\ max > avail))
Narrowed ==
  \/ TooSmall /\ delta = 0
  \/ delta \in Twos \union {0} /\ Exhausted(Rest)

Search ==
  (~unlucky /\ PowerOfTwoMegas(Wanted)) =>
    /\ memAt = "down" => Halved
    /\ memAt = "up" => Narrowed
    /\ memAt = "touch" => Exhausted(Mega)

SearchInv == MemInv /\ given \in Nat /\ avail \in Nat /\ unlucky \in BOOLEAN /\ Search

\* What half of a power of two is, in megabytes and as a part to be tried.
LEMMA HalfOfTwo ==
  ASSUME NEW p \in Twos
  PROVE  /\ p \in Nat /\ p > 0
         /\ p = 1 \/ (p \div 2 \in Twos /\ p = 2 * (p \div 2))
         /\ p = 1 => p \div 2 = 0
         /\ (Mega * p) \div 2 = IF p = 1 THEN Mega \div 2 ELSE Mega * (p \div 2)
         /\ (Mega * p) \div (2 * Mega) = p \div 2
<1>1. /\ p \in Nat /\ p > 0
      /\ p = 1 \/ (p \div 2 \in Twos /\ p = 2 * (p \div 2))
      /\ p = 1 => p \div 2 = 0
  BY DEF Twos, Powers
<1>2. (Mega * p) \div 2 = IF p = 1 THEN Mega \div 2 ELSE Mega * (p \div 2)
  BY MegaIsPositive DEF Twos, Powers
<1>3. (Mega * p) \div (2 * Mega) = p \div 2
  BY MegaIsPositive DEF Twos, Powers
<1> QED
  BY <1>1, <1>2, <1>3

\* The search begins with what is asked for.
LEMMA SearchInit == MemInit => SearchInv
<1> SUFFICES ASSUME MemInit PROVE SearchInv
  OBVIOUS
<1>1. MemInv /\ given \in Nat /\ avail \in Nat /\ unlucky \in BOOLEAN /\ memAt = "down"
  BY MemInitInv, MemSizeAssumption DEF MemInit, MemEmpty
<1>2. size = Wanted /\ max = size /\ Wanted \in Nat /\ Wanted < TooMuch
  BY MemSizeAssumption DEF MemInit, Wanted
<1>3. PowerOfTwoMegas(Wanted) => Halved
  BY <1>2 DEF Halved, PowerOfTwoMegas
<1> QED
  BY <1>1, <1>3 DEF SearchInv, Search

\* A size that malloc() refuses is twice the next one.
LEMMA SearchHalve ==
  ASSUME SearchInv, Halve
  PROVE  Search'
<1>1. /\ size \in Nat /\ max \in Nat /\ avail \in Nat /\ unlucky \in BOOLEAN /\ memAt = "down"
      /\ avail' = avail /\ given' = given /\ Mega \in Nat /\ Mega > 0
  BY MegaIsPositive DEF SearchInv, MemInv, MemTypes, Halve
<1>2. PICK answer \in BOOLEAN :
        /\ test_malloc(size, answer)
        /\ IF answer
           THEN memAt' = "up" /\ delta' = size \div (2 * Mega) /\ UNCHANGED <<size, max>>
           ELSE max' = size /\ size' = size \div 2 /\ UNCHANGED <<memAt, delta>>
  BY DEF Halve
<1> SUFFICES ASSUME ~unlucky', PowerOfTwoMegas(Wanted)'
             PROVE  /\ memAt' = "down" => Halved'
                    /\ memAt' = "up" => Narrowed'
                    /\ memAt' = "touch" => Exhausted(Mega)'
  BY DEF Search
<1>3. ~unlucky /\ answer = (size <= avail)
  BY <1>1, <1>2 DEF test_malloc
<1>4. Halved
  BY <1>1, <1>3 DEF SearchInv, Search, PowerOfTwoMegas, Wanted
<1>0. \/ TooSmall
      \/ \E p \in Twos : size = Mega * p /\ (max = size \/ (max = 2 * size /\ max > avail))
  BY <1>4 DEF Halved
<1>5. CASE answer
  <2>1. size <= avail /\ size' = size /\ max' = max /\ memAt' = "up"
        /\ delta' = size \div (2 * Mega)
    BY <1>2, <1>3, <1>5
  <2>2. CASE TooSmall
    <3>1. delta' = 0
      BY <1>1, <2>1, <2>2 DEF TooSmall
    <3> QED
      BY <1>1, <2>1, <2>2, <3>1 DEF Narrowed, TooSmall
  <2>3. CASE \E p \in Twos : size = Mega * p /\ (max = size \/ (max = 2 * size /\ max > avail))
    <3>1. PICK p \in Twos : size = Mega * p /\ (max = size \/ (max = 2 * size /\ max > avail))
      BY <2>3
    <3>2. delta' = p \div 2
      BY <2>1, <3>1, HalfOfTwo
    <3>3. Rest' = size
      <4>1. CASE p = 1
        BY <1>1, <3>1, <3>2, <4>1, HalfOfTwo DEF Rest
      <4>2. CASE p # 1
        <5>1. PICK h \in Twos : h = p \div 2 /\ p = 2 * h
          BY <4>2, HalfOfTwo
        <5>2. h \in Nat /\ h > 0
          BY HalfOfTwo
        <5>3. 2 * h * Mega = Mega * p
          BY <1>1, <5>1, <5>2
        <5> QED
          BY <3>1, <3>2, <5>1, <5>2, <5>3 DEF Rest
      <4> QED
        BY <4>1, <4>2
    <3>4. delta' \in Twos \union {0}
      BY <3>2, HalfOfTwo
    <3>5. size > 0
      BY <1>1, <3>1, HalfOfTwo
    <3>6. Exhausted(Rest)'
      BY <1>1, <2>1, <3>1, <3>3, <3>5 DEF Exhausted
    <3> QED
      BY <2>1, <3>4, <3>6 DEF Narrowed
  <2> QED
    BY <1>0, <2>2, <2>3
<1>6. CASE ~answer
  <2>0. max' = size /\ size' = size \div 2 /\ memAt' = memAt
    BY <1>2, <1>6, Zenon
  <2>1. size > avail /\ max' = size /\ size' = size \div 2 /\ memAt' = "down"
    <3>1. ~(size <= avail)
      BY <1>3, <1>6, Zenon
    <3> QED
      BY <1>1, <2>0, <3>1
  <2>2. CASE TooSmall
    BY <1>1, <2>1, <2>2 DEF TooSmall, Halved
  <2>3. CASE \E p \in Twos : size = Mega * p
    <3>1. PICK p \in Twos : size = Mega * p
      BY <2>3
    <3>2. CASE p = 1
      <4>1. size' = Mega \div 2
        BY <2>1, <3>1, <3>2, HalfOfTwo
      <4>2. TooSmall'
        BY <1>1, <4>1 DEF TooSmall
      <4> QED
        BY <2>1, <4>2 DEF Halved
    <3>3. CASE p # 1
      <4>1. PICK h \in Twos : h = p \div 2 /\ p = 2 * h
        BY <3>3, HalfOfTwo
      <4>2. h \in Nat /\ size' = Mega * h
        BY <2>1, <3>1, <3>3, <4>1, HalfOfTwo
      <4>3. max' = 2 * size'
        BY <1>1, <2>1, <3>1, <4>1, <4>2
      <4>4. size' \in Nat /\ max' > avail'
        BY <1>1, <2>1
      <4>5. Halved'
        BY <4>1, <4>2, <4>3, <4>4, Zenon DEF Halved
      <4> QED
        BY <2>1, <4>5
    <3> QED
      BY <3>2, <3>3
  <2> QED
    BY <1>0, <2>2, <2>3
<1> QED
  BY <1>5, <1>6

\* A part that is taken, refused or not tried leaves half of it to be tried.
LEMMA SearchGrow ==
  ASSUME SearchInv, Grow
  PROVE  Search'
<1>1. /\ size \in Nat /\ max \in Nat /\ avail \in Nat /\ delta \in Nat /\ unlucky \in BOOLEAN
      /\ Mega \in Nat /\ Mega > 0 /\ memAt = "up" /\ delta > 0
      /\ memAt' = memAt /\ avail' = avail /\ given' = given /\ max' = max
      /\ delta' = delta \div 2
  BY MegaIsPositive DEF SearchInv, MemInv, MemTypes, Grow
<1> SUFFICES ASSUME ~unlucky', PowerOfTwoMegas(Wanted)'
             PROVE  Narrowed'
  BY <1>1 DEF Search
<1> DEFINE more == delta * Mega
<1>2. more \in Nat
  BY <1>1
<1>3. /\ ~unlucky
      /\ \/ size + more > max /\ size' = size
         \/ size + more <= avail /\ size' = size + more
         \/ size + more > avail /\ size' = size
  <2>1. CASE size + more > max /\ UNCHANGED <<size, unlucky>>
    BY <1>1, <2>1
  <2>2. CASE \E answer \in BOOLEAN : /\ test_malloc(size + more, answer)
                                     /\ size' = IF answer THEN size + more ELSE size
    <3>1. PICK answer \in BOOLEAN : /\ test_malloc(size + more, answer)
                                    /\ size' = IF answer THEN size + more ELSE size
      BY <2>2
    <3>2. ~unlucky /\ answer = (size + more <= avail)
      BY <3>1 DEF test_malloc
    <3>3. CASE answer
      BY <3>1, <3>2, <3>3, Zenon
    <3>4. CASE ~answer
      <4>1. ~(size + more <= avail) /\ size' = size
        BY <3>1, <3>2, <3>4, Zenon
      <4> QED
        BY <1>1, <1>2, <3>2, <4>1
    <3> QED
      BY <3>3, <3>4
  <2> QED
    BY <2>1, <2>2, Zenon DEF Grow
<1>4. delta \in Twos /\ Exhausted(2 * delta * Mega)
  BY <1>1, <1>3 DEF SearchInv, Search, PowerOfTwoMegas, Wanted, Narrowed, Rest
<1>5. 2 * delta * Mega = more + more
  BY <1>1
<1>6. delta' \in Twos \union {0} /\ Rest' = more
  <2>1. CASE delta = 1
    BY <1>1, <1>4, <2>1, HalfOfTwo DEF Rest
  <2>2. CASE delta # 1
    <3>1. PICK h \in Twos : h = delta \div 2 /\ delta = 2 * h
      BY <1>4, <2>2, HalfOfTwo
    <3>2. h \in Nat /\ h > 0
      BY HalfOfTwo
    <3> QED
      BY <1>1, <3>1, <3>2 DEF Rest
  <2> QED
    BY <2>1, <2>2
<1> HIDE DEF more
<1>7. size <= avail /\ (size + (more + more) > avail \/ size + (more + more) > max)
  BY <1>4, <1>5 DEF Exhausted
<1>8. Exhausted(Rest)'
  BY <1>1, <1>2, <1>3, <1>6, <1>7 DEF Exhausted
<1> QED
  BY <1>6, <1>8 DEF Narrowed

\* Halving keeps to powers of two, growing to what is left over.
LEMMA SearchStep == SearchInv /\ [MemNext]_memVars => SearchInv'
<1> SUFFICES ASSUME SearchInv, [MemNext]_memVars PROVE SearchInv'
  OBVIOUS
<1>1. MemInv'
  BY HalveInv, GrowInv, TakeInv, TouchInv, AllTouchedInv, MemStutter DEF MemNext, SearchInv
<1>2. given' \in Nat /\ avail' \in Nat /\ unlucky' \in BOOLEAN
  BY DEF SearchInv, MemNext, Halve, Grow, Take, Touch, AllTouched, memVars, test_malloc
<1>3. Search'
  <2>1. CASE Halve
    BY <2>1, SearchHalve
  <2>2. CASE Grow
    BY <2>2, SearchGrow
  <2>3. CASE Take
    <3>1. /\ size \in Nat /\ Mega \in Nat /\ Mega >= 64 /\ memAt = "up" /\ delta = 0
          /\ UNCHANGED <<avail, unlucky, given, size, max, delta>>
          /\ memAt' \in {"done", "touch"}
      BY <2>3, MemSizeAssumption DEF Take, SearchInv, MemInv, MemTypes
    <3>2. memAt' = "touch" => ~TooSmall
      <4>1. memAt' = "touch" => size >= Mega - Mega \div 64
        BY <2>3, <3>1 DEF Take
      <4>2. 2 * (Mega - Mega \div 64) > Mega
        BY <3>1
      <4>3. Mega - Mega \div 64 \in Int
        BY <3>1
      <4> DEFINE m == Mega - Mega \div 64
      <4> HIDE DEF m
      <4>4. m \in Int /\ 2 * m > Mega /\ (memAt' = "touch" => size >= m)
        BY <4>1, <4>2, <4>3 DEF m
      <4> QED
        BY <3>1, <4>4 DEF TooSmall
    <3>3. ~unlucky /\ PowerOfTwoMegas(Wanted) => Narrowed
      BY <3>1 DEF SearchInv, Search
    <3> QED
      BY <3>1, <3>2, <3>3 DEF Search, Narrowed, Rest, Exhausted, PowerOfTwoMegas, Wanted
  <2>4. CASE Touch \/ AllTouched
    <3>1. memAt = "touch" /\ UNCHANGED <<avail, unlucky, given, max>>
          /\ (memAt' = "done" \/ (memAt' = "touch" /\ size' = size))
      BY <2>4 DEF Touch, AllTouched
    <3> QED
      BY <3>1 DEF SearchInv, Search, Exhausted, PowerOfTwoMegas, Wanted
  <2>5. CASE UNCHANGED memVars
    BY <2>5 DEF SearchInv, Search, Halved, Narrowed, TooSmall, Exhausted, Rest,
                PowerOfTwoMegas, Wanted, memVars
  <2> QED
    BY <2>1, <2>2, <2>3, <2>4, <2>5 DEF MemNext
<1> QED
  BY <1>1, <1>2, <1>3 DEF SearchInv

(* The size that memsize begins to touch is within a megabyte of what      *)
(* malloc() gives, or of a power of two that was asked for, if fork()      *)
(* never failed: for every power of two and everything malloc() may give.  *)
THEOREM WithinAMegabyte == MemSpec => []LargestFound
<1>1. SearchInv => LargestFound
  BY DEF SearchInv, Search, LargestFound, Exhausted, Wanted
<1> QED
  BY <1>1, SearchInit, SearchStep, PTL DEF MemSpec

-----------------------------------------------------------------------------
(* cache: the ratios                                                       *)

USE CacheAssumption DEF CacheAssumption

CacheTypes ==
  /\ cacheAt \in {"alloc", "ends", "search", "find", "done"}
  /\ samples \in 1..MaxSamples
  /\ latency \in [Indices -> Nat \union {-1}]
  /\ ratio \in [Indices -> Int \X Int]
  /\ calls \in Seq(Indices \X Indices)

\* The ratios of the samples from b on agree.
Agrees(p) ==
  latency[p[1]] > 0 => ratio[p[1]][1] * latency[p[1]] = latency[p[2]] * ratio[p[1]][2]
AgreeFrom(b) == \A p \in Neighbours : p[1] >= b => Agrees(p)

\* A call of search() that is still to be made: its ends have been measured and
\* nothing in between. They are the same sample only if there is no other.
Open(c) ==
  /\ c[1] <= c[2] /\ (c[1] = c[2] => samples = 1) /\ c[2] < samples /\ latency[c[1]] >= 0 /\ latency[c[2]] >= 0
  /\ \A k \in Indices : c[1] < k /\ k < c[2] => latency[k] = -1

\* The calls go down from the right to the first sample, each from where the one
\* before it began, and what lies right of them is finished.
Pending ==
  /\ \A n \in 1..Len(calls) : Open(calls[n])
  /\ \A m, n \in 1..Len(calls) : m < n => calls[n][2] <= calls[m][1]
  /\ \A n \in 1..Len(calls)-1 : calls[n][1] = calls[n+1][2]
  /\ calls # <<>> => calls[Len(calls)][1] = 0
  /\ AgreeFrom(IF calls = <<>> THEN 0 ELSE calls[1][2])

CacheInv ==
  /\ CacheTypes
  /\ cacheAt = "alloc" => \A k \in Indices : latency[k] = -1
  /\ cacheAt = "ends" =>
       /\ latency[0] >= 0
       /\ \A k \in Indices : 0 < k /\ k < samples - 1 => latency[k] = -1
  /\ cacheAt = "search" => Pending
  /\ Done => AgreeFrom(0)

LEMMA CacheInitInv == CacheInit => CacheInv
<1> SUFFICES ASSUME CacheInit PROVE CacheInv
  OBVIOUS
<1>1. /\ cacheAt = "alloc" /\ samples = MaxSamples /\ calls = <<>>
      /\ latency = [k \in Indices |-> -1] /\ ratio = [k \in Indices |-> <<-1, 1>>]
  BY DEF CacheInit, CacheEmpty, NoRatio
<1>2. CacheTypes
  BY <1>1 DEF CacheTypes, Indices
<1> QED
  BY <1>1, <1>2 DEF CacheInv, Done

\* The first samples: only the ends are measured.
LEMMA EndsInv == CacheInv /\ (Allocate \/ AgainTheLast) => CacheInv'
<1> SUFFICES ASSUME CacheInv, Allocate \/ AgainTheLast PROVE CacheInv'
  OBVIOUS
<1>1. CacheTypes /\ 0 \in Indices
  BY DEF CacheInv, CacheTypes, Indices
<1>2. CASE Allocate
  <2>0. PICK n \in 1..MaxSamples : n = samples'
    BY <1>2, Zenon DEF Allocate
  <2>1. PICK first \in Latencies, last \in Latencies :
          latency' = [latency EXCEPT ![0] = first, ![n - 1] = last]
    BY <1>2, <2>0, Zenon DEF Allocate
  <2>2. /\ cacheAt' = "ends" /\ UNCHANGED <<ratio, calls>>
        /\ \A k \in Indices : latency[k] = -1
    BY <1>2, Zenon DEF Allocate, CacheInv
  <2>3. first \in Nat /\ last \in Nat /\ n - 1 \in Indices
    BY DEF Indices
  <2>4. /\ latency' \in [Indices -> Nat \union {-1}]
        /\ \A k \in Indices : latency'[k] = IF k = n - 1 THEN last
                                            ELSE IF k = 0 THEN first ELSE latency[k]
    BY <1>1, <2>1, <2>3 DEF CacheTypes
  <2>5. /\ latency'[0] >= 0
        /\ \A k \in Indices : 0 < k /\ k < n - 1 => latency'[k] = -1
    BY <1>1, <2>2, <2>3, <2>4
  <2>6. CacheTypes'
    BY <1>1, <2>0, <2>2, <2>4 DEF CacheTypes
  <2>7. \A k \in Indices : 0 < k /\ k < samples' - 1 => latency'[k] = -1
    BY <2>0, <2>5, Zenon
  <2> QED
    BY <2>2, <2>5, <2>6, <2>7, Zenon DEF CacheInv, Done
<1>3. CASE AgainTheLast
  <2>1. PICK l \in Latencies : latency' = [latency EXCEPT ![samples - 1] = l]
    BY <1>3 DEF AgainTheLast
  <2>2. /\ samples > 1 /\ samples' = samples - 1 /\ cacheAt = "ends" /\ cacheAt' = "ends"
        /\ UNCHANGED <<ratio, calls>>
    BY <1>3 DEF AgainTheLast
  <2>3. /\ l \in Nat /\ samples - 1 \in Indices /\ samples' \in 1..MaxSamples
        /\ samples \in Nat /\ latency[0] >= 0
        /\ \A k \in Indices : 0 < k /\ k < samples - 1 => latency[k] = -1
    BY <1>1, <2>2 DEF CacheInv, CacheTypes, Indices
  <2>4. /\ latency' \in [Indices -> Nat \union {-1}]
        /\ \A k \in Indices : latency'[k] = IF k = samples - 1 THEN l ELSE latency[k]
    BY <1>1, <2>1, <2>3 DEF CacheTypes
  <2>5. /\ latency'[0] >= 0
        /\ \A k \in Indices : 0 < k /\ k < samples' - 1 => latency'[k] = -1
    <3>1. \A k \in Indices : k \in Int
      BY DEF Indices
    <3> QED
      BY <1>1, <2>2, <2>3, <2>4, <3>1
  <2>6. CacheTypes'
    BY <1>1, <2>2, <2>3, <2>4 DEF CacheTypes
  <2> QED
    BY <2>2, <2>5, <2>6, Zenon DEF CacheInv, Done
<1> QED
  BY <1>2, <1>3

LEMMA StartSearchInv == CacheInv /\ StartSearch => CacheInv'
<1> SUFFICES ASSUME CacheInv, StartSearch PROVE CacheInv'
  OBVIOUS
<1>1. /\ CacheTypes /\ cacheAt' = "search" /\ calls' = << <<0, samples - 1>> >>
      /\ UNCHANGED <<samples, latency, ratio>> /\ latency[0] >= 0 /\ latency[samples - 1] > 0
      /\ \A k \in Indices : 0 < k /\ k < samples - 1 => latency[k] = -1
  BY DEF CacheInv, StartSearch
<1>2. 0 \in Indices /\ samples - 1 \in Indices /\ samples \in Int
  BY <1>1 DEF CacheTypes, Indices
<1>3. CacheTypes'
  BY <1>1, <1>2 DEF CacheTypes, Indices
<1>4. Len(calls') = 1 /\ calls'[1] = <<0, samples - 1>> /\ calls' # <<>>
  BY <1>1
<1>5. Open(calls[1])'
  <2>1. calls'[1][1] = 0 /\ calls'[1][2] = samples - 1
    BY <1>4
  <2>2. latency'[calls'[1][1]] >= 0 /\ latency'[calls'[1][2]] >= 0
    <3>1. latency[0] >= 0 /\ latency[samples - 1] >= 0
      BY <1>1, <1>2 DEF CacheTypes
    <3> QED
      BY <1>1, <2>1, <3>1, Zenon
  <2>3. /\ calls'[1][1] <= calls'[1][2] /\ calls'[1][2] < samples'
        /\ calls'[1][1] = calls'[1][2] => samples' = 1
    BY <1>1, <1>2, <2>1 DEF Indices
  <2>4. \A k \in Indices : calls'[1][1] < k /\ k < calls'[1][2] => latency'[k] = -1
    BY <1>1, <2>1
  <2> QED
    BY <2>2, <2>3, <2>4 DEF Open
<1>6. AgreeFrom(samples - 1)'
  BY <1>1, <1>2 DEF AgreeFrom, Neighbours, Measured
<1>7. Pending'
  <2>1. AgreeFrom(IF calls = <<>> THEN 0 ELSE calls[1][2])'
    BY <1>1, <1>4, <1>6
  <2>2. calls'[Len(calls')][1] = 0
    BY <1>4
  <2>3. \A n \in 1..Len(calls') : n = 1
    BY <1>4
  <2> QED
    BY <1>4, <1>5, <2>1, <2>2, <2>3 DEF Pending
<1> QED
  BY <1>1, <1>3, <1>7 DEF CacheInv, Done

\* What a call of search() does to its samples: it changes only the left one and
\* the middle, and if it stops it has left its ends with a ratio that agrees.
SearchEffect(left, middle, right) ==
  /\ latency' \in [Indices -> Nat \union {-1}]
  /\ ratio' \in [Indices -> Int \X Int]
  /\ latency'[left] >= 0
  /\ \A k \in Indices : k # left => ratio'[k] = ratio[k]
  /\ \A k \in Indices : k # left /\ k # middle => latency'[k] = latency[k]
Splits(left, middle, right) ==
  /\ left < middle /\ middle < right /\ latency'[middle] >= 0
  /\ calls' = << <<middle, right>>, <<left, middle>> >> \o Tail(calls)
Stops(left, right) ==
  /\ calls' = Tail(calls)
  /\ \A k \in Indices : k # left => latency'[k] = latency[k]
  /\ latency'[left] > 0 /\ left < right =>
       ratio'[left][1] * latency'[left] = latency'[right] * ratio'[left][2]

\* A call splits its range, or stops at it.
LEMMA SearchDoes ==
  ASSUME CacheTypes, search, NEW left \in Indices, NEW right \in Indices,
         Head(calls) = <<left, right>>, left <= right,
         latency[left] >= 0, latency[right] >= 0
  PROVE  \E middle \in Indices :
           /\ left <= middle /\ middle <= right
           /\ SearchEffect(left, middle, right)
           /\ Splits(left, middle, right) \/ Stops(left, right)
<1> DEFINE m == left + (right - left) \div 2
           r == NewRatio(left, right)
           lat == IF Bad(left, right) THEN [latency EXCEPT ![left] = latency[right]] ELSE latency
<1>1. m \in Indices /\ m \in Nat /\ left <= m /\ m <= right
  BY DEF Indices
<1>2. /\ latency \in [Indices -> Nat \union {-1}] /\ ratio \in [Indices -> Int \X Int]
      /\ latency[left] \in Nat /\ latency[right] \in Nat
  BY DEF CacheTypes
<1>3. /\ ratio' = [ratio EXCEPT ![left] = r]
      /\ IF m # left /\ m # right /\ (Above(r, 135) \/ Below(r, 97))
         THEN /\ \E l \in Latencies : latency' = [lat EXCEPT ![m] = l]
              /\ calls' = Halves(left, m, right, Tail(calls))
         ELSE latency' = lat /\ calls' = Tail(calls)
  <2>1. Head(calls)[1] = left /\ Head(calls)[2] = right
    OBVIOUS
  <2>2. Call(Head(calls)[1], Head(calls)[2])
    BY DEF search
  <2>3. Call(left, right)
    BY <2>1, <2>2, Zenon
  <2> QED
    BY <2>3, Zenon DEF Call
<1>4. /\ lat \in [Indices -> Nat \union {-1}] /\ lat[left] \in Nat
      /\ \A k \in Indices : k # left => lat[k] = latency[k]
  BY <1>2
<1>5. r \in Int \X Int
  BY <1>2 DEF NewRatio, Compared
<1>6. lat[left] > 0 /\ left < right => r[1] * lat[left] = latency[right] * r[2]
  <2>1. CASE latency[left] = 0
    BY <1>2, <2>1 DEF Bad
  <2>2. CASE latency[left] > 0 /\ Bad(left, right)
    <3>1. r = <<1, 1>> /\ lat[left] = latency[right]
      BY <1>2, <2>2 DEF NewRatio
    <3> HIDE DEF r, lat
    <3> QED
      BY <1>2, <3>1
  <2>3. CASE latency[left] > 0 /\ ~Bad(left, right)
    <3>1. r = <<latency[right], latency[left]>> /\ lat[left] = latency[left]
      BY <1>2, <2>3 DEF NewRatio, Compared
    <3> HIDE DEF r, lat
    <3> QED
      BY <1>2, <3>1
  <2> QED
    BY <1>2, <2>1, <2>2, <2>3
<1> HIDE DEF m, r, lat
<1>7. /\ ratio' \in [Indices -> Int \X Int] /\ ratio'[left] = r
      /\ \A k \in Indices : k # left => ratio'[k] = ratio[k]
  BY <1>2, <1>3, <1>5
<1>8. CASE m # left /\ m # right /\ (Above(r, 135) \/ Below(r, 97))
  <2>1. PICK l \in Latencies : latency' = [lat EXCEPT ![m] = l]
    BY <1>3, <1>8
  <2>2. l \in Nat
    OBVIOUS
  <2>3. /\ latency' \in [Indices -> Nat \union {-1}] /\ latency'[m] = l
        /\ \A k \in Indices : k # m => latency'[k] = lat[k]
    BY <1>1, <1>4, <2>1, <2>2
  <2>4. SearchEffect(left, m, right)
    BY <1>4, <1>7, <1>8, <2>3 DEF SearchEffect
  <2>5. left < m /\ m < right
    BY <1>1, <1>8 DEF Indices
  <2>6. Splits(left, m, right)
    <3>1. calls' = << <<m, right>>, <<left, m>> >> \o Tail(calls)
      BY <1>3, <1>8, Zenon DEF Halves
    <3>2. latency'[m] >= 0
      BY <2>2, <2>3
    <3> QED
      BY <2>5, <3>1, <3>2 DEF Splits
  <2> QED
    BY <1>1, <2>4, <2>6
<1>9. CASE ~(m # left /\ m # right /\ (Above(r, 135) \/ Below(r, 97)))
  <2>1. latency' = lat /\ calls' = Tail(calls)
    BY <1>3, <1>9
  <2>2. SearchEffect(left, m, right)
    BY <1>4, <1>7, <2>1 DEF SearchEffect
  <2>3. latency'[left] > 0 /\ left < right =>
          ratio'[left][1] * latency'[left] = latency'[right] * ratio'[left][2]
    <3> SUFFICES ASSUME latency'[left] > 0, left < right
                 PROVE  ratio'[left][1] * latency'[left] = latency'[right] * ratio'[left][2]
      OBVIOUS
    <3>1. right # left
      BY DEF Indices
    <3>2. latency'[right] = latency[right]
      BY <1>4, <2>1, <3>1
    <3> QED
      BY <1>6, <1>7, <2>1, <3>2
  <2>4. Stops(left, right)
    BY <1>4, <2>1, <2>3 DEF Stops
  <2> QED
    BY <1>1, <2>2, <2>4
<1> QED
  BY <1>8, <1>9

\* A call that lies left of the one that is made stays as it is.
LEMMA StaysOpen ==
  ASSUME CacheTypes, NEW left \in Indices, NEW middle \in Indices, NEW right \in Indices,
         SearchEffect(left, middle, right), left <= middle, samples' = samples,
         NEW c \in Indices \X Indices, Open(c), c[2] <= left
  PROVE  Open(c)'
<1> DEFINE a == c[1]
           b == c[2]
<1>1. a \in Indices /\ b \in Indices /\ \A k \in Indices : k \in Int
  BY DEF Indices
<1>2. /\ a <= b /\ (a = b => samples = 1) /\ b < samples /\ latency[a] >= 0 /\ latency[b] >= 0
      /\ \A k \in Indices : a < k /\ k < b => latency[k] = -1
  BY DEF Open
<1>3. b <= left
  OBVIOUS
<1> HIDE DEF a, b
<1>4. \A k \in Indices : k < left => latency'[k] = latency[k]
  BY <1>1 DEF SearchEffect
<1>5. latency'[left] >= 0
  BY DEF SearchEffect
<1>6. latency'[a] >= 0
  <2>1. CASE a = left
    BY <1>5, <2>1
  <2>2. CASE a # left
    BY <1>1, <1>2, <1>3, <1>4, <2>2
  <2> QED
    BY <2>1, <2>2
<1>7. latency'[b] >= 0
  <2>1. CASE b = left
    BY <1>5, <2>1
  <2>2. CASE b # left
    BY <1>1, <1>2, <1>3, <1>4, <2>2
  <2> QED
    BY <2>1, <2>2
<1>8. \A k \in Indices : a < k /\ k < b => latency'[k] = -1
  BY <1>1, <1>2, <1>3, <1>4
<1>9. a <= b /\ (a = b => samples' = 1) /\ b < samples'
  BY <1>2
<1> QED
  BY <1>6, <1>7, <1>8, <1>9, Zenon DEF Open, a, b

\* What is finished right of a call stays finished.
LEMMA RightOf ==
  ASSUME CacheTypes, NEW left \in Indices, NEW middle \in Indices, NEW right \in Indices,
         SearchEffect(left, middle, right), samples' = samples, AgreeFrom(right),
         left < right, middle <= right, latency[right] >= 0,
         middle = right => latency'[middle] = latency[middle]
  PROVE  \A p \in Neighbours' : p[1] >= right => Agrees(p)'
<1> SUFFICES ASSUME NEW p \in Neighbours', p[1] >= right
             PROVE  Agrees(p)'
  OBVIOUS
<1> DEFINE a == p[1]
           b == p[2]
<1>1. /\ a \in 0..samples-1 /\ b \in 0..samples-1 /\ latency'[a] >= 0 /\ latency'[b] >= 0
      /\ a < b /\ \A k \in Measured' : k <= a \/ k >= b
      /\ p \in (0..samples-1) \X (0..samples-1)
  BY DEF Neighbours, Measured
<1>2. a >= right
  OBVIOUS
<1>3. samples \in Nat /\ samples <= MaxSamples /\ \A k \in 0..samples-1 : k \in Indices /\ k \in Nat
  BY DEF CacheTypes, Indices
<1> HIDE DEF a, b
<1>4. \A k \in 0..samples-1 : k >= right => latency'[k] = latency[k] /\ ratio'[k] = ratio[k]
  <2> SUFFICES ASSUME NEW k \in 0..samples-1, k >= right
               PROVE  latency'[k] = latency[k] /\ ratio'[k] = ratio[k]
    OBVIOUS
  <2>1. k \in Indices /\ k # left /\ (k = middle => middle = right)
    BY <1>3 DEF Indices
  <2> QED
    BY <2>1 DEF SearchEffect
<1>5. latency'[a] = latency[a] /\ latency'[b] = latency[b] /\ ratio'[a] = ratio[a]
  <2>1. b >= right
    BY <1>1, <1>2, <1>3 DEF Indices
  <2> QED
    BY <1>1, <1>2, <1>4, <2>1
<1>6. p \in Neighbours
  <2>1. a \in Measured /\ b \in Measured
    BY <1>1, <1>5 DEF Measured
  <2>2. \A k \in Measured : k <= a \/ k >= b
    <3> SUFFICES ASSUME NEW k \in Measured
                 PROVE  k <= a \/ k >= b
      OBVIOUS
    <3>1. k \in 0..samples-1 /\ k \in Nat
      BY <1>3 DEF Measured
    <3>2. CASE k <= right
      BY <1>1, <1>2, <1>3, <3>1, <3>2 DEF Indices
    <3>3. CASE k > right
      <4>1. latency'[k] = latency[k] /\ latency[k] >= 0
        BY <1>4, <3>1, <3>3 DEF Indices, Measured
      <4>2. k \in Measured'
        BY <3>1, <4>1 DEF Measured
      <4> QED
        BY <1>1, <4>2
    <3> QED
      BY <3>1, <3>2, <3>3 DEF Indices
  <2>3. p \in Measured \X Measured
    BY <1>1, <2>1 DEF a, b
  <2>4. p[1] < p[2] /\ \A k \in Measured : k <= p[1] \/ k >= p[2]
    BY <1>1, <2>2 DEF a, b
  <2> QED
    BY <2>3, <2>4 DEF Neighbours
<1>7. Agrees(p)
  BY <1>2, <1>6 DEF AgreeFrom, a
<1>8. latency[a] > 0 => ratio[a][1] * latency[a] = latency[b] * ratio[a][2]
  BY <1>7 DEF Agrees, a, b
<1>9. latency'[a] > 0 => ratio'[a][1] * latency'[a] = latency'[b] * ratio'[a][2]
  BY <1>5, <1>8, Zenon
<1> QED
  BY <1>9 DEF Agrees, a, b

\* A call that stops leaves one sample more with a ratio that agrees.
LEMMA StopsAgree ==
  ASSUME CacheTypes, NEW left \in Indices, NEW middle \in Indices, NEW right \in Indices,
         SearchEffect(left, middle, right), left <= middle, middle <= right,
         Stops(left, right), samples' = samples, Open(<<left, right>>), AgreeFrom(right)
  PROVE  \A p \in Neighbours' : p[1] >= left => Agrees(p)'
<1>1. /\ samples \in Nat /\ \A k \in Indices : k \in Int
      /\ latency \in [Indices -> Nat \union {-1}] /\ latency' \in [Indices -> Nat \union {-1}]
  <2>1. samples \in Nat
    BY DEF CacheTypes
  <2>2. \A k \in Indices : k \in Int
    BY DEF Indices
  <2> QED
    BY <2>1, <2>2 DEF CacheTypes, SearchEffect
<1>2. /\ left <= right /\ (left = right => samples = 1) /\ right < samples
      /\ latency[left] >= 0 /\ latency[right] >= 0
      /\ \A k \in Indices : left < k /\ k < right => latency[k] = -1
  <2>1. PICK c : c = <<left, right>>
    OBVIOUS
  <2>2. c[1] = left /\ c[2] = right
    BY <2>1
  <2>3. Open(c)
    BY <2>1, Zenon
  <2> QED
    BY <2>2, <2>3, Zenon DEF Open
<1>3. \A p \in Neighbours' : /\ p[1] \in 0..samples-1 /\ p[2] \in 0..samples-1
                             /\ p[1] \in Indices /\ p[2] \in Indices
                             /\ latency'[p[1]] >= 0 /\ latency'[p[2]] >= 0 /\ p[1] < p[2]
                             /\ \A k \in Measured' : k <= p[1] \/ k >= p[2]
  <2> SUFFICES ASSUME NEW p \in Neighbours'
               PROVE  /\ p[1] \in 0..samples-1 /\ p[2] \in 0..samples-1
                      /\ p[1] \in Indices /\ p[2] \in Indices
                      /\ latency'[p[1]] >= 0 /\ latency'[p[2]] >= 0 /\ p[1] < p[2]
                      /\ \A k \in Measured' : k <= p[1] \/ k >= p[2]
    OBVIOUS
  <2>1. /\ p[1] \in Measured' /\ p[2] \in Measured' /\ p[1] < p[2]
        /\ \A k \in Measured' : k <= p[1] \/ k >= p[2]
    BY DEF Neighbours
  <2>2. \A k \in Measured' : k \in 0..samples-1 /\ latency'[k] >= 0
    BY DEF Measured
  <2>3. \A k \in 0..samples-1 : k \in Indices
    BY DEF CacheTypes, Indices
  <2> QED
    BY <2>1, <2>2, <2>3
<1>4. CASE left = right
  <2>1. samples = 1
    BY <1>2, <1>4
  <2>2. Neighbours' = {}
    BY <1>3, <2>1
  <2> QED
    BY <2>2
<1>5. CASE left # right
  <2>1. left < right /\ (middle = right => latency'[middle] = latency[middle])
    BY <1>1, <1>2, <1>5 DEF Stops
  <2>2. \A p \in Neighbours' : p[1] >= right => Agrees(p)'
    BY <1>2, <2>1, RightOf
  <2> SUFFICES ASSUME NEW p \in Neighbours', p[1] >= left, ~(p[1] >= right)
               PROVE  Agrees(p)'
    BY <2>2
  <2> DEFINE a == p[1]
             b == p[2]
  <2>3. /\ a \in Indices /\ b \in Indices /\ a \in Int /\ b \in Int
        /\ latency'[a] >= 0 /\ latency'[b] >= 0 /\ a < b
        /\ \A k \in Measured' : k <= a \/ k >= b
    BY <1>1, <1>3
  <2>4. a >= left /\ ~(a >= right)
    OBVIOUS
  <2> HIDE DEF a, b
  <2>5. \A k \in Indices : k # left => latency'[k] = latency[k]
    BY DEF Stops
  <2>6. a = left
    <3>1. left < a => latency'[a] = -1
      BY <1>1, <1>2, <2>3, <2>4, <2>5
    <3> QED
      BY <1>1, <2>3, <2>4, <3>1
  <2>7. b = right
    <3>1. right \in Measured'
      <4>1. latency'[right] >= 0
        BY <1>2, <1>5, <2>5
      <4>2. right \in 0..samples-1
        BY <1>1, <1>2 DEF Indices
      <4> QED
        BY <4>1, <4>2 DEF Measured
    <3>2. b <= right
      BY <1>1, <2>1, <2>3, <2>6, <3>1
    <3>3. b < right => latency'[b] = -1
      BY <1>1, <1>2, <2>3, <2>5, <2>6
    <3> QED
      BY <1>1, <2>3, <3>2, <3>3
  <2>8. latency'[a] > 0 => ratio'[a][1] * latency'[a] = latency'[b] * ratio'[a][2]
    BY <2>1, <2>6, <2>7, Zenon DEF Stops
  <2> QED
    BY <2>8 DEF Agrees, a, b
<1> QED
  BY <1>4, <1>5

\* Two calls, and those that were there behind the first.
LEMMA TailOf ==
  ASSUME NEW S, NEW s \in Seq(S), s # <<>>
  PROVE  /\ Tail(s) \in Seq(S) /\ Len(s) \in Nat /\ Len(s) >= 1 /\ Len(Tail(s)) = Len(s) - 1
         /\ \A n \in 1..Len(s)-1 : Tail(s)[n] = s[n+1]
<1>1. /\ Tail(s) \in Seq(S) /\ Len(Tail(s)) = Len(s) - 1
      /\ \A n \in 1..Len(Tail(s)) : Tail(s)[n] = s[n+1]
  BY HeadTailProperties
<1>2. Len(s) \in Nat /\ Len(Tail(s)) \in Nat
  BY <1>1, LenProperties
<1> QED
  BY <1>1, <1>2

\* A sequence with two more elements in front.
LEMMA TwoBefore ==
  ASSUME NEW S, NEW a \in S, NEW b \in S, NEW t \in Seq(S), NEW c, c = <<a, b>> \o t
  PROVE  /\ c \in Seq(S) /\ Len(c) = Len(t) + 2 /\ c[1] = a /\ c[2] = b
         /\ \A n \in 3..Len(c) : c[n] = t[n-2]
<1>1. <<a, b>> \in Seq(S) /\ Len(<<a, b>>) = 2 /\ <<a, b>>[1] = a /\ <<a, b>>[2] = b
  OBVIOUS
<1> DEFINE u == <<a, b>>
<1> HIDE DEF u
<1>2. /\ u \o t \in Seq(S) /\ Len(u \o t) = Len(u) + Len(t)
      /\ \A n \in 1..Len(u) + Len(t) : (u \o t)[n] = IF n <= Len(u) THEN u[n] ELSE t[n - Len(u)]
  BY <1>1, ConcatProperties DEF u
<1>3. c = u \o t /\ Len(u) = 2 /\ u[1] = a /\ u[2] = b /\ Len(t) \in Nat
  BY <1>1, LenProperties DEF u
<1>4. \A n \in 1..2 + Len(t) : c[n] = IF n <= 2 THEN u[n] ELSE t[n - 2]
  BY <1>2, <1>3
<1>5. c[1] = u[1] /\ c[2] = u[2]
  BY <1>3, <1>4
<1>6. Len(c) = Len(t) + 2 /\ \A n \in 3..Len(c) : c[n] = t[n-2]
  BY <1>2, <1>3, <1>4
<1> QED
  BY <1>2, <1>3, <1>5, <1>6

\* The calls that are still to be made after a call of search().
After(new, old, left, middle, right) ==
  /\ Len(new) = Len(old) + 1
  /\ new[1] = <<middle, right>> /\ new[2] = <<left, middle>>
  /\ \A n \in 3..Len(new) : n-1 \in 2..Len(old) /\ new[n] = old[n-1]
Without(new, old) ==
  /\ Len(new) = Len(old) - 1
  /\ \A n \in 1..Len(new) : n+1 \in 2..Len(old) /\ new[n] = old[n+1]

\* The calls after a split.
LEMMA CallsSplit ==
  ASSUME CacheTypes, calls # <<>>, NEW left \in Indices, NEW middle \in Indices,
         NEW right \in Indices, Splits(left, middle, right)
  PROVE  calls' \in Seq(Indices \X Indices) /\ After(calls', calls, left, middle, right)
<1>1. calls' = << <<middle, right>>, <<left, middle>> >> \o Tail(calls)
  BY DEF Splits
<1>2. PICK s \in Seq(Indices \X Indices) : s = calls
  BY DEF CacheTypes
<1>3. PICK c : c = << <<middle, right>>, <<left, middle>> >> \o Tail(s)
  OBVIOUS
<1>4. s # <<>>
  BY <1>2
<1> DEFINE t == Tail(s)
<1>5. /\ t \in Seq(Indices \X Indices) /\ Len(s) \in Nat /\ Len(s) >= 1 /\ Len(t) = Len(s) - 1
      /\ \A n \in 1..Len(s)-1 : t[n] = s[n+1]
  BY <1>4, TailOf
<1> HIDE DEF t
<1>6. <<middle, right>> \in Indices \X Indices /\ <<left, middle>> \in Indices \X Indices
  OBVIOUS
<1>7. c = << <<middle, right>>, <<left, middle>> >> \o t
  BY <1>3 DEF t
<1>8. /\ c \in Seq(Indices \X Indices) /\ Len(c) = Len(t) + 2
      /\ c[1] = <<middle, right>> /\ c[2] = <<left, middle>>
      /\ \A n \in 3..Len(c) : c[n] = t[n-2]
  BY <1>5, <1>6, <1>7, TwoBefore
<1>9. \A n \in 3..Len(c) : n-1 \in 2..Len(s) /\ c[n] = s[n-1]
  <2> SUFFICES ASSUME NEW n \in 3..Len(c) PROVE n-1 \in 2..Len(s) /\ c[n] = s[n-1]
    OBVIOUS
  <2>1. n-2 \in 1..Len(s)-1 /\ (n-2)+1 = n-1 /\ n-1 \in 2..Len(s)
    BY <1>5, <1>8
  <2>2. t[n-2] = s[(n-2)+1]
    BY <1>5, <2>1
  <2> QED
    BY <1>8, <2>1, <2>2
<1>10. Len(c) = Len(s) + 1
  BY <1>5, <1>8
<1>11. c = calls'
  BY <1>1, <1>2, <1>3, Zenon
<1>12. After(c, s, left, middle, right)
  BY <1>8, <1>9, <1>10, Zenon DEF After
<1> QED
  BY <1>2, <1>8, <1>11, <1>12, Zenon

\* The calls after one that stops.
LEMMA CallsStop ==
  ASSUME CacheTypes, calls # <<>>, NEW left \in Indices, NEW right \in Indices,
         Stops(left, right)
  PROVE  calls' \in Seq(Indices \X Indices) /\ Without(calls', calls)
<1>1. calls' = Tail(calls)
  BY DEF Stops
<1>2. PICK s \in Seq(Indices \X Indices) : s = calls
  BY DEF CacheTypes
<1>4. s # <<>>
  BY <1>2
<1> DEFINE t == Tail(s)
<1>5. /\ t \in Seq(Indices \X Indices) /\ Len(s) \in Nat /\ Len(s) >= 1 /\ Len(t) = Len(s) - 1
      /\ \A n \in 1..Len(s)-1 : t[n] = s[n+1]
  BY <1>4, TailOf
<1>6. t = calls'
  BY <1>1, <1>2, Zenon
<1> HIDE DEF t
<1>7. \A n \in 1..Len(t) : n+1 \in 2..Len(s) /\ t[n] = s[n+1]
  <2> SUFFICES ASSUME NEW n \in 1..Len(t) PROVE n+1 \in 2..Len(s) /\ t[n] = s[n+1]
    OBVIOUS
  <2>1. n \in 1..Len(s)-1
    BY <1>5
  <2> QED
    BY <1>5, <2>1
<1>8. Without(t, s)
  BY <1>5, <1>7, Zenon DEF Without
<1> QED
  BY <1>2, <1>5, <1>6, <1>8, Zenon

\* A call that splits its samples is replaced by two, in the place it had.
LEMMA SplitPending ==
  ASSUME CacheTypes, Pending, calls # <<>>, samples' = samples,
         NEW left \in Indices, NEW middle \in Indices, NEW right \in Indices,
         calls[1] = <<left, right>>, SearchEffect(left, middle, right),
         Splits(left, middle, right)
  PROVE  Pending'
<1>1. calls' \in Seq(Indices \X Indices) /\ After(calls', calls, left, middle, right)
  BY CallsSplit
<1>2. PICK new \in Seq(Indices \X Indices), old \in Seq(Indices \X Indices) :
        new = calls' /\ old = calls
  BY <1>1 DEF CacheTypes
<1>3. /\ Len(new) = Len(old) + 1
      /\ new[1] = <<middle, right>> /\ new[2] = <<left, middle>>
      /\ \A n \in 3..Len(new) : n-1 \in 2..Len(old) /\ new[n] = old[n-1]
  <2>1. After(new, old, left, middle, right)
    BY <1>1, <1>2, Zenon
  <2> QED
    BY <2>1, Zenon DEF After
<1>4. /\ old[1] = <<left, right>> /\ Len(old) \in Nat /\ Len(old) >= 1
      /\ \A n \in 1..Len(old) : Open(old[n]) /\ old[n] \in Indices \X Indices
      /\ \A m, n \in 1..Len(old) : m < n => old[n][2] <= old[m][1]
      /\ \A n \in 1..Len(old)-1 : old[n][1] = old[n+1][2]
      /\ old[Len(old)][1] = 0 /\ AgreeFrom(right)
  <2>1. old # <<>> /\ old[1] = <<left, right>> /\ calls[1][2] = right
    BY <1>2
  <2>2. Len(old) \in Nat /\ Len(old) >= 1 /\ \A n \in 1..Len(old) : old[n] \in Indices \X Indices
    BY <2>1
  <2>3. AgreeFrom(IF calls = <<>> THEN 0 ELSE calls[1][2])
    BY DEF Pending
  <2>4. AgreeFrom(right)
    BY <2>1, <2>3
  <2>5. /\ \A n \in 1..Len(old) : Open(old[n])
        /\ \A m, n \in 1..Len(old) : m < n => old[n][2] <= old[m][1]
        /\ \A n \in 1..Len(old)-1 : old[n][1] = old[n+1][2]
        /\ old[Len(old)][1] = 0
    BY <1>2, Zenon DEF Pending
  <2> QED
    BY <2>1, <2>2, <2>4, <2>5
<1>5. /\ left < middle /\ middle < right /\ latency'[middle] >= 0 /\ right < samples
      /\ latency[right] >= 0 /\ \A k \in Indices : left < k /\ k < right => latency[k] = -1
  <2>1. Open(old[1]) /\ old[1][1] = left /\ old[1][2] = right
    BY <1>4
  <2>2. right < samples /\ latency[right] >= 0
        /\ \A k \in Indices : left < k /\ k < right => latency[k] = -1
    BY <2>1, Zenon DEF Open
  <2> QED
    BY <2>2 DEF Splits
<1>6. samples \in Int /\ left \in Int /\ middle \in Int /\ right \in Int
  BY DEF CacheTypes, Indices
<1>17. \A k \in Indices : k \in Int
  BY DEF Indices
<1>18. \A k \in Indices : k # left /\ k # middle => latency'[k] = latency[k]
  BY DEF SearchEffect
<1>19. Len(old) \in Nat /\ Len(old) >= 1 /\ Len(new) = Len(old) + 1
  BY <1>3, <1>4
<1>7. Open(new[1])'
  <2>1. new[1][1] = middle /\ new[1][2] = right
    BY <1>3
  <2>2. latency'[right] = latency[right]
    BY <1>5, <1>6, <1>18
  <2>3. \A k \in Indices : middle < k /\ k < right => latency'[k] = -1
    BY <1>5, <1>6, <1>17, <1>18
  <2>4. middle <= right /\ (middle = right => samples' = 1) /\ right < samples'
    BY <1>5, <1>6
  <2>5. latency'[middle] >= 0 /\ latency'[right] >= 0
    BY <1>5, <2>2
  <2> QED
    BY <2>1, <2>3, <2>4, <2>5, Zenon DEF Open
<1>8. Open(new[2])'
  <2>1. new[2][1] = left /\ new[2][2] = middle
    BY <1>3
  <2>2. \A k \in Indices : left < k /\ k < middle => latency'[k] = -1
    BY <1>5, <1>6, <1>17, <1>18
  <2>3. left <= middle /\ (left = middle => samples' = 1) /\ middle < samples'
    BY <1>5, <1>6
  <2>4. latency'[left] >= 0 /\ latency'[middle] >= 0
    BY <1>5 DEF SearchEffect
  <2> QED
    BY <2>1, <2>2, <2>3, <2>4, Zenon DEF Open
<1>9. \A n \in 3..Len(new) : Open(new[n])'
  <2> SUFFICES ASSUME NEW n \in 3..Len(new) PROVE Open(new[n])'
    OBVIOUS
  <2>1. PICK c \in Indices \X Indices : c = new[n]
    BY <1>3, <1>4
  <2>2. n-1 \in 2..Len(old) /\ c = old[n-1]
    BY <1>3, <2>1
  <2>3. Open(c) /\ c[2] <= old[1][1]
    BY <1>4, <2>2
  <2>4. c[2] <= left /\ left <= middle
    BY <1>4, <1>5, <1>6, <2>3
  <2>5. Open(c)'
    BY <2>3, <2>4, StaysOpen
  <2> QED
    BY <2>1, <2>5, Zenon
<1>10. \A n \in 1..Len(new) : Open(new[n])'
  <2>1. \A n \in 1..Len(new) : n = 1 \/ n = 2 \/ n \in 3..Len(new)
    BY <1>3, <1>4
  <2> QED
    BY <1>7, <1>8, <1>9, <2>1, Zenon
<1>11. \A m, n \in 1..Len(new) : m < n => new[n][2] <= new[m][1]
  <2> SUFFICES ASSUME NEW m \in 1..Len(new), NEW n \in 1..Len(new), m < n
               PROVE  new[n][2] <= new[m][1]
    OBVIOUS
  <2>1. CASE n = 2
    <3>1. m = 1
      BY <1>3, <1>4, <2>1
    <3> QED
      BY <1>3, <1>5, <1>6, <2>1, <3>1
  <2>2. CASE n \in 3..Len(new)
    <3>1. n-1 \in 2..Len(old) /\ new[n] = old[n-1] /\ 1 < n-1
      BY <1>3, <1>4, <2>2
    <3>2. PICK x \in Int : x = old[n-1][2]
      <4>1. old[n-1] \in Indices \X Indices
        BY <1>4, <1>19, <3>1
      <4>2. old[n-1][2] \in Indices
        BY <4>1
      <4> QED
        BY <1>17, <4>2
    <3>6. x <= left
      <4>1. n-1 \in 1..Len(old) /\ 1 \in 1..Len(old) /\ old[1][1] = left
        BY <1>4, <1>19, <3>1
      <4> QED
        BY <1>4, <3>1, <3>2, <4>1
    <3>7. new[n][2] = x /\ new[1][1] = middle /\ new[2][1] = left
      BY <1>3, <3>1, <3>2
    <3>3. CASE m = 1
      BY <1>5, <1>6, <3>3, <3>6, <3>7
    <3>4. CASE m = 2
      BY <3>4, <3>6, <3>7
    <3>5. CASE m \in 3..Len(new)
      <4>1. m-1 \in 2..Len(old) /\ new[m] = old[m-1] /\ m-1 < n-1
        BY <1>3, <1>4, <3>5
      <4>2. old[n-1][2] <= old[m-1][1]
        BY <1>4, <3>1, <4>1, SMTT(60)
      <4> QED
        BY <3>1, <4>1, <4>2
    <3> QED
      BY <1>3, <1>4, <3>3, <3>4, <3>5
  <2> QED
    BY <1>3, <1>4, <2>1, <2>2
<1>12. \A n \in 1..Len(new)-1 : new[n][1] = new[n+1][2]
  <2> SUFFICES ASSUME NEW n \in 1..Len(new)-1 PROVE new[n][1] = new[n+1][2]
    OBVIOUS
  <2>1. CASE n = 1
    BY <1>3, <2>1
  <2>2. CASE n = 2
    <3>1. 3 \in 3..Len(new) /\ 2 \in 1..Len(old) /\ 1 \in 1..Len(old)-1
      BY <1>3, <1>4, <2>2
    <3>2. new[3] = old[2] /\ old[1][1] = old[2][2]
      BY <1>3, <1>4, <3>1
    <3> QED
      BY <1>3, <1>4, <2>2, <3>2
  <2>3. CASE n \in 3..Len(new)
    <3>1. n \in 3..Len(new) /\ n+1 \in 3..Len(new) /\ n-1 \in 1..Len(old)-1
      BY <1>3, <1>4, <2>3
    <3>2. new[n] = old[n-1] /\ new[n+1] = old[n]
      BY <1>3, <3>1
    <3>3. old[n-1][1] = old[n][2]
      BY <1>4, <3>1
    <3> QED
      BY <3>2, <3>3
  <2> QED
    BY <1>3, <1>4, <2>1, <2>2, <2>3
<1>13. new[Len(new)][1] = 0
  <2>1. CASE Len(old) = 1
    BY <1>3, <1>4, <2>1
  <2>2. CASE Len(old) > 1
    <3>1. Len(new) \in 3..Len(new) /\ Len(new) - 1 = Len(old)
      BY <1>3, <1>4, <2>2
    <3>2. new[Len(new)] = old[Len(old)]
      BY <1>3, <3>1
    <3> QED
      BY <1>4, <3>2
  <2>3. Len(old) = 1 \/ Len(old) > 1
    <3>1. PICK l \in Nat : l = Len(old) /\ l >= 1
      BY <1>19
    <3>2. l = 1 \/ l > 1
      BY <3>1
    <3> QED
      BY <3>1, <3>2, Zenon
  <2> QED
    BY <2>1, <2>2, <2>3, Zenon
<1>14. AgreeFrom(right)'
  <2>1. AgreeFrom(right) /\ left < right /\ middle <= right /\ latency[right] >= 0
    BY <1>4, <1>5, <1>6
  <2>2. middle = right => latency'[middle] = latency[middle]
    BY <1>5, <1>6
  <2>3. \A p \in Neighbours' : p[1] >= right => Agrees(p)'
    BY <2>1, <2>2, RightOf
  <2> QED
    BY <2>3, Zenon DEF AgreeFrom
<1>15. new # <<>> /\ new[1][2] = right
  BY <1>3, <1>4
<1>16. AgreeFrom(IF calls = <<>> THEN 0 ELSE calls[1][2])'
  <2>1. (IF calls' = <<>> THEN 0 ELSE calls'[1][2]) = right
    BY <1>2, <1>15, Zenon
  <2> QED
    BY <1>14, <2>1, Zenon DEF AgreeFrom
<1> QED
  BY <1>2, <1>10, <1>11, <1>12, <1>13, <1>16, Zenon DEF Pending

\* A call that stops is taken away, and its left sample is finished.
LEMMA StopPending ==
  ASSUME CacheTypes, Pending, calls # <<>>, samples' = samples,
         NEW left \in Indices, NEW middle \in Indices, NEW right \in Indices,
         calls[1] = <<left, right>>, SearchEffect(left, middle, right),
         left <= middle, middle <= right, Stops(left, right)
  PROVE  Pending'
<1>1. calls' \in Seq(Indices \X Indices) /\ Without(calls', calls)
  BY CallsStop
<1>2. PICK new \in Seq(Indices \X Indices), old \in Seq(Indices \X Indices) :
        new = calls' /\ old = calls
  BY <1>1 DEF CacheTypes
<1>3. Len(new) = Len(old) - 1 /\ \A n \in 1..Len(new) : n+1 \in 2..Len(old) /\ new[n] = old[n+1]
  <2>1. Without(new, old)
    BY <1>1, <1>2, Zenon
  <2> QED
    BY <2>1, Zenon DEF Without
<1>4. /\ old[1] = <<left, right>> /\ Len(old) \in Nat /\ Len(old) >= 1
      /\ \A n \in 1..Len(old) : Open(old[n]) /\ old[n] \in Indices \X Indices
      /\ \A m, n \in 1..Len(old) : m < n => old[n][2] <= old[m][1]
      /\ \A n \in 1..Len(old)-1 : old[n][1] = old[n+1][2]
      /\ old[Len(old)][1] = 0 /\ AgreeFrom(right)
  <2>1. old # <<>> /\ old[1] = <<left, right>> /\ calls[1][2] = right
    BY <1>2
  <2>2. Len(old) \in Nat /\ Len(old) >= 1 /\ \A n \in 1..Len(old) : old[n] \in Indices \X Indices
    BY <2>1
  <2>3. AgreeFrom(IF calls = <<>> THEN 0 ELSE calls[1][2])
    BY DEF Pending
  <2>4. AgreeFrom(right)
    BY <2>1, <2>3
  <2>5. /\ \A n \in 1..Len(old) : Open(old[n])
        /\ \A m, n \in 1..Len(old) : m < n => old[n][2] <= old[m][1]
        /\ \A n \in 1..Len(old)-1 : old[n][1] = old[n+1][2]
        /\ old[Len(old)][1] = 0
    BY <1>2, Zenon DEF Pending
  <2> QED
    BY <2>1, <2>2, <2>4, <2>5
<1>5. Len(old) \in Nat /\ Len(old) >= 1 /\ Len(new) = Len(old) - 1
  BY <1>3, <1>4
<1>6. \A n \in 1..Len(new) : Open(new[n])'
  <2> SUFFICES ASSUME NEW n \in 1..Len(new) PROVE Open(new[n])'
    OBVIOUS
  <2>1. PICK c \in Indices \X Indices : c = new[n]
    BY <1>3, <1>4
  <2>2. n+1 \in 2..Len(old) /\ c = old[n+1] /\ 1 < n+1
    BY <1>3, <2>1
  <2>3. Open(c) /\ c[2] <= old[1][1]
    BY <1>4, <2>2
  <2>4. c[2] <= left
    BY <1>4, <2>3
  <2>5. Open(c)'
    BY <2>3, <2>4, StaysOpen
  <2> QED
    BY <2>1, <2>5, Zenon
<1>7. \A m, n \in 1..Len(new) : m < n => new[n][2] <= new[m][1]
  <2> SUFFICES ASSUME NEW m \in 1..Len(new), NEW n \in 1..Len(new), m < n
               PROVE  new[n][2] <= new[m][1]
    OBVIOUS
  <2>1. /\ n+1 \in 1..Len(old) /\ new[n] = old[n+1] /\ m+1 \in 1..Len(old) /\ new[m] = old[m+1]
        /\ m+1 < n+1
    BY <1>3, <1>5
  <2>2. old[n+1][2] <= old[m+1][1]
    BY <1>4, <2>1
  <2> QED
    BY <2>1, <2>2
<1>8. \A n \in 1..Len(new)-1 : new[n][1] = new[n+1][2]
  <2> SUFFICES ASSUME NEW n \in 1..Len(new)-1 PROVE new[n][1] = new[n+1][2]
    OBVIOUS
  <2>1. n \in 1..Len(new) /\ n+1 \in 1..Len(new) /\ n+1 \in 1..Len(old)-1
    BY <1>5
  <2>2. new[n] = old[n+1] /\ new[n+1] = old[(n+1)+1] /\ old[n+1][1] = old[(n+1)+1][2]
    BY <1>3, <1>4, <2>1
  <2> QED
    BY <2>2
<1>9. new # <<>> => Len(new) \in 1..Len(new) /\ Len(new)+1 = Len(old) /\ 1 \in 1..Len(new)
  BY <1>5
<1>10. new # <<>> => new[Len(new)][1] = 0
  BY <1>3, <1>4, <1>9
<1>11. left = IF new = <<>> THEN 0 ELSE new[1][2]
  <2>1. CASE new = <<>>
    <3>1. Len(old) = 1
      BY <1>5, <2>1
    <3> QED
      BY <1>4, <2>1, <3>1
  <2>2. CASE new # <<>>
    <3>1. 1 \in 1..Len(new) /\ 1 \in 1..Len(old)-1
      BY <1>5, <1>9, <2>2
    <3>2. new[1] = old[1+1] /\ old[1][1] = old[1+1][2]
      BY <1>3, <1>4, <3>1
    <3> QED
      BY <1>4, <2>2, <3>2
  <2> QED
    BY <2>1, <2>2
<1>12. AgreeFrom(left)'
  <2>1. Open(<<left, right>>)
    <3>1. 1 \in 1..Len(old)
      BY <1>5
    <3> QED
      BY <1>4, <3>1, Zenon
  <2>2. AgreeFrom(right)
    BY <1>4
  <2>3. \A p \in Neighbours' : p[1] >= left => Agrees(p)'
    BY <2>1, <2>2, StopsAgree
  <2> QED
    BY <2>3, Zenon DEF AgreeFrom
<1>13. AgreeFrom(IF calls = <<>> THEN 0 ELSE calls[1][2])'
  <2>1. (IF calls' = <<>> THEN 0 ELSE calls'[1][2]) = left
    BY <1>2, <1>11, Zenon
  <2> QED
    BY <1>12, <2>1, Zenon DEF AgreeFrom
<1> QED
  BY <1>2, <1>6, <1>7, <1>8, <1>10, <1>13, Zenon DEF Pending

\* A call of search() keeps what has been found, and what is still to be found.
LEMMA SearchCallInv == CacheInv /\ search => CacheInv'
<1> SUFFICES ASSUME CacheInv, search PROVE CacheInv'
  OBVIOUS
<1>1. /\ CacheTypes /\ Pending /\ cacheAt = "search" /\ calls # <<>>
      /\ cacheAt' = "search" /\ samples' = samples
  <2>1. cacheAt = "search" /\ calls # <<>> /\ cacheAt' = cacheAt /\ samples' = samples
    BY DEF search
  <2> QED
    BY <2>1, Zenon DEF CacheInv
<1>2. PICK left \in Indices, right \in Indices :
        calls[1] = <<left, right>> /\ Head(calls) = <<left, right>>
  <2>1. calls \in Seq(Indices \X Indices) /\ calls # <<>>
    BY <1>1 DEF CacheTypes
  <2>2. Head(calls) = calls[1] /\ calls[1] \in Indices \X Indices
    BY <2>1
  <2> QED
    BY <2>2
<1>3. left <= right /\ latency[left] >= 0 /\ latency[right] >= 0
  <2>1. 1 \in 1..Len(calls)
    BY <1>1 DEF CacheTypes
  <2>2. Open(calls[1]) /\ calls[1][1] = left /\ calls[1][2] = right
    BY <1>1, <1>2, <2>1 DEF Pending
  <2> QED
    BY <2>2, Zenon DEF Open
<1>4. PICK middle \in Indices :
        /\ left <= middle /\ middle <= right
        /\ SearchEffect(left, middle, right)
        /\ Splits(left, middle, right) \/ Stops(left, right)
  BY <1>1, <1>2, <1>3, SearchDoes
<1>5. Pending' /\ calls' \in Seq(Indices \X Indices)
  <2>1. CASE Splits(left, middle, right)
    BY <1>1, <1>2, <1>4, <2>1, SplitPending, CallsSplit
  <2>2. CASE Stops(left, right)
    BY <1>1, <1>2, <1>4, <2>2, StopPending, CallsStop
  <2> QED
    BY <1>4, <2>1, <2>2
<1>6. CacheTypes'
  BY <1>1, <1>4, <1>5 DEF CacheTypes, SearchEffect
<1> QED
  BY <1>1, <1>5, <1>6 DEF CacheInv, Done

LEMMA CacheStep == CacheInv /\ [CacheNext]_cacheVars => CacheInv'
<1> SUFFICES ASSUME CacheInv, [CacheNext]_cacheVars PROVE CacheInv'
  OBVIOUS
<1>1. CASE Allocate \/ AgainTheLast
  BY <1>1, EndsInv
<1>2. CASE StartSearch
  BY <1>2, StartSearchInv
<1>3. CASE search
  BY <1>3, SearchCallInv
<1>4. CASE Searched
  <2>1. /\ CacheTypes /\ Pending /\ calls = <<>> /\ cacheAt' = "find"
        /\ UNCHANGED <<samples, latency, ratio, calls>>
    BY <1>4 DEF Searched, CacheInv
  <2>2. AgreeFrom(0)
    BY <2>1 DEF Pending
  <2> QED
    BY <2>1, <2>2 DEF CacheInv, CacheTypes, Done, AgreeFrom, Agrees, Neighbours, Measured
<1>5. CASE FindStep \/ Level \/ NoMore
  <2>1. /\ cacheAt = "find" /\ cacheAt' \in {"find", "done"}
        /\ UNCHANGED <<samples, latency, ratio, calls>>
    BY <1>5 DEF FindStep, Level, NoMore
  <2>2. CacheTypes /\ AgreeFrom(0)
    BY <2>1 DEF CacheInv, Done
  <2> QED
    BY <2>1, <2>2 DEF CacheInv, CacheTypes, Done, AgreeFrom, Agrees, Neighbours, Measured
<1>6. CASE UNCHANGED cacheVars
  BY <1>6 DEF cacheVars, CacheInv, CacheTypes, Done, Pending, Open, AgreeFrom, Agrees,
              Neighbours, Measured
<1> QED
  BY <1>1, <1>2, <1>3, <1>4, <1>5, <1>6 DEF CacheNext

(* However many samples there are, and whatever their latencies, the ratio *)
(* of each sample is that of the next one's latency to its own when        *)
(* find_cache() reads the ratios.                                          *)
THEOREM AllRatiosAgree == CacheSpec => []RatiosAgree
<1>1. CacheInv => RatiosAgree
  <2> SUFFICES ASSUME CacheInv, Done, NEW p \in Neighbours, latency[p[1]] > 0
               PROVE  ratio[p[1]][1] * latency[p[1]] = latency[p[2]] * ratio[p[1]][2]
    BY DEF RatiosAgree
  <2>1. p[1] >= 0 /\ AgreeFrom(0)
    BY DEF CacheInv, Neighbours, Measured
  <2> QED
    BY <2>1, Zenon DEF AgreeFrom, Agrees
<1> QED
  BY <1>1, CacheInitInv, CacheStep, PTL DEF CacheSpec
=============================================================================
