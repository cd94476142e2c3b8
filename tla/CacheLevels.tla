---------------------------- MODULE CacheLevels ----------------------------
(***************************************************************************)
(* The program cache: collect_data() measures the latency of the smallest  *)
(* and the greatest sample, search() measures the middle wherever two      *)
(* samples differ, and find_cache() reads the levels off the ratios.       *)
(*                                                                         *)
(* What is measured is open for every sample.  A latency of 0 stands for a *)
(* measure that failed, -1 for no measure.                                 *)
(***************************************************************************)
EXTENDS Integers, Sequences

CONSTANTS
  MaxSamples,   \* how many sizes there are up to the greatest
  Latencies     \* what measure() may return

ASSUME CacheAssumption == MaxSamples \in Nat \ {0} /\ Latencies \subseteq Nat

VARIABLES
  cacheAt,        \* "idle", "alloc", "ends", "search", "find", "done"
  samples,
  latency,
  ratio,          \* <<n, d>> for n/d; <<-1, 1>> for none
  calls,          \* the calls of search() that are still to be made
  start, at, best, prev,
  levels

cacheVars == <<cacheAt, samples, latency, ratio, calls, start, at, best, prev, levels>>

Indices == 0..MaxSamples-1
NoRatio == <<-1, 1>>

CacheEmpty ==
  /\ samples = MaxSamples
  /\ latency = [k \in Indices |-> -1] /\ ratio = [k \in Indices |-> NoRatio]
  /\ calls = <<>> /\ start = 0 /\ at = 0 /\ best = -1 /\ prev = 0 /\ levels = <<>>
CacheIdle == cacheAt = "idle" /\ CacheEmpty
CacheInit == cacheAt = "alloc" /\ CacheEmpty

(* There may not be memory for the greatest sizes.                         *)
Allocate ==
  /\ cacheAt = "alloc" /\ cacheAt' = "ends"
  /\ samples' \in {n \in 1..MaxSamples : n = MaxSamples \/ n % 4 = 1}
  /\ \E first, last \in Latencies :
       latency' = [latency EXCEPT ![0] = first, ![samples' - 1] = last]
  /\ UNCHANGED <<ratio, calls, start, at, best, prev, levels>>

(* The last sample is measured again until there is a latency, and dropped *)
(* with each try, also with one that succeeds.  If it never succeeds this  *)
(* runs below the first sample, where the model stops.                     *)
AgainTheLast ==
  /\ cacheAt = "ends" /\ latency[samples - 1] <= 0 /\ samples > 1
  /\ \E l \in Latencies : latency' = [latency EXCEPT ![samples - 1] = l]
  /\ samples' = samples - 1
  /\ UNCHANGED <<cacheAt, ratio, calls, start, at, best, prev, levels>>

StartSearch ==
  /\ cacheAt = "ends" /\ latency[samples - 1] > 0
  /\ cacheAt' = "search" /\ calls' = << <<0, samples - 1>> >>
  /\ UNCHANGED <<samples, latency, ratio, start, at, best, prev, levels>>

Above(r, percent) == 100 * r[1] > percent * r[2]
Below(r, percent) == 100 * r[1] < percent * r[2]

(* What search() makes of the sample at its left.                          *)
Compared(left, right) == <<latency[right], latency[left]>>
Bad(left, right) == latency[left] > 0 /\ Below(Compared(left, right), 98)
NewRatio(left, right) ==
  IF latency[left] <= 0 THEN ratio[left]
  ELSE IF Bad(left, right) THEN <<1, 1>> ELSE Compared(left, right)

LeftFirst(left, middle, right, rest) == << <<left, middle>>, <<middle, right>> >> \o rest

(* The order of the two calls that a call ends with.                       *)
Halves(left, middle, right, rest) == << <<middle, right>>, <<left, middle>> >> \o rest

(* search(left, right): what it does before the calls that it ends with.   *)
Call(left, right) ==
  LET middle == left + (right - left) \div 2
      r == NewRatio(left, right)
      lat == IF Bad(left, right) THEN [latency EXCEPT ![left] = latency[right]] ELSE latency
  IN  /\ ratio' = [ratio EXCEPT ![left] = r]
      /\ IF middle # left /\ middle # right /\ (Above(r, 135) \/ Below(r, 97))
         THEN /\ \E l \in Latencies : latency' = [lat EXCEPT ![middle] = l]
              /\ calls' = Halves(left, middle, right, Tail(calls))
         ELSE latency' = lat /\ calls' = Tail(calls)

search ==
  /\ cacheAt = "search" /\ calls # <<>>
  /\ Call(Head(calls)[1], Head(calls)[2])
  /\ UNCHANGED <<cacheAt, samples, start, at, best, prev, levels>>

(* find_cache() begins at the sample before with a ratio.                  *)
Before(s) ==
  LET below == {k \in 1..s-1 : ratio[k][1] > 0}
  IN  IF below = {} THEN 0 ELSE CHOOSE k \in below : \A m \in below : m <= k

Find(s) == /\ start' = s /\ at' = s /\ best' = -1 /\ prev' = Before(s)

Searched ==
  /\ cacheAt = "search" /\ calls = <<>>
  /\ cacheAt' = "find" /\ Find(0)
  /\ UNCHANGED <<samples, latency, ratio, calls, levels>>

Less(r, s) == r[1] * s[2] < s[1] * r[2]
Peak == IF best = -1 THEN <<-1, 1>> ELSE ratio[best]
Rises(k) == ~Less(ratio[k], ratio[prev]) /\ Less(Peak, ratio[k])

(* The ratio has fallen, from more than THRESHOLD.                         *)
FellBelow(k) == ~Rises(k) /\ Less(ratio[k], Peak) /\ Above(Peak, 150)

(* One sample of find_cache(): those without a latency are passed.         *)
FindStep ==
  /\ cacheAt = "find" /\ at < samples /\ ~(latency[at] >= 0 /\ FellBelow(at))
  /\ at' = at + 1
  /\ IF latency[at] < 0 THEN UNCHANGED <<best, prev>>
     ELSE /\ best' = IF Rises(at) THEN at ELSE best
          /\ prev' = at
  /\ UNCHANGED <<cacheAt, samples, latency, ratio, calls, start, levels>>

(* The size of a sample, of which there are four from one power of two to  *)
(* the next, in parts of the smallest one.                                 *)
Lead(k) == 4 + (k % 4)

NoMemoryLevel(k) == 2 * latency[k] > latency[samples - 1]

(* main() takes the peak for a level, or the sample after it if caches are *)
(* never of that size.                                                     *)
Level ==
  /\ cacheAt = "find" /\ at < samples /\ latency[at] >= 0 /\ FellBelow(at)
  /\ LET k == IF Lead(best) \in {5, 7} THEN best + 1 ELSE best
     IN  IF NoMemoryLevel(best) \/ k >= samples
         THEN cacheAt' = "done" /\ UNCHANGED <<start, at, best, prev, levels>>
         ELSE /\ levels' = Append(levels, k) /\ Find(k + 1) /\ UNCHANGED cacheAt
  /\ UNCHANGED <<samples, latency, ratio, calls>>

NoMore ==
  /\ cacheAt = "find" /\ at >= samples /\ cacheAt' = "done"
  /\ UNCHANGED <<samples, latency, ratio, calls, start, at, best, prev, levels>>

CacheNext ==
  Allocate \/ AgainTheLast \/ StartSearch \/ search \/ Searched \/ FindStep \/ Level \/ NoMore
CacheSpec == CacheInit /\ [][CacheNext]_cacheVars
-----------------------------------------------------------------------------
(* Properties                                                              *)

Measured == {k \in 0..samples-1 : latency[k] >= 0}
Neighbours == {p \in Measured \X Measured :
                 p[1] < p[2] /\ \A k \in Measured : k <= p[1] \/ k >= p[2]}
Done == cacheAt \in {"find", "done"}

(* When the search has ended, the ratio of every sample is that of the     *)
(* latency of the next one measured to its own, though a sample that was   *)
(* taken for bad has got the latency of its neighbour in the meantime.     *)
RatiosAgree ==
  Done => \A p \in Neighbours :
    latency[p[1]] > 0 =>
      ratio[p[1]][1] * latency[p[1]] = latency[p[2]] * ratio[p[1]][2]
=============================================================================
