------------------------------ MODULE Results ------------------------------
(***************************************************************************)
(* The results of one round of benchmp(), lib_timing.c: each child keeps a *)
(* record of its timing intervals, the parent merges the records value by  *)
(* value, and save_median() reduces them to what gettime() and get_n()     *)
(* return.  A value is an interval: u microseconds for n iterations, and   *)
(* records are kept in the order of u/n, longest first.                    *)
(*                                                                         *)
(* The handshake is Benchmp's; what matters here is that the parent merges *)
(* when all children have ended their timing, and takes the children in    *)
(* any order.                                                              *)
(***************************************************************************)
EXTENDS Naturals, Sequences, FiniteSets

CONSTANTS
  Parallel,     \* benchmp's parameter `parallel'
  Repetitions,  \* benchmp's parameter `repetitions'
  Times,        \* what an interval may take, in microseconds
  Counts        \* how many iterations an interval may have

ASSUME ResultsAssumption ==
  /\ Parallel \in Nat \ {0}
  /\ Repetitions \in Nat \ {0}
  /\ Times \subseteq Nat
  /\ Counts \subseteq Nat \ {0}

Children == 1..Parallel
Values   == [u : Nat, n : Nat \ {0}]

VARIABLES
  np,         \* the children of the round: 1 in the baseline, or Parallel
  iterations, \* `iterations' that several children start with
  i,          \* the field `i' of each child: the intervals counted
  cool,       \* the children in state cooldown
  record,     \* the record r of each child
  left,       \* the children that have not reported
  reporter,   \* the child whose record is merged, or 0
  j,          \* the parent's loop variable j
  merged,     \* merged_results
  current,    \* `results' points to merged_results
  saved       \* what gettime() and get_n() return

childVars  == <<np, iterations, i, cool, record>>
parentVars == <<left, reporter, j, merged, current, saved>>
vars == <<childVars, parentVars>>

Active == 1..np

----------------------------------------------------------------------------
(* insertsort(), save_median(), save_minimum().                            *)

Longer(a, b) == a.u > b.u

\* u/n > r->v[i].u/r->v[i].n
Slower(a, b) == a.u * b.n > b.u * a.n

AtLeast(a, b) == a.u * b.n >= b.u * a.n

NotFaster(r, x) == {k \in 1..Len(r) : ~Slower(x, r[k])}

\* The places of r whose value is faster than x.
Faster(r, x) == {k \in 1..Len(r) : Slower(x, r[k])}

\* Where the scan of insertsort() stops: at the first of them, or at the end.
Place(r, x) ==
  IF Faster(r, x) = {} THEN Len(r) + 1
  ELSE CHOOSE k \in Faster(r, x) : \A l \in Faster(r, x) : k <= l

ShortShift(r, k, x) ==
  [l \in 1..Len(r) + 1 |-> IF l < k THEN r[l]
                           ELSE IF l = k THEN x
                           ELSE r[IF l = k + 1 /\ l <= Len(r) THEN l ELSE l - 1]]

\* The values from place k on move up by one, and x takes that place.
InsertAt(r, k, x) ==
  [l \in 1..Len(r) + 1 |-> IF l < k THEN r[l]
                           ELSE IF l = k THEN x ELSE r[l - 1]]

\* insertsort(u, n, r).  An interval of no time is dropped.
InsertSort(r, x) == IF x.u = 0 THEN r ELSE InsertAt(r, Place(r, x), x)

Nothing == [u |-> 0, n |-> 1]

UpperMiddle(r) == r[Len(r) \div 2 + 1]
LowerMiddle(r) == r[Len(r) \div 2]

LowMedian(r) ==
  IF Len(r) = 0 THEN Nothing
  ELSE IF Len(r) % 2 = 1 /\ Len(r) > 1 THEN LowerMiddle(r)
  ELSE UpperMiddle(r)

\* save_median(): of an even number of values, the times and the iterations
\* of the middle two are averaged separately, in integers.
Median(r) ==
  IF Len(r) = 0 THEN Nothing
  ELSE IF Len(r) % 2 = 1 THEN UpperMiddle(r)
  ELSE [u |-> (UpperMiddle(r).u + LowerMiddle(r).u) \div 2,
        n |-> (UpperMiddle(r).n + LowerMiddle(r).n) \div 2]

\* save_minimum()
Minimum(r) == IF Len(r) = 0 THEN Nothing ELSE r[Len(r)]

----------------------------------------------------------------------------

Init ==
  /\ np \in {1, Parallel}
  /\ iterations \in Counts
  /\ i = [c \in Children |-> 0]
  /\ cool = {}
  /\ record = [c \in Children |-> <<>>]
  /\ left = Active /\ reporter = 0 /\ j = 0
  /\ merged = <<>> /\ current = FALSE
  /\ saved = Nothing

LateLast(n) == n > Repetitions

\* The n-th interval that counts is the last one.
Last(n) == n >= Repetitions

\* benchmp_interval(), case timing_interval: the interval of u microseconds
\* and n iterations counts.  Several children never change their number of
\* iterations; a single child may have resized its own, and counts no
\* interval of no time.
Interval(c, u, n) ==
  /\ c \in Active \ cool
  /\ IF np > 1 THEN n = iterations ELSE u > 0
  /\ record' = [record EXCEPT ![c] = InsertSort(@, [u |-> u, n |-> n])]
  /\ i' = [i EXCEPT ![c] = @ + 1]
  /\ cool' = IF Last(i[c] + 1) THEN cool \cup {c} ELSE cool
  /\ UNCHANGED <<np, iterations, parentVars>>

\* A single child gives up on its interval.
GiveUp(c) ==
  /\ np = 1 /\ c \in Active \ cool
  /\ cool' = cool \cup {c}
  /\ UNCHANGED <<np, iterations, i, record, parentVars>>

\* The parent has read the record of a child: its loop over results->v.
Collect(c) ==
  /\ cool = Active /\ reporter = 0 /\ c \in left
  /\ reporter' = c /\ j' = 0
  /\ UNCHANGED <<childVars, left, merged, current, saved>>

Merge ==
  /\ reporter # 0 /\ j < Len(record[reporter])
  /\ merged' = InsertSort(merged, record[reporter][j + 1])
  /\ j' = j + 1
  /\ UNCHANGED <<childVars, left, reporter, current, saved>>

MergeEnds ==
  /\ reporter # 0 /\ j = Len(record[reporter])
  /\ left' = left \ {reporter} /\ reporter' = 0
  /\ UNCHANGED <<childVars, j, merged, current, saved>>

\* set_results(merged_results)
SetResults ==
  /\ left = {} /\ ~current
  /\ current' = TRUE /\ saved' = Median(merged)
  /\ UNCHANGED <<childVars, left, reporter, j, merged>>

Next ==
  \/ \E c \in Children, u \in Times, n \in Counts : Interval(c, u, n)
  \/ \E c \in Children : GiveUp(c) \/ Collect(c)
  \/ Merge \/ MergeEnds \/ SetResults

Spec == Init /\ [][Next]_vars

----------------------------------------------------------------------------
(* What the results are.                                                   *)

TypeOK ==
  /\ np \in {1, Parallel}
  /\ iterations \in Counts
  /\ i \in [Children -> 0..Repetitions]
  /\ cool \subseteq Active
  /\ record \in [Children -> Seq(Values)]
  /\ left \subseteq Active
  /\ reporter \in {0} \cup left
  /\ j \in Nat
  /\ merged \in Seq(Values) /\ current \in BOOLEAN
  /\ saved \in [u : Nat, n : Nat]

Descending(r) == \A k \in 1..Len(r) - 1 : AtLeast(r[k], r[k + 1])

\* results.3: `Results are sorted in decreasing order by u/n', in every record
\* and, whatever the order in which the children report, in the merged one.
Sorted == Descending(merged) /\ \A c \in Children : Descending(record[c])

\* A record never has more values than sizeof_result() has room for, nor the
\* merged one more than those of all children.
Fits ==
  /\ \A c \in Children : Len(record[c]) <= i[c] /\ i[c] <= Repetitions
  /\ Len(merged) <= np * Repetitions

Occurrences(r, x) == Cardinality({k \in 1..Len(r) : r[k] = x})
InRecords(x) ==
  LET S == {p \in Children \X (1..Repetitions) :
              p[2] <= Len(record[p[1]]) /\ record[p[1]][p[2]] = x}
  IN  Cardinality(S)

\* When all records are merged, merged_results holds each value of each record
\* exactly as often as the records do: no value is lost by the shifts.
NothingLost ==
  left = {} =>
    \A u \in Times, n \in Counts :
      LET x == [u |-> u, n |-> n] IN Occurrences(merged, x) = InRecords(x)

\* At least half of the values are not faster, and half not slower, than what
\* gettime() and get_n() return: always for children with the same number of
\* iterations, and for an odd number of values of a single child.
MedianIsMiddle ==
  LET Here == 1..Len(merged) IN
  current /\ merged # <<>> /\ (np > 1 \/ Len(merged) % 2 = 1) =>
    /\ 2 * Cardinality({k \in Here : AtLeast(merged[k], saved)}) >= Len(merged)
    /\ 2 * Cardinality({k \in Here : AtLeast(saved, merged[k])}) >= Len(merged)

\* lmbench3.ms: `gettime returns the median timing interval duration, while
\* get_n returns the number of iterations executed during that timing
\* interval'; the comment at set_results says `iterations is constant'.
MedianIsBetween ==
  current /\ merged # <<>> =>
    AtLeast(merged[1], saved) /\ AtLeast(saved, Minimum(merged))
=============================================================================
