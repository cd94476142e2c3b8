------------------------------ MODULE Interval ------------------------------
(***************************************************************************)
(* The timing intervals of a single child, benchmp_interval() with         *)
(* parallel == 1.  Its baseline decides whether the round with all         *)
(* children takes place at all, and how many iterations they run.          *)
(***************************************************************************)
EXTENDS Sizing, Sequences, FiniteSets

CONSTANTS
  Benchmarks,   \* each is the set of what an iteration of it may cost
  FewLimit,     \* 1<<20 iterations
  Repetitions,  \* the intervals wanted
  Overhead      \* t_overhead() + get_n() * l_overhead()

ASSUME IntervalAssumption ==
  /\ FewLimit \in Nat /\ Repetitions \in Nat \ {0} /\ Overhead \in Nat
  /\ \A b \in Benchmarks : b # {} /\ b \subseteq Nat

VARIABLES
  costs,        \* what an iteration of this benchmark may cost
  cost,         \* of an iteration in the interval that runs
  iterations,   \* state->iterations
  state,        \* state->state: "timing_interval" or "cooldown"
  kept          \* the values inserted, in the order of the intervals

vars == <<costs, cost, iterations, state, kept>>

Init ==
  /\ costs \in Benchmarks /\ cost \in costs
  /\ iterations = 1
  /\ state = "timing_interval"
  /\ kept = <<>>

\* result: stop() less the overhead, which may leave less than nothing.
Result == Elapsed(iterations, cost) - Overhead

Counted == 100 * Result > 95 * Enough

\* The number of iterations of the next interval.
NextIterations ==
  IF ~BadLength(Result) THEN iterations
  ELSE IF Tellable(Result) THEN Scaled(iterations, Result)
  ELSE iterations * 8

LateValue == [u |-> Result, n |-> NextIterations]

\* insertsort(gettime(), get_n(), ...) comes before the interval is resized.
Value == [u |-> Result, n |-> iterations]

\* We completed all the experiments, return results.
Completed == Counted /\ Len(kept) + 1 >= Repetitions

\* The benchmark takes no time that could be told: give up.
Hopeless ==
  /\ BadLength(Result) /\ ~Tellable(Result)
  /\ \/ iterations * 8 > Limit
     \/ Result < 0 /\ iterations * 8 > FewLimit

\* The end of an interval; the next one may cost something else.
EndInterval ==
  /\ state = "timing_interval"
  /\ kept' = IF Counted THEN Append(kept, Value) ELSE kept
  /\ state' = IF Hopeless \/ Completed THEN "cooldown" ELSE state
  /\ iterations' = NextIterations
  /\ cost' \in costs /\ UNCHANGED costs

Spec == Init /\ [][EndInterval]_vars /\ WF_vars(EndInterval)

\* The benchmark costs the same in every interval.
Steady == Cardinality(costs) = 1

----------------------------------------------------------------------------

TypeOK ==
  /\ costs \in Benchmarks /\ cost \in costs
  /\ iterations \in Nat \ {0}
  /\ state \in {"timing_interval", "cooldown"}
  /\ kept \in Seq([u : Nat, n : Nat \ {0}]) /\ Len(kept) <= Repetitions

\* get_n() of a value is the number of iterations its time was taken of, though
\* the same call of benchmp_interval() resizes the interval.
KeptAsExecuted ==
  \A k \in 1..Len(kept) :
    \E c \in costs : kept[k].u = Elapsed(kept[k].n, c) - Overhead

\* One scaling is enough: the next interval counts, unless an iteration has
\* become cheaper.  The margin of 1.1 over 0.95 makes up for the truncations.
OneScalingIsEnough ==
  [][Result > Clear /\ cost' >= cost => 100 * Result' > 95 * Enough]_vars

\* A steady benchmark cools down: the parent, which waits for `done' without a
\* limit of time, gets its answer.
Settles == Steady ~> state = "cooldown"
=============================================================================
