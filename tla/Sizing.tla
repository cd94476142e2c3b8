------------------------------- MODULE Sizing -------------------------------
(***************************************************************************)
(* How a timing interval gets its length, in lib_timing.c and in bench.h.  *)
(* The number of iterations begins at 1, is multiplied by 8 while the time *)
(* is too short to tell, and is then scaled to the length wanted.  The     *)
(* single child of benchmp() does so in benchmp_interval() (Interval), the *)
(* older macros in BENCH_INNER (BenchInner).                               *)
(*                                                                         *)
(* Times are in ticks, and the numbers of the code are parameters, because *)
(* TLC's integers are small.                                               *)
(***************************************************************************)
EXTENDS Integers

CONSTANTS
  Enough,   \* the length wanted
  Clear,    \* 150 microseconds: a longer time can be scaled
  Limit,    \* 1<<27 iterations
  Scale     \* the parts of a tick in which costs are given

ASSUME SizingAssumption ==
  /\ Enough \in Nat \ {0} /\ Clear \in Nat /\ Limit \in Nat
  /\ Scale \in Nat \ {0}

\* n iterations of this cost take so many ticks.
Elapsed(n, cost) == (n * cost) \div Scale

\* result < 0.95 * __enough: BENCH_INNER goes on
TooShort(t) == 100 * t < 95 * Enough

\* result < 0.99 * enough || result > 1.2 * enough
BadLength(t) == 100 * t < 99 * Enough \/ 100 * t > 120 * Enough

\* result > 150.: long enough to scale
Tellable(t) == t > Clear

\* Without the margin and the rounding up.
ScaledDown(n, t) == (n * Enough) \div t

\* tmp = iterations / result * 1.1 * enough; iterations = (iter_t)(tmp + 1)
Scaled(n, t) == (n * 11 * Enough) \div (10 * t) + 1
=============================================================================
