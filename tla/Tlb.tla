-------------------------------- MODULE Tlb --------------------------------
(***************************************************************************)
(* The program tlb: find_tlb() doubles a number of pages until a walk that *)
(* touches a page with every load is slower than one through as many cache *)
(* lines, and then halves the interval in between.  compute_times() times  *)
(* both walks; which one is slower is open for every number of pages, also *)
(* when that was measured before.                                          *)
(***************************************************************************)
EXTENDS Naturals

CONSTANTS
  Start,     \* the first number of pages: 8
  MaxPages   \* the pages in the memory that -M allows

ASSUME TlbAssumption == Start \in Nat /\ Start >= 2 /\ MaxPages \in Nat

VARIABLES
  tlbAt,         \* "idle", "double", "check", "bisect", "done"
  i, lower, upper,
  slow,          \* what compute_times said of each number of pages
  tlb            \* what is returned

tlbVars == <<tlbAt, i, lower, upper, slow, tlb>>

Middle(l, u) == l + (u - l) \div 2

TlbEmpty ==
  /\ i = Start /\ lower = 0 /\ upper = 0 /\ tlb = 0
  /\ slow = [n \in 1..MaxPages |-> "unknown"]
TlbIdle == tlbAt = "idle" /\ TlbEmpty
TlbInit == tlbAt = "double" /\ TlbEmpty

(* compute_times(): the latency of both walks compared with THRESHOLD.     *)
compute_times(pages, outcome) ==
  slow' = [slow EXCEPT ![pages] = IF outcome THEN "slow" ELSE "fast"]

WithoutHalf(outcome) ==
  IF outcome
  THEN /\ lower' = i \div 4 /\ upper' = i /\ i' = Middle(i \div 4, i) /\ tlbAt' = "check"
  ELSE i' = 2 * i /\ UNCHANGED <<lower, upper, tlbAt>>

DoubleStep(outcome) ==
  IF outcome
  THEN /\ lower' = i \div 2 /\ upper' = i /\ i' = Middle(i \div 2, i) /\ tlbAt' = "check"
  ELSE i' = 2 * i /\ UNCHANGED <<lower, upper, tlbAt>>

Double ==
  /\ tlbAt = "double" /\ i <= MaxPages
  /\ \E outcome \in BOOLEAN : compute_times(i, outcome) /\ DoubleStep(outcome)
  /\ UNCHANGED tlb

(* The loop has ended without a difference: there is no TLB to be seen.    *)
Undetected ==
  /\ tlbAt = "double" /\ i > MaxPages /\ tlbAt' = "check"
  /\ UNCHANGED <<i, lower, upper, slow, tlb>>

Check ==
  /\ tlbAt = "check"
  /\ tlbAt' = IF i >= MaxPages THEN "done" ELSE "bisect"
  /\ UNCHANGED <<i, lower, upper, slow, tlb>>

Bisect ==
  /\ tlbAt = "bisect" /\ lower + 1 < upper
  /\ \E outcome \in BOOLEAN :
       /\ compute_times(i, outcome)
       /\ lower' = IF outcome THEN lower ELSE i
       /\ upper' = IF outcome THEN i ELSE upper
       /\ i' = Middle(lower', upper')
  /\ UNCHANGED <<tlbAt, tlb>>

Found ==
  /\ tlbAt = "bisect" /\ lower + 1 >= upper
  /\ tlb' = lower /\ tlbAt' = "done"
  /\ UNCHANGED <<i, lower, upper, slow>>

TlbNext == Double \/ Undetected \/ Check \/ Bisect \/ Found
TlbSpec == TlbInit /\ [][TlbNext]_tlbVars
-----------------------------------------------------------------------------
(* Properties                                                              *)

(* The number that is printed is a boundary, whatever the times are: one   *)
(* page more was slow, and the number itself was not, or is the half of    *)
(* the first one, below which nothing is measured.                         *)
BoundaryFound ==
  (tlbAt = "done" /\ tlb > 0) =>
    /\ tlb + 1 <= MaxPages /\ slow[tlb + 1] = "slow"
    /\ slow[tlb] = "fast" \/ tlb = Start \div 2

(* The search never times a number of pages twice: each measure narrows    *)
(* it, so that it ends after as many as the size has bits, twice.          *)
EveryTimeIsNew ==
  (\/ tlbAt = "double" /\ i <= MaxPages
   \/ tlbAt = "bisect" /\ lower + 1 < upper)
  => slow[i] = "unknown"
=============================================================================
