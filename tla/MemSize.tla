------------------------------ MODULE MemSize ------------------------------
(***************************************************************************)
(* The program memsize: halve the size until malloc() succeeds, add ever   *)
(* smaller parts of it, and touch growing ranges of what was found until   *)
(* that takes too long per page.                                           *)
(***************************************************************************)
EXTENDS Naturals

CONSTANTS
  Mega,        \* 1024 * 1024 in the unit of all sizes
  Default,     \* the size if none is given: 1024 megabytes
  Arguments,   \* the sizes that may be given
  Available    \* what malloc() may have

\* Sizes stay below it, so that there is a power of two above each.
TooMuch == 8192 * Mega

ASSUME MemSizeAssumption ==
  /\ Mega \in Nat /\ Mega >= 64 /\ Mega % 64 = 0
  /\ Default \in Nat /\ Default >= Mega
  /\ Arguments \subseteq Nat /\ Available \subseteq Nat
  /\ Default < TooMuch /\ \A a \in Arguments : a < TooMuch

VARIABLES
  memAt,       \* "idle", "down", "up", "touch", "done"
  avail,       \* the most that malloc() gives
  unlucky,     \* fork() has failed in test_malloc()
  given, size, max, delta,
  range, incr,
  touched,     \* how far all pages were touched in time
  reported     \* the size that is printed, in megabytes

memVars == <<memAt, avail, unlucky, given, size, max, delta, range, incr, touched, reported>>

MemEmpty ==
  /\ unlucky = FALSE /\ delta = 0 /\ range = 0 /\ incr = 0 /\ touched = 0 /\ reported = 0
MemIdle ==
  memAt = "idle" /\ avail = 0 /\ given = 0 /\ size = 0 /\ max = 0 /\ MemEmpty
MemInit ==
  /\ memAt = "down" /\ avail \in Available /\ given \in Arguments
  /\ size = (IF given < Mega THEN Default ELSE given) /\ max = size
  /\ MemEmpty

(* test_malloc(): a child tries.  If there is no child the pipe is empty,  *)
(* and that counts as a failure.                                           *)
test_malloc(s, answer) ==
  \/ answer = (s <= avail) /\ UNCHANGED unlucky
  \/ s <= avail /\ ~unlucky /\ ~answer /\ unlucky' = TRUE

Halve ==
  /\ memAt = "down"
  /\ \E answer \in BOOLEAN :
       /\ test_malloc(size, answer)
       /\ IF answer
          THEN memAt' = "up" /\ delta' = size \div (2 * Mega) /\ UNCHANGED <<size, max>>
          ELSE max' = size /\ size' = size \div 2 /\ UNCHANGED <<memAt, delta>>
  /\ UNCHANGED <<avail, given, range, incr, touched, reported>>

OnlyOnce ==
  /\ memAt = "up" /\ delta > 0
  /\ \E answer \in BOOLEAN :
       /\ test_malloc(size + delta * Mega, answer)
       /\ size' = IF answer THEN size + delta * Mega ELSE size
  /\ delta' = 0
  /\ UNCHANGED <<memAt, avail, given, max, range, incr, touched, reported>>

(* From the half of the size down to a megabyte.                           *)
Grow ==
  /\ memAt = "up" /\ delta > 0
  /\ \/ size + delta * Mega > max /\ UNCHANGED <<size, unlucky>>
     \/ /\ size + delta * Mega <= max
        /\ \E answer \in BOOLEAN :
             /\ test_malloc(size + delta * Mega, answer)
             /\ size' = IF answer THEN size + delta * Mega ELSE size
  /\ delta' = delta \div 2
  /\ UNCHANGED <<memAt, avail, given, max, range, incr, touched, reported>>

(* malloc() for good, and the beginning of timeit().                       *)
Take ==
  /\ memAt = "up" /\ delta = 0
  /\ IF size > avail \/ size < Mega - Mega \div 64
     THEN memAt' = "done" /\ UNCHANGED <<range, incr, touched>>
     ELSE /\ memAt' = "touch" /\ range' = 2 * Mega /\ incr' = Mega
          /\ touched' = Mega
  /\ UNCHANGED <<avail, unlucky, given, size, max, delta, reported>>

(* An eighth of the power of two above r, from eight megabytes on.         *)
Powers == {1, 2, 4, 8, 16, 32, 64, 128, 256, 512, 1024}
Eighth(r) ==
  LET Above(s) == s > r /\ (s = 8 * Mega \/ s \div 2 <= r)
  IN  (CHOOSE s \in {8 * Mega * p : p \in Powers} : Above(s)) \div 8

NotCut(r) == Eighth(r)

(* The last step ends at the size.                                         *)
NextIncr(r) ==
  LET next == Eighth(r)
  IN  IF r < size /\ size < r + next THEN size - r ELSE next

(* The pages of a range are touched twice: the new ones first, and then    *)
(* all of them against the clock.                                          *)
Touch ==
  /\ memAt = "touch" /\ range <= size
  /\ \/ /\ touched' = range /\ incr' = NextIncr(range) /\ range' = range + incr'
        /\ UNCHANGED <<memAt, size, reported>>
     \/ /\ size' = range - incr /\ memAt' = "done" /\ reported' = size' \div Mega
        /\ UNCHANGED <<touched, range, incr>>
  /\ UNCHANGED <<avail, unlucky, given, max, delta>>

AllTouched ==
  /\ memAt = "touch" /\ range > size
  /\ memAt' = "done" /\ reported' = size \div Mega
  /\ UNCHANGED <<avail, unlucky, given, size, max, delta, range, incr, touched>>

MemNext == Halve \/ Grow \/ Take \/ Touch \/ AllTouched
MemSpec == MemInit /\ [][MemNext]_memVars
-----------------------------------------------------------------------------
(* Properties                                                              *)

\* The powers of two below 8192, which no size reaches in megabytes.
Twos == Powers \union {2048, 4096}
PowerOfTwoMegas(s) == \E p \in Twos : s = Mega * p

(* The search ends within a megabyte of what malloc() gives, or of the     *)
(* size that was asked for, if that is a power of two and fork() never     *)
(* failed.                                                                 *)
LargestFound ==
  (memAt = "touch" /\ touched = Mega /\ ~unlucky
     /\ PowerOfTwoMegas(IF given < Mega THEN Default ELSE given)) =>
    size <= avail /\ (size + Mega > avail \/ size + Mega > max)

(* Every whole megabyte that is reported was touched in time, though the   *)
(* step grows with the range and is cut to end at the size.                *)
ReportedIsTouched == memAt = "done" => reported * Mega <= touched
=============================================================================
