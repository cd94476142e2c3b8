----------------------------- MODULE BenchInner -----------------------------
(***************************************************************************)
(* The macro BENCH_INNER of bench.h: a loop that runs a steady body, again *)
(* and again, until its time is long enough.  The number of iterations is  *)
(* static, so that the next use of the macro starts with the last one's.   *)
(***************************************************************************)
EXTENDS Sizing

CONSTANT Costs    \* what running the body once may cost

ASSUME BenchInnerAssumption == Costs \subseteq Nat

VARIABLES
  pc,           \* "while", "save" or "used"
  body,         \* what running it once costs
  __iterations, \* static
  result,       \* __result
  ran,          \* how often the last pass ran the body
  saved         \* what gettime() and get_n() return

inner_vars == <<pc, body, __iterations, result, ran, saved>>

InnerInit ==
  /\ pc = "while" /\ body \in Costs
  /\ __iterations = 1 /\ result = 0 /\ ran = 0
  /\ saved = [u |-> 0, n |-> 1]

\* One pass of the while loop.
Pass ==
  /\ pc = "while" /\ TooShort(result)
  /\ ran' = __iterations
  /\ LET t == Elapsed(__iterations, body) IN
       IF ~BadLength(t)
       THEN result' = t /\ UNCHANGED <<__iterations, pc>>
       ELSE IF Tellable(t)
       THEN result' = t /\ __iterations' = Scaled(__iterations, t) /\ UNCHANGED pc
       ELSE IF __iterations > Limit
       THEN result' = 0 /\ pc' = "save" /\ UNCHANGED __iterations
       ELSE result' = t /\ __iterations' = __iterations * 8 /\ UNCHANGED pc
  /\ UNCHANGED <<body, saved>>

\* save_n((uint64)__iterations); settime((uint64)__result)
Save ==
  /\ pc = "save" \/ (pc = "while" /\ ~TooShort(result))
  /\ pc' = "used"
  /\ saved' = [u |-> result, n |-> __iterations]
  /\ UNCHANGED <<body, __iterations, result, ran>>

\* The macro is used again.
Again ==
  /\ pc = "used"
  /\ pc' = "while" /\ result' = 0
  /\ UNCHANGED <<body, __iterations, ran, saved>>

Next == Pass \/ Save \/ Again

InnerSpec == InnerInit /\ [][Next]_inner_vars /\ WF_inner_vars(Next)

----------------------------------------------------------------------------

InnerTypeOK ==
  /\ pc \in {"while", "save", "used"}
  /\ body \in Costs
  /\ __iterations \in Nat \ {0} /\ result \in Nat /\ ran \in Nat
  /\ saved \in [u : Nat, n : Nat \ {0}]

\* timing.3: get_n() `returns the number of times loop_body was executed during
\* the timing interval', of which gettime() is the length.
GetNIsExecuted == pc = "used" /\ saved.u > 0 => saved.n = ran

\* A steady body is never misjudged by more than a factor of two: get_n() and the
\* number of times the body ran differ by the resizing after the last pass only.
GetNWithinTwo == pc = "used" => saved.n <= 2 * ran /\ ran <= 2 * saved.n

\* Every use of the macro ends.
Ends == pc = "while" ~> pc = "used"
=============================================================================
