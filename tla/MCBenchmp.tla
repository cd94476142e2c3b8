----------------------------- MODULE MCBenchmp -----------------------------
(***************************************************************************)
(* The instances of the harness that TLC checks.  The children are not     *)
(* symmetric: the loops over pids take them in order.                      *)
(***************************************************************************)
EXTENDS BenchmpInv, BenchmpRefinement

\* benchmp() may be the first call of the program, or a later one.
AnyCall   == Dispositions
FirstCall == {"SIG_DFL"}

\* The faults of a run.
NoFaults      == {}
AnyFault      == FaultKinds
OnlyChild     == {"child"}
OnlyUserTerm  == {"term"}
=============================================================================
