--------------------------- MODULE SingleProcess ---------------------------
(***************************************************************************)
(* What one process does by itself, each run on its own: a program goes    *)
(* from its command line to its benchmark; the single child of benchmp()   *)
(* sizes its intervals; the macro BENCH_INNER sizes its loop.              *)
(***************************************************************************)
EXTENDS CommandLine, Interval, BenchInner

ParseIdle ==
  at = "idle" /\ program = "none" /\ args = <<>> /\ optind = 1 /\ n = 1 /\ parallel = 1
IntervalIdle ==
  state = "idle" /\ costs = {} /\ cost = 0 /\ iterations = 1 /\ kept = <<>>
InnerIdle ==
  /\ pc = "idle" /\ body = 0 /\ __iterations = 1 /\ result = 0 /\ ran = 0
  /\ saved = [u |-> 0, n |-> 1]

SingleInit ==
  \/ ParseInit /\ IntervalIdle /\ InnerIdle
  \/ ParseIdle /\ Init /\ InnerIdle
  \/ ParseIdle /\ IntervalIdle /\ InnerInit

SingleNext ==
  \/ ParseNext /\ UNCHANGED <<vars, inner_vars>>
  \/ EndInterval /\ UNCHANGED <<parseVars, inner_vars>>
  \/ Next /\ UNCHANGED <<parseVars, vars>>

(* The measurements go on.                                                 *)
SingleSpec ==
  /\ SingleInit /\ [][SingleNext]_<<parseVars, vars, inner_vars>>
  /\ WF_vars(EndInterval) /\ WF_inner_vars(Next)
=============================================================================
