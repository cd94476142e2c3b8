------------------------- MODULE BenchmpRefinement -------------------------
(***************************************************************************)
(* The harness implements a measurement session.                           *)
(***************************************************************************)
EXTENDS Benchmp

\* The parent has given the round up, or is dead.
GivenUp ==
  \/ ppc \in {"kill", "killwait", "fkill", "fwait", "dead"}
  \/ ppc \in {"reap", "reaplate", "finish", "returned"} /\ Len(merged) # np

\* The child of this round does not exist yet.
NotForked(c) == ppc = "call" \/ (ppc = "fork" /\ c > pi) \/ c > np

\* What the session sees of a child.  One that waits for its result byte has
\* dropped its load already, and one that ended keeps its sent count.
PhaseOf(c) ==
  CASE NotForked(c)                       -> "out"
    [] ~NotForked(c) /\ sent[c] = Chunks   -> "reported"
    [] ~NotForked(c) /\ sent[c] < Chunks /\ Dead(c) -> "lost"
    [] ~NotForked(c) /\ sent[c] < Chunks /\ ~Dead(c) ->
         CASE need_warmup[c]               -> "out"
           [] ~need_warmup[c] /\ state[c] = "warmup"          -> "loaded"
           [] ~need_warmup[c] /\ state[c] = "timing_interval" -> "timed"
           [] ~need_warmup[c] /\ state[c] = "cooldown"        ->
                IF cpc[c] = "report" THEN "reporting" ELSE "stopped"

TeamPhase ==
  IF GivenUp THEN [c \in Children |-> "lost"] ELSE [c \in Children |-> PhaseOf(c)]

TeamVerdict ==
  IF GivenUp THEN "failed"
  ELSE IF ppc \in {"reap", "reaplate", "finish", "returned"} THEN "ok"
  ELSE "none"

Session == INSTANCE MeasurementSession WITH
  MaxTeam <- Parallel,
  size    <- np,
  phase   <- TeamPhase,
  verdict <- TeamVerdict

\* Every step of the harness, faults included, is a step of a session or
\* leaves the session as it is.
ImplementsSession == Session!Spec
=============================================================================
