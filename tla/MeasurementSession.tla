------------------------- MODULE MeasurementSession -------------------------
(***************************************************************************)
(* What benchmp() promises, without its pipes and signals: a team of       *)
(* workers is measured together.  No worker is timed before each one       *)
(* carries its load, none stops carrying it before each one's timing has   *)
(* ended, the records are handed over one worker at a time, and the        *)
(* verdict `ok' means that each of them was.                               *)
(***************************************************************************)
EXTENDS Naturals

CONSTANT MaxTeam    \* the size of the largest team

VARIABLES
  size,     \* the team is 1..size
  phase,    \* of each worker
  verdict   \* on the team's measurement

vars == <<size, phase, verdict>>

Workers == 1..MaxTeam
Team    == 1..size

Phases   == {"out", "loaded", "timed", "stopped", "reporting", "reported", "lost"}
Verdicts == {"none", "ok", "failed"}

AllOut  == [w \in Workers |-> "out"]
AllLost == [w \in Workers |-> "lost"]

Init == size = 1 /\ phase = AllOut /\ verdict = "none"

Become(w, p) ==
  /\ verdict = "none" /\ w \in Team
  /\ phase' = [phase EXCEPT ![w] = p]
  /\ UNCHANGED <<size, verdict>>

\* The worker takes up its load.
Load(w) == phase[w] = "out" /\ Become(w, "loaded")

\* Its timing begins, when the whole team is loaded.
Begin(w) ==
  /\ phase[w] = "loaded"
  /\ \A v \in Team : phase[v] # "out"
  /\ Become(w, "timed")

\* Its timing ends; it goes on carrying its load.
End(w) == phase[w] = "timed" /\ Become(w, "stopped")

\* It drops its load and hands over its record: only when the timing of the
\* whole team has ended, and one worker at a time.
StartReport(w) ==
  /\ phase[w] = "stopped"
  /\ \A v \in Team : phase[v] \in {"stopped", "reported", "lost"}
  /\ Become(w, "reporting")

EndReport(w) == phase[w] = "reporting" /\ Become(w, "reported")

\* The worker is lost before its record is handed over.
Lose(w) == phase[w] \notin {"reported", "lost"} /\ Become(w, "lost")

\* The verdict.
Succeed ==
  /\ verdict = "none"
  /\ \A w \in Team : phase[w] = "reported"
  /\ verdict' = "ok"
  /\ UNCHANGED <<size, phase>>

\* The measurement is given up.  It may be after it succeeded, when the
\* coordinator dies.
Fail ==
  /\ verdict' = "failed" /\ phase' = AllLost
  /\ UNCHANGED size

\* After a success with one worker the whole team is measured.
Enlarge ==
  /\ verdict = "ok" /\ size < MaxTeam
  /\ size' = MaxTeam /\ phase' = AllOut /\ verdict' = "none"

Next ==
  \/ \E w \in Workers :
       \/ Load(w) \/ Begin(w) \/ End(w)
       \/ StartReport(w) \/ EndReport(w) \/ Lose(w)
  \/ Succeed \/ Fail \/ Enlarge

Spec == Init /\ [][Next]_vars
=============================================================================
