----------------------------- MODULE BenchmpInv -----------------------------
(***************************************************************************)
(* The inductive invariant behind the safety of the harness.               *)
(***************************************************************************)
EXTENDS Benchmp

\* Bounds that TypeOK needs: a child that still measures has room for a
\* result, and one that still reports has bytes left.
Room ==
  \A c \in Children :
    /\ state[c] # "cooldown" => reps[c] < Repetitions
    /\ cpc[c] \notin {"cleanup", "exitread", "zombie", "gone"} => sent[c] < Chunks

\* Where the parent is inside the body of a loop.
InLoop ==
  /\ ppc = "fwait" => pi > 0
  /\ ppc \in {"collect", "killwait"} => pi < np

TypeInv == TypeOK /\ Room /\ InLoop

----------------------------------------------------------------------------

Waited(c) == cpc[c] \in {"none", "gone"}

\* How far the loops over pids have come: the children that a loop has left
\* behind, or has not reached, are waited for or were never forked.
LeftBehind(c) ==
  \/ c > np
  \/ ppc \in {"call", "finish", "returned"}
  \/ ppc \in {"fork", "fkill", "fwait", "reap", "reaplate"} /\ c > pi
  \/ ppc \in {"kill", "killwait"} /\ c <= pi

ForkedSoFar ==
  /\ \A c \in Children : LeftBehind(c) => Waited(c)
  /\ \A c \in Children : ppc \in {"fork", "enter"} /\ c <= pi => cpc[c] # "none"
  /\ ppc = "enter" => pi = np

\* Where a child can be in each of its states.
Reporting == {"resultread", "report", "cleanup", "exitread"}

ChildShape ==
  \A c \in Children :
    /\ cpc[c] \in {"init", "none"} => need_warmup[c]
    /\ cpc[c] = "init" => state[c] = "warmup"
    /\ cpc[c] = "ready" => need_warmup[c]
    /\ cpc[c] \in Reporting \cup {"done"} => state[c] = "cooldown"
    /\ cpc[c] = "startread" => state[c] # "cooldown"

----------------------------------------------------------------------------

\* Before the start bytes: nothing is handed out, every child warms up.
Quiet ==
  /\ startB = 0 /\ resultB = 0
  /\ \A c \in Children : Alive(c) => state[c] = "warmup"

AllReady == \A c \in Active : ~need_warmup[c]
AllCool  == \A c \in Active : state[c] = "cooldown"

BeforeStart ==
  ppc \in {"fork", "enter", "ready", "start", "fkill", "fwait"} => open /\ Quiet

AfterStart == ppc \in {"done", "ask", "collect"} => open /\ AllReady

\* While the `done' bytes are collected no child is asked to report.
NothingAsked ==
  ppc = "done" => resultB = 0 /\ \A c \in Children : cpc[c] \notin Reporting

AfterDone == ppc \in {"ask", "collect"} => AllCool

WhileKilling == ppc \in {"kill", "killwait"} => open /\ (Quiet \/ AllReady)

\* The pipes are still open only when benchmp_parent() could not start.
WhileReaping ==
  ppc \in {"reap", "reaplate"} =>
    IF open THEN Quiet
            ELSE AllCool \/ \A c \in Children : ~Alive(c)

\* A result byte is out, or was taken, only when all children cool down.
HandedOut ==
  /\ open /\ resultB > 0 /\ ppc \notin {"call", "finish", "returned"} => AllCool
  /\ \A c \in Children : cpc[c] \in Reporting => AllCool

Phases ==
  /\ BeforeStart /\ AfterStart /\ NothingAsked /\ AfterDone
  /\ WhileKilling /\ WhileReaping /\ HandedOut

----------------------------------------------------------------------------

\* The children whose `ready' byte is written, and those whose `done' byte is.
ReadySet ==
  {c \in Children : c <= (IF ppc = "fork" THEN pi ELSE np) /\ ~need_warmup[c]}
DoneSet ==
  {c \in Children : c <= np /\ state[c] = "cooldown" /\ cpc[c] # "done"}

\* No byte is counted or in the pipe that such a child has not written.
Counts ==
  /\ ppc \in {"fork", "enter"} => Len(response) <= Cardinality(ReadySet)
  /\ ppc = "ready" => pi + Len(response) <= Cardinality(ReadySet)
  /\ ppc = "start" => AllReady /\ Len(response) = 0
  /\ ppc = "done"  => pi + Len(response) <= Cardinality(DoneSet)

Sync == ForkedSoFar /\ ChildShape /\ Phases /\ Counts

\* The parent's death closes the pipes, and nothing synchronises the children
\* any more.
IInv == TypeInv /\ (ppc # "dead" => Sync)

----------------------------------------------------------------------------
(* The records: who writes one, and which are merged.                      *)

\* All bytes of a record that one child wrote.
Whole(c) == [j \in 1..Chunks |-> c]

\* The children whose record is merged.
Collected == {c \in Active : \E k \in 1..Len(merged) : merged[k] = Whole(c)}

Wholes == \A k \in 1..Len(merged) : \E c \in Active : merged[k] = Whole(c)

\* How much of its record a child has written, by where it is.
SentShape ==
  \A c \in Children :
    /\ sent[c] # 0 => cpc[c] \in {"report", "cleanup", "exitread", "zombie", "gone"}
    /\ cpc[c] \in {"cleanup", "exitread"} => sent[c] = Chunks

\* No record is asked for, and no byte of one is written.
NothingSent ==
  ppc \in {"fork", "enter", "ready", "start", "done"} =>
    /\ merged = <<>>
    /\ \A c \in Active : (ppc = "fork" => c <= pi) => sent[c] = 0

\* An attempt that has no record of some child yet.
Unfinished ==
  /\ ppc \in {"call", "fkill", "fwait", "kill", "killwait"} => Len(merged) < np
  /\ timed => ppc \in {"call", "reap", "reaplate", "finish", "returned", "dead"}

\* One record is merged for each turn of the loop, each of another child.
Merging ==
  ppc \in {"ask", "collect"} =>
    /\ Len(merged) = pi /\ Cardinality(Collected) = pi
    /\ \A c \in Collected : sent[c] = Chunks
    /\ \A c \in Children : cpc[c] # "done"

\* A child that the parent has no byte of, and that writes none.
Silent(c) == sent[c] = 0 /\ cpc[c] # "report"

AllSilent ==
  rbuf = <<>> /\ response = <<>> /\ \A c \in Active \ Collected : Silent(c)

\* All these bytes have the same writer.
AllFrom(bytes, w) == \A j \in 1..Len(bytes) : bytes[j] = w

\* The child w has taken the result byte: what is read and what is in the
\* pipe is what it has written.
Writing(w) ==
  /\ w \notin Collected /\ resultB = 0
  /\ Len(rbuf) + Len(response) = sent[w]
  /\ AllFrom(rbuf, w) /\ AllFrom(response, w)
  /\ \A c \in Active \ Collected : c # w => Silent(c)

OneWriter ==
  /\ ppc = "ask" =>
       resultB = 0 /\ response = <<>> /\ \A c \in Active \ Collected : Silent(c)
  /\ ppc = "collect" => (resultB = 1 /\ AllSilent) \/ \E w \in Active : Writing(w)

\* What is left of a round at its end.
Outcome ==
  ppc \in {"reap", "reaplate", "finish", "returned"} =>
    /\ timed => Len(merged) = np
    /\ Len(merged) = np => \A c \in Active : c \in Collected /\ sent[c] = Chunks

Ledger == NothingSent /\ Unfinished /\ Merging /\ OneWriter /\ Outcome

Records == SentShape /\ Wholes /\ (ppc # "dead" => Ledger)

----------------------------------------------------------------------------
(* A round without faults.                                                 *)

\* The parent's round up to the exit bytes.
Engaged ==
  ppc \in {"fork", "enter", "ready", "start", "done", "ask", "collect"}

\* Nothing has happened to the child.
Untouched(c) == Alive(c) /\ ~term[c] /\ ~tflag[c]

Calm ==
  faults = 0 =>
    /\ ppc \notin {"kill", "killwait", "fkill", "fwait", "dead"}
    /\ ~termSeen
    /\ Engaged =>
         /\ ~chldSeen /\ exitB = 0
         /\ \A c \in Active : (ppc = "fork" => c <= pi) => Untouched(c)
=============================================================================
