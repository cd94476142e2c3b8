------------------------------ MODULE Benchmp ------------------------------
(***************************************************************************)
(* The lmbench timing harness, lib_timing.c: one call of benchmp() by a    *)
(* benchmark program, with its children.  A call with parallel > 1 first   *)
(* runs a round with one child (the baseline), then a round with all of    *)
(* them.  In a round the parent and its children synchronise over four     *)
(* pipes: the children answer on `response', the parent hands out bytes on *)
(* `start_signal', `result_signal' and `exit_signal'.                      *)
(*                                                                         *)
(* A byte carries no information but its writer, so the response pipe is   *)
(* the sequence of the writers of the bytes in it and a signal pipe is a   *)
(* number of bytes.  A result_t record is Chunks bytes long.  Child i of   *)
(* the C code, which counts from 0, is child i+1 here.                     *)
(***************************************************************************)
EXTENDS Naturals, Sequences, FiniteSets

CONSTANTS
  Parallel,     \* benchmp's parameter `parallel'
  Repetitions,  \* benchmp's parameter `repetitions'
  Chunks,       \* bytes of a result record: sizeof_result(repetitions)
  PipeCap,      \* capacity of the response pipe
  Handlers,     \* what SIGTERM's disposition may be when benchmp is called
  HasCleanup,   \* whether the caller passes a cleanup function
  Faults,       \* the kinds of fault that may happen
  MaxFaults     \* how many faults may happen

Dispositions == {"SIG_DFL", "benchmp_sigterm"}
FaultKinds == {"child", "fork", "pipe", "alloc", "term", "parent"}

ASSUME BenchmpAssumption ==
  /\ Parallel \in Nat \ {0}
  /\ Repetitions \in Nat \ {0}
  /\ Chunks \in Nat \ {0}
  /\ PipeCap \in Nat \ {0}
  /\ Handlers \subseteq Dispositions
  /\ HasCleanup \in BOOLEAN
  /\ Faults \subseteq FaultKinds
  /\ MaxFaults \in Nat

Children == 1..Parallel

VARIABLES
  \* the parent: benchmp() and benchmp_parent()
  ppc,          \* where the parent is
  np,           \* `parallel' in the current round: 1 in the baseline
  pi,           \* the parent's loop variable i
  rbuf,         \* the writers of the bytes of `results' read so far
  merged,       \* the records merged so far, each as its bytes' writers
  timed,        \* gettime() > 0
  \* the parent's signals
  termHandler,  \* the disposition of SIGTERM
  savedTerm,    \* benchmp_sigterm_handler, what signal() returned
  termSeen,     \* benchmp_sigterm_received
  chldArmed,    \* the disposition of SIGCHLD is benchmp_sigchld
  chldSeen,     \* benchmp_sigchld_received
  \* the pipes
  open,         \* the parent's ends of the pipes are open
  response, startB, resultB, exitB,
  \* the children: benchmp_child() and benchmp_interval()
  cpc,          \* where the child is
  state,        \* the field `state' of the child
  need_warmup,  \* the field `need_warmup'
  reps,         \* the field `i', the number of results collected
  sent,         \* the bytes of its record the child has written
  ran,          \* the child has entered the benchmark function
  term,         \* SIGTERM is pending for the child
  tflag,        \* the child's copy of benchmp_sigterm_received
  freed,        \* how often the child has called cleanup(0, ...)
  faults        \* faults so far

parentVars == <<ppc, np, pi, rbuf, merged, timed>>
termVars   == <<termHandler, savedTerm, termSeen>>
chldVars   == <<chldArmed, chldSeen>>
signalB    == <<startB, resultB, exitB>>
pipes      == <<open, response, startB, resultB, exitB>>
childState == <<state, need_warmup, reps, sent, ran>>
childSig   == <<term, tflag, freed>>
children   == <<cpc, state, need_warmup, reps, sent, ran, term, tflag, freed>>

vars == <<parentVars, termVars, chldVars, pipes, children, faults>>

Active   == 1..np
Alive(c) == cpc[c] \notin {"none", "zombie", "gone"}
Dead(c)  == cpc[c] \in {"zombie", "gone"}

ParentPcs == {"call", "fork", "enter", "ready", "start", "done", "ask",
              "collect", "kill", "killwait", "fkill", "fwait",
              "reap", "reaplate", "finish", "returned", "dead"}
ChildPcs  == {"none", "init", "run", "switch", "startread", "ready",
              "done", "restart", "resultread", "report", "cleanup",
              "exitread", "zombie", "gone"}
Modes     == {"warmup", "timing_interval", "cooldown"}

----------------------------------------------------------------------------
(* Helpers shared by the actions.                                          *)

\* A fault of this kind is still allowed, and is counted.
Fault(kind) ==
  /\ kind \in Faults
  /\ faults < MaxFaults
  /\ faults' = faults + 1

\* A child ends: the kernel sends SIGCHLD, and benchmp_sigchld sets the
\* parent's flag and puts the default disposition back.
ExitChild(c) ==
  /\ cpc' = [cpc EXCEPT ![c] = "zombie"]
  /\ chldSeen' = (chldSeen \/ chldArmed)
  /\ chldArmed' = FALSE

\* The user's cleanup function is called with 0 iterations, if there is one.
CleanupZero(c) ==
  freed' = IF HasCleanup THEN [freed EXCEPT ![c] = @ + 1] ELSE freed

Goto(c, pc) == cpc' = [cpc EXCEPT ![c] = pc]

\* kill(pids[c], SIGTERM)
SendTerm(c) == term' = [term EXCEPT ![c] = Alive(c)]

\* The parent dies: its ends of the pipes close.
DieParent == ppc' = "dead" /\ open' = FALSE

----------------------------------------------------------------------------
(* benchmp(): entry, fork loop, end.                                       *)

Init ==
  /\ ppc = "call" /\ np = 1 /\ pi = 0
  /\ rbuf = <<>> /\ merged = <<>> /\ timed = FALSE
  /\ termHandler \in Handlers
  /\ savedTerm = "SIG_DFL" /\ termSeen = FALSE
  /\ chldArmed = FALSE /\ chldSeen = FALSE
  /\ open = FALSE /\ response = <<>>
  /\ startB = 0 /\ resultB = 0 /\ exitB = 0
  /\ cpc = [c \in Children |-> "none"]
  /\ state = [c \in Children |-> "warmup"]
  /\ need_warmup = [c \in Children |-> TRUE]
  /\ reps = [c \in Children |-> 0]
  /\ sent = [c \in Children |-> 0]
  /\ ran = [c \in Children |-> FALSE]
  /\ term = [c \in Children |-> FALSE]
  /\ tflag = [c \in Children |-> FALSE]
  /\ freed = [c \in Children |-> 0]
  /\ faults = 0

\* settime(0), the four pipes, the flags and the two handlers.  Nothing puts
\* the old disposition of SIGTERM back at the end of a round or a call, so
\* that the next one saves benchmp_sigterm.
Prepare ==
  /\ ppc = "call"
  /\ pi' = 0 /\ timed' = FALSE
  /\ rbuf' = <<>> /\ merged' = <<>>
  /\ savedTerm' = termHandler /\ termHandler' = "benchmp_sigterm"
  /\ termSeen' = FALSE
  /\ chldArmed' = TRUE /\ chldSeen' = FALSE
  /\ open' = TRUE /\ response' = <<>>
  /\ startB' = 0 /\ resultB' = 0 /\ exitB' = 0
  /\ UNCHANGED <<np, children>>

\* The fork loop begins, unless malloc of the pids fails: then benchmp()
\* returns with the handlers installed and the pipes open.
EnterRound     == Prepare /\ ppc' = "fork" /\ UNCHANGED faults
PidsAllocFails == Prepare /\ ppc' = "finish" /\ Fault("alloc")

\* A pipe() fails: return at once.
PipeFails ==
  /\ ppc = "call"
  /\ Fault("pipe")
  /\ ppc' = "finish" /\ timed' = FALSE
  /\ UNCHANGED <<np, pi, rbuf, merged, termVars, chldVars, pipes, children>>

\* One turn of the fork loop.  The child starts with the parent's SIGTERM
\* handler, which sets the child's copy of the flag.
ForkChild ==
  /\ ppc = "fork" /\ pi < np /\ ~termSeen
  /\ pi' = pi + 1
  /\ LET c == pi + 1 IN
       /\ cpc' = [cpc EXCEPT ![c] = "init"]
       /\ state' = [state EXCEPT ![c] = "warmup"]
       /\ need_warmup' = [need_warmup EXCEPT ![c] = TRUE]
       /\ reps' = [reps EXCEPT ![c] = 0]
       /\ sent' = [sent EXCEPT ![c] = 0]
       /\ ran' = [ran EXCEPT ![c] = FALSE]
       /\ term' = [term EXCEPT ![c] = FALSE]
       /\ tflag' = [tflag EXCEPT ![c] = FALSE]
       /\ freed' = [freed EXCEPT ![c] = 0]
  /\ UNCHANGED <<ppc, np, rbuf, merged, timed, termVars, chldVars, pipes, faults>>

\* The flag, or a failing fork(), ends the loop: error_exit of benchmp().
ForkStops ==
  /\ ppc = "fork" /\ pi < np
  /\ \/ termSeen /\ UNCHANGED faults
     \/ ~termSeen /\ Fault("fork")
  /\ ppc' = "fkill" /\ chldArmed' = FALSE
  /\ UNCHANGED <<np, pi, rbuf, merged, timed, termVars, chldSeen, pipes, children>>

\* All children are forked: close the children's ends, call benchmp_parent.
ForkEnds ==
  /\ ppc = "fork" /\ pi = np
  /\ ppc' = "enter"
  /\ UNCHANGED <<np, pi, rbuf, merged, timed, termVars, chldVars, pipes, children, faults>>

\* while (--i >= 0) { kill(pids[i], SIGTERM); waitpid(pids[i], NULL, 0); }
\* The loop leaves i = -1, so that the loop of cleanup_exit does nothing.
ForkKill ==
  /\ ppc = "fkill"
  /\ IF pi > 0 THEN ppc' = "fwait" /\ SendTerm(pi)
               ELSE ppc' = "finish" /\ UNCHANGED term
  /\ UNCHANGED <<np, pi, rbuf, merged, timed, termVars, chldVars, pipes,
                 cpc, childState, tflag, freed, faults>>

ForkWait ==
  /\ ppc = "fwait" /\ cpc[pi] = "zombie"
  /\ cpc' = [cpc EXCEPT ![pi] = "gone"]
  /\ ppc' = "fkill" /\ pi' = pi - 1
  /\ UNCHANGED <<np, rbuf, merged, timed, termVars, chldVars, pipes,
                 childState, childSig, faults>>

\* cleanup_exit of benchmp(): while (i-- > 0) wait for pids[i] under an
\* alarm.  waitpid returns when the child is a zombie, or was waited for
\* already.  benchmp_sigalrm is restarted into, so that the wait goes on.
Reap ==
  /\ ppc \in {"reap", "reaplate"} /\ pi > 0
  /\ Dead(pi)
  /\ cpc' = [cpc EXCEPT ![pi] = "gone"]
  /\ ppc' = "reap" /\ pi' = pi - 1
  /\ UNCHANGED <<np, rbuf, merged, timed, termVars, chldVars, pipes,
                 childState, childSig, faults>>

\* The alarm rings while the parent waits for pids[i]: kill it with SIGTERM.
AlarmRings ==
  /\ ppc = "reap" /\ pi > 0
  /\ ppc' = "reaplate"
  /\ SendTerm(pi)
  /\ UNCHANGED <<np, pi, rbuf, merged, timed, termVars, chldVars, pipes,
                 cpc, childState, tflag, freed, faults>>

EarlyReapEnds ==
  /\ ppc = "reap" /\ pi <= 1
  /\ ppc' = "finish"
  /\ UNCHANGED <<np, pi, rbuf, merged, timed, termVars, chldVars, pipes, children, faults>>

ReapEnds ==
  /\ ppc = "reap" /\ pi = 0
  /\ ppc' = "finish"
  /\ UNCHANGED <<np, pi, rbuf, merged, timed, termVars, chldVars, pipes, children, faults>>

\* The end of a round.  After a baseline that gave a time, the round with
\* all children follows; otherwise benchmp() returns to its caller.
FinishRound ==
  /\ ppc = "finish"
  /\ IF np < Parallel /\ timed THEN ppc' = "call" /\ np' = Parallel
                               ELSE ppc' = "returned" /\ UNCHANGED np
  /\ UNCHANGED <<pi, rbuf, merged, timed, termVars, chldVars, pipes, children, faults>>

----------------------------------------------------------------------------
(* benchmp_parent(): the handshake.                                        *)

DeafFailed == termSeen

\* What the parent tests after each select().
Failed == chldSeen \/ termSeen

\* error_exit of benchmp_parent().
GiveUp ==
  /\ ppc' = "kill" /\ pi' = 0 /\ chldArmed' = FALSE

EnterParent ==
  /\ ppc = "enter"
  /\ IF Failed THEN GiveUp
               ELSE ppc' = "ready" /\ pi' = 0 /\ UNCHANGED chldArmed
  /\ UNCHANGED <<np, rbuf, merged, timed, termVars, chldSeen, pipes, children, faults>>

\* A malloc fails: return to benchmp() with the pipes open.
ResultsAllocFails ==
  /\ ppc = "enter" /\ ~Failed
  /\ Fault("alloc")
  /\ ppc' = "reap" /\ pi' = np /\ chldArmed' = FALSE
  /\ UNCHANGED <<np, rbuf, merged, timed, termVars, chldSeen, pipes, children>>

\* read(response, signals, parallel - i): what is there, up to that many.
Available(wanted) == IF Len(response) < wanted THEN Len(response) ELSE wanted

EarlyAllAnswered == pi >= np - 1

\* The end of that loop: a byte of each child has been read.
AllAnswered == pi = np

\* One turn of the loop that collects the `ready' or the `done' bytes.
CollectBytes(here, next) ==
  /\ ppc = here
  /\ IF AllAnswered
     THEN /\ ppc' = next /\ pi' = 0
          /\ UNCHANGED <<chldArmed, response>>
     ELSE IF Failed THEN GiveUp /\ UNCHANGED response
     ELSE /\ response # <<>>
          /\ pi' = pi + Available(np - pi)
          /\ response' = SubSeq(response, Available(np - pi) + 1, Len(response))
          /\ UNCHANGED <<ppc, chldArmed>>
  /\ UNCHANGED <<np, rbuf, merged, timed, termVars, chldSeen, open, signalB, children, faults>>

CollectReady == CollectBytes("ready", "start")
CollectDone  == CollectBytes("done", "ask")

\* A write to a pipe that no child has open is answered with SIGPIPE.
NoReader == \A c \in Active : ~Alive(c)

OneByte == 1

\* How many bytes `start' and `exit' are.
BytePerChild == np

\* The warmup sleep, then one start byte for each child.
SendStart ==
  /\ ppc = "start"
  /\ IF NoReader
     THEN DieParent /\ UNCHANGED <<pi, startB>>
     ELSE ppc' = "done" /\ pi' = 0 /\ startB' = startB + BytePerChild /\ UNCHANGED open
  /\ UNCHANGED <<np, rbuf, merged, timed, termVars, chldVars, response,
                 resultB, exitB, children, faults>>

\* One result byte: one child will report.
AskOne ==
  /\ ppc = "ask" /\ pi < np
  /\ IF NoReader
     THEN DieParent /\ UNCHANGED <<rbuf, resultB>>
     ELSE ppc' = "collect" /\ rbuf' = <<>> /\ resultB' = resultB + 1 /\ UNCHANGED open
  /\ UNCHANGED <<np, pi, merged, timed, termVars, chldVars, response,
                 startB, exitB, children, faults>>

ShortRecordRead == rbuf # <<>>

\* The record is complete: sizeof_result(repetitions) bytes are read.
RecordRead == Len(rbuf) = Chunks

\* Read bytes of the record; when it is complete, merge it.
CollectResult ==
  /\ ppc = "collect"
  /\ IF RecordRead
     THEN /\ merged' = Append(merged, rbuf)
          /\ ppc' = "ask" /\ pi' = pi + 1
          /\ UNCHANGED <<rbuf, chldArmed, response>>
     ELSE /\ UNCHANGED merged
          /\ IF Failed THEN GiveUp /\ UNCHANGED <<rbuf, response>>
             ELSE LET k == Available(Chunks - Len(rbuf)) IN
                  /\ response # <<>>
                  /\ rbuf' = rbuf \o SubSeq(response, 1, k)
                  /\ response' = SubSeq(response, k + 1, Len(response))
                  /\ UNCHANGED <<ppc, pi, chldArmed>>
  /\ UNCHANGED <<np, timed, termVars, chldSeen, open, signalB, children, faults>>

\* All records are merged: SIGCHLD is ignored from here, one exit byte for
\* each child, set_results, and the pipes are closed.  gettime() is 0 when no
\* record holds a result: a single child may have given up sizing its
\* interval, and insertsort drops an interval of no time, which counts for
\* one of several children.
Release ==
  /\ ppc = "ask" /\ pi = np
  /\ chldArmed' = FALSE
  /\ open' = FALSE
  /\ IF NoReader
     THEN ppc' = "dead" /\ UNCHANGED <<exitB, timed>>
     ELSE /\ ppc' = "reap"
          /\ exitB' = exitB + BytePerChild
          /\ timed' \in BOOLEAN
          /\ timed' => \E c \in Active : reps[c] > 0
          /\ np = 1 /\ reps[1] > 0 => timed'
  /\ UNCHANGED <<np, pi, rbuf, merged, termVars, chldSeen, response,
                 startB, resultB, children, faults>>

\* error_exit: for each child, kill(pids[i], SIGTERM); waitpid(pids[i], ...);
\* then the pipes are closed.
Kill ==
  /\ ppc = "kill"
  /\ IF pi < np
     THEN ppc' = "killwait" /\ SendTerm(pi + 1) /\ UNCHANGED <<pi, open>>
     ELSE ppc' = "reap" /\ pi' = np /\ open' = FALSE /\ UNCHANGED term
  /\ UNCHANGED <<np, rbuf, merged, timed, termVars, chldVars, response, signalB,
                 cpc, childState, tflag, freed, faults>>

KillWait ==
  /\ ppc = "killwait" /\ cpc[pi + 1] = "zombie"
  /\ cpc' = [cpc EXCEPT ![pi + 1] = "gone"]
  /\ ppc' = "kill" /\ pi' = pi + 1
  /\ UNCHANGED <<np, rbuf, merged, timed, termVars, chldVars, pipes,
                 childState, childSig, faults>>

----------------------------------------------------------------------------
(* benchmp_child() and benchmp_interval().                                 *)

\* What a child's step leaves alone.
ParentIdle == UNCHANGED <<parentVars, termVars, faults>>

\* benchmp_child() up to its loop: initialize(0, cookie), the SIGTERM
\* handler, and the test of the flag.  The handler is benchmp_child_sigterm
\* when the parent's saved one is SIG_DFL, and the saved one otherwise.
StartChild(c) ==
  /\ cpc[c] = "init"
  /\ IF tflag[c]
     THEN ExitChild(c) /\ CleanupZero(c)
     ELSE Goto(c, "switch") /\ UNCHANGED <<chldVars, freed>>
  /\ ParentIdle /\ UNCHANGED <<pipes, childState, term, tflag>>

\* The benchmark function returns into benchmp_interval(): stop(), the
\* interval's cleanup(iterations, ...).
StopInterval(c) ==
  /\ cpc[c] = "run"
  /\ Goto(c, "switch")
  /\ ParentIdle /\ UNCHANGED <<chldVars, pipes, childState, childSig>>

\* getppid() == 1 && cleanup: clean up and exit.
OrphanExits(c) ==
  /\ cpc[c] = "switch" /\ ppc = "dead" /\ HasCleanup
  /\ ExitChild(c) /\ CleanupZero(c)
  /\ ParentIdle /\ UNCHANGED <<pipes, childState, term, tflag>>

\* The test above let the child pass.
NotOrphan == ppc # "dead" \/ ~HasCleanup

\* After the switch of benchmp_interval() in state warmup.
AfterPoll(c) == IF need_warmup[c] THEN "ready" ELSE "restart"

\* case warmup: poll start_signal.  It is readable at end of file, too.
PollStart(c) ==
  /\ cpc[c] = "switch" /\ state[c] = "warmup" /\ NotOrphan
  /\ IF startB > 0 \/ ~open
     THEN /\ state' = [state EXCEPT ![c] = "timing_interval"]
          /\ Goto(c, "startread")
     ELSE Goto(c, AfterPoll(c)) /\ UNCHANGED state
  /\ ParentIdle
  /\ UNCHANGED <<chldVars, pipes, need_warmup, reps, sent, ran, childSig>>

\* read(start_signal, &c, 1): blocks while the pipe is open and empty.
ReadStart(c) ==
  /\ cpc[c] = "startread"
  /\ startB > 0 \/ ~open
  /\ startB' = IF startB > 0 THEN startB - 1 ELSE 0
  /\ Goto(c, AfterPoll(c))
  /\ ParentIdle
  /\ UNCHANGED <<chldVars, open, response, resultB, exitB, childState, childSig>>

\* Append the child's byte to the response pipe; SIGPIPE when the parent's
\* end is closed.  The write blocks while the pipe is full.
Respond(c, next) ==
  IF open
  THEN /\ Len(response) < PipeCap
       /\ response' = Append(response, c)
       /\ Goto(c, next) /\ UNCHANGED chldVars
  ELSE ExitChild(c) /\ UNCHANGED response

\* need_warmup = 0; write the `ready' byte.
SendReady(c) ==
  /\ cpc[c] = "ready"
  /\ need_warmup' = [need_warmup EXCEPT ![c] = FALSE]
  /\ Respond(c, "restart")
  /\ ParentIdle /\ UNCHANGED <<open, signalB, state, reps, sent, ran, childSig>>

\* case timing_interval: record the time or size the interval anew.  With
\* several children every interval counts; a single child counts those that
\* are long enough, and gives up when it cannot make them so.
MeasureWith(c, counted, gaveUp) ==
  /\ cpc[c] = "switch" /\ state[c] = "timing_interval" /\ NotOrphan
  /\ np > 1 => counted /\ ~gaveUp
  /\ reps' = [reps EXCEPT ![c] = IF counted THEN @ + 1 ELSE @]
  /\ IF gaveUp \/ (counted /\ reps[c] + 1 >= Repetitions)
     THEN /\ state' = [state EXCEPT ![c] = "cooldown"]
          /\ Goto(c, "done")
     ELSE Goto(c, "restart") /\ UNCHANGED state
  /\ ParentIdle
  /\ UNCHANGED <<chldVars, pipes, need_warmup, sent, ran, childSig>>

Measure(c) == \E counted, gaveUp \in BOOLEAN : MeasureWith(c, counted, gaveUp)

\* The `done' byte.
SendDone(c) ==
  /\ cpc[c] = "done"
  /\ Respond(c, "restart")
  /\ ParentIdle /\ UNCHANGED <<open, signalB, childState, childSig>>

\* case cooldown: poll result_signal, and read it when it is readable.
PollResult(c) ==
  /\ cpc[c] = "switch" /\ state[c] = "cooldown" /\ NotOrphan
  /\ Goto(c, IF resultB > 0 \/ ~open THEN "resultread" ELSE "restart")
  /\ ParentIdle /\ UNCHANGED <<chldVars, pipes, childState, childSig>>

PeekResult(c) ==
  /\ cpc[c] = "resultread"
  /\ resultB > 0 \/ ~open
  /\ Goto(c, "report")
  /\ ParentIdle /\ UNCHANGED <<chldVars, pipes, childState, childSig>>

ReadResult(c) ==
  /\ cpc[c] = "resultread"
  /\ resultB > 0 \/ ~open
  /\ resultB' = IF resultB > 0 THEN resultB - 1 ELSE 0
  /\ Goto(c, "report")
  /\ ParentIdle
  /\ UNCHANGED <<chldVars, open, response, startB, exitB, childState, childSig>>

AfterByte(c) == IF sent[c] + 1 < Chunks THEN "report" ELSE "cleanup"

\* write(response, get_results(), r_size), byte by byte.
Report(c) ==
  /\ cpc[c] = "report"
  /\ sent' = [sent EXCEPT ![c] = @ + 1]
  /\ Respond(c, AfterByte(c))
  /\ ParentIdle /\ UNCHANGED <<open, signalB, state, need_warmup, reps, ran, childSig>>

\* cleanup(0, cookie)
FinalCleanup(c) ==
  /\ cpc[c] = "cleanup"
  /\ Goto(c, "exitread") /\ CleanupZero(c)
  /\ ParentIdle /\ UNCHANGED <<chldVars, pipes, childState, term, tflag>>

EagerExit(c) ==
  /\ cpc[c] = "exitread"
  /\ ExitChild(c)
  /\ ParentIdle /\ UNCHANGED <<pipes, childState, childSig>>

HeldExit(c) ==
  /\ cpc[c] = "exitread"
  /\ exitB > 0
  /\ exitB' = exitB - 1
  /\ ExitChild(c)
  /\ ParentIdle /\ UNCHANGED <<open, response, startB, resultB, childState, childSig>>

\* read(exit_signal, &c, 1); exit(0)
ReadExit(c) ==
  /\ cpc[c] = "exitread"
  /\ exitB > 0 \/ ~open
  /\ exitB' = IF exitB > 0 THEN exitB - 1 ELSE 0
  /\ ExitChild(c)
  /\ ParentIdle /\ UNCHANGED <<open, response, startB, resultB, childState, childSig>>

\* initialize(iterations, cookie); start(0); then the benchmark runs.
Restart(c) ==
  /\ cpc[c] = "restart"
  /\ Goto(c, "run")
  /\ ran' = [ran EXCEPT ![c] = TRUE]
  /\ ParentIdle
  /\ UNCHANGED <<chldVars, pipes, state, need_warmup, reps, sent, childSig>>

\* SIGTERM reaches the child.  Before StartChild the parent's handler sets
\* the flag; after it, benchmp_child_sigterm cleans up and exits, or the
\* inherited benchmp_sigterm sets a flag that nothing reads any more.
TakeTerm(c) ==
  /\ term[c] /\ Alive(c)
  /\ term' = [term EXCEPT ![c] = FALSE]
  /\ IF cpc[c] = "init" \/ savedTerm = "benchmp_sigterm"
     THEN tflag' = [tflag EXCEPT ![c] = TRUE] /\ UNCHANGED <<cpc, chldVars, freed>>
     ELSE ExitChild(c) /\ CleanupZero(c) /\ UNCHANGED tflag
  /\ ParentIdle /\ UNCHANGED <<pipes, childState>>

----------------------------------------------------------------------------
(* Faults.                                                                 *)

\* A child ends early: its benchmark exits or crashes, its malloc fails, or
\* one of its own subprocesses dies and benchmp_child_sigchld exits.
ChildFails(c) ==
  /\ Alive(c)
  /\ Fault("child")
  /\ ExitChild(c)
  /\ UNCHANGED <<parentVars, termVars, pipes, childState, childSig>>

\* The user sends SIGTERM to the parent while benchmp's handler is in place.
UserTerm ==
  /\ ppc \notin {"call", "finish", "returned", "dead"} /\ ~termSeen
  /\ Fault("term")
  /\ termSeen' = TRUE
  /\ UNCHANGED <<parentVars, termHandler, savedTerm, chldVars, pipes, children>>

\* The parent is killed.
ParentDies ==
  /\ ppc \notin {"returned", "dead"}
  /\ Fault("parent")
  /\ DieParent
  /\ UNCHANGED <<np, pi, rbuf, merged, timed, termVars, chldVars,
                 response, signalB, children>>

----------------------------------------------------------------------------

ParentStep ==
  \/ EnterRound \/ ForkChild \/ ForkStops \/ ForkEnds
  \/ ForkKill \/ ForkWait
  \/ Reap \/ ReapEnds \/ FinishRound
  \/ EnterParent
  \/ CollectReady \/ SendStart \/ CollectDone
  \/ AskOne \/ CollectResult \/ Release
  \/ Kill \/ KillWait

ParentFault ==
  PipeFails \/ PidsAllocFails \/ ResultsAllocFails \/ UserTerm \/ ParentDies

ChildStep(c) ==
  \/ StartChild(c) \/ StopInterval(c) \/ OrphanExits(c)
  \/ PollStart(c) \/ ReadStart(c) \/ SendReady(c)
  \/ Measure(c) \/ SendDone(c)
  \/ PollResult(c) \/ ReadResult(c) \/ Report(c) \/ FinalCleanup(c)
  \/ ReadExit(c) \/ Restart(c)

\* benchmp() has returned, or the parent is dead and no child is left.
Terminated ==
  /\ ppc = "returned" \/ (ppc = "dead" /\ \A c \in Children : ~Alive(c))
  /\ UNCHANGED vars

Next ==
  \/ ParentStep \/ AlarmRings \/ ParentFault
  \/ \E c \in Children : ChildStep(c) \/ TakeTerm(c) \/ ChildFails(c)
  \/ Terminated

Spec == Init /\ [][Next]_vars

\* The kernel runs every process and delivers every signal.  A child that
\* sizes its own interval comes to one that is long enough.
Fairness ==
  /\ WF_vars(ParentStep) /\ WF_vars(AlarmRings)
  /\ \A c \in Children :
       /\ WF_vars(ChildStep(c))
       /\ WF_vars(TakeTerm(c))
       /\ SF_vars(\E gaveUp \in BOOLEAN : MeasureWith(c, TRUE, gaveUp))

FairSpec == Spec /\ Fairness

----------------------------------------------------------------------------
(* What the harness promises.                                              *)

TypeParent ==
  /\ ppc \in ParentPcs
  /\ np \in {1, Parallel}
  /\ pi \in 0..np
  /\ rbuf \in Seq(Children) /\ Len(rbuf) <= Chunks
  /\ merged \in Seq(Seq(Children))
  /\ faults \in 0..MaxFaults

TypeFlags ==
  /\ timed \in BOOLEAN /\ open \in BOOLEAN
  /\ termHandler \in Dispositions /\ savedTerm \in Dispositions
  /\ termSeen \in BOOLEAN /\ chldArmed \in BOOLEAN /\ chldSeen \in BOOLEAN

TypePipes ==
  /\ response \in Seq(Children) /\ Len(response) <= PipeCap
  /\ startB \in Nat /\ resultB \in Nat /\ exitB \in Nat

TypeChildren ==
  /\ cpc \in [Children -> ChildPcs]
  /\ state \in [Children -> Modes]
  /\ need_warmup \in [Children -> BOOLEAN]
  /\ reps \in [Children -> 0..Repetitions]
  /\ sent \in [Children -> 0..Chunks]
  /\ ran \in [Children -> BOOLEAN]
  /\ term \in [Children -> BOOLEAN]
  /\ tflag \in [Children -> BOOLEAN]
  /\ freed \in [Children -> Nat]

TypeOK == TypeParent /\ TypeFlags /\ TypePipes /\ TypeChildren

\* The child is inside the benchmark, between start() and stop() of an
\* interval whose time will be looked at.
Timing(c) == cpc[c] = "run" /\ state[c] = "timing_interval"

\* The child goes round benchmp_interval's loop, calling the benchmark each
\* time round.
Loaded(c) ==
  /\ ~need_warmup[c]
  /\ cpc[c] \in {"run", "switch", "startread", "ready", "done", "restart"}

\* No child is timed unless every other child has answered `ready' and has
\* not yet been asked for its results, as long as the parent and the other
\* child live: the first goal of the harness.
LoadDuringTiming ==
  ppc # "dead" => \A c, d \in Active : Timing(c) => Loaded(d) \/ Dead(d)

\* When a child reports its results, every child has ended its last timing
\* interval: the comment `At this point all children have stopped their
\* measurement loops' of benchmp_interval().
AllStoppedBeforeReport ==
  ppc # "dead" =>
    \A c, d \in Active :
      cpc[c] \in {"report", "cleanup", "exitread"} => state[d] = "cooldown"

\* The bytes of a record that is being read or waits in the pipe, and those
\* of a record that was merged, are from one child: only one child writes
\* results at a time, though a record takes several reads and writes.
ResultsUnmixed ==
  /\ ppc = "collect" =>
       \E c \in Active :
         /\ \A j \in 1..Len(rbuf) : rbuf[j] = c
         /\ \A j \in 1..Len(response) : response[j] = c
  /\ \A k \in 1..Len(merged) :
       \E c \in Active : merged[k] = [j \in 1..Chunks |-> c]

\* A round that leaves a time has merged exactly one whole record of each of
\* its children, whatever children, forks or signals failed on the way.
TimedIsComplete ==
  timed /\ ppc \notin {"call", "dead"} =>
    /\ Len(merged) = np
    /\ \A c \in Active : \E k \in 1..np : merged[k] = [j \in 1..Chunks |-> c]

\* A child that found start_signal readable reads it without blocking, though
\* other children read the same pipe between its select() and its read().
StartNeverBlocks ==
  open => \A c \in Children : cpc[c] = "startread" => startB > 0

\* Without a fault the parent never takes an error exit: the children stay
\* alive until the exit bytes are sent, so that a SIGCHLD means a failure.
ManagedChildrenLive ==
  faults = 0 => ppc \notin {"kill", "killwait", "fkill", "fwait"}

\* benchmp() returns with every child it forked waited for.
NoneLeft == ppc = "returned" => \A c \in Children : cpc[c] \in {"none", "gone"}

\* A call of benchmp() ends, or the parent is dead.
Returns == <>(ppc \in {"returned", "dead"})

\* When the parent is dead its children end.
OrphansEnd == (ppc = "dead") ~> (\A c \in Children : ~Alive(c))

\* The table of the handshake in lmbench3.ms: a child has run the benchmark
\* before it answers `ready', so that all have started it before one is timed.
AllRanBeforeTiming ==
  ppc # "dead" => \A c, d \in Active : Timing(c) => ran[d] \/ Dead(d)

\* `give the children a chance to clean up gracefully': a child that the
\* parent kills and waits for ends.
KilledChildEnds ==
  \A c \in Children : (ppc = "killwait" /\ pi + 1 = c) ~> (cpc[c] = "gone")

\* A SIGCHLD before the exit bytes is a child failure that the parent
\* handles: it does not end the parent.
ChildFailureIsHandled == ppc # "dead"

\* cleanup is called with 0 iterations once, just before the child exits.
CleanedUpOnce == \A c \in Children : freed[c] <= 1
=============================================================================
