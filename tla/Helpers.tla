------------------------------ MODULE Helpers ------------------------------
(***************************************************************************)
(* The benchmarks that measure two or more processes: lat_pipe, lat_fifo,  *)
(* lat_unix, lat_sem, lat_fcntl, lat_ctx, bw_pipe and bw_unix.  Process 0  *)
(* is a child of benchmp(); its `initialize' forks the helper processes    *)
(* 1..n, its benchmark function works with them, its `cleanup' ends them.  *)
(* A program is a record of what its functions do, and one set of actions  *)
(* carries it out, in the order in which benchmp_child() and               *)
(* benchmp_interval() call the functions.                                  *)
(*                                                                         *)
(* A pipe, a socket or a semaphore is a channel with a number of tokens: a *)
(* message, or a transfer of bw_pipe and bw_unix.                          *)
(***************************************************************************)
EXTENDS Naturals, Sequences, FiniteSets

CONSTANTS
  Programs,   \* the programs that are run, names of lines of Program
  Procs,      \* lat_ctx's argument: how many processes form the ring
  Room,       \* how many tokens a channel holds
  Faults,     \* what may go wrong
  MaxFaults   \* how often

(* Processes are numbers below Procs.                                      *)
Nobody == Procs
System == Procs + 1

FaultKinds == {"fork", "helper", "term", "killed", "parent"}

(* The programs that there are.                                            *)
ProgramNames == {"lat_pipe", "lat_fifo", "lat_unix", "lat_sem", "lat_fcntl", "lat_ctx",
                 "bw_pipe", "bw_unix"}

ASSUME HelpersAssumption ==
  /\ Programs \subseteq ProgramNames
  /\ Procs \in Nat \ {0, 1}
  /\ Room \in Nat \ {0}
  /\ Faults \subseteq FaultKinds
  /\ MaxFaults \in Nat

-----------------------------------------------------------------------------
(* What a process does in one turn: a sequence of these.                   *)
Put(k)     == [op |-> "put", at |-> k, to |-> k]
Get(k)     == [op |-> "get", at |-> k, to |-> k]
Pass(k, j) == [op |-> "pass", at |-> k, to |-> j]   \* a semop of two
Lock(k)    == [op |-> "lock", at |-> k, to |-> k]
Unlock(k)  == [op |-> "unlock", at |-> k, to |-> k]

(* The fields of a program:                                                *)
(*   n         the number of helpers                                       *)
(*   body      what the benchmark function does in one iteration           *)
(*   turn      what helper i does over and over, from place `again'        *)
(*   hello     initialize goes once around after the forks                 *)
(*   wr, rd    who holds the write and the read end of channel k           *)
(*   bodyEOF, helperEOF   what follows end of file                         *)
(*   noFork    what follows if fork() fails: initialize returns, with the  *)
(*             benchmark's ends of the channels set or not, or exits, with *)
(*             or without a cleanup                                        *)
(*   guard     cleanup kills a pid that is not 0, or that is above 0       *)
(*   signal    what cleanup kills with                                     *)
(*   exits     the helper has called signal(SIGTERM, exit)                 *)
(*   closes    cleanup closes its descriptors before it kills              *)
DoublePut ==
  [n |-> 1, body |-> <<Put(0), Put(0), Get(1)>>, turn |-> <<<<Get(0), Put(1)>>>>, again |-> 1,
   hello |-> TRUE, wr |-> <<{0}, {1}>>, rd |-> <<{1}, {0}>>,
   bodyEOF |-> "exit", helperEOF |-> "spin", noFork |-> "return", guard |-> "nonzero",
   signal |-> "KILL", exits |-> TRUE, closes |-> FALSE]

lat_pipe ==
  [n |-> 1, body |-> <<Put(0), Get(1)>>, turn |-> <<<<Get(0), Put(1)>>>>, again |-> 1,
   hello |-> TRUE, wr |-> <<{0}, {1}>>, rd |-> <<{1}, {0}>>,
   bodyEOF |-> "exit", helperEOF |-> "spin", noFork |-> "return", guard |-> "nonzero",
   signal |-> "KILL", exits |-> TRUE, closes |-> FALSE]

lat_fifo ==
  [lat_pipe EXCEPT !.guard = "positive", !.signal = "TERM", !.exits = FALSE,
                   !.closes = TRUE, !.noFork = "return unset"]

(* Both processes keep both ends of the socket pair.                       *)
lat_unix ==
  [lat_pipe EXCEPT !.hello = FALSE, !.wr = <<{0, 1}, {0, 1}>>, !.rd = <<{0, 1}, {0, 1}>>,
                   !.bodyEOF = "cleanup", !.helperEOF = "exit"]

SemEveryTurn ==
  [n |-> 1, body |-> <<Pass(1, 0)>>, turn |-> <<<<Put(1), Pass(0, 1)>>>>, again |-> 1,
   hello |-> FALSE, wr |-> <<{System}, {System}>>, rd |-> <<{System}, {System}>>,
   bodyEOF |-> "exit", helperEOF |-> "exit", noFork |-> "return", guard |-> "nonzero",
   signal |-> "KILL", exits |-> TRUE, closes |-> FALSE]

(* The semaphores belong to the system: nobody's end closes them.          *)
lat_sem ==
  [n |-> 1, body |-> <<Pass(1, 0)>>, turn |-> <<<<Put(1), Pass(0, 1)>>>>, again |-> 2,
   hello |-> FALSE, wr |-> <<{System}, {System}>>, rd |-> <<{System}, {System}>>,
   bodyEOF |-> "exit", helperEOF |-> "exit", noFork |-> "return", guard |-> "nonzero",
   signal |-> "KILL", exits |-> TRUE, closes |-> FALSE]

LockEarly ==
  [n |-> 1, body |-> <<Lock(0), Lock(1), Unlock(1), Unlock(0)>>,
   turn |-> <<<<Unlock(0), Lock(1), Unlock(1), Lock(0)>>>>, again |-> 1,
   hello |-> FALSE, wr |-> <<{System}, {System}>>, rd |-> <<{System}, {System}>>,
   bodyEOF |-> "exit", helperEOF |-> "exit", noFork |-> "exit", guard |-> "nonzero",
   signal |-> "KILL", exits |-> FALSE, closes |-> TRUE]

(* procA and procB; the files are 0 and 1.                                 *)
lat_fcntl ==
  [n |-> 1, body |-> <<Lock(0), Unlock(1), Lock(1), Unlock(0)>>,
   turn |-> <<<<Unlock(0), Lock(1), Unlock(1), Lock(0)>>>>, again |-> 1,
   hello |-> FALSE, wr |-> <<{System}, {System}>>, rd |-> <<{System}, {System}>>,
   bodyEOF |-> "exit", helperEOF |-> "exit", noFork |-> "exit", guard |-> "nonzero",
   signal |-> "KILL", exits |-> FALSE, closes |-> TRUE]

AnyPid ==
  [n |-> Procs - 1, body |-> <<Put(0), Get(Procs - 1)>>,
   turn |-> [i \in 1..Procs-1 |-> <<Get(i - 1), Put(i)>>], again |-> 1,
   hello |-> TRUE,
   wr |-> [k \in 1..Procs |-> {0, k - 1}],
   rd |-> [k \in 1..Procs |-> IF k = Procs THEN {0} ELSE {0, k}],
   bodyEOF |-> "exit", helperEOF |-> "exit", noFork |-> "cleanup", guard |-> "nonzero",
   signal |-> "KILL", exits |-> FALSE, closes |-> TRUE]

(* A ring of Procs pipes; the benchmark's process keeps all ends of all.   *)
lat_ctx ==
  [n |-> Procs - 1, body |-> <<Put(0), Get(Procs - 1)>>,
   turn |-> [i \in 1..Procs-1 |-> <<Get(i - 1), Put(i)>>], again |-> 1,
   hello |-> TRUE,
   wr |-> [k \in 1..Procs |-> {0, k - 1}],
   rd |-> [k \in 1..Procs |-> IF k = Procs THEN {0} ELSE {0, k}],
   bodyEOF |-> "exit", helperEOF |-> "exit", noFork |-> "cleanup", guard |-> "positive",
   signal |-> "KILL", exits |-> FALSE, closes |-> TRUE]

KeptReadEnd ==
  [n |-> 1, body |-> <<Get(1), Get(1)>>, turn |-> <<<<Put(1)>>>>, again |-> 1,
   hello |-> FALSE, wr |-> <<{}, {1}>>, rd |-> <<{}, {0, 1}>>,
   bodyEOF |-> "spin", helperEOF |-> "exit", noFork |-> "return unset", guard |-> "positive",
   signal |-> "KILL", exits |-> FALSE, closes |-> TRUE]

(* Two transfers are an iteration.                                         *)
bw_pipe ==
  [n |-> 1, body |-> <<Get(1), Get(1)>>, turn |-> <<<<Put(1)>>>>, again |-> 1,
   hello |-> FALSE, wr |-> <<{}, {1}>>, rd |-> <<{}, {0}>>,
   bodyEOF |-> "spin", helperEOF |-> "exit", noFork |-> "return unset", guard |-> "positive",
   signal |-> "KILL", exits |-> FALSE, closes |-> TRUE]

(* Channel 0 is the control pipe; its helper does not look at what read()  *)
(* returns.                                                                *)
bw_unix ==
  [bw_pipe EXCEPT !.body = <<Put(0), Get(1), Get(1)>>,
                  !.turn = <<<<Get(0), Put(1), Put(1)>>>>,
                  !.wr = <<{0}, {1}>>, !.rd = <<{1}, {0}>>,
                  !.bodyEOF = "exit", !.helperEOF = "go on", !.noFork = "return"]

Program(p) ==
  CASE p = "lat_pipe"  -> lat_pipe
    [] p = "lat_fifo"  -> lat_fifo
    [] p = "lat_unix"  -> lat_unix
    [] p = "lat_sem"   -> lat_sem
    [] p = "lat_fcntl" -> lat_fcntl
    [] p = "lat_ctx"   -> lat_ctx
    [] p = "bw_pipe"   -> bw_pipe
    [] p = "bw_unix"   -> bw_unix

-----------------------------------------------------------------------------
VARIABLES
  prog,      \* the program
  round,     \* benchmp's round: the disposition of SIGTERM depends on it
  bpc,       \* where the benchmark's process is
  bi,        \* its loop variable over helpers, or its place in the body
  first,     \* need_warmup: benchmp_interval has not been called yet
  armed,     \* SIGCHLD has the handler benchmp_child_sigchld
  tflag,     \* benchmp_sigterm_received
  told,      \* its results have been reported
  helper,    \* the helpers
  hpos,      \* their places in their turns
  closed,    \* the benchmark's process has closed its ends of the channels
  tokens,    \* the tokens in the channels
  owner,     \* who has locked files 0 and 1 of lat_fcntl
  pdead,     \* benchmp's parent process is dead
  served,    \* helpers that have had a turn since the last iteration's end
  faults     \* faults so far

vars == <<prog, round, bpc, bi, first, armed, tflag, told, helper, hpos, closed,
          tokens, owner, pdead, served, faults>>
benchVars == <<first, armed, tflag, told, closed>>
ringVars == <<tokens, owner>>
envVars == <<prog, round, pdead, faults>>

P == Program(prog)
All == 1..P.n
Channels == 0..Procs-1

(* A helper is "on" in its code, "spin"ning on end of file, a "zombie", or *)
(* there is none: not forked yet, fork() failed, or waited for.            *)
HelperStates == {"none", "failed", "on", "spin", "zombie", "gone"}
Lives(h) == helper[h] \in {"on", "spin"}

Init ==
  /\ prog \in Programs
  /\ round \in {"baseline", "parallel"}
  /\ bpc = "fork" /\ bi = 1
  /\ first = TRUE /\ armed = TRUE /\ tflag = FALSE /\ told = FALSE
  /\ helper = [h \in All |-> "none"] /\ hpos = [h \in All |-> 1]
  /\ closed = FALSE
  /\ tokens = [k \in Channels |-> 0]
  /\ owner = [k \in {0, 1} |-> IF prog = "lat_fcntl" THEN 0 ELSE Nobody]
  /\ pdead = FALSE /\ served = {} /\ faults = 0

-----------------------------------------------------------------------------
(* Channels and locks                                                      *)
ForkFailed == \E h \in All : helper[h] = "failed"
BenchHolds == bpc # "dead" /\ ~closed

(* Who holds an end of channel k.  A benchmark without its helper has      *)
(* closed none of them.                                                    *)
Holders(ends) ==
  {p \in ends : \/ p = System
                \/ p = 0 /\ BenchHolds
                \/ p \in All /\ Lives(p)}
  \union (IF ForkFailed /\ BenchHolds THEN {0} ELSE {})
Writers(k) == Holders(P.wr[k + 1])
Readers(k) == Holders(P.rd[k + 1])

(* Operation o of process p goes through.                                  *)
Works(p, o) ==
  CASE o.op = "put"    -> Readers(o.at) # {} /\ tokens[o.at] < Room
    [] o.op = "get"    -> tokens[o.at] > 0
    [] o.op = "pass"   -> tokens[o.at] > 0
    [] o.op = "lock"   -> owner[o.at] \in {Nobody, p}
    [] o.op = "unlock" -> TRUE

Effect(p, o) ==
  /\ tokens' = CASE o.op = "put"  -> [tokens EXCEPT ![o.at] = @ + 1]
                 [] o.op = "get"  -> [tokens EXCEPT ![o.at] = @ - 1]
                 [] o.op = "pass" -> [tokens EXCEPT ![o.at] = @ - 1, ![o.to] = @ + 1]
                 [] OTHER         -> tokens
  /\ owner' = CASE o.op = "lock" -> [owner EXCEPT ![o.at] = p]
                [] o.op = "unlock" /\ owner[o.at] = p -> [owner EXCEPT ![o.at] = Nobody]
                [] OTHER -> owner

(* End of file, and SIGPIPE.                                               *)
AtEOF(o) == o.op = "get" /\ tokens[o.at] = 0 /\ Writers(o.at) = {}
Broken(o) == o.op = "put" /\ Readers(o.at) = {}

(* A process that ends leaves its locks.                                   *)
Released(ps) == [k \in {0, 1} |-> IF owner[k] \in ps THEN Nobody ELSE owner[k]]

-----------------------------------------------------------------------------
(* The benchmark's process                                                 *)

(* It ends, by exit() or by a signal.                                      *)
BenchDies == /\ bpc' = "dead" /\ bi' = 1 /\ owner' = Released({0})
             /\ UNCHANGED <<first, armed, tflag, told, closed, tokens>>

(* The handlers benchmp_child_sigterm and benchmp_child_sigchld call       *)
(* cleanup(0, &_benchmp_child_state): it is given the harness' record for  *)
(* the benchmark's own, so that none of the helpers is touched.            *)
CleanupOnSignal == BenchDies

(* Something goes wrong.                                                   *)
Fault(kind) == kind \in Faults /\ faults < MaxFaults /\ faults' = faults + 1

(* initialize(0, cookie): fork the helpers.                                *)
Forks(h) ==
  /\ bpc = "fork" /\ bi = h
  /\ helper' = [helper EXCEPT ![h] = "on"]
  /\ IF h < P.n THEN bpc' = "fork" /\ bi' = h + 1
     ELSE /\ bpc' = IF P.hello THEN "hello" ELSE "interval"
          /\ bi' = 1
  /\ UNCHANGED <<benchVars, ringVars, hpos, served, envVars>>

(* lat_ctx closes its pipes and kills the helpers it has.                  *)
ForkFails(h) ==
  /\ Fault("fork") /\ bpc = "fork" /\ bi = h
  /\ helper' = [helper EXCEPT ![h] = "failed"]
  /\ \/ /\ P.noFork \in {"return", "return unset"}
        /\ bpc' = "interval" /\ bi' = 1
        /\ UNCHANGED <<benchVars, ringVars>>
     \/ P.noFork = "exit" /\ BenchDies
     \/ /\ P.noFork = "cleanup"
        /\ bpc' = "kill" /\ bi' = 1 /\ closed' = TRUE
        /\ UNCHANGED <<first, armed, tflag, told, ringVars>>
  /\ UNCHANGED <<hpos, served, prog, round, pdead>>

Body == P.body[bi]
Unset == ForkFailed /\ P.noFork = "return unset"
InBody == bpc \in {"hello", "body"}

(* One operation of the benchmark function, or of initialize's trip round. *)
(* After an iteration the function goes on or returns.                     *)
BodyStep ==
  /\ InBody /\ ~Unset /\ Works(0, Body) /\ Effect(0, Body)
  /\ IF bi < Len(P.body)
     THEN bi' = bi + 1 /\ UNCHANGED <<bpc, served>>
     ELSE /\ bi' = 1 /\ served' = {}
          /\ bpc' \in {bpc, "interval"} \ {"hello"}
  /\ UNCHANGED <<benchVars, helper, hpos, envVars>>

BodyFails ==
  /\ InBody
  /\ \/ /\ Unset \/ Broken(Body) \/ (AtEOF(Body) /\ (bpc = "hello" \/ P.bodyEOF = "exit"))
        /\ BenchDies
     \/ /\ ~Unset /\ bpc = "body" /\ AtEOF(Body) /\ P.bodyEOF # "exit"
        /\ bpc' = IF P.bodyEOF = "spin" THEN "spin" ELSE "kill"
        /\ bi' = 1 /\ UNCHANGED <<benchVars, ringVars>>
  /\ UNCHANGED <<helper, hpos, served, envVars>>

(* benchmp_child tests after initialize whether SIGTERM has come.          *)
TermSeen ==
  /\ bpc = "interval" /\ first /\ tflag
  /\ CleanupOnSignal
  /\ UNCHANGED <<helper, hpos, served, envVars>>

(* benchmp_interval: from its second call on it puts SIGCHLD back.  It     *)
(* ends if the parent process has, measures on, or reports.                *)
Interval(next) ==
  /\ bpc = "interval" /\ ~(first /\ tflag)
  /\ bpc' = next /\ bi' = 1
  /\ armed' = (armed /\ first /\ next = "body")
  /\ UNCHANGED <<tflag, tokens, helper, hpos, served, envVars>>
Measure == /\ ~pdead /\ Interval("body") /\ first' = FALSE
           /\ UNCHANGED <<told, closed, owner>>
CleanUp ==
  /\ Interval("kill") /\ closed' = P.closes
  /\ owner' = IF P.closes THEN Released({0}) ELSE owner
Report  == ~pdead /\ ~first /\ CleanUp /\ told' = TRUE /\ UNCHANGED first
Orphan  == pdead /\ CleanUp /\ UNCHANGED <<told, first>>

(* cleanup(0, cookie), helper by helper: kill it, and wait for it.         *)
AfterHelper(h) ==
  IF h < P.n THEN bpc' = "kill" /\ bi' = h + 1 /\ UNCHANGED owner
  ELSE IF told THEN bpc' = "exit" /\ bi' = 1 /\ owner' = Released({0})
  ELSE bpc' = "dead" /\ bi' = 1 /\ owner' = Released({0})

Kills(h) ==
  /\ bpc = "kill" /\ bi = h /\ helper[h] \in {"on", "spin", "zombie"}
  /\ bpc' = "reap"
  /\ IF Lives(h) /\ (P.signal = "KILL" \/ P.exits)
     THEN /\ helper' = [helper EXCEPT ![h] = "zombie"]
          /\ owner' = Released({h})
     ELSE UNCHANGED <<helper, owner>>
  /\ UNCHANGED <<bi, benchVars, tokens, hpos, served, envVars>>

(* Without a helper: kill(-1, ...) if cleanup only tests for 0.            *)
KillsNone(h) ==
  /\ bpc = "kill" /\ bi = h /\ helper[h] \in {"none", "failed"}
  /\ IF helper[h] = "failed" /\ P.guard = "nonzero"
     THEN bpc' = "killed all" /\ UNCHANGED <<bi, owner>>
     ELSE AfterHelper(h)
  /\ UNCHANGED <<benchVars, tokens, helper, hpos, served, envVars>>

Reaps(h) ==
  /\ bpc = "reap" /\ bi = h /\ helper[h] = "zombie"
  /\ helper' = [helper EXCEPT ![h] = "gone"]
  /\ AfterHelper(h)
  /\ UNCHANGED <<benchVars, tokens, hpos, served, envVars>>

(* The exit byte, or the end of file of exit_signal if the parent is dead. *)
Exits ==
  /\ bpc = "exit" /\ BenchDies
  /\ UNCHANGED <<helper, hpos, served, envVars>>

(* A helper's end is noticed while SIGCHLD has its handler.                *)
ChildSignal ==
  /\ armed /\ bpc \notin {"dead", "killed all"}
  /\ \E h \in All : helper[h] = "zombie"
  /\ CleanupOnSignal
  /\ UNCHANGED <<helper, hpos, served, envVars>>

(* benchmp's alarm: a child that does not end after it has reported is     *)
(* sent SIGTERM, once.  The time is long enough for one that makes         *)
(* progress.  In the round after the baseline it changes nothing.          *)
Alarm ==
  /\ told /\ ~pdead /\ bpc = "reap" /\ Lives(bi)
  /\ IF round = "parallel"
     THEN tflag' = TRUE /\ UNCHANGED <<bpc, bi, first, armed, told, closed, ringVars>>
     ELSE CleanupOnSignal
  /\ UNCHANGED <<helper, hpos, served, envVars>>

-----------------------------------------------------------------------------
(* The helpers                                                             *)
Turn(h) == P.turn[h][hpos[h]]
NextPos(h) == IF hpos[h] < Len(P.turn[h]) THEN hpos[h] + 1 ELSE P.again
AfterTurn(h) == hpos[h] \in {P.again - 1, Len(P.turn[h])}

HelperStep(h) ==
  /\ helper[h] = "on" /\ Works(h, Turn(h)) /\ Effect(h, Turn(h))
  /\ hpos' = [hpos EXCEPT ![h] = NextPos(h)]
  /\ served' = IF AfterTurn(h) THEN served \union {h} ELSE served
  /\ UNCHANGED <<bpc, bi, benchVars, helper, envVars>>

HelperFails(h) ==
  /\ helper[h] = "on"
  /\ \/ /\ Broken(Turn(h)) \/ (AtEOF(Turn(h)) /\ P.helperEOF = "exit")
        /\ helper' = [helper EXCEPT ![h] = "zombie"] /\ UNCHANGED hpos
     \/ /\ AtEOF(Turn(h)) /\ P.helperEOF = "spin"
        /\ helper' = [helper EXCEPT ![h] = "spin"] /\ UNCHANGED hpos
     \/ /\ AtEOF(Turn(h)) /\ P.helperEOF = "go on"
        /\ hpos' = [hpos EXCEPT ![h] = NextPos(h)] /\ UNCHANGED helper
  /\ UNCHANGED <<bpc, bi, benchVars, ringVars, served, envVars>>

-----------------------------------------------------------------------------
(* What else may go wrong                                                  *)
HelperDies(h) ==
  /\ Fault("helper") /\ Lives(h)
  /\ helper' = [helper EXCEPT ![h] = "zombie"]
  /\ owner' = Released({h})
  /\ UNCHANGED <<bpc, bi, benchVars, tokens, hpos, served, prog, round, pdead>>

(* SIGTERM from the parent's error exit.  During initialize, and in the    *)
(* round after the baseline, it only sets benchmp_sigterm_received.        *)
Term ==
  /\ Fault("term") /\ ~pdead /\ bpc \notin {"dead", "killed all"}
  /\ IF bpc \in {"fork", "hello"} \/ round = "parallel"
     THEN tflag' = TRUE /\ UNCHANGED <<bpc, bi, first, armed, told, closed, ringVars>>
     ELSE CleanupOnSignal
  /\ UNCHANGED <<helper, hpos, served, prog, round, pdead>>

BenchKilled ==
  /\ Fault("killed") /\ bpc \notin {"dead", "killed all"} /\ BenchDies
  /\ UNCHANGED <<helper, hpos, served, prog, round, pdead>>

ParentDies ==
  /\ Fault("parent") /\ ~pdead /\ pdead' = TRUE
  /\ UNCHANGED <<bpc, bi, benchVars, ringVars, helper, hpos, served, prog, round>>

-----------------------------------------------------------------------------
BenchStep ==
  \/ \E h \in All : Forks(h) \/ Kills(h) \/ KillsNone(h) \/ Reaps(h)
  \/ BodyStep \/ BodyFails \/ TermSeen \/ Measure \/ Report \/ Orphan \/ Exits

Next ==
  \/ BenchStep \/ ChildSignal \/ Alarm
  \/ \E h \in All : \/ HelperStep(h) \/ HelperFails(h)
                    \/ ForkFails(h) \/ HelperDies(h)
  \/ Term \/ BenchKilled \/ ParentDies

Spec == Init /\ [][Next]_vars

(* Every process runs, signals arrive, and the parent asks for the results *)
(* at some time: its child reaches benchmp_interval again and again.       *)
FairSpec ==
  /\ Spec
  /\ WF_vars(BenchStep) /\ WF_vars(ChildSignal) /\ WF_vars(Alarm)
  /\ SF_vars(BodyStep /\ bpc' = "interval") /\ SF_vars(Report)
  /\ \A h \in 1..Procs : WF_vars(h \in All /\ (HelperStep(h) \/ HelperFails(h)))

-----------------------------------------------------------------------------
(* Properties                                                              *)

TypeOK ==
  /\ prog \in Programs /\ round \in {"baseline", "parallel"}
  /\ bpc \in {"fork", "hello", "interval", "body", "kill", "reap", "exit", "spin",
              "killed all", "dead"}
  /\ bi \in 1..(P.n + Len(P.body))
  /\ <<first, armed, tflag, told, closed, pdead>> \in BOOLEAN \X BOOLEAN \X BOOLEAN
                                                      \X BOOLEAN \X BOOLEAN \X BOOLEAN
  /\ helper \in [All -> HelperStates]
  /\ \A h \in All : hpos[h] \in 1..Len(P.turn[h])
  /\ hpos \in [All -> Nat]
  /\ tokens \in [Channels -> 0..Room]
  /\ owner \in [{0, 1} -> All \union {0, Nobody}]
  /\ served \subseteq All
  /\ faults \in 0..MaxFaults

(* The programs that pass one token round.                                 *)
HotPotato == {"lat_pipe", "lat_fifo", "lat_unix", "lat_sem", "lat_ctx"}

(* Where the token is: in a channel, or with a process that is to put it   *)
(* into one.  The benchmark's process keeps it between two iterations.     *)
Places ==
  {<<"in", k>> : k \in {k \in Channels : tokens[k] > 0}}
  \union {<<"with", h>> : h \in {h \in All : helper[h] = "on" /\ Turn(h).op = "put"}}
  \union {<<"with", p>> : p \in IF prog = "lat_sem" \/ bpc = "dead" \/ (InBody /\ bi > 1)
                                THEN {} ELSE {0}}

(* A benchmark that passes a token has one, whatever fails: the processes  *)
(* never run ahead of each other.  (create_daemons and initialize put it   *)
(* in by going once around; lat_ctx.c:325, lat_pipe.c:108.)                *)
OneToken ==
  prog \in HotPotato =>
    /\ \A x, y \in Places : x = y
    /\ \A k \in Channels : tokens[k] <= 1

(* An iteration that is counted is a trip round: every helper has had its  *)
(* turn since the iteration before.                                        *)
IterationEnds == BodyStep /\ bi = Len(P.body)
TripRound(programs) ==
  (prog \in programs /\ IterationEnds) => (All \subseteq served)
EveryIterationIsATrip == [][TripRound(HotPotato)]_vars

(* Whatever single thing goes wrong, no cleanup calls kill(-1, SIGKILL) on *)
(* the pid that a failed fork() has left (lat_pipe.c:119, lat_sem.c:104,   *)
(* lat_unix.c:125, lat_fcntl.c:179).                                       *)
NeverKillsAll == bpc # "killed all"

(* A benchmark comes to its end (lat_fifo's only in the baseline round).   *)
(* If a helper dies, or the parent, or it is told to end, the programs end *)
(* in which the helper is the only one that could write what the           *)
(* benchmark's process reads.                                              *)
Notices == prog \in {"lat_pipe", "bw_unix"} /\ ~ForkFailed
Waits == prog = "lat_fifo" /\ round = "parallel"
BenchmarkEnds == <>(bpc = "dead" \/ Waits \/ (faults > 0 /\ ~Notices))

(* The helpers of a benchmark that has reported are ended by its cleanup   *)
(* (except those of lat_fifo), and those that read or write pipes nobody   *)
(* else holds end whenever the benchmark's process does.                   *)
NoneLives == \A h \in All : ~Lives(h)
HelpersEnd ==
  /\ (told /\ prog # "lat_fifo") ~> (NoneLives \/ faults > 0)
  /\ (bpc = "dead" /\ prog \in {"lat_ctx", "bw_pipe", "bw_unix"}) ~> NoneLives

-----------------------------------------------------------------------------
(* What the documentation says                                             *)

(* lat_fcntl.8: "alternately locks and unlocks files so that only one of   *)
(* the client or server is running at a time".                             *)
LocksAlternate == [][TripRound({"lat_fcntl"})]_vars

(* lib_timing.c:301: "We wait twice the timing interval plus two seconds   *)
(* for children to die.  If they haven't died by that time, then we start  *)
(* killing them": a benchmark ends.                                        *)
LateChildIsKilled == <>(bpc = "dead")

(* lib_timing.c:285: "give the children a chance to clean up gracefully":  *)
(* after SIGTERM a benchmark has no helpers left.                          *)
GracefulCleanup == (bpc = "dead") ~> NoneLives
=============================================================================
