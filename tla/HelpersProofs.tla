--------------------------- MODULE HelpersProofs ---------------------------
(***************************************************************************)
(* Proofs about the benchmarks with helper processes, for every number of  *)
(* processes in the ring, whatever room the channels have and whatever     *)
(* goes wrong: where the processes are; that there is at most one token,   *)
(* which goes round; and, with a single fault, that nobody else is killed. *)
(***************************************************************************)
EXTENDS Helpers, TLAPS

USE HelpersAssumption DEF HelpersAssumption

-----------------------------------------------------------------------------
(* What all programs have in common                                        *)

Operations == {"put", "get", "pass", "lock", "unlock"}
IsOperation(o) ==
  /\ o.op \in Operations /\ o.at \in Channels /\ o.to \in Channels
  /\ o.op \in {"lock", "unlock"} => o.at \in {0, 1}

\* A program has a helper at least, and what a process does is at least one
\* operation. Only lat_sem's operations change two semaphores at once.
IsProgram(q) ==
  /\ q.n \in Nat /\ q.n >= 1 /\ q.n < Procs
  /\ Len(q.body) \in Nat /\ Len(q.body) >= 1
  /\ \A k \in 1..Len(q.body) : IsOperation(q.body[k])
  /\ q.again \in Nat /\ q.again >= 1
  /\ \A h \in 1..q.n :
       /\ Len(q.turn[h]) \in Nat /\ q.again <= Len(q.turn[h])
       /\ \A k \in 1..Len(q.turn[h]) : IsOperation(q.turn[h][k])

\* The channels that every program has.
LEMMA TwoChannels == 0 \in Channels /\ 1 \in Channels /\ Procs - 1 \in Channels
  BY DEF Channels

\* What the programs are written in.
LEMMA OperationsAre ==
  ASSUME NEW k \in Channels, NEW j \in Channels
  PROVE  /\ IsOperation(Put(k)) /\ IsOperation(Get(k)) /\ IsOperation(Pass(k, j))
         /\ k \in {0, 1} => IsOperation(Lock(k)) /\ IsOperation(Unlock(k))
  BY DEF IsOperation, Operations, Put, Get, Pass, Lock, Unlock

\* The programs with one helper and pipes or sockets.
LEMMA PipePrograms ==
  /\ IsProgram(lat_pipe) /\ IsProgram(lat_fifo) /\ IsProgram(lat_unix)
<1>1. /\ IsOperation(Put(0)) /\ IsOperation(Get(1)) /\ IsOperation(Get(0)) /\ IsOperation(Put(1))
  BY TwoChannels, OperationsAre
<1>2. ASSUME NEW q, q.n = 1, q.body = <<Put(0), Get(1)>>, q.turn = <<<<Get(0), Put(1)>>>>, q.again = 1
      PROVE  IsProgram(q)
  BY <1>1, <1>2 DEF IsProgram
<1>3. /\ lat_pipe.n = 1 /\ lat_pipe.body = <<Put(0), Get(1)>>
      /\ lat_pipe.turn = <<<<Get(0), Put(1)>>>> /\ lat_pipe.again = 1
  BY DEF lat_pipe
<1>4. /\ lat_fifo.n = 1 /\ lat_fifo.body = <<Put(0), Get(1)>>
      /\ lat_fifo.turn = <<<<Get(0), Put(1)>>>> /\ lat_fifo.again = 1
  BY DEF lat_pipe, lat_fifo
<1>5. /\ lat_unix.n = 1 /\ lat_unix.body = <<Put(0), Get(1)>>
      /\ lat_unix.turn = <<<<Get(0), Put(1)>>>> /\ lat_unix.again = 1
  BY DEF lat_pipe, lat_unix
<1> QED
  BY <1>2, <1>3, <1>4, <1>5

\* The semaphores and the file locks.
LEMMA SystemPrograms == IsProgram(lat_sem) /\ IsProgram(lat_fcntl)
<1>1. /\ IsOperation(Put(1)) /\ IsOperation(Pass(0, 1)) /\ IsOperation(Pass(1, 0))
      /\ IsOperation(Lock(0)) /\ IsOperation(Lock(1))
      /\ IsOperation(Unlock(0)) /\ IsOperation(Unlock(1))
  BY TwoChannels, OperationsAre
<1>2. /\ lat_sem.n = 1 /\ lat_sem.body = <<Pass(1, 0)>>
      /\ lat_sem.turn = <<<<Put(1), Pass(0, 1)>>>> /\ lat_sem.again = 2
  BY DEF lat_sem
<1>3. /\ lat_fcntl.n = 1 /\ lat_fcntl.body = <<Lock(0), Unlock(1), Lock(1), Unlock(0)>>
      /\ lat_fcntl.turn = <<<<Unlock(0), Lock(1), Unlock(1), Lock(0)>>>> /\ lat_fcntl.again = 1
  BY DEF lat_fcntl
<1>4. IsProgram(lat_sem)
  BY <1>1, <1>2 DEF IsProgram
<1>5. IsProgram(lat_fcntl)
  BY <1>1, <1>3 DEF IsProgram
<1> QED
  BY <1>4, <1>5

\* The transfers.
LEMMA TransferPrograms == IsProgram(bw_pipe) /\ IsProgram(bw_unix)
<1>1. /\ IsOperation(Put(0)) /\ IsOperation(Get(1)) /\ IsOperation(Get(0)) /\ IsOperation(Put(1))
  BY TwoChannels, OperationsAre
<1>2. /\ bw_pipe.n = 1 /\ bw_pipe.body = <<Get(1), Get(1)>>
      /\ bw_pipe.turn = <<<<Put(1)>>>> /\ bw_pipe.again = 1
  BY DEF bw_pipe
<1>3. /\ bw_unix.n = 1 /\ bw_unix.body = <<Put(0), Get(1), Get(1)>>
      /\ bw_unix.turn = <<<<Get(0), Put(1), Put(1)>>>> /\ bw_unix.again = 1
  BY DEF bw_pipe, bw_unix
<1>4. IsProgram(bw_pipe)
  BY <1>1, <1>2 DEF IsProgram
<1>5. IsProgram(bw_unix)
  BY <1>1, <1>3 DEF IsProgram
<1> QED
  BY <1>4, <1>5

\* The ring.
LEMMA RingShape ==
  /\ lat_ctx.n = Procs - 1 /\ lat_ctx.body = <<Put(0), Get(Procs - 1)>> /\ lat_ctx.again = 1
  /\ \A h \in 1..Procs-1 : lat_ctx.turn[h] = <<Get(h - 1), Put(h)>>
  BY DEF lat_ctx

\* The ring of lat_ctx.
LEMMA RingProgram == IsProgram(lat_ctx)
<1>1. IsOperation(Put(0)) /\ IsOperation(Get(Procs - 1))
  BY TwoChannels, OperationsAre
<1>2. \A k \in 1..Len(lat_ctx.body) : IsOperation(lat_ctx.body[k])
  BY <1>1, RingShape
<1>3. ASSUME NEW h \in 1..lat_ctx.n
      PROVE  /\ Len(lat_ctx.turn[h]) = 2
             /\ \A k \in 1..Len(lat_ctx.turn[h]) : IsOperation(lat_ctx.turn[h][k])
  <2>1. h \in 1..Procs-1 /\ h - 1 \in Channels /\ h \in Channels
    BY RingShape DEF Channels
  <2>2. IsOperation(Get(h - 1)) /\ IsOperation(Put(h))
    BY <2>1, OperationsAre
  <2>3. lat_ctx.turn[h] = <<Get(h - 1), Put(h)>>
    BY <2>1, RingShape
  <2> HIDE DEF Get, Put
  <2> DEFINE u == lat_ctx.turn[h]
  <2>4. Len(u) = 2 /\ u[1] = Get(h - 1) /\ u[2] = Put(h)
    BY <2>3
  <2> HIDE DEF u
  <2>5. \A k \in 1..Len(u) : k = 1 \/ k = 2
    BY <2>4
  <2>6. \A k \in 1..Len(u) : IsOperation(u[k])
    BY <2>2, <2>4, <2>5, Zenon
  <2> QED
    BY <2>4, <2>6 DEF u
<1>4. /\ lat_ctx.n \in Nat /\ lat_ctx.n >= 1 /\ lat_ctx.n < Procs
      /\ Len(lat_ctx.body) = 2 /\ lat_ctx.again = 1
  BY RingShape
<1>5. \A h \in 1..lat_ctx.n : /\ Len(lat_ctx.turn[h]) \in Nat /\ 1 <= Len(lat_ctx.turn[h])
                              /\ \A k \in 1..Len(lat_ctx.turn[h]) : IsOperation(lat_ctx.turn[h][k])
  <2> SUFFICES ASSUME NEW h \in 1..lat_ctx.n
               PROVE  /\ Len(lat_ctx.turn[h]) \in Nat /\ 1 <= Len(lat_ctx.turn[h])
                      /\ \A k \in 1..Len(lat_ctx.turn[h]) : IsOperation(lat_ctx.turn[h][k])
    OBVIOUS
  <2>1. 2 \in Nat /\ 1 <= 2
    OBVIOUS
  <2> QED
    BY <1>3, <2>1, Zenon
<1> QED
  BY <1>2, <1>4, <1>5 DEF IsProgram

\* Every program has a body, helpers and turns.
LEMMA ArePrograms == \A p \in ProgramNames : IsProgram(Program(p))
  BY PipePrograms, SystemPrograms, TransferPrograms, RingProgram DEF ProgramNames, Program

\* Whether the cleanup closes before it kills.
LEMMA ClosesIs ==
  ASSUME prog \in Programs
  PROVE  P.closes \in BOOLEAN
<1>1. \A p \in ProgramNames : Program(p).closes \in BOOLEAN
  BY DEF ProgramNames, Program, lat_pipe, lat_fifo, lat_unix, lat_sem, lat_fcntl, lat_ctx,
         bw_pipe, bw_unix
<1> QED
  BY <1>1 DEF P

-----------------------------------------------------------------------------
(* What the programs have in common that pass one token round: helper h    *)
(* takes it from channel h - 1 and puts it into channel h. The helper of   *)
(* lat_sem has it at first, and with lat_sem nobody holds it in between.   *)
IsRing(q) ==
  /\ Len(q.body) = 2 /\ q.body[1] = Put(0) /\ q.body[2] = Get(q.n) /\ q.again = 1
  /\ \A h \in 1..q.n : /\ Len(q.turn[h]) = 2
                       /\ q.turn[h][1] = Get(h - 1) /\ q.turn[h][2] = Put(h)
IsSwap(q) ==
  /\ q.n = 1 /\ Len(q.body) = 1 /\ q.body[1] = Pass(1, 0) /\ q.again = 2
  /\ Len(q.turn[1]) = 2 /\ q.turn[1][1] = Put(1) /\ q.turn[1][2] = Pass(0, 1)

\* The benchmark's process of lat_unix holds both ends.
Persists(p, q) ==
  /\ q.helperEOF \in {"exit", "spin"} /\ q.bodyEOF \in {"exit", "cleanup"}
  /\ q.bodyEOF = "cleanup" => q.n = 1 /\ 0 \in q.wr[2]

\* The programs that pass a token are rings, but for lat_sem.
LEMMA HotPotatoes ==
  \A p \in HotPotato : /\ p \in ProgramNames /\ Persists(p, Program(p))
                       /\ p # "lat_sem" => IsRing(Program(p))
                       /\ p = "lat_sem" => IsSwap(Program(p))
<1>1. /\ lat_pipe.n = 1 /\ lat_pipe.body = <<Put(0), Get(1)>> /\ lat_pipe.again = 1
      /\ lat_pipe.turn = <<<<Get(0), Put(1)>>>>
      /\ lat_pipe.helperEOF = "spin" /\ lat_pipe.bodyEOF = "exit"
  BY DEF lat_pipe
<1>2. /\ lat_fifo.n = 1 /\ lat_fifo.body = <<Put(0), Get(1)>> /\ lat_fifo.again = 1
      /\ lat_fifo.turn = <<<<Get(0), Put(1)>>>>
      /\ lat_fifo.helperEOF = "spin" /\ lat_fifo.bodyEOF = "exit"
  BY DEF lat_pipe, lat_fifo
<1>3. /\ lat_unix.n = 1 /\ lat_unix.body = <<Put(0), Get(1)>> /\ lat_unix.again = 1
      /\ lat_unix.turn = <<<<Get(0), Put(1)>>>>
      /\ lat_unix.helperEOF = "exit" /\ lat_unix.bodyEOF = "cleanup" /\ 0 \in lat_unix.wr[2]
  BY DEF lat_pipe, lat_unix
<1>4. /\ lat_sem.n = 1 /\ lat_sem.body = <<Pass(1, 0)>>
      /\ lat_sem.turn = <<<<Put(1), Pass(0, 1)>>>> /\ lat_sem.again = 2
      /\ lat_sem.helperEOF = "exit" /\ lat_sem.bodyEOF = "exit"
  BY DEF lat_sem
<1>5. lat_ctx.helperEOF = "exit" /\ lat_ctx.bodyEOF = "exit"
  BY DEF lat_ctx
<1>6. ASSUME NEW q, q.n = 1, q.body = <<Put(0), Get(1)>>, q.turn = <<<<Get(0), Put(1)>>>>, q.again = 1
      PROVE  IsRing(q)
  BY <1>6 DEF IsRing
<1>7. IsRing(lat_pipe) /\ IsRing(lat_fifo) /\ IsRing(lat_unix)
  BY <1>1, <1>2, <1>3, <1>6
<1>8. IsRing(lat_ctx)
  <2>1. \A h \in 1..Procs-1 : /\ Len(lat_ctx.turn[h]) = 2
                              /\ lat_ctx.turn[h][1] = Get(h - 1) /\ lat_ctx.turn[h][2] = Put(h)
    <3> SUFFICES ASSUME NEW h \in 1..Procs-1
                 PROVE  /\ Len(lat_ctx.turn[h]) = 2
                        /\ lat_ctx.turn[h][1] = Get(h - 1) /\ lat_ctx.turn[h][2] = Put(h)
      OBVIOUS
    <3> DEFINE u == lat_ctx.turn[h]
    <3>1. u = <<Get(h - 1), Put(h)>>
      BY RingShape
    <3> HIDE DEF u
    <3>2. Len(u) = 2 /\ u[1] = Get(h - 1) /\ u[2] = Put(h)
      BY <3>1
    <3> QED
      BY <3>2 DEF u
  <2> QED
    BY <2>1, RingShape DEF IsRing
<1>9. IsSwap(lat_sem)
  BY <1>4 DEF IsSwap
<1>10. \A p \in {"lat_pipe", "lat_fifo", "lat_unix", "lat_sem", "lat_ctx"} : Persists(p, Program(p))
  BY <1>1, <1>2, <1>3, <1>4, <1>5 DEF Persists, Program
<1> QED
  BY <1>7, <1>8, <1>9, <1>10 DEF HotPotato, ProgramNames, Program

-----------------------------------------------------------------------------
(* The states                                                              *)

Points == {"fork", "hello", "interval", "body", "kill", "reap", "exit", "spin", "killed all",
           "dead"}
Types ==
  /\ prog \in Programs /\ round \in {"baseline", "parallel"} /\ bpc \in Points
  /\ first \in BOOLEAN /\ armed \in BOOLEAN /\ tflag \in BOOLEAN /\ told \in BOOLEAN
  /\ closed \in BOOLEAN /\ pdead \in BOOLEAN
  /\ helper \in [All -> HelperStates] /\ hpos \in [All -> Nat]
  /\ \A h \in All : 1 <= hpos[h] /\ hpos[h] <= Len(P.turn[h])
  /\ tokens \in [Channels -> Nat]
  /\ owner \in [{0, 1} -> All \union {0, Nobody}]
  /\ served \subseteq All /\ faults \in 0..MaxFaults

\* Where the benchmark's process is, in its loops over helpers and in its body.
\* It closes its ends of the channels only when it cleans up.
Counter ==
  /\ bi \in Nat /\ bi >= 1
  /\ bpc \in {"fork", "kill", "reap", "killed all"} => bi <= P.n
  /\ InBody => bi <= Len(P.body)
  /\ bpc \in {"interval", "exit", "spin", "dead"} => bi = 1
Ends == bpc \in {"fork", "hello", "interval", "body", "spin"} => ~closed
Forking ==
  /\ bpc = "fork" => first /\ ~told /\ \A h \in All : h >= bi => helper[h] = "none"
  /\ bpc = "fork" /\ P.n = 1 => \A k \in Channels : tokens[k] = 0
  /\ \A h \in All : helper[h] = "none" => hpos[h] = 1
Blamed == pdead => faults >= 1
Place == Counter /\ Ends /\ Forking /\ Blamed

States == Types /\ Place

\* The program that runs, and its helpers.
LEMMA ProgramIs ==
  ASSUME prog \in Programs
  PROVE  /\ IsProgram(P) /\ 0 \in Channels /\ P.n \in Channels
         /\ \A h \in All : h \in Nat /\ h \in Channels /\ h - 1 \in Channels /\ h # 0
<1>1. IsProgram(P)
  BY ArePrograms DEF P
<1> QED
  BY <1>1 DEF IsProgram, Channels, All

\* The program stays the same.
LEMMA SamePrograms == prog' = prog => P' = P /\ All' = All
  BY DEF P, All

\* No step changes the program.
LEMMA Keeps == Next \/ UNCHANGED vars => prog' = prog
  BY DEF Next, BenchStep, Forks, Kills, KillsNone, Reaps, BodyStep, BodyFails, TermSeen,
         Measure, Report, Orphan, CleanUp, Interval, Exits, ChildSignal, Alarm, HelperStep,
         HelperFails, ForkFails, HelperDies, Term, BenchKilled, ParentDies, Fault,
         envVars, vars

\* At the start nobody has been forked.
LEMMA InitStates == Init => States
<1> SUFFICES ASSUME Init PROVE States
  OBVIOUS
<1>1. /\ prog \in Programs /\ round \in {"baseline", "parallel"} /\ bpc = "fork" /\ bi = 1
      /\ first = TRUE /\ armed = TRUE /\ tflag = FALSE /\ told = FALSE
      /\ helper = [h \in All |-> "none"] /\ hpos = [h \in All |-> 1] /\ closed = FALSE
      /\ tokens = [k \in Channels |-> 0] /\ pdead = FALSE /\ served = {} /\ faults = 0
  BY DEF Init
<1>2. IsProgram(P)
  BY <1>1, ProgramIs
<1>3. owner \in [{0, 1} -> All \union {0, Nobody}]
  BY DEF Init
<1>4. \A h \in All : 1 <= Len(P.turn[h])
  BY <1>2 DEF IsProgram, All
<1>5. Types
  <2>1. helper \in [All -> HelperStates]
    BY <1>1 DEF HelperStates
  <2>2. hpos \in [All -> Nat] /\ \A h \in All : 1 <= hpos[h] /\ hpos[h] <= Len(P.turn[h])
    BY <1>1, <1>4
  <2>3. tokens \in [Channels -> Nat] /\ faults \in 0..MaxFaults /\ served \subseteq All
    BY <1>1
  <2> QED
    BY <1>1, <1>3, <2>1, <2>2, <2>3 DEF Types, Points
<1>6. Place
  <2>1. Counter
    BY <1>1, <1>2 DEF Counter, IsProgram, InBody
  <2>2. Forking
    BY <1>1 DEF Forking
  <2> QED
    BY <1>1, <2>1, <2>2 DEF Place, Ends, Blamed
<1> QED
  BY <1>5, <1>6 DEF States

-----------------------------------------------------------------------------
(* The steps keep the types and the places                                 *)

Owners == [{0, 1} -> All \union {0, Nobody}]

\* An operation leaves tokens in channels and owners of locks.
LEMMA EffectTypes ==
  ASSUME Types, NEW p \in All \union {0}, NEW o, IsOperation(o), Works(p, o), Effect(p, o)
  PROVE  tokens' \in [Channels -> Nat] /\ owner' \in Owners
<1>1. tokens \in [Channels -> Nat] /\ owner \in Owners
  BY DEF Types, Owners
<1>2. o.op \in Operations /\ o.at \in Channels /\ o.to \in Channels
      /\ (o.op \in {"lock", "unlock"} => o.at \in {0, 1})
  BY DEF IsOperation
<1>3. tokens' \in [Channels -> Nat]
  <2>1. CASE o.op = "put"
    <3>1. tokens' = [tokens EXCEPT ![o.at] = @ + 1]
      BY <2>1, Zenon DEF Effect
    <3> QED
      BY <1>1, <1>2, <3>1
  <2>2. CASE o.op = "get"
    <3>1. tokens' = [tokens EXCEPT ![o.at] = @ - 1]
      BY <2>2 DEF Effect
    <3>2. tokens[o.at] > 0
      BY <2>2 DEF Works
    <3> QED
      BY <1>1, <1>2, <3>1, <3>2
  <2>3. CASE o.op = "pass"
    <3>1. tokens' = [tokens EXCEPT ![o.at] = @ - 1, ![o.to] = @ + 1]
      BY <2>3 DEF Effect
    <3>2. tokens[o.at] > 0
      BY <2>3 DEF Works
    <3> QED
      BY <1>1, <1>2, <3>1, <3>2
  <2>4. CASE o.op \in {"lock", "unlock"}
    <3>1. tokens' = tokens
      BY <2>4 DEF Effect
    <3> QED
      BY <1>1, <3>1
  <2> QED
    BY <1>2, <2>1, <2>2, <2>3, <2>4 DEF Operations
<1>4. owner' \in Owners
  <2>1. \/ owner' = owner
        \/ owner' = [owner EXCEPT ![o.at] = p]
        \/ owner' = [owner EXCEPT ![o.at] = Nobody]
    BY DEF Effect
  <2> QED
    BY <1>1, <2>1 DEF Owners
<1> QED
  BY <1>3, <1>4

\* A process that ends gives its locks back.
LEMMA ReleasedTypes ==
  ASSUME Types, NEW S
  PROVE  Released(S) \in Owners
  BY DEF Types, Owners, Released

\* The operations that are carried out are the program's.
LEMMA TurnIs ==
  ASSUME Types, NEW h \in All
  PROVE  /\ IsOperation(Turn(h)) /\ NextPos(h) \in Nat
         /\ 1 <= NextPos(h) /\ NextPos(h) <= Len(P.turn[h])
<1>1. /\ IsProgram(P) /\ hpos[h] \in Nat /\ 1 <= hpos[h] /\ hpos[h] <= Len(P.turn[h])
  BY ProgramIs DEF Types
<1>2. /\ Len(P.turn[h]) \in Nat /\ P.again <= Len(P.turn[h]) /\ P.again \in Nat /\ P.again >= 1
      /\ \A k \in 1..Len(P.turn[h]) : IsOperation(P.turn[h][k])
  BY <1>1 DEF IsProgram, All
<1>3. hpos[h] \in 1..Len(P.turn[h])
  BY <1>1, <1>2
<1> QED
  BY <1>1, <1>2, <1>3 DEF Turn, NextPos

\* The benchmark's next operation is one of its body.
LEMMA BodyIs ==
  ASSUME Types, Place, InBody
  PROVE  IsOperation(Body) /\ bi \in 1..Len(P.body) /\ Len(P.body) \in Nat
<1>1. /\ IsProgram(P) /\ bi \in Nat /\ 1 <= bi /\ bi <= Len(P.body)
  BY ProgramIs DEF Types, Place, Counter
<1>2. bi \in 1..Len(P.body)
  BY <1>1 DEF IsProgram
<1> QED
  BY <1>1, <1>2 DEF IsProgram, Body

Ticks == faults' = faults \/ (faults < MaxFaults /\ faults' = faults + 1)

\* The types, for the program's helpers as they were.
LEMMA TypesFrom ==
  ASSUME Types, prog' = prog, round' = round, Ticks, bpc' \in Points,
         first' \in BOOLEAN, armed' \in BOOLEAN, tflag' \in BOOLEAN, told' \in BOOLEAN,
         closed' \in BOOLEAN, pdead' \in BOOLEAN,
         helper' \in [All -> HelperStates], hpos' \in [All -> Nat],
         \A h \in All : 1 <= hpos'[h] /\ hpos'[h] <= Len(P.turn[h]),
         tokens' \in [Channels -> Nat], owner' \in Owners, served' \subseteq All
  PROVE  Types'
<1>1. P' = P /\ All' = All
  BY SamePrograms
<1>2. faults' \in 0..MaxFaults
  BY DEF Types, Ticks
<1> QED
  BY <1>1, <1>2 DEF Types, Owners

\* A parent only dies by a fault.
LEMMA BlamedFrom ==
  ASSUME Types, Blamed, Ticks, pdead' = pdead \/ faults' = faults + 1
  PROVE  Blamed'
<1>1. PICK f \in Nat : f = faults
  BY DEF Types
<1>2. f + 1 >= 1
  OBVIOUS
<1>3. CASE faults' = faults /\ pdead' = pdead
  BY <1>3 DEF Blamed
<1>4. CASE faults' = faults + 1
  <2>1. faults' = f + 1
    BY <1>1, <1>4, Zenon
  <2>2. faults' >= 1
    BY <1>2, <2>1, Zenon
  <2> QED
    BY <2>2 DEF Blamed
<1>5. faults' = faults => ~(faults' = faults + 1)
  <2>1. f # f + 1
    OBVIOUS
  <2> QED
    BY <1>1, <2>1, Zenon
<1> QED
  BY <1>3, <1>4, <1>5, Zenon DEF Ticks

\* The benchmark's process ends.
LEMMA DiesStates ==
  ASSUME States, BenchDies, UNCHANGED <<helper, hpos, served, prog, round, pdead>>, Ticks
  PROVE  States'
<1>1. Types /\ Place /\ P' = P /\ All' = All
  BY SamePrograms DEF States
<1>2. /\ bpc' = "dead" /\ bi' = 1 /\ owner' = Released({0})
      /\ UNCHANGED <<first, armed, tflag, told, closed, tokens>>
  BY DEF BenchDies
<1>3. owner' \in Owners
  BY <1>1, <1>2, ReleasedTypes
<1>4. Types'
  <2>1. bpc' \in Points
    BY <1>2 DEF Points
  <2> QED
    BY <1>1, <1>2, <1>3, <2>1, TypesFrom DEF Types
<1>5. Place'
  <2>1. Blamed'
    BY <1>1, BlamedFrom DEF Place
  <2>2. Counter'
    BY <1>2 DEF Counter, InBody
  <2>3. Forking'
    BY <1>1, <1>2 DEF Forking, Place
  <2> QED
    BY <1>2, <2>1, <2>2, <2>3 DEF Place, Ends
<1> QED
  BY <1>4, <1>5 DEF States

\* Only one of the program's channels, helpers or owners changes, and perhaps a
\* helper's place in its turn.
LEMMA HelpersStates ==
  ASSUME States, UNCHANGED <<bpc, bi, benchVars, prog, round>>, Ticks,
         helper' \in [All -> HelperStates], hpos' \in [All -> Nat],
         \A h \in All : 1 <= hpos'[h] /\ hpos'[h] <= Len(P.turn[h]),
         \A h \in All : (helper[h] = "none") = (helper'[h] = "none"),
         \A h \in All : helper[h] = "none" => hpos'[h] = hpos[h],
         tokens' \in [Channels -> Nat], owner' \in Owners, served' \subseteq All,
         pdead' = pdead \/ (pdead' = TRUE /\ faults' = faults + 1),
         bpc = "fork" /\ P.n = 1 => tokens' = tokens
  PROVE  States'
<1>1. Types /\ Place /\ P' = P /\ All' = All
  BY SamePrograms DEF States
<1>2. Types'
  <2>1. pdead' \in BOOLEAN
    BY <1>1 DEF Types
  <2> QED
    BY <1>1, <2>1, TypesFrom DEF Types, benchVars
<1>3. Place'
  <2>1. Blamed'
    BY <1>1, BlamedFrom DEF Place
  <2>2. Counter' /\ Ends'
    BY <1>1 DEF Counter, Ends, InBody, benchVars, Place
  <2>3. Forking'
    BY <1>1 DEF Forking, Place, benchVars
  <2> QED
    BY <2>1, <2>2, <2>3 DEF Place
<1> QED
  BY <1>2, <1>3 DEF States

\* A loop begins with its first helper or operation.
LEMMA CounterAtOne ==
  ASSUME IsProgram(P), P' = P, bi' = 1
  PROVE  Counter'
<1>1. 1 \in Nat /\ 1 >= 1 /\ 1 <= P.n /\ 1 <= Len(P.body)
  BY DEF IsProgram
<1> QED
  BY <1>1, Zenon DEF Counter

\* The benchmark's process forks, kills or reaps a helper, or goes elsewhere.
LEMMA BenchStates ==
  ASSUME States, UNCHANGED <<prog, round, pdead>>, Ticks, bpc' \in Points \ {"fork"},
         first' \in BOOLEAN, armed' \in BOOLEAN, tflag' \in BOOLEAN, told' \in BOOLEAN,
         closed' \in BOOLEAN, helper' \in [All -> HelperStates],
         \A h \in All : helper[h] # "none" => helper'[h] # "none",
         hpos' = hpos, tokens' \in [Channels -> Nat], owner' \in Owners, served' \subseteq All,
         Counter', Ends'
  PROVE  States'
<1>1. Types /\ Place /\ P' = P /\ All' = All
  BY SamePrograms DEF States
<1>2. Types'
  BY <1>1, TypesFrom DEF Types
<1>3. Blamed'
  BY <1>1, BlamedFrom DEF Place
<1>4. Forking'
  BY <1>1 DEF Forking, Place
<1> QED
  BY <1>2, <1>3, <1>4 DEF States, Place

LEMMA ForksStates ==
  ASSUME States, NEW h \in All, Forks(h)
  PROVE  States'
<1>1. Types /\ Place /\ P' = P /\ All' = All /\ IsProgram(P)
  BY Keeps, SamePrograms, ProgramIs DEF States, Types, Next, BenchStep
<1>2. /\ bpc = "fork" /\ bi = h /\ helper' = [helper EXCEPT ![h] = "on"]
      /\ UNCHANGED <<first, armed, tflag, told, closed, tokens, owner, hpos, served>>
      /\ UNCHANGED <<prog, round, pdead, faults>>
  BY DEF Forks, benchVars, ringVars, envVars
<1>3. /\ helper' \in [All -> HelperStates] /\ helper'[h] = "on"
      /\ \A g \in All : g # h => helper'[g] = helper[g]
  BY <1>1, <1>2 DEF Types, HelperStates
<1>4. ~closed /\ Ticks
  BY <1>1, <1>2 DEF Place, Ends, Ticks
<1>5. CASE h < P.n
  <2>1. bpc' = "fork" /\ bi' = h + 1
    BY <1>5 DEF Forks
  <2>2. bpc' \in Points
    BY <2>1 DEF Points
  <2>3. Types'
    BY <1>1, <1>2, <1>3, <1>4, <2>2, TypesFrom DEF Types, Owners
  <2>4. PICK b \in Nat : b = h + 1 /\ b <= P.n /\ b >= 1 /\ (\A g \in All : g >= b => g >= h /\ g # h)
    BY <1>1, <1>5 DEF IsProgram, All
  <2>5. Counter'
    BY <1>1, <2>1, <2>4 DEF Counter, InBody
  <2>6. first /\ ~told /\ \A g \in All : g >= h => helper[g] = "none"
    BY <1>1, <1>2 DEF Place, Forking
  <2>7. \A g \in All : g >= b => helper'[g] = "none"
    BY <1>3, <2>4, <2>6
  <2>8. Forking'
    <3>1. bi' = b
      BY <2>1, <2>4
    <3>2. P.n # 1
      BY <1>1, <1>5 DEF All, IsProgram
    <3>3. \A g \in All : helper'[g] = "none" => hpos'[g] = 1
      BY <1>1, <1>2, <1>3 DEF Place, Forking
    <3> QED
      BY <1>1, <1>2, <2>6, <2>7, <3>1, <3>2, <3>3, Zenon DEF Forking
  <2>9. Ends' /\ Blamed'
    BY <1>1, <1>2, <1>4 DEF Ends, Blamed, Place
  <2> QED
    BY <2>3, <2>5, <2>8, <2>9 DEF States, Place
<1>6. CASE ~(h < P.n)
  <2>1. bpc' \in {"hello", "interval"} /\ bi' = 1
    BY <1>6 DEF Forks
  <2>2. Counter' /\ Ends'
    BY <1>1, <1>2, <1>4, <2>1, CounterAtOne DEF Ends
  <2>3. bpc' \in Points \ {"fork"}
    BY <2>1 DEF Points
  <2>4. \A g \in All : helper[g] # "none" => helper'[g] # "none"
    BY <1>3
  <2> QED
    BY <1>1, <1>2, <1>3, <1>4, <2>2, <2>3, <2>4, BenchStates DEF Types, Owners
<1> QED
  BY <1>5, <1>6

LEMMA ForkFailsStates ==
  ASSUME States, NEW h \in All, ForkFails(h)
  PROVE  States'
<1>1. Types /\ Place /\ P' = P /\ All' = All
  BY Keeps, SamePrograms DEF States, Types, Next
<1>2. /\ bpc = "fork" /\ helper' = [helper EXCEPT ![h] = "failed"]
      /\ UNCHANGED <<hpos, served, prog, round, pdead>> /\ Ticks
  BY DEF ForkFails, Ticks, Fault
<1>3. /\ helper' \in [All -> HelperStates]
      /\ \A g \in All : helper[g] # "none" => helper'[g] # "none"
  BY <1>1, <1>2 DEF Types, HelperStates
<1>4. CASE bpc' = "interval" /\ bi' = 1 /\ UNCHANGED <<benchVars, ringVars>>
  <2>1. Counter' /\ Ends' /\ bpc' \in Points \ {"fork"}
    BY <1>1, <1>2, <1>4 DEF Counter, Ends, InBody, Place, Points, benchVars
  <2> QED
    BY <1>1, <1>2, <1>3, <1>4, <2>1, BenchStates DEF Types, Owners, benchVars, ringVars
<1>5. CASE BenchDies
  <2>1. Counter' /\ Ends' /\ bpc' \in Points \ {"fork"} /\ owner' \in Owners
    BY <1>1, <1>5, ReleasedTypes DEF Counter, Ends, InBody, Points, BenchDies
  <2> QED
    BY <1>1, <1>2, <1>3, <1>5, <2>1, BenchStates DEF Types, BenchDies
<1>6. CASE /\ bpc' = "kill" /\ bi' = 1 /\ closed' = TRUE
           /\ UNCHANGED <<first, armed, tflag, told, ringVars>>
  <2>1. IsProgram(P)
    BY <1>1, ProgramIs DEF Types
  <2>2. Counter' /\ Ends' /\ bpc' \in Points \ {"fork"}
    BY <1>1, <1>6, <2>1 DEF Counter, Ends, InBody, Points, IsProgram
  <2> QED
    BY <1>1, <1>2, <1>3, <1>6, <2>2, BenchStates DEF Types, Owners, ringVars
<1> QED
  BY <1>4, <1>5, <1>6 DEF ForkFails

LEMMA BodyStepStates == States /\ BodyStep => States'
<1> SUFFICES ASSUME States, BodyStep PROVE States'
  OBVIOUS
<1>1. Types /\ Place /\ P' = P /\ All' = All /\ InBody /\ prog' = prog
  BY SamePrograms DEF States, BodyStep, envVars
<1>2. /\ UNCHANGED <<first, armed, tflag, told, closed, helper, hpos>>
      /\ UNCHANGED <<prog, round, pdead, faults>>
      /\ Works(0, Body) /\ Effect(0, Body)
  BY DEF BodyStep, benchVars, envVars
<1>3. IsOperation(Body) /\ bi \in 1..Len(P.body) /\ Len(P.body) \in Nat
  BY <1>1, BodyIs
<1>4. tokens' \in [Channels -> Nat] /\ owner' \in Owners
  BY <1>1, <1>2, <1>3, EffectTypes
<1>5. ~closed /\ bpc \in {"hello", "body"}
  BY <1>1 DEF Place, Ends, InBody
<1>6. /\ bpc' \in {"hello", "body", "interval"} /\ served' \subseteq All
      /\ (bpc' \in {"hello", "body"} => bpc' = bpc)
      /\ \/ bi < Len(P.body) /\ bi' = bi + 1 /\ bpc' = bpc
         \/ bi' = 1
  BY <1>1, <1>5 DEF BodyStep, Types
<1>7. bpc' \in Points \ {"fork"}
  BY <1>6 DEF Points
<1>8. Counter'
  <2>1. CASE bi < Len(P.body) /\ bi' = bi + 1 /\ bpc' = bpc
    <3>1. PICK b \in Nat : b = bi + 1 /\ b >= 1 /\ b <= Len(P.body)
      BY <1>3, <2>1
    <3> QED
      BY <1>1, <1>5, <2>1, <3>1 DEF Counter, InBody
  <2>2. CASE bi' = 1
    BY <1>1, <2>2, CounterAtOne, ProgramIs DEF Types
  <2> QED
    BY <1>6, <2>1, <2>2
<1>9. Ends'
  BY <1>2, <1>5 DEF Ends
<1> QED
  BY <1>1, <1>2, <1>4, <1>6, <1>7, <1>8, <1>9, BenchStates DEF Types, Ticks

\* Where the benchmark's process goes without a loop.
LEMMA GoesStates ==
  ASSUME States, UNCHANGED <<prog, round, pdead, helper, hpos, served>>, Ticks,
         first' \in BOOLEAN, armed' \in BOOLEAN, tflag' \in BOOLEAN, told' \in BOOLEAN,
         closed' \in BOOLEAN, tokens' = tokens, owner' \in Owners,
         bpc' \in {"interval", "body", "kill", "spin", "exit", "dead"}, bi' = 1, Ends'
  PROVE  States'
<1>1. Types /\ Place /\ P' = P /\ All' = All /\ IsProgram(P)
  BY SamePrograms, ProgramIs DEF States, Types
<1>3. bpc' \in Points \ {"fork"} /\ Counter'
  BY <1>1, CounterAtOne DEF Points
<1> QED
  BY <1>1, <1>3, BenchStates DEF Types

LEMMA BodyFailsStates == States /\ BodyFails => States'
<1> SUFFICES ASSUME States, BodyFails PROVE States'
  OBVIOUS
<1>1. Types /\ Place /\ InBody
  BY DEF States, BodyFails
<1>2. UNCHANGED <<helper, hpos, served, prog, round, pdead>> /\ Ticks
  BY DEF BodyFails, envVars, Ticks
<1>3. CASE BenchDies
  BY <1>2, <1>3, DiesStates
<1>4. CASE bpc' \in {"spin", "kill"} /\ bi' = 1 /\ UNCHANGED <<benchVars, ringVars>>
  <2>1. ~closed
    BY <1>1 DEF Place, Ends, InBody
  <2>2. Ends'
    BY <1>4, <2>1 DEF Ends, benchVars
  <2> QED
    BY <1>1, <1>2, <1>4, <2>2, GoesStates DEF Types, Owners, benchVars, ringVars
<1> QED
  BY <1>3, <1>4 DEF BodyFails

\* The steps in which the benchmark's process ends, or is only told to.
LEMMA SignalStates ==
  States /\ (TermSeen \/ Exits \/ ChildSignal \/ Alarm \/ Term \/ BenchKilled) => States'
<1> SUFFICES ASSUME States, TermSeen \/ Exits \/ ChildSignal \/ Alarm \/ Term \/ BenchKilled
             PROVE  States'
  OBVIOUS
<1>1. Types /\ Place
  BY DEF States
<1>2. UNCHANGED <<helper, hpos, served, prog, round, pdead>> /\ Ticks
  BY DEF TermSeen, Exits, ChildSignal, Alarm, Term, BenchKilled, Fault, envVars, Ticks
<1>3. CASE BenchDies
  BY <1>2, <1>3, DiesStates
<1>4. CASE tflag' = TRUE /\ UNCHANGED <<bpc, bi, first, armed, told, closed, ringVars>>
  <2>1. Types'
    BY <1>1, <1>2, <1>4, TypesFrom DEF Types, Owners, ringVars
  <2>2. P' = P /\ All' = All
    BY <1>2, SamePrograms
  <2>3. Counter' /\ Ends' /\ Forking'
    BY <1>1, <1>2, <1>4, <2>2 DEF Place, Counter, Ends, Forking, InBody, ringVars
  <2>4. Blamed'
    BY <1>1, <1>2, BlamedFrom DEF Place
  <2> QED
    BY <2>1, <2>3, <2>4 DEF States, Place
<1> QED
  BY <1>3, <1>4 DEF TermSeen, Exits, ChildSignal, Alarm, Term, BenchKilled, CleanupOnSignal

LEMMA IntervalStates == States /\ (Measure \/ Report \/ Orphan) => States'
<1> SUFFICES ASSUME States, Measure \/ Report \/ Orphan PROVE States'
  OBVIOUS
<1>1. Types /\ Place /\ bpc = "interval"
  BY DEF States, Measure, Report, Orphan, CleanUp, Interval
<1>2. /\ UNCHANGED <<prog, round, pdead, helper, hpos, served, tokens, tflag>> /\ Ticks
      /\ bi' = 1 /\ bpc' \in {"body", "kill"}
  BY DEF Measure, Report, Orphan, CleanUp, Interval, envVars, Ticks
<1>3. armed' \in BOOLEAN
  BY <1>1 DEF Measure, Report, Orphan, CleanUp, Interval, Types
<1>4. first' \in BOOLEAN /\ told' \in BOOLEAN
  BY <1>1 DEF Measure, Report, Orphan, Types
<1>5. ~closed
  BY <1>1 DEF Place, Ends
<1>6. CASE Measure
  BY <1>1, <1>2, <1>3, <1>4, <1>5, <1>6, GoesStates DEF Measure, Ends, Types, Owners
<1>7. CASE Report \/ Orphan
  <2>1. /\ bpc' = "kill" /\ closed' = P.closes
        /\ owner' = IF P.closes THEN Released({0}) ELSE owner
    BY <1>7 DEF Report, Orphan, CleanUp, Interval
  <2>2. closed' \in BOOLEAN
    BY <1>1, <2>1, ClosesIs DEF Types
  <2>3. owner' \in Owners
    BY <1>1, <2>1, ReleasedTypes DEF Types, Owners
  <2>4. Ends'
    BY <2>1 DEF Ends
  <2> QED
    BY <1>1, <1>2, <1>3, <1>4, <2>2, <2>3, <2>4, GoesStates DEF Types
<1> QED
  BY <1>6, <1>7

\* The cleanup goes on to the next helper, or ends.
LEMMA AfterStates ==
  ASSUME States, NEW h \in All, bpc \in {"kill", "reap"}, AfterHelper(h),
         UNCHANGED <<first, armed, tflag, told, closed, tokens, hpos, served>>,
         UNCHANGED <<prog, round, pdead>>, Ticks,
         helper' \in [All -> HelperStates],
         \A g \in All : helper[g] # "none" => helper'[g] # "none"
  PROVE  States'
<1>1. Types /\ Place /\ P' = P /\ All' = All /\ IsProgram(P)
  BY SamePrograms, ProgramIs DEF States, Types
<1>2. owner' \in Owners /\ bpc' \in {"kill", "exit", "dead"}
  BY <1>1, ReleasedTypes DEF AfterHelper, Types, Owners
<1>3. bpc' \in Points \ {"fork"} /\ Ends'
  BY <1>2 DEF Points, Ends
<1>4. Counter'
  <2>1. CASE bi' = 1
    BY <1>1, <2>1, CounterAtOne
  <2>2. CASE h < P.n /\ bi' = h + 1
    <3>1. PICK b \in Nat : b = h + 1 /\ b >= 1 /\ b <= P.n
      BY <1>1, <2>2 DEF All, IsProgram
    <3>2. bi' = b /\ bpc' = "kill"
      BY <2>2, <3>1 DEF AfterHelper
    <3> QED
      BY <1>1, <3>1, <3>2 DEF Counter, InBody
  <2> QED
    BY <2>1, <2>2 DEF AfterHelper
<1> QED
  BY <1>1, <1>2, <1>3, <1>4, BenchStates DEF Types

LEMMA KillsStates ==
  ASSUME States, NEW h \in All, Kills(h) \/ KillsNone(h) \/ Reaps(h)
  PROVE  States'
<1>1. Types /\ Place /\ P' = P /\ All' = All
  BY Keeps, SamePrograms DEF States, Next, BenchStep
<1>2. /\ bpc \in {"kill", "reap"} /\ bi = h
      /\ UNCHANGED <<first, armed, tflag, told, closed, tokens, hpos, served>>
      /\ UNCHANGED <<prog, round, pdead>> /\ Ticks
  BY DEF Kills, KillsNone, Reaps, benchVars, envVars, Ticks
<1>3. /\ helper' \in [All -> HelperStates]
      /\ \A g \in All : helper[g] # "none" => helper'[g] # "none"
  <2>1. \/ helper' = helper
        \/ helper' = [helper EXCEPT ![h] = "zombie"]
        \/ helper' = [helper EXCEPT ![h] = "gone"]
    BY DEF Kills, KillsNone, Reaps
  <2> QED
    BY <1>1, <2>1 DEF Types, HelperStates
<1>4. CASE AfterHelper(h)
  BY <1>2, <1>3, <1>4, AfterStates
<1>5. CASE bpc' \in {"reap", "killed all"} /\ bi' = bi /\ owner' \in Owners
  <2>1. bpc' \in Points \ {"fork"} /\ Ends'
    BY <1>5 DEF Points, Ends
  <2>2. IsProgram(P) /\ h \in 1..P.n
    BY <1>1, ProgramIs DEF Types, All
  <2>3. bi' \in Nat /\ bi' >= 1 /\ bi' <= P'.n
    BY <1>1, <1>2, <1>5, Zenon DEF Place, Counter
  <2>4. ~InBody' /\ bpc' \notin {"interval", "exit", "spin", "dead"}
    BY <1>5 DEF InBody
  <2>5. Counter'
    BY <2>3, <2>4, Zenon DEF Counter
  <2> QED
    BY <1>1, <1>2, <1>3, <1>5, <2>1, <2>5, BenchStates DEF Types
<1>6. owner \in Owners /\ Released({h}) \in Owners
  BY <1>1, ReleasedTypes DEF Types, Owners
<1> QED
  BY <1>4, <1>5, <1>6 DEF Kills, KillsNone, Reaps

\* Before the only helper is there nobody passes anything.
LEMMA NoneYet ==
  ASSUME States, NEW h \in All, helper[h] # "none"
  PROVE  ~(bpc = "fork" /\ P.n = 1)
<1> SUFFICES ASSUME bpc = "fork", P.n = 1 PROVE FALSE
  OBVIOUS
<1>1. Place
  BY DEF States
<1>2. bi = 1 /\ h = 1
  BY <1>1 DEF Place, Counter, All
<1> QED
  BY <1>1, <1>2 DEF Place, Forking

LEMMA HelperStepStates ==
  ASSUME States, NEW h \in All, HelperStep(h)
  PROVE  States'
<1>1. Types /\ Place
  BY DEF States
<1>2. /\ helper[h] = "on" /\ Works(h, Turn(h)) /\ Effect(h, Turn(h))
      /\ hpos' = [hpos EXCEPT ![h] = NextPos(h)]
      /\ served' \subseteq All
      /\ UNCHANGED <<bpc, bi, benchVars, helper, prog, round, pdead>> /\ Ticks
  BY <1>1 DEF HelperStep, envVars, Ticks, Types
<1>3. /\ IsOperation(Turn(h)) /\ NextPos(h) \in Nat
      /\ 1 <= NextPos(h) /\ NextPos(h) <= Len(P.turn[h])
  BY <1>1, TurnIs
<1>4. tokens' \in [Channels -> Nat] /\ owner' \in Owners
  BY <1>1, <1>2, <1>3, EffectTypes
<1>5. /\ hpos' \in [All -> Nat]
      /\ \A g \in All : 1 <= hpos'[g] /\ hpos'[g] <= Len(P.turn[g])
      /\ \A g \in All : helper[g] = "none" => hpos'[g] = hpos[g]
  BY <1>1, <1>2, <1>3 DEF Types
<1> QED
  BY <1>1, <1>2, <1>4, <1>5, NoneYet, HelpersStates DEF Types

LEMMA HelperFailsStates ==
  ASSUME States, NEW h \in All, HelperFails(h) \/ HelperDies(h)
  PROVE  States'
<1>1. Types /\ Place
  BY DEF States
<1>2. /\ helper[h] \in {"on", "spin"} /\ tokens' = tokens /\ served' = served
      /\ UNCHANGED <<bpc, bi, benchVars, prog, round, pdead>> /\ Ticks
      /\ owner' \in {owner, Released({h})}
  BY DEF HelperFails, HelperDies, Lives, Fault, ringVars, envVars, Ticks
<1>3. \/ helper' = helper
      \/ helper' = [helper EXCEPT ![h] = "zombie"]
      \/ helper' = [helper EXCEPT ![h] = "spin"]
  BY DEF HelperFails, HelperDies
<1>4. hpos' = hpos \/ hpos' = [hpos EXCEPT ![h] = NextPos(h)]
  BY DEF HelperFails, HelperDies
<1>5. NextPos(h) \in Nat /\ 1 <= NextPos(h) /\ NextPos(h) <= Len(P.turn[h])
  BY <1>1, TurnIs
<1>6. /\ hpos' \in [All -> Nat]
      /\ \A g \in All : 1 <= hpos'[g] /\ hpos'[g] <= Len(P.turn[g])
      /\ \A g \in All : helper[g] = "none" => hpos'[g] = hpos[g]
  BY <1>1, <1>2, <1>4, <1>5 DEF Types
<1>7. /\ helper' \in [All -> HelperStates]
      /\ \A g \in All : (helper[g] = "none") = (helper'[g] = "none")
  BY <1>1, <1>2, <1>3 DEF Types, HelperStates
<1>8. owner' \in Owners /\ tokens' \in [Channels -> Nat]
  BY <1>1, <1>2, ReleasedTypes DEF Types, Owners
<1> QED
  BY <1>1, <1>2, <1>6, <1>7, <1>8, HelpersStates DEF Types

LEMMA ParentDiesStates == States /\ ParentDies => States'
<1> SUFFICES ASSUME States, ParentDies PROVE States'
  OBVIOUS
<1>1. Types
  BY DEF States
<1>2. /\ UNCHANGED <<bpc, bi, benchVars, tokens, owner, helper, hpos, served, prog, round>>
      /\ pdead' = TRUE /\ faults' = faults + 1 /\ Ticks
  BY DEF ParentDies, Fault, Ticks, ringVars
<1> QED
  BY <1>1, <1>2, HelpersStates DEF Types, Owners

LEMMA StatesStep == States /\ [Next]_vars => States'
<1> SUFFICES ASSUME States, [Next]_vars PROVE States'
  OBVIOUS
<1>1. CASE UNCHANGED vars
  <2>1. P' = P /\ All' = All
    BY <1>1, Keeps, SamePrograms
  <2> QED
    BY <1>1, <2>1, ZenonT(60) DEF vars, States, Types, Place, Counter, Ends, Forking, Blamed, InBody
<1>2. CASE BenchStep
  BY <1>2, ForksStates, KillsStates, BodyStepStates, BodyFailsStates, SignalStates,
     IntervalStates DEF BenchStep
<1>3. CASE \E h \in All : HelperStep(h) \/ HelperFails(h) \/ ForkFails(h) \/ HelperDies(h)
  BY <1>3, HelperStepStates, HelperFailsStates, ForkFailsStates
<1>4. CASE ChildSignal \/ Alarm \/ Term \/ BenchKilled
  BY <1>4, SignalStates
<1>5. CASE ParentDies
  BY <1>5, ParentDiesStates
<1> QED
  BY <1>1, <1>2, <1>3, <1>4, <1>5 DEF Next

\* The types and the places hold in every state.
THEOREM StatesInvariant == Spec => []States
<1>1. Init => States
  BY InitStates
<1>2. States /\ [Next]_vars => States'
  BY StatesStep
<1> QED
  BY <1>1, <1>2, PTL DEF Spec

-----------------------------------------------------------------------------
(* One token                                                               *)

\* Who has the token: helpers, and the benchmark's process (0).
Keeping == ~(prog = "lat_sem" \/ bpc = "dead" \/ (InBody /\ bi > 1))
Holding ==
  {h \in All : helper[h] = "on" /\ Turn(h).op = "put"} \union (IF Keeping THEN {0} ELSE {})

Before(h) == {g \in All : g < h}
UpTo(k) == {g \in All : g <= k}

\* There is at most one token, in a channel (t) or with a process (H), and the
\* helpers it has passed have had a turn (s).
OnTrip(t, H, s) ==
  /\ \A k \in Channels : t[k] <= 1
  /\ \A k, j \in Channels : t[k] > 0 /\ t[j] > 0 => k = j
  /\ \A g, h \in H : g = h
  /\ \A k \in Channels : t[k] > 0 => H = {}
  /\ \A k \in Channels : t[k] > 0 => UpTo(k) \subseteq s
  /\ \A h \in H : Before(h) \subseteq s

Potato == prog \in HotPotato => OnTrip(tokens, Holding, served)

\* A process puts the token into channel k.
LEMMA PutsToken ==
  ASSUME NEW t \in [Channels -> Nat], NEW H, NEW s, NEW k \in Channels, NEW h \in H,
         OnTrip(t, H, s), NEW u, UpTo(k) \subseteq u
  PROVE  OnTrip([t EXCEPT ![k] = @ + 1], H \ {h}, u)
<1> DEFINE w == [t EXCEPT ![k] = @ + 1]
<1> SUFFICES OnTrip(w, H \ {h}, u)
  OBVIOUS
<1>1. H \ {h} = {} /\ \A j \in Channels : t[j] = 0
  BY DEF OnTrip
<1>2. \A j \in Channels : w[j] = IF j = k THEN 1 ELSE 0
  BY <1>1
<1> HIDE DEF w
<1> QED
  BY <1>1, <1>2 DEF OnTrip

\* If there is a token in channel k it is the only one.
LEMMA IsInChannel ==
  ASSUME NEW t \in [Channels -> Nat], NEW H, NEW s, NEW k \in Channels,
         OnTrip(t, H, s), t[k] > 0
  PROVE  H = {} /\ UpTo(k) \subseteq s /\ \A j \in Channels : t[j] = IF j = k THEN 1 ELSE 0
  BY DEF OnTrip

\* A process takes the token from channel k.
LEMMA TakesToken ==
  ASSUME NEW t \in [Channels -> Nat], NEW H, NEW s, NEW k \in Channels, NEW h,
         OnTrip(t, H, s), t[k] > 0, NEW u, Before(h) \subseteq u
  PROVE  OnTrip([t EXCEPT ![k] = @ - 1], H \union {h}, u)
<1> DEFINE w == [t EXCEPT ![k] = @ - 1]
<1> SUFFICES OnTrip(w, H \union {h}, u)
  OBVIOUS
<1>1. H = {} /\ \A j \in Channels : t[j] = IF j = k THEN 1 ELSE 0
  BY IsInChannel
<1>2. H \union {h} = {h}
  BY <1>1
<1>3. \A j \in Channels : w[j] = 0
  BY <1>1
<1> HIDE DEF w
<1> QED
  BY <1>2, <1>3 DEF OnTrip

\* The token goes from semaphore k to semaphore i.
LEMMA SwapsToken ==
  ASSUME NEW t \in [Channels -> Nat], NEW H, NEW s, NEW k \in Channels,
         NEW i \in Channels, k # i, OnTrip(t, H, s), t[k] > 0, NEW u, UpTo(i) \subseteq u
  PROVE  OnTrip([t EXCEPT ![k] = @ - 1, ![i] = @ + 1], H, u)
<1> DEFINE w == [t EXCEPT ![k] = @ - 1, ![i] = @ + 1]
<1> SUFFICES OnTrip(w, H, u)
  OBVIOUS
<1>1. H = {} /\ \A j \in Channels : t[j] = IF j = k THEN 1 ELSE 0
  BY IsInChannel
<1>2. w[i] = t[i] + 1 /\ w[k] = t[k] - 1 /\ \A j \in Channels \ {i, k} : w[j] = t[j]
  OBVIOUS
<1>3. t[i] = 0 /\ t[k] = 1 /\ \A j \in Channels \ {i, k} : t[j] = 0
  BY <1>1
<1>4. w[i] = 1 /\ w[k] = 0
  <2> HIDE DEF w
  <2> QED
    BY <1>2, <1>3
<1>5. \A j \in Channels : w[j] = IF j = i THEN 1 ELSE 0
  <2> HIDE DEF w
  <2> QED
    BY <1>2, <1>3, <1>4, Zenon
<1> HIDE DEF w
<1> QED
  BY <1>1, <1>5 DEF OnTrip

\* It is lost, or stays where it is.
LEMMA LosesToken ==
  ASSUME NEW t, NEW H, NEW s, OnTrip(t, H, s), NEW G, G \subseteq H
  PROVE  OnTrip(t, G, s)
  BY DEF OnTrip

\* What is asserted of the places follows.
LEMMA OneTokenFollows == OnTrip(tokens, Holding, served) => OneToken
<1> SUFFICES ASSUME OnTrip(tokens, Holding, served) PROVE OneToken
  OBVIOUS
<1>1. ASSUME NEW x \in Places
      PROVE  \/ \E k \in Channels : tokens[k] > 0 /\ x = <<"in", k>>
             \/ \E h \in Holding : x = <<"with", h>>
  BY DEF Places, Holding, Keeping
<1>2. /\ \A k, j \in Channels : tokens[k] > 0 /\ tokens[j] > 0 => k = j
      /\ \A g, h \in Holding : g = h
      /\ \A k \in Channels : tokens[k] > 0 => Holding = {}
      /\ \A k \in Channels : tokens[k] <= 1
  BY DEF OnTrip
<1>3. \A x, y \in Places : x = y
  BY <1>1, <1>2
<1> QED
  BY <1>2, <1>3 DEF OneToken

\* The program that runs, if it passes a token.
LEMMA HotIs ==
  ASSUME prog \in HotPotato
  PROVE  /\ Persists(prog, P)
         /\ prog # "lat_sem" => IsRing(P)
         /\ prog = "lat_sem" => IsSwap(P)
  BY HotPotatoes DEF P

\* There is no token yet.
LEMMA InitPotato == Init => Potato
<1> SUFFICES ASSUME Init, prog \in HotPotato PROVE OnTrip(tokens, Holding, served)
  BY DEF Potato
<1>1. /\ \A k \in Channels : tokens[k] = 0
      /\ \A h \in All : helper[h] = "none"
  BY DEF Init
<1>2. Holding \subseteq {0} /\ Before(0) = {}
  <2>1. \A h \in All : h \in Nat
    BY ProgramIs DEF Init
  <2> QED
    BY <1>1, <2>1 DEF Holding, Before
<1>3. \A h \in Holding : h = 0
  BY <1>2
<1> QED
  BY <1>1, <1>2, <1>3 DEF OnTrip

\* A step in which nobody gets the token and nobody passes it on.
LEMMA KeepsPotato ==
  ASSUME Potato, P' = P, All' = All, UNCHANGED <<prog, hpos, tokens, served>>,
         \A h \in All : helper'[h] = "on" => helper[h] = "on",
         Keeping' => Keeping
  PROVE  Potato'
<1> SUFFICES ASSUME prog \in HotPotato PROVE OnTrip(tokens, Holding, served)'
  BY DEF Potato
<1>1. OnTrip(tokens, Holding, served)
  BY DEF Potato
<1>2. Holding' \subseteq Holding
  BY DEF Holding, Turn
<1>3. OnTrip(tokens, Holding', served)
  BY <1>1, <1>2, LosesToken
<1> QED
  BY <1>3 DEF OnTrip, UpTo, Before

LEMMA ForksPotato ==
  ASSUME States, Potato, NEW h \in All, Forks(h)
  PROVE  Potato'
<1>1. Types /\ Place /\ P' = P /\ All' = All /\ prog' = prog
  BY Keeps, SamePrograms DEF States, Next, BenchStep
<1>2. /\ bpc = "fork" /\ bi = h /\ helper' = [helper EXCEPT ![h] = "on"]
      /\ UNCHANGED <<tokens, hpos, served>>
  BY DEF Forks, ringVars
<1> SUFFICES ASSUME prog \in HotPotato PROVE OnTrip(tokens, Holding', served)
  BY <1>1, <1>2 DEF Potato, OnTrip, UpTo, Before
<1>3. OnTrip(tokens, Holding, served)
  BY DEF Potato
<1>4. \A g \in All : g \in Nat
  BY <1>1, ProgramIs DEF Types
<1>5. helper[h] = "none" /\ hpos[h] = 1
  BY <1>1, <1>2, <1>4 DEF Place, Forking
<1>6. \A g \in All \ {h} : helper'[g] = helper[g] /\ hpos'[g] = hpos[g]
  BY <1>1, <1>2 DEF Types
<1>7. CASE prog # "lat_sem"
  <2>1. P.turn[h][1] = Get(h - 1)
    <3>1. IsRing(P)
      BY <1>7, HotIs, Zenon
    <3> QED
      BY <3>1 DEF IsRing, All
  <2>2. Turn(h)'.op # "put"
    BY <1>1, <1>2, <1>5, <2>1 DEF Turn, Get
  <2>3. Keeping
    BY <1>2, <1>7 DEF Keeping, InBody
  <2>4. Holding' \subseteq Holding
    BY <1>1, <1>6, <2>2, <2>3 DEF Holding, Turn
  <2> QED
    BY <1>3, <2>4, LosesToken
<1>8. CASE prog = "lat_sem"
  <2>1. P.n = 1
    BY <1>8, HotIs DEF IsSwap
  <2>2. \A k \in Channels : tokens[k] = 0
    BY <1>1, <1>2, <2>1 DEF Place, Forking
  <2>3. ~Keeping'
    BY <1>1, <1>8 DEF Keeping
  <2>4. \A g \in Holding' : g = 1
    BY <1>1, <2>1, <2>3 DEF Holding, All
  <2>5. Before(1) = {}
    BY <2>1 DEF Before, All
  <2> QED
    BY <2>2, <2>4, <2>5 DEF OnTrip
<1> QED
  BY <1>7, <1>8

\* The benchmark's process kills and reaps.
LEMMA KillsPotato ==
  ASSUME States, Potato, NEW h \in All, Kills(h) \/ KillsNone(h) \/ Reaps(h)
  PROVE  Potato'
<1>1. Types /\ Place /\ P' = P /\ All' = All /\ prog' = prog
  BY Keeps, SamePrograms DEF States, Next, BenchStep
<1>2. bpc \in {"kill", "reap"} /\ UNCHANGED <<tokens, hpos, served>>
  BY DEF Kills, KillsNone, Reaps
<1>3. \A g \in All : helper'[g] = "on" => helper[g] = "on"
  BY <1>1 DEF Kills, KillsNone, Reaps, Types
<1>4. Keeping' => Keeping
  BY <1>1, <1>2 DEF Keeping, InBody
<1> QED
  BY <1>1, <1>2, <1>3, <1>4, KeepsPotato

\* A fork() fails, a helper fails or dies.
LEMMA FailsPotato ==
  ASSUME States, Potato, NEW h \in All, ForkFails(h) \/ HelperFails(h) \/ HelperDies(h)
  PROVE  Potato'
<1>1. Types /\ Place /\ P' = P /\ All' = All /\ prog' = prog
  BY Keeps, SamePrograms DEF States, Next
<1> SUFFICES ASSUME prog \in HotPotato PROVE Potato'
  BY <1>1 DEF Potato
<1>2. P.helperEOF \in {"exit", "spin"}
  <2>1. Persists(prog, P)
    BY HotIs, Zenon
  <2> QED
    BY <2>1, Zenon DEF Persists
<1>3. UNCHANGED <<tokens, hpos, served>>
  BY <1>2 DEF ForkFails, HelperFails, HelperDies, BenchDies, ringVars, benchVars
<1>4. \A g \in All : helper'[g] = "on" => helper[g] = "on"
  BY <1>1 DEF ForkFails, HelperFails, HelperDies, Types
<1>5. Keeping' => Keeping
  BY <1>1 DEF Keeping, InBody, ForkFails, HelperFails, HelperDies, BenchDies
<1> QED
  BY <1>1, <1>3, <1>4, <1>5, KeepsPotato

\* Both ends of lat_unix's sockets are held by the benchmark's process, so that
\* it does not come to the end of a file.
LEMMA BodyFailsPotato == States /\ Potato /\ BodyFails => Potato'
<1> SUFFICES ASSUME States, Potato, BodyFails, prog \in HotPotato PROVE Potato'
  BY Keeps DEF Potato, Next, BenchStep
<1>1. Types /\ Place /\ P' = P /\ All' = All /\ prog' = prog
  BY Keeps, SamePrograms DEF States, Next, BenchStep
<1>2. UNCHANGED <<tokens, hpos, served, helper>>
  BY DEF BodyFails, BenchDies, ringVars
<1>3. CASE BenchDies
  <2>1. ~Keeping'
    BY <1>3 DEF Keeping, BenchDies
  <2> QED
    BY <1>1, <1>2, <2>1, KeepsPotato
<1>4. CASE bpc = "body" /\ AtEOF(Body) /\ P.bodyEOF # "exit"
  <2>1. Persists(prog, P)
    BY HotIs, Zenon
  <2>2. P.n = 1 /\ 0 \in P.wr[2]
    BY <1>4, <2>1, Zenon DEF Persists
  <2>3. Body.op = "get" /\ Writers(Body.at) = {}
    BY <1>4 DEF AtEOF
  <2>4. bi \in 1..Len(P.body)
    BY <1>1, <1>4, BodyIs DEF InBody
  <2>5. IsRing(P) \/ IsSwap(P)
    BY HotIs, Zenon
  <2>6. Body.at = 1
    BY <2>2, <2>3, <2>4, <2>5 DEF IsRing, IsSwap, Body, Put, Get, Pass
  <2>7. Writers(1) = {}
    BY <2>3, <2>6, Zenon
  <2>8. BenchHolds
    BY <1>1, <1>4 DEF BenchHolds, Place, Ends
  <2>9. 0 \in Holders(P.wr[1 + 1])
    BY <2>2, <2>8 DEF Holders
  <2> QED
    BY <2>7, <2>9 DEF Writers
<1> QED
  BY <1>3, <1>4 DEF BodyFails

\* A signal, the parent's end, and benchmp_interval.
LEMMA ElsewherePotato ==
  States /\ Potato
    /\ (\/ TermSeen \/ Exits \/ ChildSignal \/ Alarm \/ Term \/ BenchKilled \/ ParentDies
        \/ Measure \/ Report \/ Orphan)
  => Potato'
<1> SUFFICES ASSUME States, Potato,
                    \/ TermSeen \/ Exits \/ ChildSignal \/ Alarm \/ Term \/ BenchKilled
                    \/ ParentDies \/ Measure \/ Report \/ Orphan
             PROVE  Potato'
  OBVIOUS
<1>1. P' = P /\ All' = All /\ prog' = prog
  BY Keeps, SamePrograms DEF Next, BenchStep
<1>2. UNCHANGED <<tokens, hpos, served, helper>>
  BY DEF TermSeen, Exits, ChildSignal, Alarm, Term, BenchKilled, ParentDies, Measure, Report,
         Orphan, CleanUp, Interval, CleanupOnSignal, BenchDies, ringVars
<1>3. \/ bpc' = "dead"
      \/ bpc' = bpc /\ bi' = bi
      \/ bpc = "interval" /\ bi' = 1
  BY DEF TermSeen, Exits, ChildSignal, Alarm, Term, BenchKilled, ParentDies, Measure, Report,
         Orphan, CleanUp, Interval, CleanupOnSignal, BenchDies
<1>4. Keeping' => Keeping
  BY <1>1, <1>3 DEF Keeping, InBody
<1> QED
  BY <1>1, <1>2, <1>4, KeepsPotato

\* A helper of a ring takes the token from the channel before it, or puts it
\* into the one after it.
LEMMA RingStepPotato ==
  ASSUME States, Potato, prog \in HotPotato, prog # "lat_sem", NEW h \in All, HelperStep(h)
  PROVE  Potato'
<1>1. Types /\ Place /\ P' = P /\ All' = All /\ prog' = prog
  BY Keeps, SamePrograms DEF States, Next
<1>2. IsRing(P)
  BY HotIs
<1> SUFFICES OnTrip(tokens', Holding', served')
  BY <1>1 DEF Potato, OnTrip, UpTo, Before
<1>3. OnTrip(tokens, Holding, served)
  BY DEF Potato
<1>4. h \in Nat /\ h \in Channels /\ h - 1 \in Channels /\ tokens \in [Channels -> Nat]
      /\ h # 0
  BY <1>1, ProgramIs DEF Types
<1>5. \A g \in All : (g < h => g <= h - 1) /\ (g <= h => g < h \/ g = h)
  <2>1. \A g \in All : g \in Nat
    BY <1>1, ProgramIs DEF Types
  <2> QED
    BY <1>4, <2>1
<1>6. /\ helper[h] = "on" /\ Works(h, Turn(h)) /\ Effect(h, Turn(h))
      /\ hpos' = [hpos EXCEPT ![h] = NextPos(h)]
      /\ served' = IF AfterTurn(h) THEN served \union {h} ELSE served
      /\ UNCHANGED <<bpc, bi, helper>>
  BY DEF HelperStep
<1>7. /\ P.again = 1 /\ Len(P.turn[h]) = 2
      /\ P.turn[h][1] = Get(h - 1) /\ P.turn[h][2] = Put(h)
  BY <1>2 DEF IsRing, All
<1>8. /\ Keeping' = Keeping /\ hpos'[h] = NextPos(h)
      /\ \A g \in All \ {h} : helper'[g] = helper[g] /\ hpos'[g] = hpos[g]
  BY <1>1, <1>6 DEF Types, Keeping, InBody
<1>9. \A g \in All \ {h} : g \in Holding' => g \in Holding
  BY <1>1, <1>8 DEF Holding, Turn
<1>10. 0 \in Holding' => 0 \in Holding
  BY <1>1, <1>8, ProgramIs DEF Types, Holding
<1>11. Holding' \subseteq Holding \union {h} /\ Holding' \subseteq All \union {0}
  BY <1>1, <1>9, <1>10 DEF Holding
<1>12. hpos[h] = 1 \/ hpos[h] = 2
  <2>1. hpos[h] \in Nat /\ 1 <= hpos[h] /\ hpos[h] <= Len(P.turn[h])
    BY <1>1 DEF Types
  <2> QED
    BY <1>7, <2>1
<1>13. CASE hpos[h] = 1
  <2>1. Turn(h) = Get(h - 1)
    BY <1>7, <1>13 DEF Turn
  <2>2. tokens[h - 1] > 0 /\ tokens' = [tokens EXCEPT ![h - 1] = @ - 1]
    BY <1>6, <2>1 DEF Works, Effect, Get
  <2>3. served' = served
    BY <1>6, <1>7, <1>13 DEF AfterTurn
  <2>4. UpTo(h - 1) \subseteq served
    BY <1>3, <1>4, <2>2 DEF OnTrip
  <2>5. Before(h) \subseteq served
    BY <1>5, <2>4 DEF Before, UpTo
  <2>6. OnTrip(tokens', Holding \union {h}, served)
    BY <1>3, <1>4, <2>2, <2>5, TakesToken
  <2> QED
    BY <1>11, <2>3, <2>6, LosesToken
<1>14. CASE hpos[h] = 2
  <2>1. Turn(h) = Put(h)
    BY <1>7, <1>14 DEF Turn
  <2>2. h \in Holding
    BY <1>6, <2>1 DEF Holding, Put
  <2>3. tokens' = [tokens EXCEPT ![h] = @ + 1]
    BY <1>6, <2>1 DEF Effect, Put
  <2>4. served' = served \union {h}
    BY <1>6, <1>7, <1>14 DEF AfterTurn
  <2>5. Before(h) \subseteq served
    BY <1>3, <2>2 DEF OnTrip
  <2>6. UpTo(h) \subseteq served'
    BY <1>5, <2>4, <2>5 DEF Before, UpTo
  <2>7. OnTrip(tokens', Holding \ {h}, served')
    BY <1>3, <1>4, <2>2, <2>3, <2>6, PutsToken
  <2>8. hpos'[h] = 1
    BY <1>7, <1>8, <1>14 DEF NextPos
  <2>9. Turn(h)' = Get(h - 1)
    BY <1>1, <1>7, <2>8 DEF Turn
  <2>10. h \notin Holding'
    BY <1>1, <1>4, <2>9 DEF Holding, Get
  <2> QED
    BY <1>11, <2>7, <2>10, LosesToken
<1> QED
  BY <1>12, <1>13, <1>14

\* The helper of lat_sem begins with the token, and passes it on and on.
LEMMA SwapStepPotato ==
  ASSUME States, Potato, prog \in HotPotato, prog = "lat_sem", NEW h \in All, HelperStep(h)
  PROVE  Potato'
<1>1. Types /\ Place /\ P' = P /\ All' = All /\ prog' = prog
  BY Keeps, SamePrograms DEF States, Next
<1>2. IsSwap(P)
  BY HotIs
<1> SUFFICES OnTrip(tokens', Holding', served')
  BY <1>1 DEF Potato, OnTrip, UpTo, Before
<1>3. OnTrip(tokens, Holding, served)
  BY DEF Potato
<1>4. /\ 0 \in Channels /\ h \in Channels /\ tokens \in [Channels -> Nat] /\ h # 0
      /\ \A g \in All : g = h
  <2>1. 0 \in Channels /\ h \in Channels /\ tokens \in [Channels -> Nat] /\ h # 0
    BY <1>1, ProgramIs DEF Types
  <2> QED
    BY <1>2, <2>1 DEF IsSwap, All
<1>5. /\ helper[h] = "on" /\ Works(h, Turn(h)) /\ Effect(h, Turn(h))
      /\ hpos' = [hpos EXCEPT ![h] = NextPos(h)]
      /\ served' = IF AfterTurn(h) THEN served \union {h} ELSE served
      /\ UNCHANGED <<bpc, bi, helper>>
  BY DEF HelperStep
<1>6. /\ P.again = 2 /\ Len(P.turn[h]) = 2
      /\ P.turn[h][1] = Put(h) /\ P.turn[h][2] = Pass(0, h)
  BY <1>2 DEF IsSwap, All
<1>7. (hpos[h] = 1 \/ hpos[h] = 2) /\ hpos'[h] = NextPos(h)
  <2>1. hpos[h] \in Nat /\ 1 <= hpos[h] /\ hpos[h] <= Len(P.turn[h]) /\ hpos \in [All -> Nat]
    BY <1>1 DEF Types
  <2> QED
    BY <1>5, <1>6, <2>1
<1>8. hpos'[h] = 2 /\ served' = served \union {h}
  BY <1>5, <1>6, <1>7 DEF NextPos, AfterTurn
<1>9. Turn(h)' = Pass(0, h)
  BY <1>1, <1>6, <1>8 DEF Turn
<1>10. Holding' = {}
  <2>1. ~Keeping'
    BY <1>1 DEF Keeping
  <2>2. \A g \in All : Turn(g)'.op # "put"
    BY <1>4, <1>9 DEF Pass
  <2> QED
    BY <1>1, <2>1, <2>2 DEF Holding
<1>11. UpTo(h) \subseteq served'
  BY <1>4, <1>8 DEF UpTo
<1>12. CASE hpos[h] = 1
  <2>1. Turn(h) = Put(h)
    BY <1>6, <1>12 DEF Turn
  <2>2. h \in Holding
    BY <1>5, <2>1 DEF Holding, Put
  <2>3. tokens' = [tokens EXCEPT ![h] = @ + 1]
    BY <1>5, <2>1 DEF Effect, Put
  <2>4. OnTrip(tokens', Holding \ {h}, served')
    BY <1>3, <1>4, <1>11, <2>2, <2>3, PutsToken
  <2> QED
    BY <1>10, <2>4, LosesToken
<1>13. CASE hpos[h] = 2
  <2>1. Turn(h) = Pass(0, h)
    BY <1>6, <1>13 DEF Turn
  <2>2. tokens[0] > 0 /\ tokens' = [tokens EXCEPT ![0] = @ - 1, ![h] = @ + 1]
    BY <1>5, <2>1 DEF Works, Effect, Pass
  <2>3. OnTrip([tokens EXCEPT ![0] = @ - 1, ![h] = @ + 1], Holding, served')
    BY <1>3, <1>4, <1>11, <2>2, SwapsToken
  <2>4. OnTrip(tokens', Holding, served')
    BY <2>2, <2>3, Zenon
  <2> QED
    BY <1>10, <2>4, LosesToken
<1> QED
  BY <1>7, <1>12, <1>13

\* The benchmark's process puts the token into the ring and takes it out again.
LEMMA BodyStepPotato == States /\ Potato /\ BodyStep => Potato'
<1> SUFFICES ASSUME States, Potato, BodyStep, prog \in HotPotato PROVE Potato'
  BY Keeps DEF Potato, Next, BenchStep
<1>1. Types /\ Place /\ P' = P /\ All' = All /\ prog' = prog
  BY Keeps, SamePrograms DEF States, Next, BenchStep
<1> SUFFICES OnTrip(tokens', Holding', served')
  BY <1>1 DEF Potato, OnTrip, UpTo, Before
<1>2. OnTrip(tokens, Holding, served)
  BY DEF Potato
<1>3. /\ InBody /\ Works(0, Body) /\ Effect(0, Body)
      /\ UNCHANGED <<helper, hpos>> /\ bi \in 1..Len(P.body)
      /\ tokens \in [Channels -> Nat]
  BY <1>1, BodyIs DEF BodyStep, Types
<1>4. Holding' \subseteq Holding \union {0} /\ 0 \notin All
  <2>1. 0 \notin All
    BY <1>1, ProgramIs DEF Types
  <2> QED
    BY <1>1, <1>3, <2>1 DEF Holding, Turn
<1>5. /\ P.n \in Channels /\ 0 \in Channels /\ 1 \in Channels
      /\ \A g \in All : g \in Nat /\ g # 0
  BY <1>1, ProgramIs, TwoChannels DEF Types
<1>6. CASE prog # "lat_sem" /\ bi = 1
  <2>1. IsRing(P)
    BY <1>6, HotIs
  <2>2. Body = Put(0) /\ Len(P.body) = 2
    BY <1>6, <2>1 DEF IsRing, Body
  <2>3. bi' = 2 /\ bpc' = bpc /\ served' = served
    BY <1>6, <2>2 DEF BodyStep
  <2>4. tokens' = [tokens EXCEPT ![0] = @ + 1]
    BY <1>3, <2>2 DEF Effect, Put
  <2>5. 0 \in Holding /\ UpTo(0) \subseteq served
    BY <1>3, <1>5, <1>6 DEF Holding, Keeping, InBody, UpTo
  <2>6. OnTrip(tokens', Holding \ {0}, served)
    BY <1>2, <1>3, <1>5, <2>4, <2>5, PutsToken
  <2>7. ~Keeping'
    BY <1>3, <2>3 DEF Keeping, InBody
  <2>8. 0 \notin Holding'
    BY <1>1, <1>4, <2>7 DEF Holding
  <2> QED
    BY <1>4, <2>3, <2>6, <2>8, LosesToken
<1>7. CASE prog # "lat_sem" /\ bi # 1
  <2>1. IsRing(P)
    BY <1>7, HotIs
  <2>2. Body = Get(P.n)
    BY <1>3, <1>7, <2>1 DEF IsRing, Body
  <2>3. tokens[P.n] > 0 /\ tokens' = [tokens EXCEPT ![P.n] = @ - 1]
    BY <1>3, <2>2 DEF Works, Effect, Get
  <2>4. Before(0) \subseteq served'
    BY <1>5 DEF Before
  <2>5. OnTrip(tokens', Holding \union {0}, served')
    BY <1>2, <1>3, <1>5, <2>3, <2>4, TakesToken
  <2> QED
    BY <1>4, <2>5, LosesToken
<1>8. CASE prog = "lat_sem"
  <2>1. IsSwap(P)
    BY <1>8, HotIs
  <2>2. Body = Pass(1, 0)
    BY <1>3, <2>1 DEF IsSwap, Body
  <2>3. tokens[1] > 0 /\ tokens' = [tokens EXCEPT ![1] = @ - 1, ![0] = @ + 1]
    BY <1>3, <2>2 DEF Works, Effect, Pass
  <2>4. UpTo(0) \subseteq served'
    BY <1>5 DEF UpTo
  <2>5. OnTrip(tokens', Holding, served')
    <3>1. /\ 1 # 0 /\ tokens \in [Channels -> Nat] /\ 0 \in Channels /\ 1 \in Channels
          /\ tokens[1] > 0
      BY <1>3, <1>5, <2>3
    <3>2. OnTrip([tokens EXCEPT ![1] = @ - 1, ![0] = @ + 1], Holding, served')
      BY <1>2, <2>4, <3>1, SwapsToken
    <3> QED
      BY <2>3, <3>2, Zenon
  <2>6. ~Keeping'
    BY <1>1, <1>8 DEF Keeping
  <2>7. Holding' \subseteq Holding
    BY <1>1, <1>3, <2>6 DEF Holding, Turn
  <2> QED
    BY <2>5, <2>7, LosesToken
<1> QED
  BY <1>6, <1>7, <1>8

LEMMA PotatoStep == States /\ Potato /\ [Next]_vars => Potato'
<1> SUFFICES ASSUME States, Potato, [Next]_vars PROVE Potato'
  OBVIOUS
<1>1. CASE UNCHANGED vars
  <2>1. P' = P /\ All' = All
    BY <1>1, Keeps, SamePrograms
  <2> QED
    BY <1>1, <2>1, KeepsPotato DEF vars, Keeping, InBody
<1>2. CASE BenchStep
  BY <1>2, ForksPotato, KillsPotato, BodyStepPotato, BodyFailsPotato, ElsewherePotato
     DEF BenchStep
<1>3. CASE \E h \in All : HelperStep(h) \/ HelperFails(h) \/ ForkFails(h) \/ HelperDies(h)
  <2>1. ASSUME NEW h \in All, HelperStep(h) PROVE Potato'
    <3>1. CASE prog \in HotPotato
      BY <2>1, <3>1, RingStepPotato, SwapStepPotato
    <3>2. CASE prog \notin HotPotato
      BY <2>1, <3>2, Keeps DEF Next, Potato
    <3> QED
      BY <3>1, <3>2
  <2> QED
    BY <1>3, <2>1, FailsPotato
<1>4. CASE ChildSignal \/ Alarm \/ Term \/ BenchKilled \/ ParentDies
  BY <1>4, ElsewherePotato
<1> QED
  BY <1>1, <1>2, <1>3, <1>4 DEF Next

\* At most one token, of which it is known whose turn it was.
LEMMA TripInvariant == Spec => [](States /\ Potato)
<1>1. Init => States /\ Potato
  BY InitStates, InitPotato
<1>2. States /\ Potato /\ [Next]_vars => (States /\ Potato)'
  BY StatesStep, PotatoStep
<1> QED
  BY <1>1, <1>2, PTL DEF Spec

\* Whatever fails, a benchmark that passes one token round has at most one, in a
\* channel or with one of its processes.
THEOREM PassesOneToken == Spec => []OneToken
<1>1. States /\ Potato => OneToken
  BY OneTokenFollows DEF Potato, OneToken
<1> QED
  BY <1>1, TripInvariant, PTL

\* An iteration that ends is a trip round: the token has come to the benchmark's
\* process, and with it come the turns of all helpers.
LEMMA TripEnds == States /\ Potato => TripRound(HotPotato)
<1> SUFFICES ASSUME States, Potato, prog \in HotPotato, BodyStep, bi = Len(P.body)
             PROVE  All \subseteq served
  BY DEF TripRound, IterationEnds
<1>1. OnTrip(tokens, Holding, served) /\ Types /\ Works(0, Body)
  BY DEF Potato, States, BodyStep
<1>2. IsProgram(P) /\ P.n \in Channels
  BY <1>1, ProgramIs DEF Types
<1>3. tokens[P.n] > 0
  <2>1. CASE prog # "lat_sem"
    <3>1. IsRing(P)
      BY <2>1, HotIs
    <3>2. Body = Get(P.n)
      BY <3>1 DEF IsRing, Body
    <3> QED
      BY <1>1, <3>2 DEF Works, Get
  <2>2. CASE prog = "lat_sem"
    <3>1. IsSwap(P)
      BY <2>2, HotIs
    <3>2. Body = Pass(1, 0) /\ P.n = 1
      BY <3>1 DEF IsSwap, Body
    <3> QED
      BY <1>1, <3>2 DEF Works, Pass
  <2> QED
    BY <2>1, <2>2
<1>4. UpTo(P.n) \subseteq served
  BY <1>1, <1>2, <1>3 DEF OnTrip
<1>5. All \subseteq UpTo(P.n)
  BY <1>2 DEF UpTo, All, IsProgram
<1> QED
  BY <1>4, <1>5

\* No iteration of such a benchmark is counted in which a helper had no turn.
THEOREM EveryTripIsRound == Spec => EveryIterationIsATrip
<1>1. States /\ Potato => [TripRound(HotPotato)]_vars
  BY TripEnds
<1> QED
  BY <1>1, TripInvariant, PTL DEF EveryIterationIsATrip

-----------------------------------------------------------------------------
(* After a single fault                                                    *)

\* A benchmark without its helper whose cleanup would kill everything: it is in
\* its first interval, where it waits for an answer that does not come.
Stuck ==
  /\ prog \in HotPotato /\ P.n = 1 /\ P.noFork = "return"
  /\ ~told /\ ~pdead /\ tokens[1] = 0
  /\ (bpc = "interval" /\ first) \/ bpc = "body"

Spared ==
  /\ NeverKillsAll
  /\ \A h \in All : (helper[h] = "failed" /\ P.guard = "nonzero") =>
       faults >= 1 /\ (bpc = "dead" \/ Stuck)

\* The programs that look whether a pid is 0: they exit if fork() fails, or go on
\* to wait for the helper.
LEMMA GuardIs ==
  ASSUME prog \in Programs, P.guard = "nonzero"
  PROVE  P.noFork = "exit" \/ (prog \in HotPotato /\ P.n = 1 /\ P.noFork = "return")
<1>1. \A p \in ProgramNames :
        Program(p).guard = "nonzero" =>
          \/ Program(p).noFork = "exit"
          \/ p \in HotPotato /\ Program(p).n = 1 /\ Program(p).noFork = "return"
  <2>1. /\ lat_pipe.n = 1 /\ lat_pipe.noFork = "return"
        /\ lat_unix.n = 1 /\ lat_unix.noFork = "return"
        /\ lat_sem.n = 1 /\ lat_sem.noFork = "return"
        /\ lat_fcntl.noFork = "exit"
    BY DEF lat_pipe, lat_unix, lat_sem, lat_fcntl
  <2>2. /\ lat_fifo.guard = "positive" /\ lat_ctx.guard = "positive"
        /\ bw_pipe.guard = "positive" /\ bw_unix.guard = "positive"
    BY DEF lat_pipe, lat_fifo, lat_ctx, bw_pipe, bw_unix
  <2> QED
    BY <2>1, <2>2 DEF ProgramNames, HotPotato, Program
<1> QED
  BY <1>1 DEF P

\* A benchmark that is dead does nothing more.
LEMMA DeadStays == bpc = "dead" /\ Next => bpc' = "dead"
  BY DEF Next, BenchStep, Forks, Kills, KillsNone, Reaps, BodyStep, BodyFails, TermSeen,
         Measure, Report, Orphan, CleanUp, Interval, Exits, ChildSignal, Alarm, HelperStep,
         HelperFails, ForkFails, HelperDies, Term, BenchKilled, ParentDies, InBody

\* After the fault that has left it without a helper nothing else goes wrong.
LEMMA OneFault ==
  ASSUME States, MaxFaults <= 1, faults >= 1, NEW kind
  PROVE  ~Fault(kind)
  BY DEF States, Types, Fault

\* The function of such a benchmark does not return: channel 1 stays empty, and
\* all ends of the channels are its own.
LEMMA StuckBody ==
  ASSUME States, Stuck, NEW g \in All, helper[g] = "failed", BodyStep \/ BodyFails
  PROVE  bpc' = "dead" \/ Stuck'
<1>1. Types /\ Place /\ P' = P /\ All' = All /\ prog' = prog
  BY Keeps, SamePrograms DEF States, Next, BenchStep
<1>2. /\ bpc = "body" /\ InBody /\ IsOperation(Body) /\ bi \in 1..Len(P.body)
      /\ prog \in HotPotato /\ P.n = 1 /\ P.noFork = "return" /\ tokens[1] = 0
  BY <1>1, BodyIs DEF Stuck, BodyStep, BodyFails, InBody
<1>3. BenchHolds /\ ForkFailed
  BY <1>1, <1>2 DEF Place, Ends, BenchHolds, ForkFailed
<1>4. \A k \in Channels : Readers(k) # {} /\ Writers(k) # {}
  BY <1>3 DEF Readers, Writers, Holders
<1>5. ~Unset /\ ~Broken(Body) /\ ~AtEOF(Body)
  BY <1>2, <1>4 DEF Unset, Broken, AtEOF, IsOperation
<1>6. BodyStep
  BY <1>5 DEF BodyFails
<1>7. Body = Put(0) /\ bi = 1 /\ Len(P.body) = 2
  <2>1. CASE prog # "lat_sem"
    <3>1. IsRing(P)
      BY <1>2, <2>1, HotIs
    <3>2. Len(P.body) = 2 /\ P.body[1] = Put(0) /\ P.body[2] = Get(1)
      BY <1>2, <3>1 DEF IsRing
    <3>3. bi = 1 \/ bi = 2
      BY <1>2, <3>2
    <3>4. ~Works(0, Get(1))
      BY <1>2 DEF Works, Get
    <3>5. Body # Get(1)
      BY <1>6, <3>4 DEF BodyStep
    <3> QED
      BY <3>2, <3>3, <3>5 DEF Body
  <2>2. CASE prog = "lat_sem"
    <3>1. IsSwap(P)
      BY <1>2, <2>2, HotIs
    <3>2. Body = Pass(1, 0)
      BY <1>2, <3>1 DEF IsSwap, Body
    <3> QED
      BY <1>2, <1>6, <3>2 DEF BodyStep, Works, Pass
  <2> QED
    BY <2>1, <2>2
<1>8. bpc' = "body" /\ UNCHANGED <<told, pdead>>
  BY <1>2, <1>6, <1>7 DEF BodyStep, benchVars, envVars
<1>9. tokens' = [tokens EXCEPT ![0] = @ + 1]
  BY <1>6, <1>7 DEF BodyStep, Effect, Put
<1>10. tokens'[1] = 0
  BY <1>1, <1>2, <1>9, TwoChannels DEF Types
<1> QED
  BY <1>1, <1>2, <1>8, <1>10 DEF Stuck

\* It stays where it is, or ends.
LEMMA StuckStays ==
  ASSUME States, Stuck, MaxFaults <= 1, faults >= 1, NEW g \in All, helper[g] = "failed", Next
  PROVE  bpc' = "dead" \/ Stuck'
<1>1. P' = P /\ All' = All /\ prog' = prog
  BY Keeps, SamePrograms
<1>2. \A kind : ~Fault(kind)
  BY OneFault
<1>3. /\ bpc \in {"interval", "body"} /\ (bpc = "interval" => first) /\ ~told /\ ~pdead
      /\ P.n = 1 /\ prog \in HotPotato /\ P.noFork = "return" /\ tokens[1] = 0
  BY DEF Stuck
<1>4. \A h \in All : helper[h] = "failed"
  BY <1>3 DEF All
<1>5. CASE BodyStep \/ BodyFails
  BY <1>5, StuckBody
<1>6. CASE \E h \in All : Forks(h) \/ Kills(h) \/ KillsNone(h) \/ Reaps(h)
  BY <1>3, <1>6 DEF Forks, Kills, KillsNone, Reaps
<1>7. CASE TermSeen \/ Exits \/ ChildSignal \/ Alarm
  BY <1>3, <1>7 DEF TermSeen, Exits, ChildSignal, Alarm, CleanupOnSignal, BenchDies
<1>8. CASE Report \/ Orphan
  BY <1>3, <1>8 DEF Report, Orphan, CleanUp, Interval
<1>9. CASE Measure
  <2>1. bpc' = "body" /\ UNCHANGED <<told, pdead, tokens>>
    BY <1>9 DEF Measure, Interval, envVars
  <2> QED
    BY <1>1, <1>3, <2>1 DEF Stuck
<1>10. CASE \E h \in All : HelperStep(h) \/ HelperFails(h)
  BY <1>4, <1>10 DEF HelperStep, HelperFails
<1> QED
  BY <1>2, <1>5, <1>6, <1>7, <1>8, <1>9, <1>10
  DEF Next, BenchStep, ForkFails, HelperDies, Term, BenchKilled, ParentDies

\* fork() fails: it is the first thing that goes wrong.
LEMMA ForkFailsSpared ==
  ASSUME States, Spared, MaxFaults <= 1, NEW h \in All, ForkFails(h), P.guard = "nonzero"
  PROVE  faults' >= 1 /\ (bpc' = "dead" \/ Stuck')
<1>1. Types /\ Place /\ P' = P /\ All' = All /\ prog' = prog
  BY Keeps, SamePrograms DEF States, Next
<1>2. /\ bpc = "fork" /\ faults < MaxFaults /\ faults' = faults + 1 /\ UNCHANGED pdead
  BY DEF ForkFails, Fault
<1>3. faults = 0
  BY <1>1, <1>2 DEF Types
<1>4. faults' >= 1 /\ ~pdead
  BY <1>1, <1>2, <1>3 DEF Place, Blamed
<1>5. CASE P.noFork = "exit"
  BY <1>4, <1>5 DEF ForkFails, BenchDies
<1>6. CASE prog \in HotPotato /\ P.n = 1 /\ P.noFork = "return"
  <2>1. first /\ ~told /\ tokens[1] = 0
    BY <1>1, <1>2, <1>6, TwoChannels DEF Place, Forking
  <2>2. bpc' = "interval" /\ UNCHANGED <<first, told, tokens>>
    BY <1>6 DEF ForkFails, benchVars, ringVars
  <2> QED
    BY <1>1, <1>2, <1>4, <1>6, <2>1, <2>2 DEF Stuck
<1> QED
  BY <1>1, <1>5, <1>6, GuardIs DEF Types

\* Without a second fault no step leads to a kill(-1).
LEMMA SparedStep ==
  ASSUME MaxFaults <= 1, States, Spared, [Next]_vars
  PROVE  Spared'
<1>1. CASE UNCHANGED vars
  <2>1. P' = P /\ All' = All
    BY <1>1, Keeps, SamePrograms
  <2> QED
    BY <1>1, <2>1 DEF vars, Spared, Stuck, NeverKillsAll
<1>2. CASE Next
  <2>1. Types /\ Place /\ P' = P /\ All' = All /\ prog' = prog
    BY <1>2, Keeps, SamePrograms DEF States
  <2>2. NeverKillsAll'
    <3>1. ASSUME bpc' = "killed all", bpc # "killed all" PROVE \E h \in All : KillsNone(h)
      BY <1>2, <3>1 DEF Next, BenchStep, Forks, Kills, Reaps, AfterHelper, BodyStep, BodyFails,
           TermSeen, Measure, Report, Orphan, CleanUp, Interval, Exits, ChildSignal, Alarm,
           HelperStep, HelperFails, ForkFails, HelperDies, Term, BenchKilled, ParentDies,
           CleanupOnSignal, BenchDies, InBody
    <3>2. ASSUME NEW h \in All, KillsNone(h) PROVE bpc' # "killed all"
      <4>1. bpc = "kill"
        BY <3>2 DEF KillsNone
      <4>2. ~(helper[h] = "failed" /\ P.guard = "nonzero")
        BY <4>1 DEF Spared, Stuck
      <4> QED
        BY <3>2, <4>2 DEF KillsNone, AfterHelper
    <3> QED
      BY <3>1, <3>2 DEF NeverKillsAll, Spared
  <2>3. ASSUME NEW g \in All, helper'[g] = "failed", P.guard = "nonzero"
        PROVE  faults' >= 1 /\ (bpc' = "dead" \/ Stuck')
    <3>1. CASE helper[g] = "failed"
      <4>1. faults >= 1 /\ (bpc = "dead" \/ Stuck)
        BY <2>3, <3>1 DEF Spared
      <4>2. \A kind : ~Fault(kind)
        BY <4>1, OneFault
      <4>3. faults' = faults
        BY <1>2, <4>2 DEF Next, BenchStep, Forks, Kills, KillsNone, Reaps, BodyStep, BodyFails,
             TermSeen, Measure, Report, Orphan, CleanUp, Interval, Exits, ChildSignal, Alarm,
             HelperStep, HelperFails, ForkFails, HelperDies, Term, BenchKilled, ParentDies,
             envVars
      <4> QED
        BY <1>2, <3>1, <4>1, <4>3, DeadStays, StuckStays
    <3>2. CASE helper[g] # "failed"
      <4>1. \E h \in All : ForkFails(h)
        BY <1>2, <2>1, <2>3, <3>2 DEF Types, Next, BenchStep, Forks, Kills, KillsNone, Reaps,
             BodyStep, BodyFails, TermSeen, Measure, Report, Orphan, CleanUp, Interval, Exits,
             ChildSignal, Alarm, HelperStep, HelperFails, HelperDies, Term, BenchKilled, ParentDies
      <4> QED
        BY <2>3, <4>1, ForkFailsSpared
    <3> QED
      BY <3>1, <3>2
  <2> QED
    BY <2>1, <2>2, <2>3 DEF Spared
<1> QED
  BY <1>1, <1>2

\* If no more than one thing goes wrong, no cleanup sends SIGKILL to all processes
\* of the user: a benchmark that has no helper does not come to its cleanup.
THEOREM SparesOthers ==
  ASSUME MaxFaults <= 1
  PROVE  Spec => []NeverKillsAll
<1>1. Init => Spared
  BY DEF Init, Spared, NeverKillsAll
<1>2. States /\ Spared /\ [Next]_vars => Spared'
  BY SparedStep
<1>3. Spared => NeverKillsAll
  BY DEF Spared
<1> QED
  BY <1>1, <1>2, <1>3, StatesInvariant, PTL DEF Spec
=============================================================================
