------------------------ MODULE SingleProcessProofs ------------------------
(***************************************************************************)
(* Proofs about what a process does by itself.                             *)
(*                                                                         *)
(* The command line: for all command lines, that benchmp() is called with  *)
(* at least one child, and that the operands and the parallelism are those *)
(* which the words say.                                                    *)
(*                                                                         *)
(* The sizing of intervals, from the arithmetic of Sizing: the intervals   *)
(* of a single child, and the loop of BENCH_INNER.                         *)
(*                                                                         *)
(* These are programs with a state of their own each; no theorem is about  *)
(* two of them, and each assumes what its own constants are.               *)
(***************************************************************************)
EXTENDS CommandLine, Interval, BenchInner, TLAPS

----------------------------------------------------------------------------
(* The command line                                                        *)

USE CommandLineAssumption DEF CommandLineAssumption

----------------------------------------------------------------------------
(* The invariants                                                          *)

Ats == {"start", "parse", "operands", "run", "ended", "usage"}

TypeInv ==
  /\ program \in Names /\ args \in CommandLines /\ at \in Ats
  /\ optind \in 1..Len(args)+1 /\ n \in Nat \ {0} /\ parallel \in Int

(* getopt() is before the last letter of a word, and has gone over letters *)
(* that take no argument.                                                  *)
InWord ==
  IF AtOption THEN n < Len(Word) /\ \A i \in 2..n : Word[i] \in Row.flags ELSE n = 1

(* The words that getopt() has gone over, and those among them with a -P.  *)
Done == {k \in Begins : k < optind}
DonePs == {k \in Done : Asks(k)}

(* It stands where the last of those words leaves it, and the parallelism  *)
(* is that of the last -P.                                                 *)
Parsed ==
  /\ optind \in Begins
  /\ \A k \in Done : IsOptionAt(k) /\ After(k) <= optind
  /\ optind = IF Done = {} THEN 1 ELSE After(Latest(Done))
  /\ parallel = IF DonePs = {} THEN 1 ELSE atoi(ArgumentOf(Latest(DonePs)))

Going == at \in {"parse", "operands", "run"}

ParseInv ==
  /\ at = "start" => optind = 1 /\ n = 1 /\ parallel = 1
  /\ Going => InWord /\ Parsed
  /\ at \in {"operands", "run"} => ~AtOption

PositiveInv == at \in {"start", "parse", "operands", "run"} => parallel >= 1

----------------------------------------------------------------------------
(* The programs                                                            *)

\* A letter takes an argument or takes none; -P takes one, which the program
\* checks where it has a case for it.
IsRow(r) ==
  /\ \A l \in r.flags : l \notin r.values /\ l # "P"
  /\ "P" \in r.values => "P" \in r.checked \/ "P" \in r.uncased

\* The rows that are built from Plain.
LEMMA PlainRows ==
  /\ IsRow(bw_file_rd) /\ IsRow(bw_mem) /\ IsRow(bw_mmap_rd) /\ IsRow(bw_pipe)
  /\ IsRow(bw_unix) /\ IsRow(lat_cmd) /\ IsRow(lat_connect) /\ IsRow(lat_ctx)
  /\ IsRow(lat_fcntl) /\ IsRow(lat_fifo) /\ IsRow(lat_fs) /\ IsRow(lat_mem_rd)
  /\ IsRow(lat_mmap) /\ IsRow(lat_ops) /\ IsRow(lat_pagefault) /\ IsRow(lat_pipe)
  /\ IsRow(lat_pmake) /\ IsRow(lat_proc) /\ IsRow(lat_rand) /\ IsRow(lat_select)
  /\ IsRow(lat_sem) /\ IsRow(lat_sig) /\ IsRow(lat_syscall) /\ IsRow(lat_unix)
  /\ IsRow(lat_unix_connect) /\ IsRow(stream)
<1> USE DEF IsRow, Plain
<1>1. IsRow(bw_file_rd) /\ IsRow(bw_mem) /\ IsRow(bw_mmap_rd) /\ IsRow(bw_pipe)
  BY DEF bw_file_rd, bw_mem, bw_mmap_rd, bw_pipe
<1>2. IsRow(bw_unix) /\ IsRow(lat_cmd) /\ IsRow(lat_connect) /\ IsRow(lat_ctx)
  BY DEF bw_unix, lat_cmd, lat_connect, lat_ctx
<1>3. IsRow(lat_fcntl) /\ IsRow(lat_fifo) /\ IsRow(lat_fs) /\ IsRow(lat_mem_rd)
  BY DEF lat_fcntl, lat_fifo, lat_fs, lat_mem_rd
<1>4. IsRow(lat_mmap) /\ IsRow(lat_ops) /\ IsRow(lat_pagefault) /\ IsRow(lat_pipe)
  BY DEF lat_mmap, lat_ops, lat_pagefault, lat_pipe
<1>5. IsRow(lat_pmake) /\ IsRow(lat_proc) /\ IsRow(lat_rand) /\ IsRow(lat_select)
  BY DEF lat_pmake, lat_proc, lat_rand, lat_select
<1>6. IsRow(lat_sem) /\ IsRow(lat_sig) /\ IsRow(lat_syscall) /\ IsRow(lat_unix)
  BY DEF lat_sem, lat_sig, lat_syscall, lat_unix
<1>7. IsRow(lat_unix_connect) /\ IsRow(stream)
  BY DEF lat_unix_connect, stream
<1> QED
  BY <1>1, <1>2, <1>3, <1>4, <1>5, <1>6, <1>7

\* The rows of servers, and of the programs that measure a single process.
LEMMA OtherRows ==
  /\ IsRow(bw_tcp) /\ IsRow(bw_udp) /\ IsRow(lat_rpc) /\ IsRow(lat_tcp) /\ IsRow(lat_udp)
  /\ IsRow(cache) /\ IsRow(lat_dram_page) /\ IsRow(lat_http) /\ IsRow(lat_usleep)
  /\ IsRow(line) /\ IsRow(mhz) /\ IsRow(par_mem) /\ IsRow(par_ops) /\ IsRow(tlb)
<1> USE DEF IsRow, Plain
<1>1. IsRow(bw_tcp) /\ IsRow(bw_udp) /\ IsRow(lat_rpc) /\ IsRow(lat_tcp) /\ IsRow(lat_udp)
  BY DEF Serving, bw_tcp, bw_udp, lat_rpc, lat_tcp, lat_udp
<1>2. IsRow(cache) /\ IsRow(lat_dram_page) /\ IsRow(lat_http) /\ IsRow(lat_usleep)
  BY DEF Uncounted, cache, lat_dram_page, lat_http, lat_usleep
<1>3. IsRow(line) /\ IsRow(mhz) /\ IsRow(par_mem) /\ IsRow(par_ops) /\ IsRow(tlb)
  BY DEF Uncounted, line, mhz, par_mem, par_ops, tlb
<1> QED
  BY <1>1, <1>2, <1>3

\* Every row of the table.
LEMMA EveryRow == \A p \in DOMAIN Rows : IsRow(Rows[p])
<1> HIDE DEF IsRow
<1>1. DOMAIN Rows =
  {"bw_file_rd", "bw_mem", "bw_mmap_rd", "bw_pipe", "bw_tcp", "bw_udp", "bw_unix", "cache",
   "lat_cmd", "lat_connect", "lat_ctx", "lat_dram_page", "lat_fcntl", "lat_fifo", "lat_fs",
   "lat_http", "lat_mem_rd", "lat_mmap", "lat_ops", "lat_pagefault", "lat_pipe", "lat_pmake",
   "lat_proc", "lat_rand", "lat_rpc", "lat_select", "lat_sem", "lat_sig", "lat_syscall",
   "lat_tcp", "lat_udp", "lat_unix", "lat_unix_connect", "lat_usleep", "line", "mhz",
   "par_mem", "par_ops", "stream", "tlb"}
  BY DEF Rows
<1>2. TAKE p \in DOMAIN Rows
<1>3. CASE p \in {"bw_file_rd", "bw_mem", "bw_mmap_rd", "bw_pipe", "bw_tcp", "bw_udp", "bw_unix",
   "cache", "lat_cmd", "lat_connect", "lat_ctx", "lat_dram_page", "lat_fcntl", "lat_fifo"}
  BY <1>3, PlainRows, OtherRows DEF Rows
<1>4. CASE p \in {"lat_fs", "lat_http", "lat_mem_rd", "lat_mmap", "lat_ops", "lat_pagefault",
   "lat_pipe", "lat_pmake", "lat_proc", "lat_rand", "lat_rpc", "lat_select", "lat_sem"}
  BY <1>4, PlainRows, OtherRows DEF Rows
<1>5. CASE p \in {"lat_sig", "lat_syscall", "lat_tcp", "lat_udp", "lat_unix", "lat_unix_connect",
   "lat_usleep", "line", "mhz", "par_mem", "par_ops", "stream", "tlb"}
  BY <1>5, PlainRows, OtherRows DEF Rows
<1> QED
  BY <1>1, <1>3, <1>4, <1>5

----------------------------------------------------------------------------
(* Types, and the parallelism                                              *)

\* What atoi() returns is a number.
LEMMA AtoiNumber == \A w : atoi(w) \in Int
BY DEF atoi, Digits

\* The letter under getopt(), what is left of its word, and the next word.
LEMMA WordsTyped ==
  ASSUME args \in CommandLines, optind \in 1..Len(args)+1
  PROVE  /\ args \in Seq(Seq(STRING)) /\ Len(args) \in Nat
         /\ \A k \in 1..Len(args) : args[k] \in Seq(STRING) /\ Len(args[k]) \in Nat
         /\ AtOption <=> IsOptionAt(optind)
<1>1. args \in Seq(Seq(STRING)) /\ Len(args) \in Nat
  OBVIOUS
<1>2. \A k \in 1..Len(args) : args[k] \in Seq(STRING) /\ Len(args[k]) \in Nat
  BY <1>1
<1>3. AtOption <=> IsOptionAt(optind)
  BY <1>1 DEF AtOption, IsOptionAt
<1> QED
  BY <1>1, <1>2, <1>3

\* What a case of the switch leaves.
LEMMA CaseTyped ==
  ASSUME NEW letter, NEW w, parallel \in Int, Case(letter, w)
  PROVE  at' \in Ats \ {"start", "operands", "run"} /\ parallel' \in Int
BY AtoiNumber DEF Case, Ats

LEMMA TypeStep == ASSUME TypeInv, [ParseNext]_parseVars PROVE TypeInv'
<1> USE DEF TypeInv
<1>1. CASE Start \/ Unknown \/ EndOfOptions \/ Operands \/ UNCHANGED parseVars
  BY <1>1 DEF Start, Unknown, EndOfOptions, Operands, parseVars, Ats
<1>2. CASE Flag
  <2>1. optind \in 1..Len(args)
    BY <1>2 DEF Flag, InOption, AtOption
  <2> QED
    BY <1>2, <2>1, WordsTyped, CaseTyped DEF Flag, NextLetter, Ats
<1>3. CASE ValueOption
  <2>1. optind \in 1..Len(args)
    BY <1>3 DEF ValueOption, InOption, AtOption
  <2>2. CASE Cozy # <<>> /\ optind' = optind + 1 /\ n' = 1 /\ Case(Letter, Cozy)
    BY <1>3, <2>1, <2>2, WordsTyped, CaseTyped DEF ValueOption, Ats
  <2>3. CASE ~NoNext /\ optind' = PastArgument /\ n' = 1 /\ Case(Letter, args[optind + 1])
    BY <1>3, <2>1, <2>3, WordsTyped, CaseTyped DEF ValueOption, Ats, NoNext, PastArgument
  <2>4. CASE at' = "usage" /\ UNCHANGED <<optind, n, parallel>>
    BY <1>3, <2>4 DEF ValueOption, Ats
  <2> QED
    BY <1>3, <2>2, <2>3, <2>4 DEF ValueOption
<1> QED
  BY <1>1, <1>2, <1>3 DEF ParseNext

\* The program that is run is in the table.
LEMMA RowKnown == ASSUME program \in Names PROVE IsRow(Row)
BY EveryRow DEF Row

\* A case of the switch leaves at least one child to a program that goes on.
LEMMA CasePositive ==
  ASSUME IsRow(Row), NEW letter \in Row.flags \union Row.values, NEW w,
         parallel \in Int, parallel >= 1, Case(letter, w), at' = "parse"
  PROVE  parallel' >= 1
<1>1. CASE letter = "P"
  <2>1. "P" \in Row.values
    BY <1>1 DEF IsRow
  <2>2. "P" \in Row.checked /\ Accepts("P", w)
    BY <1>1, <2>1 DEF IsRow, Case
  <2>3. atoi(w) > 0
    BY <2>2 DEF Accepts
  <2> QED
    BY <1>1, <2>3, AtoiNumber DEF Case
<1>2. CASE letter # "P"
  BY <1>2 DEF Case
<1> QED
  BY <1>1, <1>2

LEMMA PositiveStep == ASSUME TypeInv, PositiveInv, [ParseNext]_parseVars PROVE PositiveInv'
<1> USE DEF TypeInv, PositiveInv
<1> USE RowKnown
<1>1. CASE Start \/ Unknown \/ EndOfOptions \/ Operands \/ UNCHANGED parseVars
  BY <1>1 DEF Start, Unknown, EndOfOptions, Operands, parseVars
<1>2. CASE Flag
  BY <1>2, CasePositive, CaseTyped DEF Flag, InOption
<1>3. CASE ValueOption
  BY <1>3, CasePositive, CaseTyped DEF ValueOption, InOption
<1> QED
  BY <1>1, <1>2, <1>3 DEF ParseNext

LEMMA FirstState == ASSUME ParseInit PROVE TypeInv /\ PositiveInv /\ ParseInv
BY DEF ParseInit, TypeInv, PositiveInv, ParseInv, Ats, Going

\* The types of the places in a command line, that of optind above all: getopt()
\* never steps over the word after the last, which an argument in the next word
\* could make it do.
THEOREM PlacesInRange == ParseSpec => []TypeInv
<1>1. ParseInit => TypeInv
  BY FirstState
<1>2. TypeInv /\ [ParseNext]_parseVars => TypeInv'
  BY TypeStep
<1> QED
  BY <1>1, <1>2, PTL DEF ParseSpec

\* Every program that has an option -P refuses an argument which is no positive
\* number before it calls benchmp(), so that its parent has a child to wait for.
THEOREM AtLeastOneChild == ParseSpec => []ParallelIsPositive
<1>1. ParseInit => PositiveInv
  BY FirstState
<1>2. TypeInv /\ PositiveInv /\ [ParseNext]_parseVars => PositiveInv'
  BY PositiveStep
<1>3. PositiveInv => ParallelIsPositive
  BY DEF PositiveInv, ParallelIsPositive
<1> QED
  BY <1>1, <1>2, <1>3, PlacesInRange, PTL DEF ParseSpec

----------------------------------------------------------------------------
(* What the words mean                                                     *)

\* The places where words begin are the least that are closed.
LEMMA BeginsLeast ==
  ASSUME TypeInv
  PROVE  /\ Begins \subseteq Places /\ Closed(Begins)
         /\ \A B \in SUBSET Places : Closed(B) => Begins \subseteq B
<1> USE DEF TypeInv
<1>1. Len(args) \in Nat
  BY WordsTyped
<1>2. \A k \in Places : IsOptionAt(k) => After(k) \in Places
  BY <1>1 DEF Places, IsOptionAt, After
<1>3. 1 \in Begins
  BY <1>1 DEF Begins, Places, Closed
<1>4. ASSUME NEW k \in Begins, IsOptionAt(k)
      PROVE  After(k) \in Begins
  <2>1. After(k) \in Places
    BY <1>2, <1>4 DEF Begins
  <2>2. \A B \in SUBSET Places : Closed(B) => After(k) \in B
    BY <1>4 DEF Begins, Closed
  <2> QED
    BY <2>1, <2>2 DEF Begins
<1> QED
  BY <1>3, <1>4 DEF Begins, Closed

\* A word ends where it begins, or with the next word.
LEMMA AfterNext == \A k : After(k) = k + 1 \/ After(k) = k + 2
BY DEF After

\* The latest of some words.
LEMMA LatestIs ==
  ASSUME NEW S \in SUBSET Int, NEW m \in S, \A k \in S : k <= m
  PROVE  Latest(S) = m
<1>1. \A k \in S : (\A i \in S : i <= k) => k = m
  OBVIOUS
<1> QED
  BY <1>1 DEF Latest

\* What the words mean depends on the words and the program only.
LEMMA MeaningKept ==
  ASSUME UNCHANGED <<program, args>>
  PROVE  /\ Begins' = Begins /\ Row' = Row
         /\ \A k : /\ IsOptionAt(k)' <=> IsOptionAt(k)
                   /\ After(k)' = After(k)
                   /\ Asks(k)' <=> Asks(k)
                   /\ ArgumentOf(k)' = ArgumentOf(k)
<1>1. Row' = Row /\ Places' = Places
  BY DEF Row, Places
<1>2. \A w : TakesAt(w)' = TakesAt(w)
  BY <1>1 DEF TakesAt
<1>3. \A w : TakesNext(w)' <=> TakesNext(w)
  BY <1>2 DEF TakesNext
<1>4. \A k : IsOptionAt(k)' <=> IsOptionAt(k)
  BY DEF IsOptionAt
<1>5. \A k : After(k)' = After(k)
  BY <1>3 DEF After
<1>6. \A B : Closed(B)' <=> Closed(B)
  BY <1>4, <1>5 DEF Closed
<1>7. Begins' = Begins
  BY <1>1, <1>6 DEF Begins
<1>8. \A k : Asks(k)' <=> Asks(k)
  BY <1>2 DEF Asks
<1>9. \A k : ArgumentOf(k)' = ArgumentOf(k)
  BY <1>2 DEF ArgumentOf
<1> QED
  BY <1>1, <1>4, <1>5, <1>7, <1>8, <1>9

\* No word begins between the word under getopt() and the one after it.
LEMMA NoneBetween ==
  ASSUME TypeInv, Parsed, IsOptionAt(optind)
  PROVE  {k \in Begins : k < After(optind)} = Done \union {optind}
<1> USE DEF TypeInv
<1>1. /\ Begins \subseteq Int /\ Closed(Begins) /\ Begins \in SUBSET Places
      /\ \A B \in SUBSET Places : Closed(B) => Begins \subseteq B
  BY BeginsLeast, WordsTyped DEF Places
<1>2. optind \in Begins /\ \A k \in Done : After(k) <= optind
  BY DEF Parsed
<1>a. optind \in Int /\ optind >= 1
  BY <1>1, <1>2 DEF Places
<1> HIDE DEF TypeInv
<1>3. CASE After(optind) = optind + 1
  <2>1. \A k \in Begins : k < After(optind) <=> k < optind \/ k = optind
    BY <1>1, <1>a, <1>3
  <2> QED
    BY <1>2, <2>1 DEF Done
<1>4. CASE After(optind) = optind + 2
  <2> DEFINE B == Begins \ {optind + 1}
  <2>1. 1 \in B
    BY <1>1, <1>a DEF Closed
  <2>2. ASSUME NEW k \in B, IsOptionAt(k)
        PROVE  After(k) \in B
    <3>1. After(k) \in Begins /\ k \in Int
      BY <1>1, <2>2 DEF Closed
    <3>2. CASE k < optind
      <4>1. After(k) <= optind
        BY <1>2, <3>2 DEF Done
      <4> QED
        BY <1>a, <3>1, <4>1, AfterNext
    <3>3. CASE k = optind
      BY <1>a, <1>4, <3>1, <3>3
    <3>4. CASE k > optind + 1
      BY <1>a, <3>1, <3>4, AfterNext
    <3> QED
      BY <1>a, <2>2, <3>1, <3>2, <3>3, <3>4
  <2>3. Closed(B)
    BY <2>1, <2>2 DEF Closed
  <2>4. optind + 1 \notin Begins
    BY <1>1, <2>3
  <2>5. \A k \in Begins : k < After(optind) <=> k < optind \/ k = optind
    BY <1>1, <1>a, <1>4, <2>4
  <2> QED
    BY <1>2, <2>5 DEF Done
<1> QED
  BY <1>3, <1>4, AfterNext

\* A word of options has been gone over.
LEMMA WordDone ==
  ASSUME TypeInv, Parsed, IsOptionAt(optind), UNCHANGED <<program, args>>,
         optind' = After(optind),
         parallel' = IF Asks(optind) THEN atoi(ArgumentOf(optind)) ELSE parallel
  PROVE  Parsed'
<1> USE DEF TypeInv
<1>1. /\ Begins \in SUBSET Int /\ Closed(Begins) /\ optind \in Begins
      /\ \A k \in Done : IsOptionAt(k) /\ After(k) <= optind
  BY BeginsLeast, WordsTyped DEF Places, Parsed
<1>a. optind \in Int
  BY <1>1
<1> HIDE DEF TypeInv
<1>b. After(optind) = optind + 1 \/ After(optind) = optind + 2
  BY AfterNext
<1>c. optind' \in Int
  BY <1>a, <1>b
<1>d. \A k \in Done : k \in Int /\ k < optind
  BY <1>1 DEF Done
<1>2. Done' = Done \union {optind}
  BY NoneBetween, MeaningKept DEF Done
<1>3. optind' > optind
  BY <1>a, <1>b
<1>4. optind' \in Begins'
  BY <1>1, MeaningKept DEF Closed
<1>5. \A k \in Done' : IsOptionAt(k)' /\ After(k)' <= optind'
  <2> TAKE k \in Done'
  <2>1. CASE k \in Done
    <3>1. k \in Int /\ After(k) \in Int
      BY <1>1, <2>1, AfterNext DEF Done
    <3> QED
      BY <1>1, <1>a, <1>c, <1>3, <2>1, <3>1, MeaningKept
  <2>2. CASE k = optind
    BY <1>a, <1>b, <1>c, <2>2, MeaningKept
  <2> QED
    BY <1>2, <2>1, <2>2
<1>6. Latest(Done') = optind
  <2>1. Done' \in SUBSET Int /\ \A k \in Done' : k <= optind
    BY <1>a, <1>d, <1>2
  <2> QED
    BY <1>2, <2>1, LatestIs
<1>7. optind' = IF Done' = {} THEN 1 ELSE After(Latest(Done))'
  BY <1>2, <1>6, MeaningKept
<1>8. parallel' = IF DonePs' = {} THEN 1 ELSE atoi(ArgumentOf(Latest(DonePs)))'
  <2>1. CASE Asks(optind)
    <3>1. DonePs' = DonePs \union {optind}
      BY <1>2, <2>1, MeaningKept DEF DonePs
    <3>2. Latest(DonePs') = optind
      <4>1. DonePs' \in SUBSET Int /\ \A k \in DonePs' : k <= optind
        <5>1. \A k \in DonePs : k \in Done
          BY DEF DonePs
        <5> QED
          BY <1>a, <1>d, <3>1, <5>1
      <4> QED
        BY <3>1, <4>1, LatestIs
    <3> QED
      BY <2>1, <3>1, <3>2, MeaningKept
  <2>2. CASE ~Asks(optind)
    <3>1. DonePs' = DonePs
      BY <1>2, <2>2, MeaningKept DEF DonePs
    <3> QED
      BY <2>2, <3>1, MeaningKept DEF Parsed
  <2> QED
    BY <2>1, <2>2
<1> QED
  BY <1>4, <1>5, <1>7, <1>8 DEF Parsed

----------------------------------------------------------------------------
(* getopt() goes over the words as they are meant                          *)

\* The word that takes an argument at letter j takes it at no other.
LEMMA TakesOnce ==
  ASSUME IsRow(Row), NEW w \in Seq(STRING), NEW j \in 2..Len(w),
         w[j] \in Row.values, \A i \in 2..j-1 : w[i] \in Row.flags
  PROVE  TakesAt(w) = {j}
<1>1. j \in TakesAt(w)
  BY DEF TakesAt
<1>2. ASSUME NEW i \in TakesAt(w)
      PROVE  i = j
  <2>1. i \in 2..Len(w) /\ w[i] \in Row.values /\ \A k \in 2..i-1 : w[k] \in Row.flags
    BY <1>2 DEF TakesAt
  <2>2. ~(i < j)
    BY <2>1 DEF IsRow
  <2>3. ~(j < i)
    BY <2>1 DEF IsRow
  <2> QED
    BY <2>1, <2>2, <2>3
<1> QED
  BY <1>1, <1>2

\* A word of letters without arguments takes none.
LEMMA TakesNothing ==
  ASSUME IsRow(Row), NEW w, \A i \in 2..Len(w) : w[i] \in Row.flags
  PROVE  TakesAt(w) = {}
BY DEF TakesAt, IsRow

\* Nothing changes for the words when getopt() does not move.
LEMMA ParsedKept ==
  ASSUME Parsed, UNCHANGED <<program, args, optind, parallel>>
  PROVE  Parsed'
<1>1. Done' = Done
  BY MeaningKept DEF Done
<1>2. DonePs' = DonePs
  BY <1>1, MeaningKept DEF DonePs
<1> QED
  BY <1>1, <1>2, MeaningKept DEF Parsed

\* Before the first word.
LEMMA ParsedFirst == ASSUME TypeInv, optind = 1, n = 1, parallel = 1 PROVE Parsed /\ InWord
<1>1. Begins \subseteq Places /\ 1 \in Begins
  BY BeginsLeast DEF Closed
<1>2. Done = {}
  <2>1. \A k \in Begins : k \in Int /\ k >= 1
    BY <1>1 DEF Places
  <2> QED
    BY <2>1 DEF Done
<1>3. DonePs = {}
  BY <1>2 DEF DonePs
<1>4. InWord
  BY WordsTyped DEF TypeInv, InWord, IsOptionAt, IsOption, Word
<1> QED
  BY <1>1, <1>2, <1>3, <1>4 DEF Parsed

\* getopt() at the first letter of the next word.
LEMMA NewWord ==
  ASSUME TypeInv', n' = 1
  PROVE  InWord'
<1>1. AtOption' => optind' \in 1..Len(args') /\ IsOption(args'[optind'])
  BY DEF AtOption
<1>2. CASE AtOption'
  BY <1>1, <1>2 DEF InWord, IsOption, Word
<1> QED
  BY <1>2 DEF InWord

\* A letter without an argument.
LEMMA FlagStep ==
  ASSUME TypeInv, TypeInv', InWord, Parsed, Flag, at' = "parse"
  PROVE  InWord' /\ Parsed'
<1>1. /\ IsOptionAt(optind) /\ optind \in 1..Len(args) /\ Letter \in Row.flags
      /\ AtOption /\ NextLetter /\ Case(Letter, <<>>) /\ UNCHANGED <<program, args>>
  BY WordsTyped DEF Flag, InOption, AtOption, TypeInv
<1>2. IsRow(Row)
  BY RowKnown DEF TypeInv
<1>3. UNCHANGED parallel
  BY <1>1, <1>2 DEF Case, IsRow
<1>4. n \in Nat /\ n < Len(Word) /\ Len(Word) \in Nat
  BY <1>1, WordsTyped DEF InWord, Word, TypeInv
<1>5. \A i \in 2..n + 1 : Word[i] \in Row.flags
  BY <1>1, <1>4 DEF InWord, Letter
<1>6. CASE n + 1 < Len(Word)
  <2>1. UNCHANGED optind /\ n' = n + 1
    BY <1>1, <1>6 DEF NextLetter
  <2>2. AtOption' /\ Word' = Word /\ Row' = Row
    BY <1>1, <2>1, MeaningKept DEF AtOption, Word
  <2>3. InWord'
    BY <1>5, <1>6, <2>1, <2>2 DEF InWord
  <2> QED
    BY <1>1, <1>3, <2>1, <2>3, ParsedKept
<1>7. CASE ~(n + 1 < Len(Word))
  <2>1. optind' = optind + 1 /\ n' = 1
    BY <1>1, <1>7 DEF NextLetter
  <2>2. TakesAt(args[optind]) = {}
    BY <1>2, <1>4, <1>5, <1>7, TakesNothing DEF Word
  <2>3. After(optind) = optind + 1 /\ ~Asks(optind)
    BY <2>2 DEF After, TakesNext, Asks
  <2> QED
    BY <1>1, <1>3, <2>1, <2>3, WordDone, NewWord
<1> QED
  BY <1>6, <1>7

\* A letter with its argument, in the same word or in the next.
LEMMA ValueStep ==
  ASSUME TypeInv, TypeInv', InWord, Parsed, ValueOption, at' = "parse"
  PROVE  InWord' /\ Parsed'
<1>1. /\ IsOptionAt(optind) /\ optind \in 1..Len(args) /\ Letter \in Row.values
      /\ AtOption /\ UNCHANGED <<program, args>>
  BY WordsTyped DEF ValueOption, InOption, AtOption, TypeInv
<1>2. IsRow(Row)
  BY RowKnown DEF TypeInv
<1>3. /\ n \in Nat \ {0} /\ n < Len(Word) /\ Word \in Seq(STRING) /\ Len(Word) \in Nat
      /\ \A i \in 2..n : Word[i] \in Row.flags
  BY <1>1, WordsTyped DEF InWord, Word, TypeInv
<1>4. TakesAt(args[optind]) = {n + 1}
  <2>1. n + 1 \in 2..Len(Word) /\ (n + 1) - 1 = n
    BY <1>3
  <2>2. TakesAt(Word) = {n + 1}
    BY <1>1, <1>2, <1>3, <2>1, TakesOnce DEF Letter
  <2> QED
    BY <2>2 DEF Word
<1>5. Asks(optind) <=> Letter = "P"
  BY <1>4 DEF Asks, Letter, Word
<1>6. Latest(TakesAt(args[optind])) = n + 1
  <2>1. {n + 1} \in SUBSET Int /\ n + 1 \in {n + 1} /\ \A k \in {n + 1} : k <= n + 1
    BY <1>3
  <2> QED
    BY <1>4, <2>1, LatestIs
<1>7. ArgumentOf(optind) = IF n + 1 = Len(Word) THEN args[optind + 1] ELSE Cozy
  <2>1. (n + 1) + 1 = n + 2
    BY <1>3
  <2> QED
    BY <1>6, <2>1 DEF ArgumentOf, Cozy, Word
<1>8. After(optind) = IF n + 1 = Len(Word) THEN optind + 2 ELSE optind + 1
  BY <1>4 DEF After, TakesNext, Word
<1>9. Cozy # <<>> <=> n + 1 # Len(Word)
  <2>1. Len(Cozy) = IF n + 2 <= Len(Word) THEN Len(Word) - (n + 2) + 1 ELSE 0
    BY <1>3 DEF Cozy
  <2>2. Cozy \in Seq(STRING)
    BY <1>3 DEF Cozy
  <2> QED
    BY <1>3, <2>1, <2>2
<1>10. CASE Cozy # <<>> /\ optind' = optind + 1 /\ n' = 1 /\ Case(Letter, Cozy)
  <2>1. parallel' = IF Asks(optind) THEN atoi(ArgumentOf(optind)) ELSE parallel
    BY <1>5, <1>7, <1>9, <1>10 DEF Case
  <2> QED
    BY <1>1, <1>8, <1>9, <1>10, <2>1, WordDone, NewWord
<1>11. CASE Cozy = <<>> /\ optind' = PastArgument /\ n' = 1 /\ Case(Letter, args[optind + 1])
  <2>1. parallel' = IF Asks(optind) THEN atoi(ArgumentOf(optind)) ELSE parallel
    BY <1>5, <1>7, <1>9, <1>11 DEF Case
  <2> QED
    BY <1>1, <1>8, <1>9, <1>11, <2>1, WordDone, NewWord DEF PastArgument
<1> QED
  BY <1>10, <1>11 DEF ValueOption

LEMMA ParseStep == ASSUME TypeInv, ParseInv, [ParseNext]_parseVars PROVE ParseInv'
<1>1. TypeInv'
  BY TypeStep
<1>2. CASE Start
  <2>1. UNCHANGED <<program, args, optind, n, parallel>> /\ optind = 1 /\ n = 1 /\ parallel = 1
    BY <1>2 DEF Start, ParseInv
  <2>2. Parsed' /\ InWord'
    BY <1>1, <2>1, ParsedFirst, ParsedKept, NewWord
  <2> QED
    BY <1>2, <2>2 DEF Start, ParseInv, Going
<1>3. CASE Flag
  <2>1. at = "parse" /\ (at' = "parse" \/ at' \in Ats \ {"start", "parse", "operands", "run"})
    BY <1>3, CaseTyped DEF Flag, InOption, TypeInv
  <2> QED
    BY <1>1, <1>3, <2>1, FlagStep DEF ParseInv, Going
<1>4. CASE ValueOption
  <2>1. at = "parse" /\ (at' = "parse" \/ at' \in Ats \ {"start", "parse", "operands", "run"})
    BY <1>4, CaseTyped DEF ValueOption, InOption, TypeInv, Ats
  <2> QED
    BY <1>1, <1>4, <2>1, ValueStep DEF ParseInv, Going
<1>5. CASE Unknown
  BY <1>5 DEF Unknown, ParseInv, Going
<1>6. CASE EndOfOptions \/ Operands \/ UNCHANGED parseVars
  <2>1. UNCHANGED <<program, args, optind, n, parallel>>
    BY <1>6 DEF EndOfOptions, Operands, parseVars
  <2>2. (Going' => Going) /\ (at' = "start" => at = "start")
    BY <1>6 DEF EndOfOptions, Operands, parseVars, Going
  <2>3. (AtOption' <=> AtOption) /\ Word' = Word /\ Row' = Row
    BY <2>1 DEF AtOption, Word, Row
  <2>4. Parsed => Parsed'
    BY <2>1, ParsedKept
  <2>5. InWord => InWord'
    BY <2>1, <2>3 DEF InWord
  <2>6. at' \in {"operands", "run"} => ~AtOption
    BY <1>6 DEF EndOfOptions, Operands, parseVars, ParseInv
  <2> QED
    BY <2>1, <2>2, <2>3, <2>4, <2>5, <2>6 DEF ParseInv
<1> QED
  BY <1>2, <1>3, <1>4, <1>5, <1>6 DEF ParseNext

\* At the first word that is no option, all words of options have been gone
\* over.
LEMMA AllDone ==
  ASSUME TypeInv, Parsed, ~AtOption
  PROVE  OptionWords = Done /\ Ps = DonePs
<1>1. /\ Begins \subseteq Places /\ Closed(Begins)
      /\ \A B \in SUBSET Places : Closed(B) => Begins \subseteq B
  BY BeginsLeast
<1>2. optind \in Int /\ optind >= 1 /\ ~IsOptionAt(optind) /\ Begins \subseteq Int
  BY <1>1, WordsTyped DEF TypeInv, Places
<1> DEFINE B == {k \in Begins : k <= optind}
<1>3. Closed(B)
  <2>1. 1 \in B
    BY <1>1, <1>2 DEF Closed
  <2>2. ASSUME NEW k \in B, IsOptionAt(k)
        PROVE  After(k) \in B
    <3>1. k \in Done
      BY <1>2, <2>2 DEF Done
    <3> QED
      BY <1>1, <2>2, <3>1 DEF Closed, Parsed
  <2> QED
    BY <2>1, <2>2 DEF Closed
<1>4. Begins = B
  BY <1>1, <1>3
<1>5. OptionWords = Done
  <2>1. \A k \in Begins : k <= optind
    BY <1>4
  <2>2. \A k \in Begins : k < optind <=> IsOptionAt(k)
    BY <1>2, <2>1 DEF Done, Parsed
  <2> QED
    BY <2>2 DEF OptionWords, Done
<1> QED
  BY <1>5 DEF Ps, DonePs

\* However the options are bundled into words, with their arguments in the same
\* word or in the next, getopt() leaves main() at the first operand, and with the
\* parallelism of the last -P.
THEOREM WordsAreParsed == ParseSpec => []ParsedAsMeant
<1>1. ParseInit => ParseInv
  BY FirstState
<1>2. TypeInv /\ ParseInv /\ [ParseNext]_parseVars => ParseInv'
  BY ParseStep
<1>3. TypeInv /\ ParseInv => ParsedAsMeant
  BY AllDone DEF ParseInv, Going, Parsed, ParsedAsMeant
<1> QED
  BY <1>1, <1>2, <1>3, PlacesInRange, PTL DEF ParseSpec

HIDE CommandLineAssumption DEF CommandLineAssumption

----------------------------------------------------------------------------
(* The sizing of intervals                                                 *)

USE SizingAssumption, IntervalAssumption, BenchInnerAssumption
    DEF SizingAssumption, IntervalAssumption, BenchInnerAssumption

----------------------------------------------------------------------------
(* Arithmetic.                                                             *)

\* Products of natural numbers.
LEMMA TimesNat ==
  ASSUME NEW a \in Nat, NEW b \in Nat
  PROVE  a * b \in Nat
  OBVIOUS

\* Transitivity.
LEMMA Between ==
  ASSUME NEW a \in Int, NEW b \in Int, NEW x \in Int, a <= b, b <= x
  PROVE  a <= x
  OBVIOUS

\* Multiplication keeps the order, and a positive factor can be cancelled.
LEMMA TimesMonotone ==
  ASSUME NEW a \in Int, NEW b \in Int, NEW k \in Nat, a <= b
  PROVE  a * k <= b * k
  OBVIOUS

LEMMA CancelTimes ==
  ASSUME NEW a \in Int, NEW b \in Int, NEW k \in Nat \ {0}, a * k <= b * k
  PROVE  a <= b
  OBVIOUS

LEMMA CancelTimesStrict ==
  ASSUME NEW a \in Int, NEW b \in Int, NEW k \in Nat \ {0}, a * k < b * k
  PROVE  a < b
  OBVIOUS

\* The quotient of a truncating division.
LEMMA DivBounds ==
  ASSUME NEW a \in Nat, NEW k \in Nat \ {0}
  PROVE  /\ a \div k \in Nat
         /\ (a \div k) * k <= a
         /\ a < (a \div k + 1) * k
  OBVIOUS

----------------------------------------------------------------------------
(* A single child keeps what it has measured.                              *)

IntervalInv == TypeOK /\ KeptAsExecuted

\* A child that still measures has room for the value of this interval.
Room == state = "timing_interval" => Len(kept) < Repetitions

\* The time of an interval is a whole number of ticks.
LEMMA ResultIsInt == TypeOK => Result \in Int
<1> SUFFICES ASSUME TypeOK PROVE Result \in Int
  OBVIOUS
<1>1. iterations * cost \in Nat
  BY DEF TypeOK
<1>2. (iterations * cost) \div Scale \in Nat
  BY <1>1
<1> QED
  BY <1>2 DEF Result, Elapsed

\* Scaling, and multiplying by 8, leave at least one iteration.
LEMMA NextIsPositive == TypeOK => NextIterations \in Nat \ {0}
<1> SUFFICES ASSUME TypeOK PROVE NextIterations \in Nat \ {0}
  OBVIOUS
<1>1. iterations \in Nat \ {0} /\ Result \in Int
  BY ResultIsInt DEF TypeOK
<1>2. ASSUME Tellable(Result) PROVE Scaled(iterations, Result) \in Nat \ {0}
  <2>1. 10 * Result \in Nat \ {0}
    BY <1>1, <1>2 DEF Tellable
  <2>2. iterations * 11 * Enough \in Nat
    BY <1>1
  <2>3. (iterations * 11 * Enough) \div (10 * Result) \in Nat
    BY <2>1, <2>2
  <2> QED
    BY <2>3 DEF Scaled
<1> QED
  BY <1>1, <1>2 DEF NextIterations

LEMMA StartsInv == Init => IntervalInv /\ Room
  BY DEF Init, IntervalInv, TypeOK, KeptAsExecuted, Room

LEMMA EndIntervalInv ==
  ASSUME IntervalInv, Room, EndInterval
  PROVE  IntervalInv' /\ Room'
<1>1. /\ Result \in Int /\ NextIterations \in Nat \ {0}
      /\ kept \in Seq([u : Nat, n : Nat \ {0}]) /\ Len(kept) < Repetitions
      /\ UNCHANGED costs /\ cost' \in costs
  BY ResultIsInt, NextIsPositive DEF IntervalInv, TypeOK, Room, EndInterval
<1>2. CASE ~Counted
  <2>1. UNCHANGED kept
    BY <1>2 DEF EndInterval
  <2> QED
    BY <1>1, <2>1 DEF IntervalInv, TypeOK, KeptAsExecuted, Room, EndInterval
<1>3. CASE Counted
  <2>1. Result > 0 /\ Result \in Nat
    BY <1>1, <1>3 DEF Counted
  <2>2. Value \in [u : Nat, n : Nat \ {0}]
    BY <2>1 DEF Value, IntervalInv, TypeOK
  <2>3. kept' = Append(kept, Value)
    BY <1>3 DEF EndInterval
  <2>4. kept' \in Seq([u : Nat, n : Nat \ {0}]) /\ Len(kept') = Len(kept) + 1
    BY <1>1, <2>2, <2>3
  <2>5. KeptAsExecuted'
    <3> SUFFICES ASSUME NEW k \in 1..Len(kept')
                 PROVE  \E c \in costs : kept'[k].u = Elapsed(kept'[k].n, c) - Overhead
      BY <1>1 DEF KeptAsExecuted, Elapsed
    <3>1. CASE k <= Len(kept)
      BY <1>1, <2>3, <2>4, <3>1 DEF IntervalInv, KeptAsExecuted
    <3>2. CASE k = Len(kept) + 1
      BY <1>1, <2>3, <3>2 DEF Value, Result, IntervalInv, TypeOK
    <3> QED
      BY <1>1, <2>4, <3>1, <3>2
  <2>6. Room'
    BY <1>1, <1>3, <2>4 DEF Room, EndInterval, Completed
  <2> QED
    BY <1>1, <2>4, <2>5, <2>6 DEF IntervalInv, TypeOK, EndInterval
<1> QED
  BY <1>2, <1>3

LEMMA StaysInv == IntervalInv /\ Room /\ UNCHANGED vars => IntervalInv' /\ Room'
  BY DEF IntervalInv, TypeOK, KeptAsExecuted, Room, vars

\* Every value that benchmp_interval() keeps is the time of as many iterations
\* as it is kept with, at a cost that the benchmark has; and an interval has at
\* least one iteration.
THEOREM KeptWasMeasured == Spec => []KeptAsExecuted
<1>1. IntervalInv /\ Room /\ [EndInterval]_vars => IntervalInv' /\ Room'
  BY EndIntervalInv, StaysInv
<1>2. Spec => [](IntervalInv /\ Room)
  BY <1>1, StartsInv, PTL DEF Spec
<1> QED
  BY <1>2, PTL DEF IntervalInv
----------------------------------------------------------------------------
(* One scaling is enough.                                                  *)

\* More iterations, or dearer ones, take no less.
LEMMA ElapsedMonotone ==
  ASSUME NEW g \in Nat, NEW c \in Nat, NEW d \in Nat, c <= d
  PROVE  Elapsed(g, c) <= Elapsed(g, d)
<1>1. g * c <= g * d /\ g * c \in Nat /\ g * d \in Nat
  OBVIOUS
<1> DEFINE x == (g * c) \div Scale
           y == (g * d) \div Scale
<1>2. x \in Nat /\ y \in Nat /\ x * Scale <= g * c /\ g * d < (y + 1) * Scale
  BY <1>1, DivBounds
<1> HIDE DEF x, y
<1>3. x * Scale < (y + 1) * Scale
  BY <1>1, <1>2
<1>4. x < y + 1
  BY <1>2, <1>3, CancelTimesStrict
<1> QED
  BY <1>2, <1>4 DEF Elapsed, x, y

\* The margin of a tenth is kept but for the last tick.
LEMMA ScaledIsEnough ==
  ASSUME NEW g \in Nat, NEW c \in Nat, NEW t \in Nat \ {0}, t <= Elapsed(g, c)
  PROVE  11 * Enough < 10 * (Elapsed(Scaled(g, t), c) + 1)
<1> DEFINE q == (g * 11 * Enough) \div (10 * t)
           m == q + 1
           e == Elapsed(m, c)
<1>1. g * 11 * Enough \in Nat /\ 10 * t \in Nat \ {0}
  OBVIOUS
<1>2. q \in Nat /\ g * 11 * Enough < m * (10 * t)
  BY <1>1, DivBounds
<1>3. m \in Nat /\ Scaled(g, t) = m
  BY <1>2 DEF Scaled
<1> HIDE DEF q, m
<1>4. g * c \in Nat /\ m * c \in Nat
  BY <1>3
<1>5. e \in Nat /\ m * c < (e + 1) * Scale
  BY <1>4, DivBounds DEF Elapsed
<1>6. t * Scale <= g * c
  <2>1. Elapsed(g, c) \in Nat /\ Elapsed(g, c) * Scale <= g * c
    BY <1>4, DivBounds DEF Elapsed
  <2>2. t * Scale <= Elapsed(g, c) * Scale
    BY <2>1, TimesMonotone
  <2> QED
    BY <1>4, <2>1, <2>2
<1> HIDE DEF e
<1>7. (t * Scale) * (11 * Enough) <= (g * c) * (11 * Enough)
  BY <1>4, <1>6, TimesMonotone
<1>8. (g * 11 * Enough) * c <= (m * (10 * t)) * c
  BY <1>1, <1>2, <1>3, TimesMonotone
<1>9. (g * c) * (11 * Enough) = (g * 11 * Enough) * c
  OBVIOUS
<1>10. (m * (10 * t)) * c = (10 * (m * c)) * t
  BY <1>3
<1>11. ((11 * Enough) * Scale) * t <= (10 * (m * c)) * t
  <2>1. (t * Scale) * (11 * Enough) = ((11 * Enough) * Scale) * t
    OBVIOUS
  <2>2. (t * Scale) * (11 * Enough) <= (10 * (m * c)) * t
    <3> DEFINE x == (t * Scale) * (11 * Enough)
               y == (g * c) * (11 * Enough)
               z == (10 * (m * c)) * t
    <3>1. x \in Nat /\ y \in Nat /\ z \in Nat
      BY <1>4
    <3>2. x <= y /\ y <= z
      BY <1>7, <1>8, <1>9, <1>10
    <3> HIDE DEF x, y, z
    <3>3. x <= z
      BY <3>1, <3>2, Between
    <3> QED
      BY <3>3 DEF x, z
  <2> QED
    BY <2>1, <2>2
<1>12. (11 * Enough) * Scale <= 10 * (m * c)
  BY <1>4, <1>11, CancelTimes
<1>13. (11 * Enough) * Scale < (10 * (e + 1)) * Scale
  <2>1. 10 * (m * c) < 10 * ((e + 1) * Scale)
    BY <1>4, <1>5
  <2>2. 10 * ((e + 1) * Scale) = (10 * (e + 1)) * Scale
    BY <1>5
  <2> QED
    BY <1>4, <1>5, <1>12, <2>1, <2>2
<1>14. 11 * Enough < 10 * (e + 1)
  BY <1>5, <1>13, CancelTimesStrict
<1> QED
  BY <1>3, <1>14 DEF e

\* If the time of an interval can be told, the next interval is long enough to
\* count, unless an iteration has become cheaper: for every cost, length and
\* limit, provided that the length wanted is large against the overhead and
\* one tick, as the milliseconds of get_enough() are.
THEOREM ScalingSuffices ==
  ASSUME 100 * (Overhead + 1) <= 15 * Enough
  PROVE  Spec => OneScalingIsEnough
<1> DEFINE Suffices == Result > Clear /\ cost' >= cost => 100 * Result' > 95 * Enough
<1>1. ASSUME IntervalInv, EndInterval, Result > Clear, cost' >= cost
      PROVE  100 * Result' > 95 * Enough
  <2>1. /\ iterations \in Nat \ {0} /\ cost \in Nat /\ cost' \in Nat
        /\ Result \in Nat \ {0} /\ Overhead \in Nat /\ Enough \in Nat
        /\ NextIterations \in Nat \ {0} /\ iterations' = NextIterations
    <3>1. cost \in Nat /\ cost' \in Nat
      BY <1>1 DEF IntervalInv, TypeOK, EndInterval
    <3> QED
      BY <1>1, <3>1, ResultIsInt, NextIsPositive DEF IntervalInv, TypeOK, EndInterval
  <2> DEFINE f == Elapsed(iterations, cost)
             g == Elapsed(NextIterations, cost)
             h == Elapsed(NextIterations, cost')
  <2>2. Result = f - Overhead /\ Result' = h - Overhead
    BY <2>1 DEF Result, Elapsed
  <2>3. f \in Nat /\ g \in Nat /\ h \in Nat /\ g <= h
    <3>1. /\ iterations * cost \in Nat /\ NextIterations * cost \in Nat
          /\ NextIterations * cost' \in Nat
      BY <2>1, TimesNat
    <3>2. f \in Nat /\ g \in Nat /\ h \in Nat
      BY <3>1, DivBounds DEF Elapsed
    <3> QED
      BY <1>1, <2>1, <3>2, ElapsedMonotone
  <2>4. CASE ~BadLength(Result)
    <3>1. g = f
      BY <2>4 DEF NextIterations
    <3> HIDE DEF f, g, h
    <3> QED
      BY <2>1, <2>2, <2>3, <2>4, <3>1 DEF BadLength
  <2>5. CASE BadLength(Result)
    <3>1. NextIterations = Scaled(iterations, Result)
      BY <1>1, <2>5 DEF NextIterations, Tellable
    <3>2. 11 * Enough < 10 * (g + 1)
      BY <2>1, <2>2, <2>3, <3>1, ScaledIsEnough
    <3> HIDE DEF f, g, h
    <3> QED
      BY <2>1, <2>2, <2>3, <3>2
  <2> QED
    BY <2>4, <2>5
<1>2. IntervalInv /\ [EndInterval]_vars => [Suffices]_vars
  BY <1>1
<1>3. IntervalInv /\ Room /\ [EndInterval]_vars => IntervalInv' /\ Room'
  BY EndIntervalInv, StaysInv
<1>4. Spec => [](IntervalInv /\ Room)
  BY <1>3, StartsInv, PTL DEF Spec
<1> HIDE DEF Suffices
<1>5. Spec => [][Suffices]_vars
  BY <1>2, <1>4, PTL DEF Spec
<1> QED
  BY <1>5 DEF OneScalingIsEnough, Suffices

----------------------------------------------------------------------------
(* BENCH_INNER.                                                            *)

\* The length wanted is long against a time that can be scaled: 150
\* microseconds against the 5000 of bench.h's SHORT.  With less, the eightfold
\* of an untellable time might already be too long.
LongAgainstClear ==
  /\ Clear >= 1 /\ Enough >= 100
  /\ 10 * (8 * Clear + 7) <= 22 * Enough

\* A number of iterations that is not the least takes no more than 2.2 times the
\* length wanted, of which the resizing then leaves half.
Fits(g, c) == g = 1 \/ 10 * Elapsed(g, c) <= 22 * Enough

WithinTwo(m, g) == m <= 2 * g /\ g <= 2 * m

\* The loop stops with what it has resized, or resizes only what is too short.
SizingInv ==
  /\ InnerTypeOK
  /\ Fits(__iterations, body)
  /\ pc = "save" \/ (pc = "while" /\ ~TooShort(result)) => WithinTwo(__iterations, ran)
  /\ pc = "used" => WithinTwo(saved.n, ran)

\* A time is what it costs, but for the part of a tick.
LEMMA ElapsedBounds ==
  ASSUME NEW g \in Nat, NEW c \in Nat
  PROVE  /\ Elapsed(g, c) \in Nat /\ g * c \in Nat
         /\ Elapsed(g, c) * Scale <= g * c
         /\ g * c < (Elapsed(g, c) + 1) * Scale
<1>1. g * c \in Nat
  BY TimesNat
<1> QED
  BY <1>1, DivBounds DEF Elapsed

\* Fewer iterations take no longer.
LEMMA FewerTakeLess ==
  ASSUME NEW m \in Nat, NEW g \in Nat, NEW c \in Nat, m <= g
  PROVE  Elapsed(m, c) <= Elapsed(g, c)
<1> DEFINE x == Elapsed(m, c)
           y == Elapsed(g, c)
<1>1. /\ x \in Nat /\ y \in Nat /\ m * c \in Nat /\ g * c \in Nat
      /\ x * Scale <= m * c /\ g * c < (y + 1) * Scale
  BY ElapsedBounds
<1>2. m * c <= g * c
  BY TimesMonotone
<1> HIDE DEF x, y
<1>3. x * Scale \in Nat /\ (y + 1) * Scale \in Nat
  BY <1>1, TimesNat
<1>4. x * Scale < (y + 1) * Scale
  BY <1>1, <1>2, <1>3
<1>5. x < y + 1
  BY <1>1, <1>4, CancelTimesStrict
<1> QED
  BY <1>1, <1>5 DEF x, y

----------------------------------------------------------------------------
(* What the two ways to resize do to a steady body.                        *)

\* Eight times a time that cannot be told is not too long.
LEMMA EightfoldFits ==
  ASSUME LongAgainstClear, NEW g \in Nat \ {0}, NEW c \in Nat, Elapsed(g, c) <= Clear
  PROVE  Fits(g * 8, c)
<1> DEFINE t == Elapsed(g, c)
           e == Elapsed(g * 8, c)
<1>1. /\ t \in Nat /\ e \in Nat /\ g * c \in Nat /\ g * c < (t + 1) * Scale
      /\ e * Scale <= (g * 8) * c /\ t <= Clear
  BY ElapsedBounds
<1> HIDE DEF t, e
<1>2. (g * 8) * c = 8 * (g * c)
  OBVIOUS
<1>3. 8 * (g * c) < 8 * ((t + 1) * Scale)
  <2>1. (t + 1) * Scale \in Nat
    BY <1>1, TimesNat
  <2> QED
    BY <1>1, <2>1
<1>4. 8 * ((t + 1) * Scale) = (8 * (t + 1)) * Scale
  BY <1>1
<1>5. e * Scale < (8 * (t + 1)) * Scale
  <2>1. e * Scale \in Nat /\ (8 * (t + 1)) * Scale \in Nat
    BY <1>1, TimesNat
  <2> QED
    BY <1>1, <1>2, <1>3, <1>4, <2>1
<1>6. e < 8 * (t + 1)
  BY <1>1, <1>5, CancelTimesStrict
<1>7. 10 * e <= 22 * Enough
  BY <1>1, <1>6 DEF LongAgainstClear
<1> QED
  BY <1>7 DEF Fits, e

\* A scaling of t, before its rounding up, in the two ways it is needed.
LEMMA ScaledFacts ==
  ASSUME NEW g \in Nat \ {0}, NEW t \in Nat \ {0}, NEW q,
         q = (g * 11 * Enough) \div (10 * t)
  PROVE  /\ q \in Nat /\ Scaled(g, t) = q + 1
         /\ q * (10 * t) <= (11 * g) * Enough
         /\ (11 * g) * Enough < (q + 1) * (10 * t)
<1>1. g * 11 * Enough \in Nat /\ 10 * t \in Nat \ {0} /\ g * 11 * Enough = (11 * g) * Enough
  OBVIOUS
<1> QED
  BY <1>1, DivBounds DEF Scaled

\* A time that is too long is scaled to no more iterations.
LEMMA TooLongIsCut ==
  ASSUME NEW g \in Nat \ {0}, NEW t \in Nat \ {0}, 100 * t > 120 * Enough
  PROVE  Scaled(g, t) \in 1..g
<1> DEFINE q == (g * 11 * Enough) \div (10 * t)
<1>1. q \in Nat /\ Scaled(g, t) = q + 1 /\ q * (10 * t) <= (11 * g) * Enough
  BY ScaledFacts
<1> HIDE DEF q
<1>2. 12 * Enough <= 10 * t
  OBVIOUS
<1>3. (12 * Enough) * q <= (10 * t) * q
  BY <1>1, <1>2, TimesMonotone
<1>4. (12 * q) * Enough <= (11 * g) * Enough
  <2>1. (12 * q) * Enough = (12 * Enough) * q /\ (10 * t) * q = q * (10 * t)
    BY <1>1
  <2>2. (12 * q) * Enough \in Nat /\ q * (10 * t) \in Nat /\ (11 * g) * Enough \in Nat
    BY <1>1, TimesNat
  <2>3. (12 * q) * Enough <= q * (10 * t)
    BY <1>3, <2>1
  <2> QED
    BY <1>1, <2>2, <2>3, Between
<1>5. 12 * q <= 11 * g
  BY <1>1, <1>4, CancelTimes
<1> QED
  BY <1>1, <1>5

\* A time close to the length wanted is scaled to less than twice as many.
LEMMA NearIsNotDoubled ==
  ASSUME NEW g \in Nat \ {0}, NEW t \in Nat \ {0}, 95 * Enough <= 100 * t
  PROVE  Scaled(g, t) <= 2 * g
<1> DEFINE q == (g * 11 * Enough) \div (10 * t)
<1>1. q \in Nat /\ Scaled(g, t) = q + 1 /\ q * (10 * t) <= (11 * g) * Enough
  BY ScaledFacts
<1> HIDE DEF q
<1>2. (95 * Enough) * q <= (100 * t) * q
  BY <1>1, TimesMonotone
<1>3. (95 * q) * Enough <= (110 * g) * Enough
  <2>1. (95 * q) * Enough = (95 * Enough) * q /\ (100 * t) * q = 10 * (q * (10 * t))
        /\ (110 * g) * Enough = 10 * ((11 * g) * Enough)
    BY <1>1
  <2>2. q * (10 * t) \in Nat /\ (11 * g) * Enough \in Nat
    BY <1>1, TimesNat
  <2>3. 10 * (q * (10 * t)) <= 10 * ((11 * g) * Enough)
    BY <1>1, <2>2
  <2>4. (95 * q) * Enough \in Nat /\ (110 * g) * Enough \in Nat
    BY <1>1, TimesNat
  <2>5. (95 * q) * Enough <= 10 * (q * (10 * t))
    BY <1>2, <2>1
  <2> QED
    BY <2>1, <2>2, <2>3, <2>4, <2>5, Between
<1>4. 95 * q <= 110 * g
  BY <1>1, <1>3, CancelTimes
<1> QED
  BY <1>1, <1>4

\* A time of no more than 2.2 times the length wanted is scaled to at least half.
LEMMA NotBelowHalf ==
  ASSUME NEW g \in Nat \ {0}, NEW t \in Nat \ {0}, 10 * t <= 22 * Enough
  PROVE  g <= 2 * Scaled(g, t)
<1> DEFINE q == (g * 11 * Enough) \div (10 * t)
           m == q + 1
<1>0. q \in Nat /\ Scaled(g, t) = q + 1 /\ (11 * g) * Enough < (q + 1) * (10 * t)
  BY ScaledFacts
<1> HIDE DEF q
<1>1. m \in Nat /\ Scaled(g, t) = m /\ (11 * g) * Enough < m * (10 * t)
  BY <1>0
<1> HIDE DEF m
<1>2. (10 * t) * m <= (22 * Enough) * m
  BY <1>1, TimesMonotone
<1>3. (11 * g) * Enough < (22 * m) * Enough
  <2>1. (10 * t) * m = m * (10 * t) /\ (22 * Enough) * m = (22 * m) * Enough
    BY <1>1
  <2>2. (11 * g) * Enough \in Nat /\ m * (10 * t) \in Nat /\ (22 * m) * Enough \in Nat
    BY <1>1, TimesNat
  <2>3. m * (10 * t) <= (22 * m) * Enough
    BY <1>2, <2>1
  <2> QED
    BY <1>1, <2>2, <2>3
<1>4. 11 * g < 22 * m
  BY <1>1, <1>3, CancelTimesStrict
<1> QED
  BY <1>1, <1>4

\* The scaling of a time that is too short gives none that is more than 2.2
\* times the length wanted: one more iteration costs no more than all of them.
LEMMA ShortIsScaledToFit ==
  ASSUME LongAgainstClear, NEW g \in Nat \ {0}, NEW c \in Nat,
         Elapsed(g, c) > Clear, 100 * Elapsed(g, c) < 99 * Enough
  PROVE  Fits(Scaled(g, Elapsed(g, c)), c)
<1> DEFINE t == Elapsed(g, c)
           q == (g * 11 * Enough) \div (10 * t)
           e == Elapsed(q + 1, c)
           w == g * c
<1>1. /\ t \in Nat /\ t >= 2 /\ w \in Nat /\ w < (t + 1) * Scale /\ 100 * t < 99 * Enough
      /\ Enough >= 100 /\ Enough \in Nat
  BY ElapsedBounds DEF LongAgainstClear
<1>2. q \in Nat /\ Scaled(g, t) = q + 1 /\ q * (10 * t) <= (11 * g) * Enough
  <2> HIDE DEF t
  <2>1. t \in Nat \ {0}
    BY <1>1
  <2> QED
    BY <2>1, ScaledFacts
<1> HIDE DEF q
<1>3. e \in Nat /\ e * Scale <= (q + 1) * c
  BY <1>2, ElapsedBounds
<1>4. c <= w
  <2>1. 1 * c <= g * c
    BY TimesMonotone
  <2> QED
    BY <2>1
<1> HIDE DEF t, e
<1>5. (q * (10 * t)) * c <= (11 * Enough) * w
  <2>1. q * (10 * t) \in Nat /\ (11 * g) * Enough \in Nat
    BY <1>1, <1>2, TimesNat
  <2>2. (q * (10 * t)) * c <= ((11 * g) * Enough) * c
    BY <1>2, <2>1, TimesMonotone
  <2>3. ((11 * g) * Enough) * c = (11 * Enough) * w
    OBVIOUS
  <2> QED
    BY <2>2, <2>3
<1> HIDE DEF w
<1>6. (e * (10 * t)) * Scale <= (11 * Enough + 10 * t) * w
  <2>1. e * Scale \in Nat /\ (q + 1) * c \in Nat /\ 10 * t \in Nat
    BY <1>1, <1>2, <1>3, TimesNat
  <2>2. (e * Scale) * (10 * t) <= ((q + 1) * c) * (10 * t)
    BY <1>3, <2>1, TimesMonotone
  <2>3. (e * Scale) * (10 * t) = (e * (10 * t)) * Scale
    BY <1>1, <1>3
  <2>4. ((q + 1) * c) * (10 * t) = (q * (10 * t)) * c + c * (10 * t)
    BY <1>1, <1>2
  <2>5. c * (10 * t) <= w * (10 * t)
    BY <1>1, <1>4, <2>1, TimesMonotone
  <2>6. (11 * Enough + 10 * t) * w = (11 * Enough) * w + w * (10 * t)
    BY <1>1
  <2>7. /\ (q * (10 * t)) * c \in Nat /\ c * (10 * t) \in Nat /\ w * (10 * t) \in Nat
        /\ (11 * Enough) * w \in Nat /\ (e * (10 * t)) * Scale \in Nat
    BY <1>1, <1>2, <1>3, TimesNat
  <2> QED
    BY <1>5, <2>2, <2>3, <2>4, <2>5, <2>6, <2>7
<1>7. e * (10 * t) <= (11 * Enough + 10 * t) * (t + 1)
  <2> DEFINE k == 11 * Enough + 10 * t
  <2>1. k \in Nat
    BY <1>1
  <2> HIDE DEF k
  <2>2. w * k <= ((t + 1) * Scale) * k
    <3>1. (t + 1) * Scale \in Nat
      BY <1>1, TimesNat
    <3> QED
      BY <1>1, <2>1, <3>1, TimesMonotone
  <2>3. ((t + 1) * Scale) * k = (k * (t + 1)) * Scale /\ w * k = k * w
    BY <1>1, <2>1
  <2>4. /\ e * (10 * t) \in Nat /\ k * (t + 1) \in Nat
    BY <1>1, <1>3, <2>1, TimesNat
  <2>5. (e * (10 * t)) * Scale <= (k * (t + 1)) * Scale
    <3>1. /\ (e * (10 * t)) * Scale \in Nat /\ (k * (t + 1)) * Scale \in Nat /\ k * w \in Nat
      BY <1>1, <2>1, <2>4, TimesNat
    <3>2. (e * (10 * t)) * Scale <= k * w
      BY <1>6 DEF k
    <3> QED
      BY <2>2, <2>3, <3>1, <3>2, Between
  <2>6. e * (10 * t) <= k * (t + 1)
    BY <2>4, <2>5, CancelTimes
  <2> QED
    BY <2>6 DEF k
<1>8. 10 * e <= 22 * Enough
  <2> DEFINE y == Enough * t
             s == t * t
             z == e * (10 * t)
  <2>1. y \in Nat /\ s \in Nat /\ z \in Nat
    BY <1>1, <1>3, TimesNat
  <2>2. z <= 11 * y + 11 * Enough + 10 * s + 10 * t
    <3>1. (11 * Enough + 10 * t) * (t + 1) = 11 * y + 11 * Enough + 10 * s + 10 * t
      BY <1>1
    <3> QED
      BY <1>7, <3>1
  <2>3. 100 * s <= 99 * y
    <3>1. (100 * t) * t <= (99 * Enough) * t
      BY <1>1, TimesMonotone
    <3>2. (100 * t) * t = 100 * s /\ (99 * Enough) * t = 99 * y
      BY <1>1
    <3> QED
      BY <3>1, <3>2
  <2>4. 100 * t <= y
    BY <1>1, TimesMonotone
  <2>5. SUFFICES ASSUME 10 * e > 22 * Enough PROVE FALSE
    BY <1>1, <1>3
  <2>6. 22 * y + t <= z
    <3>1. 22 * Enough + 1 <= 10 * e
      BY <1>1, <1>3, <2>5
    <3>2. (22 * Enough + 1) * t <= (10 * e) * t
      BY <1>1, <1>3, <3>1, TimesMonotone
    <3>3. (22 * Enough + 1) * t = 22 * y + t /\ (10 * e) * t = z
      BY <1>1, <1>3
    <3> QED
      BY <3>2, <3>3
  <2>7. CASE t >= 11
    <3>1. 11 * Enough <= y
      <4>1. 11 * Enough <= t * Enough
        BY <1>1, <2>7, TimesMonotone
      <4>2. t * Enough = y
        BY <1>1
      <4> QED
        BY <4>1, <4>2
    <3> HIDE DEF y, s, z
    <3> QED
      BY <1>1, <2>1, <2>2, <2>3, <2>4, <2>6, <3>1
  <2>8. CASE t <= 10
    <3>1. s <= 10 * t
      BY <1>1, <2>8, TimesMonotone
    <3>2. 2 * Enough <= y
      <4>1. 2 * Enough <= t * Enough
        BY <1>1, TimesMonotone
      <4>2. t * Enough = y
        BY <1>1
      <4> QED
        BY <4>1, <4>2
    <3> HIDE DEF y, s, z
    <3> QED
      BY <1>1, <2>1, <2>2, <2>6, <2>8, <3>1, <3>2
  <2> QED
    BY <1>1, <2>7, <2>8
<1> QED
  BY <1>2, <1>8 DEF Fits, e, t

----------------------------------------------------------------------------
(* The loop.                                                               *)

\* Scaling any time that can be told gives a number that fits.
LEMMA ScalingFits ==
  ASSUME LongAgainstClear, NEW g \in Nat \ {0}, NEW c \in Nat, Fits(g, c),
         BadLength(Elapsed(g, c)), Tellable(Elapsed(g, c))
  PROVE  /\ Scaled(g, Elapsed(g, c)) \in Nat \ {0}
         /\ Fits(Scaled(g, Elapsed(g, c)), c)
         /\ ~TooShort(Elapsed(g, c)) => WithinTwo(Scaled(g, Elapsed(g, c)), g)
<1> DEFINE t == Elapsed(g, c)
           m == Scaled(g, t)
<1>1. t \in Nat \ {0} /\ t > Clear
  BY ElapsedBounds DEF Tellable, LongAgainstClear
<1>2. m \in Nat \ {0}
  <2> HIDE DEF t
  <2> DEFINE q == (g * 11 * Enough) \div (10 * t)
  <2>1. q \in Nat /\ m = q + 1
    BY <1>1, ScaledFacts
  <2> HIDE DEF q, m
  <2> QED
    BY <2>1
<1>3. CASE 100 * t < 99 * Enough
  <2>1. Fits(m, c)
    BY <1>1, <1>3, ShortIsScaledToFit
  <2>2. ASSUME ~TooShort(t) PROVE WithinTwo(m, g)
    <3> HIDE DEF t
    <3>1. 95 * Enough <= 100 * t /\ 10 * t <= 22 * Enough
      BY <1>1, <1>3, <2>2 DEF TooShort
    <3> QED
      BY <1>1, <3>1, NearIsNotDoubled, NotBelowHalf DEF WithinTwo
  <2> QED
    BY <1>2, <2>1, <2>2
<1>4. CASE 100 * t > 120 * Enough
  <2>1. m \in 1..g
    <3> HIDE DEF t
    <3> QED
      BY <1>1, <1>4, TooLongIsCut
  <2>2. CASE g = 1
    BY <1>2, <2>1, <2>2 DEF Fits, WithinTwo
  <2>3. CASE g # 1
    <3>1. 10 * t <= 22 * Enough
      BY <2>3 DEF Fits
    <3>2. Elapsed(m, c) <= t /\ Elapsed(m, c) \in Nat
      <4> HIDE DEF m
      <4>1. m \in Nat /\ m <= g
        BY <2>1
      <4>2. Elapsed(m, c) <= Elapsed(g, c)
        BY <4>1, FewerTakeLess
      <4>3. Elapsed(m, c) \in Nat
        BY <4>1, ElapsedBounds
      <4> QED
        BY <4>2, <4>3
    <3>3. Fits(m, c)
      <4> HIDE DEF t, m
      <4> QED
        BY <1>1, <3>1, <3>2 DEF Fits
    <3>4. g <= 2 * m
      <4> HIDE DEF t
      <4> QED
        BY <1>1, <3>1, NotBelowHalf
    <3>5. WithinTwo(m, g)
      <4> HIDE DEF m
      <4> QED
        BY <2>1, <3>4 DEF WithinTwo
    <3> QED
      BY <1>2, <3>3, <3>5
  <2> QED
    BY <2>2, <2>3
<1>5. 100 * t < 99 * Enough \/ 100 * t > 120 * Enough
  BY DEF BadLength
<1> QED
  BY <1>3, <1>4, <1>5

\* The first use of the macro starts with one iteration.
LEMMA InitInv == InnerInit => SizingInv
  BY DEF InnerInit, SizingInv, InnerTypeOK, Fits, TooShort

\* A pass that ends the loop has not resized by more than two.
LEMMA PassInv ==
  ASSUME LongAgainstClear, SizingInv, Pass
  PROVE  SizingInv'
<1> DEFINE t == Elapsed(__iterations, body)
<1>1. /\ pc = "while" /\ ran' = __iterations /\ UNCHANGED <<body, saved>>
      /\ __iterations \in Nat \ {0} /\ body \in Nat /\ body \in Costs
      /\ saved \in [u : Nat, n : Nat \ {0}]
      /\ Fits(__iterations, body)
  BY DEF Pass, SizingInv, InnerTypeOK
<1>2. t \in Nat
  BY <1>1, ElapsedBounds
<1>3. CASE ~BadLength(t) /\ result' = t /\ UNCHANGED <<__iterations, pc>>
  <2>1. WithinTwo(__iterations, __iterations)
    BY <1>1 DEF WithinTwo
  <2> HIDE DEF t
  <2> QED
    BY <1>1, <1>2, <1>3, <2>1 DEF SizingInv, InnerTypeOK
<1>4. CASE /\ BadLength(t) /\ Tellable(t) /\ result' = t
           /\ __iterations' = Scaled(__iterations, t) /\ UNCHANGED pc
  <2>1. /\ Scaled(__iterations, t) \in Nat \ {0} /\ Fits(Scaled(__iterations, t), body)
        /\ ~TooShort(t) => WithinTwo(Scaled(__iterations, t), __iterations)
    BY <1>1, <1>4, ScalingFits
  <2> HIDE DEF t
  <2> QED
    BY <1>1, <1>2, <1>4, <2>1 DEF SizingInv, InnerTypeOK
<1>5. CASE result' = 0 /\ pc' = "save" /\ UNCHANGED __iterations
  <2>1. WithinTwo(__iterations, __iterations)
    BY <1>1 DEF WithinTwo
  <2> QED
    BY <1>1, <1>5, <2>1 DEF SizingInv, InnerTypeOK
<1>6. CASE /\ ~Tellable(t) /\ result' = t /\ __iterations' = __iterations * 8 /\ UNCHANGED pc
  <2>1. t <= Clear
    BY <1>2, <1>6 DEF Tellable
  <2>2. Fits(__iterations * 8, body)
    BY <1>1, <2>1, EightfoldFits
  <2>3. __iterations * 8 \in Nat \ {0}
    BY <1>1
  <2> HIDE DEF t
  <2>4. TooShort(t)
    BY <1>2, <2>1 DEF TooShort, LongAgainstClear
  <2> QED
    BY <1>1, <1>2, <1>6, <2>2, <2>3, <2>4 DEF SizingInv, InnerTypeOK
<1> HIDE DEF t
<1>7. \/ ~BadLength(t) /\ result' = t /\ UNCHANGED <<__iterations, pc>>
      \/ /\ BadLength(t) /\ Tellable(t) /\ result' = t
         /\ __iterations' = Scaled(__iterations, t) /\ UNCHANGED pc
      \/ result' = 0 /\ pc' = "save" /\ UNCHANGED __iterations
      \/ ~Tellable(t) /\ result' = t /\ __iterations' = __iterations * 8 /\ UNCHANGED pc
  BY DEF Pass, t
<1> QED
  BY <1>3, <1>4, <1>5, <1>6, <1>7

\* What is saved is the number of iterations that the loop left.
LEMMA SaveInv ==
  ASSUME SizingInv, Save
  PROVE  SizingInv'
  BY DEF Save, SizingInv, InnerTypeOK

\* The next use keeps the number of iterations.
LEMMA AgainInv ==
  ASSUME SizingInv, Again
  PROVE  SizingInv'
<1>1. TooShort(0)
  BY DEF TooShort
<1> QED
  BY <1>1 DEF Again, SizingInv, InnerTypeOK

\* get_n() is never more than twice, or less than half, of how often the macro
\* ran a steady body in the time that gettime() gives: whatever one iteration
\* costs, and however often the macro is used.
THEOREM NeverFarOff ==
  ASSUME LongAgainstClear
  PROVE  InnerSpec => []GetNWithinTwo
<1>1. SizingInv /\ [Next]_inner_vars => SizingInv'
  <2>1. SizingInv /\ UNCHANGED inner_vars => SizingInv'
    BY DEF SizingInv, InnerTypeOK, inner_vars
  <2> QED
    BY <2>1, PassInv, SaveInv, AgainInv DEF Next
<1>2. SizingInv => GetNWithinTwo
  BY DEF SizingInv, GetNWithinTwo, WithinTwo
<1> QED
  BY <1>1, <1>2, InitInv, PTL DEF InnerSpec
=============================================================================
