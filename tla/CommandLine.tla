---------------------------- MODULE CommandLine ----------------------------
(***************************************************************************)
(* From the arguments of a program to its benchmark: getopt(), the switch  *)
(* in main(), and what main() asks of the operands.  A word of the command *)
(* line is a sequence of characters; "w" stands for a name that the        *)
(* program knows, and a number has one digit.                              *)
(***************************************************************************)
EXTENDS Integers, Sequences, SequencesExt

CONSTANTS
  Names,          \* the programs
  CommandLines    \* sequences of words, without the name of the program

VARIABLES
  program, args,
  at,         \* "start", "parse", "operands", "run", "ended", and "usage" for
              \* every refusal
  optind, n,  \* n counts the letters of a word from 1, as getopt() does
  parallel

parseVars == <<program, args, at, optind, n, parallel>>

-----------------------------------------------------------------------------
(* The programs.  `flags' and `values' are the letters of the string that  *)
(* getopt() gets, without and with a colon; `uncased' those that have no   *)
(* case; `checked' those whose argument may be refused, `ends' those after *)
(* which the program ends, and `alone' those that are only looked for when *)
(* there is one argument, before getopt() is called.  The operands are     *)
(* least to most; number `choice' has to be a known name and number `size' *)
(* great enough, for which any number but 0 stands.                        *)
Many == 99
Plain == [flags |-> {}, values |-> {"P", "W", "N"}, checked |-> {"P"}, uncased |-> {},
          ends |-> {}, alone |-> {}, least |-> 0, most |-> 0, choice |-> 0, size |-> 0]
Serving == [Plain EXCEPT !.flags = {"s"}, !.values = @ \union {"S", "m"}, !.ends = {"s", "S"},
                         !.least = 1, !.most = 1]
Uncounted == [Plain EXCEPT !.values = {"W", "N"}, !.checked = {}, !.most = Many]

bw_file_rd == [Plain EXCEPT !.flags = {"C"}, !.least = 3, !.most = 3, !.choice = 2, !.size = 1]
bw_mem == [Plain EXCEPT !.least = 2, !.most = 3, !.choice = 2, !.size = 1]
bw_mmap_rd == [Plain EXCEPT !.flags = {"C"}, !.least = 3, !.most = 3, !.choice = 2, !.size = 1]
bw_pipe == [Plain EXCEPT !.values = @ \union {"m", "M"}]
bw_tcp == [Serving EXCEPT !.values = @ \union {"M"}, !.most = 2]
bw_udp == [Serving EXCEPT !.values = @ \ {"P"}, !.checked = {}, !.most = 2]
bw_unix == [Plain EXCEPT !.values = @ \union {"m", "M"}, !.most = 1]
cache == [Uncounted EXCEPT !.flags = {"c"}, !.values = @ \union {"L", "M"}]
lat_cmd == [Plain EXCEPT !.least = 1, !.most = Many]
lat_connect == [Plain EXCEPT !.flags = {"s", "S"}, !.ends = {"s", "S"}, !.uncased = {"P", "W"},
                             !.checked = {}, !.least = 1, !.most = 1]
lat_ctx == [Plain EXCEPT !.values = @ \union {"s"}, !.least = 1, !.most = Many]
lat_dram_page == [Uncounted EXCEPT !.flags = {"a", "v"}, !.uncased = {"a"},
                                   !.values = @ \union {"L", "T", "M"}]
lat_fcntl == [Plain EXCEPT !.most = Many]
lat_fifo == Plain
lat_fs == [Plain EXCEPT !.values = @ \union {"s", "n"}, !.most = 1]
lat_http == [Uncounted EXCEPT !.flags = {"d", "e", "S"}, !.values = {}, !.least = 1, !.most = 2]
lat_mem_rd == [Plain EXCEPT !.flags = {"t"}, !.least = 1, !.most = Many]
lat_mmap == [Plain EXCEPT !.flags = {"r", "C"}, !.least = 2, !.most = 2, !.size = 1]
lat_ops == [Plain EXCEPT !.most = Many]
lat_pagefault == [Plain EXCEPT !.flags = {"C"}, !.least = 1, !.most = 1]
lat_pipe == Plain
lat_pmake == [Plain EXCEPT !.least = 2, !.most = Many]
lat_proc == [Plain EXCEPT !.least = 1, !.most = 1, !.choice = 1]
lat_rand == Plain
lat_rpc == [Serving EXCEPT !.values = @ \union {"p"}]
lat_select == [Plain EXCEPT !.values = @ \union {"n"}, !.least = 1, !.most = 1, !.choice = 1]
lat_sem == Plain
lat_sig == [Plain EXCEPT !.least = 1, !.most = 2, !.choice = 1]
lat_syscall == [Plain EXCEPT !.least = 1, !.most = 2, !.choice = 1]
lat_tcp == Serving
lat_udp == [Serving EXCEPT !.checked = {"P", "m"}]
lat_unix == [Plain EXCEPT !.values = @ \union {"m"}]
lat_unix_connect == [Plain EXCEPT !.alone = {"s", "S"}]
lat_usleep == [Uncounted EXCEPT !.flags = {"r"}, !.values = @ \union {"u"}, !.checked = {"u"},
                                !.least = 1, !.most = 1]
line == [Uncounted EXCEPT !.flags = {"a", "v"}, !.uncased = {"a"}, !.values = @ \union {"M"}]
mhz == [Uncounted EXCEPT !.flags = {"c", "d"}, !.values = {}]
par_mem == [Uncounted EXCEPT !.flags = {"c"}, !.values = @ \union {"L", "M"}]
par_ops == Uncounted
stream == [Plain EXCEPT !.values = @ \union {"v", "M"}, !.checked = {"P", "v"}, !.most = Many]
tlb == [Uncounted EXCEPT !.flags = {"c"}, !.values = @ \union {"L", "M"}]

Rows ==
  [bw_file_rd |-> bw_file_rd, bw_mem |-> bw_mem, bw_mmap_rd |-> bw_mmap_rd,
   bw_pipe |-> bw_pipe, bw_tcp |-> bw_tcp, bw_udp |-> bw_udp, bw_unix |-> bw_unix,
   cache |-> cache, lat_cmd |-> lat_cmd, lat_connect |-> lat_connect, lat_ctx |-> lat_ctx,
   lat_dram_page |-> lat_dram_page, lat_fcntl |-> lat_fcntl, lat_fifo |-> lat_fifo,
   lat_fs |-> lat_fs, lat_http |-> lat_http, lat_mem_rd |-> lat_mem_rd, lat_mmap |-> lat_mmap,
   lat_ops |-> lat_ops, lat_pagefault |-> lat_pagefault, lat_pipe |-> lat_pipe,
   lat_pmake |-> lat_pmake, lat_proc |-> lat_proc, lat_rand |-> lat_rand, lat_rpc |-> lat_rpc,
   lat_select |-> lat_select, lat_sem |-> lat_sem, lat_sig |-> lat_sig,
   lat_syscall |-> lat_syscall, lat_tcp |-> lat_tcp, lat_udp |-> lat_udp,
   lat_unix |-> lat_unix, lat_unix_connect |-> lat_unix_connect, lat_usleep |-> lat_usleep,
   line |-> line, mhz |-> mhz, par_mem |-> par_mem, par_ops |-> par_ops, stream |-> stream,
   tlb |-> tlb]

Row == Rows[program]

ASSUME CommandLineAssumption ==
  /\ Names \subseteq DOMAIN Rows
  /\ \A c \in CommandLines : c \in Seq(Seq(STRING))

-----------------------------------------------------------------------------
(* getopt()                                                                *)

IsOption(w) == Len(w) >= 2 /\ w[1] = "-"

Word == args[optind]
Letter == Word[n + 1]
Cozy == SubSeq(Word, n + 2, Len(Word))

(* There is no next word, or it begins with a dash.                        *)
NoNext == IF optind = Len(args) THEN TRUE
          ELSE args[optind + 1] # <<>> /\ args[optind + 1][1] = "-"

(* atoi()                                                                  *)
Digits == [d \in {"0", "2", "4"} |-> CASE d = "0" -> 0 [] d = "2" -> 2 [] d = "4" -> 4]
atoi(w) ==
  IF w # <<>> /\ w[1] \in DOMAIN Digits THEN Digits[w[1]]
  ELSE IF Len(w) >= 2 /\ w[1] = "-" /\ w[2] \in DOMAIN Digits THEN 0 - Digits[w[2]]
  ELSE 0

(* What the cases that check their argument accept.  lat_udp compares the  *)
(* length with sizeof(int), that is as an unsigned number.                 *)
Accepts(letter, w) ==
  CASE letter = "P" -> atoi(w) > 0
    [] letter = "m" -> atoi(w) < 0 \/ atoi(w) >= 4
    [] letter = "v" -> atoi(w) \in {1, 2}
    [] letter = "u" -> w = <<"w">>

(* The switch.                                                             *)
Case(letter, w) ==
  IF letter \in Row.uncased \/ (letter \in Row.checked /\ ~Accepts(letter, w))
  THEN at' = "usage" /\ UNCHANGED parallel
  ELSE /\ at' = IF letter \in Row.ends THEN "ended" ELSE "parse"
       /\ parallel' = IF letter = "P" THEN atoi(w) ELSE parallel

ParseInit ==
  /\ program \in Names /\ args \in CommandLines
  /\ at = "start" /\ optind = 1 /\ n = 1 /\ parallel = 1

(* lat_unix_connect looks for a lone -s or -S.                             *)
Start ==
  /\ at = "start"
  /\ at' = IF Len(args) = 1 /\ \E l \in Row.alone : args[1] = <<"-", l>>
           THEN "ended" ELSE "parse"
  /\ UNCHANGED <<program, args, optind, n, parallel>>

AtOption == optind \in {k \in 1..Len(args) : IsOption(args[k])}
InOption == at = "parse" /\ AtOption

Unknown ==
  /\ InOption /\ Letter \notin Row.flags \union Row.values
  /\ at' = "usage" /\ UNCHANGED <<program, args, optind, n, parallel>>

NextLetter ==
  IF n + 1 < Len(Word) THEN n' = n + 1 /\ UNCHANGED optind
  ELSE optind' = optind + 1 /\ n' = 1

Flag ==
  /\ InOption /\ Letter \in Row.flags
  /\ NextLetter /\ Case(Letter, <<>>) /\ UNCHANGED <<program, args>>

ArgumentStays == optind + 1

(* Where getopt() goes on after an argument that is the next word.         *)
PastArgument == optind + 2

(* The argument is the rest of the word, or else the next word.            *)
ValueOption ==
  /\ InOption /\ Letter \in Row.values
  /\ \/ /\ Cozy # <<>>
        /\ optind' = optind + 1 /\ n' = 1 /\ Case(Letter, Cozy)
     \/ /\ Cozy = <<>> /\ ~NoNext
        /\ optind' = PastArgument /\ n' = 1 /\ Case(Letter, args[optind + 1])
     \/ /\ Cozy = <<>> /\ NoNext /\ at' = "usage" /\ UNCHANGED <<optind, n, parallel>>
  /\ UNCHANGED <<program, args>>

EndOfOptions ==
  /\ at = "parse" /\ ~AtOption
  /\ at' = "operands"
  /\ UNCHANGED <<program, args, optind, n, parallel>>

(* What main() asks of the operands before it calls benchmp().             *)
Count == Len(args) - optind + 1
Operand(k) == args[optind + k - 1]

Operands ==
  /\ at = "operands"
  /\ at' = IF /\ Row.least <= Count /\ Count <= Row.most
              /\ Row.choice # 0 => Operand(Row.choice) = <<"w">>
              /\ Row.size # 0 => atoi(Operand(Row.size)) > 0
           THEN "run" ELSE "usage"
  /\ UNCHANGED <<program, args, optind, n, parallel>>

ParseNext == Start \/ Unknown \/ Flag \/ ValueOption \/ EndOfOptions \/ Operands
ParseSpec == ParseInit /\ [][ParseNext]_parseVars
-----------------------------------------------------------------------------
(* Properties                                                              *)

(* The words of a command line as its manual means them: a word of         *)
(* options, whose last letter but one or last letter may take the rest or  *)
(* the next word, until the first word that is none.  The places where a   *)
(* word begins are those that cannot be left out.                          *)
TakesAt(w) == {j \in 2..Len(w) : w[j] \in Row.values /\ \A i \in 2..j-1 : w[i] \in Row.flags}
TakesNext(w) == \E j \in TakesAt(w) : j = Len(w)
After(k) == IF TakesNext(args[k]) THEN k + 2 ELSE k + 1

Places == 1..Len(args)+2
IsOptionAt(k) == k <= Len(args) /\ IsOption(args[k])
Closed(B) == 1 \in B /\ \A k \in B : IsOptionAt(k) => After(k) \in B
Begins == {k \in Places : \A B \in SUBSET Places : Closed(B) => k \in B}
OptionWords == {k \in Begins : IsOptionAt(k)}

Asks(k) == \E j \in TakesAt(args[k]) : args[k][j] = "P"
Ps == {k \in OptionWords : Asks(k)}
Latest(S) == CHOOSE k \in S : \A m \in S : m <= k
ArgumentOf(k) ==
  LET j == Latest(TakesAt(args[k]))
  IN  IF j = Len(args[k]) THEN args[k + 1] ELSE SubSeq(args[k], j + 1, Len(args[k]))

(* What a program runs with is what the words say, however they are        *)
(* bundled: the operands begin after the last word of options, and the     *)
(* parallelism is that of the last -P.                                     *)
ParsedAsMeant ==
  at = "run" =>
    /\ optind = IF OptionWords = {} THEN 1 ELSE After(Latest(OptionWords))
    /\ parallel = IF Ps = {} THEN 1 ELSE atoi(ArgumentOf(Latest(Ps)))

(* benchmp() is only called with at least one child, as it assumes:        *)
(* without any, its parent would wait for nobody and report no time.       *)
ParallelIsPositive == at = "run" => parallel >= 1
=============================================================================
