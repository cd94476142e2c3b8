------------------------------- MODULE Walks -------------------------------
(***************************************************************************)
(* The walks through memory of lib_mem.c, lat_dram_page.c and cache.c: a   *)
(* layout writes pointers into a block of memory so that following them    *)
(* from state->p[0] goes once through all of it and comes back.  line_test *)
(* and measure() then cut the walk short, and put it together again.       *)
(*                                                                         *)
(* Addresses count words of the size of a pointer.  The order of the pages *)
(* is any; a later pointer overwrites an earlier one.                      *)
(***************************************************************************)
EXTENDS Naturals, Sequences, FiniteSets, Functions

CONSTANTS
  PageSize,    \* in words: a power of two
  LineSizes,   \* in words: what state->line may be
  MaxLen,      \* the greatest state->len
  TlbPages,    \* how many pages find_tlb may ask for
  PageOrders   \* orders of pages: sequences of page numbers

(* 1 << n                                                                  *)
Pow2[n \in Nat] == IF n = 0 THEN 1 ELSE 2 * Pow2[n - 1]

IsPowerOfTwo(n) == n \in Nat /\ \E b \in 0..n : n = Pow2[b]

ASSUME WalksAssumption ==
  /\ IsPowerOfTwo(PageSize)
  /\ \A l \in LineSizes : IsPowerOfTwo(l) /\ l <= PageSize
  /\ MaxLen \in Nat /\ TlbPages \subseteq Nat \ {0}
  /\ \A o \in PageOrders : o \in Seq(Nat) /\ IsInjective(o)

VARIABLES
  layout, len, line, pages, group,
  npages, nlines, nwords,
  mem,     \* what each word points to
  start,   \* state->p[0]
  cut,     \* lines of the last page, and pages, that the walk is cut to
  phase

vars == <<layout, len, line, pages, group, npages, nlines, nwords, mem, start, cut, phase>>
inputs == <<layout, len, line, pages, group, npages, nlines, nwords>>

-----------------------------------------------------------------------------
(* words_initialize: the numbers below max with their bits reversed, as    *)
(* many bits as max - 1 has if max is a power of two.                      *)
Bits(max) == CHOOSE b \in 0..max : Pow2[b] <= max /\ max < Pow2[b + 1]
Bit(i, j) == (i \div Pow2[j]) % 2
Reversed(i, nbits) ==
  CHOOSE r \in 0..Pow2[nbits]-1 : \A j \in 0..nbits-1 : Bit(r, nbits - j - 1) = Bit(i, j)
words_initialize(max, scale) ==
  LET nbits == Bits(max) IN [i \in 0..max-1 |-> scale * Reversed(i, nbits)]

(* The pointers that a loop writes are a function of its counters, in the  *)
(* order of the loop: the first counter is that of the outer loop.         *)
Loop(a, b, c) == (0..a-1) \X (0..b-1) \X (0..c-1)
After(s, t) ==
  \/ s[1] > t[1]
  \/ s[1] = t[1] /\ s[2] > t[2]
  \/ s[1] = t[1] /\ s[2] = t[2] /\ s[3] > t[3]

Store(m, writes) ==
  LET all == {<<s, writes[s]>> : s \in DOMAIN writes}
      To(a) == {w \in all : w[2][1] = a}
      Last(S) == CHOOSE w \in S : \A v \in S : v = w \/ After(w[1], v[1])
  IN  [a \in DOMAIN m \union {w[2][1] : w \in all} |->
         IF To(a) = {} THEN m[a] ELSE Last(To(a))[2][2]]

Page(i) == pages[i + 1] * PageSize
Ceil(a, b) == (a + b - 1) \div b

-----------------------------------------------------------------------------
(* The layouts, as what their loops write                                  *)

Stride ==
  LET n == Ceil(len, line)
  IN  [s \in Loop(n, 1, 1) |-> <<s[1] * line, IF s[1] < n - 1 THEN (s[1] + 1) * line ELSE 0>>]

(* len is not a number of pages: one run through the words.                *)
ThrashWords ==
  LET n == len \div line
      w == words_initialize(n, line)
  IN  [s \in Loop(n, 1, 1) |-> <<w[s[1]], IF s[1] < n - 1 THEN w[s[1] + 1] ELSE 0>>]

SamePage ==
  LET n == PageSize \div line
      w == words_initialize(n, line)
      From(i, j) == Page(i) + w[(i + j) % n]
      To(i, j) == IF i < npages - 1 THEN Page(i + 1) + w[(i + j + 1) % n]
                                    ELSE Page(0) + w[(i + j + 1) % n]
  IN  [s \in Loop(npages, n, 1) |-> <<From(s[1], s[2]), To(s[1], s[2])>>]

(* A different page every time, and a different word on it.                *)
ThrashPages ==
  LET n == PageSize \div line
      w == words_initialize(n, line)
      From(i, j) == Page(i) + w[(i + j) % n]
      To(i, j) == IF i < npages - 1 THEN Page(i + 1) + w[(i + j + 1) % n]
                                    ELSE Page(0) + w[(j + 1) % n]
  IN  [s \in Loop(npages, n, 1) |-> <<From(s[1], s[2]), To(s[1], s[2])>>]

Thrash == IF len % PageSize # 0 THEN ThrashWords ELSE ThrashPages

Lines == words_initialize(nlines, line)
Words == words_initialize(nwords, 1)

(* mem_initialize.  Its counter l is raised with j only, and not from one  *)
(* page to the next.  On the last line of a page it goes on to the next.   *)
Less(a, b) == IF a < b THEN a ELSE b
Minus(a, b) == IF a < b THEN 0 ELSE a - b
LastLine(i) ==
  LET all == Minus(len \div line, 1)
  IN  Less(nlines - 1, all - Less(i * (nlines - 1), all))

Mem ==
  LET lines == Lines
      words == Words
      On(i, j, k) == <<Page(i) + lines[j] + k, Page(i) + lines[j + 1] + k>>
      Off(i, j, k) ==
        <<Page(i) + lines[j] + words[k],
          IF i < npages - 1 THEN Page(i + 1) + lines[0] + words[k]
          ELSE Page(0) + lines[0] + words[(k + 1) % nwords]>>
  IN  [s \in {t \in Loop(npages, nlines, nwords) : t[2] <= LastLine(t[1])} |->
         IF s[2] < LastLine(s[1]) THEN On(s[1], s[2], s[3]) ELSE Off(s[1], s[2], s[3])]

(* line_initialize: the first word of each line.                           *)
Line ==
  LET lines == Lines
  IN  [s \in Loop(npages, nlines, 1) |->
         <<Page(s[1]) + lines[s[2]],
           IF s[2] < nlines - 1 THEN Page(s[1]) + lines[s[2] + 1]
           ELSE Page(IF s[1] < npages - 1 THEN s[1] + 1 ELSE 0) + lines[0]>>]

TlbShort ==
  LET w == words_initialize(PageSize, 1)
  IN  [s \in Loop(npages, 1, 1) |->
         <<Page(s[1]) + w[s[1] % PageSize],
           IF s[1] + 1 < npages - 1 THEN Page(s[1] + 1) + w[(s[1] + 1) % PageSize]
           ELSE Page(0) + w[0]>>]

(* tlb_initialize: one word of each page; the first page stays first.      *)
Tlb ==
  LET w == words_initialize(PageSize, 1)
  IN  [s \in Loop(npages, 1, 1) |->
         <<Page(s[1]) + w[s[1] % PageSize],
           IF s[1] < npages - 1 THEN Page(s[1] + 1) + w[(s[1] + 1) % PageSize]
           ELSE Page(0) + w[0]>>]

(* regroup: within a group of pages, the same line of each page in turn.   *)
(* A group reads and writes its own pages only.                            *)
GroupFirst(i) == (i \div group) * group
GroupLast(i) == Less(GroupFirst(i) + group, npages) - 1
Stays(m, i, j) ==
  Page(i) + j \in DOMAIN m /\ m[Page(i) + j] \in Page(i)..Page(i)+PageSize-1
Regroup(m) ==
  [s \in {t \in Loop(npages, PageSize, 1) :
            \/ t[1] < GroupLast(t[1])
            \/ t[1] > GroupFirst(t[1]) /\ Stays(m, t[1], t[2])} |->
     <<Page(s[1]) + s[2],
       IF s[1] < GroupLast(s[1]) THEN Page(s[1] + 1) + s[2]
       ELSE Page(GroupFirst(s[1])) + m[Page(s[1]) + s[2]] - Page(s[1])>>]

(* dram_page_initialize                                                    *)
NoMemory == [a \in {} |-> 0]
DramPage == LET m == Store(NoMemory, Mem) IN Store(m, Regroup(m))

-----------------------------------------------------------------------------
Layouts == {"stride", "thrash", "mem", "line", "tlb", "dram"}

Laid(l) ==
  CASE l = "stride" -> Store(NoMemory, Stride)
    [] l = "thrash" -> Store(NoMemory, Thrash)
    [] l = "mem"    -> Store(NoMemory, Mem)
    [] l = "line"   -> Store(NoMemory, Line)
    [] l = "tlb"    -> Store(NoMemory, Tlb)
    [] l = "dram"   -> DramPage

(* lat_dram_page goes from state->base.                                    *)
First(l) ==
  CASE l = "stride" -> 0
    [] l = "thrash" -> IF len % PageSize # 0 THEN 0 ELSE Page(0)
    [] l = "dram"   -> 0
    [] OTHER        -> Page(0)

Init ==
  /\ layout \in Layouts /\ line \in LineSizes
  /\ len \in IF layout = "tlb" THEN {n * PageSize : n \in TlbPages} ELSE 1..MaxLen
  /\ group \in IF layout = "dram" THEN 1..3 ELSE {1}
  /\ layout = "tlb" => line = 1
  /\ layout \in {"stride", "thrash"} => len >= line
  /\ layout \in {"mem", "dram", "line"} => len >= 2 * line
  /\ nwords = line /\ nlines = PageSize \div line /\ npages = Ceil(len, PageSize)
  /\ pages \in {o \in PageOrders : Len(o) = npages
                                    /\ (layout = "tlb" => o[1] = 0)
                                    /\ (layout = "dram" => Range(o) = 0..npages-1)}
  /\ mem = NoMemory /\ start = 0 /\ cut = <<0, 0>> /\ phase = "new"

Initialize ==
  /\ phase = "new" /\ phase' = "laid"
  /\ mem' = Laid(layout) /\ start' = First(layout)
  /\ UNCHANGED <<inputs, cut>>

(* line_test: the lines of every page are cut to those that begin a longer *)
(* line, and afterwards the last of them is set back.                      *)
CutLines(n) ==
  [s \in Loop(npages, 1, 1) |->
     <<Page(s[1]) + Lines[n - 1], Page(IF s[1] < npages - 1 THEN s[1] + 1 ELSE 0) + Lines[0]>>]
MendLines(n) ==
  [s \in Loop(npages, 1, 1) |-> <<Page(s[1]) + Lines[n - 1], Page(s[1]) + Lines[n]>>]

LineTest ==
  /\ phase = "laid" /\ layout = "line" /\ phase' = "cut"
  /\ \E l \in LineSizes :
       /\ l >= line
       /\ LET n == PageSize \div l
          IN  /\ cut' = <<n, npages>>
              /\ mem' = IF n < nlines THEN Store(mem, CutLines(n)) ELSE mem
  /\ UNCHANGED <<inputs, start>>

FixupPath ==
  /\ phase = "cut" /\ layout = "line" /\ phase' = "laid"
  /\ mem' = IF cut[1] < nlines THEN Store(mem, MendLines(cut[1])) ELSE mem
  /\ cut' = <<0, 0>>
  /\ UNCHANGED <<inputs, start>>

(* remove_chunk and fixup_chunk of cache.c swap pages between the measures;*)
(* which pages they choose is not said here.                               *)
SwapPages ==
  /\ phase = "laid" /\ layout = "mem" /\ len % PageSize = 0
  /\ \E i, j \in 1..npages :
       /\ i < j
       /\ pages' = [pages EXCEPT ![i] = pages[j], ![j] = pages[i]]
  /\ cut' = <<nlines, npages>>
  /\ UNCHANGED <<layout, len, line, group, npages, nlines, nwords, mem, start, phase>>

(* measure(size): the walk is cut to the pages and the lines of size.      *)
CutSize(np, n) ==
  LET lines == Lines
      words == Words
  IN  [s \in Loop(np, nwords, 1) |->
         IF s[1] < np - 1
         THEN <<Page(s[1]) + lines[nlines - 1] + words[s[2]],
                Page(s[1] + 1) + lines[0] + words[s[2]]>>
         ELSE <<Page(np - 1) + lines[n - 1] + words[s[2]],
                Page(0) + lines[0] + words[(s[2] + 1) % nwords]>>]

MendSize(np, n) ==
  [s \in {t \in Loop(1, nwords, 1) : n < nlines} |->
     <<Page(np - 1) + Lines[n - 1] + Words[s[2]], Page(np - 1) + Lines[n] + Words[s[2]]>>]

Measure ==
  /\ phase = "laid" /\ layout = "mem" /\ len % PageSize = 0 /\ phase' = "cut"
  /\ \E size \in {s \in 1..len : s % line = 0} :
       LET np == Ceil(size, PageSize)
           n == IF size % PageSize = 0 THEN nlines ELSE (size % PageSize) \div line
       IN  cut' = <<n, np>> /\ mem' = Store(mem, CutSize(np, n)) /\ start' = Page(0)
  /\ UNCHANGED inputs

MeasureEnds ==
  /\ phase = "cut" /\ layout = "mem" /\ phase' = "laid"
  /\ mem' = Store(mem, MendSize(cut[2], cut[1]))
  /\ cut' = cut
  /\ UNCHANGED <<inputs, start>>

Next == Initialize \/ LineTest \/ FixupPath \/ SwapPages \/ Measure \/ MeasureEnds
Spec == Init /\ [][Next]_vars
-----------------------------------------------------------------------------
(* Properties                                                              *)

(* Where the benchmark is after n loads.                                   *)
Walk(n) == LET f[i \in 0..n] == IF i = 0 THEN start ELSE mem[f[i - 1]] IN f

Multiples(n, k) == {i * k : i \in 0..(n \div k - 1)}
OnPages(n, offsets) == {Page(i) + o : i \in 0..n-1, o \in offsets}

(* What a walk is for: the words of the block, of the first word of each   *)
(* line, or of one word per page.                                          *)
Promised ==
  IF phase = "cut" /\ layout = "line"
  THEN OnPages(npages, Multiples(PageSize, PageSize \div cut[1]))
  ELSE IF phase = "cut" /\ layout = "mem"
  THEN OnPages(cut[2] - 1, 0..PageSize-1)
         \union {Page(cut[2] - 1) + Lines[j] + k : j \in 0..cut[1]-1, k \in 0..line-1}
  ELSE IF layout = "stride" THEN {i * line : i \in 0..Ceil(len, line)-1}
  ELSE IF layout = "thrash" /\ len % PageSize # 0 THEN Multiples(len, line)
  ELSE IF layout \in {"thrash", "line"} THEN OnPages(npages, Multiples(PageSize, line))
  ELSE IF layout = "mem" /\ npages = 1
  THEN {Page(0) + Lines[j] + k : j \in 0..(len \div line)-1, k \in 0..line-1}
  ELSE OnPages(npages, 0..PageSize-1)

(* The sizes that a layout is made for: a number of words that is a power  *)
(* of two for lat_mem_rd -t within its page, and whole pages where there   *)
(* are several.                                                            *)
Suits ==
  /\ (layout = "thrash" /\ len % PageSize # 0) => IsPowerOfTwo(len \div line)
  /\ layout \in {"mem", "dram"} => len % PageSize = 0 \/ (npages = 1 /\ layout = "mem")

(* Following the pointers visits every word that the layout promises once, *)
(* and nothing else, and comes back to the beginning: after the layout is  *)
(* made, while line_test or measure() have cut it, and after they have put *)
(* it together.                                                            *)
WalksThroughAll ==
  (phase \in {"laid", "cut"} /\ Suits /\ layout # "tlb" /\ ~(phase = "laid" /\ cut # <<0, 0>>)) =>
    LET n == Cardinality(Promised)
        at == Walk(n)
    IN  at[n] = start /\ {at[i] : i \in 0..n-1} = Promised

(* The walk that find_tlb times touches each page once.                    *)
OnePagePerLoad ==
  (phase = "laid" /\ layout = "tlb") =>
    LET at == Walk(npages)
    IN  at[npages] = start
        /\ {at[i] \div PageSize : i \in 0..npages-1} = Range(pages)
=============================================================================
