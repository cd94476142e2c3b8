-------------------------- MODULE LifecycleProofs --------------------------
(***************************************************************************)
(* Proofs about the lives of the children, for every program of the list,  *)
(* every size, number of iterations and fault: that a benchmark uses only  *)
(* what its child holds, that a child holds no more after an interval than *)
(* before it, and that the files of lat_fs are gone in the end.            *)
(*                                                                         *)
(* Along the texts of initialize, benchmark and cleanup, every part of the *)
(* state has a class at each place: what is held, what is NULL, what may   *)
(* be either.  That a program's texts fit the classes (the lemmas Fits...) *)
(* is read off its operations; that the state keeps to the class of the    *)
(* place that is reached (CellsMatch) is the inductive invariant.          *)
(***************************************************************************)
EXTENDS Lifecycle, TLAPS

-----------------------------------------------------------------------------
(* What a program holds between two intervals, and in one.                 *)
KeptBy ==
  [lat_fs_mk |-> {}, lat_fs_rm |-> {}, lat_mmap |-> {"fd"},
   lat_pagefault |-> {"fd", "pages", "where"}, lat_pagefault_mmap |-> {"fd", "where"},
   bw_file_rd_open |-> {}, bw_file_rd_io |-> {"fd"},
   bw_mmap_rd_open |-> {}, bw_mmap_rd_only |-> {"fd", "buf"},
   bw_mem |-> {"buf"}, stream |-> {"a", "b", "c"}, lat_ops |-> {"data"},
   par_ops |-> {"int_data", "double_data"}, lat_syscall |-> {}, lat_syscall_open |-> {},
   lat_sig_prot |-> {"where"}, lat_rpc |-> {"cl"}, lat_select |-> {"set"},
   lat_ctx_overhead |-> {"p", "pipes"}, stride |-> {"addr", "pages"},
   thrash |-> {"addr", "pages", "words"}, dram_page |-> {"addr", "pages", "words", "lines"}]

KeptWithOption ==
  IF prog \in {"bw_file_rd_open", "bw_file_rd_io", "bw_mmap_rd_open", "bw_mmap_rd_only"}
  THEN {"clone"}
  ELSE IF prog = "bw_mem" THEN {"buf2"}
  ELSE IF prog = "lat_ctx_overhead" THEN {"data"} ELSE {}

Kept == KeptBy[prog] \union (IF opt THEN KeptWithOption ELSE {})

(* What it knows to be NULL.                                               *)
Nulled ==
  IF prog = "bw_file_rd_open" THEN {"fd"}
  ELSE IF prog = "bw_mmap_rd_open" THEN {"fd", "buf"}
  ELSE IF prog \in {"bw_mem", "lat_ctx_overhead"} THEN IF opt THEN {} ELSE KeptWithOption
  ELSE IF prog = "stride" THEN {"words", "lines"}
  ELSE IF prog = "thrash" THEN {"lines"} ELSE {}

(* What it may hold or not, and never uses.                                *)
Loose == IF prog = "lat_sig_prot" THEN {"fd"}
         ELSE IF prog = "lat_pagefault_mmap" THEN {"pages"} ELSE {}

IsTree == prog \in {"lat_fs_mk", "lat_fs_rm"}

Cells == Resources \union {"clone", "dir"}
Nothing == [held |-> {}, nulls |-> {}, loose |-> {}]
Between == [held |-> Kept, nulls |-> Nulled, loose |-> Loose]
During == [held |-> IF IsTree THEN {"names", "dirs", "dir"} ELSE Kept,
           nulls |-> Nulled, loose |-> Loose]

(* A program that goes on without what it could not get holds it, or there *)
(* was a fault; the others may hold it or not until they have tested it.   *)
Careless == prog \in Unchecked

Runs(op) == op.when = "option" => opt
Changes(op, r) ==
  Runs(op) /\ op.r = r /\ r # "files" /\ op.what \in {"get", "null", "drop", "make", "remove"}
Tests(op, r) == Runs(op) /\ op.r = r /\ op.what = "must"
Gets(op) == op.what = "make" \/ (op.what = "get" /\ (op.how = "ignore" => Careless))
Nulls(op) == op.what = "null" \/ (op.what = "drop" /\ op.how = "reset")
Loosens(op) == op.what = "get" /\ ~Gets(op)

(* The last operation before i that changes r, if there is one.            *)
Fresh(T, i, r) == \A k \in 1..i-1 : ~Changes(T[k], r)
Last(T, i, j, r) == j \in 1..i-1 /\ Changes(T[j], r) /\ \A k \in j+1..i-1 : ~Changes(T[k], r)
Tested(T, i, j, r) == \E k \in j+1..i-1 : Tests(T[k], r)

(* What is held, is NULL, or is one of both before operation i of T, if E  *)
(* was so before the first.                                                *)
HeldAt(T, i, E) ==
  {r \in Cells : \/ Fresh(T, i, r) /\ r \in E.held
                 \/ Fresh(T, i, r) /\ r \in E.loose /\ Tested(T, i, 0, r)
                 \/ \E j \in 1..i-1 : Last(T, i, j, r) /\ Gets(T[j])
                 \/ \E j \in 1..i-1 : Last(T, i, j, r) /\ Loosens(T[j]) /\ Tested(T, i, j, r)}
NullAt(T, i, E) ==
  {r \in Cells : \/ Fresh(T, i, r) /\ r \in E.nulls
                 \/ \E j \in 1..i-1 : Last(T, i, j, r) /\ Nulls(T[j])}
LooseAt(T, i, E) ==
  {r \in Cells : \/ Fresh(T, i, r) /\ r \in E.loose /\ ~Tested(T, i, 0, r)
                 \/ \E j \in 1..i-1 : Last(T, i, j, r) /\ Loosens(T[j]) /\ ~Tested(T, i, j, r)}

At(T, i, E) == [held |-> HeldAt(T, i, E), nulls |-> NullAt(T, i, E), loose |-> LooseAt(T, i, E)]

(* What an operation makes of a class.                                     *)
After(op, C) ==
  IF \E r \in Cells : Changes(op, r)
  THEN [held  |-> IF Gets(op) THEN C.held \union {op.r} ELSE C.held \ {op.r},
        nulls |-> IF Nulls(op) THEN C.nulls \union {op.r} ELSE C.nulls \ {op.r},
        loose |-> IF Loosens(op) THEN C.loose \union {op.r} ELSE C.loose \ {op.r}]
  ELSE IF op.r \in C.loose /\ Tests(op, op.r)
  THEN [held |-> C.held \union {op.r}, nulls |-> C.nulls, loose |-> C.loose \ {op.r}]
  ELSE C

-----------------------------------------------------------------------------
(* What an operation demands of those before it.                           *)
NeedFits(T, i, C, E) ==
  /\ Careless /\ T[i].how \in Nat /\ i + T[i].how <= Len(T) /\ T[i].r \in C.held
  /\ \A k \in i+1..i+T[i].how :
       /\ T[k].what \in {"use", "need", "get"}
       /\ T[k].what = "get" =>
            /\ T[k].how = "ignore" /\ T[k].r \in C.held \union C.nulls
            /\ T[k].r \in HeldAt(T, i + T[i].how + 1, E)

ActFits(op, C, E) ==
  /\ op.what = "use" => op.r \in C.held
  /\ op.what = "drop" => op.r \in C.held \union C.nulls \union C.loose
  /\ op.what = "make" \/ (op.what = "get" /\ prog # "thrash") => op.r \notin C.held \union C.loose
  /\ op.what \in {"get", "check"} /\ op.how = "return" => C = E
  /\ op.what = "get" /\ op.how = "return" => op.r \notin C.held \union C.nulls \union C.loose
  /\ op.what = "get" /\ op.how = "cleanup" =>
       Careless /\ ~IsTree /\ {"clone", "dir"} \intersect (C.held \union C.loose) = {}

(* What it is of itself, where some kinds of operations and of failures    *)
(* are barred.                                                             *)
OpFits(op) ==
  /\ op.what \in {"get", "null", "use", "need", "must", "check", "drop", "make", "remove"}
  /\ op.what \in {"get", "null", "use", "need", "must", "drop"} => op.r \in Resources
  /\ op.what \in {"make", "remove"} => op.r \in OnDisk
  /\ op.what = "check" => op.how \in {"exit", "return"}
  /\ op.times = "each" => op.what \in {"make", "remove"} /\ op.r = "files"
  /\ op.what = "make" /\ op.r # "files" => op.how = "exit"
  /\ op.what = "remove" /\ op.r = "dir" => IsTree
  /\ op.what \in {"make", "remove"} /\ op.r = "files" => IsTree
Allowed(op, bar) ==
  op.what \notin bar /\ (op.what \in {"get", "check"} => op.how \notin bar)

(* A class promises what another does.                                     *)
Covers(X, C) ==
  /\ X.held \subseteq C.held /\ X.nulls \subseteq C.nulls
  /\ X.loose \subseteq C.held \union C.nulls \union C.loose
  /\ C.held \union C.loose \subseteq X.held \union X.loose

FitsAt(T, i, E, bar) ==
  OpFits(T[i]) /\ Allowed(T[i], bar) /\ (Runs(T[i]) => ActFits(T[i], At(T, i, E), E))
TextFits(T, E, bar) ==
  /\ Len(T) \in Nat
  /\ \A i \in 1..Len(T) :
       FitsAt(T, i, E, bar) /\ (T[i].what = "need" => NeedFits(T, i, At(T, i, E), E))
Ends(T, E) == At(T, Len(T) + 1, E)

ProgramFits ==
  /\ TextFits(P.zero, Nothing, {"return"}) /\ Covers(Between, Ends(P.zero, Nothing))
  /\ TextFits(P.nonzero, Between, {"return", "cleanup"}) /\ Covers(During, Ends(P.nonzero, Between))
  /\ TextFits(P.body, During, {"cleanup"}) /\ Ends(P.body, During) = During
  /\ TextFits(P.after, During, {"return", "cleanup"}) /\ Covers(Between, Ends(P.after, During))
  /\ TextFits(P.end, Between, {"return", "cleanup", "make", "get"})
  /\ {"clone", "dir"} \intersect (Ends(P.end, Between).held \union Ends(P.end, Between).loose) = {}
  /\ ~P.hasCleanup => {"clone", "dir"} \intersect (Kept \union Loose) = {}

-----------------------------------------------------------------------------
(* The invariant                                                           *)
Cell(r) == IF r \in Resources THEN val[r] ELSE IF disk[r] = 0 THEN "gone" ELSE "ok"

(* The cells are as a class says.                                          *)
Tolerant == faults > 0 /\ Careless
Match(C) ==
  \A r \in Cells :
    /\ r \in C.held => Cell(r) = "ok" \/ (Tolerant /\ Cell(r) = "null")
    /\ r \in C.nulls => Cell(r) = "null"
    /\ r \in C.loose => Cell(r) \in {"ok", "null"}
    /\ r \notin C.held \union C.loose => Cell(r) # "ok"

Entry ==
  IF pc = "first" THEN Nothing ELSE IF pc \in {"body", "clean"} THEN During ELSE Between

CellsInv ==
  /\ pc \in {"first", "init", "body", "clean", "report", "last"} => Match(At(Text, at, Entry))
  /\ pc = "decide" => Match(Between)
  /\ pc \in {"wait", "reported"} \/ (pc = "dead" /\ ~IsTree) \/ pc = "give up" =>
       disk["clone"] = 0 /\ disk["dir"] = 0
  /\ pc = "give up" => ~IsTree /\ Tolerant

(* The files of lat_fs, which there are as many of as iterations.          *)
MostFiles ==
  IF prog = "lat_fs_mk"
  THEN IF pc = "body" THEN IF Busy THEN turn - 1 ELSE turn
       ELSE IF pc = "clean" /\ at = 1 THEN arg + 1 - turn ELSE 0
  ELSE IF prog = "lat_fs_rm"
  THEN IF pc = "init" THEN IF ~Busy THEN arg ELSE IF at = 6 THEN turn - 1 ELSE 0
       ELSE IF pc = "body" THEN IF Busy THEN arg + 1 - turn ELSE arg - turn
       ELSE 0
  ELSE 0

FilesInv ==
  /\ ~IsTree \/ pc \notin {"told", "failed", "dead"} => disk["files"] <= MostFiles
  /\ pc \in {"init", "body", "clean"} => arg = Ending
  /\ pc \in {"init", "body", "clean"} => turn <= arg
  /\ pc \in {"init", "clean"} /\ turn > 1 => Busy /\ Now.times = "each"

LifeTypes ==
  /\ prog \in Programs /\ opt \in BOOLEAN
  /\ pc \in {"first", "decide", "init", "body", "clean", "report", "wait", "last", "give up",
             "told", "reported", "dead", "failed"}
  /\ at \in 1..Len(Text)+1 /\ turn \in Nat \ {0} /\ arg \in Nat
  /\ state \in {"warmup", "timing", "cooldown"}
  /\ iters \in Nat \ {0} /\ batch \in Nat \ {0}
  /\ val \in [Resources -> {"unset", "null", "ok", "gone"}]
  /\ disk \in [OnDisk -> Nat] /\ disk["clone"] \in 0..1 /\ disk["dir"] \in 0..1
  /\ faults \in Nat

LifeInv == LifeTypes /\ CellsInv /\ FilesInv

-----------------------------------------------------------------------------
(* Classes along the operations of a call                                  *)

\* One operation more.
LEMMA PlaceStep ==
  ASSUME NEW T, NEW i \in Nat \ {0}, NEW r
  PROVE  /\ Fresh(T, i + 1, r) <=> Fresh(T, i, r) /\ ~Changes(T[i], r)
         /\ \A j \in 1..i : Last(T, i + 1, j, r) <=>
              \/ j = i /\ Changes(T[i], r)
              \/ j \in 1..i-1 /\ ~Changes(T[i], r) /\ Last(T, i, j, r)
         /\ \A j \in 0..i-1 : Tested(T, i + 1, j, r) <=> Tested(T, i, j, r) \/ Tests(T[i], r)
         /\ ~Tested(T, i + 1, i, r)
<1> DEFINE c(k) == Changes(T[k], r)
           t(k) == Tests(T[k], r)
<1>1. (i + 1) - 1 = i /\ i - 1 \in Nat
  OBVIOUS
<1>2. \A j \in 0..i-1 : \A k : k \in j+1..(i+1)-1 <=> k \in j+1..i-1 \/ k = i
  OBVIOUS
<1>3. \A k : k \in 1..(i+1)-1 <=> k \in 1..i-1 \/ k = i
  OBVIOUS
<1>4. \A k : k \notin i+1..(i+1)-1
  OBVIOUS
<1>5. Fresh(T, i + 1, r) <=> Fresh(T, i, r) /\ ~Changes(T[i], r)
  BY <1>3 DEF Fresh
<1>6. ~Tested(T, i + 1, i, r)
  BY <1>4 DEF Tested
<1>7. \A j \in 0..i-1 : Tested(T, i + 1, j, r) <=> Tested(T, i, j, r) \/ Tests(T[i], r)
  BY <1>2 DEF Tested
<1>8. ASSUME NEW j \in 1..i
      PROVE  Last(T, i + 1, j, r) <=>
               \/ j = i /\ Changes(T[i], r)
               \/ j \in 1..i-1 /\ ~Changes(T[i], r) /\ Last(T, i, j, r)
  <2>1. CASE j = i
    BY <1>1, <1>4, <2>1 DEF Last
  <2>2. CASE j # i
    <3>1. j \in 1..i-1 /\ j \in 0..i-1 /\ j \in 1..(i+1)-1
      BY <2>2
    <3>2. \A k : k \in j+1..(i+1)-1 <=> k \in j+1..i-1 \/ k = i
      BY <1>2, <3>1
    <3> QED
      BY <2>2, <3>1, <3>2 DEF Last
  <2> QED
    BY <2>1, <2>2
<1> QED
  BY <1>5, <1>6, <1>7, <1>8

\* Before the first operation.
LEMMA AtFirst ==
  ASSUME NEW T, NEW h, NEW n, NEW l, h \subseteq Cells, n \subseteq Cells, l \subseteq Cells
  PROVE  At(T, 1, [held |-> h, nulls |-> n, loose |-> l]) = [held |-> h, nulls |-> n, loose |-> l]
<1> DEFINE E == [held |-> h, nulls |-> n, loose |-> l]
<1>0. E.held = h /\ E.nulls = n /\ E.loose = l
  OBVIOUS
<1> HIDE DEF E
<1>1. \A k : k \notin 1..1-1 /\ k \notin 0+1..1-1
  OBVIOUS
<1>2. \A r : Fresh(T, 1, r) /\ ~Tested(T, 1, 0, r)
  BY <1>1 DEF Fresh, Tested
<1>3. HeldAt(T, 1, E) = h
  BY <1>0, <1>1, <1>2 DEF HeldAt
<1>4. NullAt(T, 1, E) = n
  BY <1>0, <1>1, <1>2 DEF NullAt
<1>5. LooseAt(T, 1, E) = l
  BY <1>0, <1>1, <1>2 DEF LooseAt
<1> QED
  BY <1>3, <1>4, <1>5 DEF At, E

\* The class before the next operation, from the class before this one.
LEMMA AtStep ==
  ASSUME NEW T, NEW i \in Nat \ {0}, NEW E, OpFits(T[i])
  PROVE  At(T, i + 1, E) = After(T[i], At(T, i, E))
<1> DEFINE op == T[i]
           C == At(T, i, E)
           D == At(T, i + 1, E)
<1>0. \A j : (j \in 1..(i+1)-1 <=> j \in 1..i) /\ (j \in 1..i <=> j \in 1..i-1 \/ j = i)
  OBVIOUS
<1>1. 0 \in 0..i-1 /\ i \in 1..i /\ i \in 1..(i+1)-1 /\ \A j \in 1..i-1 : j \in 0..i-1 /\ j \in 1..i /\ j \in 1..(i+1)-1 /\ j # i
  OBVIOUS
<1>2. /\ C.held = HeldAt(T, i, E) /\ C.nulls = NullAt(T, i, E) /\ C.loose = LooseAt(T, i, E)
      /\ D = [held |-> HeldAt(T, i + 1, E), nulls |-> NullAt(T, i + 1, E), loose |-> LooseAt(T, i + 1, E)]
      /\ C = [held |-> HeldAt(T, i, E), nulls |-> NullAt(T, i, E), loose |-> LooseAt(T, i, E)]
  BY DEF At
<1>3. ASSUME NEW r \in Cells, Changes(op, r)
      PROVE  /\ r = op.r
             /\ r \in HeldAt(T, i + 1, E) <=> Gets(op)
             /\ r \in NullAt(T, i + 1, E) <=> Nulls(op)
             /\ r \in LooseAt(T, i + 1, E) <=> Loosens(op)
  <2>1. /\ ~Fresh(T, i + 1, r) /\ ~Tested(T, i + 1, i, r) /\ Last(T, i + 1, i, r)
        /\ \A j \in 1..i : Last(T, i + 1, j, r) => j = i
    BY <1>1, <1>3, PlaceStep
  <2>2. r \in HeldAt(T, i + 1, E) <=> Gets(op)
    BY <1>0, <1>1, <2>1 DEF HeldAt
  <2>3. r \in NullAt(T, i + 1, E) <=> Nulls(op)
    BY <1>0, <1>1, <2>1 DEF NullAt
  <2>4. r \in LooseAt(T, i + 1, E) <=> Loosens(op)
    BY <1>0, <1>1, <2>1 DEF LooseAt
  <2> QED
    BY <1>3, <2>2, <2>3, <2>4 DEF Changes
<1>4. ASSUME NEW r \in Cells, ~Changes(op, r)
      PROVE  /\ r \in HeldAt(T, i + 1, E) <=>
                  r \in HeldAt(T, i, E) \/ (r \in LooseAt(T, i, E) /\ Tests(op, r))
             /\ r \in NullAt(T, i + 1, E) <=> r \in NullAt(T, i, E)
             /\ r \in LooseAt(T, i + 1, E) <=> r \in LooseAt(T, i, E) /\ ~Tests(op, r)
  <2>1. /\ Fresh(T, i + 1, r) <=> Fresh(T, i, r)
        /\ \A j \in 1..i-1 : Last(T, i + 1, j, r) <=> Last(T, i, j, r)
        /\ ~Last(T, i + 1, i, r)
        /\ \A j \in 0..i-1 : Tested(T, i + 1, j, r) <=> Tested(T, i, j, r) \/ Tests(op, r)
    BY <1>1, <1>4, PlaceStep
  <2>2. r \in HeldAt(T, i + 1, E) <=>
          r \in HeldAt(T, i, E) \/ (r \in LooseAt(T, i, E) /\ Tests(op, r))
    BY <1>0, <1>1, <2>1 DEF HeldAt, LooseAt
  <2>3. r \in NullAt(T, i + 1, E) <=> r \in NullAt(T, i, E)
    BY <1>0, <1>1, <2>1 DEF NullAt
  <2>4. r \in LooseAt(T, i + 1, E) <=> r \in LooseAt(T, i, E) /\ ~Tests(op, r)
    BY <1>0, <1>1, <2>1 DEF LooseAt
  <2> QED
    BY <2>2, <2>3, <2>4
<1>5. \A r : r \in HeldAt(T, i, E) \/ r \in NullAt(T, i, E) \/ r \in LooseAt(T, i, E)
             \/ r \in HeldAt(T, i + 1, E) \/ r \in NullAt(T, i + 1, E) \/ r \in LooseAt(T, i + 1, E) => r \in Cells
  BY DEF HeldAt, NullAt, LooseAt
<1>6. CASE \E r \in Cells : Changes(op, r)
  <2>1. op.r \in Cells /\ Changes(op, op.r) /\ \A r \in Cells : Changes(op, r) => r = op.r
    BY <1>6 DEF Changes
  <2>0. \A r \in Cells : r # op.r => ~Changes(op, r) /\ ~Tests(op, r)
    BY <2>1 DEF Tests
  <2>2. HeldAt(T, i + 1, E) = IF Gets(op) THEN HeldAt(T, i, E) \union {op.r} ELSE HeldAt(T, i, E) \ {op.r}
    BY <1>3, <1>4, <1>5, <2>0, <2>1
  <2>3. NullAt(T, i + 1, E) = IF Nulls(op) THEN NullAt(T, i, E) \union {op.r} ELSE NullAt(T, i, E) \ {op.r}
    BY <1>3, <1>4, <1>5, <2>0, <2>1
  <2>4. LooseAt(T, i + 1, E) = IF Loosens(op) THEN LooseAt(T, i, E) \union {op.r} ELSE LooseAt(T, i, E) \ {op.r}
    BY <1>3, <1>4, <1>5, <2>0, <2>1
  <2> QED
    BY <1>2, <1>6, <2>2, <2>3, <2>4 DEF After
<1>7. CASE ~\E r \in Cells : Changes(op, r)
  <2>1. NullAt(T, i + 1, E) = NullAt(T, i, E)
    BY <1>4, <1>5, <1>7
  <2>2. CASE op.r \in LooseAt(T, i, E) /\ Tests(op, op.r)
    <3>1. \A r : Tests(op, r) => r = op.r
      BY DEF Tests
    <3>2. HeldAt(T, i + 1, E) = HeldAt(T, i, E) \union {op.r}
      BY <1>4, <1>5, <1>7, <2>2, <3>1
    <3>3. LooseAt(T, i + 1, E) = LooseAt(T, i, E) \ {op.r}
      BY <1>4, <1>5, <1>7, <2>2, <3>1
    <3> QED
      BY <1>2, <1>7, <2>1, <2>2, <3>2, <3>3 DEF After
  <2>3. CASE ~(op.r \in LooseAt(T, i, E) /\ Tests(op, op.r))
    <3>1. \A r : Tests(op, r) => r = op.r
      BY DEF Tests
    <3>2. HeldAt(T, i + 1, E) = HeldAt(T, i, E)
      BY <1>4, <1>5, <1>7, <2>3, <3>1
    <3>3. LooseAt(T, i + 1, E) = LooseAt(T, i, E)
      BY <1>4, <1>5, <1>7, <2>3, <3>1
    <3> QED
      BY <1>2, <1>7, <2>1, <2>3, <3>2, <3>3 DEF After
  <2> QED
    BY <2>2, <2>3
<1> QED
  BY <1>6, <1>7
-----------------------------------------------------------------------------
(* Reading a text: the class before each of its operations                 *)

Class(h, n, l) == [held |-> h, nulls |-> n, loose |-> l]

(* What comes before operation i fits, and makes C of E.                   *)
Upto(T, i, E, C, bar) ==
  At(T, i, E) = C /\ \A k \in 1..i-1 : FitsAt(T, k, E, bar)

\* The parts of a class.
LEMMA ClassParts ==
  \A h, n, l : /\ Class(h, n, l).held = h /\ Class(h, n, l).nulls = n /\ Class(h, n, l).loose = l
               /\ Class(h, n, l) = [held |-> h, nulls |-> n, loose |-> l]
  BY DEF Class

\* The parts of an operation.
LEMMA OpParts ==
  /\ \A r, h : /\ Get(r, h).what = "get" /\ Get(r, h).r = r /\ Get(r, h).how = h
               /\ Get(r, h).times = "once" /\ Get(r, h).when = "always"
  /\ \A r : /\ Null(r).what = "null" /\ Null(r).r = r
            /\ Null(r).times = "once" /\ Null(r).when = "always"
  /\ \A r : /\ Use(r).what = "use" /\ Use(r).r = r
            /\ Use(r).times = "once" /\ Use(r).when = "always"
  /\ \A r, k : /\ Need(r, k).what = "need" /\ Need(r, k).r = r /\ Need(r, k).how = k
               /\ Need(r, k).times = "once" /\ Need(r, k).when = "always"
  /\ \A r : /\ Must(r).what = "must" /\ Must(r).r = r
            /\ Must(r).times = "once" /\ Must(r).when = "always"
  /\ \A r : /\ FreeReset(r).what = "drop" /\ FreeReset(r).r = r /\ FreeReset(r).how = "reset"
            /\ FreeReset(r).times = "once" /\ FreeReset(r).when = "always"
  /\ \A r : \A op \in {Free(r), FreeIf(r), Close(r), CloseIf(r)} :
       op.what = "drop" /\ op.r = r /\ op.how # "reset" /\ op.times = "once" /\ op.when = "always"
  /\ \A r : /\ MakeOrExit(r).what = "make" /\ MakeOrExit(r).r = r /\ MakeOrExit(r).how = "exit"
            /\ MakeOrExit(r).times = "once" /\ MakeOrExit(r).when = "always"
  /\ \A r : /\ Unlink(r).what = "remove" /\ Unlink(r).r = r
            /\ Unlink(r).times = "once" /\ Unlink(r).when = "always"
<1>1. \A r, h : /\ Get(r, h).what = "get" /\ Get(r, h).r = r /\ Get(r, h).how = h
                /\ Get(r, h).times = "once" /\ Get(r, h).when = "always"
  BY DEF Get, Op
<1>2. \A r : /\ Null(r).what = "null" /\ Null(r).r = r
             /\ Null(r).times = "once" /\ Null(r).when = "always"
  BY DEF Null, Op
<1>3. \A r : /\ Use(r).what = "use" /\ Use(r).r = r
             /\ Use(r).times = "once" /\ Use(r).when = "always"
  BY DEF Use, Op
<1>4. \A r, k : /\ Need(r, k).what = "need" /\ Need(r, k).r = r /\ Need(r, k).how = k
                /\ Need(r, k).times = "once" /\ Need(r, k).when = "always"
  BY DEF Need, Op
<1>5. \A r : /\ Must(r).what = "must" /\ Must(r).r = r
             /\ Must(r).times = "once" /\ Must(r).when = "always"
  BY DEF Must, Op
<1>6. \A r : /\ FreeReset(r).what = "drop" /\ FreeReset(r).r = r /\ FreeReset(r).how = "reset"
             /\ FreeReset(r).times = "once" /\ FreeReset(r).when = "always"
  BY DEF FreeReset, Op
<1>7. \A r : \A op \in {Free(r), FreeIf(r), Close(r), CloseIf(r)} :
        op.what = "drop" /\ op.r = r /\ op.how # "reset" /\ op.times = "once" /\ op.when = "always"
  <2> TAKE r
  <2>1. /\ Free(r).what = "drop" /\ Free(r).r = r /\ Free(r).how # "reset"
        /\ Free(r).times = "once" /\ Free(r).when = "always"
    BY DEF Free, Op
  <2>2. /\ FreeIf(r).what = "drop" /\ FreeIf(r).r = r /\ FreeIf(r).how # "reset"
        /\ FreeIf(r).times = "once" /\ FreeIf(r).when = "always"
    BY DEF FreeIf, Op
  <2>3. /\ Close(r).what = "drop" /\ Close(r).r = r /\ Close(r).how # "reset"
        /\ Close(r).times = "once" /\ Close(r).when = "always"
    BY DEF Close, Op
  <2>4. /\ CloseIf(r).what = "drop" /\ CloseIf(r).r = r /\ CloseIf(r).how # "reset"
        /\ CloseIf(r).times = "once" /\ CloseIf(r).when = "always"
    BY DEF CloseIf, Op
  <2> QED
    BY ONLY <2>1, <2>2, <2>3, <2>4
<1>8. \A r : /\ MakeOrExit(r).what = "make" /\ MakeOrExit(r).r = r /\ MakeOrExit(r).how = "exit"
             /\ MakeOrExit(r).times = "once" /\ MakeOrExit(r).when = "always"
  BY DEF MakeOrExit, Op
<1>9. \A r : /\ Unlink(r).what = "remove" /\ Unlink(r).r = r
             /\ Unlink(r).times = "once" /\ Unlink(r).when = "always"
  BY DEF Unlink, Op
<1> QED
  BY ONLY <1>1, <1>2, <1>3, <1>4, <1>5, <1>6, <1>7, <1>8, <1>9

\* An operation done with the option only.
LEMMA OptParts ==
  \A r, h : /\ Opt(Get(r, h)).what = "get" /\ Opt(Get(r, h)).r = r /\ Opt(Get(r, h)).how = h
            /\ Opt(Get(r, h)).times = "once" /\ Opt(Get(r, h)).when = "option"
            /\ Opt(Use(r)).what = "use" /\ Opt(Use(r)).r = r
            /\ Opt(Use(r)).times = "once" /\ Opt(Use(r)).when = "option"
            /\ Opt(MakeOrExit(r)).what = "make" /\ Opt(MakeOrExit(r)).r = r
            /\ Opt(MakeOrExit(r)).how = "exit"
            /\ Opt(MakeOrExit(r)).times = "once" /\ Opt(MakeOrExit(r)).when = "option"
            /\ Opt(Unlink(r)).what = "remove" /\ Opt(Unlink(r)).r = r
            /\ Opt(Unlink(r)).times = "once" /\ Opt(Unlink(r)).when = "option"
  BY DEF Opt, Get, Use, MakeOrExit, Unlink, Op

\* The beginning of a text.
LEMMA UptoFirst ==
  ASSUME NEW T, NEW h, NEW n, NEW l, NEW bar, h \subseteq Cells, n \subseteq Cells, l \subseteq Cells
  PROVE  Upto(T, 1, Class(h, n, l), Class(h, n, l), bar)
<1>1. At(T, 1, Class(h, n, l)) = Class(h, n, l)
  BY AtFirst DEF Class
<1>2. \A k : k \notin 1..1-1
  OBVIOUS
<1> QED
  BY <1>1, <1>2 DEF Upto

(* An operation that fits in a class, and the class that it leads to.      *)
Goes(op, C, E, D, bar) ==
  OpFits(op) /\ Allowed(op, bar) /\ (Runs(op) => ActFits(op, C, E)) /\ D = After(op, C)

\* One operation more.
LEMMA UptoStep ==
  ASSUME NEW T, NEW i \in Nat \ {0}, NEW E, NEW C, NEW D, NEW bar,
         Upto(T, i, E, C, bar), Goes(T[i], C, E, D, bar)
  PROVE  Upto(T, i + 1, E, D, bar)
<1>1. At(T, i + 1, E) = D
  BY AtStep DEF Upto, Goes
<1>2. \A k : k \in 1..(i+1)-1 <=> k \in 1..i-1 \/ k = i
  OBVIOUS
<1>3. FitsAt(T, i, E, bar)
  BY DEF Upto, FitsAt, Goes
<1> QED
  BY <1>1, <1>2, <1>3 DEF Upto

\* The end of a text, when none of its operations is to be skipped with others.
LEMMA UptoEnd ==
  ASSUME NEW T, NEW i, NEW E, NEW C, NEW bar, NEW wide, i = Len(T) + 1, Len(T) \in Nat,
         Upto(T, i, E, C, wide), bar \subseteq wide, "need" \in wide
  PROVE  TextFits(T, E, bar) /\ Ends(T, E) = C
<1>1. \A k : k \in 1..i-1 <=> k \in 1..Len(T)
  OBVIOUS
<1>2. \A k \in 1..Len(T) : FitsAt(T, k, E, wide)
  BY <1>1 DEF Upto
<1>3. ASSUME NEW k \in 1..Len(T)
      PROVE  FitsAt(T, k, E, bar) /\ T[k].what # "need"
  BY <1>2 DEF FitsAt, Allowed
<1> QED
  BY <1>3 DEF TextFits, Ends, Upto

\* The end of a text with operations that are skipped.
LEMMA UptoEndNeeds ==
  ASSUME NEW T, NEW i, NEW E, NEW C, NEW bar, i = Len(T) + 1, Len(T) \in Nat,
         Upto(T, i, E, C, bar),
         \A k \in 1..Len(T) : T[k].what = "need" => NeedFits(T, k, At(T, k, E), E)
  PROVE  TextFits(T, E, bar) /\ Ends(T, E) = C
<1>1. \A k : k \in 1..i-1 <=> k \in 1..Len(T)
  OBVIOUS
<1> QED
  BY <1>1 DEF Upto, TextFits, Ends

\* The next operation sets its variable to NULL.
LEMMA GoesNull ==
  ASSUME NEW op, NEW E, NEW bar, NEW h, NEW n, NEW l, NEW r \in Resources,
         op = Null(r), "null" \notin bar
  PROVE  Goes(op, Class(h, n, l), E, Class(h \ {r}, n \union {r}, l \ {r}), bar)
<1> DEFINE C == Class(h, n, l)
<1>1. /\ op.what = "null" /\ op.r = r /\ op.times = "once" /\ op.when = "always"
  BY OpParts
<1>2. Runs(op) /\ r \in Cells /\ r \in Resources /\ r # "files"
  BY <1>1 DEF Runs, Cells, Resources
<1>3. OpFits(op) /\ Allowed(op, bar) /\ ActFits(op, C, E)
  BY <1>1, <1>2 DEF OpFits, Allowed, ActFits
<1>4. After(op, C) = Class(h \ {r}, n \union {r}, l \ {r})
  <2>1. Changes(op, r) /\ ~Gets(op) /\ Nulls(op) /\ ~Loosens(op)
    BY <1>1, <1>2 DEF Changes, Gets, Nulls, Loosens
  <2> QED
    BY <1>1, <1>2, <2>1, ClassParts DEF After
<1> QED
  BY <1>3, <1>4 DEF Goes

\* The next operation gets something.
LEMMA GoesAnyGet ==
  ASSUME NEW op, NEW E, NEW bar, NEW h, NEW n, NEW l, NEW r \in Resources,
         NEW how,
         op = Get(r, how) \/ (opt /\ op = Opt(Get(r, how))), "get" \notin bar, how \notin bar,
         how \in {"ignore", "exit", "return", "cleanup"},
         how = "ignore" => Careless, how = "return" => E = Class(h, n, l) /\ r \notin h \union n \union l,
         how = "cleanup" => Careless /\ ~IsTree,
         how = "cleanup" => {"clone", "dir"} \intersect (h \union l) = {},
         (r \notin h /\ r \notin l) \/ prog = "thrash"
  PROVE  Goes(op, Class(h, n, l), E, Class(h \union {r}, n \ {r}, l \ {r}), bar)
<1> DEFINE C == Class(h, n, l)
<1>1. /\ op.what = "get" /\ op.r = r /\ op.how = how /\ op.times = "once"
      /\ op.when = "always" \/ (opt /\ op.when = "option")
  BY OpParts, OptParts
<1>2. Runs(op) /\ r \in Cells /\ r \in Resources /\ r # "files"
  BY <1>1 DEF Runs, Cells, Resources
<1>3. OpFits(op) /\ Allowed(op, bar)
  BY <1>1, <1>2 DEF OpFits, Allowed
<1>5. ActFits(op, C, E)
  BY <1>1, <1>2, ClassParts DEF ActFits
<1>4. After(op, C) = Class(h \union {r}, n \ {r}, l \ {r})
  <2>1. Changes(op, r) /\ Gets(op) /\ ~Nulls(op) /\ ~Loosens(op)
    BY <1>1, <1>2 DEF Changes, Gets, Nulls, Loosens
  <2> QED
    BY <1>1, <1>2, <2>1, ClassParts DEF After
<1> QED
  BY <1>3, <1>4, <1>5 DEF Goes

\* The next operation gets something, or the program goes on without it, with care or not.
LEMMA GoesGet ==
  ASSUME NEW op, NEW E, NEW bar, NEW h, NEW n, NEW l, NEW r \in Resources,
         op = Get(r, "ignore"), "get" \notin bar,
         "ignore" \notin bar, Careless, r \notin h \/ prog = "thrash", r \notin l
  PROVE  Goes(op, Class(h, n, l), E, Class(h \union {r}, n \ {r}, l \ {r}), bar)
  BY GoesAnyGet

\* The next operation gets something, or the program ends.
LEMMA GoesGetOrExit ==
  ASSUME NEW op, NEW E, NEW bar, NEW h, NEW n, NEW l, NEW r \in Resources,
         op = Get(r, "exit"), "get" \notin bar,
         "exit" \notin bar, r \notin h, r \notin l
  PROVE  Goes(op, Class(h, n, l), E, Class(h \union {r}, n \ {r}, l \ {r}), bar)
  BY GoesAnyGet

\* The next operation gets something for the option that is given.
LEMMA GoesGetIfOption ==
  ASSUME NEW op, NEW E, NEW bar, NEW h, NEW n, NEW l, NEW r \in Resources,
         NEW how \in {"ignore", "exit"},
         opt, op = Opt(Get(r, how)), "get" \notin bar,
         how \notin bar, how = "ignore" => Careless, r \notin h, r \notin l
  PROVE  Goes(op, Class(h, n, l), E, Class(h \union {r}, n \ {r}, l \ {r}), bar)
  BY GoesAnyGet

\* The next operation gets something, or the function returns.
LEMMA GoesGetOrReturn ==
  ASSUME NEW op, NEW E, NEW bar, NEW h, NEW n, NEW l, NEW r \in Resources,
         op = Get(r, "return"), "get" \notin bar,
         "return" \notin bar, E = Class(h, n, l), r \notin h, r \notin n, r \notin l
  PROVE  Goes(op, Class(h, n, l), E, Class(h \union {r}, n \ {r}, l \ {r}), bar)
  BY GoesAnyGet

\* The next operation gets something, or cleans up and ends the program.
LEMMA GoesGetOrCleanup ==
  ASSUME NEW op, NEW E, NEW bar, NEW h, NEW n, NEW l, NEW r \in Resources,
         op = Get(r, "cleanup"), "get" \notin bar,
         "cleanup" \notin bar, Careless, ~IsTree, {"clone", "dir"} \intersect (h \union l) = {},
         r \notin h, r \notin l
  PROVE  Goes(op, Class(h, n, l), E, Class(h \union {r}, n \ {r}, l \ {r}), bar)
  BY GoesAnyGet

\* The next operation gets something that will be tested, or never used.
LEMMA GoesTry ==
  ASSUME NEW op, NEW E, NEW bar, NEW h, NEW n, NEW l, NEW r \in Resources,
         op = Get(r, "ignore"), "get" \notin bar, "ignore" \notin bar,
         ~Careless, r \notin h \union l
  PROVE  Goes(op, Class(h, n, l), E, Class(h \ {r}, n \ {r}, l \union {r}), bar)
<1> DEFINE C == Class(h, n, l)
<1>1. /\ op.what = "get" /\ op.r = r /\ op.how = "ignore" /\ op.times = "once"
      /\ op.when = "always"
  BY OpParts
<1>2. Runs(op) /\ r \in Cells /\ r \in Resources /\ r # "files"
  BY <1>1 DEF Runs, Cells, Resources
<1>3. OpFits(op) /\ Allowed(op, bar)
  BY <1>1, <1>2 DEF OpFits, Allowed
<1>5. ActFits(op, C, E)
  BY <1>1, <1>2, ClassParts DEF ActFits
<1>4. After(op, C) = Class(h \ {r}, n \ {r}, l \union {r})
  <2>1. Changes(op, r) /\ ~Gets(op) /\ ~Nulls(op) /\ Loosens(op)
    BY <1>1, <1>2 DEF Changes, Gets, Nulls, Loosens
  <2> QED
    BY <1>1, <1>2, <2>1, ClassParts DEF After
<1> QED
  BY <1>3, <1>4, <1>5 DEF Goes

\* The next operation uses something.
LEMMA GoesUse ==
  ASSUME NEW op, NEW E, NEW bar, NEW h, NEW n, NEW l, NEW r \in Resources,
         op = Use(r) \/ (opt /\ op = Opt(Use(r))), "use" \notin bar, r \in h
  PROVE  Goes(op, Class(h, n, l), E, Class(h, n, l), bar)
<1> DEFINE C == Class(h, n, l)
<1>1. /\ op.what = "use" /\ op.r = r /\ op.times = "once"
  BY OpParts, OptParts
<1>3. OpFits(op) /\ Allowed(op, bar)
  BY <1>1 DEF OpFits, Allowed
<1>5. ActFits(op, C, E)
  BY <1>1, ClassParts DEF ActFits
<1>4. After(op, C) = C
  <2>1. \A x : ~Changes(op, x) /\ ~Tests(op, x)
    BY <1>1 DEF Changes, Tests
  <2> QED
    BY <2>1 DEF After
<1> QED
  BY <1>3, <1>4, <1>5 DEF Goes

\* The next operation is skipped with others, perhaps.
LEMMA GoesNeed ==
  ASSUME NEW op, NEW E, NEW bar, NEW h, NEW n, NEW l, NEW r \in Resources,
         NEW k, op = Need(r, k), "need" \notin bar
  PROVE  Goes(op, Class(h, n, l), E, Class(h, n, l), bar)
<1> DEFINE C == Class(h, n, l)
<1>1. /\ op.what = "need" /\ op.r = r /\ op.times = "once"
  BY OpParts
<1>3. OpFits(op) /\ Allowed(op, bar) /\ ActFits(op, C, E)
  BY <1>1 DEF OpFits, Allowed, ActFits
<1>4. After(op, C) = C
  <2>1. \A x : ~Changes(op, x) /\ ~Tests(op, x)
    BY <1>1 DEF Changes, Tests
  <2> QED
    BY <2>1 DEF After
<1> QED
  BY <1>3, <1>4 DEF Goes

\* The next operation tests something.
LEMMA GoesMust ==
  ASSUME NEW op, NEW E, NEW bar, NEW h, NEW n, NEW l, NEW r \in Resources,
         op = Must(r), "must" \notin bar, r \in l
  PROVE  Goes(op, Class(h, n, l), E, Class(h \union {r}, n, l \ {r}), bar)
<1> DEFINE C == Class(h, n, l)
<1>1. /\ op.what = "must" /\ op.r = r /\ op.times = "once" /\ op.when = "always"
  BY OpParts
<1>3. OpFits(op) /\ Allowed(op, bar) /\ ActFits(op, C, E)
  BY <1>1 DEF OpFits, Allowed, ActFits
<1>4. After(op, C) = Class(h \union {r}, n, l \ {r})
  <2>1. (\A x : ~Changes(op, x)) /\ Tests(op, op.r)
    BY <1>1 DEF Changes, Tests, Runs
  <2> QED
    BY <1>1, <2>1, ClassParts DEF After
<1> QED
  BY <1>3, <1>4 DEF Goes

\* The next operation is something else that may fail.
LEMMA GoesCheck ==
  ASSUME NEW op, NEW E, NEW bar, NEW h, NEW n, NEW l,
         "check" \notin bar,
         \/ op = Check /\ "exit" \notin bar
         \/ op = Try /\ "return" \notin bar /\ E = Class(h, n, l)
  PROVE  Goes(op, Class(h, n, l), E, Class(h, n, l), bar)
<1> DEFINE C == Class(h, n, l)
<1>1. /\ op.what = "check" /\ op.how \in {"exit", "return"} /\ op.times = "once"
      /\ op.how \notin bar /\ (op.how = "return" => E = C)
  <2>1. Check.what = "check" /\ Check.how = "exit" /\ Check.times = "once"
    BY DEF Check, Op
  <2>2. Try.what = "check" /\ Try.how = "return" /\ Try.times = "once"
    BY DEF Try, Op
  <2> QED
    BY <2>1, <2>2
<1>3. OpFits(op) /\ Allowed(op, bar) /\ ActFits(op, C, E)
  BY <1>1 DEF OpFits, Allowed, ActFits
<1>4. After(op, C) = C
  <2>1. \A x : ~Changes(op, x) /\ ~Tests(op, x)
    BY <1>1 DEF Changes, Tests
  <2> QED
    BY <2>1 DEF After
<1> QED
  BY <1>3, <1>4 DEF Goes

(* Releasing something in one of the ways that leave its variable.         *)
Releases(op, r) == op \in {Free(r), FreeIf(r), Close(r), CloseIf(r)}

\* The operations that do so.
LEMMA ReleaseParts ==
  /\ \A r : Releases(Free(r), r)
  /\ \A r : Releases(FreeIf(r), r)
  /\ \A r : Releases(Close(r), r)
  /\ \A r : Releases(CloseIf(r), r)
  BY DEF Releases

\* The next operation releases something.
LEMMA GoesDrop ==
  ASSUME NEW op, NEW E, NEW bar, NEW h, NEW n, NEW l, NEW r \in Resources,
         Releases(op, r), "drop" \notin bar,
         r \in h \/ r \in n \/ r \in l
  PROVE  Goes(op, Class(h, n, l), E, Class(h \ {r}, n \ {r}, l \ {r}), bar)
<1> DEFINE C == Class(h, n, l)
<1>1. /\ op.what = "drop" /\ op.r = r /\ op.how # "reset" /\ op.times = "once"
      /\ op.when = "always"
  BY OpParts DEF Releases
<1>2. Runs(op) /\ r \in Cells /\ r \in Resources /\ r # "files"
  BY <1>1 DEF Runs, Cells, Resources
<1>3. OpFits(op) /\ Allowed(op, bar)
  BY <1>1, <1>2 DEF OpFits, Allowed
<1>5. ActFits(op, C, E)
  BY <1>1, <1>2, ClassParts DEF ActFits
<1>4. After(op, C) = Class(h \ {r}, n \ {r}, l \ {r})
  <2>1. Changes(op, r) /\ ~Gets(op) /\ ~Nulls(op) /\ ~Loosens(op)
    BY <1>1, <1>2 DEF Changes, Gets, Nulls, Loosens
  <2> QED
    BY <1>1, <1>2, <2>1, ClassParts DEF After
<1> QED
  BY <1>3, <1>4, <1>5 DEF Goes

\* The next operation releases something and forgets it.
LEMMA GoesReset ==
  ASSUME NEW op, NEW E, NEW bar, NEW h, NEW n, NEW l, NEW r \in Resources,
         op = FreeReset(r), "drop" \notin bar, r \in h \/ r \in n \/ r \in l
  PROVE  Goes(op, Class(h, n, l), E, Class(h \ {r}, n \union {r}, l \ {r}), bar)
<1> DEFINE C == Class(h, n, l)
<1>1. /\ op.what = "drop" /\ op.r = r /\ op.how = "reset" /\ op.times = "once"
      /\ op.when = "always"
  BY OpParts
<1>2. Runs(op) /\ r \in Cells /\ r \in Resources /\ r # "files"
  BY <1>1 DEF Runs, Cells, Resources
<1>3. OpFits(op) /\ Allowed(op, bar)
  BY <1>1, <1>2 DEF OpFits, Allowed
<1>5. ActFits(op, C, E)
  BY <1>1, <1>2, ClassParts DEF ActFits
<1>4. After(op, C) = Class(h \ {r}, n \union {r}, l \ {r})
  <2>1. Changes(op, r) /\ ~Gets(op) /\ Nulls(op) /\ ~Loosens(op)
    BY <1>1, <1>2 DEF Changes, Gets, Nulls, Loosens
  <2> QED
    BY <1>1, <1>2, <2>1, ClassParts DEF After
<1> QED
  BY <1>3, <1>4, <1>5 DEF Goes

\* The next operation makes a copy of the file, or a directory.
LEMMA GoesMake ==
  ASSUME NEW op, NEW E, NEW bar, NEW h, NEW n, NEW l,
         NEW r, r \in {"clone", "dir"}, op = MakeOrExit(r) \/ (opt /\ op = Opt(MakeOrExit(r))), "make" \notin bar,
         r \notin h \union l
  PROVE  Goes(op, Class(h, n, l), E, Class(h \union {r}, n \ {r}, l \ {r}), bar)
<1> DEFINE C == Class(h, n, l)
<1>1. /\ op.what = "make" /\ op.r = r /\ op.how = "exit" /\ op.times = "once"
      /\ op.when = "always" \/ (opt /\ op.when = "option")
  BY OpParts, OptParts
<1>2. Runs(op) /\ r \in Cells /\ r \in OnDisk /\ r # "files"
  BY <1>1 DEF Runs, Cells, OnDisk
<1>3. OpFits(op) /\ Allowed(op, bar)
  BY <1>1, <1>2 DEF OpFits, Allowed
<1>5. ActFits(op, C, E)
  BY <1>1, <1>2, ClassParts DEF ActFits
<1>4. After(op, C) = Class(h \union {r}, n \ {r}, l \ {r})
  <2>1. Changes(op, r) /\ Gets(op) /\ ~Nulls(op) /\ ~Loosens(op)
    BY <1>1, <1>2 DEF Changes, Gets, Nulls, Loosens
  <2> QED
    BY <1>1, <1>2, <2>1, ClassParts DEF After
<1> QED
  BY <1>3, <1>4, <1>5 DEF Goes

\* The next operation removes it.
LEMMA GoesRemove ==
  ASSUME NEW op, NEW E, NEW bar, NEW h, NEW n, NEW l,
         NEW r, r \in {"clone", "dir"}, op = Unlink(r) \/ (opt /\ op = Opt(Unlink(r))), "remove" \notin bar,
         r = "dir" => IsTree
  PROVE  Goes(op, Class(h, n, l), E, Class(h \ {r}, n \ {r}, l \ {r}), bar)
<1> DEFINE C == Class(h, n, l)
<1>1. /\ op.what = "remove" /\ op.r = r /\ op.times = "once"
      /\ op.when = "always" \/ (opt /\ op.when = "option")
  BY OpParts, OptParts
<1>2. Runs(op) /\ r \in Cells /\ r \in OnDisk /\ r # "files"
  BY <1>1 DEF Runs, Cells, OnDisk
<1>3. OpFits(op) /\ Allowed(op, bar)
  BY <1>1, <1>2 DEF OpFits, Allowed
<1>5. ActFits(op, C, E)
  BY <1>1, <1>2, ClassParts DEF ActFits
<1>4. After(op, C) = Class(h \ {r}, n \ {r}, l \ {r})
  <2>1. Changes(op, r) /\ ~Gets(op) /\ ~Nulls(op) /\ ~Loosens(op)
    BY <1>1, <1>2 DEF Changes, Gets, Nulls, Loosens
  <2> QED
    BY <1>1, <1>2, <2>1, ClassParts DEF After
<1> QED
  BY <1>3, <1>4, <1>5 DEF Goes

\* The operations on the files of lat_fs.
LEMMA FilesParts ==
  /\ Make("files").what = "make" /\ Make("files").r = "files" /\ Make("files").times = "once"
  /\ Unlink("files").what = "remove" /\ Unlink("files").r = "files"
  /\ Each(Make("files")).what = "make" /\ Each(Make("files")).r = "files"
  /\ Each(Make("files")).times = "each" /\ Each(Make("files")).when = "always"
  /\ Each(Unlink("files")).what = "remove" /\ Each(Unlink("files")).r = "files"
  /\ Each(Unlink("files")).times = "each" /\ Each(Unlink("files")).when = "always"
<1>1. Make("files").what = "make" /\ Make("files").r = "files" /\ Make("files").times = "once"
  BY DEF Make, Op
<1>2. Unlink("files").what = "remove" /\ Unlink("files").r = "files"
  BY DEF Unlink, Op
<1>3. /\ Each(Make("files")).what = "make" /\ Each(Make("files")).r = "files"
      /\ Each(Make("files")).times = "each" /\ Each(Make("files")).when = "always"
  BY DEF Each, Make, Op
<1>4. /\ Each(Unlink("files")).what = "remove" /\ Each(Unlink("files")).r = "files"
      /\ Each(Unlink("files")).times = "each" /\ Each(Unlink("files")).when = "always"
  BY DEF Each, Unlink, Op
<1> QED
  BY ONLY <1>1, <1>2, <1>3, <1>4

\* The next operation makes or removes files of lat_fs.
LEMMA GoesFiles ==
  ASSUME NEW op, NEW E, NEW bar, NEW h, NEW n, NEW l,
         IsTree, "files" \notin h, "files" \notin l,
         \/ op = Make("files") \/ op = Each(Make("files"))
         \/ op = Unlink("files") \/ op = Each(Unlink("files")),
         "make" \notin bar, "remove" \notin bar
  PROVE  Goes(op, Class(h, n, l), E, Class(h, n, l), bar)
<1>0. op.what \in {"make", "remove"} /\ op.r = "files"
  BY FilesParts
<1> DEFINE C == Class(h, n, l)
<1>1. "files" \notin Cells /\ "files" \in OnDisk
  BY DEF Cells, Resources, OnDisk
<1>2. OpFits(op) /\ Allowed(op, bar)
  BY <1>0, <1>1 DEF OpFits, Allowed
<1>3. ActFits(op, C, E)
  BY <1>0, ClassParts DEF ActFits
<1>4. After(op, C) = C
  <2>1. (\A x \in Cells : ~Changes(op, x)) /\ ~Tests(op, op.r)
    BY <1>0, <1>1 DEF Changes, Tests
  <2> QED
    BY <2>1 DEF After
<1> QED
  BY <1>2, <1>3, <1>4 DEF Goes

\* The next operation is done with an option that is not given.
LEMMA GoesSpared ==
  ASSUME NEW op, NEW E, NEW bar, NEW h, NEW n, NEW l,
         ~opt, "use" \notin bar,
         \/ op = CopyFile /\ "make" \notin bar
         \/ op = UnlinkCopy /\ "remove" \notin bar
         \/ \E r \in Resources : op = Opt(Use(r))
         \/ \E r \in Resources, how \in {"exit", "ignore"} :
              op = Opt(Get(r, how)) /\ "get" \notin bar /\ how \notin bar
  PROVE  Goes(op, Class(h, n, l), E, Class(h, n, l), bar)
<1> DEFINE C == Class(h, n, l)
<1>1. op.when = "option" /\ OpFits(op) /\ Allowed(op, bar)
  BY OptParts DEF CopyFile, UnlinkCopy, OpFits, Allowed, OnDisk
<1>2. ~Runs(op)
  BY <1>1 DEF Runs
<1>3. After(op, C) = C
  BY <1>2 DEF After, Changes, Tests
<1> QED
  BY <1>1, <1>2, <1>3 DEF Goes

\* A function that does nothing.
LEMMA TextEmpty ==
  ASSUME NEW T, NEW h, NEW n, NEW l, NEW bar, T = <<>>,
         h \subseteq Cells, n \subseteq Cells, l \subseteq Cells
  PROVE  TextFits(T, Class(h, n, l), bar) /\ Ends(T, Class(h, n, l)) = Class(h, n, l)
<1>1. Len(T) = 0 /\ Len(T) + 1 = 1
  OBVIOUS
<1>2. At(T, 1, Class(h, n, l)) = Class(h, n, l)
  BY AtFirst DEF Class
<1>3. \A k : k \notin 1..Len(T)
  BY <1>1
<1> QED
  BY <1>1, <1>2, <1>3 DEF TextFits, Ends

\* lat_fs_mk.
LEMMA FitsLatFsMk ==
  ASSUME prog = "lat_fs_mk", opt \in BOOLEAN
  PROVE  ProgramFits
<1>1. P = lat_fs_mk
  BY DEF P, Program
<1>2. /\ P.zero = <<>>
      /\ P.nonzero = <<Get("names", "ignore"), Get("dirs", "ignore"), MakeOrExit("dir"), Use("dirs"),
            Use("names")>>
      /\ P.body = <<Use("names"), Make("files")>>
      /\ P.after = <<Each(Unlink("files"))>> \o <<Use("names"), Free("names"), Use("dirs"),
            Unlink("dir"), Free("dirs")>>
      /\ P.end = <<>>
      /\ P.hasCleanup = TRUE
  BY <1>1 DEF lat_fs_mk, Idle, SetupNames, CleanupNames, CreateFile, UnlinkFile
<1>3. {"dirs", "names"} \subseteq Resources /\ Resources \subseteq Cells /\ {"clone", "dir"} \subseteq Cells
  BY DEF Resources, Cells
<1>4. Careless /\ IsTree
  BY DEF Careless, Unchecked, IsTree
\* initialize(0)
<1>5. ASSUME NEW T, T = <<>>
      PROVE  /\ TextFits(T, Class({}, {}, {}), {"return"})
             /\ Ends(T, Class({}, {}, {})) = Class({}, {}, {})
  <2>1. {} \subseteq Cells
    BY <1>3
  <2> QED
    BY ONLY <1>5, <2>1, TextEmpty
\* initialize(n)
<1>6. ASSUME NEW T, T = <<Get("names", "ignore"), Get("dirs", "ignore"), MakeOrExit("dir"),
          Use("dirs"), Use("names")>>
      PROVE  /\ TextFits(T, Class({}, {}, {}), {"return", "cleanup"})
             /\ Ends(T, Class({}, {}, {})) = Class({"names", "dirs", "dir"}, {}, {})
  <2> DEFINE G(op, C, D) == Goes(op, C, Class({}, {}, {}), D, {"return", "cleanup", "need"})
  <2>1. Len(T) = 5
    BY ONLY <1>6
  <2>2. /\ T[1] = Get("names", "ignore")
        /\ T[2] = Get("dirs", "ignore")
        /\ T[3] = MakeOrExit("dir")
        /\ T[4] = Use("dirs")
        /\ T[5] = Use("names")
    BY ONLY <1>6
  <2>3. /\ {} \union {"names"} = {"names"}
        /\ {} \ {"names"} = {}
        /\ {"names"} \union {"dirs"} = {"names", "dirs"}
        /\ {} \ {"dirs"} = {}
        /\ {"names", "dirs"} \union {"dir"} = {"names", "dirs", "dir"}
        /\ {} \ {"dir"} = {}
    OBVIOUS
  <2>4. G(T[1], Class({}, {}, {}), Class({"names"}, {}, {}))
    BY <1>3, <1>4, <2>2, <2>3, GoesGet
  <2>5. G(T[2], Class({"names"}, {}, {}), Class({"names", "dirs"}, {}, {}))
    BY <1>3, <1>4, <2>2, <2>3, GoesGet
  <2>6. G(T[3], Class({"names", "dirs"}, {}, {}), Class({"names", "dirs", "dir"}, {}, {}))
    BY <1>3, <1>4, <2>2, <2>3, GoesMake
  <2>7. G(T[4], Class({"names", "dirs", "dir"}, {}, {}), Class({"names", "dirs", "dir"}, {}, {}))
    BY <1>3, <1>4, <2>2, GoesUse
  <2>8. G(T[5], Class({"names", "dirs", "dir"}, {}, {}), Class({"names", "dirs", "dir"}, {}, {}))
    BY <1>3, <1>4, <2>2, GoesUse
  <2>9. Upto(T, 1, Class({}, {}, {}), Class({}, {}, {}), {"return", "cleanup", "need"})
    BY <1>3, UptoFirst
  <2>10. Upto(T, 4, Class({}, {}, {}), Class({"names", "dirs", "dir"}, {}, {}), {"return", "cleanup", "need"})
    BY <2>9, <2>4, <2>5, <2>6, UptoStep
  <2>11. Upto(T, 6, Class({}, {}, {}), Class({"names", "dirs", "dir"}, {}, {}), {"return", "cleanup", "need"})
    BY <2>10, <2>7, <2>8, UptoStep
  <2>12. 6 = Len(T) + 1 /\ Len(T) \in Nat
    BY ONLY <2>1
  <2> QED
    BY ONLY <2>11, <2>12, UptoEnd
\* benchmark(n)
<1>7. ASSUME NEW T, T = <<Use("names"), Make("files")>>
      PROVE  /\ TextFits(T, Class({"names", "dirs", "dir"}, {}, {}), {"cleanup"})
             /\ Ends(T, Class({"names", "dirs", "dir"}, {}, {})) = Class({"names", "dirs", "dir"}, {}, {})
  <2> DEFINE G(op, C, D) == Goes(op, C, Class({"names", "dirs", "dir"}, {}, {}), D, {"cleanup", "need"})
  <2>1. Len(T) = 2
    BY ONLY <1>7
  <2>2. /\ T[1] = Use("names")
        /\ T[2] = Make("files")
    BY ONLY <1>7
  <2>3. G(T[1], Class({"names", "dirs", "dir"}, {}, {}), Class({"names", "dirs", "dir"}, {}, {}))
    BY <1>3, <1>4, <2>2, GoesUse
  <2>4. G(T[2], Class({"names", "dirs", "dir"}, {}, {}), Class({"names", "dirs", "dir"}, {}, {}))
    BY <1>3, <1>4, <2>2, GoesFiles
  <2>5. Upto(T, 1, Class({"names", "dirs", "dir"}, {}, {}), Class({"names", "dirs", "dir"}, {}, {}), {"cleanup", "need"})
    BY <1>3, UptoFirst
  <2>6. Upto(T, 3, Class({"names", "dirs", "dir"}, {}, {}), Class({"names", "dirs", "dir"}, {}, {}), {"cleanup", "need"})
    BY <2>5, <2>3, <2>4, UptoStep
  <2>7. 3 = Len(T) + 1 /\ Len(T) \in Nat
    BY ONLY <2>1
  <2> QED
    BY ONLY <2>6, <2>7, UptoEnd
\* cleanup(n)
<1>8. ASSUME NEW T, T = <<Each(Unlink("files"))>> \o <<Use("names"), Free("names"), Use("dirs"),
          Unlink("dir"), Free("dirs")>>
      PROVE  /\ TextFits(T, Class({"names", "dirs", "dir"}, {}, {}), {"return", "cleanup"})
             /\ Ends(T, Class({"names", "dirs", "dir"}, {}, {})) = Class({}, {}, {})
  <2> DEFINE G(op, C, D) == Goes(op, C, Class({"names", "dirs", "dir"}, {}, {}), D, {"return", "cleanup", "need"})
  <2>1. Len(T) = 6
    BY ONLY <1>8
  <2>2. /\ T[1] = Each(Unlink("files"))
        /\ T[2] = Use("names")
        /\ T[3] = Free("names")
        /\ T[4] = Use("dirs")
        /\ T[5] = Unlink("dir")
        /\ T[6] = Free("dirs")
    BY ONLY <1>8
  <2>3. /\ {"names", "dirs", "dir"} \ {"names"} = {"dirs", "dir"}
        /\ {} \ {"names"} = {}
        /\ {"dirs", "dir"} \ {"dir"} = {"dirs"}
        /\ {} \ {"dir"} = {}
        /\ {"dirs"} \ {"dirs"} = {}
        /\ {} \ {"dirs"} = {}
    OBVIOUS
  <2>4. G(T[1], Class({"names", "dirs", "dir"}, {}, {}), Class({"names", "dirs", "dir"}, {}, {}))
    BY <1>3, <1>4, <2>2, GoesFiles
  <2>5. G(T[2], Class({"names", "dirs", "dir"}, {}, {}), Class({"names", "dirs", "dir"}, {}, {}))
    BY <1>3, <1>4, <2>2, GoesUse
  <2>6. G(T[3], Class({"names", "dirs", "dir"}, {}, {}), Class({"dirs", "dir"}, {}, {}))
    BY <1>3, <1>4, <2>2, <2>3, GoesDrop, ReleaseParts
  <2>7. G(T[4], Class({"dirs", "dir"}, {}, {}), Class({"dirs", "dir"}, {}, {}))
    BY <1>3, <1>4, <2>2, GoesUse
  <2>8. G(T[5], Class({"dirs", "dir"}, {}, {}), Class({"dirs"}, {}, {}))
    BY <1>3, <1>4, <2>2, <2>3, GoesRemove
  <2>9. G(T[6], Class({"dirs"}, {}, {}), Class({}, {}, {}))
    BY <1>3, <1>4, <2>2, <2>3, GoesDrop, ReleaseParts
  <2>10. Upto(T, 1, Class({"names", "dirs", "dir"}, {}, {}), Class({"names", "dirs", "dir"}, {}, {}), {"return", "cleanup", "need"})
    BY <1>3, UptoFirst
  <2>11. Upto(T, 4, Class({"names", "dirs", "dir"}, {}, {}), Class({"dirs", "dir"}, {}, {}), {"return", "cleanup", "need"})
    BY <2>10, <2>4, <2>5, <2>6, UptoStep
  <2>12. Upto(T, 7, Class({"names", "dirs", "dir"}, {}, {}), Class({}, {}, {}), {"return", "cleanup", "need"})
    BY <2>11, <2>7, <2>8, <2>9, UptoStep
  <2>13. 7 = Len(T) + 1 /\ Len(T) \in Nat
    BY ONLY <2>1
  <2> QED
    BY ONLY <2>12, <2>13, UptoEnd
\* cleanup(0)
<1>9. ASSUME NEW T, T = <<>>
      PROVE  /\ TextFits(T, Class({}, {}, {}), {"return", "cleanup", "make", "get"})
             /\ Ends(T, Class({}, {}, {})) = Class({}, {}, {})
  <2>1. {} \subseteq Cells
    BY <1>3
  <2> QED
    BY ONLY <1>9, <2>1, TextEmpty
<1>10. Nothing = Class({}, {}, {})
  BY DEF Nothing, Class
<1>11. ProgramFits
  <2>1. Between = Class({}, {}, {}) /\ During = Class({"names", "dirs", "dir"}, {}, {}) /\ Kept = {} /\ Loose = {}
    BY <1>4 DEF Between, During, Kept, KeptBy, KeptWithOption, Nulled, Loose, Class
  <2>2. TextFits(P.zero, Nothing, {"return"}) /\ Ends(P.zero, Nothing) = Class({}, {}, {})
    BY <1>2, <1>5, <1>10, <2>1
  <2>3. TextFits(P.nonzero, Between, {"return", "cleanup"}) /\ Ends(P.nonzero, Between) = Class({"names", "dirs", "dir"}, {}, {})
    BY <1>2, <1>6, <2>1
  <2>4. TextFits(P.body, During, {"cleanup"}) /\ Ends(P.body, During) = Class({"names", "dirs", "dir"}, {}, {})
    BY <1>2, <1>7, <2>1
  <2>5. TextFits(P.after, During, {"return", "cleanup"}) /\ Ends(P.after, During) = Class({}, {}, {})
    BY <1>2, <1>8, <2>1
  <2>6. TextFits(P.end, Between, {"return", "cleanup", "make", "get"}) /\ Ends(P.end, Between) = Class({}, {}, {})
    BY <1>2, <1>9, <2>1
  <2>7. Covers(Class({}, {}, {}), Class({}, {}, {})) /\ Covers(Class({"names", "dirs", "dir"}, {}, {}), Class({"names", "dirs", "dir"}, {}, {})) /\ Covers(Class({}, {}, {}), Class({}, {}, {}))
    BY ClassParts DEF Covers
  <2>8. {"clone", "dir"} \intersect (Ends(P.end, Between).held \union Ends(P.end, Between).loose) = {}
    BY <2>6, ClassParts
  <2>9. ~P.hasCleanup => {"clone", "dir"} \intersect (Kept \union Loose) = {}
    BY <1>2, <2>1
  <2> QED
    BY ONLY <2>1, <2>2, <2>3, <2>4, <2>5, <2>6, <2>7, <2>8, <2>9 DEF ProgramFits
<1> QED
  BY <1>11

\* lat_fs_rm.
LEMMA FitsLatFsRm ==
  ASSUME prog = "lat_fs_rm", opt \in BOOLEAN
  PROVE  ProgramFits
<1>1. P = lat_fs_rm
  BY DEF P, Program
<1>2. /\ P.zero = <<>>
      /\ P.nonzero = <<Get("names", "ignore"), Get("dirs", "ignore"), MakeOrExit("dir"), Use("dirs"),
            Use("names")>> \o <<Each(Make("files"))>>
      /\ P.body = <<Use("names"), Unlink("files")>>
      /\ P.after = <<Use("names"), Free("names"), Use("dirs"), Unlink("dir"), Free("dirs")>>
      /\ P.end = <<>>
      /\ P.hasCleanup = TRUE
  BY <1>1 DEF lat_fs_rm, Idle, SetupNames, CleanupNames, CreateFile, UnlinkFile
<1>3. {"dirs", "names"} \subseteq Resources /\ Resources \subseteq Cells /\ {"clone", "dir"} \subseteq Cells
  BY DEF Resources, Cells
<1>4. Careless /\ IsTree
  BY DEF Careless, Unchecked, IsTree
\* initialize(0)
<1>5. ASSUME NEW T, T = <<>>
      PROVE  /\ TextFits(T, Class({}, {}, {}), {"return"})
             /\ Ends(T, Class({}, {}, {})) = Class({}, {}, {})
  <2>1. {} \subseteq Cells
    BY <1>3
  <2> QED
    BY ONLY <1>5, <2>1, TextEmpty
\* initialize(n)
<1>6. ASSUME NEW T, T = <<Get("names", "ignore"), Get("dirs", "ignore"), MakeOrExit("dir"),
          Use("dirs"), Use("names")>> \o <<Each(Make("files"))>>
      PROVE  /\ TextFits(T, Class({}, {}, {}), {"return", "cleanup"})
             /\ Ends(T, Class({}, {}, {})) = Class({"names", "dirs", "dir"}, {}, {})
  <2> DEFINE G(op, C, D) == Goes(op, C, Class({}, {}, {}), D, {"return", "cleanup", "need"})
  <2>1. Len(T) = 6
    BY ONLY <1>6
  <2>2. /\ T[1] = Get("names", "ignore")
        /\ T[2] = Get("dirs", "ignore")
        /\ T[3] = MakeOrExit("dir")
        /\ T[4] = Use("dirs")
        /\ T[5] = Use("names")
        /\ T[6] = Each(Make("files"))
    BY ONLY <1>6
  <2>3. /\ {} \union {"names"} = {"names"}
        /\ {} \ {"names"} = {}
        /\ {"names"} \union {"dirs"} = {"names", "dirs"}
        /\ {} \ {"dirs"} = {}
        /\ {"names", "dirs"} \union {"dir"} = {"names", "dirs", "dir"}
        /\ {} \ {"dir"} = {}
    OBVIOUS
  <2>4. G(T[1], Class({}, {}, {}), Class({"names"}, {}, {}))
    BY <1>3, <1>4, <2>2, <2>3, GoesGet
  <2>5. G(T[2], Class({"names"}, {}, {}), Class({"names", "dirs"}, {}, {}))
    BY <1>3, <1>4, <2>2, <2>3, GoesGet
  <2>6. G(T[3], Class({"names", "dirs"}, {}, {}), Class({"names", "dirs", "dir"}, {}, {}))
    BY <1>3, <1>4, <2>2, <2>3, GoesMake
  <2>7. G(T[4], Class({"names", "dirs", "dir"}, {}, {}), Class({"names", "dirs", "dir"}, {}, {}))
    BY <1>3, <1>4, <2>2, GoesUse
  <2>8. G(T[5], Class({"names", "dirs", "dir"}, {}, {}), Class({"names", "dirs", "dir"}, {}, {}))
    BY <1>3, <1>4, <2>2, GoesUse
  <2>9. G(T[6], Class({"names", "dirs", "dir"}, {}, {}), Class({"names", "dirs", "dir"}, {}, {}))
    BY <1>3, <1>4, <2>2, GoesFiles
  <2>10. Upto(T, 1, Class({}, {}, {}), Class({}, {}, {}), {"return", "cleanup", "need"})
    BY <1>3, UptoFirst
  <2>11. Upto(T, 4, Class({}, {}, {}), Class({"names", "dirs", "dir"}, {}, {}), {"return", "cleanup", "need"})
    BY <2>10, <2>4, <2>5, <2>6, UptoStep
  <2>12. Upto(T, 7, Class({}, {}, {}), Class({"names", "dirs", "dir"}, {}, {}), {"return", "cleanup", "need"})
    BY <2>11, <2>7, <2>8, <2>9, UptoStep
  <2>13. 7 = Len(T) + 1 /\ Len(T) \in Nat
    BY ONLY <2>1
  <2> QED
    BY ONLY <2>12, <2>13, UptoEnd
\* benchmark(n)
<1>7. ASSUME NEW T, T = <<Use("names"), Unlink("files")>>
      PROVE  /\ TextFits(T, Class({"names", "dirs", "dir"}, {}, {}), {"cleanup"})
             /\ Ends(T, Class({"names", "dirs", "dir"}, {}, {})) = Class({"names", "dirs", "dir"}, {}, {})
  <2> DEFINE G(op, C, D) == Goes(op, C, Class({"names", "dirs", "dir"}, {}, {}), D, {"cleanup", "need"})
  <2>1. Len(T) = 2
    BY ONLY <1>7
  <2>2. /\ T[1] = Use("names")
        /\ T[2] = Unlink("files")
    BY ONLY <1>7
  <2>3. G(T[1], Class({"names", "dirs", "dir"}, {}, {}), Class({"names", "dirs", "dir"}, {}, {}))
    BY <1>3, <1>4, <2>2, GoesUse
  <2>4. G(T[2], Class({"names", "dirs", "dir"}, {}, {}), Class({"names", "dirs", "dir"}, {}, {}))
    BY <1>3, <1>4, <2>2, GoesFiles
  <2>5. Upto(T, 1, Class({"names", "dirs", "dir"}, {}, {}), Class({"names", "dirs", "dir"}, {}, {}), {"cleanup", "need"})
    BY <1>3, UptoFirst
  <2>6. Upto(T, 3, Class({"names", "dirs", "dir"}, {}, {}), Class({"names", "dirs", "dir"}, {}, {}), {"cleanup", "need"})
    BY <2>5, <2>3, <2>4, UptoStep
  <2>7. 3 = Len(T) + 1 /\ Len(T) \in Nat
    BY ONLY <2>1
  <2> QED
    BY ONLY <2>6, <2>7, UptoEnd
\* cleanup(n)
<1>8. ASSUME NEW T, T = <<Use("names"), Free("names"), Use("dirs"), Unlink("dir"), Free("dirs")>>
      PROVE  /\ TextFits(T, Class({"names", "dirs", "dir"}, {}, {}), {"return", "cleanup"})
             /\ Ends(T, Class({"names", "dirs", "dir"}, {}, {})) = Class({}, {}, {})
  <2> DEFINE G(op, C, D) == Goes(op, C, Class({"names", "dirs", "dir"}, {}, {}), D, {"return", "cleanup", "need"})
  <2>1. Len(T) = 5
    BY ONLY <1>8
  <2>2. /\ T[1] = Use("names")
        /\ T[2] = Free("names")
        /\ T[3] = Use("dirs")
        /\ T[4] = Unlink("dir")
        /\ T[5] = Free("dirs")
    BY ONLY <1>8
  <2>3. /\ {"names", "dirs", "dir"} \ {"names"} = {"dirs", "dir"}
        /\ {} \ {"names"} = {}
        /\ {"dirs", "dir"} \ {"dir"} = {"dirs"}
        /\ {} \ {"dir"} = {}
        /\ {"dirs"} \ {"dirs"} = {}
        /\ {} \ {"dirs"} = {}
    OBVIOUS
  <2>4. G(T[1], Class({"names", "dirs", "dir"}, {}, {}), Class({"names", "dirs", "dir"}, {}, {}))
    BY <1>3, <1>4, <2>2, GoesUse
  <2>5. G(T[2], Class({"names", "dirs", "dir"}, {}, {}), Class({"dirs", "dir"}, {}, {}))
    BY <1>3, <1>4, <2>2, <2>3, GoesDrop, ReleaseParts
  <2>6. G(T[3], Class({"dirs", "dir"}, {}, {}), Class({"dirs", "dir"}, {}, {}))
    BY <1>3, <1>4, <2>2, GoesUse
  <2>7. G(T[4], Class({"dirs", "dir"}, {}, {}), Class({"dirs"}, {}, {}))
    BY <1>3, <1>4, <2>2, <2>3, GoesRemove
  <2>8. G(T[5], Class({"dirs"}, {}, {}), Class({}, {}, {}))
    BY <1>3, <1>4, <2>2, <2>3, GoesDrop, ReleaseParts
  <2>9. Upto(T, 1, Class({"names", "dirs", "dir"}, {}, {}), Class({"names", "dirs", "dir"}, {}, {}), {"return", "cleanup", "need"})
    BY <1>3, UptoFirst
  <2>10. Upto(T, 4, Class({"names", "dirs", "dir"}, {}, {}), Class({"dirs", "dir"}, {}, {}), {"return", "cleanup", "need"})
    BY <2>9, <2>4, <2>5, <2>6, UptoStep
  <2>11. Upto(T, 6, Class({"names", "dirs", "dir"}, {}, {}), Class({}, {}, {}), {"return", "cleanup", "need"})
    BY <2>10, <2>7, <2>8, UptoStep
  <2>12. 6 = Len(T) + 1 /\ Len(T) \in Nat
    BY ONLY <2>1
  <2> QED
    BY ONLY <2>11, <2>12, UptoEnd
\* cleanup(0)
<1>9. ASSUME NEW T, T = <<>>
      PROVE  /\ TextFits(T, Class({}, {}, {}), {"return", "cleanup", "make", "get"})
             /\ Ends(T, Class({}, {}, {})) = Class({}, {}, {})
  <2>1. {} \subseteq Cells
    BY <1>3
  <2> QED
    BY ONLY <1>9, <2>1, TextEmpty
<1>10. Nothing = Class({}, {}, {})
  BY DEF Nothing, Class
<1>11. ProgramFits
  <2>1. Between = Class({}, {}, {}) /\ During = Class({"names", "dirs", "dir"}, {}, {}) /\ Kept = {} /\ Loose = {}
    BY <1>4 DEF Between, During, Kept, KeptBy, KeptWithOption, Nulled, Loose, Class
  <2>2. TextFits(P.zero, Nothing, {"return"}) /\ Ends(P.zero, Nothing) = Class({}, {}, {})
    BY <1>2, <1>5, <1>10, <2>1
  <2>3. TextFits(P.nonzero, Between, {"return", "cleanup"}) /\ Ends(P.nonzero, Between) = Class({"names", "dirs", "dir"}, {}, {})
    BY <1>2, <1>6, <2>1
  <2>4. TextFits(P.body, During, {"cleanup"}) /\ Ends(P.body, During) = Class({"names", "dirs", "dir"}, {}, {})
    BY <1>2, <1>7, <2>1
  <2>5. TextFits(P.after, During, {"return", "cleanup"}) /\ Ends(P.after, During) = Class({}, {}, {})
    BY <1>2, <1>8, <2>1
  <2>6. TextFits(P.end, Between, {"return", "cleanup", "make", "get"}) /\ Ends(P.end, Between) = Class({}, {}, {})
    BY <1>2, <1>9, <2>1
  <2>7. Covers(Class({}, {}, {}), Class({}, {}, {})) /\ Covers(Class({"names", "dirs", "dir"}, {}, {}), Class({"names", "dirs", "dir"}, {}, {})) /\ Covers(Class({}, {}, {}), Class({}, {}, {}))
    BY ClassParts DEF Covers
  <2>8. {"clone", "dir"} \intersect (Ends(P.end, Between).held \union Ends(P.end, Between).loose) = {}
    BY <2>6, ClassParts
  <2>9. ~P.hasCleanup => {"clone", "dir"} \intersect (Kept \union Loose) = {}
    BY <1>2, <2>1
  <2> QED
    BY ONLY <2>1, <2>2, <2>3, <2>4, <2>5, <2>6, <2>7, <2>8, <2>9 DEF ProgramFits
<1> QED
  BY <1>11

\* lat_mmap.
LEMMA FitsLatMmap ==
  ASSUME prog = "lat_mmap", opt \in BOOLEAN
  PROVE  ProgramFits
<1>1. P = lat_mmap
  BY DEF P, Program
<1>2. /\ P.zero = <<CopyFile, Get("fd", "exit"), UnlinkCopy, Check>>
      /\ P.nonzero = <<>>
      /\ P.body = <<Get("map", "exit"), Use("map"), Close("map")>>
      /\ P.after = <<>>
      /\ P.end = <<Close("fd")>>
      /\ P.hasCleanup = TRUE
  BY <1>1 DEF lat_mmap, Idle
<1>3. {"fd", "map"} \subseteq Resources /\ Resources \subseteq Cells /\ {"clone", "dir"} \subseteq Cells
  BY DEF Resources, Cells
<1>4. ~Careless /\ ~IsTree
  BY DEF Careless, Unchecked, IsTree
\* initialize(0), with the option
<1>5. ASSUME NEW T, T = <<CopyFile, Get("fd", "exit"), UnlinkCopy, Check>>, opt
      PROVE  /\ TextFits(T, Class({}, {}, {}), {"return"})
             /\ Ends(T, Class({}, {}, {})) = Class({"fd"}, {}, {})
  <2> DEFINE G(op, C, D) == Goes(op, C, Class({}, {}, {}), D, {"return", "need"})
  <2>0. opt
    BY ONLY <1>5
  <2>1. Len(T) = 4
    BY ONLY <1>5
  <2>2. /\ T[1] = CopyFile
        /\ T[2] = Get("fd", "exit")
        /\ T[3] = UnlinkCopy
        /\ T[4] = Check
    BY ONLY <1>5
  <2>3. /\ {} \union {"clone"} = {"clone"}
        /\ {} \ {"clone"} = {}
        /\ {"clone"} \union {"fd"} = {"clone", "fd"}
        /\ {} \ {"fd"} = {}
        /\ {"clone", "fd"} \ {"clone"} = {"fd"}
    OBVIOUS
  <2>4. G(T[1], Class({}, {}, {}), Class({"clone"}, {}, {}))
    BY <2>0, <1>3, <1>4, <2>2, <2>3, GoesMake DEF CopyFile
  <2>5. G(T[2], Class({"clone"}, {}, {}), Class({"clone", "fd"}, {}, {}))
    BY <1>3, <1>4, <2>2, <2>3, GoesGetOrExit
  <2>6. G(T[3], Class({"clone", "fd"}, {}, {}), Class({"fd"}, {}, {}))
    BY <2>0, <1>3, <1>4, <2>2, <2>3, GoesRemove DEF UnlinkCopy
  <2>7. G(T[4], Class({"fd"}, {}, {}), Class({"fd"}, {}, {}))
    BY <1>3, <1>4, <2>2, GoesCheck
  <2>8. Upto(T, 1, Class({}, {}, {}), Class({}, {}, {}), {"return", "need"})
    BY <1>3, UptoFirst
  <2>9. Upto(T, 4, Class({}, {}, {}), Class({"fd"}, {}, {}), {"return", "need"})
    BY <2>8, <2>4, <2>5, <2>6, UptoStep
  <2>10. Upto(T, 5, Class({}, {}, {}), Class({"fd"}, {}, {}), {"return", "need"})
    BY <2>9, <2>7, UptoStep
  <2>11. 5 = Len(T) + 1 /\ Len(T) \in Nat
    BY ONLY <2>1
  <2> QED
    BY ONLY <2>10, <2>11, UptoEnd
\* initialize(0), without the option
<1>6. ASSUME NEW T, T = <<CopyFile, Get("fd", "exit"), UnlinkCopy, Check>>, ~opt
      PROVE  /\ TextFits(T, Class({}, {}, {}), {"return"})
             /\ Ends(T, Class({}, {}, {})) = Class({"fd"}, {}, {})
  <2> DEFINE G(op, C, D) == Goes(op, C, Class({}, {}, {}), D, {"return", "need"})
  <2>0. ~opt
    BY ONLY <1>6
  <2>1. Len(T) = 4
    BY ONLY <1>6
  <2>2. /\ T[1] = CopyFile
        /\ T[2] = Get("fd", "exit")
        /\ T[3] = UnlinkCopy
        /\ T[4] = Check
    BY ONLY <1>6
  <2>3. /\ {} \union {"fd"} = {"fd"}
        /\ {} \ {"fd"} = {}
    OBVIOUS
  <2>4. G(T[1], Class({}, {}, {}), Class({}, {}, {}))
    BY <2>0, <1>3, <1>4, <2>2, GoesSpared
  <2>5. G(T[2], Class({}, {}, {}), Class({"fd"}, {}, {}))
    BY <1>3, <1>4, <2>2, <2>3, GoesGetOrExit
  <2>6. G(T[3], Class({"fd"}, {}, {}), Class({"fd"}, {}, {}))
    BY <2>0, <1>3, <1>4, <2>2, GoesSpared
  <2>7. G(T[4], Class({"fd"}, {}, {}), Class({"fd"}, {}, {}))
    BY <1>3, <1>4, <2>2, GoesCheck
  <2>8. Upto(T, 1, Class({}, {}, {}), Class({}, {}, {}), {"return", "need"})
    BY <1>3, UptoFirst
  <2>9. Upto(T, 4, Class({}, {}, {}), Class({"fd"}, {}, {}), {"return", "need"})
    BY <2>8, <2>4, <2>5, <2>6, UptoStep
  <2>10. Upto(T, 5, Class({}, {}, {}), Class({"fd"}, {}, {}), {"return", "need"})
    BY <2>9, <2>7, UptoStep
  <2>11. 5 = Len(T) + 1 /\ Len(T) \in Nat
    BY ONLY <2>1
  <2> QED
    BY ONLY <2>10, <2>11, UptoEnd
\* initialize(n)
<1>7. ASSUME NEW T, T = <<>>
      PROVE  /\ TextFits(T, Class({"fd"}, {}, {}), {"return", "cleanup"})
             /\ Ends(T, Class({"fd"}, {}, {})) = Class({"fd"}, {}, {})
  <2>1. {"fd"} \subseteq Cells /\ {} \subseteq Cells
    BY <1>3
  <2> QED
    BY ONLY <1>7, <2>1, TextEmpty
\* benchmark(n)
<1>8. ASSUME NEW T, T = <<Get("map", "exit"), Use("map"), Close("map")>>
      PROVE  /\ TextFits(T, Class({"fd"}, {}, {}), {"cleanup"})
             /\ Ends(T, Class({"fd"}, {}, {})) = Class({"fd"}, {}, {})
  <2> DEFINE G(op, C, D) == Goes(op, C, Class({"fd"}, {}, {}), D, {"cleanup", "need"})
  <2>1. Len(T) = 3
    BY ONLY <1>8
  <2>2. /\ T[1] = Get("map", "exit")
        /\ T[2] = Use("map")
        /\ T[3] = Close("map")
    BY ONLY <1>8
  <2>3. /\ {"fd"} \union {"map"} = {"fd", "map"}
        /\ {} \ {"map"} = {}
        /\ {"fd", "map"} \ {"map"} = {"fd"}
    OBVIOUS
  <2>4. G(T[1], Class({"fd"}, {}, {}), Class({"fd", "map"}, {}, {}))
    BY <1>3, <1>4, <2>2, <2>3, GoesGetOrExit
  <2>5. G(T[2], Class({"fd", "map"}, {}, {}), Class({"fd", "map"}, {}, {}))
    BY <1>3, <1>4, <2>2, GoesUse
  <2>6. G(T[3], Class({"fd", "map"}, {}, {}), Class({"fd"}, {}, {}))
    BY <1>3, <1>4, <2>2, <2>3, GoesDrop, ReleaseParts
  <2>7. Upto(T, 1, Class({"fd"}, {}, {}), Class({"fd"}, {}, {}), {"cleanup", "need"})
    BY <1>3, UptoFirst
  <2>8. Upto(T, 4, Class({"fd"}, {}, {}), Class({"fd"}, {}, {}), {"cleanup", "need"})
    BY <2>7, <2>4, <2>5, <2>6, UptoStep
  <2>9. 4 = Len(T) + 1 /\ Len(T) \in Nat
    BY ONLY <2>1
  <2> QED
    BY ONLY <2>8, <2>9, UptoEnd
\* cleanup(n)
<1>9. ASSUME NEW T, T = <<>>
      PROVE  /\ TextFits(T, Class({"fd"}, {}, {}), {"return", "cleanup"})
             /\ Ends(T, Class({"fd"}, {}, {})) = Class({"fd"}, {}, {})
  <2>1. {"fd"} \subseteq Cells /\ {} \subseteq Cells
    BY <1>3
  <2> QED
    BY ONLY <1>9, <2>1, TextEmpty
\* cleanup(0)
<1>10. ASSUME NEW T, T = <<Close("fd")>>
      PROVE  /\ TextFits(T, Class({"fd"}, {}, {}), {"return", "cleanup", "make", "get"})
             /\ Ends(T, Class({"fd"}, {}, {})) = Class({}, {}, {})
  <2> DEFINE G(op, C, D) == Goes(op, C, Class({"fd"}, {}, {}), D, {"return", "cleanup", "make", "get", "need"})
  <2>1. Len(T) = 1
    BY ONLY <1>10
  <2>2. /\ T[1] = Close("fd")
    BY ONLY <1>10
  <2>3. /\ {"fd"} \ {"fd"} = {}
        /\ {} \ {"fd"} = {}
    OBVIOUS
  <2>4. G(T[1], Class({"fd"}, {}, {}), Class({}, {}, {}))
    BY <1>3, <1>4, <2>2, <2>3, GoesDrop, ReleaseParts
  <2>5. Upto(T, 1, Class({"fd"}, {}, {}), Class({"fd"}, {}, {}), {"return", "cleanup", "make", "get", "need"})
    BY <1>3, UptoFirst
  <2>6. Upto(T, 2, Class({"fd"}, {}, {}), Class({}, {}, {}), {"return", "cleanup", "make", "get", "need"})
    BY <2>5, <2>4, UptoStep
  <2>7. 2 = Len(T) + 1 /\ Len(T) \in Nat
    BY ONLY <2>1
  <2> QED
    BY ONLY <2>6, <2>7, UptoEnd
<1>11. Nothing = Class({}, {}, {})
  BY DEF Nothing, Class
<1>12. CASE opt
  <2>1. Between = Class({"fd"}, {}, {}) /\ During = Class({"fd"}, {}, {}) /\ Kept = {"fd"} /\ Loose = {}
    BY <1>12, <1>4 DEF Between, During, Kept, KeptBy, KeptWithOption, Nulled, Loose, Class
  <2>2. TextFits(P.zero, Nothing, {"return"}) /\ Ends(P.zero, Nothing) = Class({"fd"}, {}, {})
    BY <1>2, <1>5, <1>11, <1>12, <2>1
  <2>3. TextFits(P.nonzero, Between, {"return", "cleanup"}) /\ Ends(P.nonzero, Between) = Class({"fd"}, {}, {})
    BY <1>2, <1>7, <1>12, <2>1
  <2>4. TextFits(P.body, During, {"cleanup"}) /\ Ends(P.body, During) = Class({"fd"}, {}, {})
    BY <1>2, <1>8, <1>12, <2>1
  <2>5. TextFits(P.after, During, {"return", "cleanup"}) /\ Ends(P.after, During) = Class({"fd"}, {}, {})
    BY <1>2, <1>9, <1>12, <2>1
  <2>6. TextFits(P.end, Between, {"return", "cleanup", "make", "get"}) /\ Ends(P.end, Between) = Class({}, {}, {})
    BY <1>2, <1>10, <1>12, <2>1
  <2>7. Covers(Class({"fd"}, {}, {}), Class({"fd"}, {}, {})) /\ Covers(Class({"fd"}, {}, {}), Class({"fd"}, {}, {})) /\ Covers(Class({"fd"}, {}, {}), Class({"fd"}, {}, {}))
    BY ClassParts DEF Covers
  <2>8. {"clone", "dir"} \intersect (Ends(P.end, Between).held \union Ends(P.end, Between).loose) = {}
    BY <2>6, ClassParts
  <2>9. ~P.hasCleanup => {"clone", "dir"} \intersect (Kept \union Loose) = {}
    BY <1>2, <2>1
  <2> QED
    BY ONLY <2>1, <2>2, <2>3, <2>4, <2>5, <2>6, <2>7, <2>8, <2>9 DEF ProgramFits
<1>13. CASE ~opt
  <2>1. Between = Class({"fd"}, {}, {}) /\ During = Class({"fd"}, {}, {}) /\ Kept = {"fd"} /\ Loose = {}
    BY <1>13, <1>4 DEF Between, During, Kept, KeptBy, KeptWithOption, Nulled, Loose, Class
  <2>2. TextFits(P.zero, Nothing, {"return"}) /\ Ends(P.zero, Nothing) = Class({"fd"}, {}, {})
    BY <1>2, <1>6, <1>11, <1>13, <2>1
  <2>3. TextFits(P.nonzero, Between, {"return", "cleanup"}) /\ Ends(P.nonzero, Between) = Class({"fd"}, {}, {})
    BY <1>2, <1>7, <1>13, <2>1
  <2>4. TextFits(P.body, During, {"cleanup"}) /\ Ends(P.body, During) = Class({"fd"}, {}, {})
    BY <1>2, <1>8, <1>13, <2>1
  <2>5. TextFits(P.after, During, {"return", "cleanup"}) /\ Ends(P.after, During) = Class({"fd"}, {}, {})
    BY <1>2, <1>9, <1>13, <2>1
  <2>6. TextFits(P.end, Between, {"return", "cleanup", "make", "get"}) /\ Ends(P.end, Between) = Class({}, {}, {})
    BY <1>2, <1>10, <1>13, <2>1
  <2>7. Covers(Class({"fd"}, {}, {}), Class({"fd"}, {}, {})) /\ Covers(Class({"fd"}, {}, {}), Class({"fd"}, {}, {})) /\ Covers(Class({"fd"}, {}, {}), Class({"fd"}, {}, {}))
    BY ClassParts DEF Covers
  <2>8. {"clone", "dir"} \intersect (Ends(P.end, Between).held \union Ends(P.end, Between).loose) = {}
    BY <2>6, ClassParts
  <2>9. ~P.hasCleanup => {"clone", "dir"} \intersect (Kept \union Loose) = {}
    BY <1>2, <2>1
  <2> QED
    BY ONLY <2>1, <2>2, <2>3, <2>4, <2>5, <2>6, <2>7, <2>8, <2>9 DEF ProgramFits
<1> QED
  BY <1>12, <1>13

\* lat_pagefault.
LEMMA FitsLatPagefault ==
  ASSUME prog = "lat_pagefault", opt \in BOOLEAN
  PROVE  ProgramFits
<1>1. P = lat_pagefault
  BY DEF P, Program
<1>2. /\ P.zero = <<CopyFile, Get("fd", "exit"), UnlinkCopy, Get("pages", "ignore"), Check, Get("where",
            "exit")>>
      /\ P.nonzero = <<>>
      /\ P.body = <<Use("where"), Use("pages"), Close("where"), Get("where", "exit")>>
      /\ P.after = <<>>
      /\ P.end = <<Close("where"), CloseIf("fd"), Free("pages")>>
      /\ P.hasCleanup = TRUE
  BY <1>1 DEF lat_pagefault, Idle
<1>3. {"fd", "pages", "where"} \subseteq Resources /\ Resources \subseteq Cells /\ {"clone", "dir"} \subseteq Cells
  BY DEF Resources, Cells
<1>4. Careless /\ ~IsTree
  BY DEF Careless, Unchecked, IsTree
\* initialize(0), with the option
<1>5. ASSUME NEW T, T = <<CopyFile, Get("fd", "exit"), UnlinkCopy, Get("pages", "ignore"), Check,
          Get("where", "exit")>>, opt
      PROVE  /\ TextFits(T, Class({}, {}, {}), {"return"})
             /\ Ends(T, Class({}, {}, {})) = Class({"fd", "pages", "where"}, {}, {})
  <2> DEFINE G(op, C, D) == Goes(op, C, Class({}, {}, {}), D, {"return", "need"})
  <2>0. opt
    BY ONLY <1>5
  <2>1. Len(T) = 6
    BY ONLY <1>5
  <2>2. /\ T[1] = CopyFile
        /\ T[2] = Get("fd", "exit")
        /\ T[3] = UnlinkCopy
        /\ T[4] = Get("pages", "ignore")
        /\ T[5] = Check
        /\ T[6] = Get("where", "exit")
    BY ONLY <1>5
  <2>3. /\ {} \union {"clone"} = {"clone"}
        /\ {} \ {"clone"} = {}
        /\ {"clone"} \union {"fd"} = {"clone", "fd"}
        /\ {} \ {"fd"} = {}
        /\ {"clone", "fd"} \ {"clone"} = {"fd"}
        /\ {"fd"} \union {"pages"} = {"fd", "pages"}
        /\ {} \ {"pages"} = {}
        /\ {"fd", "pages"} \union {"where"} = {"fd", "pages", "where"}
        /\ {} \ {"where"} = {}
    OBVIOUS
  <2>4. G(T[1], Class({}, {}, {}), Class({"clone"}, {}, {}))
    BY <2>0, <1>3, <1>4, <2>2, <2>3, GoesMake DEF CopyFile
  <2>5. G(T[2], Class({"clone"}, {}, {}), Class({"clone", "fd"}, {}, {}))
    BY <1>3, <1>4, <2>2, <2>3, GoesGetOrExit
  <2>6. G(T[3], Class({"clone", "fd"}, {}, {}), Class({"fd"}, {}, {}))
    BY <2>0, <1>3, <1>4, <2>2, <2>3, GoesRemove DEF UnlinkCopy
  <2>7. G(T[4], Class({"fd"}, {}, {}), Class({"fd", "pages"}, {}, {}))
    BY <1>3, <1>4, <2>2, <2>3, GoesGet
  <2>8. G(T[5], Class({"fd", "pages"}, {}, {}), Class({"fd", "pages"}, {}, {}))
    BY <1>3, <1>4, <2>2, GoesCheck
  <2>9. G(T[6], Class({"fd", "pages"}, {}, {}), Class({"fd", "pages", "where"}, {}, {}))
    BY <1>3, <1>4, <2>2, <2>3, GoesGetOrExit
  <2>10. Upto(T, 1, Class({}, {}, {}), Class({}, {}, {}), {"return", "need"})
    BY <1>3, UptoFirst
  <2>11. Upto(T, 4, Class({}, {}, {}), Class({"fd"}, {}, {}), {"return", "need"})
    BY <2>10, <2>4, <2>5, <2>6, UptoStep
  <2>12. Upto(T, 7, Class({}, {}, {}), Class({"fd", "pages", "where"}, {}, {}), {"return", "need"})
    BY <2>11, <2>7, <2>8, <2>9, UptoStep
  <2>13. 7 = Len(T) + 1 /\ Len(T) \in Nat
    BY ONLY <2>1
  <2> QED
    BY ONLY <2>12, <2>13, UptoEnd
\* initialize(0), without the option
<1>6. ASSUME NEW T, T = <<CopyFile, Get("fd", "exit"), UnlinkCopy, Get("pages", "ignore"), Check,
          Get("where", "exit")>>, ~opt
      PROVE  /\ TextFits(T, Class({}, {}, {}), {"return"})
             /\ Ends(T, Class({}, {}, {})) = Class({"fd", "pages", "where"}, {}, {})
  <2> DEFINE G(op, C, D) == Goes(op, C, Class({}, {}, {}), D, {"return", "need"})
  <2>0. ~opt
    BY ONLY <1>6
  <2>1. Len(T) = 6
    BY ONLY <1>6
  <2>2. /\ T[1] = CopyFile
        /\ T[2] = Get("fd", "exit")
        /\ T[3] = UnlinkCopy
        /\ T[4] = Get("pages", "ignore")
        /\ T[5] = Check
        /\ T[6] = Get("where", "exit")
    BY ONLY <1>6
  <2>3. /\ {} \union {"fd"} = {"fd"}
        /\ {} \ {"fd"} = {}
        /\ {"fd"} \union {"pages"} = {"fd", "pages"}
        /\ {} \ {"pages"} = {}
        /\ {"fd", "pages"} \union {"where"} = {"fd", "pages", "where"}
        /\ {} \ {"where"} = {}
    OBVIOUS
  <2>4. G(T[1], Class({}, {}, {}), Class({}, {}, {}))
    BY <2>0, <1>3, <1>4, <2>2, GoesSpared
  <2>5. G(T[2], Class({}, {}, {}), Class({"fd"}, {}, {}))
    BY <1>3, <1>4, <2>2, <2>3, GoesGetOrExit
  <2>6. G(T[3], Class({"fd"}, {}, {}), Class({"fd"}, {}, {}))
    BY <2>0, <1>3, <1>4, <2>2, GoesSpared
  <2>7. G(T[4], Class({"fd"}, {}, {}), Class({"fd", "pages"}, {}, {}))
    BY <1>3, <1>4, <2>2, <2>3, GoesGet
  <2>8. G(T[5], Class({"fd", "pages"}, {}, {}), Class({"fd", "pages"}, {}, {}))
    BY <1>3, <1>4, <2>2, GoesCheck
  <2>9. G(T[6], Class({"fd", "pages"}, {}, {}), Class({"fd", "pages", "where"}, {}, {}))
    BY <1>3, <1>4, <2>2, <2>3, GoesGetOrExit
  <2>10. Upto(T, 1, Class({}, {}, {}), Class({}, {}, {}), {"return", "need"})
    BY <1>3, UptoFirst
  <2>11. Upto(T, 4, Class({}, {}, {}), Class({"fd"}, {}, {}), {"return", "need"})
    BY <2>10, <2>4, <2>5, <2>6, UptoStep
  <2>12. Upto(T, 7, Class({}, {}, {}), Class({"fd", "pages", "where"}, {}, {}), {"return", "need"})
    BY <2>11, <2>7, <2>8, <2>9, UptoStep
  <2>13. 7 = Len(T) + 1 /\ Len(T) \in Nat
    BY ONLY <2>1
  <2> QED
    BY ONLY <2>12, <2>13, UptoEnd
\* initialize(n)
<1>7. ASSUME NEW T, T = <<>>
      PROVE  /\ TextFits(T, Class({"fd", "pages", "where"}, {}, {}), {"return", "cleanup"})
             /\ Ends(T, Class({"fd", "pages", "where"}, {}, {})) = Class({"fd", "pages", "where"}, {}, {})
  <2>1. {"fd", "pages", "where"} \subseteq Cells /\ {} \subseteq Cells
    BY <1>3
  <2> QED
    BY ONLY <1>7, <2>1, TextEmpty
\* benchmark(n)
<1>8. ASSUME NEW T, T = <<Use("where"), Use("pages"), Close("where"), Get("where", "exit")>>
      PROVE  /\ TextFits(T, Class({"fd", "pages", "where"}, {}, {}), {"cleanup"})
             /\ Ends(T, Class({"fd", "pages", "where"}, {}, {})) = Class({"fd", "pages", "where"}, {}, {})
  <2> DEFINE G(op, C, D) == Goes(op, C, Class({"fd", "pages", "where"}, {}, {}), D, {"cleanup", "need"})
  <2>1. Len(T) = 4
    BY ONLY <1>8
  <2>2. /\ T[1] = Use("where")
        /\ T[2] = Use("pages")
        /\ T[3] = Close("where")
        /\ T[4] = Get("where", "exit")
    BY ONLY <1>8
  <2>3. /\ {"fd", "pages", "where"} \ {"where"} = {"fd", "pages"}
        /\ {} \ {"where"} = {}
        /\ {"fd", "pages"} \union {"where"} = {"fd", "pages", "where"}
    OBVIOUS
  <2>4. G(T[1], Class({"fd", "pages", "where"}, {}, {}), Class({"fd", "pages", "where"}, {}, {}))
    BY <1>3, <1>4, <2>2, GoesUse
  <2>5. G(T[2], Class({"fd", "pages", "where"}, {}, {}), Class({"fd", "pages", "where"}, {}, {}))
    BY <1>3, <1>4, <2>2, GoesUse
  <2>6. G(T[3], Class({"fd", "pages", "where"}, {}, {}), Class({"fd", "pages"}, {}, {}))
    BY <1>3, <1>4, <2>2, <2>3, GoesDrop, ReleaseParts
  <2>7. G(T[4], Class({"fd", "pages"}, {}, {}), Class({"fd", "pages", "where"}, {}, {}))
    BY <1>3, <1>4, <2>2, <2>3, GoesGetOrExit
  <2>8. Upto(T, 1, Class({"fd", "pages", "where"}, {}, {}), Class({"fd", "pages", "where"}, {}, {}), {"cleanup", "need"})
    BY <1>3, UptoFirst
  <2>9. Upto(T, 4, Class({"fd", "pages", "where"}, {}, {}), Class({"fd", "pages"}, {}, {}), {"cleanup", "need"})
    BY <2>8, <2>4, <2>5, <2>6, UptoStep
  <2>10. Upto(T, 5, Class({"fd", "pages", "where"}, {}, {}), Class({"fd", "pages", "where"}, {}, {}), {"cleanup", "need"})
    BY <2>9, <2>7, UptoStep
  <2>11. 5 = Len(T) + 1 /\ Len(T) \in Nat
    BY ONLY <2>1
  <2> QED
    BY ONLY <2>10, <2>11, UptoEnd
\* cleanup(n)
<1>9. ASSUME NEW T, T = <<>>
      PROVE  /\ TextFits(T, Class({"fd", "pages", "where"}, {}, {}), {"return", "cleanup"})
             /\ Ends(T, Class({"fd", "pages", "where"}, {}, {})) = Class({"fd", "pages", "where"}, {}, {})
  <2>1. {"fd", "pages", "where"} \subseteq Cells /\ {} \subseteq Cells
    BY <1>3
  <2> QED
    BY ONLY <1>9, <2>1, TextEmpty
\* cleanup(0)
<1>10. ASSUME NEW T, T = <<Close("where"), CloseIf("fd"), Free("pages")>>
      PROVE  /\ TextFits(T, Class({"fd", "pages", "where"}, {}, {}), {"return", "cleanup", "make",
               "get"})
             /\ Ends(T, Class({"fd", "pages", "where"}, {}, {})) = Class({}, {}, {})
  <2> DEFINE G(op, C, D) == Goes(op, C, Class({"fd", "pages", "where"}, {}, {}), D, {"return", "cleanup", "make", "get", "need"})
  <2>1. Len(T) = 3
    BY ONLY <1>10
  <2>2. /\ T[1] = Close("where")
        /\ T[2] = CloseIf("fd")
        /\ T[3] = Free("pages")
    BY ONLY <1>10
  <2>3. /\ {"fd", "pages", "where"} \ {"where"} = {"fd", "pages"}
        /\ {} \ {"where"} = {}
        /\ {"fd", "pages"} \ {"fd"} = {"pages"}
        /\ {} \ {"fd"} = {}
        /\ {"pages"} \ {"pages"} = {}
        /\ {} \ {"pages"} = {}
    OBVIOUS
  <2>4. G(T[1], Class({"fd", "pages", "where"}, {}, {}), Class({"fd", "pages"}, {}, {}))
    BY <1>3, <1>4, <2>2, <2>3, GoesDrop, ReleaseParts
  <2>5. G(T[2], Class({"fd", "pages"}, {}, {}), Class({"pages"}, {}, {}))
    BY <1>3, <1>4, <2>2, <2>3, GoesDrop, ReleaseParts
  <2>6. G(T[3], Class({"pages"}, {}, {}), Class({}, {}, {}))
    BY <1>3, <1>4, <2>2, <2>3, GoesDrop, ReleaseParts
  <2>7. Upto(T, 1, Class({"fd", "pages", "where"}, {}, {}), Class({"fd", "pages", "where"}, {}, {}), {"return", "cleanup", "make", "get", "need"})
    BY <1>3, UptoFirst
  <2>8. Upto(T, 4, Class({"fd", "pages", "where"}, {}, {}), Class({}, {}, {}), {"return", "cleanup", "make", "get", "need"})
    BY <2>7, <2>4, <2>5, <2>6, UptoStep
  <2>9. 4 = Len(T) + 1 /\ Len(T) \in Nat
    BY ONLY <2>1
  <2> QED
    BY ONLY <2>8, <2>9, UptoEnd
<1>11. Nothing = Class({}, {}, {})
  BY DEF Nothing, Class
<1>12. CASE opt
  <2>1. Between = Class({"fd", "pages", "where"}, {}, {}) /\ During = Class({"fd", "pages", "where"}, {}, {}) /\ Kept = {"fd", "pages", "where"} /\ Loose = {}
    BY <1>12, <1>4 DEF Between, During, Kept, KeptBy, KeptWithOption, Nulled, Loose, Class
  <2>2. TextFits(P.zero, Nothing, {"return"}) /\ Ends(P.zero, Nothing) = Class({"fd", "pages", "where"}, {}, {})
    BY <1>2, <1>5, <1>11, <1>12, <2>1
  <2>3. TextFits(P.nonzero, Between, {"return", "cleanup"}) /\ Ends(P.nonzero, Between) = Class({"fd", "pages", "where"}, {}, {})
    BY <1>2, <1>7, <1>12, <2>1
  <2>4. TextFits(P.body, During, {"cleanup"}) /\ Ends(P.body, During) = Class({"fd", "pages", "where"}, {}, {})
    BY <1>2, <1>8, <1>12, <2>1
  <2>5. TextFits(P.after, During, {"return", "cleanup"}) /\ Ends(P.after, During) = Class({"fd", "pages", "where"}, {}, {})
    BY <1>2, <1>9, <1>12, <2>1
  <2>6. TextFits(P.end, Between, {"return", "cleanup", "make", "get"}) /\ Ends(P.end, Between) = Class({}, {}, {})
    BY <1>2, <1>10, <1>12, <2>1
  <2>7. Covers(Class({"fd", "pages", "where"}, {}, {}), Class({"fd", "pages", "where"}, {}, {})) /\ Covers(Class({"fd", "pages", "where"}, {}, {}), Class({"fd", "pages", "where"}, {}, {})) /\ Covers(Class({"fd", "pages", "where"}, {}, {}), Class({"fd", "pages", "where"}, {}, {}))
    BY ClassParts DEF Covers
  <2>8. {"clone", "dir"} \intersect (Ends(P.end, Between).held \union Ends(P.end, Between).loose) = {}
    BY <2>6, ClassParts
  <2>9. ~P.hasCleanup => {"clone", "dir"} \intersect (Kept \union Loose) = {}
    BY <1>2, <2>1
  <2> QED
    BY ONLY <2>1, <2>2, <2>3, <2>4, <2>5, <2>6, <2>7, <2>8, <2>9 DEF ProgramFits
<1>13. CASE ~opt
  <2>1. Between = Class({"fd", "pages", "where"}, {}, {}) /\ During = Class({"fd", "pages", "where"}, {}, {}) /\ Kept = {"fd", "pages", "where"} /\ Loose = {}
    BY <1>13, <1>4 DEF Between, During, Kept, KeptBy, KeptWithOption, Nulled, Loose, Class
  <2>2. TextFits(P.zero, Nothing, {"return"}) /\ Ends(P.zero, Nothing) = Class({"fd", "pages", "where"}, {}, {})
    BY <1>2, <1>6, <1>11, <1>13, <2>1
  <2>3. TextFits(P.nonzero, Between, {"return", "cleanup"}) /\ Ends(P.nonzero, Between) = Class({"fd", "pages", "where"}, {}, {})
    BY <1>2, <1>7, <1>13, <2>1
  <2>4. TextFits(P.body, During, {"cleanup"}) /\ Ends(P.body, During) = Class({"fd", "pages", "where"}, {}, {})
    BY <1>2, <1>8, <1>13, <2>1
  <2>5. TextFits(P.after, During, {"return", "cleanup"}) /\ Ends(P.after, During) = Class({"fd", "pages", "where"}, {}, {})
    BY <1>2, <1>9, <1>13, <2>1
  <2>6. TextFits(P.end, Between, {"return", "cleanup", "make", "get"}) /\ Ends(P.end, Between) = Class({}, {}, {})
    BY <1>2, <1>10, <1>13, <2>1
  <2>7. Covers(Class({"fd", "pages", "where"}, {}, {}), Class({"fd", "pages", "where"}, {}, {})) /\ Covers(Class({"fd", "pages", "where"}, {}, {}), Class({"fd", "pages", "where"}, {}, {})) /\ Covers(Class({"fd", "pages", "where"}, {}, {}), Class({"fd", "pages", "where"}, {}, {}))
    BY ClassParts DEF Covers
  <2>8. {"clone", "dir"} \intersect (Ends(P.end, Between).held \union Ends(P.end, Between).loose) = {}
    BY <2>6, ClassParts
  <2>9. ~P.hasCleanup => {"clone", "dir"} \intersect (Kept \union Loose) = {}
    BY <1>2, <2>1
  <2> QED
    BY ONLY <2>1, <2>2, <2>3, <2>4, <2>5, <2>6, <2>7, <2>8, <2>9 DEF ProgramFits
<1> QED
  BY <1>12, <1>13

\* lat_pagefault_mmap.
LEMMA FitsLatPagefaultMmap ==
  ASSUME prog = "lat_pagefault_mmap", opt \in BOOLEAN
  PROVE  ProgramFits
<1>1. P = lat_pagefault_mmap
  BY DEF P, Program
<1>2. /\ P.zero = <<CopyFile, Get("fd", "exit"), UnlinkCopy, Get("pages", "ignore"), Check, Get("where",
            "exit")>>
      /\ P.nonzero = <<>>
      /\ P.body = <<Close("where"), Get("where", "exit")>>
      /\ P.after = <<>>
      /\ P.end = <<Close("where"), CloseIf("fd"), Free("pages")>>
      /\ P.hasCleanup = TRUE
  BY <1>1 DEF lat_pagefault_mmap, lat_pagefault, Idle
<1>3. {"fd", "pages", "where"} \subseteq Resources /\ Resources \subseteq Cells /\ {"clone", "dir"} \subseteq Cells
  BY DEF Resources, Cells
<1>4. ~Careless /\ ~IsTree
  BY DEF Careless, Unchecked, IsTree
\* initialize(0), with the option
<1>5. ASSUME NEW T, T = <<CopyFile, Get("fd", "exit"), UnlinkCopy, Get("pages", "ignore"), Check,
          Get("where", "exit")>>, opt
      PROVE  /\ TextFits(T, Class({}, {}, {}), {"return"})
             /\ Ends(T, Class({}, {}, {})) = Class({"fd", "where"}, {}, {"pages"})
  <2> DEFINE G(op, C, D) == Goes(op, C, Class({}, {}, {}), D, {"return", "need"})
  <2>0. opt
    BY ONLY <1>5
  <2>1. Len(T) = 6
    BY ONLY <1>5
  <2>2. /\ T[1] = CopyFile
        /\ T[2] = Get("fd", "exit")
        /\ T[3] = UnlinkCopy
        /\ T[4] = Get("pages", "ignore")
        /\ T[5] = Check
        /\ T[6] = Get("where", "exit")
    BY ONLY <1>5
  <2>3. /\ {} \union {"clone"} = {"clone"}
        /\ {} \ {"clone"} = {}
        /\ {"clone"} \union {"fd"} = {"clone", "fd"}
        /\ {} \ {"fd"} = {}
        /\ {"clone", "fd"} \ {"clone"} = {"fd"}
        /\ {"fd"} \ {"pages"} = {"fd"}
        /\ {} \ {"pages"} = {}
        /\ {} \union {"pages"} = {"pages"}
        /\ {"fd"} \union {"where"} = {"fd", "where"}
        /\ {} \ {"where"} = {}
        /\ {"pages"} \ {"where"} = {"pages"}
    OBVIOUS
  <2>4. G(T[1], Class({}, {}, {}), Class({"clone"}, {}, {}))
    BY <2>0, <1>3, <1>4, <2>2, <2>3, GoesMake DEF CopyFile
  <2>5. G(T[2], Class({"clone"}, {}, {}), Class({"clone", "fd"}, {}, {}))
    BY <1>3, <1>4, <2>2, <2>3, GoesGetOrExit
  <2>6. G(T[3], Class({"clone", "fd"}, {}, {}), Class({"fd"}, {}, {}))
    BY <2>0, <1>3, <1>4, <2>2, <2>3, GoesRemove DEF UnlinkCopy
  <2>7. G(T[4], Class({"fd"}, {}, {}), Class({"fd"}, {}, {"pages"}))
    BY <1>3, <1>4, <2>2, <2>3, GoesTry
  <2>8. G(T[5], Class({"fd"}, {}, {"pages"}), Class({"fd"}, {}, {"pages"}))
    BY <1>3, <1>4, <2>2, GoesCheck
  <2>9. G(T[6], Class({"fd"}, {}, {"pages"}), Class({"fd", "where"}, {}, {"pages"}))
    BY <1>3, <1>4, <2>2, <2>3, GoesGetOrExit
  <2>10. Upto(T, 1, Class({}, {}, {}), Class({}, {}, {}), {"return", "need"})
    BY <1>3, UptoFirst
  <2>11. Upto(T, 4, Class({}, {}, {}), Class({"fd"}, {}, {}), {"return", "need"})
    BY <2>10, <2>4, <2>5, <2>6, UptoStep
  <2>12. Upto(T, 7, Class({}, {}, {}), Class({"fd", "where"}, {}, {"pages"}), {"return", "need"})
    BY <2>11, <2>7, <2>8, <2>9, UptoStep
  <2>13. 7 = Len(T) + 1 /\ Len(T) \in Nat
    BY ONLY <2>1
  <2> QED
    BY ONLY <2>12, <2>13, UptoEnd
\* initialize(0), without the option
<1>6. ASSUME NEW T, T = <<CopyFile, Get("fd", "exit"), UnlinkCopy, Get("pages", "ignore"), Check,
          Get("where", "exit")>>, ~opt
      PROVE  /\ TextFits(T, Class({}, {}, {}), {"return"})
             /\ Ends(T, Class({}, {}, {})) = Class({"fd", "where"}, {}, {"pages"})
  <2> DEFINE G(op, C, D) == Goes(op, C, Class({}, {}, {}), D, {"return", "need"})
  <2>0. ~opt
    BY ONLY <1>6
  <2>1. Len(T) = 6
    BY ONLY <1>6
  <2>2. /\ T[1] = CopyFile
        /\ T[2] = Get("fd", "exit")
        /\ T[3] = UnlinkCopy
        /\ T[4] = Get("pages", "ignore")
        /\ T[5] = Check
        /\ T[6] = Get("where", "exit")
    BY ONLY <1>6
  <2>3. /\ {} \union {"fd"} = {"fd"}
        /\ {} \ {"fd"} = {}
        /\ {"fd"} \ {"pages"} = {"fd"}
        /\ {} \ {"pages"} = {}
        /\ {} \union {"pages"} = {"pages"}
        /\ {"fd"} \union {"where"} = {"fd", "where"}
        /\ {} \ {"where"} = {}
        /\ {"pages"} \ {"where"} = {"pages"}
    OBVIOUS
  <2>4. G(T[1], Class({}, {}, {}), Class({}, {}, {}))
    BY <2>0, <1>3, <1>4, <2>2, GoesSpared
  <2>5. G(T[2], Class({}, {}, {}), Class({"fd"}, {}, {}))
    BY <1>3, <1>4, <2>2, <2>3, GoesGetOrExit
  <2>6. G(T[3], Class({"fd"}, {}, {}), Class({"fd"}, {}, {}))
    BY <2>0, <1>3, <1>4, <2>2, GoesSpared
  <2>7. G(T[4], Class({"fd"}, {}, {}), Class({"fd"}, {}, {"pages"}))
    BY <1>3, <1>4, <2>2, <2>3, GoesTry
  <2>8. G(T[5], Class({"fd"}, {}, {"pages"}), Class({"fd"}, {}, {"pages"}))
    BY <1>3, <1>4, <2>2, GoesCheck
  <2>9. G(T[6], Class({"fd"}, {}, {"pages"}), Class({"fd", "where"}, {}, {"pages"}))
    BY <1>3, <1>4, <2>2, <2>3, GoesGetOrExit
  <2>10. Upto(T, 1, Class({}, {}, {}), Class({}, {}, {}), {"return", "need"})
    BY <1>3, UptoFirst
  <2>11. Upto(T, 4, Class({}, {}, {}), Class({"fd"}, {}, {}), {"return", "need"})
    BY <2>10, <2>4, <2>5, <2>6, UptoStep
  <2>12. Upto(T, 7, Class({}, {}, {}), Class({"fd", "where"}, {}, {"pages"}), {"return", "need"})
    BY <2>11, <2>7, <2>8, <2>9, UptoStep
  <2>13. 7 = Len(T) + 1 /\ Len(T) \in Nat
    BY ONLY <2>1
  <2> QED
    BY ONLY <2>12, <2>13, UptoEnd
\* initialize(n)
<1>7. ASSUME NEW T, T = <<>>
      PROVE  /\ TextFits(T, Class({"fd", "where"}, {}, {"pages"}), {"return", "cleanup"})
             /\ Ends(T, Class({"fd", "where"}, {}, {"pages"})) = Class({"fd", "where"}, {}, {"pages"})
  <2>1. {"fd", "where"} \subseteq Cells /\ {"pages"} \subseteq Cells /\ {} \subseteq Cells
    BY <1>3
  <2> QED
    BY ONLY <1>7, <2>1, TextEmpty
\* benchmark(n)
<1>8. ASSUME NEW T, T = <<Close("where"), Get("where", "exit")>>
      PROVE  /\ TextFits(T, Class({"fd", "where"}, {}, {"pages"}), {"cleanup"})
             /\ Ends(T, Class({"fd", "where"}, {}, {"pages"})) = Class({"fd", "where"}, {}, {"pages"})
  <2> DEFINE G(op, C, D) == Goes(op, C, Class({"fd", "where"}, {}, {"pages"}), D, {"cleanup", "need"})
  <2>1. Len(T) = 2
    BY ONLY <1>8
  <2>2. /\ T[1] = Close("where")
        /\ T[2] = Get("where", "exit")
    BY ONLY <1>8
  <2>3. /\ {"fd", "where"} \ {"where"} = {"fd"}
        /\ {} \ {"where"} = {}
        /\ {"pages"} \ {"where"} = {"pages"}
        /\ {"fd"} \union {"where"} = {"fd", "where"}
    OBVIOUS
  <2>4. G(T[1], Class({"fd", "where"}, {}, {"pages"}), Class({"fd"}, {}, {"pages"}))
    BY <1>3, <1>4, <2>2, <2>3, GoesDrop, ReleaseParts
  <2>5. G(T[2], Class({"fd"}, {}, {"pages"}), Class({"fd", "where"}, {}, {"pages"}))
    BY <1>3, <1>4, <2>2, <2>3, GoesGetOrExit
  <2>6. Upto(T, 1, Class({"fd", "where"}, {}, {"pages"}), Class({"fd", "where"}, {}, {"pages"}), {"cleanup", "need"})
    BY <1>3, UptoFirst
  <2>7. Upto(T, 3, Class({"fd", "where"}, {}, {"pages"}), Class({"fd", "where"}, {}, {"pages"}), {"cleanup", "need"})
    BY <2>6, <2>4, <2>5, UptoStep
  <2>8. 3 = Len(T) + 1 /\ Len(T) \in Nat
    BY ONLY <2>1
  <2> QED
    BY ONLY <2>7, <2>8, UptoEnd
\* cleanup(n)
<1>9. ASSUME NEW T, T = <<>>
      PROVE  /\ TextFits(T, Class({"fd", "where"}, {}, {"pages"}), {"return", "cleanup"})
             /\ Ends(T, Class({"fd", "where"}, {}, {"pages"})) = Class({"fd", "where"}, {}, {"pages"})
  <2>1. {"fd", "where"} \subseteq Cells /\ {"pages"} \subseteq Cells /\ {} \subseteq Cells
    BY <1>3
  <2> QED
    BY ONLY <1>9, <2>1, TextEmpty
\* cleanup(0)
<1>10. ASSUME NEW T, T = <<Close("where"), CloseIf("fd"), Free("pages")>>
      PROVE  /\ TextFits(T, Class({"fd", "where"}, {}, {"pages"}), {"return", "cleanup", "make",
               "get"})
             /\ Ends(T, Class({"fd", "where"}, {}, {"pages"})) = Class({}, {}, {})
  <2> DEFINE G(op, C, D) == Goes(op, C, Class({"fd", "where"}, {}, {"pages"}), D, {"return", "cleanup", "make", "get", "need"})
  <2>1. Len(T) = 3
    BY ONLY <1>10
  <2>2. /\ T[1] = Close("where")
        /\ T[2] = CloseIf("fd")
        /\ T[3] = Free("pages")
    BY ONLY <1>10
  <2>3. /\ {"fd", "where"} \ {"where"} = {"fd"}
        /\ {} \ {"where"} = {}
        /\ {"pages"} \ {"where"} = {"pages"}
        /\ {"fd"} \ {"fd"} = {}
        /\ {} \ {"fd"} = {}
        /\ {"pages"} \ {"fd"} = {"pages"}
        /\ {} \ {"pages"} = {}
        /\ {"pages"} \ {"pages"} = {}
    OBVIOUS
  <2>4. G(T[1], Class({"fd", "where"}, {}, {"pages"}), Class({"fd"}, {}, {"pages"}))
    BY <1>3, <1>4, <2>2, <2>3, GoesDrop, ReleaseParts
  <2>5. G(T[2], Class({"fd"}, {}, {"pages"}), Class({}, {}, {"pages"}))
    BY <1>3, <1>4, <2>2, <2>3, GoesDrop, ReleaseParts
  <2>6. G(T[3], Class({}, {}, {"pages"}), Class({}, {}, {}))
    BY <1>3, <1>4, <2>2, <2>3, GoesDrop, ReleaseParts
  <2>7. Upto(T, 1, Class({"fd", "where"}, {}, {"pages"}), Class({"fd", "where"}, {}, {"pages"}), {"return", "cleanup", "make", "get", "need"})
    BY <1>3, UptoFirst
  <2>8. Upto(T, 4, Class({"fd", "where"}, {}, {"pages"}), Class({}, {}, {}), {"return", "cleanup", "make", "get", "need"})
    BY <2>7, <2>4, <2>5, <2>6, UptoStep
  <2>9. 4 = Len(T) + 1 /\ Len(T) \in Nat
    BY ONLY <2>1
  <2> QED
    BY ONLY <2>8, <2>9, UptoEnd
<1>11. Nothing = Class({}, {}, {})
  BY DEF Nothing, Class
<1>12. CASE opt
  <2>1. Between = Class({"fd", "where"}, {}, {"pages"}) /\ During = Class({"fd", "where"}, {}, {"pages"}) /\ Kept = {"fd", "where"} /\ Loose = {"pages"}
    BY <1>12, <1>4 DEF Between, During, Kept, KeptBy, KeptWithOption, Nulled, Loose, Class
  <2>2. TextFits(P.zero, Nothing, {"return"}) /\ Ends(P.zero, Nothing) = Class({"fd", "where"}, {}, {"pages"})
    BY <1>2, <1>5, <1>11, <1>12, <2>1
  <2>3. TextFits(P.nonzero, Between, {"return", "cleanup"}) /\ Ends(P.nonzero, Between) = Class({"fd", "where"}, {}, {"pages"})
    BY <1>2, <1>7, <1>12, <2>1
  <2>4. TextFits(P.body, During, {"cleanup"}) /\ Ends(P.body, During) = Class({"fd", "where"}, {}, {"pages"})
    BY <1>2, <1>8, <1>12, <2>1
  <2>5. TextFits(P.after, During, {"return", "cleanup"}) /\ Ends(P.after, During) = Class({"fd", "where"}, {}, {"pages"})
    BY <1>2, <1>9, <1>12, <2>1
  <2>6. TextFits(P.end, Between, {"return", "cleanup", "make", "get"}) /\ Ends(P.end, Between) = Class({}, {}, {})
    BY <1>2, <1>10, <1>12, <2>1
  <2>7. Covers(Class({"fd", "where"}, {}, {"pages"}), Class({"fd", "where"}, {}, {"pages"})) /\ Covers(Class({"fd", "where"}, {}, {"pages"}), Class({"fd", "where"}, {}, {"pages"})) /\ Covers(Class({"fd", "where"}, {}, {"pages"}), Class({"fd", "where"}, {}, {"pages"}))
    BY ClassParts DEF Covers
  <2>8. {"clone", "dir"} \intersect (Ends(P.end, Between).held \union Ends(P.end, Between).loose) = {}
    BY <2>6, ClassParts
  <2>9. ~P.hasCleanup => {"clone", "dir"} \intersect (Kept \union Loose) = {}
    BY <1>2, <2>1
  <2> QED
    BY ONLY <2>1, <2>2, <2>3, <2>4, <2>5, <2>6, <2>7, <2>8, <2>9 DEF ProgramFits
<1>13. CASE ~opt
  <2>1. Between = Class({"fd", "where"}, {}, {"pages"}) /\ During = Class({"fd", "where"}, {}, {"pages"}) /\ Kept = {"fd", "where"} /\ Loose = {"pages"}
    BY <1>13, <1>4 DEF Between, During, Kept, KeptBy, KeptWithOption, Nulled, Loose, Class
  <2>2. TextFits(P.zero, Nothing, {"return"}) /\ Ends(P.zero, Nothing) = Class({"fd", "where"}, {}, {"pages"})
    BY <1>2, <1>6, <1>11, <1>13, <2>1
  <2>3. TextFits(P.nonzero, Between, {"return", "cleanup"}) /\ Ends(P.nonzero, Between) = Class({"fd", "where"}, {}, {"pages"})
    BY <1>2, <1>7, <1>13, <2>1
  <2>4. TextFits(P.body, During, {"cleanup"}) /\ Ends(P.body, During) = Class({"fd", "where"}, {}, {"pages"})
    BY <1>2, <1>8, <1>13, <2>1
  <2>5. TextFits(P.after, During, {"return", "cleanup"}) /\ Ends(P.after, During) = Class({"fd", "where"}, {}, {"pages"})
    BY <1>2, <1>9, <1>13, <2>1
  <2>6. TextFits(P.end, Between, {"return", "cleanup", "make", "get"}) /\ Ends(P.end, Between) = Class({}, {}, {})
    BY <1>2, <1>10, <1>13, <2>1
  <2>7. Covers(Class({"fd", "where"}, {}, {"pages"}), Class({"fd", "where"}, {}, {"pages"})) /\ Covers(Class({"fd", "where"}, {}, {"pages"}), Class({"fd", "where"}, {}, {"pages"})) /\ Covers(Class({"fd", "where"}, {}, {"pages"}), Class({"fd", "where"}, {}, {"pages"}))
    BY ClassParts DEF Covers
  <2>8. {"clone", "dir"} \intersect (Ends(P.end, Between).held \union Ends(P.end, Between).loose) = {}
    BY <2>6, ClassParts
  <2>9. ~P.hasCleanup => {"clone", "dir"} \intersect (Kept \union Loose) = {}
    BY <1>2, <2>1
  <2> QED
    BY ONLY <2>1, <2>2, <2>3, <2>4, <2>5, <2>6, <2>7, <2>8, <2>9 DEF ProgramFits
<1> QED
  BY <1>12, <1>13

\* bw_file_rd_open.
LEMMA FitsBwFileRdOpen ==
  ASSUME prog = "bw_file_rd_open", opt \in BOOLEAN
  PROVE  ProgramFits
<1>1. P = bw_file_rd_open
  BY DEF P, Program
<1>2. /\ P.zero = <<Null("fd"), CopyFile>>
      /\ P.nonzero = <<>>
      /\ P.body = <<Get("tmp", "ignore"), Use("tmp"), Close("tmp")>>
      /\ P.after = <<>>
      /\ P.end = <<CloseIf("fd"), UnlinkCopy>>
      /\ P.hasCleanup = TRUE
  BY <1>1 DEF bw_file_rd_open, Idle
<1>3. {"fd", "tmp"} \subseteq Resources /\ Resources \subseteq Cells /\ {"clone", "dir"} \subseteq Cells
  BY DEF Resources, Cells
<1>4. Careless /\ ~IsTree
  BY DEF Careless, Unchecked, IsTree
\* initialize(0), with the option
<1>5. ASSUME NEW T, T = <<Null("fd"), CopyFile>>, opt
      PROVE  /\ TextFits(T, Class({}, {}, {}), {"return"})
             /\ Ends(T, Class({}, {}, {})) = Class({"clone"}, {"fd"}, {})
  <2> DEFINE G(op, C, D) == Goes(op, C, Class({}, {}, {}), D, {"return", "need"})
  <2>0. opt
    BY ONLY <1>5
  <2>1. Len(T) = 2
    BY ONLY <1>5
  <2>2. /\ T[1] = Null("fd")
        /\ T[2] = CopyFile
    BY ONLY <1>5
  <2>3. /\ {} \ {"fd"} = {}
        /\ {} \union {"fd"} = {"fd"}
        /\ {} \union {"clone"} = {"clone"}
        /\ {"fd"} \ {"clone"} = {"fd"}
        /\ {} \ {"clone"} = {}
    OBVIOUS
  <2>4. G(T[1], Class({}, {}, {}), Class({}, {"fd"}, {}))
    BY <1>3, <1>4, <2>2, <2>3, GoesNull
  <2>5. G(T[2], Class({}, {"fd"}, {}), Class({"clone"}, {"fd"}, {}))
    BY <2>0, <1>3, <1>4, <2>2, <2>3, GoesMake DEF CopyFile
  <2>6. Upto(T, 1, Class({}, {}, {}), Class({}, {}, {}), {"return", "need"})
    BY <1>3, UptoFirst
  <2>7. Upto(T, 3, Class({}, {}, {}), Class({"clone"}, {"fd"}, {}), {"return", "need"})
    BY <2>6, <2>4, <2>5, UptoStep
  <2>8. 3 = Len(T) + 1 /\ Len(T) \in Nat
    BY ONLY <2>1
  <2> QED
    BY ONLY <2>7, <2>8, UptoEnd
\* initialize(0), without the option
<1>6. ASSUME NEW T, T = <<Null("fd"), CopyFile>>, ~opt
      PROVE  /\ TextFits(T, Class({}, {}, {}), {"return"})
             /\ Ends(T, Class({}, {}, {})) = Class({}, {"fd"}, {})
  <2> DEFINE G(op, C, D) == Goes(op, C, Class({}, {}, {}), D, {"return", "need"})
  <2>0. ~opt
    BY ONLY <1>6
  <2>1. Len(T) = 2
    BY ONLY <1>6
  <2>2. /\ T[1] = Null("fd")
        /\ T[2] = CopyFile
    BY ONLY <1>6
  <2>3. /\ {} \ {"fd"} = {}
        /\ {} \union {"fd"} = {"fd"}
    OBVIOUS
  <2>4. G(T[1], Class({}, {}, {}), Class({}, {"fd"}, {}))
    BY <1>3, <1>4, <2>2, <2>3, GoesNull
  <2>5. G(T[2], Class({}, {"fd"}, {}), Class({}, {"fd"}, {}))
    BY <2>0, <1>3, <1>4, <2>2, GoesSpared
  <2>6. Upto(T, 1, Class({}, {}, {}), Class({}, {}, {}), {"return", "need"})
    BY <1>3, UptoFirst
  <2>7. Upto(T, 3, Class({}, {}, {}), Class({}, {"fd"}, {}), {"return", "need"})
    BY <2>6, <2>4, <2>5, UptoStep
  <2>8. 3 = Len(T) + 1 /\ Len(T) \in Nat
    BY ONLY <2>1
  <2> QED
    BY ONLY <2>7, <2>8, UptoEnd
\* initialize(n), with the option
<1>7. ASSUME NEW T, T = <<>>, opt
      PROVE  /\ TextFits(T, Class({"clone"}, {"fd"}, {}), {"return", "cleanup"})
             /\ Ends(T, Class({"clone"}, {"fd"}, {})) = Class({"clone"}, {"fd"}, {})
  <2>1. {"clone"} \subseteq Cells /\ {"fd"} \subseteq Cells /\ {} \subseteq Cells
    BY <1>3
  <2> QED
    BY ONLY <1>7, <2>1, TextEmpty
\* initialize(n), without the option
<1>8. ASSUME NEW T, T = <<>>, ~opt
      PROVE  /\ TextFits(T, Class({}, {"fd"}, {}), {"return", "cleanup"})
             /\ Ends(T, Class({}, {"fd"}, {})) = Class({}, {"fd"}, {})
  <2>1. {"fd"} \subseteq Cells /\ {} \subseteq Cells
    BY <1>3
  <2> QED
    BY ONLY <1>8, <2>1, TextEmpty
\* benchmark(n), with the option
<1>9. ASSUME NEW T, T = <<Get("tmp", "ignore"), Use("tmp"), Close("tmp")>>, opt
      PROVE  /\ TextFits(T, Class({"clone"}, {"fd"}, {}), {"cleanup"})
             /\ Ends(T, Class({"clone"}, {"fd"}, {})) = Class({"clone"}, {"fd"}, {})
  <2> DEFINE G(op, C, D) == Goes(op, C, Class({"clone"}, {"fd"}, {}), D, {"cleanup", "need"})
  <2>1. Len(T) = 3
    BY ONLY <1>9
  <2>2. /\ T[1] = Get("tmp", "ignore")
        /\ T[2] = Use("tmp")
        /\ T[3] = Close("tmp")
    BY ONLY <1>9
  <2>3. /\ {"clone"} \union {"tmp"} = {"clone", "tmp"}
        /\ {"fd"} \ {"tmp"} = {"fd"}
        /\ {} \ {"tmp"} = {}
        /\ {"clone", "tmp"} \ {"tmp"} = {"clone"}
    OBVIOUS
  <2>4. G(T[1], Class({"clone"}, {"fd"}, {}), Class({"clone", "tmp"}, {"fd"}, {}))
    BY <1>3, <1>4, <2>2, <2>3, GoesGet
  <2>5. G(T[2], Class({"clone", "tmp"}, {"fd"}, {}), Class({"clone", "tmp"}, {"fd"}, {}))
    BY <1>3, <1>4, <2>2, GoesUse
  <2>6. G(T[3], Class({"clone", "tmp"}, {"fd"}, {}), Class({"clone"}, {"fd"}, {}))
    BY <1>3, <1>4, <2>2, <2>3, GoesDrop, ReleaseParts
  <2>7. Upto(T, 1, Class({"clone"}, {"fd"}, {}), Class({"clone"}, {"fd"}, {}), {"cleanup", "need"})
    BY <1>3, UptoFirst
  <2>8. Upto(T, 4, Class({"clone"}, {"fd"}, {}), Class({"clone"}, {"fd"}, {}), {"cleanup", "need"})
    BY <2>7, <2>4, <2>5, <2>6, UptoStep
  <2>9. 4 = Len(T) + 1 /\ Len(T) \in Nat
    BY ONLY <2>1
  <2> QED
    BY ONLY <2>8, <2>9, UptoEnd
\* benchmark(n), without the option
<1>10. ASSUME NEW T, T = <<Get("tmp", "ignore"), Use("tmp"), Close("tmp")>>, ~opt
      PROVE  /\ TextFits(T, Class({}, {"fd"}, {}), {"cleanup"})
             /\ Ends(T, Class({}, {"fd"}, {})) = Class({}, {"fd"}, {})
  <2> DEFINE G(op, C, D) == Goes(op, C, Class({}, {"fd"}, {}), D, {"cleanup", "need"})
  <2>1. Len(T) = 3
    BY ONLY <1>10
  <2>2. /\ T[1] = Get("tmp", "ignore")
        /\ T[2] = Use("tmp")
        /\ T[3] = Close("tmp")
    BY ONLY <1>10
  <2>3. /\ {} \union {"tmp"} = {"tmp"}
        /\ {"fd"} \ {"tmp"} = {"fd"}
        /\ {} \ {"tmp"} = {}
        /\ {"tmp"} \ {"tmp"} = {}
    OBVIOUS
  <2>4. G(T[1], Class({}, {"fd"}, {}), Class({"tmp"}, {"fd"}, {}))
    BY <1>3, <1>4, <2>2, <2>3, GoesGet
  <2>5. G(T[2], Class({"tmp"}, {"fd"}, {}), Class({"tmp"}, {"fd"}, {}))
    BY <1>3, <1>4, <2>2, GoesUse
  <2>6. G(T[3], Class({"tmp"}, {"fd"}, {}), Class({}, {"fd"}, {}))
    BY <1>3, <1>4, <2>2, <2>3, GoesDrop, ReleaseParts
  <2>7. Upto(T, 1, Class({}, {"fd"}, {}), Class({}, {"fd"}, {}), {"cleanup", "need"})
    BY <1>3, UptoFirst
  <2>8. Upto(T, 4, Class({}, {"fd"}, {}), Class({}, {"fd"}, {}), {"cleanup", "need"})
    BY <2>7, <2>4, <2>5, <2>6, UptoStep
  <2>9. 4 = Len(T) + 1 /\ Len(T) \in Nat
    BY ONLY <2>1
  <2> QED
    BY ONLY <2>8, <2>9, UptoEnd
\* cleanup(n), with the option
<1>11. ASSUME NEW T, T = <<>>, opt
      PROVE  /\ TextFits(T, Class({"clone"}, {"fd"}, {}), {"return", "cleanup"})
             /\ Ends(T, Class({"clone"}, {"fd"}, {})) = Class({"clone"}, {"fd"}, {})
  <2>1. {"clone"} \subseteq Cells /\ {"fd"} \subseteq Cells /\ {} \subseteq Cells
    BY <1>3
  <2> QED
    BY ONLY <1>11, <2>1, TextEmpty
\* cleanup(n), without the option
<1>12. ASSUME NEW T, T = <<>>, ~opt
      PROVE  /\ TextFits(T, Class({}, {"fd"}, {}), {"return", "cleanup"})
             /\ Ends(T, Class({}, {"fd"}, {})) = Class({}, {"fd"}, {})
  <2>1. {"fd"} \subseteq Cells /\ {} \subseteq Cells
    BY <1>3
  <2> QED
    BY ONLY <1>12, <2>1, TextEmpty
\* cleanup(0), with the option
<1>13. ASSUME NEW T, T = <<CloseIf("fd"), UnlinkCopy>>, opt
      PROVE  /\ TextFits(T, Class({"clone"}, {"fd"}, {}), {"return", "cleanup", "make", "get"})
             /\ Ends(T, Class({"clone"}, {"fd"}, {})) = Class({}, {}, {})
  <2> DEFINE G(op, C, D) == Goes(op, C, Class({"clone"}, {"fd"}, {}), D, {"return", "cleanup", "make", "get", "need"})
  <2>0. opt
    BY ONLY <1>13
  <2>1. Len(T) = 2
    BY ONLY <1>13
  <2>2. /\ T[1] = CloseIf("fd")
        /\ T[2] = UnlinkCopy
    BY ONLY <1>13
  <2>3. /\ {"clone"} \ {"fd"} = {"clone"}
        /\ {"fd"} \ {"fd"} = {}
        /\ {} \ {"fd"} = {}
        /\ {"clone"} \ {"clone"} = {}
        /\ {} \ {"clone"} = {}
    OBVIOUS
  <2>4. G(T[1], Class({"clone"}, {"fd"}, {}), Class({"clone"}, {}, {}))
    BY <1>3, <1>4, <2>2, <2>3, GoesDrop, ReleaseParts
  <2>5. G(T[2], Class({"clone"}, {}, {}), Class({}, {}, {}))
    BY <2>0, <1>3, <1>4, <2>2, <2>3, GoesRemove DEF UnlinkCopy
  <2>6. Upto(T, 1, Class({"clone"}, {"fd"}, {}), Class({"clone"}, {"fd"}, {}), {"return", "cleanup", "make", "get", "need"})
    BY <1>3, UptoFirst
  <2>7. Upto(T, 3, Class({"clone"}, {"fd"}, {}), Class({}, {}, {}), {"return", "cleanup", "make", "get", "need"})
    BY <2>6, <2>4, <2>5, UptoStep
  <2>8. 3 = Len(T) + 1 /\ Len(T) \in Nat
    BY ONLY <2>1
  <2> QED
    BY ONLY <2>7, <2>8, UptoEnd
\* cleanup(0), without the option
<1>14. ASSUME NEW T, T = <<CloseIf("fd"), UnlinkCopy>>, ~opt
      PROVE  /\ TextFits(T, Class({}, {"fd"}, {}), {"return", "cleanup", "make", "get"})
             /\ Ends(T, Class({}, {"fd"}, {})) = Class({}, {}, {})
  <2> DEFINE G(op, C, D) == Goes(op, C, Class({}, {"fd"}, {}), D, {"return", "cleanup", "make", "get", "need"})
  <2>0. ~opt
    BY ONLY <1>14
  <2>1. Len(T) = 2
    BY ONLY <1>14
  <2>2. /\ T[1] = CloseIf("fd")
        /\ T[2] = UnlinkCopy
    BY ONLY <1>14
  <2>3. /\ {} \ {"fd"} = {}
        /\ {"fd"} \ {"fd"} = {}
    OBVIOUS
  <2>4. G(T[1], Class({}, {"fd"}, {}), Class({}, {}, {}))
    BY <1>3, <1>4, <2>2, <2>3, GoesDrop, ReleaseParts
  <2>5. G(T[2], Class({}, {}, {}), Class({}, {}, {}))
    BY <2>0, <1>3, <1>4, <2>2, GoesSpared
  <2>6. Upto(T, 1, Class({}, {"fd"}, {}), Class({}, {"fd"}, {}), {"return", "cleanup", "make", "get", "need"})
    BY <1>3, UptoFirst
  <2>7. Upto(T, 3, Class({}, {"fd"}, {}), Class({}, {}, {}), {"return", "cleanup", "make", "get", "need"})
    BY <2>6, <2>4, <2>5, UptoStep
  <2>8. 3 = Len(T) + 1 /\ Len(T) \in Nat
    BY ONLY <2>1
  <2> QED
    BY ONLY <2>7, <2>8, UptoEnd
<1>15. Nothing = Class({}, {}, {})
  BY DEF Nothing, Class
<1>16. CASE opt
  <2>1. Between = Class({"clone"}, {"fd"}, {}) /\ During = Class({"clone"}, {"fd"}, {}) /\ Kept = {"clone"} /\ Loose = {}
    BY <1>16, <1>4 DEF Between, During, Kept, KeptBy, KeptWithOption, Nulled, Loose, Class
  <2>2. TextFits(P.zero, Nothing, {"return"}) /\ Ends(P.zero, Nothing) = Class({"clone"}, {"fd"}, {})
    BY <1>2, <1>5, <1>15, <1>16, <2>1
  <2>3. TextFits(P.nonzero, Between, {"return", "cleanup"}) /\ Ends(P.nonzero, Between) = Class({"clone"}, {"fd"}, {})
    BY <1>2, <1>7, <1>16, <2>1
  <2>4. TextFits(P.body, During, {"cleanup"}) /\ Ends(P.body, During) = Class({"clone"}, {"fd"}, {})
    BY <1>2, <1>9, <1>16, <2>1
  <2>5. TextFits(P.after, During, {"return", "cleanup"}) /\ Ends(P.after, During) = Class({"clone"}, {"fd"}, {})
    BY <1>2, <1>11, <1>16, <2>1
  <2>6. TextFits(P.end, Between, {"return", "cleanup", "make", "get"}) /\ Ends(P.end, Between) = Class({}, {}, {})
    BY <1>2, <1>13, <1>16, <2>1
  <2>7. Covers(Class({"clone"}, {"fd"}, {}), Class({"clone"}, {"fd"}, {})) /\ Covers(Class({"clone"}, {"fd"}, {}), Class({"clone"}, {"fd"}, {})) /\ Covers(Class({"clone"}, {"fd"}, {}), Class({"clone"}, {"fd"}, {}))
    BY ClassParts DEF Covers
  <2>8. {"clone", "dir"} \intersect (Ends(P.end, Between).held \union Ends(P.end, Between).loose) = {}
    BY <2>6, ClassParts
  <2>9. ~P.hasCleanup => {"clone", "dir"} \intersect (Kept \union Loose) = {}
    BY <1>2, <2>1
  <2> QED
    BY ONLY <2>1, <2>2, <2>3, <2>4, <2>5, <2>6, <2>7, <2>8, <2>9 DEF ProgramFits
<1>17. CASE ~opt
  <2>1. Between = Class({}, {"fd"}, {}) /\ During = Class({}, {"fd"}, {}) /\ Kept = {} /\ Loose = {}
    BY <1>17, <1>4 DEF Between, During, Kept, KeptBy, KeptWithOption, Nulled, Loose, Class
  <2>2. TextFits(P.zero, Nothing, {"return"}) /\ Ends(P.zero, Nothing) = Class({}, {"fd"}, {})
    BY <1>2, <1>6, <1>15, <1>17, <2>1
  <2>3. TextFits(P.nonzero, Between, {"return", "cleanup"}) /\ Ends(P.nonzero, Between) = Class({}, {"fd"}, {})
    BY <1>2, <1>8, <1>17, <2>1
  <2>4. TextFits(P.body, During, {"cleanup"}) /\ Ends(P.body, During) = Class({}, {"fd"}, {})
    BY <1>2, <1>10, <1>17, <2>1
  <2>5. TextFits(P.after, During, {"return", "cleanup"}) /\ Ends(P.after, During) = Class({}, {"fd"}, {})
    BY <1>2, <1>12, <1>17, <2>1
  <2>6. TextFits(P.end, Between, {"return", "cleanup", "make", "get"}) /\ Ends(P.end, Between) = Class({}, {}, {})
    BY <1>2, <1>14, <1>17, <2>1
  <2>7. Covers(Class({}, {"fd"}, {}), Class({}, {"fd"}, {})) /\ Covers(Class({}, {"fd"}, {}), Class({}, {"fd"}, {})) /\ Covers(Class({}, {"fd"}, {}), Class({}, {"fd"}, {}))
    BY ClassParts DEF Covers
  <2>8. {"clone", "dir"} \intersect (Ends(P.end, Between).held \union Ends(P.end, Between).loose) = {}
    BY <2>6, ClassParts
  <2>9. ~P.hasCleanup => {"clone", "dir"} \intersect (Kept \union Loose) = {}
    BY <1>2, <2>1
  <2> QED
    BY ONLY <2>1, <2>2, <2>3, <2>4, <2>5, <2>6, <2>7, <2>8, <2>9 DEF ProgramFits
<1> QED
  BY <1>16, <1>17

\* bw_file_rd_io.
LEMMA FitsBwFileRdIo ==
  ASSUME prog = "bw_file_rd_io", opt \in BOOLEAN
  PROVE  ProgramFits
<1>1. P = bw_file_rd_io
  BY DEF P, Program
<1>2. /\ P.zero = <<Null("fd"), CopyFile, Get("fd", "exit")>>
      /\ P.nonzero = <<>>
      /\ P.body = <<Use("fd")>>
      /\ P.after = <<>>
      /\ P.end = <<CloseIf("fd"), UnlinkCopy>>
      /\ P.hasCleanup = TRUE
  BY <1>1 DEF bw_file_rd_io, bw_file_rd_open, Idle
<1>3. {"fd"} \subseteq Resources /\ Resources \subseteq Cells /\ {"clone", "dir"} \subseteq Cells
  BY DEF Resources, Cells
<1>4. ~Careless /\ ~IsTree
  BY DEF Careless, Unchecked, IsTree
\* initialize(0), with the option
<1>5. ASSUME NEW T, T = <<Null("fd"), CopyFile, Get("fd", "exit")>>, opt
      PROVE  /\ TextFits(T, Class({}, {}, {}), {"return"})
             /\ Ends(T, Class({}, {}, {})) = Class({"clone", "fd"}, {}, {})
  <2> DEFINE G(op, C, D) == Goes(op, C, Class({}, {}, {}), D, {"return", "need"})
  <2>0. opt
    BY ONLY <1>5
  <2>1. Len(T) = 3
    BY ONLY <1>5
  <2>2. /\ T[1] = Null("fd")
        /\ T[2] = CopyFile
        /\ T[3] = Get("fd", "exit")
    BY ONLY <1>5
  <2>3. /\ {} \ {"fd"} = {}
        /\ {} \union {"fd"} = {"fd"}
        /\ {} \union {"clone"} = {"clone"}
        /\ {"fd"} \ {"clone"} = {"fd"}
        /\ {} \ {"clone"} = {}
        /\ {"clone"} \union {"fd"} = {"clone", "fd"}
        /\ {"fd"} \ {"fd"} = {}
    OBVIOUS
  <2>4. G(T[1], Class({}, {}, {}), Class({}, {"fd"}, {}))
    BY <1>3, <1>4, <2>2, <2>3, GoesNull
  <2>5. G(T[2], Class({}, {"fd"}, {}), Class({"clone"}, {"fd"}, {}))
    BY <2>0, <1>3, <1>4, <2>2, <2>3, GoesMake DEF CopyFile
  <2>6. G(T[3], Class({"clone"}, {"fd"}, {}), Class({"clone", "fd"}, {}, {}))
    BY <1>3, <1>4, <2>2, <2>3, GoesGetOrExit
  <2>7. Upto(T, 1, Class({}, {}, {}), Class({}, {}, {}), {"return", "need"})
    BY <1>3, UptoFirst
  <2>8. Upto(T, 4, Class({}, {}, {}), Class({"clone", "fd"}, {}, {}), {"return", "need"})
    BY <2>7, <2>4, <2>5, <2>6, UptoStep
  <2>9. 4 = Len(T) + 1 /\ Len(T) \in Nat
    BY ONLY <2>1
  <2> QED
    BY ONLY <2>8, <2>9, UptoEnd
\* initialize(0), without the option
<1>6. ASSUME NEW T, T = <<Null("fd"), CopyFile, Get("fd", "exit")>>, ~opt
      PROVE  /\ TextFits(T, Class({}, {}, {}), {"return"})
             /\ Ends(T, Class({}, {}, {})) = Class({"fd"}, {}, {})
  <2> DEFINE G(op, C, D) == Goes(op, C, Class({}, {}, {}), D, {"return", "need"})
  <2>0. ~opt
    BY ONLY <1>6
  <2>1. Len(T) = 3
    BY ONLY <1>6
  <2>2. /\ T[1] = Null("fd")
        /\ T[2] = CopyFile
        /\ T[3] = Get("fd", "exit")
    BY ONLY <1>6
  <2>3. /\ {} \ {"fd"} = {}
        /\ {} \union {"fd"} = {"fd"}
        /\ {"fd"} \ {"fd"} = {}
    OBVIOUS
  <2>4. G(T[1], Class({}, {}, {}), Class({}, {"fd"}, {}))
    BY <1>3, <1>4, <2>2, <2>3, GoesNull
  <2>5. G(T[2], Class({}, {"fd"}, {}), Class({}, {"fd"}, {}))
    BY <2>0, <1>3, <1>4, <2>2, GoesSpared
  <2>6. G(T[3], Class({}, {"fd"}, {}), Class({"fd"}, {}, {}))
    BY <1>3, <1>4, <2>2, <2>3, GoesGetOrExit
  <2>7. Upto(T, 1, Class({}, {}, {}), Class({}, {}, {}), {"return", "need"})
    BY <1>3, UptoFirst
  <2>8. Upto(T, 4, Class({}, {}, {}), Class({"fd"}, {}, {}), {"return", "need"})
    BY <2>7, <2>4, <2>5, <2>6, UptoStep
  <2>9. 4 = Len(T) + 1 /\ Len(T) \in Nat
    BY ONLY <2>1
  <2> QED
    BY ONLY <2>8, <2>9, UptoEnd
\* initialize(n), with the option
<1>7. ASSUME NEW T, T = <<>>, opt
      PROVE  /\ TextFits(T, Class({"fd", "clone"}, {}, {}), {"return", "cleanup"})
             /\ Ends(T, Class({"fd", "clone"}, {}, {})) = Class({"fd", "clone"}, {}, {})
  <2>1. {"fd", "clone"} \subseteq Cells /\ {} \subseteq Cells
    BY <1>3
  <2> QED
    BY ONLY <1>7, <2>1, TextEmpty
\* initialize(n), without the option
<1>8. ASSUME NEW T, T = <<>>, ~opt
      PROVE  /\ TextFits(T, Class({"fd"}, {}, {}), {"return", "cleanup"})
             /\ Ends(T, Class({"fd"}, {}, {})) = Class({"fd"}, {}, {})
  <2>1. {"fd"} \subseteq Cells /\ {} \subseteq Cells
    BY <1>3
  <2> QED
    BY ONLY <1>8, <2>1, TextEmpty
\* benchmark(n), with the option
<1>9. ASSUME NEW T, T = <<Use("fd")>>, opt
      PROVE  /\ TextFits(T, Class({"fd", "clone"}, {}, {}), {"cleanup"})
             /\ Ends(T, Class({"fd", "clone"}, {}, {})) = Class({"fd", "clone"}, {}, {})
  <2> DEFINE G(op, C, D) == Goes(op, C, Class({"fd", "clone"}, {}, {}), D, {"cleanup", "need"})
  <2>1. Len(T) = 1
    BY ONLY <1>9
  <2>2. /\ T[1] = Use("fd")
    BY ONLY <1>9
  <2>3. G(T[1], Class({"fd", "clone"}, {}, {}), Class({"fd", "clone"}, {}, {}))
    BY <1>3, <1>4, <2>2, GoesUse
  <2>4. Upto(T, 1, Class({"fd", "clone"}, {}, {}), Class({"fd", "clone"}, {}, {}), {"cleanup", "need"})
    BY <1>3, UptoFirst
  <2>5. Upto(T, 2, Class({"fd", "clone"}, {}, {}), Class({"fd", "clone"}, {}, {}), {"cleanup", "need"})
    BY <2>4, <2>3, UptoStep
  <2>6. 2 = Len(T) + 1 /\ Len(T) \in Nat
    BY ONLY <2>1
  <2> QED
    BY ONLY <2>5, <2>6, UptoEnd
\* benchmark(n), without the option
<1>10. ASSUME NEW T, T = <<Use("fd")>>, ~opt
      PROVE  /\ TextFits(T, Class({"fd"}, {}, {}), {"cleanup"})
             /\ Ends(T, Class({"fd"}, {}, {})) = Class({"fd"}, {}, {})
  <2> DEFINE G(op, C, D) == Goes(op, C, Class({"fd"}, {}, {}), D, {"cleanup", "need"})
  <2>1. Len(T) = 1
    BY ONLY <1>10
  <2>2. /\ T[1] = Use("fd")
    BY ONLY <1>10
  <2>3. G(T[1], Class({"fd"}, {}, {}), Class({"fd"}, {}, {}))
    BY <1>3, <1>4, <2>2, GoesUse
  <2>4. Upto(T, 1, Class({"fd"}, {}, {}), Class({"fd"}, {}, {}), {"cleanup", "need"})
    BY <1>3, UptoFirst
  <2>5. Upto(T, 2, Class({"fd"}, {}, {}), Class({"fd"}, {}, {}), {"cleanup", "need"})
    BY <2>4, <2>3, UptoStep
  <2>6. 2 = Len(T) + 1 /\ Len(T) \in Nat
    BY ONLY <2>1
  <2> QED
    BY ONLY <2>5, <2>6, UptoEnd
\* cleanup(n), with the option
<1>11. ASSUME NEW T, T = <<>>, opt
      PROVE  /\ TextFits(T, Class({"fd", "clone"}, {}, {}), {"return", "cleanup"})
             /\ Ends(T, Class({"fd", "clone"}, {}, {})) = Class({"fd", "clone"}, {}, {})
  <2>1. {"fd", "clone"} \subseteq Cells /\ {} \subseteq Cells
    BY <1>3
  <2> QED
    BY ONLY <1>11, <2>1, TextEmpty
\* cleanup(n), without the option
<1>12. ASSUME NEW T, T = <<>>, ~opt
      PROVE  /\ TextFits(T, Class({"fd"}, {}, {}), {"return", "cleanup"})
             /\ Ends(T, Class({"fd"}, {}, {})) = Class({"fd"}, {}, {})
  <2>1. {"fd"} \subseteq Cells /\ {} \subseteq Cells
    BY <1>3
  <2> QED
    BY ONLY <1>12, <2>1, TextEmpty
\* cleanup(0), with the option
<1>13. ASSUME NEW T, T = <<CloseIf("fd"), UnlinkCopy>>, opt
      PROVE  /\ TextFits(T, Class({"fd", "clone"}, {}, {}), {"return", "cleanup", "make", "get"})
             /\ Ends(T, Class({"fd", "clone"}, {}, {})) = Class({}, {}, {})
  <2> DEFINE G(op, C, D) == Goes(op, C, Class({"fd", "clone"}, {}, {}), D, {"return", "cleanup", "make", "get", "need"})
  <2>0. opt
    BY ONLY <1>13
  <2>1. Len(T) = 2
    BY ONLY <1>13
  <2>2. /\ T[1] = CloseIf("fd")
        /\ T[2] = UnlinkCopy
    BY ONLY <1>13
  <2>3. /\ {"fd", "clone"} \ {"fd"} = {"clone"}
        /\ {} \ {"fd"} = {}
        /\ {"clone"} \ {"clone"} = {}
        /\ {} \ {"clone"} = {}
    OBVIOUS
  <2>4. G(T[1], Class({"fd", "clone"}, {}, {}), Class({"clone"}, {}, {}))
    BY <1>3, <1>4, <2>2, <2>3, GoesDrop, ReleaseParts
  <2>5. G(T[2], Class({"clone"}, {}, {}), Class({}, {}, {}))
    BY <2>0, <1>3, <1>4, <2>2, <2>3, GoesRemove DEF UnlinkCopy
  <2>6. Upto(T, 1, Class({"fd", "clone"}, {}, {}), Class({"fd", "clone"}, {}, {}), {"return", "cleanup", "make", "get", "need"})
    BY <1>3, UptoFirst
  <2>7. Upto(T, 3, Class({"fd", "clone"}, {}, {}), Class({}, {}, {}), {"return", "cleanup", "make", "get", "need"})
    BY <2>6, <2>4, <2>5, UptoStep
  <2>8. 3 = Len(T) + 1 /\ Len(T) \in Nat
    BY ONLY <2>1
  <2> QED
    BY ONLY <2>7, <2>8, UptoEnd
\* cleanup(0), without the option
<1>14. ASSUME NEW T, T = <<CloseIf("fd"), UnlinkCopy>>, ~opt
      PROVE  /\ TextFits(T, Class({"fd"}, {}, {}), {"return", "cleanup", "make", "get"})
             /\ Ends(T, Class({"fd"}, {}, {})) = Class({}, {}, {})
  <2> DEFINE G(op, C, D) == Goes(op, C, Class({"fd"}, {}, {}), D, {"return", "cleanup", "make", "get", "need"})
  <2>0. ~opt
    BY ONLY <1>14
  <2>1. Len(T) = 2
    BY ONLY <1>14
  <2>2. /\ T[1] = CloseIf("fd")
        /\ T[2] = UnlinkCopy
    BY ONLY <1>14
  <2>3. /\ {"fd"} \ {"fd"} = {}
        /\ {} \ {"fd"} = {}
    OBVIOUS
  <2>4. G(T[1], Class({"fd"}, {}, {}), Class({}, {}, {}))
    BY <1>3, <1>4, <2>2, <2>3, GoesDrop, ReleaseParts
  <2>5. G(T[2], Class({}, {}, {}), Class({}, {}, {}))
    BY <2>0, <1>3, <1>4, <2>2, GoesSpared
  <2>6. Upto(T, 1, Class({"fd"}, {}, {}), Class({"fd"}, {}, {}), {"return", "cleanup", "make", "get", "need"})
    BY <1>3, UptoFirst
  <2>7. Upto(T, 3, Class({"fd"}, {}, {}), Class({}, {}, {}), {"return", "cleanup", "make", "get", "need"})
    BY <2>6, <2>4, <2>5, UptoStep
  <2>8. 3 = Len(T) + 1 /\ Len(T) \in Nat
    BY ONLY <2>1
  <2> QED
    BY ONLY <2>7, <2>8, UptoEnd
<1>15. Nothing = Class({}, {}, {})
  BY DEF Nothing, Class
<1>16. CASE opt
  <2>1. Between = Class({"fd", "clone"}, {}, {}) /\ During = Class({"fd", "clone"}, {}, {}) /\ Kept = {"fd", "clone"} /\ Loose = {}
    BY <1>16, <1>4 DEF Between, During, Kept, KeptBy, KeptWithOption, Nulled, Loose, Class
  <2>2. TextFits(P.zero, Nothing, {"return"}) /\ Ends(P.zero, Nothing) = Class({"clone", "fd"}, {}, {})
    BY <1>2, <1>5, <1>15, <1>16, <2>1
  <2>3. TextFits(P.nonzero, Between, {"return", "cleanup"}) /\ Ends(P.nonzero, Between) = Class({"fd", "clone"}, {}, {})
    BY <1>2, <1>7, <1>16, <2>1
  <2>4. TextFits(P.body, During, {"cleanup"}) /\ Ends(P.body, During) = Class({"fd", "clone"}, {}, {})
    BY <1>2, <1>9, <1>16, <2>1
  <2>5. TextFits(P.after, During, {"return", "cleanup"}) /\ Ends(P.after, During) = Class({"fd", "clone"}, {}, {})
    BY <1>2, <1>11, <1>16, <2>1
  <2>6. TextFits(P.end, Between, {"return", "cleanup", "make", "get"}) /\ Ends(P.end, Between) = Class({}, {}, {})
    BY <1>2, <1>13, <1>16, <2>1
  <2>7. Covers(Class({"fd", "clone"}, {}, {}), Class({"clone", "fd"}, {}, {})) /\ Covers(Class({"fd", "clone"}, {}, {}), Class({"fd", "clone"}, {}, {})) /\ Covers(Class({"fd", "clone"}, {}, {}), Class({"fd", "clone"}, {}, {}))
    BY ClassParts DEF Covers
  <2>8. {"clone", "dir"} \intersect (Ends(P.end, Between).held \union Ends(P.end, Between).loose) = {}
    BY <2>6, ClassParts
  <2>9. ~P.hasCleanup => {"clone", "dir"} \intersect (Kept \union Loose) = {}
    BY <1>2, <2>1
  <2> QED
    BY ONLY <2>1, <2>2, <2>3, <2>4, <2>5, <2>6, <2>7, <2>8, <2>9 DEF ProgramFits
<1>17. CASE ~opt
  <2>1. Between = Class({"fd"}, {}, {}) /\ During = Class({"fd"}, {}, {}) /\ Kept = {"fd"} /\ Loose = {}
    BY <1>17, <1>4 DEF Between, During, Kept, KeptBy, KeptWithOption, Nulled, Loose, Class
  <2>2. TextFits(P.zero, Nothing, {"return"}) /\ Ends(P.zero, Nothing) = Class({"fd"}, {}, {})
    BY <1>2, <1>6, <1>15, <1>17, <2>1
  <2>3. TextFits(P.nonzero, Between, {"return", "cleanup"}) /\ Ends(P.nonzero, Between) = Class({"fd"}, {}, {})
    BY <1>2, <1>8, <1>17, <2>1
  <2>4. TextFits(P.body, During, {"cleanup"}) /\ Ends(P.body, During) = Class({"fd"}, {}, {})
    BY <1>2, <1>10, <1>17, <2>1
  <2>5. TextFits(P.after, During, {"return", "cleanup"}) /\ Ends(P.after, During) = Class({"fd"}, {}, {})
    BY <1>2, <1>12, <1>17, <2>1
  <2>6. TextFits(P.end, Between, {"return", "cleanup", "make", "get"}) /\ Ends(P.end, Between) = Class({}, {}, {})
    BY <1>2, <1>14, <1>17, <2>1
  <2>7. Covers(Class({"fd"}, {}, {}), Class({"fd"}, {}, {})) /\ Covers(Class({"fd"}, {}, {}), Class({"fd"}, {}, {})) /\ Covers(Class({"fd"}, {}, {}), Class({"fd"}, {}, {}))
    BY ClassParts DEF Covers
  <2>8. {"clone", "dir"} \intersect (Ends(P.end, Between).held \union Ends(P.end, Between).loose) = {}
    BY <2>6, ClassParts
  <2>9. ~P.hasCleanup => {"clone", "dir"} \intersect (Kept \union Loose) = {}
    BY <1>2, <2>1
  <2> QED
    BY ONLY <2>1, <2>2, <2>3, <2>4, <2>5, <2>6, <2>7, <2>8, <2>9 DEF ProgramFits
<1> QED
  BY <1>16, <1>17

\* bw_mmap_rd_open.
LEMMA FitsBwMmapRdOpen ==
  ASSUME prog = "bw_mmap_rd_open", opt \in BOOLEAN
  PROVE  ProgramFits
<1>1. P = bw_mmap_rd_open
  BY DEF P, Program
<1>2. /\ P.zero = <<Null("fd"), Null("buf"), CopyFile>>
      /\ P.nonzero = <<>>
      /\ P.body = <<Get("tmp", "exit"), Get("map", "exit"), Use("map"), Close("tmp"), Close("map")>>
      /\ P.after = <<>>
      /\ P.end = <<CloseIf("buf"), CloseIf("fd"), UnlinkCopy>>
      /\ P.hasCleanup = TRUE
  BY <1>1 DEF bw_mmap_rd_open, Idle
<1>3. {"buf", "fd", "map", "tmp"} \subseteq Resources /\ Resources \subseteq Cells /\ {"clone", "dir"} \subseteq Cells
  BY DEF Resources, Cells
<1>4. ~Careless /\ ~IsTree
  BY DEF Careless, Unchecked, IsTree
\* initialize(0), with the option
<1>5. ASSUME NEW T, T = <<Null("fd"), Null("buf"), CopyFile>>, opt
      PROVE  /\ TextFits(T, Class({}, {}, {}), {"return"})
             /\ Ends(T, Class({}, {}, {})) = Class({"clone"}, {"fd", "buf"}, {})
  <2> DEFINE G(op, C, D) == Goes(op, C, Class({}, {}, {}), D, {"return", "need"})
  <2>0. opt
    BY ONLY <1>5
  <2>1. Len(T) = 3
    BY ONLY <1>5
  <2>2. /\ T[1] = Null("fd")
        /\ T[2] = Null("buf")
        /\ T[3] = CopyFile
    BY ONLY <1>5
  <2>3. /\ {} \ {"fd"} = {}
        /\ {} \union {"fd"} = {"fd"}
        /\ {} \ {"buf"} = {}
        /\ {"fd"} \union {"buf"} = {"fd", "buf"}
        /\ {} \union {"clone"} = {"clone"}
        /\ {"fd", "buf"} \ {"clone"} = {"fd", "buf"}
        /\ {} \ {"clone"} = {}
    OBVIOUS
  <2>4. G(T[1], Class({}, {}, {}), Class({}, {"fd"}, {}))
    BY <1>3, <1>4, <2>2, <2>3, GoesNull
  <2>5. G(T[2], Class({}, {"fd"}, {}), Class({}, {"fd", "buf"}, {}))
    BY <1>3, <1>4, <2>2, <2>3, GoesNull
  <2>6. G(T[3], Class({}, {"fd", "buf"}, {}), Class({"clone"}, {"fd", "buf"}, {}))
    BY <2>0, <1>3, <1>4, <2>2, <2>3, GoesMake DEF CopyFile
  <2>7. Upto(T, 1, Class({}, {}, {}), Class({}, {}, {}), {"return", "need"})
    BY <1>3, UptoFirst
  <2>8. Upto(T, 4, Class({}, {}, {}), Class({"clone"}, {"fd", "buf"}, {}), {"return", "need"})
    BY <2>7, <2>4, <2>5, <2>6, UptoStep
  <2>9. 4 = Len(T) + 1 /\ Len(T) \in Nat
    BY ONLY <2>1
  <2> QED
    BY ONLY <2>8, <2>9, UptoEnd
\* initialize(0), without the option
<1>6. ASSUME NEW T, T = <<Null("fd"), Null("buf"), CopyFile>>, ~opt
      PROVE  /\ TextFits(T, Class({}, {}, {}), {"return"})
             /\ Ends(T, Class({}, {}, {})) = Class({}, {"fd", "buf"}, {})
  <2> DEFINE G(op, C, D) == Goes(op, C, Class({}, {}, {}), D, {"return", "need"})
  <2>0. ~opt
    BY ONLY <1>6
  <2>1. Len(T) = 3
    BY ONLY <1>6
  <2>2. /\ T[1] = Null("fd")
        /\ T[2] = Null("buf")
        /\ T[3] = CopyFile
    BY ONLY <1>6
  <2>3. /\ {} \ {"fd"} = {}
        /\ {} \union {"fd"} = {"fd"}
        /\ {} \ {"buf"} = {}
        /\ {"fd"} \union {"buf"} = {"fd", "buf"}
    OBVIOUS
  <2>4. G(T[1], Class({}, {}, {}), Class({}, {"fd"}, {}))
    BY <1>3, <1>4, <2>2, <2>3, GoesNull
  <2>5. G(T[2], Class({}, {"fd"}, {}), Class({}, {"fd", "buf"}, {}))
    BY <1>3, <1>4, <2>2, <2>3, GoesNull
  <2>6. G(T[3], Class({}, {"fd", "buf"}, {}), Class({}, {"fd", "buf"}, {}))
    BY <2>0, <1>3, <1>4, <2>2, GoesSpared
  <2>7. Upto(T, 1, Class({}, {}, {}), Class({}, {}, {}), {"return", "need"})
    BY <1>3, UptoFirst
  <2>8. Upto(T, 4, Class({}, {}, {}), Class({}, {"fd", "buf"}, {}), {"return", "need"})
    BY <2>7, <2>4, <2>5, <2>6, UptoStep
  <2>9. 4 = Len(T) + 1 /\ Len(T) \in Nat
    BY ONLY <2>1
  <2> QED
    BY ONLY <2>8, <2>9, UptoEnd
\* initialize(n), with the option
<1>7. ASSUME NEW T, T = <<>>, opt
      PROVE  /\ TextFits(T, Class({"clone"}, {"fd", "buf"}, {}), {"return", "cleanup"})
             /\ Ends(T, Class({"clone"}, {"fd", "buf"}, {})) = Class({"clone"}, {"fd", "buf"}, {})
  <2>1. {"clone"} \subseteq Cells /\ {"fd", "buf"} \subseteq Cells /\ {} \subseteq Cells
    BY <1>3
  <2> QED
    BY ONLY <1>7, <2>1, TextEmpty
\* initialize(n), without the option
<1>8. ASSUME NEW T, T = <<>>, ~opt
      PROVE  /\ TextFits(T, Class({}, {"fd", "buf"}, {}), {"return", "cleanup"})
             /\ Ends(T, Class({}, {"fd", "buf"}, {})) = Class({}, {"fd", "buf"}, {})
  <2>1. {"fd", "buf"} \subseteq Cells /\ {} \subseteq Cells
    BY <1>3
  <2> QED
    BY ONLY <1>8, <2>1, TextEmpty
\* benchmark(n), with the option
<1>9. ASSUME NEW T, T = <<Get("tmp", "exit"), Get("map", "exit"), Use("map"), Close("tmp"),
          Close("map")>>, opt
      PROVE  /\ TextFits(T, Class({"clone"}, {"fd", "buf"}, {}), {"cleanup"})
             /\ Ends(T, Class({"clone"}, {"fd", "buf"}, {})) = Class({"clone"}, {"fd", "buf"}, {})
  <2> DEFINE G(op, C, D) == Goes(op, C, Class({"clone"}, {"fd", "buf"}, {}), D, {"cleanup", "need"})
  <2>1. Len(T) = 5
    BY ONLY <1>9
  <2>2. /\ T[1] = Get("tmp", "exit")
        /\ T[2] = Get("map", "exit")
        /\ T[3] = Use("map")
        /\ T[4] = Close("tmp")
        /\ T[5] = Close("map")
    BY ONLY <1>9
  <2>3. /\ {"clone"} \union {"tmp"} = {"clone", "tmp"}
        /\ {"fd", "buf"} \ {"tmp"} = {"fd", "buf"}
        /\ {} \ {"tmp"} = {}
        /\ {"clone", "tmp"} \union {"map"} = {"clone", "tmp", "map"}
        /\ {"fd", "buf"} \ {"map"} = {"fd", "buf"}
        /\ {} \ {"map"} = {}
        /\ {"clone", "tmp", "map"} \ {"tmp"} = {"clone", "map"}
        /\ {"clone", "map"} \ {"map"} = {"clone"}
    OBVIOUS
  <2>4. G(T[1], Class({"clone"}, {"fd", "buf"}, {}), Class({"clone", "tmp"}, {"fd", "buf"}, {}))
    BY <1>3, <1>4, <2>2, <2>3, GoesGetOrExit
  <2>5. G(T[2], Class({"clone", "tmp"}, {"fd", "buf"}, {}), Class({"clone", "tmp", "map"}, {"fd", "buf"}, {}))
    BY <1>3, <1>4, <2>2, <2>3, GoesGetOrExit
  <2>6. G(T[3], Class({"clone", "tmp", "map"}, {"fd", "buf"}, {}), Class({"clone", "tmp", "map"}, {"fd", "buf"}, {}))
    BY <1>3, <1>4, <2>2, GoesUse
  <2>7. G(T[4], Class({"clone", "tmp", "map"}, {"fd", "buf"}, {}), Class({"clone", "map"}, {"fd", "buf"}, {}))
    BY <1>3, <1>4, <2>2, <2>3, GoesDrop, ReleaseParts
  <2>8. G(T[5], Class({"clone", "map"}, {"fd", "buf"}, {}), Class({"clone"}, {"fd", "buf"}, {}))
    BY <1>3, <1>4, <2>2, <2>3, GoesDrop, ReleaseParts
  <2>9. Upto(T, 1, Class({"clone"}, {"fd", "buf"}, {}), Class({"clone"}, {"fd", "buf"}, {}), {"cleanup", "need"})
    BY <1>3, UptoFirst
  <2>10. Upto(T, 4, Class({"clone"}, {"fd", "buf"}, {}), Class({"clone", "tmp", "map"}, {"fd", "buf"}, {}), {"cleanup", "need"})
    BY <2>9, <2>4, <2>5, <2>6, UptoStep
  <2>11. Upto(T, 6, Class({"clone"}, {"fd", "buf"}, {}), Class({"clone"}, {"fd", "buf"}, {}), {"cleanup", "need"})
    BY <2>10, <2>7, <2>8, UptoStep
  <2>12. 6 = Len(T) + 1 /\ Len(T) \in Nat
    BY ONLY <2>1
  <2> QED
    BY ONLY <2>11, <2>12, UptoEnd
\* benchmark(n), without the option
<1>10. ASSUME NEW T, T = <<Get("tmp", "exit"), Get("map", "exit"), Use("map"), Close("tmp"),
          Close("map")>>, ~opt
      PROVE  /\ TextFits(T, Class({}, {"fd", "buf"}, {}), {"cleanup"})
             /\ Ends(T, Class({}, {"fd", "buf"}, {})) = Class({}, {"fd", "buf"}, {})
  <2> DEFINE G(op, C, D) == Goes(op, C, Class({}, {"fd", "buf"}, {}), D, {"cleanup", "need"})
  <2>1. Len(T) = 5
    BY ONLY <1>10
  <2>2. /\ T[1] = Get("tmp", "exit")
        /\ T[2] = Get("map", "exit")
        /\ T[3] = Use("map")
        /\ T[4] = Close("tmp")
        /\ T[5] = Close("map")
    BY ONLY <1>10
  <2>3. /\ {} \union {"tmp"} = {"tmp"}
        /\ {"fd", "buf"} \ {"tmp"} = {"fd", "buf"}
        /\ {} \ {"tmp"} = {}
        /\ {"tmp"} \union {"map"} = {"tmp", "map"}
        /\ {"fd", "buf"} \ {"map"} = {"fd", "buf"}
        /\ {} \ {"map"} = {}
        /\ {"tmp", "map"} \ {"tmp"} = {"map"}
        /\ {"map"} \ {"map"} = {}
    OBVIOUS
  <2>4. G(T[1], Class({}, {"fd", "buf"}, {}), Class({"tmp"}, {"fd", "buf"}, {}))
    BY <1>3, <1>4, <2>2, <2>3, GoesGetOrExit
  <2>5. G(T[2], Class({"tmp"}, {"fd", "buf"}, {}), Class({"tmp", "map"}, {"fd", "buf"}, {}))
    BY <1>3, <1>4, <2>2, <2>3, GoesGetOrExit
  <2>6. G(T[3], Class({"tmp", "map"}, {"fd", "buf"}, {}), Class({"tmp", "map"}, {"fd", "buf"}, {}))
    BY <1>3, <1>4, <2>2, GoesUse
  <2>7. G(T[4], Class({"tmp", "map"}, {"fd", "buf"}, {}), Class({"map"}, {"fd", "buf"}, {}))
    BY <1>3, <1>4, <2>2, <2>3, GoesDrop, ReleaseParts
  <2>8. G(T[5], Class({"map"}, {"fd", "buf"}, {}), Class({}, {"fd", "buf"}, {}))
    BY <1>3, <1>4, <2>2, <2>3, GoesDrop, ReleaseParts
  <2>9. Upto(T, 1, Class({}, {"fd", "buf"}, {}), Class({}, {"fd", "buf"}, {}), {"cleanup", "need"})
    BY <1>3, UptoFirst
  <2>10. Upto(T, 4, Class({}, {"fd", "buf"}, {}), Class({"tmp", "map"}, {"fd", "buf"}, {}), {"cleanup", "need"})
    BY <2>9, <2>4, <2>5, <2>6, UptoStep
  <2>11. Upto(T, 6, Class({}, {"fd", "buf"}, {}), Class({}, {"fd", "buf"}, {}), {"cleanup", "need"})
    BY <2>10, <2>7, <2>8, UptoStep
  <2>12. 6 = Len(T) + 1 /\ Len(T) \in Nat
    BY ONLY <2>1
  <2> QED
    BY ONLY <2>11, <2>12, UptoEnd
\* cleanup(n), with the option
<1>11. ASSUME NEW T, T = <<>>, opt
      PROVE  /\ TextFits(T, Class({"clone"}, {"fd", "buf"}, {}), {"return", "cleanup"})
             /\ Ends(T, Class({"clone"}, {"fd", "buf"}, {})) = Class({"clone"}, {"fd", "buf"}, {})
  <2>1. {"clone"} \subseteq Cells /\ {"fd", "buf"} \subseteq Cells /\ {} \subseteq Cells
    BY <1>3
  <2> QED
    BY ONLY <1>11, <2>1, TextEmpty
\* cleanup(n), without the option
<1>12. ASSUME NEW T, T = <<>>, ~opt
      PROVE  /\ TextFits(T, Class({}, {"fd", "buf"}, {}), {"return", "cleanup"})
             /\ Ends(T, Class({}, {"fd", "buf"}, {})) = Class({}, {"fd", "buf"}, {})
  <2>1. {"fd", "buf"} \subseteq Cells /\ {} \subseteq Cells
    BY <1>3
  <2> QED
    BY ONLY <1>12, <2>1, TextEmpty
\* cleanup(0), with the option
<1>13. ASSUME NEW T, T = <<CloseIf("buf"), CloseIf("fd"), UnlinkCopy>>, opt
      PROVE  /\ TextFits(T, Class({"clone"}, {"fd", "buf"}, {}), {"return", "cleanup", "make",
               "get"})
             /\ Ends(T, Class({"clone"}, {"fd", "buf"}, {})) = Class({}, {}, {})
  <2> DEFINE G(op, C, D) == Goes(op, C, Class({"clone"}, {"fd", "buf"}, {}), D, {"return", "cleanup", "make", "get", "need"})
  <2>0. opt
    BY ONLY <1>13
  <2>1. Len(T) = 3
    BY ONLY <1>13
  <2>2. /\ T[1] = CloseIf("buf")
        /\ T[2] = CloseIf("fd")
        /\ T[3] = UnlinkCopy
    BY ONLY <1>13
  <2>3. /\ {"clone"} \ {"buf"} = {"clone"}
        /\ {"fd", "buf"} \ {"buf"} = {"fd"}
        /\ {} \ {"buf"} = {}
        /\ {"clone"} \ {"fd"} = {"clone"}
        /\ {"fd"} \ {"fd"} = {}
        /\ {} \ {"fd"} = {}
        /\ {"clone"} \ {"clone"} = {}
        /\ {} \ {"clone"} = {}
    OBVIOUS
  <2>4. G(T[1], Class({"clone"}, {"fd", "buf"}, {}), Class({"clone"}, {"fd"}, {}))
    BY <1>3, <1>4, <2>2, <2>3, GoesDrop, ReleaseParts
  <2>5. G(T[2], Class({"clone"}, {"fd"}, {}), Class({"clone"}, {}, {}))
    BY <1>3, <1>4, <2>2, <2>3, GoesDrop, ReleaseParts
  <2>6. G(T[3], Class({"clone"}, {}, {}), Class({}, {}, {}))
    BY <2>0, <1>3, <1>4, <2>2, <2>3, GoesRemove DEF UnlinkCopy
  <2>7. Upto(T, 1, Class({"clone"}, {"fd", "buf"}, {}), Class({"clone"}, {"fd", "buf"}, {}), {"return", "cleanup", "make", "get", "need"})
    BY <1>3, UptoFirst
  <2>8. Upto(T, 4, Class({"clone"}, {"fd", "buf"}, {}), Class({}, {}, {}), {"return", "cleanup", "make", "get", "need"})
    BY <2>7, <2>4, <2>5, <2>6, UptoStep
  <2>9. 4 = Len(T) + 1 /\ Len(T) \in Nat
    BY ONLY <2>1
  <2> QED
    BY ONLY <2>8, <2>9, UptoEnd
\* cleanup(0), without the option
<1>14. ASSUME NEW T, T = <<CloseIf("buf"), CloseIf("fd"), UnlinkCopy>>, ~opt
      PROVE  /\ TextFits(T, Class({}, {"fd", "buf"}, {}), {"return", "cleanup", "make", "get"})
             /\ Ends(T, Class({}, {"fd", "buf"}, {})) = Class({}, {}, {})
  <2> DEFINE G(op, C, D) == Goes(op, C, Class({}, {"fd", "buf"}, {}), D, {"return", "cleanup", "make", "get", "need"})
  <2>0. ~opt
    BY ONLY <1>14
  <2>1. Len(T) = 3
    BY ONLY <1>14
  <2>2. /\ T[1] = CloseIf("buf")
        /\ T[2] = CloseIf("fd")
        /\ T[3] = UnlinkCopy
    BY ONLY <1>14
  <2>3. /\ {} \ {"buf"} = {}
        /\ {"fd", "buf"} \ {"buf"} = {"fd"}
        /\ {} \ {"fd"} = {}
        /\ {"fd"} \ {"fd"} = {}
    OBVIOUS
  <2>4. G(T[1], Class({}, {"fd", "buf"}, {}), Class({}, {"fd"}, {}))
    BY <1>3, <1>4, <2>2, <2>3, GoesDrop, ReleaseParts
  <2>5. G(T[2], Class({}, {"fd"}, {}), Class({}, {}, {}))
    BY <1>3, <1>4, <2>2, <2>3, GoesDrop, ReleaseParts
  <2>6. G(T[3], Class({}, {}, {}), Class({}, {}, {}))
    BY <2>0, <1>3, <1>4, <2>2, GoesSpared
  <2>7. Upto(T, 1, Class({}, {"fd", "buf"}, {}), Class({}, {"fd", "buf"}, {}), {"return", "cleanup", "make", "get", "need"})
    BY <1>3, UptoFirst
  <2>8. Upto(T, 4, Class({}, {"fd", "buf"}, {}), Class({}, {}, {}), {"return", "cleanup", "make", "get", "need"})
    BY <2>7, <2>4, <2>5, <2>6, UptoStep
  <2>9. 4 = Len(T) + 1 /\ Len(T) \in Nat
    BY ONLY <2>1
  <2> QED
    BY ONLY <2>8, <2>9, UptoEnd
<1>15. Nothing = Class({}, {}, {})
  BY DEF Nothing, Class
<1>16. CASE opt
  <2>1. Between = Class({"clone"}, {"fd", "buf"}, {}) /\ During = Class({"clone"}, {"fd", "buf"}, {}) /\ Kept = {"clone"} /\ Loose = {}
    BY <1>16, <1>4 DEF Between, During, Kept, KeptBy, KeptWithOption, Nulled, Loose, Class
  <2>2. TextFits(P.zero, Nothing, {"return"}) /\ Ends(P.zero, Nothing) = Class({"clone"}, {"fd", "buf"}, {})
    BY <1>2, <1>5, <1>15, <1>16, <2>1
  <2>3. TextFits(P.nonzero, Between, {"return", "cleanup"}) /\ Ends(P.nonzero, Between) = Class({"clone"}, {"fd", "buf"}, {})
    BY <1>2, <1>7, <1>16, <2>1
  <2>4. TextFits(P.body, During, {"cleanup"}) /\ Ends(P.body, During) = Class({"clone"}, {"fd", "buf"}, {})
    BY <1>2, <1>9, <1>16, <2>1
  <2>5. TextFits(P.after, During, {"return", "cleanup"}) /\ Ends(P.after, During) = Class({"clone"}, {"fd", "buf"}, {})
    BY <1>2, <1>11, <1>16, <2>1
  <2>6. TextFits(P.end, Between, {"return", "cleanup", "make", "get"}) /\ Ends(P.end, Between) = Class({}, {}, {})
    BY <1>2, <1>13, <1>16, <2>1
  <2>7. Covers(Class({"clone"}, {"fd", "buf"}, {}), Class({"clone"}, {"fd", "buf"}, {})) /\ Covers(Class({"clone"}, {"fd", "buf"}, {}), Class({"clone"}, {"fd", "buf"}, {})) /\ Covers(Class({"clone"}, {"fd", "buf"}, {}), Class({"clone"}, {"fd", "buf"}, {}))
    BY ClassParts DEF Covers
  <2>8. {"clone", "dir"} \intersect (Ends(P.end, Between).held \union Ends(P.end, Between).loose) = {}
    BY <2>6, ClassParts
  <2>9. ~P.hasCleanup => {"clone", "dir"} \intersect (Kept \union Loose) = {}
    BY <1>2, <2>1
  <2> QED
    BY ONLY <2>1, <2>2, <2>3, <2>4, <2>5, <2>6, <2>7, <2>8, <2>9 DEF ProgramFits
<1>17. CASE ~opt
  <2>1. Between = Class({}, {"fd", "buf"}, {}) /\ During = Class({}, {"fd", "buf"}, {}) /\ Kept = {} /\ Loose = {}
    BY <1>17, <1>4 DEF Between, During, Kept, KeptBy, KeptWithOption, Nulled, Loose, Class
  <2>2. TextFits(P.zero, Nothing, {"return"}) /\ Ends(P.zero, Nothing) = Class({}, {"fd", "buf"}, {})
    BY <1>2, <1>6, <1>15, <1>17, <2>1
  <2>3. TextFits(P.nonzero, Between, {"return", "cleanup"}) /\ Ends(P.nonzero, Between) = Class({}, {"fd", "buf"}, {})
    BY <1>2, <1>8, <1>17, <2>1
  <2>4. TextFits(P.body, During, {"cleanup"}) /\ Ends(P.body, During) = Class({}, {"fd", "buf"}, {})
    BY <1>2, <1>10, <1>17, <2>1
  <2>5. TextFits(P.after, During, {"return", "cleanup"}) /\ Ends(P.after, During) = Class({}, {"fd", "buf"}, {})
    BY <1>2, <1>12, <1>17, <2>1
  <2>6. TextFits(P.end, Between, {"return", "cleanup", "make", "get"}) /\ Ends(P.end, Between) = Class({}, {}, {})
    BY <1>2, <1>14, <1>17, <2>1
  <2>7. Covers(Class({}, {"fd", "buf"}, {}), Class({}, {"fd", "buf"}, {})) /\ Covers(Class({}, {"fd", "buf"}, {}), Class({}, {"fd", "buf"}, {})) /\ Covers(Class({}, {"fd", "buf"}, {}), Class({}, {"fd", "buf"}, {}))
    BY ClassParts DEF Covers
  <2>8. {"clone", "dir"} \intersect (Ends(P.end, Between).held \union Ends(P.end, Between).loose) = {}
    BY <2>6, ClassParts
  <2>9. ~P.hasCleanup => {"clone", "dir"} \intersect (Kept \union Loose) = {}
    BY <1>2, <2>1
  <2> QED
    BY ONLY <2>1, <2>2, <2>3, <2>4, <2>5, <2>6, <2>7, <2>8, <2>9 DEF ProgramFits
<1> QED
  BY <1>16, <1>17

\* bw_mmap_rd_only.
LEMMA FitsBwMmapRdOnly ==
  ASSUME prog = "bw_mmap_rd_only", opt \in BOOLEAN
  PROVE  ProgramFits
<1>1. P = bw_mmap_rd_only
  BY DEF P, Program
<1>2. /\ P.zero = <<Null("fd"), Null("buf"), CopyFile, Get("fd", "exit"), Get("buf", "exit")>>
      /\ P.nonzero = <<>>
      /\ P.body = <<Use("buf")>>
      /\ P.after = <<>>
      /\ P.end = <<CloseIf("buf"), CloseIf("fd"), UnlinkCopy>>
      /\ P.hasCleanup = TRUE
  BY <1>1 DEF bw_mmap_rd_only, bw_mmap_rd_open, Idle
<1>3. {"buf", "fd"} \subseteq Resources /\ Resources \subseteq Cells /\ {"clone", "dir"} \subseteq Cells
  BY DEF Resources, Cells
<1>4. ~Careless /\ ~IsTree
  BY DEF Careless, Unchecked, IsTree
\* initialize(0), with the option
<1>5. ASSUME NEW T, T = <<Null("fd"), Null("buf"), CopyFile, Get("fd", "exit"), Get("buf",
          "exit")>>, opt
      PROVE  /\ TextFits(T, Class({}, {}, {}), {"return"})
             /\ Ends(T, Class({}, {}, {})) = Class({"clone", "fd", "buf"}, {}, {})
  <2> DEFINE G(op, C, D) == Goes(op, C, Class({}, {}, {}), D, {"return", "need"})
  <2>0. opt
    BY ONLY <1>5
  <2>1. Len(T) = 5
    BY ONLY <1>5
  <2>2. /\ T[1] = Null("fd")
        /\ T[2] = Null("buf")
        /\ T[3] = CopyFile
        /\ T[4] = Get("fd", "exit")
        /\ T[5] = Get("buf", "exit")
    BY ONLY <1>5
  <2>3. /\ {} \ {"fd"} = {}
        /\ {} \union {"fd"} = {"fd"}
        /\ {} \ {"buf"} = {}
        /\ {"fd"} \union {"buf"} = {"fd", "buf"}
        /\ {} \union {"clone"} = {"clone"}
        /\ {"fd", "buf"} \ {"clone"} = {"fd", "buf"}
        /\ {} \ {"clone"} = {}
        /\ {"clone"} \union {"fd"} = {"clone", "fd"}
        /\ {"fd", "buf"} \ {"fd"} = {"buf"}
        /\ {"clone", "fd"} \union {"buf"} = {"clone", "fd", "buf"}
        /\ {"buf"} \ {"buf"} = {}
    OBVIOUS
  <2>4. G(T[1], Class({}, {}, {}), Class({}, {"fd"}, {}))
    BY <1>3, <1>4, <2>2, <2>3, GoesNull
  <2>5. G(T[2], Class({}, {"fd"}, {}), Class({}, {"fd", "buf"}, {}))
    BY <1>3, <1>4, <2>2, <2>3, GoesNull
  <2>6. G(T[3], Class({}, {"fd", "buf"}, {}), Class({"clone"}, {"fd", "buf"}, {}))
    BY <2>0, <1>3, <1>4, <2>2, <2>3, GoesMake DEF CopyFile
  <2>7. G(T[4], Class({"clone"}, {"fd", "buf"}, {}), Class({"clone", "fd"}, {"buf"}, {}))
    BY <1>3, <1>4, <2>2, <2>3, GoesGetOrExit
  <2>8. G(T[5], Class({"clone", "fd"}, {"buf"}, {}), Class({"clone", "fd", "buf"}, {}, {}))
    BY <1>3, <1>4, <2>2, <2>3, GoesGetOrExit
  <2>9. Upto(T, 1, Class({}, {}, {}), Class({}, {}, {}), {"return", "need"})
    BY <1>3, UptoFirst
  <2>10. Upto(T, 4, Class({}, {}, {}), Class({"clone"}, {"fd", "buf"}, {}), {"return", "need"})
    BY <2>9, <2>4, <2>5, <2>6, UptoStep
  <2>11. Upto(T, 6, Class({}, {}, {}), Class({"clone", "fd", "buf"}, {}, {}), {"return", "need"})
    BY <2>10, <2>7, <2>8, UptoStep
  <2>12. 6 = Len(T) + 1 /\ Len(T) \in Nat
    BY ONLY <2>1
  <2> QED
    BY ONLY <2>11, <2>12, UptoEnd
\* initialize(0), without the option
<1>6. ASSUME NEW T, T = <<Null("fd"), Null("buf"), CopyFile, Get("fd", "exit"), Get("buf",
          "exit")>>, ~opt
      PROVE  /\ TextFits(T, Class({}, {}, {}), {"return"})
             /\ Ends(T, Class({}, {}, {})) = Class({"fd", "buf"}, {}, {})
  <2> DEFINE G(op, C, D) == Goes(op, C, Class({}, {}, {}), D, {"return", "need"})
  <2>0. ~opt
    BY ONLY <1>6
  <2>1. Len(T) = 5
    BY ONLY <1>6
  <2>2. /\ T[1] = Null("fd")
        /\ T[2] = Null("buf")
        /\ T[3] = CopyFile
        /\ T[4] = Get("fd", "exit")
        /\ T[5] = Get("buf", "exit")
    BY ONLY <1>6
  <2>3. /\ {} \ {"fd"} = {}
        /\ {} \union {"fd"} = {"fd"}
        /\ {} \ {"buf"} = {}
        /\ {"fd"} \union {"buf"} = {"fd", "buf"}
        /\ {"fd", "buf"} \ {"fd"} = {"buf"}
        /\ {"buf"} \ {"buf"} = {}
    OBVIOUS
  <2>4. G(T[1], Class({}, {}, {}), Class({}, {"fd"}, {}))
    BY <1>3, <1>4, <2>2, <2>3, GoesNull
  <2>5. G(T[2], Class({}, {"fd"}, {}), Class({}, {"fd", "buf"}, {}))
    BY <1>3, <1>4, <2>2, <2>3, GoesNull
  <2>6. G(T[3], Class({}, {"fd", "buf"}, {}), Class({}, {"fd", "buf"}, {}))
    BY <2>0, <1>3, <1>4, <2>2, GoesSpared
  <2>7. G(T[4], Class({}, {"fd", "buf"}, {}), Class({"fd"}, {"buf"}, {}))
    BY <1>3, <1>4, <2>2, <2>3, GoesGetOrExit
  <2>8. G(T[5], Class({"fd"}, {"buf"}, {}), Class({"fd", "buf"}, {}, {}))
    BY <1>3, <1>4, <2>2, <2>3, GoesGetOrExit
  <2>9. Upto(T, 1, Class({}, {}, {}), Class({}, {}, {}), {"return", "need"})
    BY <1>3, UptoFirst
  <2>10. Upto(T, 4, Class({}, {}, {}), Class({}, {"fd", "buf"}, {}), {"return", "need"})
    BY <2>9, <2>4, <2>5, <2>6, UptoStep
  <2>11. Upto(T, 6, Class({}, {}, {}), Class({"fd", "buf"}, {}, {}), {"return", "need"})
    BY <2>10, <2>7, <2>8, UptoStep
  <2>12. 6 = Len(T) + 1 /\ Len(T) \in Nat
    BY ONLY <2>1
  <2> QED
    BY ONLY <2>11, <2>12, UptoEnd
\* initialize(n), with the option
<1>7. ASSUME NEW T, T = <<>>, opt
      PROVE  /\ TextFits(T, Class({"fd", "buf", "clone"}, {}, {}), {"return", "cleanup"})
             /\ Ends(T, Class({"fd", "buf", "clone"}, {}, {})) = Class({"fd", "buf", "clone"}, {}, {})
  <2>1. {"fd", "buf", "clone"} \subseteq Cells /\ {} \subseteq Cells
    BY <1>3
  <2> QED
    BY ONLY <1>7, <2>1, TextEmpty
\* initialize(n), without the option
<1>8. ASSUME NEW T, T = <<>>, ~opt
      PROVE  /\ TextFits(T, Class({"fd", "buf"}, {}, {}), {"return", "cleanup"})
             /\ Ends(T, Class({"fd", "buf"}, {}, {})) = Class({"fd", "buf"}, {}, {})
  <2>1. {"fd", "buf"} \subseteq Cells /\ {} \subseteq Cells
    BY <1>3
  <2> QED
    BY ONLY <1>8, <2>1, TextEmpty
\* benchmark(n), with the option
<1>9. ASSUME NEW T, T = <<Use("buf")>>, opt
      PROVE  /\ TextFits(T, Class({"fd", "buf", "clone"}, {}, {}), {"cleanup"})
             /\ Ends(T, Class({"fd", "buf", "clone"}, {}, {})) = Class({"fd", "buf", "clone"}, {}, {})
  <2> DEFINE G(op, C, D) == Goes(op, C, Class({"fd", "buf", "clone"}, {}, {}), D, {"cleanup", "need"})
  <2>1. Len(T) = 1
    BY ONLY <1>9
  <2>2. /\ T[1] = Use("buf")
    BY ONLY <1>9
  <2>3. G(T[1], Class({"fd", "buf", "clone"}, {}, {}), Class({"fd", "buf", "clone"}, {}, {}))
    BY <1>3, <1>4, <2>2, GoesUse
  <2>4. Upto(T, 1, Class({"fd", "buf", "clone"}, {}, {}), Class({"fd", "buf", "clone"}, {}, {}), {"cleanup", "need"})
    BY <1>3, UptoFirst
  <2>5. Upto(T, 2, Class({"fd", "buf", "clone"}, {}, {}), Class({"fd", "buf", "clone"}, {}, {}), {"cleanup", "need"})
    BY <2>4, <2>3, UptoStep
  <2>6. 2 = Len(T) + 1 /\ Len(T) \in Nat
    BY ONLY <2>1
  <2> QED
    BY ONLY <2>5, <2>6, UptoEnd
\* benchmark(n), without the option
<1>10. ASSUME NEW T, T = <<Use("buf")>>, ~opt
      PROVE  /\ TextFits(T, Class({"fd", "buf"}, {}, {}), {"cleanup"})
             /\ Ends(T, Class({"fd", "buf"}, {}, {})) = Class({"fd", "buf"}, {}, {})
  <2> DEFINE G(op, C, D) == Goes(op, C, Class({"fd", "buf"}, {}, {}), D, {"cleanup", "need"})
  <2>1. Len(T) = 1
    BY ONLY <1>10
  <2>2. /\ T[1] = Use("buf")
    BY ONLY <1>10
  <2>3. G(T[1], Class({"fd", "buf"}, {}, {}), Class({"fd", "buf"}, {}, {}))
    BY <1>3, <1>4, <2>2, GoesUse
  <2>4. Upto(T, 1, Class({"fd", "buf"}, {}, {}), Class({"fd", "buf"}, {}, {}), {"cleanup", "need"})
    BY <1>3, UptoFirst
  <2>5. Upto(T, 2, Class({"fd", "buf"}, {}, {}), Class({"fd", "buf"}, {}, {}), {"cleanup", "need"})
    BY <2>4, <2>3, UptoStep
  <2>6. 2 = Len(T) + 1 /\ Len(T) \in Nat
    BY ONLY <2>1
  <2> QED
    BY ONLY <2>5, <2>6, UptoEnd
\* cleanup(n), with the option
<1>11. ASSUME NEW T, T = <<>>, opt
      PROVE  /\ TextFits(T, Class({"fd", "buf", "clone"}, {}, {}), {"return", "cleanup"})
             /\ Ends(T, Class({"fd", "buf", "clone"}, {}, {})) = Class({"fd", "buf", "clone"}, {}, {})
  <2>1. {"fd", "buf", "clone"} \subseteq Cells /\ {} \subseteq Cells
    BY <1>3
  <2> QED
    BY ONLY <1>11, <2>1, TextEmpty
\* cleanup(n), without the option
<1>12. ASSUME NEW T, T = <<>>, ~opt
      PROVE  /\ TextFits(T, Class({"fd", "buf"}, {}, {}), {"return", "cleanup"})
             /\ Ends(T, Class({"fd", "buf"}, {}, {})) = Class({"fd", "buf"}, {}, {})
  <2>1. {"fd", "buf"} \subseteq Cells /\ {} \subseteq Cells
    BY <1>3
  <2> QED
    BY ONLY <1>12, <2>1, TextEmpty
\* cleanup(0), with the option
<1>13. ASSUME NEW T, T = <<CloseIf("buf"), CloseIf("fd"), UnlinkCopy>>, opt
      PROVE  /\ TextFits(T, Class({"fd", "buf", "clone"}, {}, {}), {"return", "cleanup", "make",
               "get"})
             /\ Ends(T, Class({"fd", "buf", "clone"}, {}, {})) = Class({}, {}, {})
  <2> DEFINE G(op, C, D) == Goes(op, C, Class({"fd", "buf", "clone"}, {}, {}), D, {"return", "cleanup", "make", "get", "need"})
  <2>0. opt
    BY ONLY <1>13
  <2>1. Len(T) = 3
    BY ONLY <1>13
  <2>2. /\ T[1] = CloseIf("buf")
        /\ T[2] = CloseIf("fd")
        /\ T[3] = UnlinkCopy
    BY ONLY <1>13
  <2>3. /\ {"fd", "buf", "clone"} \ {"buf"} = {"fd", "clone"}
        /\ {} \ {"buf"} = {}
        /\ {"fd", "clone"} \ {"fd"} = {"clone"}
        /\ {} \ {"fd"} = {}
        /\ {"clone"} \ {"clone"} = {}
        /\ {} \ {"clone"} = {}
    OBVIOUS
  <2>4. G(T[1], Class({"fd", "buf", "clone"}, {}, {}), Class({"fd", "clone"}, {}, {}))
    BY <1>3, <1>4, <2>2, <2>3, GoesDrop, ReleaseParts
  <2>5. G(T[2], Class({"fd", "clone"}, {}, {}), Class({"clone"}, {}, {}))
    BY <1>3, <1>4, <2>2, <2>3, GoesDrop, ReleaseParts
  <2>6. G(T[3], Class({"clone"}, {}, {}), Class({}, {}, {}))
    BY <2>0, <1>3, <1>4, <2>2, <2>3, GoesRemove DEF UnlinkCopy
  <2>7. Upto(T, 1, Class({"fd", "buf", "clone"}, {}, {}), Class({"fd", "buf", "clone"}, {}, {}), {"return", "cleanup", "make", "get", "need"})
    BY <1>3, UptoFirst
  <2>8. Upto(T, 4, Class({"fd", "buf", "clone"}, {}, {}), Class({}, {}, {}), {"return", "cleanup", "make", "get", "need"})
    BY <2>7, <2>4, <2>5, <2>6, UptoStep
  <2>9. 4 = Len(T) + 1 /\ Len(T) \in Nat
    BY ONLY <2>1
  <2> QED
    BY ONLY <2>8, <2>9, UptoEnd
\* cleanup(0), without the option
<1>14. ASSUME NEW T, T = <<CloseIf("buf"), CloseIf("fd"), UnlinkCopy>>, ~opt
      PROVE  /\ TextFits(T, Class({"fd", "buf"}, {}, {}), {"return", "cleanup", "make", "get"})
             /\ Ends(T, Class({"fd", "buf"}, {}, {})) = Class({}, {}, {})
  <2> DEFINE G(op, C, D) == Goes(op, C, Class({"fd", "buf"}, {}, {}), D, {"return", "cleanup", "make", "get", "need"})
  <2>0. ~opt
    BY ONLY <1>14
  <2>1. Len(T) = 3
    BY ONLY <1>14
  <2>2. /\ T[1] = CloseIf("buf")
        /\ T[2] = CloseIf("fd")
        /\ T[3] = UnlinkCopy
    BY ONLY <1>14
  <2>3. /\ {"fd", "buf"} \ {"buf"} = {"fd"}
        /\ {} \ {"buf"} = {}
        /\ {"fd"} \ {"fd"} = {}
        /\ {} \ {"fd"} = {}
    OBVIOUS
  <2>4. G(T[1], Class({"fd", "buf"}, {}, {}), Class({"fd"}, {}, {}))
    BY <1>3, <1>4, <2>2, <2>3, GoesDrop, ReleaseParts
  <2>5. G(T[2], Class({"fd"}, {}, {}), Class({}, {}, {}))
    BY <1>3, <1>4, <2>2, <2>3, GoesDrop, ReleaseParts
  <2>6. G(T[3], Class({}, {}, {}), Class({}, {}, {}))
    BY <2>0, <1>3, <1>4, <2>2, GoesSpared
  <2>7. Upto(T, 1, Class({"fd", "buf"}, {}, {}), Class({"fd", "buf"}, {}, {}), {"return", "cleanup", "make", "get", "need"})
    BY <1>3, UptoFirst
  <2>8. Upto(T, 4, Class({"fd", "buf"}, {}, {}), Class({}, {}, {}), {"return", "cleanup", "make", "get", "need"})
    BY <2>7, <2>4, <2>5, <2>6, UptoStep
  <2>9. 4 = Len(T) + 1 /\ Len(T) \in Nat
    BY ONLY <2>1
  <2> QED
    BY ONLY <2>8, <2>9, UptoEnd
<1>15. Nothing = Class({}, {}, {})
  BY DEF Nothing, Class
<1>16. CASE opt
  <2>1. Between = Class({"fd", "buf", "clone"}, {}, {}) /\ During = Class({"fd", "buf", "clone"}, {}, {}) /\ Kept = {"fd", "buf", "clone"} /\ Loose = {}
    BY <1>16, <1>4 DEF Between, During, Kept, KeptBy, KeptWithOption, Nulled, Loose, Class
  <2>2. TextFits(P.zero, Nothing, {"return"}) /\ Ends(P.zero, Nothing) = Class({"clone", "fd", "buf"}, {}, {})
    BY <1>2, <1>5, <1>15, <1>16, <2>1
  <2>3. TextFits(P.nonzero, Between, {"return", "cleanup"}) /\ Ends(P.nonzero, Between) = Class({"fd", "buf", "clone"}, {}, {})
    BY <1>2, <1>7, <1>16, <2>1
  <2>4. TextFits(P.body, During, {"cleanup"}) /\ Ends(P.body, During) = Class({"fd", "buf", "clone"}, {}, {})
    BY <1>2, <1>9, <1>16, <2>1
  <2>5. TextFits(P.after, During, {"return", "cleanup"}) /\ Ends(P.after, During) = Class({"fd", "buf", "clone"}, {}, {})
    BY <1>2, <1>11, <1>16, <2>1
  <2>6. TextFits(P.end, Between, {"return", "cleanup", "make", "get"}) /\ Ends(P.end, Between) = Class({}, {}, {})
    BY <1>2, <1>13, <1>16, <2>1
  <2>7. Covers(Class({"fd", "buf", "clone"}, {}, {}), Class({"clone", "fd", "buf"}, {}, {})) /\ Covers(Class({"fd", "buf", "clone"}, {}, {}), Class({"fd", "buf", "clone"}, {}, {})) /\ Covers(Class({"fd", "buf", "clone"}, {}, {}), Class({"fd", "buf", "clone"}, {}, {}))
    BY ClassParts DEF Covers
  <2>8. {"clone", "dir"} \intersect (Ends(P.end, Between).held \union Ends(P.end, Between).loose) = {}
    BY <2>6, ClassParts
  <2>9. ~P.hasCleanup => {"clone", "dir"} \intersect (Kept \union Loose) = {}
    BY <1>2, <2>1
  <2> QED
    BY ONLY <2>1, <2>2, <2>3, <2>4, <2>5, <2>6, <2>7, <2>8, <2>9 DEF ProgramFits
<1>17. CASE ~opt
  <2>1. Between = Class({"fd", "buf"}, {}, {}) /\ During = Class({"fd", "buf"}, {}, {}) /\ Kept = {"fd", "buf"} /\ Loose = {}
    BY <1>17, <1>4 DEF Between, During, Kept, KeptBy, KeptWithOption, Nulled, Loose, Class
  <2>2. TextFits(P.zero, Nothing, {"return"}) /\ Ends(P.zero, Nothing) = Class({"fd", "buf"}, {}, {})
    BY <1>2, <1>6, <1>15, <1>17, <2>1
  <2>3. TextFits(P.nonzero, Between, {"return", "cleanup"}) /\ Ends(P.nonzero, Between) = Class({"fd", "buf"}, {}, {})
    BY <1>2, <1>8, <1>17, <2>1
  <2>4. TextFits(P.body, During, {"cleanup"}) /\ Ends(P.body, During) = Class({"fd", "buf"}, {}, {})
    BY <1>2, <1>10, <1>17, <2>1
  <2>5. TextFits(P.after, During, {"return", "cleanup"}) /\ Ends(P.after, During) = Class({"fd", "buf"}, {}, {})
    BY <1>2, <1>12, <1>17, <2>1
  <2>6. TextFits(P.end, Between, {"return", "cleanup", "make", "get"}) /\ Ends(P.end, Between) = Class({}, {}, {})
    BY <1>2, <1>14, <1>17, <2>1
  <2>7. Covers(Class({"fd", "buf"}, {}, {}), Class({"fd", "buf"}, {}, {})) /\ Covers(Class({"fd", "buf"}, {}, {}), Class({"fd", "buf"}, {}, {})) /\ Covers(Class({"fd", "buf"}, {}, {}), Class({"fd", "buf"}, {}, {}))
    BY ClassParts DEF Covers
  <2>8. {"clone", "dir"} \intersect (Ends(P.end, Between).held \union Ends(P.end, Between).loose) = {}
    BY <2>6, ClassParts
  <2>9. ~P.hasCleanup => {"clone", "dir"} \intersect (Kept \union Loose) = {}
    BY <1>2, <2>1
  <2> QED
    BY ONLY <2>1, <2>2, <2>3, <2>4, <2>5, <2>6, <2>7, <2>8, <2>9 DEF ProgramFits
<1> QED
  BY <1>16, <1>17

\* bw_mem.
LEMMA FitsBwMem ==
  ASSUME prog = "bw_mem", opt \in BOOLEAN
  PROVE  ProgramFits
<1>1. P = bw_mem
  BY DEF P, Program
<1>2. /\ P.zero = <<Null("buf2"), Get("buf", "exit"), Opt(Get("buf2", "exit"))>>
      /\ P.nonzero = <<>>
      /\ P.body = <<Use("buf"), Opt(Use("buf2"))>>
      /\ P.after = <<>>
      /\ P.end = <<Free("buf"), FreeIf("buf2")>>
      /\ P.hasCleanup = TRUE
  BY <1>1 DEF bw_mem, Idle
<1>3. {"buf", "buf2"} \subseteq Resources /\ Resources \subseteq Cells /\ {"clone", "dir"} \subseteq Cells
  BY DEF Resources, Cells
<1>4. ~Careless /\ ~IsTree
  BY DEF Careless, Unchecked, IsTree
\* initialize(0), with the option
<1>5. ASSUME NEW T, T = <<Null("buf2"), Get("buf", "exit"), Opt(Get("buf2", "exit"))>>, opt
      PROVE  /\ TextFits(T, Class({}, {}, {}), {"return"})
             /\ Ends(T, Class({}, {}, {})) = Class({"buf", "buf2"}, {}, {})
  <2> DEFINE G(op, C, D) == Goes(op, C, Class({}, {}, {}), D, {"return", "need"})
  <2>0. opt
    BY ONLY <1>5
  <2>1. Len(T) = 3
    BY ONLY <1>5
  <2>2. /\ T[1] = Null("buf2")
        /\ T[2] = Get("buf", "exit")
        /\ T[3] = Opt(Get("buf2", "exit"))
    BY ONLY <1>5
  <2>3. /\ {} \ {"buf2"} = {}
        /\ {} \union {"buf2"} = {"buf2"}
        /\ {} \union {"buf"} = {"buf"}
        /\ {"buf2"} \ {"buf"} = {"buf2"}
        /\ {} \ {"buf"} = {}
        /\ {"buf"} \union {"buf2"} = {"buf", "buf2"}
        /\ {"buf2"} \ {"buf2"} = {}
    OBVIOUS
  <2>4. G(T[1], Class({}, {}, {}), Class({}, {"buf2"}, {}))
    BY <1>3, <1>4, <2>2, <2>3, GoesNull
  <2>5. G(T[2], Class({}, {"buf2"}, {}), Class({"buf"}, {"buf2"}, {}))
    BY <1>3, <1>4, <2>2, <2>3, GoesGetOrExit
  <2>6. G(T[3], Class({"buf"}, {"buf2"}, {}), Class({"buf", "buf2"}, {}, {}))
    BY <2>0, <1>3, <1>4, <2>2, <2>3, GoesGetIfOption
  <2>7. Upto(T, 1, Class({}, {}, {}), Class({}, {}, {}), {"return", "need"})
    BY <1>3, UptoFirst
  <2>8. Upto(T, 4, Class({}, {}, {}), Class({"buf", "buf2"}, {}, {}), {"return", "need"})
    BY <2>7, <2>4, <2>5, <2>6, UptoStep
  <2>9. 4 = Len(T) + 1 /\ Len(T) \in Nat
    BY ONLY <2>1
  <2> QED
    BY ONLY <2>8, <2>9, UptoEnd
\* initialize(0), without the option
<1>6. ASSUME NEW T, T = <<Null("buf2"), Get("buf", "exit"), Opt(Get("buf2", "exit"))>>, ~opt
      PROVE  /\ TextFits(T, Class({}, {}, {}), {"return"})
             /\ Ends(T, Class({}, {}, {})) = Class({"buf"}, {"buf2"}, {})
  <2> DEFINE G(op, C, D) == Goes(op, C, Class({}, {}, {}), D, {"return", "need"})
  <2>0. ~opt
    BY ONLY <1>6
  <2>1. Len(T) = 3
    BY ONLY <1>6
  <2>2. /\ T[1] = Null("buf2")
        /\ T[2] = Get("buf", "exit")
        /\ T[3] = Opt(Get("buf2", "exit"))
    BY ONLY <1>6
  <2>3. /\ {} \ {"buf2"} = {}
        /\ {} \union {"buf2"} = {"buf2"}
        /\ {} \union {"buf"} = {"buf"}
        /\ {"buf2"} \ {"buf"} = {"buf2"}
        /\ {} \ {"buf"} = {}
    OBVIOUS
  <2>4. G(T[1], Class({}, {}, {}), Class({}, {"buf2"}, {}))
    BY <1>3, <1>4, <2>2, <2>3, GoesNull
  <2>5. G(T[2], Class({}, {"buf2"}, {}), Class({"buf"}, {"buf2"}, {}))
    BY <1>3, <1>4, <2>2, <2>3, GoesGetOrExit
  <2>6. G(T[3], Class({"buf"}, {"buf2"}, {}), Class({"buf"}, {"buf2"}, {}))
    BY <2>0, <1>3, <1>4, <2>2, GoesSpared
  <2>7. Upto(T, 1, Class({}, {}, {}), Class({}, {}, {}), {"return", "need"})
    BY <1>3, UptoFirst
  <2>8. Upto(T, 4, Class({}, {}, {}), Class({"buf"}, {"buf2"}, {}), {"return", "need"})
    BY <2>7, <2>4, <2>5, <2>6, UptoStep
  <2>9. 4 = Len(T) + 1 /\ Len(T) \in Nat
    BY ONLY <2>1
  <2> QED
    BY ONLY <2>8, <2>9, UptoEnd
\* initialize(n), with the option
<1>7. ASSUME NEW T, T = <<>>, opt
      PROVE  /\ TextFits(T, Class({"buf", "buf2"}, {}, {}), {"return", "cleanup"})
             /\ Ends(T, Class({"buf", "buf2"}, {}, {})) = Class({"buf", "buf2"}, {}, {})
  <2>1. {"buf", "buf2"} \subseteq Cells /\ {} \subseteq Cells
    BY <1>3
  <2> QED
    BY ONLY <1>7, <2>1, TextEmpty
\* initialize(n), without the option
<1>8. ASSUME NEW T, T = <<>>, ~opt
      PROVE  /\ TextFits(T, Class({"buf"}, {"buf2"}, {}), {"return", "cleanup"})
             /\ Ends(T, Class({"buf"}, {"buf2"}, {})) = Class({"buf"}, {"buf2"}, {})
  <2>1. {"buf"} \subseteq Cells /\ {"buf2"} \subseteq Cells /\ {} \subseteq Cells
    BY <1>3
  <2> QED
    BY ONLY <1>8, <2>1, TextEmpty
\* benchmark(n), with the option
<1>9. ASSUME NEW T, T = <<Use("buf"), Opt(Use("buf2"))>>, opt
      PROVE  /\ TextFits(T, Class({"buf", "buf2"}, {}, {}), {"cleanup"})
             /\ Ends(T, Class({"buf", "buf2"}, {}, {})) = Class({"buf", "buf2"}, {}, {})
  <2> DEFINE G(op, C, D) == Goes(op, C, Class({"buf", "buf2"}, {}, {}), D, {"cleanup", "need"})
  <2>0. opt
    BY ONLY <1>9
  <2>1. Len(T) = 2
    BY ONLY <1>9
  <2>2. /\ T[1] = Use("buf")
        /\ T[2] = Opt(Use("buf2"))
    BY ONLY <1>9
  <2>3. G(T[1], Class({"buf", "buf2"}, {}, {}), Class({"buf", "buf2"}, {}, {}))
    BY <1>3, <1>4, <2>2, GoesUse
  <2>4. G(T[2], Class({"buf", "buf2"}, {}, {}), Class({"buf", "buf2"}, {}, {}))
    BY <2>0, <1>3, <1>4, <2>2, GoesUse
  <2>5. Upto(T, 1, Class({"buf", "buf2"}, {}, {}), Class({"buf", "buf2"}, {}, {}), {"cleanup", "need"})
    BY <1>3, UptoFirst
  <2>6. Upto(T, 3, Class({"buf", "buf2"}, {}, {}), Class({"buf", "buf2"}, {}, {}), {"cleanup", "need"})
    BY <2>5, <2>3, <2>4, UptoStep
  <2>7. 3 = Len(T) + 1 /\ Len(T) \in Nat
    BY ONLY <2>1
  <2> QED
    BY ONLY <2>6, <2>7, UptoEnd
\* benchmark(n), without the option
<1>10. ASSUME NEW T, T = <<Use("buf"), Opt(Use("buf2"))>>, ~opt
      PROVE  /\ TextFits(T, Class({"buf"}, {"buf2"}, {}), {"cleanup"})
             /\ Ends(T, Class({"buf"}, {"buf2"}, {})) = Class({"buf"}, {"buf2"}, {})
  <2> DEFINE G(op, C, D) == Goes(op, C, Class({"buf"}, {"buf2"}, {}), D, {"cleanup", "need"})
  <2>0. ~opt
    BY ONLY <1>10
  <2>1. Len(T) = 2
    BY ONLY <1>10
  <2>2. /\ T[1] = Use("buf")
        /\ T[2] = Opt(Use("buf2"))
    BY ONLY <1>10
  <2>3. G(T[1], Class({"buf"}, {"buf2"}, {}), Class({"buf"}, {"buf2"}, {}))
    BY <1>3, <1>4, <2>2, GoesUse
  <2>4. G(T[2], Class({"buf"}, {"buf2"}, {}), Class({"buf"}, {"buf2"}, {}))
    BY <2>0, <1>3, <1>4, <2>2, GoesSpared
  <2>5. Upto(T, 1, Class({"buf"}, {"buf2"}, {}), Class({"buf"}, {"buf2"}, {}), {"cleanup", "need"})
    BY <1>3, UptoFirst
  <2>6. Upto(T, 3, Class({"buf"}, {"buf2"}, {}), Class({"buf"}, {"buf2"}, {}), {"cleanup", "need"})
    BY <2>5, <2>3, <2>4, UptoStep
  <2>7. 3 = Len(T) + 1 /\ Len(T) \in Nat
    BY ONLY <2>1
  <2> QED
    BY ONLY <2>6, <2>7, UptoEnd
\* cleanup(n), with the option
<1>11. ASSUME NEW T, T = <<>>, opt
      PROVE  /\ TextFits(T, Class({"buf", "buf2"}, {}, {}), {"return", "cleanup"})
             /\ Ends(T, Class({"buf", "buf2"}, {}, {})) = Class({"buf", "buf2"}, {}, {})
  <2>1. {"buf", "buf2"} \subseteq Cells /\ {} \subseteq Cells
    BY <1>3
  <2> QED
    BY ONLY <1>11, <2>1, TextEmpty
\* cleanup(n), without the option
<1>12. ASSUME NEW T, T = <<>>, ~opt
      PROVE  /\ TextFits(T, Class({"buf"}, {"buf2"}, {}), {"return", "cleanup"})
             /\ Ends(T, Class({"buf"}, {"buf2"}, {})) = Class({"buf"}, {"buf2"}, {})
  <2>1. {"buf"} \subseteq Cells /\ {"buf2"} \subseteq Cells /\ {} \subseteq Cells
    BY <1>3
  <2> QED
    BY ONLY <1>12, <2>1, TextEmpty
\* cleanup(0), with the option
<1>13. ASSUME NEW T, T = <<Free("buf"), FreeIf("buf2")>>, opt
      PROVE  /\ TextFits(T, Class({"buf", "buf2"}, {}, {}), {"return", "cleanup", "make", "get"})
             /\ Ends(T, Class({"buf", "buf2"}, {}, {})) = Class({}, {}, {})
  <2> DEFINE G(op, C, D) == Goes(op, C, Class({"buf", "buf2"}, {}, {}), D, {"return", "cleanup", "make", "get", "need"})
  <2>1. Len(T) = 2
    BY ONLY <1>13
  <2>2. /\ T[1] = Free("buf")
        /\ T[2] = FreeIf("buf2")
    BY ONLY <1>13
  <2>3. /\ {"buf", "buf2"} \ {"buf"} = {"buf2"}
        /\ {} \ {"buf"} = {}
        /\ {"buf2"} \ {"buf2"} = {}
        /\ {} \ {"buf2"} = {}
    OBVIOUS
  <2>4. G(T[1], Class({"buf", "buf2"}, {}, {}), Class({"buf2"}, {}, {}))
    BY <1>3, <1>4, <2>2, <2>3, GoesDrop, ReleaseParts
  <2>5. G(T[2], Class({"buf2"}, {}, {}), Class({}, {}, {}))
    BY <1>3, <1>4, <2>2, <2>3, GoesDrop, ReleaseParts
  <2>6. Upto(T, 1, Class({"buf", "buf2"}, {}, {}), Class({"buf", "buf2"}, {}, {}), {"return", "cleanup", "make", "get", "need"})
    BY <1>3, UptoFirst
  <2>7. Upto(T, 3, Class({"buf", "buf2"}, {}, {}), Class({}, {}, {}), {"return", "cleanup", "make", "get", "need"})
    BY <2>6, <2>4, <2>5, UptoStep
  <2>8. 3 = Len(T) + 1 /\ Len(T) \in Nat
    BY ONLY <2>1
  <2> QED
    BY ONLY <2>7, <2>8, UptoEnd
\* cleanup(0), without the option
<1>14. ASSUME NEW T, T = <<Free("buf"), FreeIf("buf2")>>, ~opt
      PROVE  /\ TextFits(T, Class({"buf"}, {"buf2"}, {}), {"return", "cleanup", "make", "get"})
             /\ Ends(T, Class({"buf"}, {"buf2"}, {})) = Class({}, {}, {})
  <2> DEFINE G(op, C, D) == Goes(op, C, Class({"buf"}, {"buf2"}, {}), D, {"return", "cleanup", "make", "get", "need"})
  <2>1. Len(T) = 2
    BY ONLY <1>14
  <2>2. /\ T[1] = Free("buf")
        /\ T[2] = FreeIf("buf2")
    BY ONLY <1>14
  <2>3. /\ {"buf"} \ {"buf"} = {}
        /\ {"buf2"} \ {"buf"} = {"buf2"}
        /\ {} \ {"buf"} = {}
        /\ {} \ {"buf2"} = {}
        /\ {"buf2"} \ {"buf2"} = {}
    OBVIOUS
  <2>4. G(T[1], Class({"buf"}, {"buf2"}, {}), Class({}, {"buf2"}, {}))
    BY <1>3, <1>4, <2>2, <2>3, GoesDrop, ReleaseParts
  <2>5. G(T[2], Class({}, {"buf2"}, {}), Class({}, {}, {}))
    BY <1>3, <1>4, <2>2, <2>3, GoesDrop, ReleaseParts
  <2>6. Upto(T, 1, Class({"buf"}, {"buf2"}, {}), Class({"buf"}, {"buf2"}, {}), {"return", "cleanup", "make", "get", "need"})
    BY <1>3, UptoFirst
  <2>7. Upto(T, 3, Class({"buf"}, {"buf2"}, {}), Class({}, {}, {}), {"return", "cleanup", "make", "get", "need"})
    BY <2>6, <2>4, <2>5, UptoStep
  <2>8. 3 = Len(T) + 1 /\ Len(T) \in Nat
    BY ONLY <2>1
  <2> QED
    BY ONLY <2>7, <2>8, UptoEnd
<1>15. Nothing = Class({}, {}, {})
  BY DEF Nothing, Class
<1>16. CASE opt
  <2>1. Between = Class({"buf", "buf2"}, {}, {}) /\ During = Class({"buf", "buf2"}, {}, {}) /\ Kept = {"buf", "buf2"} /\ Loose = {}
    BY <1>16, <1>4 DEF Between, During, Kept, KeptBy, KeptWithOption, Nulled, Loose, Class
  <2>2. TextFits(P.zero, Nothing, {"return"}) /\ Ends(P.zero, Nothing) = Class({"buf", "buf2"}, {}, {})
    BY <1>2, <1>5, <1>15, <1>16, <2>1
  <2>3. TextFits(P.nonzero, Between, {"return", "cleanup"}) /\ Ends(P.nonzero, Between) = Class({"buf", "buf2"}, {}, {})
    BY <1>2, <1>7, <1>16, <2>1
  <2>4. TextFits(P.body, During, {"cleanup"}) /\ Ends(P.body, During) = Class({"buf", "buf2"}, {}, {})
    BY <1>2, <1>9, <1>16, <2>1
  <2>5. TextFits(P.after, During, {"return", "cleanup"}) /\ Ends(P.after, During) = Class({"buf", "buf2"}, {}, {})
    BY <1>2, <1>11, <1>16, <2>1
  <2>6. TextFits(P.end, Between, {"return", "cleanup", "make", "get"}) /\ Ends(P.end, Between) = Class({}, {}, {})
    BY <1>2, <1>13, <1>16, <2>1
  <2>7. Covers(Class({"buf", "buf2"}, {}, {}), Class({"buf", "buf2"}, {}, {})) /\ Covers(Class({"buf", "buf2"}, {}, {}), Class({"buf", "buf2"}, {}, {})) /\ Covers(Class({"buf", "buf2"}, {}, {}), Class({"buf", "buf2"}, {}, {}))
    BY ClassParts DEF Covers
  <2>8. {"clone", "dir"} \intersect (Ends(P.end, Between).held \union Ends(P.end, Between).loose) = {}
    BY <2>6, ClassParts
  <2>9. ~P.hasCleanup => {"clone", "dir"} \intersect (Kept \union Loose) = {}
    BY <1>2, <2>1
  <2> QED
    BY ONLY <2>1, <2>2, <2>3, <2>4, <2>5, <2>6, <2>7, <2>8, <2>9 DEF ProgramFits
<1>17. CASE ~opt
  <2>1. Between = Class({"buf"}, {"buf2"}, {}) /\ During = Class({"buf"}, {"buf2"}, {}) /\ Kept = {"buf"} /\ Loose = {}
    BY <1>17, <1>4 DEF Between, During, Kept, KeptBy, KeptWithOption, Nulled, Loose, Class
  <2>2. TextFits(P.zero, Nothing, {"return"}) /\ Ends(P.zero, Nothing) = Class({"buf"}, {"buf2"}, {})
    BY <1>2, <1>6, <1>15, <1>17, <2>1
  <2>3. TextFits(P.nonzero, Between, {"return", "cleanup"}) /\ Ends(P.nonzero, Between) = Class({"buf"}, {"buf2"}, {})
    BY <1>2, <1>8, <1>17, <2>1
  <2>4. TextFits(P.body, During, {"cleanup"}) /\ Ends(P.body, During) = Class({"buf"}, {"buf2"}, {})
    BY <1>2, <1>10, <1>17, <2>1
  <2>5. TextFits(P.after, During, {"return", "cleanup"}) /\ Ends(P.after, During) = Class({"buf"}, {"buf2"}, {})
    BY <1>2, <1>12, <1>17, <2>1
  <2>6. TextFits(P.end, Between, {"return", "cleanup", "make", "get"}) /\ Ends(P.end, Between) = Class({}, {}, {})
    BY <1>2, <1>14, <1>17, <2>1
  <2>7. Covers(Class({"buf"}, {"buf2"}, {}), Class({"buf"}, {"buf2"}, {})) /\ Covers(Class({"buf"}, {"buf2"}, {}), Class({"buf"}, {"buf2"}, {})) /\ Covers(Class({"buf"}, {"buf2"}, {}), Class({"buf"}, {"buf2"}, {}))
    BY ClassParts DEF Covers
  <2>8. {"clone", "dir"} \intersect (Ends(P.end, Between).held \union Ends(P.end, Between).loose) = {}
    BY <2>6, ClassParts
  <2>9. ~P.hasCleanup => {"clone", "dir"} \intersect (Kept \union Loose) = {}
    BY <1>2, <2>1
  <2> QED
    BY ONLY <2>1, <2>2, <2>3, <2>4, <2>5, <2>6, <2>7, <2>8, <2>9 DEF ProgramFits
<1> QED
  BY <1>16, <1>17

\* stream.
LEMMA FitsStream ==
  ASSUME prog = "stream", opt \in BOOLEAN
  PROVE  ProgramFits
<1>1. P = stream
  BY DEF P, Program
<1>2. /\ P.zero = <<Get("a", "ignore"), Get("b", "ignore"), Get("c", "ignore"), Must("a"), Must("b"),
            Must("c"), Use("a"), Use("b"), Use("c")>>
      /\ P.nonzero = <<>>
      /\ P.body = <<Use("a"), Use("b"), Use("c")>>
      /\ P.after = <<>>
      /\ P.end = <<Free("a"), Free("b"), Free("c")>>
      /\ P.hasCleanup = TRUE
  BY <1>1 DEF stream, Idle
<1>3. {"a", "b", "c"} \subseteq Resources /\ Resources \subseteq Cells /\ {"clone", "dir"} \subseteq Cells
  BY DEF Resources, Cells
<1>4. ~Careless /\ ~IsTree
  BY DEF Careless, Unchecked, IsTree
\* initialize(0)
<1>5. ASSUME NEW T, T = <<Get("a", "ignore"), Get("b", "ignore"), Get("c", "ignore"), Must("a"),
          Must("b"), Must("c"), Use("a"), Use("b"), Use("c")>>
      PROVE  /\ TextFits(T, Class({}, {}, {}), {"return"})
             /\ Ends(T, Class({}, {}, {})) = Class({"a", "b", "c"}, {}, {})
  <2> DEFINE G(op, C, D) == Goes(op, C, Class({}, {}, {}), D, {"return", "need"})
  <2>1. Len(T) = 9
    BY ONLY <1>5
  <2>2. /\ T[1] = Get("a", "ignore")
        /\ T[2] = Get("b", "ignore")
        /\ T[3] = Get("c", "ignore")
        /\ T[4] = Must("a")
        /\ T[5] = Must("b")
        /\ T[6] = Must("c")
        /\ T[7] = Use("a")
        /\ T[8] = Use("b")
        /\ T[9] = Use("c")
    BY ONLY <1>5
  <2>3. /\ {} \ {"a"} = {}
        /\ {} \union {"a"} = {"a"}
        /\ {} \ {"b"} = {}
        /\ {"a"} \union {"b"} = {"a", "b"}
        /\ {} \ {"c"} = {}
        /\ {"a", "b"} \union {"c"} = {"a", "b", "c"}
        /\ {"a", "b", "c"} \ {"a"} = {"b", "c"}
        /\ {"b", "c"} \ {"b"} = {"c"}
        /\ {"c"} \ {"c"} = {}
    OBVIOUS
  <2>4. G(T[1], Class({}, {}, {}), Class({}, {}, {"a"}))
    BY <1>3, <1>4, <2>2, <2>3, GoesTry
  <2>5. G(T[2], Class({}, {}, {"a"}), Class({}, {}, {"a", "b"}))
    BY <1>3, <1>4, <2>2, <2>3, GoesTry
  <2>6. G(T[3], Class({}, {}, {"a", "b"}), Class({}, {}, {"a", "b", "c"}))
    BY <1>3, <1>4, <2>2, <2>3, GoesTry
  <2>7. G(T[4], Class({}, {}, {"a", "b", "c"}), Class({"a"}, {}, {"b", "c"}))
    BY <1>3, <1>4, <2>2, <2>3, GoesMust
  <2>8. G(T[5], Class({"a"}, {}, {"b", "c"}), Class({"a", "b"}, {}, {"c"}))
    BY <1>3, <1>4, <2>2, <2>3, GoesMust
  <2>9. G(T[6], Class({"a", "b"}, {}, {"c"}), Class({"a", "b", "c"}, {}, {}))
    BY <1>3, <1>4, <2>2, <2>3, GoesMust
  <2>10. G(T[7], Class({"a", "b", "c"}, {}, {}), Class({"a", "b", "c"}, {}, {}))
    BY <1>3, <1>4, <2>2, GoesUse
  <2>11. G(T[8], Class({"a", "b", "c"}, {}, {}), Class({"a", "b", "c"}, {}, {}))
    BY <1>3, <1>4, <2>2, GoesUse
  <2>12. G(T[9], Class({"a", "b", "c"}, {}, {}), Class({"a", "b", "c"}, {}, {}))
    BY <1>3, <1>4, <2>2, GoesUse
  <2>13. Upto(T, 1, Class({}, {}, {}), Class({}, {}, {}), {"return", "need"})
    BY <1>3, UptoFirst
  <2>14. Upto(T, 4, Class({}, {}, {}), Class({}, {}, {"a", "b", "c"}), {"return", "need"})
    BY <2>13, <2>4, <2>5, <2>6, UptoStep
  <2>15. Upto(T, 7, Class({}, {}, {}), Class({"a", "b", "c"}, {}, {}), {"return", "need"})
    BY <2>14, <2>7, <2>8, <2>9, UptoStep
  <2>16. Upto(T, 10, Class({}, {}, {}), Class({"a", "b", "c"}, {}, {}), {"return", "need"})
    BY <2>15, <2>10, <2>11, <2>12, UptoStep
  <2>17. 10 = Len(T) + 1 /\ Len(T) \in Nat
    BY ONLY <2>1
  <2> QED
    BY ONLY <2>16, <2>17, UptoEnd
\* initialize(n)
<1>6. ASSUME NEW T, T = <<>>
      PROVE  /\ TextFits(T, Class({"a", "b", "c"}, {}, {}), {"return", "cleanup"})
             /\ Ends(T, Class({"a", "b", "c"}, {}, {})) = Class({"a", "b", "c"}, {}, {})
  <2>1. {"a", "b", "c"} \subseteq Cells /\ {} \subseteq Cells
    BY <1>3
  <2> QED
    BY ONLY <1>6, <2>1, TextEmpty
\* benchmark(n)
<1>7. ASSUME NEW T, T = <<Use("a"), Use("b"), Use("c")>>
      PROVE  /\ TextFits(T, Class({"a", "b", "c"}, {}, {}), {"cleanup"})
             /\ Ends(T, Class({"a", "b", "c"}, {}, {})) = Class({"a", "b", "c"}, {}, {})
  <2> DEFINE G(op, C, D) == Goes(op, C, Class({"a", "b", "c"}, {}, {}), D, {"cleanup", "need"})
  <2>1. Len(T) = 3
    BY ONLY <1>7
  <2>2. /\ T[1] = Use("a")
        /\ T[2] = Use("b")
        /\ T[3] = Use("c")
    BY ONLY <1>7
  <2>3. G(T[1], Class({"a", "b", "c"}, {}, {}), Class({"a", "b", "c"}, {}, {}))
    BY <1>3, <1>4, <2>2, GoesUse
  <2>4. G(T[2], Class({"a", "b", "c"}, {}, {}), Class({"a", "b", "c"}, {}, {}))
    BY <1>3, <1>4, <2>2, GoesUse
  <2>5. G(T[3], Class({"a", "b", "c"}, {}, {}), Class({"a", "b", "c"}, {}, {}))
    BY <1>3, <1>4, <2>2, GoesUse
  <2>6. Upto(T, 1, Class({"a", "b", "c"}, {}, {}), Class({"a", "b", "c"}, {}, {}), {"cleanup", "need"})
    BY <1>3, UptoFirst
  <2>7. Upto(T, 4, Class({"a", "b", "c"}, {}, {}), Class({"a", "b", "c"}, {}, {}), {"cleanup", "need"})
    BY <2>6, <2>3, <2>4, <2>5, UptoStep
  <2>8. 4 = Len(T) + 1 /\ Len(T) \in Nat
    BY ONLY <2>1
  <2> QED
    BY ONLY <2>7, <2>8, UptoEnd
\* cleanup(n)
<1>8. ASSUME NEW T, T = <<>>
      PROVE  /\ TextFits(T, Class({"a", "b", "c"}, {}, {}), {"return", "cleanup"})
             /\ Ends(T, Class({"a", "b", "c"}, {}, {})) = Class({"a", "b", "c"}, {}, {})
  <2>1. {"a", "b", "c"} \subseteq Cells /\ {} \subseteq Cells
    BY <1>3
  <2> QED
    BY ONLY <1>8, <2>1, TextEmpty
\* cleanup(0)
<1>9. ASSUME NEW T, T = <<Free("a"), Free("b"), Free("c")>>
      PROVE  /\ TextFits(T, Class({"a", "b", "c"}, {}, {}), {"return", "cleanup", "make", "get"})
             /\ Ends(T, Class({"a", "b", "c"}, {}, {})) = Class({}, {}, {})
  <2> DEFINE G(op, C, D) == Goes(op, C, Class({"a", "b", "c"}, {}, {}), D, {"return", "cleanup", "make", "get", "need"})
  <2>1. Len(T) = 3
    BY ONLY <1>9
  <2>2. /\ T[1] = Free("a")
        /\ T[2] = Free("b")
        /\ T[3] = Free("c")
    BY ONLY <1>9
  <2>3. /\ {"a", "b", "c"} \ {"a"} = {"b", "c"}
        /\ {} \ {"a"} = {}
        /\ {"b", "c"} \ {"b"} = {"c"}
        /\ {} \ {"b"} = {}
        /\ {"c"} \ {"c"} = {}
        /\ {} \ {"c"} = {}
    OBVIOUS
  <2>4. G(T[1], Class({"a", "b", "c"}, {}, {}), Class({"b", "c"}, {}, {}))
    BY <1>3, <1>4, <2>2, <2>3, GoesDrop, ReleaseParts
  <2>5. G(T[2], Class({"b", "c"}, {}, {}), Class({"c"}, {}, {}))
    BY <1>3, <1>4, <2>2, <2>3, GoesDrop, ReleaseParts
  <2>6. G(T[3], Class({"c"}, {}, {}), Class({}, {}, {}))
    BY <1>3, <1>4, <2>2, <2>3, GoesDrop, ReleaseParts
  <2>7. Upto(T, 1, Class({"a", "b", "c"}, {}, {}), Class({"a", "b", "c"}, {}, {}), {"return", "cleanup", "make", "get", "need"})
    BY <1>3, UptoFirst
  <2>8. Upto(T, 4, Class({"a", "b", "c"}, {}, {}), Class({}, {}, {}), {"return", "cleanup", "make", "get", "need"})
    BY <2>7, <2>4, <2>5, <2>6, UptoStep
  <2>9. 4 = Len(T) + 1 /\ Len(T) \in Nat
    BY ONLY <2>1
  <2> QED
    BY ONLY <2>8, <2>9, UptoEnd
<1>10. Nothing = Class({}, {}, {})
  BY DEF Nothing, Class
<1>11. ProgramFits
  <2>1. Between = Class({"a", "b", "c"}, {}, {}) /\ During = Class({"a", "b", "c"}, {}, {}) /\ Kept = {"a", "b", "c"} /\ Loose = {}
    BY <1>4 DEF Between, During, Kept, KeptBy, KeptWithOption, Nulled, Loose, Class
  <2>2. TextFits(P.zero, Nothing, {"return"}) /\ Ends(P.zero, Nothing) = Class({"a", "b", "c"}, {}, {})
    BY <1>2, <1>5, <1>10, <2>1
  <2>3. TextFits(P.nonzero, Between, {"return", "cleanup"}) /\ Ends(P.nonzero, Between) = Class({"a", "b", "c"}, {}, {})
    BY <1>2, <1>6, <2>1
  <2>4. TextFits(P.body, During, {"cleanup"}) /\ Ends(P.body, During) = Class({"a", "b", "c"}, {}, {})
    BY <1>2, <1>7, <2>1
  <2>5. TextFits(P.after, During, {"return", "cleanup"}) /\ Ends(P.after, During) = Class({"a", "b", "c"}, {}, {})
    BY <1>2, <1>8, <2>1
  <2>6. TextFits(P.end, Between, {"return", "cleanup", "make", "get"}) /\ Ends(P.end, Between) = Class({}, {}, {})
    BY <1>2, <1>9, <2>1
  <2>7. Covers(Class({"a", "b", "c"}, {}, {}), Class({"a", "b", "c"}, {}, {})) /\ Covers(Class({"a", "b", "c"}, {}, {}), Class({"a", "b", "c"}, {}, {})) /\ Covers(Class({"a", "b", "c"}, {}, {}), Class({"a", "b", "c"}, {}, {}))
    BY ClassParts DEF Covers
  <2>8. {"clone", "dir"} \intersect (Ends(P.end, Between).held \union Ends(P.end, Between).loose) = {}
    BY <2>6, ClassParts
  <2>9. ~P.hasCleanup => {"clone", "dir"} \intersect (Kept \union Loose) = {}
    BY <1>2, <2>1
  <2> QED
    BY ONLY <2>1, <2>2, <2>3, <2>4, <2>5, <2>6, <2>7, <2>8, <2>9 DEF ProgramFits
<1> QED
  BY <1>11

\* lat_ops.
LEMMA FitsLatOps ==
  ASSUME prog = "lat_ops", opt \in BOOLEAN
  PROVE  ProgramFits
<1>1. P = lat_ops
  BY DEF P, Program
<1>2. /\ P.zero = <<Get("data", "ignore"), Use("data")>>
      /\ P.nonzero = <<>>
      /\ P.body = <<Use("data")>>
      /\ P.after = <<>>
      /\ P.end = <<FreeIf("data")>>
      /\ P.hasCleanup = TRUE
  BY <1>1 DEF lat_ops, Idle
<1>3. {"data"} \subseteq Resources /\ Resources \subseteq Cells /\ {"clone", "dir"} \subseteq Cells
  BY DEF Resources, Cells
<1>4. Careless /\ ~IsTree
  BY DEF Careless, Unchecked, IsTree
\* initialize(0)
<1>5. ASSUME NEW T, T = <<Get("data", "ignore"), Use("data")>>
      PROVE  /\ TextFits(T, Class({}, {}, {}), {"return"})
             /\ Ends(T, Class({}, {}, {})) = Class({"data"}, {}, {})
  <2> DEFINE G(op, C, D) == Goes(op, C, Class({}, {}, {}), D, {"return", "need"})
  <2>1. Len(T) = 2
    BY ONLY <1>5
  <2>2. /\ T[1] = Get("data", "ignore")
        /\ T[2] = Use("data")
    BY ONLY <1>5
  <2>3. /\ {} \union {"data"} = {"data"}
        /\ {} \ {"data"} = {}
    OBVIOUS
  <2>4. G(T[1], Class({}, {}, {}), Class({"data"}, {}, {}))
    BY <1>3, <1>4, <2>2, <2>3, GoesGet
  <2>5. G(T[2], Class({"data"}, {}, {}), Class({"data"}, {}, {}))
    BY <1>3, <1>4, <2>2, GoesUse
  <2>6. Upto(T, 1, Class({}, {}, {}), Class({}, {}, {}), {"return", "need"})
    BY <1>3, UptoFirst
  <2>7. Upto(T, 3, Class({}, {}, {}), Class({"data"}, {}, {}), {"return", "need"})
    BY <2>6, <2>4, <2>5, UptoStep
  <2>8. 3 = Len(T) + 1 /\ Len(T) \in Nat
    BY ONLY <2>1
  <2> QED
    BY ONLY <2>7, <2>8, UptoEnd
\* initialize(n)
<1>6. ASSUME NEW T, T = <<>>
      PROVE  /\ TextFits(T, Class({"data"}, {}, {}), {"return", "cleanup"})
             /\ Ends(T, Class({"data"}, {}, {})) = Class({"data"}, {}, {})
  <2>1. {"data"} \subseteq Cells /\ {} \subseteq Cells
    BY <1>3
  <2> QED
    BY ONLY <1>6, <2>1, TextEmpty
\* benchmark(n)
<1>7. ASSUME NEW T, T = <<Use("data")>>
      PROVE  /\ TextFits(T, Class({"data"}, {}, {}), {"cleanup"})
             /\ Ends(T, Class({"data"}, {}, {})) = Class({"data"}, {}, {})
  <2> DEFINE G(op, C, D) == Goes(op, C, Class({"data"}, {}, {}), D, {"cleanup", "need"})
  <2>1. Len(T) = 1
    BY ONLY <1>7
  <2>2. /\ T[1] = Use("data")
    BY ONLY <1>7
  <2>3. G(T[1], Class({"data"}, {}, {}), Class({"data"}, {}, {}))
    BY <1>3, <1>4, <2>2, GoesUse
  <2>4. Upto(T, 1, Class({"data"}, {}, {}), Class({"data"}, {}, {}), {"cleanup", "need"})
    BY <1>3, UptoFirst
  <2>5. Upto(T, 2, Class({"data"}, {}, {}), Class({"data"}, {}, {}), {"cleanup", "need"})
    BY <2>4, <2>3, UptoStep
  <2>6. 2 = Len(T) + 1 /\ Len(T) \in Nat
    BY ONLY <2>1
  <2> QED
    BY ONLY <2>5, <2>6, UptoEnd
\* cleanup(n)
<1>8. ASSUME NEW T, T = <<>>
      PROVE  /\ TextFits(T, Class({"data"}, {}, {}), {"return", "cleanup"})
             /\ Ends(T, Class({"data"}, {}, {})) = Class({"data"}, {}, {})
  <2>1. {"data"} \subseteq Cells /\ {} \subseteq Cells
    BY <1>3
  <2> QED
    BY ONLY <1>8, <2>1, TextEmpty
\* cleanup(0)
<1>9. ASSUME NEW T, T = <<FreeIf("data")>>
      PROVE  /\ TextFits(T, Class({"data"}, {}, {}), {"return", "cleanup", "make", "get"})
             /\ Ends(T, Class({"data"}, {}, {})) = Class({}, {}, {})
  <2> DEFINE G(op, C, D) == Goes(op, C, Class({"data"}, {}, {}), D, {"return", "cleanup", "make", "get", "need"})
  <2>1. Len(T) = 1
    BY ONLY <1>9
  <2>2. /\ T[1] = FreeIf("data")
    BY ONLY <1>9
  <2>3. /\ {"data"} \ {"data"} = {}
        /\ {} \ {"data"} = {}
    OBVIOUS
  <2>4. G(T[1], Class({"data"}, {}, {}), Class({}, {}, {}))
    BY <1>3, <1>4, <2>2, <2>3, GoesDrop, ReleaseParts
  <2>5. Upto(T, 1, Class({"data"}, {}, {}), Class({"data"}, {}, {}), {"return", "cleanup", "make", "get", "need"})
    BY <1>3, UptoFirst
  <2>6. Upto(T, 2, Class({"data"}, {}, {}), Class({}, {}, {}), {"return", "cleanup", "make", "get", "need"})
    BY <2>5, <2>4, UptoStep
  <2>7. 2 = Len(T) + 1 /\ Len(T) \in Nat
    BY ONLY <2>1
  <2> QED
    BY ONLY <2>6, <2>7, UptoEnd
<1>10. Nothing = Class({}, {}, {})
  BY DEF Nothing, Class
<1>11. ProgramFits
  <2>1. Between = Class({"data"}, {}, {}) /\ During = Class({"data"}, {}, {}) /\ Kept = {"data"} /\ Loose = {}
    BY <1>4 DEF Between, During, Kept, KeptBy, KeptWithOption, Nulled, Loose, Class
  <2>2. TextFits(P.zero, Nothing, {"return"}) /\ Ends(P.zero, Nothing) = Class({"data"}, {}, {})
    BY <1>2, <1>5, <1>10, <2>1
  <2>3. TextFits(P.nonzero, Between, {"return", "cleanup"}) /\ Ends(P.nonzero, Between) = Class({"data"}, {}, {})
    BY <1>2, <1>6, <2>1
  <2>4. TextFits(P.body, During, {"cleanup"}) /\ Ends(P.body, During) = Class({"data"}, {}, {})
    BY <1>2, <1>7, <2>1
  <2>5. TextFits(P.after, During, {"return", "cleanup"}) /\ Ends(P.after, During) = Class({"data"}, {}, {})
    BY <1>2, <1>8, <2>1
  <2>6. TextFits(P.end, Between, {"return", "cleanup", "make", "get"}) /\ Ends(P.end, Between) = Class({}, {}, {})
    BY <1>2, <1>9, <2>1
  <2>7. Covers(Class({"data"}, {}, {}), Class({"data"}, {}, {})) /\ Covers(Class({"data"}, {}, {}), Class({"data"}, {}, {})) /\ Covers(Class({"data"}, {}, {}), Class({"data"}, {}, {}))
    BY ClassParts DEF Covers
  <2>8. {"clone", "dir"} \intersect (Ends(P.end, Between).held \union Ends(P.end, Between).loose) = {}
    BY <2>6, ClassParts
  <2>9. ~P.hasCleanup => {"clone", "dir"} \intersect (Kept \union Loose) = {}
    BY <1>2, <2>1
  <2> QED
    BY ONLY <2>1, <2>2, <2>3, <2>4, <2>5, <2>6, <2>7, <2>8, <2>9 DEF ProgramFits
<1> QED
  BY <1>11

\* par_ops.
LEMMA FitsParOps ==
  ASSUME prog = "par_ops", opt \in BOOLEAN
  PROVE  ProgramFits
<1>1. P = par_ops
  BY DEF P, Program
<1>2. /\ P.zero = <<Get("int_data", "ignore"), Get("double_data", "ignore"), Use("int_data"),
            Use("double_data")>>
      /\ P.nonzero = <<>>
      /\ P.body = <<Use("int_data"), Use("double_data")>>
      /\ P.after = <<>>
      /\ P.end = <<Free("int_data"), Free("double_data")>>
      /\ P.hasCleanup = TRUE
  BY <1>1 DEF par_ops, Idle
<1>3. {"double_data", "int_data"} \subseteq Resources /\ Resources \subseteq Cells /\ {"clone", "dir"} \subseteq Cells
  BY DEF Resources, Cells
<1>4. Careless /\ ~IsTree
  BY DEF Careless, Unchecked, IsTree
\* initialize(0)
<1>5. ASSUME NEW T, T = <<Get("int_data", "ignore"), Get("double_data", "ignore"),
          Use("int_data"), Use("double_data")>>
      PROVE  /\ TextFits(T, Class({}, {}, {}), {"return"})
             /\ Ends(T, Class({}, {}, {})) = Class({"int_data", "double_data"}, {}, {})
  <2> DEFINE G(op, C, D) == Goes(op, C, Class({}, {}, {}), D, {"return", "need"})
  <2>1. Len(T) = 4
    BY ONLY <1>5
  <2>2. /\ T[1] = Get("int_data", "ignore")
        /\ T[2] = Get("double_data", "ignore")
        /\ T[3] = Use("int_data")
        /\ T[4] = Use("double_data")
    BY ONLY <1>5
  <2>3. /\ {} \union {"int_data"} = {"int_data"}
        /\ {} \ {"int_data"} = {}
        /\ {"int_data"} \union {"double_data"} = {"int_data", "double_data"}
        /\ {} \ {"double_data"} = {}
    OBVIOUS
  <2>4. G(T[1], Class({}, {}, {}), Class({"int_data"}, {}, {}))
    BY <1>3, <1>4, <2>2, <2>3, GoesGet
  <2>5. G(T[2], Class({"int_data"}, {}, {}), Class({"int_data", "double_data"}, {}, {}))
    BY <1>3, <1>4, <2>2, <2>3, GoesGet
  <2>6. G(T[3], Class({"int_data", "double_data"}, {}, {}), Class({"int_data", "double_data"}, {}, {}))
    BY <1>3, <1>4, <2>2, GoesUse
  <2>7. G(T[4], Class({"int_data", "double_data"}, {}, {}), Class({"int_data", "double_data"}, {}, {}))
    BY <1>3, <1>4, <2>2, GoesUse
  <2>8. Upto(T, 1, Class({}, {}, {}), Class({}, {}, {}), {"return", "need"})
    BY <1>3, UptoFirst
  <2>9. Upto(T, 4, Class({}, {}, {}), Class({"int_data", "double_data"}, {}, {}), {"return", "need"})
    BY <2>8, <2>4, <2>5, <2>6, UptoStep
  <2>10. Upto(T, 5, Class({}, {}, {}), Class({"int_data", "double_data"}, {}, {}), {"return", "need"})
    BY <2>9, <2>7, UptoStep
  <2>11. 5 = Len(T) + 1 /\ Len(T) \in Nat
    BY ONLY <2>1
  <2> QED
    BY ONLY <2>10, <2>11, UptoEnd
\* initialize(n)
<1>6. ASSUME NEW T, T = <<>>
      PROVE  /\ TextFits(T, Class({"int_data", "double_data"}, {}, {}), {"return", "cleanup"})
             /\ Ends(T, Class({"int_data", "double_data"}, {}, {})) = Class({"int_data", "double_data"}, {}, {})
  <2>1. {"int_data", "double_data"} \subseteq Cells /\ {} \subseteq Cells
    BY <1>3
  <2> QED
    BY ONLY <1>6, <2>1, TextEmpty
\* benchmark(n)
<1>7. ASSUME NEW T, T = <<Use("int_data"), Use("double_data")>>
      PROVE  /\ TextFits(T, Class({"int_data", "double_data"}, {}, {}), {"cleanup"})
             /\ Ends(T, Class({"int_data", "double_data"}, {}, {})) = Class({"int_data", "double_data"}, {}, {})
  <2> DEFINE G(op, C, D) == Goes(op, C, Class({"int_data", "double_data"}, {}, {}), D, {"cleanup", "need"})
  <2>1. Len(T) = 2
    BY ONLY <1>7
  <2>2. /\ T[1] = Use("int_data")
        /\ T[2] = Use("double_data")
    BY ONLY <1>7
  <2>3. G(T[1], Class({"int_data", "double_data"}, {}, {}), Class({"int_data", "double_data"}, {}, {}))
    BY <1>3, <1>4, <2>2, GoesUse
  <2>4. G(T[2], Class({"int_data", "double_data"}, {}, {}), Class({"int_data", "double_data"}, {}, {}))
    BY <1>3, <1>4, <2>2, GoesUse
  <2>5. Upto(T, 1, Class({"int_data", "double_data"}, {}, {}), Class({"int_data", "double_data"}, {}, {}), {"cleanup", "need"})
    BY <1>3, UptoFirst
  <2>6. Upto(T, 3, Class({"int_data", "double_data"}, {}, {}), Class({"int_data", "double_data"}, {}, {}), {"cleanup", "need"})
    BY <2>5, <2>3, <2>4, UptoStep
  <2>7. 3 = Len(T) + 1 /\ Len(T) \in Nat
    BY ONLY <2>1
  <2> QED
    BY ONLY <2>6, <2>7, UptoEnd
\* cleanup(n)
<1>8. ASSUME NEW T, T = <<>>
      PROVE  /\ TextFits(T, Class({"int_data", "double_data"}, {}, {}), {"return", "cleanup"})
             /\ Ends(T, Class({"int_data", "double_data"}, {}, {})) = Class({"int_data", "double_data"}, {}, {})
  <2>1. {"int_data", "double_data"} \subseteq Cells /\ {} \subseteq Cells
    BY <1>3
  <2> QED
    BY ONLY <1>8, <2>1, TextEmpty
\* cleanup(0)
<1>9. ASSUME NEW T, T = <<Free("int_data"), Free("double_data")>>
      PROVE  /\ TextFits(T, Class({"int_data", "double_data"}, {}, {}), {"return", "cleanup", "make",
               "get"})
             /\ Ends(T, Class({"int_data", "double_data"}, {}, {})) = Class({}, {}, {})
  <2> DEFINE G(op, C, D) == Goes(op, C, Class({"int_data", "double_data"}, {}, {}), D, {"return", "cleanup", "make", "get", "need"})
  <2>1. Len(T) = 2
    BY ONLY <1>9
  <2>2. /\ T[1] = Free("int_data")
        /\ T[2] = Free("double_data")
    BY ONLY <1>9
  <2>3. /\ {"int_data", "double_data"} \ {"int_data"} = {"double_data"}
        /\ {} \ {"int_data"} = {}
        /\ {"double_data"} \ {"double_data"} = {}
        /\ {} \ {"double_data"} = {}
    OBVIOUS
  <2>4. G(T[1], Class({"int_data", "double_data"}, {}, {}), Class({"double_data"}, {}, {}))
    BY <1>3, <1>4, <2>2, <2>3, GoesDrop, ReleaseParts
  <2>5. G(T[2], Class({"double_data"}, {}, {}), Class({}, {}, {}))
    BY <1>3, <1>4, <2>2, <2>3, GoesDrop, ReleaseParts
  <2>6. Upto(T, 1, Class({"int_data", "double_data"}, {}, {}), Class({"int_data", "double_data"}, {}, {}), {"return", "cleanup", "make", "get", "need"})
    BY <1>3, UptoFirst
  <2>7. Upto(T, 3, Class({"int_data", "double_data"}, {}, {}), Class({}, {}, {}), {"return", "cleanup", "make", "get", "need"})
    BY <2>6, <2>4, <2>5, UptoStep
  <2>8. 3 = Len(T) + 1 /\ Len(T) \in Nat
    BY ONLY <2>1
  <2> QED
    BY ONLY <2>7, <2>8, UptoEnd
<1>10. Nothing = Class({}, {}, {})
  BY DEF Nothing, Class
<1>11. ProgramFits
  <2>1. Between = Class({"int_data", "double_data"}, {}, {}) /\ During = Class({"int_data", "double_data"}, {}, {}) /\ Kept = {"int_data", "double_data"} /\ Loose = {}
    BY <1>4 DEF Between, During, Kept, KeptBy, KeptWithOption, Nulled, Loose, Class
  <2>2. TextFits(P.zero, Nothing, {"return"}) /\ Ends(P.zero, Nothing) = Class({"int_data", "double_data"}, {}, {})
    BY <1>2, <1>5, <1>10, <2>1
  <2>3. TextFits(P.nonzero, Between, {"return", "cleanup"}) /\ Ends(P.nonzero, Between) = Class({"int_data", "double_data"}, {}, {})
    BY <1>2, <1>6, <2>1
  <2>4. TextFits(P.body, During, {"cleanup"}) /\ Ends(P.body, During) = Class({"int_data", "double_data"}, {}, {})
    BY <1>2, <1>7, <2>1
  <2>5. TextFits(P.after, During, {"return", "cleanup"}) /\ Ends(P.after, During) = Class({"int_data", "double_data"}, {}, {})
    BY <1>2, <1>8, <2>1
  <2>6. TextFits(P.end, Between, {"return", "cleanup", "make", "get"}) /\ Ends(P.end, Between) = Class({}, {}, {})
    BY <1>2, <1>9, <2>1
  <2>7. Covers(Class({"int_data", "double_data"}, {}, {}), Class({"int_data", "double_data"}, {}, {})) /\ Covers(Class({"int_data", "double_data"}, {}, {}), Class({"int_data", "double_data"}, {}, {})) /\ Covers(Class({"int_data", "double_data"}, {}, {}), Class({"int_data", "double_data"}, {}, {}))
    BY ClassParts DEF Covers
  <2>8. {"clone", "dir"} \intersect (Ends(P.end, Between).held \union Ends(P.end, Between).loose) = {}
    BY <2>6, ClassParts
  <2>9. ~P.hasCleanup => {"clone", "dir"} \intersect (Kept \union Loose) = {}
    BY <1>2, <2>1
  <2> QED
    BY ONLY <2>1, <2>2, <2>3, <2>4, <2>5, <2>6, <2>7, <2>8, <2>9 DEF ProgramFits
<1> QED
  BY <1>11

\* lat_syscall.
LEMMA FitsLatSyscall ==
  ASSUME prog = "lat_syscall", opt \in BOOLEAN
  PROVE  ProgramFits
<1>1. P = lat_syscall
  BY DEF P, Program
<1>2. /\ P.zero = <<>>
      /\ P.nonzero = <<>>
      /\ P.body = <<Try>>
      /\ P.after = <<>>
      /\ P.end = <<>>
      /\ P.hasCleanup = FALSE
  BY <1>1 DEF lat_syscall, Idle
<1>3. {} \subseteq Resources /\ Resources \subseteq Cells /\ {"clone", "dir"} \subseteq Cells
  BY DEF Resources, Cells
<1>4. ~Careless /\ ~IsTree
  BY DEF Careless, Unchecked, IsTree
\* initialize(0)
<1>5. ASSUME NEW T, T = <<>>
      PROVE  /\ TextFits(T, Class({}, {}, {}), {"return"})
             /\ Ends(T, Class({}, {}, {})) = Class({}, {}, {})
  <2>1. {} \subseteq Cells
    BY <1>3
  <2> QED
    BY ONLY <1>5, <2>1, TextEmpty
\* initialize(n)
<1>6. ASSUME NEW T, T = <<>>
      PROVE  /\ TextFits(T, Class({}, {}, {}), {"return", "cleanup"})
             /\ Ends(T, Class({}, {}, {})) = Class({}, {}, {})
  <2>1. {} \subseteq Cells
    BY <1>3
  <2> QED
    BY ONLY <1>6, <2>1, TextEmpty
\* benchmark(n)
<1>7. ASSUME NEW T, T = <<Try>>
      PROVE  /\ TextFits(T, Class({}, {}, {}), {"cleanup"})
             /\ Ends(T, Class({}, {}, {})) = Class({}, {}, {})
  <2> DEFINE G(op, C, D) == Goes(op, C, Class({}, {}, {}), D, {"cleanup", "need"})
  <2>1. Len(T) = 1
    BY ONLY <1>7
  <2>2. /\ T[1] = Try
    BY ONLY <1>7
  <2>3. G(T[1], Class({}, {}, {}), Class({}, {}, {}))
    BY <1>3, <1>4, <2>2, GoesCheck
  <2>4. Upto(T, 1, Class({}, {}, {}), Class({}, {}, {}), {"cleanup", "need"})
    BY <1>3, UptoFirst
  <2>5. Upto(T, 2, Class({}, {}, {}), Class({}, {}, {}), {"cleanup", "need"})
    BY <2>4, <2>3, UptoStep
  <2>6. 2 = Len(T) + 1 /\ Len(T) \in Nat
    BY ONLY <2>1
  <2> QED
    BY ONLY <2>5, <2>6, UptoEnd
\* cleanup(n)
<1>8. ASSUME NEW T, T = <<>>
      PROVE  /\ TextFits(T, Class({}, {}, {}), {"return", "cleanup"})
             /\ Ends(T, Class({}, {}, {})) = Class({}, {}, {})
  <2>1. {} \subseteq Cells
    BY <1>3
  <2> QED
    BY ONLY <1>8, <2>1, TextEmpty
\* cleanup(0)
<1>9. ASSUME NEW T, T = <<>>
      PROVE  /\ TextFits(T, Class({}, {}, {}), {"return", "cleanup", "make", "get"})
             /\ Ends(T, Class({}, {}, {})) = Class({}, {}, {})
  <2>1. {} \subseteq Cells
    BY <1>3
  <2> QED
    BY ONLY <1>9, <2>1, TextEmpty
<1>10. Nothing = Class({}, {}, {})
  BY DEF Nothing, Class
<1>11. ProgramFits
  <2>1. Between = Class({}, {}, {}) /\ During = Class({}, {}, {}) /\ Kept = {} /\ Loose = {}
    BY <1>4 DEF Between, During, Kept, KeptBy, KeptWithOption, Nulled, Loose, Class
  <2>2. TextFits(P.zero, Nothing, {"return"}) /\ Ends(P.zero, Nothing) = Class({}, {}, {})
    BY <1>2, <1>5, <1>10, <2>1
  <2>3. TextFits(P.nonzero, Between, {"return", "cleanup"}) /\ Ends(P.nonzero, Between) = Class({}, {}, {})
    BY <1>2, <1>6, <2>1
  <2>4. TextFits(P.body, During, {"cleanup"}) /\ Ends(P.body, During) = Class({}, {}, {})
    BY <1>2, <1>7, <2>1
  <2>5. TextFits(P.after, During, {"return", "cleanup"}) /\ Ends(P.after, During) = Class({}, {}, {})
    BY <1>2, <1>8, <2>1
  <2>6. TextFits(P.end, Between, {"return", "cleanup", "make", "get"}) /\ Ends(P.end, Between) = Class({}, {}, {})
    BY <1>2, <1>9, <2>1
  <2>7. Covers(Class({}, {}, {}), Class({}, {}, {})) /\ Covers(Class({}, {}, {}), Class({}, {}, {})) /\ Covers(Class({}, {}, {}), Class({}, {}, {}))
    BY ClassParts DEF Covers
  <2>8. {"clone", "dir"} \intersect (Ends(P.end, Between).held \union Ends(P.end, Between).loose) = {}
    BY <2>6, ClassParts
  <2>9. ~P.hasCleanup => {"clone", "dir"} \intersect (Kept \union Loose) = {}
    BY <1>2, <2>1
  <2> QED
    BY ONLY <2>1, <2>2, <2>3, <2>4, <2>5, <2>6, <2>7, <2>8, <2>9 DEF ProgramFits
<1> QED
  BY <1>11

\* lat_syscall_open.
LEMMA FitsLatSyscallOpen ==
  ASSUME prog = "lat_syscall_open", opt \in BOOLEAN
  PROVE  ProgramFits
<1>1. P = lat_syscall_open
  BY DEF P, Program
<1>2. /\ P.zero = <<>>
      /\ P.nonzero = <<>>
      /\ P.body = <<Get("tmp", "return"), Close("tmp")>>
      /\ P.after = <<>>
      /\ P.end = <<>>
      /\ P.hasCleanup = FALSE
  BY <1>1 DEF lat_syscall_open, Idle
<1>3. {"tmp"} \subseteq Resources /\ Resources \subseteq Cells /\ {"clone", "dir"} \subseteq Cells
  BY DEF Resources, Cells
<1>4. ~Careless /\ ~IsTree
  BY DEF Careless, Unchecked, IsTree
\* initialize(0)
<1>5. ASSUME NEW T, T = <<>>
      PROVE  /\ TextFits(T, Class({}, {}, {}), {"return"})
             /\ Ends(T, Class({}, {}, {})) = Class({}, {}, {})
  <2>1. {} \subseteq Cells
    BY <1>3
  <2> QED
    BY ONLY <1>5, <2>1, TextEmpty
\* initialize(n)
<1>6. ASSUME NEW T, T = <<>>
      PROVE  /\ TextFits(T, Class({}, {}, {}), {"return", "cleanup"})
             /\ Ends(T, Class({}, {}, {})) = Class({}, {}, {})
  <2>1. {} \subseteq Cells
    BY <1>3
  <2> QED
    BY ONLY <1>6, <2>1, TextEmpty
\* benchmark(n)
<1>7. ASSUME NEW T, T = <<Get("tmp", "return"), Close("tmp")>>
      PROVE  /\ TextFits(T, Class({}, {}, {}), {"cleanup"})
             /\ Ends(T, Class({}, {}, {})) = Class({}, {}, {})
  <2> DEFINE G(op, C, D) == Goes(op, C, Class({}, {}, {}), D, {"cleanup", "need"})
  <2>1. Len(T) = 2
    BY ONLY <1>7
  <2>2. /\ T[1] = Get("tmp", "return")
        /\ T[2] = Close("tmp")
    BY ONLY <1>7
  <2>3. /\ {} \union {"tmp"} = {"tmp"}
        /\ {} \ {"tmp"} = {}
        /\ {"tmp"} \ {"tmp"} = {}
    OBVIOUS
  <2>4. G(T[1], Class({}, {}, {}), Class({"tmp"}, {}, {}))
    BY <1>3, <1>4, <2>2, <2>3, GoesGetOrReturn
  <2>5. G(T[2], Class({"tmp"}, {}, {}), Class({}, {}, {}))
    BY <1>3, <1>4, <2>2, <2>3, GoesDrop, ReleaseParts
  <2>6. Upto(T, 1, Class({}, {}, {}), Class({}, {}, {}), {"cleanup", "need"})
    BY <1>3, UptoFirst
  <2>7. Upto(T, 3, Class({}, {}, {}), Class({}, {}, {}), {"cleanup", "need"})
    BY <2>6, <2>4, <2>5, UptoStep
  <2>8. 3 = Len(T) + 1 /\ Len(T) \in Nat
    BY ONLY <2>1
  <2> QED
    BY ONLY <2>7, <2>8, UptoEnd
\* cleanup(n)
<1>8. ASSUME NEW T, T = <<>>
      PROVE  /\ TextFits(T, Class({}, {}, {}), {"return", "cleanup"})
             /\ Ends(T, Class({}, {}, {})) = Class({}, {}, {})
  <2>1. {} \subseteq Cells
    BY <1>3
  <2> QED
    BY ONLY <1>8, <2>1, TextEmpty
\* cleanup(0)
<1>9. ASSUME NEW T, T = <<>>
      PROVE  /\ TextFits(T, Class({}, {}, {}), {"return", "cleanup", "make", "get"})
             /\ Ends(T, Class({}, {}, {})) = Class({}, {}, {})
  <2>1. {} \subseteq Cells
    BY <1>3
  <2> QED
    BY ONLY <1>9, <2>1, TextEmpty
<1>10. Nothing = Class({}, {}, {})
  BY DEF Nothing, Class
<1>11. ProgramFits
  <2>1. Between = Class({}, {}, {}) /\ During = Class({}, {}, {}) /\ Kept = {} /\ Loose = {}
    BY <1>4 DEF Between, During, Kept, KeptBy, KeptWithOption, Nulled, Loose, Class
  <2>2. TextFits(P.zero, Nothing, {"return"}) /\ Ends(P.zero, Nothing) = Class({}, {}, {})
    BY <1>2, <1>5, <1>10, <2>1
  <2>3. TextFits(P.nonzero, Between, {"return", "cleanup"}) /\ Ends(P.nonzero, Between) = Class({}, {}, {})
    BY <1>2, <1>6, <2>1
  <2>4. TextFits(P.body, During, {"cleanup"}) /\ Ends(P.body, During) = Class({}, {}, {})
    BY <1>2, <1>7, <2>1
  <2>5. TextFits(P.after, During, {"return", "cleanup"}) /\ Ends(P.after, During) = Class({}, {}, {})
    BY <1>2, <1>8, <2>1
  <2>6. TextFits(P.end, Between, {"return", "cleanup", "make", "get"}) /\ Ends(P.end, Between) = Class({}, {}, {})
    BY <1>2, <1>9, <2>1
  <2>7. Covers(Class({}, {}, {}), Class({}, {}, {})) /\ Covers(Class({}, {}, {}), Class({}, {}, {})) /\ Covers(Class({}, {}, {}), Class({}, {}, {}))
    BY ClassParts DEF Covers
  <2>8. {"clone", "dir"} \intersect (Ends(P.end, Between).held \union Ends(P.end, Between).loose) = {}
    BY <2>6, ClassParts
  <2>9. ~P.hasCleanup => {"clone", "dir"} \intersect (Kept \union Loose) = {}
    BY <1>2, <2>1
  <2> QED
    BY ONLY <2>1, <2>2, <2>3, <2>4, <2>5, <2>6, <2>7, <2>8, <2>9 DEF ProgramFits
<1> QED
  BY <1>11

\* lat_sig_prot.
LEMMA FitsLatSigProt ==
  ASSUME prog = "lat_sig_prot", opt \in BOOLEAN
  PROVE  ProgramFits
<1>1. P = lat_sig_prot
  BY DEF P, Program
<1>2. /\ P.zero = <<Get("fd", "ignore"), Get("where", "exit")>>
      /\ P.nonzero = <<>>
      /\ P.body = <<Use("where")>>
      /\ P.after = <<>>
      /\ P.end = <<>>
      /\ P.hasCleanup = FALSE
  BY <1>1 DEF lat_sig_prot, Idle
<1>3. {"fd", "where"} \subseteq Resources /\ Resources \subseteq Cells /\ {"clone", "dir"} \subseteq Cells
  BY DEF Resources, Cells
<1>4. ~Careless /\ ~IsTree
  BY DEF Careless, Unchecked, IsTree
\* initialize(0)
<1>5. ASSUME NEW T, T = <<Get("fd", "ignore"), Get("where", "exit")>>
      PROVE  /\ TextFits(T, Class({}, {}, {}), {"return"})
             /\ Ends(T, Class({}, {}, {})) = Class({"where"}, {}, {"fd"})
  <2> DEFINE G(op, C, D) == Goes(op, C, Class({}, {}, {}), D, {"return", "need"})
  <2>1. Len(T) = 2
    BY ONLY <1>5
  <2>2. /\ T[1] = Get("fd", "ignore")
        /\ T[2] = Get("where", "exit")
    BY ONLY <1>5
  <2>3. /\ {} \ {"fd"} = {}
        /\ {} \union {"fd"} = {"fd"}
        /\ {} \union {"where"} = {"where"}
        /\ {} \ {"where"} = {}
        /\ {"fd"} \ {"where"} = {"fd"}
    OBVIOUS
  <2>4. G(T[1], Class({}, {}, {}), Class({}, {}, {"fd"}))
    BY <1>3, <1>4, <2>2, <2>3, GoesTry
  <2>5. G(T[2], Class({}, {}, {"fd"}), Class({"where"}, {}, {"fd"}))
    BY <1>3, <1>4, <2>2, <2>3, GoesGetOrExit
  <2>6. Upto(T, 1, Class({}, {}, {}), Class({}, {}, {}), {"return", "need"})
    BY <1>3, UptoFirst
  <2>7. Upto(T, 3, Class({}, {}, {}), Class({"where"}, {}, {"fd"}), {"return", "need"})
    BY <2>6, <2>4, <2>5, UptoStep
  <2>8. 3 = Len(T) + 1 /\ Len(T) \in Nat
    BY ONLY <2>1
  <2> QED
    BY ONLY <2>7, <2>8, UptoEnd
\* initialize(n)
<1>6. ASSUME NEW T, T = <<>>
      PROVE  /\ TextFits(T, Class({"where"}, {}, {"fd"}), {"return", "cleanup"})
             /\ Ends(T, Class({"where"}, {}, {"fd"})) = Class({"where"}, {}, {"fd"})
  <2>1. {"fd"} \subseteq Cells /\ {"where"} \subseteq Cells /\ {} \subseteq Cells
    BY <1>3
  <2> QED
    BY ONLY <1>6, <2>1, TextEmpty
\* benchmark(n)
<1>7. ASSUME NEW T, T = <<Use("where")>>
      PROVE  /\ TextFits(T, Class({"where"}, {}, {"fd"}), {"cleanup"})
             /\ Ends(T, Class({"where"}, {}, {"fd"})) = Class({"where"}, {}, {"fd"})
  <2> DEFINE G(op, C, D) == Goes(op, C, Class({"where"}, {}, {"fd"}), D, {"cleanup", "need"})
  <2>1. Len(T) = 1
    BY ONLY <1>7
  <2>2. /\ T[1] = Use("where")
    BY ONLY <1>7
  <2>3. G(T[1], Class({"where"}, {}, {"fd"}), Class({"where"}, {}, {"fd"}))
    BY <1>3, <1>4, <2>2, GoesUse
  <2>4. Upto(T, 1, Class({"where"}, {}, {"fd"}), Class({"where"}, {}, {"fd"}), {"cleanup", "need"})
    BY <1>3, UptoFirst
  <2>5. Upto(T, 2, Class({"where"}, {}, {"fd"}), Class({"where"}, {}, {"fd"}), {"cleanup", "need"})
    BY <2>4, <2>3, UptoStep
  <2>6. 2 = Len(T) + 1 /\ Len(T) \in Nat
    BY ONLY <2>1
  <2> QED
    BY ONLY <2>5, <2>6, UptoEnd
\* cleanup(n)
<1>8. ASSUME NEW T, T = <<>>
      PROVE  /\ TextFits(T, Class({"where"}, {}, {"fd"}), {"return", "cleanup"})
             /\ Ends(T, Class({"where"}, {}, {"fd"})) = Class({"where"}, {}, {"fd"})
  <2>1. {"fd"} \subseteq Cells /\ {"where"} \subseteq Cells /\ {} \subseteq Cells
    BY <1>3
  <2> QED
    BY ONLY <1>8, <2>1, TextEmpty
\* cleanup(0)
<1>9. ASSUME NEW T, T = <<>>
      PROVE  /\ TextFits(T, Class({"where"}, {}, {"fd"}), {"return", "cleanup", "make", "get"})
             /\ Ends(T, Class({"where"}, {}, {"fd"})) = Class({"where"}, {}, {"fd"})
  <2>1. {"fd"} \subseteq Cells /\ {"where"} \subseteq Cells /\ {} \subseteq Cells
    BY <1>3
  <2> QED
    BY ONLY <1>9, <2>1, TextEmpty
<1>10. Nothing = Class({}, {}, {})
  BY DEF Nothing, Class
<1>11. ProgramFits
  <2>1. Between = Class({"where"}, {}, {"fd"}) /\ During = Class({"where"}, {}, {"fd"}) /\ Kept = {"where"} /\ Loose = {"fd"}
    BY <1>4 DEF Between, During, Kept, KeptBy, KeptWithOption, Nulled, Loose, Class
  <2>2. TextFits(P.zero, Nothing, {"return"}) /\ Ends(P.zero, Nothing) = Class({"where"}, {}, {"fd"})
    BY <1>2, <1>5, <1>10, <2>1
  <2>3. TextFits(P.nonzero, Between, {"return", "cleanup"}) /\ Ends(P.nonzero, Between) = Class({"where"}, {}, {"fd"})
    BY <1>2, <1>6, <2>1
  <2>4. TextFits(P.body, During, {"cleanup"}) /\ Ends(P.body, During) = Class({"where"}, {}, {"fd"})
    BY <1>2, <1>7, <2>1
  <2>5. TextFits(P.after, During, {"return", "cleanup"}) /\ Ends(P.after, During) = Class({"where"}, {}, {"fd"})
    BY <1>2, <1>8, <2>1
  <2>6. TextFits(P.end, Between, {"return", "cleanup", "make", "get"}) /\ Ends(P.end, Between) = Class({"where"}, {}, {"fd"})
    BY <1>2, <1>9, <2>1
  <2>7. Covers(Class({"where"}, {}, {"fd"}), Class({"where"}, {}, {"fd"})) /\ Covers(Class({"where"}, {}, {"fd"}), Class({"where"}, {}, {"fd"})) /\ Covers(Class({"where"}, {}, {"fd"}), Class({"where"}, {}, {"fd"}))
    BY ClassParts DEF Covers
  <2>8. {"clone", "dir"} \intersect (Ends(P.end, Between).held \union Ends(P.end, Between).loose) = {}
    BY <2>6, ClassParts
  <2>9. ~P.hasCleanup => {"clone", "dir"} \intersect (Kept \union Loose) = {}
    BY <1>2, <2>1
  <2> QED
    BY ONLY <2>1, <2>2, <2>3, <2>4, <2>5, <2>6, <2>7, <2>8, <2>9 DEF ProgramFits
<1> QED
  BY <1>11

\* lat_rpc.
LEMMA FitsLatRpc ==
  ASSUME prog = "lat_rpc", opt \in BOOLEAN
  PROVE  ProgramFits
<1>1. P = lat_rpc
  BY DEF P, Program
<1>2. /\ P.zero = <<Get("cl", "exit"), Check>>
      /\ P.nonzero = <<>>
      /\ P.body = <<Use("cl")>>
      /\ P.after = <<>>
      /\ P.end = <<>>
      /\ P.hasCleanup = FALSE
  BY <1>1 DEF lat_rpc, Idle
<1>3. {"cl"} \subseteq Resources /\ Resources \subseteq Cells /\ {"clone", "dir"} \subseteq Cells
  BY DEF Resources, Cells
<1>4. ~Careless /\ ~IsTree
  BY DEF Careless, Unchecked, IsTree
\* initialize(0)
<1>5. ASSUME NEW T, T = <<Get("cl", "exit"), Check>>
      PROVE  /\ TextFits(T, Class({}, {}, {}), {"return"})
             /\ Ends(T, Class({}, {}, {})) = Class({"cl"}, {}, {})
  <2> DEFINE G(op, C, D) == Goes(op, C, Class({}, {}, {}), D, {"return", "need"})
  <2>1. Len(T) = 2
    BY ONLY <1>5
  <2>2. /\ T[1] = Get("cl", "exit")
        /\ T[2] = Check
    BY ONLY <1>5
  <2>3. /\ {} \union {"cl"} = {"cl"}
        /\ {} \ {"cl"} = {}
    OBVIOUS
  <2>4. G(T[1], Class({}, {}, {}), Class({"cl"}, {}, {}))
    BY <1>3, <1>4, <2>2, <2>3, GoesGetOrExit
  <2>5. G(T[2], Class({"cl"}, {}, {}), Class({"cl"}, {}, {}))
    BY <1>3, <1>4, <2>2, GoesCheck
  <2>6. Upto(T, 1, Class({}, {}, {}), Class({}, {}, {}), {"return", "need"})
    BY <1>3, UptoFirst
  <2>7. Upto(T, 3, Class({}, {}, {}), Class({"cl"}, {}, {}), {"return", "need"})
    BY <2>6, <2>4, <2>5, UptoStep
  <2>8. 3 = Len(T) + 1 /\ Len(T) \in Nat
    BY ONLY <2>1
  <2> QED
    BY ONLY <2>7, <2>8, UptoEnd
\* initialize(n)
<1>6. ASSUME NEW T, T = <<>>
      PROVE  /\ TextFits(T, Class({"cl"}, {}, {}), {"return", "cleanup"})
             /\ Ends(T, Class({"cl"}, {}, {})) = Class({"cl"}, {}, {})
  <2>1. {"cl"} \subseteq Cells /\ {} \subseteq Cells
    BY <1>3
  <2> QED
    BY ONLY <1>6, <2>1, TextEmpty
\* benchmark(n)
<1>7. ASSUME NEW T, T = <<Use("cl")>>
      PROVE  /\ TextFits(T, Class({"cl"}, {}, {}), {"cleanup"})
             /\ Ends(T, Class({"cl"}, {}, {})) = Class({"cl"}, {}, {})
  <2> DEFINE G(op, C, D) == Goes(op, C, Class({"cl"}, {}, {}), D, {"cleanup", "need"})
  <2>1. Len(T) = 1
    BY ONLY <1>7
  <2>2. /\ T[1] = Use("cl")
    BY ONLY <1>7
  <2>3. G(T[1], Class({"cl"}, {}, {}), Class({"cl"}, {}, {}))
    BY <1>3, <1>4, <2>2, GoesUse
  <2>4. Upto(T, 1, Class({"cl"}, {}, {}), Class({"cl"}, {}, {}), {"cleanup", "need"})
    BY <1>3, UptoFirst
  <2>5. Upto(T, 2, Class({"cl"}, {}, {}), Class({"cl"}, {}, {}), {"cleanup", "need"})
    BY <2>4, <2>3, UptoStep
  <2>6. 2 = Len(T) + 1 /\ Len(T) \in Nat
    BY ONLY <2>1
  <2> QED
    BY ONLY <2>5, <2>6, UptoEnd
\* cleanup(n)
<1>8. ASSUME NEW T, T = <<>>
      PROVE  /\ TextFits(T, Class({"cl"}, {}, {}), {"return", "cleanup"})
             /\ Ends(T, Class({"cl"}, {}, {})) = Class({"cl"}, {}, {})
  <2>1. {"cl"} \subseteq Cells /\ {} \subseteq Cells
    BY <1>3
  <2> QED
    BY ONLY <1>8, <2>1, TextEmpty
\* cleanup(0)
<1>9. ASSUME NEW T, T = <<>>
      PROVE  /\ TextFits(T, Class({"cl"}, {}, {}), {"return", "cleanup", "make", "get"})
             /\ Ends(T, Class({"cl"}, {}, {})) = Class({"cl"}, {}, {})
  <2>1. {"cl"} \subseteq Cells /\ {} \subseteq Cells
    BY <1>3
  <2> QED
    BY ONLY <1>9, <2>1, TextEmpty
<1>10. Nothing = Class({}, {}, {})
  BY DEF Nothing, Class
<1>11. ProgramFits
  <2>1. Between = Class({"cl"}, {}, {}) /\ During = Class({"cl"}, {}, {}) /\ Kept = {"cl"} /\ Loose = {}
    BY <1>4 DEF Between, During, Kept, KeptBy, KeptWithOption, Nulled, Loose, Class
  <2>2. TextFits(P.zero, Nothing, {"return"}) /\ Ends(P.zero, Nothing) = Class({"cl"}, {}, {})
    BY <1>2, <1>5, <1>10, <2>1
  <2>3. TextFits(P.nonzero, Between, {"return", "cleanup"}) /\ Ends(P.nonzero, Between) = Class({"cl"}, {}, {})
    BY <1>2, <1>6, <2>1
  <2>4. TextFits(P.body, During, {"cleanup"}) /\ Ends(P.body, During) = Class({"cl"}, {}, {})
    BY <1>2, <1>7, <2>1
  <2>5. TextFits(P.after, During, {"return", "cleanup"}) /\ Ends(P.after, During) = Class({"cl"}, {}, {})
    BY <1>2, <1>8, <2>1
  <2>6. TextFits(P.end, Between, {"return", "cleanup", "make", "get"}) /\ Ends(P.end, Between) = Class({"cl"}, {}, {})
    BY <1>2, <1>9, <2>1
  <2>7. Covers(Class({"cl"}, {}, {}), Class({"cl"}, {}, {})) /\ Covers(Class({"cl"}, {}, {}), Class({"cl"}, {}, {})) /\ Covers(Class({"cl"}, {}, {}), Class({"cl"}, {}, {}))
    BY ClassParts DEF Covers
  <2>8. {"clone", "dir"} \intersect (Ends(P.end, Between).held \union Ends(P.end, Between).loose) = {}
    BY <2>6, ClassParts
  <2>9. ~P.hasCleanup => {"clone", "dir"} \intersect (Kept \union Loose) = {}
    BY <1>2, <2>1
  <2> QED
    BY ONLY <2>1, <2>2, <2>3, <2>4, <2>5, <2>6, <2>7, <2>8, <2>9 DEF ProgramFits
<1> QED
  BY <1>11

\* lat_select.
LEMMA FitsLatSelect ==
  ASSUME prog = "lat_select", opt \in BOOLEAN
  PROVE  ProgramFits
<1>1. P = lat_select
  BY DEF P, Program
<1>2. /\ P.zero = <<Get("fid", "exit"), Get("set", "ignore"), Close("fid"), Must("set")>>
      /\ P.nonzero = <<>>
      /\ P.body = <<Use("set")>>
      /\ P.after = <<>>
      /\ P.end = <<FreeReset("set")>>
      /\ P.hasCleanup = TRUE
  BY <1>1 DEF lat_select, Idle
<1>3. {"fid", "set"} \subseteq Resources /\ Resources \subseteq Cells /\ {"clone", "dir"} \subseteq Cells
  BY DEF Resources, Cells
<1>4. ~Careless /\ ~IsTree
  BY DEF Careless, Unchecked, IsTree
\* initialize(0)
<1>5. ASSUME NEW T, T = <<Get("fid", "exit"), Get("set", "ignore"), Close("fid"), Must("set")>>
      PROVE  /\ TextFits(T, Class({}, {}, {}), {"return"})
             /\ Ends(T, Class({}, {}, {})) = Class({"set"}, {}, {})
  <2> DEFINE G(op, C, D) == Goes(op, C, Class({}, {}, {}), D, {"return", "need"})
  <2>1. Len(T) = 4
    BY ONLY <1>5
  <2>2. /\ T[1] = Get("fid", "exit")
        /\ T[2] = Get("set", "ignore")
        /\ T[3] = Close("fid")
        /\ T[4] = Must("set")
    BY ONLY <1>5
  <2>3. /\ {} \union {"fid"} = {"fid"}
        /\ {} \ {"fid"} = {}
        /\ {"fid"} \ {"set"} = {"fid"}
        /\ {} \ {"set"} = {}
        /\ {} \union {"set"} = {"set"}
        /\ {"fid"} \ {"fid"} = {}
        /\ {"set"} \ {"fid"} = {"set"}
        /\ {"set"} \ {"set"} = {}
    OBVIOUS
  <2>4. G(T[1], Class({}, {}, {}), Class({"fid"}, {}, {}))
    BY <1>3, <1>4, <2>2, <2>3, GoesGetOrExit
  <2>5. G(T[2], Class({"fid"}, {}, {}), Class({"fid"}, {}, {"set"}))
    BY <1>3, <1>4, <2>2, <2>3, GoesTry
  <2>6. G(T[3], Class({"fid"}, {}, {"set"}), Class({}, {}, {"set"}))
    BY <1>3, <1>4, <2>2, <2>3, GoesDrop, ReleaseParts
  <2>7. G(T[4], Class({}, {}, {"set"}), Class({"set"}, {}, {}))
    BY <1>3, <1>4, <2>2, <2>3, GoesMust
  <2>8. Upto(T, 1, Class({}, {}, {}), Class({}, {}, {}), {"return", "need"})
    BY <1>3, UptoFirst
  <2>9. Upto(T, 4, Class({}, {}, {}), Class({}, {}, {"set"}), {"return", "need"})
    BY <2>8, <2>4, <2>5, <2>6, UptoStep
  <2>10. Upto(T, 5, Class({}, {}, {}), Class({"set"}, {}, {}), {"return", "need"})
    BY <2>9, <2>7, UptoStep
  <2>11. 5 = Len(T) + 1 /\ Len(T) \in Nat
    BY ONLY <2>1
  <2> QED
    BY ONLY <2>10, <2>11, UptoEnd
\* initialize(n)
<1>6. ASSUME NEW T, T = <<>>
      PROVE  /\ TextFits(T, Class({"set"}, {}, {}), {"return", "cleanup"})
             /\ Ends(T, Class({"set"}, {}, {})) = Class({"set"}, {}, {})
  <2>1. {"set"} \subseteq Cells /\ {} \subseteq Cells
    BY <1>3
  <2> QED
    BY ONLY <1>6, <2>1, TextEmpty
\* benchmark(n)
<1>7. ASSUME NEW T, T = <<Use("set")>>
      PROVE  /\ TextFits(T, Class({"set"}, {}, {}), {"cleanup"})
             /\ Ends(T, Class({"set"}, {}, {})) = Class({"set"}, {}, {})
  <2> DEFINE G(op, C, D) == Goes(op, C, Class({"set"}, {}, {}), D, {"cleanup", "need"})
  <2>1. Len(T) = 1
    BY ONLY <1>7
  <2>2. /\ T[1] = Use("set")
    BY ONLY <1>7
  <2>3. G(T[1], Class({"set"}, {}, {}), Class({"set"}, {}, {}))
    BY <1>3, <1>4, <2>2, GoesUse
  <2>4. Upto(T, 1, Class({"set"}, {}, {}), Class({"set"}, {}, {}), {"cleanup", "need"})
    BY <1>3, UptoFirst
  <2>5. Upto(T, 2, Class({"set"}, {}, {}), Class({"set"}, {}, {}), {"cleanup", "need"})
    BY <2>4, <2>3, UptoStep
  <2>6. 2 = Len(T) + 1 /\ Len(T) \in Nat
    BY ONLY <2>1
  <2> QED
    BY ONLY <2>5, <2>6, UptoEnd
\* cleanup(n)
<1>8. ASSUME NEW T, T = <<>>
      PROVE  /\ TextFits(T, Class({"set"}, {}, {}), {"return", "cleanup"})
             /\ Ends(T, Class({"set"}, {}, {})) = Class({"set"}, {}, {})
  <2>1. {"set"} \subseteq Cells /\ {} \subseteq Cells
    BY <1>3
  <2> QED
    BY ONLY <1>8, <2>1, TextEmpty
\* cleanup(0)
<1>9. ASSUME NEW T, T = <<FreeReset("set")>>
      PROVE  /\ TextFits(T, Class({"set"}, {}, {}), {"return", "cleanup", "make", "get"})
             /\ Ends(T, Class({"set"}, {}, {})) = Class({}, {"set"}, {})
  <2> DEFINE G(op, C, D) == Goes(op, C, Class({"set"}, {}, {}), D, {"return", "cleanup", "make", "get", "need"})
  <2>1. Len(T) = 1
    BY ONLY <1>9
  <2>2. /\ T[1] = FreeReset("set")
    BY ONLY <1>9
  <2>3. /\ {"set"} \ {"set"} = {}
        /\ {} \union {"set"} = {"set"}
        /\ {} \ {"set"} = {}
    OBVIOUS
  <2>4. G(T[1], Class({"set"}, {}, {}), Class({}, {"set"}, {}))
    BY <1>3, <1>4, <2>2, <2>3, GoesReset
  <2>5. Upto(T, 1, Class({"set"}, {}, {}), Class({"set"}, {}, {}), {"return", "cleanup", "make", "get", "need"})
    BY <1>3, UptoFirst
  <2>6. Upto(T, 2, Class({"set"}, {}, {}), Class({}, {"set"}, {}), {"return", "cleanup", "make", "get", "need"})
    BY <2>5, <2>4, UptoStep
  <2>7. 2 = Len(T) + 1 /\ Len(T) \in Nat
    BY ONLY <2>1
  <2> QED
    BY ONLY <2>6, <2>7, UptoEnd
<1>10. Nothing = Class({}, {}, {})
  BY DEF Nothing, Class
<1>11. ProgramFits
  <2>1. Between = Class({"set"}, {}, {}) /\ During = Class({"set"}, {}, {}) /\ Kept = {"set"} /\ Loose = {}
    BY <1>4 DEF Between, During, Kept, KeptBy, KeptWithOption, Nulled, Loose, Class
  <2>2. TextFits(P.zero, Nothing, {"return"}) /\ Ends(P.zero, Nothing) = Class({"set"}, {}, {})
    BY <1>2, <1>5, <1>10, <2>1
  <2>3. TextFits(P.nonzero, Between, {"return", "cleanup"}) /\ Ends(P.nonzero, Between) = Class({"set"}, {}, {})
    BY <1>2, <1>6, <2>1
  <2>4. TextFits(P.body, During, {"cleanup"}) /\ Ends(P.body, During) = Class({"set"}, {}, {})
    BY <1>2, <1>7, <2>1
  <2>5. TextFits(P.after, During, {"return", "cleanup"}) /\ Ends(P.after, During) = Class({"set"}, {}, {})
    BY <1>2, <1>8, <2>1
  <2>6. TextFits(P.end, Between, {"return", "cleanup", "make", "get"}) /\ Ends(P.end, Between) = Class({}, {"set"}, {})
    BY <1>2, <1>9, <2>1
  <2>7. Covers(Class({"set"}, {}, {}), Class({"set"}, {}, {})) /\ Covers(Class({"set"}, {}, {}), Class({"set"}, {}, {})) /\ Covers(Class({"set"}, {}, {}), Class({"set"}, {}, {}))
    BY ClassParts DEF Covers
  <2>8. {"clone", "dir"} \intersect (Ends(P.end, Between).held \union Ends(P.end, Between).loose) = {}
    BY <2>6, ClassParts
  <2>9. ~P.hasCleanup => {"clone", "dir"} \intersect (Kept \union Loose) = {}
    BY <1>2, <2>1
  <2> QED
    BY ONLY <2>1, <2>2, <2>3, <2>4, <2>5, <2>6, <2>7, <2>8, <2>9 DEF ProgramFits
<1> QED
  BY <1>11

\* lat_ctx_overhead.
LEMMA FitsLatCtxOverhead ==
  ASSUME prog = "lat_ctx_overhead", opt \in BOOLEAN
  PROVE  ProgramFits
<1>1. P = lat_ctx_overhead
  BY DEF P, Program
<1>2. /\ P.zero = <<Get("p", "ignore"), Use("p"), Null("data"), Opt(Get("data", "ignore")), Get("pipes",
            "cleanup")>>
      /\ P.nonzero = <<>>
      /\ P.body = <<Use("p"), Use("pipes"), Opt(Use("data"))>>
      /\ P.after = <<>>
      /\ P.end = <<Use("p"), Close("pipes"), Free("p"), FreeIf("data")>>
      /\ P.hasCleanup = TRUE
  BY <1>1 DEF lat_ctx_overhead, Idle
<1>3. {"data", "p", "pipes"} \subseteq Resources /\ Resources \subseteq Cells /\ {"clone", "dir"} \subseteq Cells
  BY DEF Resources, Cells
<1>4. Careless /\ ~IsTree
  BY DEF Careless, Unchecked, IsTree
\* initialize(0), with the option
<1>5. ASSUME NEW T, T = <<Get("p", "ignore"), Use("p"), Null("data"), Opt(Get("data", "ignore")),
          Get("pipes", "cleanup")>>, opt
      PROVE  /\ TextFits(T, Class({}, {}, {}), {"return"})
             /\ Ends(T, Class({}, {}, {})) = Class({"p", "data", "pipes"}, {}, {})
  <2> DEFINE G(op, C, D) == Goes(op, C, Class({}, {}, {}), D, {"return", "need"})
  <2>0. opt
    BY ONLY <1>5
  <2>1. Len(T) = 5
    BY ONLY <1>5
  <2>2. /\ T[1] = Get("p", "ignore")
        /\ T[2] = Use("p")
        /\ T[3] = Null("data")
        /\ T[4] = Opt(Get("data", "ignore"))
        /\ T[5] = Get("pipes", "cleanup")
    BY ONLY <1>5
  <2>3. /\ {} \union {"p"} = {"p"}
        /\ {} \ {"p"} = {}
        /\ {"p"} \ {"data"} = {"p"}
        /\ {} \union {"data"} = {"data"}
        /\ {} \ {"data"} = {}
        /\ {"p"} \union {"data"} = {"p", "data"}
        /\ {"data"} \ {"data"} = {}
        /\ {"p", "data"} \union {"pipes"} = {"p", "data", "pipes"}
        /\ {} \ {"pipes"} = {}
        /\ {"clone", "dir"} \intersect ({"p", "data"} \union {}) = {}
    OBVIOUS
  <2>4. G(T[1], Class({}, {}, {}), Class({"p"}, {}, {}))
    BY <1>3, <1>4, <2>2, <2>3, GoesGet
  <2>5. G(T[2], Class({"p"}, {}, {}), Class({"p"}, {}, {}))
    BY <1>3, <1>4, <2>2, GoesUse
  <2>6. G(T[3], Class({"p"}, {}, {}), Class({"p"}, {"data"}, {}))
    BY <1>3, <1>4, <2>2, <2>3, GoesNull
  <2>7. G(T[4], Class({"p"}, {"data"}, {}), Class({"p", "data"}, {}, {}))
    BY <2>0, <1>3, <1>4, <2>2, <2>3, GoesGetIfOption
  <2>8. G(T[5], Class({"p", "data"}, {}, {}), Class({"p", "data", "pipes"}, {}, {}))
    BY <1>3, <1>4, <2>2, <2>3, GoesGetOrCleanup
  <2>9. Upto(T, 1, Class({}, {}, {}), Class({}, {}, {}), {"return", "need"})
    BY <1>3, UptoFirst
  <2>10. Upto(T, 4, Class({}, {}, {}), Class({"p"}, {"data"}, {}), {"return", "need"})
    BY <2>9, <2>4, <2>5, <2>6, UptoStep
  <2>11. Upto(T, 6, Class({}, {}, {}), Class({"p", "data", "pipes"}, {}, {}), {"return", "need"})
    BY <2>10, <2>7, <2>8, UptoStep
  <2>12. 6 = Len(T) + 1 /\ Len(T) \in Nat
    BY ONLY <2>1
  <2> QED
    BY ONLY <2>11, <2>12, UptoEnd
\* initialize(0), without the option
<1>6. ASSUME NEW T, T = <<Get("p", "ignore"), Use("p"), Null("data"), Opt(Get("data", "ignore")),
          Get("pipes", "cleanup")>>, ~opt
      PROVE  /\ TextFits(T, Class({}, {}, {}), {"return"})
             /\ Ends(T, Class({}, {}, {})) = Class({"p", "pipes"}, {"data"}, {})
  <2> DEFINE G(op, C, D) == Goes(op, C, Class({}, {}, {}), D, {"return", "need"})
  <2>0. ~opt
    BY ONLY <1>6
  <2>1. Len(T) = 5
    BY ONLY <1>6
  <2>2. /\ T[1] = Get("p", "ignore")
        /\ T[2] = Use("p")
        /\ T[3] = Null("data")
        /\ T[4] = Opt(Get("data", "ignore"))
        /\ T[5] = Get("pipes", "cleanup")
    BY ONLY <1>6
  <2>3. /\ {} \union {"p"} = {"p"}
        /\ {} \ {"p"} = {}
        /\ {"p"} \ {"data"} = {"p"}
        /\ {} \union {"data"} = {"data"}
        /\ {} \ {"data"} = {}
        /\ {"p"} \union {"pipes"} = {"p", "pipes"}
        /\ {"data"} \ {"pipes"} = {"data"}
        /\ {} \ {"pipes"} = {}
        /\ {"clone", "dir"} \intersect ({"p"} \union {}) = {}
    OBVIOUS
  <2>4. G(T[1], Class({}, {}, {}), Class({"p"}, {}, {}))
    BY <1>3, <1>4, <2>2, <2>3, GoesGet
  <2>5. G(T[2], Class({"p"}, {}, {}), Class({"p"}, {}, {}))
    BY <1>3, <1>4, <2>2, GoesUse
  <2>6. G(T[3], Class({"p"}, {}, {}), Class({"p"}, {"data"}, {}))
    BY <1>3, <1>4, <2>2, <2>3, GoesNull
  <2>7. G(T[4], Class({"p"}, {"data"}, {}), Class({"p"}, {"data"}, {}))
    BY <2>0, <1>3, <1>4, <2>2, GoesSpared
  <2>8. G(T[5], Class({"p"}, {"data"}, {}), Class({"p", "pipes"}, {"data"}, {}))
    BY <1>3, <1>4, <2>2, <2>3, GoesGetOrCleanup
  <2>9. Upto(T, 1, Class({}, {}, {}), Class({}, {}, {}), {"return", "need"})
    BY <1>3, UptoFirst
  <2>10. Upto(T, 4, Class({}, {}, {}), Class({"p"}, {"data"}, {}), {"return", "need"})
    BY <2>9, <2>4, <2>5, <2>6, UptoStep
  <2>11. Upto(T, 6, Class({}, {}, {}), Class({"p", "pipes"}, {"data"}, {}), {"return", "need"})
    BY <2>10, <2>7, <2>8, UptoStep
  <2>12. 6 = Len(T) + 1 /\ Len(T) \in Nat
    BY ONLY <2>1
  <2> QED
    BY ONLY <2>11, <2>12, UptoEnd
\* initialize(n), with the option
<1>7. ASSUME NEW T, T = <<>>, opt
      PROVE  /\ TextFits(T, Class({"p", "pipes", "data"}, {}, {}), {"return", "cleanup"})
             /\ Ends(T, Class({"p", "pipes", "data"}, {}, {})) = Class({"p", "pipes", "data"}, {}, {})
  <2>1. {"p", "pipes", "data"} \subseteq Cells /\ {} \subseteq Cells
    BY <1>3
  <2> QED
    BY ONLY <1>7, <2>1, TextEmpty
\* initialize(n), without the option
<1>8. ASSUME NEW T, T = <<>>, ~opt
      PROVE  /\ TextFits(T, Class({"p", "pipes"}, {"data"}, {}), {"return", "cleanup"})
             /\ Ends(T, Class({"p", "pipes"}, {"data"}, {})) = Class({"p", "pipes"}, {"data"}, {})
  <2>1. {"data"} \subseteq Cells /\ {"p", "pipes"} \subseteq Cells /\ {} \subseteq Cells
    BY <1>3
  <2> QED
    BY ONLY <1>8, <2>1, TextEmpty
\* benchmark(n), with the option
<1>9. ASSUME NEW T, T = <<Use("p"), Use("pipes"), Opt(Use("data"))>>, opt
      PROVE  /\ TextFits(T, Class({"p", "pipes", "data"}, {}, {}), {"cleanup"})
             /\ Ends(T, Class({"p", "pipes", "data"}, {}, {})) = Class({"p", "pipes", "data"}, {}, {})
  <2> DEFINE G(op, C, D) == Goes(op, C, Class({"p", "pipes", "data"}, {}, {}), D, {"cleanup", "need"})
  <2>0. opt
    BY ONLY <1>9
  <2>1. Len(T) = 3
    BY ONLY <1>9
  <2>2. /\ T[1] = Use("p")
        /\ T[2] = Use("pipes")
        /\ T[3] = Opt(Use("data"))
    BY ONLY <1>9
  <2>3. G(T[1], Class({"p", "pipes", "data"}, {}, {}), Class({"p", "pipes", "data"}, {}, {}))
    BY <1>3, <1>4, <2>2, GoesUse
  <2>4. G(T[2], Class({"p", "pipes", "data"}, {}, {}), Class({"p", "pipes", "data"}, {}, {}))
    BY <1>3, <1>4, <2>2, GoesUse
  <2>5. G(T[3], Class({"p", "pipes", "data"}, {}, {}), Class({"p", "pipes", "data"}, {}, {}))
    BY <2>0, <1>3, <1>4, <2>2, GoesUse
  <2>6. Upto(T, 1, Class({"p", "pipes", "data"}, {}, {}), Class({"p", "pipes", "data"}, {}, {}), {"cleanup", "need"})
    BY <1>3, UptoFirst
  <2>7. Upto(T, 4, Class({"p", "pipes", "data"}, {}, {}), Class({"p", "pipes", "data"}, {}, {}), {"cleanup", "need"})
    BY <2>6, <2>3, <2>4, <2>5, UptoStep
  <2>8. 4 = Len(T) + 1 /\ Len(T) \in Nat
    BY ONLY <2>1
  <2> QED
    BY ONLY <2>7, <2>8, UptoEnd
\* benchmark(n), without the option
<1>10. ASSUME NEW T, T = <<Use("p"), Use("pipes"), Opt(Use("data"))>>, ~opt
      PROVE  /\ TextFits(T, Class({"p", "pipes"}, {"data"}, {}), {"cleanup"})
             /\ Ends(T, Class({"p", "pipes"}, {"data"}, {})) = Class({"p", "pipes"}, {"data"}, {})
  <2> DEFINE G(op, C, D) == Goes(op, C, Class({"p", "pipes"}, {"data"}, {}), D, {"cleanup", "need"})
  <2>0. ~opt
    BY ONLY <1>10
  <2>1. Len(T) = 3
    BY ONLY <1>10
  <2>2. /\ T[1] = Use("p")
        /\ T[2] = Use("pipes")
        /\ T[3] = Opt(Use("data"))
    BY ONLY <1>10
  <2>3. G(T[1], Class({"p", "pipes"}, {"data"}, {}), Class({"p", "pipes"}, {"data"}, {}))
    BY <1>3, <1>4, <2>2, GoesUse
  <2>4. G(T[2], Class({"p", "pipes"}, {"data"}, {}), Class({"p", "pipes"}, {"data"}, {}))
    BY <1>3, <1>4, <2>2, GoesUse
  <2>5. G(T[3], Class({"p", "pipes"}, {"data"}, {}), Class({"p", "pipes"}, {"data"}, {}))
    BY <2>0, <1>3, <1>4, <2>2, GoesSpared
  <2>6. Upto(T, 1, Class({"p", "pipes"}, {"data"}, {}), Class({"p", "pipes"}, {"data"}, {}), {"cleanup", "need"})
    BY <1>3, UptoFirst
  <2>7. Upto(T, 4, Class({"p", "pipes"}, {"data"}, {}), Class({"p", "pipes"}, {"data"}, {}), {"cleanup", "need"})
    BY <2>6, <2>3, <2>4, <2>5, UptoStep
  <2>8. 4 = Len(T) + 1 /\ Len(T) \in Nat
    BY ONLY <2>1
  <2> QED
    BY ONLY <2>7, <2>8, UptoEnd
\* cleanup(n), with the option
<1>11. ASSUME NEW T, T = <<>>, opt
      PROVE  /\ TextFits(T, Class({"p", "pipes", "data"}, {}, {}), {"return", "cleanup"})
             /\ Ends(T, Class({"p", "pipes", "data"}, {}, {})) = Class({"p", "pipes", "data"}, {}, {})
  <2>1. {"p", "pipes", "data"} \subseteq Cells /\ {} \subseteq Cells
    BY <1>3
  <2> QED
    BY ONLY <1>11, <2>1, TextEmpty
\* cleanup(n), without the option
<1>12. ASSUME NEW T, T = <<>>, ~opt
      PROVE  /\ TextFits(T, Class({"p", "pipes"}, {"data"}, {}), {"return", "cleanup"})
             /\ Ends(T, Class({"p", "pipes"}, {"data"}, {})) = Class({"p", "pipes"}, {"data"}, {})
  <2>1. {"data"} \subseteq Cells /\ {"p", "pipes"} \subseteq Cells /\ {} \subseteq Cells
    BY <1>3
  <2> QED
    BY ONLY <1>12, <2>1, TextEmpty
\* cleanup(0), with the option
<1>13. ASSUME NEW T, T = <<Use("p"), Close("pipes"), Free("p"), FreeIf("data")>>, opt
      PROVE  /\ TextFits(T, Class({"p", "pipes", "data"}, {}, {}), {"return", "cleanup", "make",
               "get"})
             /\ Ends(T, Class({"p", "pipes", "data"}, {}, {})) = Class({}, {}, {})
  <2> DEFINE G(op, C, D) == Goes(op, C, Class({"p", "pipes", "data"}, {}, {}), D, {"return", "cleanup", "make", "get", "need"})
  <2>1. Len(T) = 4
    BY ONLY <1>13
  <2>2. /\ T[1] = Use("p")
        /\ T[2] = Close("pipes")
        /\ T[3] = Free("p")
        /\ T[4] = FreeIf("data")
    BY ONLY <1>13
  <2>3. /\ {"p", "pipes", "data"} \ {"pipes"} = {"p", "data"}
        /\ {} \ {"pipes"} = {}
        /\ {"p", "data"} \ {"p"} = {"data"}
        /\ {} \ {"p"} = {}
        /\ {"data"} \ {"data"} = {}
        /\ {} \ {"data"} = {}
    OBVIOUS
  <2>4. G(T[1], Class({"p", "pipes", "data"}, {}, {}), Class({"p", "pipes", "data"}, {}, {}))
    BY <1>3, <1>4, <2>2, GoesUse
  <2>5. G(T[2], Class({"p", "pipes", "data"}, {}, {}), Class({"p", "data"}, {}, {}))
    BY <1>3, <1>4, <2>2, <2>3, GoesDrop, ReleaseParts
  <2>6. G(T[3], Class({"p", "data"}, {}, {}), Class({"data"}, {}, {}))
    BY <1>3, <1>4, <2>2, <2>3, GoesDrop, ReleaseParts
  <2>7. G(T[4], Class({"data"}, {}, {}), Class({}, {}, {}))
    BY <1>3, <1>4, <2>2, <2>3, GoesDrop, ReleaseParts
  <2>8. Upto(T, 1, Class({"p", "pipes", "data"}, {}, {}), Class({"p", "pipes", "data"}, {}, {}), {"return", "cleanup", "make", "get", "need"})
    BY <1>3, UptoFirst
  <2>9. Upto(T, 4, Class({"p", "pipes", "data"}, {}, {}), Class({"data"}, {}, {}), {"return", "cleanup", "make", "get", "need"})
    BY <2>8, <2>4, <2>5, <2>6, UptoStep
  <2>10. Upto(T, 5, Class({"p", "pipes", "data"}, {}, {}), Class({}, {}, {}), {"return", "cleanup", "make", "get", "need"})
    BY <2>9, <2>7, UptoStep
  <2>11. 5 = Len(T) + 1 /\ Len(T) \in Nat
    BY ONLY <2>1
  <2> QED
    BY ONLY <2>10, <2>11, UptoEnd
\* cleanup(0), without the option
<1>14. ASSUME NEW T, T = <<Use("p"), Close("pipes"), Free("p"), FreeIf("data")>>, ~opt
      PROVE  /\ TextFits(T, Class({"p", "pipes"}, {"data"}, {}), {"return", "cleanup", "make",
               "get"})
             /\ Ends(T, Class({"p", "pipes"}, {"data"}, {})) = Class({}, {}, {})
  <2> DEFINE G(op, C, D) == Goes(op, C, Class({"p", "pipes"}, {"data"}, {}), D, {"return", "cleanup", "make", "get", "need"})
  <2>1. Len(T) = 4
    BY ONLY <1>14
  <2>2. /\ T[1] = Use("p")
        /\ T[2] = Close("pipes")
        /\ T[3] = Free("p")
        /\ T[4] = FreeIf("data")
    BY ONLY <1>14
  <2>3. /\ {"p", "pipes"} \ {"pipes"} = {"p"}
        /\ {"data"} \ {"pipes"} = {"data"}
        /\ {} \ {"pipes"} = {}
        /\ {"p"} \ {"p"} = {}
        /\ {"data"} \ {"p"} = {"data"}
        /\ {} \ {"p"} = {}
        /\ {} \ {"data"} = {}
        /\ {"data"} \ {"data"} = {}
    OBVIOUS
  <2>4. G(T[1], Class({"p", "pipes"}, {"data"}, {}), Class({"p", "pipes"}, {"data"}, {}))
    BY <1>3, <1>4, <2>2, GoesUse
  <2>5. G(T[2], Class({"p", "pipes"}, {"data"}, {}), Class({"p"}, {"data"}, {}))
    BY <1>3, <1>4, <2>2, <2>3, GoesDrop, ReleaseParts
  <2>6. G(T[3], Class({"p"}, {"data"}, {}), Class({}, {"data"}, {}))
    BY <1>3, <1>4, <2>2, <2>3, GoesDrop, ReleaseParts
  <2>7. G(T[4], Class({}, {"data"}, {}), Class({}, {}, {}))
    BY <1>3, <1>4, <2>2, <2>3, GoesDrop, ReleaseParts
  <2>8. Upto(T, 1, Class({"p", "pipes"}, {"data"}, {}), Class({"p", "pipes"}, {"data"}, {}), {"return", "cleanup", "make", "get", "need"})
    BY <1>3, UptoFirst
  <2>9. Upto(T, 4, Class({"p", "pipes"}, {"data"}, {}), Class({}, {"data"}, {}), {"return", "cleanup", "make", "get", "need"})
    BY <2>8, <2>4, <2>5, <2>6, UptoStep
  <2>10. Upto(T, 5, Class({"p", "pipes"}, {"data"}, {}), Class({}, {}, {}), {"return", "cleanup", "make", "get", "need"})
    BY <2>9, <2>7, UptoStep
  <2>11. 5 = Len(T) + 1 /\ Len(T) \in Nat
    BY ONLY <2>1
  <2> QED
    BY ONLY <2>10, <2>11, UptoEnd
<1>15. Nothing = Class({}, {}, {})
  BY DEF Nothing, Class
<1>16. CASE opt
  <2>1. Between = Class({"p", "pipes", "data"}, {}, {}) /\ During = Class({"p", "pipes", "data"}, {}, {}) /\ Kept = {"p", "pipes", "data"} /\ Loose = {}
    BY <1>16, <1>4 DEF Between, During, Kept, KeptBy, KeptWithOption, Nulled, Loose, Class
  <2>2. TextFits(P.zero, Nothing, {"return"}) /\ Ends(P.zero, Nothing) = Class({"p", "data", "pipes"}, {}, {})
    BY <1>2, <1>5, <1>15, <1>16, <2>1
  <2>3. TextFits(P.nonzero, Between, {"return", "cleanup"}) /\ Ends(P.nonzero, Between) = Class({"p", "pipes", "data"}, {}, {})
    BY <1>2, <1>7, <1>16, <2>1
  <2>4. TextFits(P.body, During, {"cleanup"}) /\ Ends(P.body, During) = Class({"p", "pipes", "data"}, {}, {})
    BY <1>2, <1>9, <1>16, <2>1
  <2>5. TextFits(P.after, During, {"return", "cleanup"}) /\ Ends(P.after, During) = Class({"p", "pipes", "data"}, {}, {})
    BY <1>2, <1>11, <1>16, <2>1
  <2>6. TextFits(P.end, Between, {"return", "cleanup", "make", "get"}) /\ Ends(P.end, Between) = Class({}, {}, {})
    BY <1>2, <1>13, <1>16, <2>1
  <2>7. Covers(Class({"p", "pipes", "data"}, {}, {}), Class({"p", "data", "pipes"}, {}, {})) /\ Covers(Class({"p", "pipes", "data"}, {}, {}), Class({"p", "pipes", "data"}, {}, {})) /\ Covers(Class({"p", "pipes", "data"}, {}, {}), Class({"p", "pipes", "data"}, {}, {}))
    BY ClassParts DEF Covers
  <2>8. {"clone", "dir"} \intersect (Ends(P.end, Between).held \union Ends(P.end, Between).loose) = {}
    BY <2>6, ClassParts
  <2>9. ~P.hasCleanup => {"clone", "dir"} \intersect (Kept \union Loose) = {}
    BY <1>2, <2>1
  <2> QED
    BY ONLY <2>1, <2>2, <2>3, <2>4, <2>5, <2>6, <2>7, <2>8, <2>9 DEF ProgramFits
<1>17. CASE ~opt
  <2>1. Between = Class({"p", "pipes"}, {"data"}, {}) /\ During = Class({"p", "pipes"}, {"data"}, {}) /\ Kept = {"p", "pipes"} /\ Loose = {}
    BY <1>17, <1>4 DEF Between, During, Kept, KeptBy, KeptWithOption, Nulled, Loose, Class
  <2>2. TextFits(P.zero, Nothing, {"return"}) /\ Ends(P.zero, Nothing) = Class({"p", "pipes"}, {"data"}, {})
    BY <1>2, <1>6, <1>15, <1>17, <2>1
  <2>3. TextFits(P.nonzero, Between, {"return", "cleanup"}) /\ Ends(P.nonzero, Between) = Class({"p", "pipes"}, {"data"}, {})
    BY <1>2, <1>8, <1>17, <2>1
  <2>4. TextFits(P.body, During, {"cleanup"}) /\ Ends(P.body, During) = Class({"p", "pipes"}, {"data"}, {})
    BY <1>2, <1>10, <1>17, <2>1
  <2>5. TextFits(P.after, During, {"return", "cleanup"}) /\ Ends(P.after, During) = Class({"p", "pipes"}, {"data"}, {})
    BY <1>2, <1>12, <1>17, <2>1
  <2>6. TextFits(P.end, Between, {"return", "cleanup", "make", "get"}) /\ Ends(P.end, Between) = Class({}, {}, {})
    BY <1>2, <1>14, <1>17, <2>1
  <2>7. Covers(Class({"p", "pipes"}, {"data"}, {}), Class({"p", "pipes"}, {"data"}, {})) /\ Covers(Class({"p", "pipes"}, {"data"}, {}), Class({"p", "pipes"}, {"data"}, {})) /\ Covers(Class({"p", "pipes"}, {"data"}, {}), Class({"p", "pipes"}, {"data"}, {}))
    BY ClassParts DEF Covers
  <2>8. {"clone", "dir"} \intersect (Ends(P.end, Between).held \union Ends(P.end, Between).loose) = {}
    BY <2>6, ClassParts
  <2>9. ~P.hasCleanup => {"clone", "dir"} \intersect (Kept \union Loose) = {}
    BY <1>2, <2>1
  <2> QED
    BY ONLY <2>1, <2>2, <2>3, <2>4, <2>5, <2>6, <2>7, <2>8, <2>9 DEF ProgramFits
<1> QED
  BY <1>16, <1>17

\* stride.
LEMMA FitsStride ==
  ASSUME prog = "stride", opt \in BOOLEAN
  PROVE  ProgramFits
<1>1. P = stride_initialize
  BY DEF P, Program
<1>2. /\ P.zero = <<Null("words"), Null("lines"), Get("pages", "ignore"), Get("addr", "ignore")>> \o
            (<<Need("addr", 1 + 1), Need("pages", 1)>> \o <<Use("addr")>>)
      /\ P.nonzero = <<Need("addr", 1 + 1), Need("pages", 1)>> \o <<Use("addr")>>
      /\ P.body = <<Use("addr")>>
      /\ P.after = <<>>
      /\ P.end = <<FreeReset("addr"), FreeReset("lines"), FreeReset("pages"), FreeReset("words")>>
      /\ P.hasCleanup = TRUE
  BY <1>1 DEF stride_initialize, Idle, Base, Initialized, MemCleanup, StrideLaid, ThrashLaid
<1>3. {"addr", "lines", "pages", "words"} \subseteq Resources /\ Resources \subseteq Cells /\ {"clone", "dir"} \subseteq Cells
  BY DEF Resources, Cells
<1>4. Careless /\ ~IsTree
  BY DEF Careless, Unchecked, IsTree
\* initialize(0)
<1>5. ASSUME NEW T, T = <<Null("words"), Null("lines"), Get("pages", "ignore"), Get("addr",
          "ignore")>> \o (<<Need("addr", 1 + 1), Need("pages", 1)>> \o <<Use("addr")>>)
      PROVE  /\ TextFits(T, Class({}, {}, {}), {"return"})
             /\ Ends(T, Class({}, {}, {})) = Class({"pages", "addr"}, {"words", "lines"}, {})
  <2> DEFINE G(op, C, D) == Goes(op, C, Class({}, {}, {}), D, {"return"})
  <2>1. Len(T) = 7
    BY ONLY <1>5
  <2>2. /\ T[1] = Null("words")
        /\ T[2] = Null("lines")
        /\ T[3] = Get("pages", "ignore")
        /\ T[4] = Get("addr", "ignore")
        /\ T[5] = Need("addr", 2)
        /\ T[6] = Need("pages", 1)
        /\ T[7] = Use("addr")
    BY ONLY <1>5
  <2>3. /\ {} \ {"words"} = {}
        /\ {} \union {"words"} = {"words"}
        /\ {} \ {"lines"} = {}
        /\ {"words"} \union {"lines"} = {"words", "lines"}
        /\ {} \union {"pages"} = {"pages"}
        /\ {"words", "lines"} \ {"pages"} = {"words", "lines"}
        /\ {} \ {"pages"} = {}
        /\ {"pages"} \union {"addr"} = {"pages", "addr"}
        /\ {"words", "lines"} \ {"addr"} = {"words", "lines"}
        /\ {} \ {"addr"} = {}
    OBVIOUS
  <2>4. G(T[1], Class({}, {}, {}), Class({}, {"words"}, {}))
    BY <1>3, <1>4, <2>2, <2>3, GoesNull
  <2>5. G(T[2], Class({}, {"words"}, {}), Class({}, {"words", "lines"}, {}))
    BY <1>3, <1>4, <2>2, <2>3, GoesNull
  <2>6. G(T[3], Class({}, {"words", "lines"}, {}), Class({"pages"}, {"words", "lines"}, {}))
    BY <1>3, <1>4, <2>2, <2>3, GoesGet
  <2>7. G(T[4], Class({"pages"}, {"words", "lines"}, {}), Class({"pages", "addr"}, {"words", "lines"}, {}))
    BY <1>3, <1>4, <2>2, <2>3, GoesGet
  <2>8. G(T[5], Class({"pages", "addr"}, {"words", "lines"}, {}), Class({"pages", "addr"}, {"words", "lines"}, {}))
    BY <1>3, <1>4, <2>2, GoesNeed
  <2>9. G(T[6], Class({"pages", "addr"}, {"words", "lines"}, {}), Class({"pages", "addr"}, {"words", "lines"}, {}))
    BY <1>3, <1>4, <2>2, GoesNeed
  <2>10. G(T[7], Class({"pages", "addr"}, {"words", "lines"}, {}), Class({"pages", "addr"}, {"words", "lines"}, {}))
    BY <1>3, <1>4, <2>2, GoesUse
  <2>11. Upto(T, 1, Class({}, {}, {}), Class({}, {}, {}), {"return"})
    BY <1>3, UptoFirst
  <2>12. Upto(T, 4, Class({}, {}, {}), Class({"pages"}, {"words", "lines"}, {}), {"return"})
    BY <2>11, <2>4, <2>5, <2>6, UptoStep
  <2>13. Upto(T, 5, Class({}, {}, {}), Class({"pages", "addr"}, {"words", "lines"}, {}), {"return"})
    BY <2>12, <2>7, UptoStep
  <2>14. Upto(T, 6, Class({}, {}, {}), Class({"pages", "addr"}, {"words", "lines"}, {}), {"return"})
    BY <2>13, <2>8, UptoStep
  <2>15. Upto(T, 8, Class({}, {}, {}), Class({"pages", "addr"}, {"words", "lines"}, {}), {"return"})
    BY <2>14, <2>9, <2>10, UptoStep
  <2>16. 8 = Len(T) + 1 /\ Len(T) \in Nat
    BY ONLY <2>1
  <2>17. T[1].what = "null" /\ T[2].what = "null" /\ T[3].what = "get" /\ T[4].what = "get" /\
        T[5].what = "need" /\ T[6].what = "need" /\ T[7].what = "use"
    BY <2>2, OpParts
  <2>18. NeedFits(T, 5, At(T, 5, Class({}, {}, {})), Class({}, {}, {}))
    <3>1. HeldAt(T, 8, Class({}, {}, {})) = {"pages", "addr"}
      BY <2>15, ClassParts DEF At, Upto
    <3>2. At(T, 5, Class({}, {}, {})) = Class({"pages", "addr"}, {"words", "lines"}, {})
      BY <2>13 DEF Upto
    <3>3. T[5].r = "addr" /\ T[5].how = 2
      BY <2>2, OpParts
    <3>4. 5 + 2 = 7 /\ 5 + 2 + 1 = 8 /\ \A k \in 5+1..5+2 : k \in {6, 7}
      OBVIOUS
    <3> QED
      BY <1>4, <2>1, <2>17, <3>1, <3>2, <3>3, <3>4, ClassParts DEF NeedFits
  <2>19. NeedFits(T, 6, At(T, 6, Class({}, {}, {})), Class({}, {}, {}))
    <3>1. HeldAt(T, 8, Class({}, {}, {})) = {"pages", "addr"}
      BY <2>15, ClassParts DEF At, Upto
    <3>2. At(T, 6, Class({}, {}, {})) = Class({"pages", "addr"}, {"words", "lines"}, {})
      BY <2>14 DEF Upto
    <3>3. T[6].r = "pages" /\ T[6].how = 1
      BY <2>2, OpParts
    <3>4. 6 + 1 = 7 /\ 6 + 1 + 1 = 8 /\ \A k \in 6+1..6+1 : k \in {7}
      OBVIOUS
    <3> QED
      BY <1>4, <2>1, <2>17, <3>1, <3>2, <3>3, <3>4, ClassParts DEF NeedFits
  <2>20. \A k \in 1..Len(T) : T[k].what = "need" => k \in {5, 6}
    <3>1. \A k \in 1..Len(T) : k \in {1, 2, 3, 4, 5, 6, 7}
      BY <2>1
    <3> QED
      BY <2>17, <3>1
  <2> QED
    BY <2>15, <2>16, <2>18, <2>19, <2>20, UptoEndNeeds
\* initialize(n)
<1>6. ASSUME NEW T, T = <<Need("addr", 1 + 1), Need("pages", 1)>> \o <<Use("addr")>>
      PROVE  /\ TextFits(T, Class({"addr", "pages"}, {"words", "lines"}, {}), {"return", "cleanup"})
             /\ Ends(T, Class({"addr", "pages"}, {"words", "lines"}, {})) = Class({"addr", "pages"}, {"words", "lines"}, {})
  <2> DEFINE G(op, C, D) == Goes(op, C, Class({"addr", "pages"}, {"words", "lines"}, {}), D, {"return", "cleanup"})
  <2>1. Len(T) = 3
    BY ONLY <1>6
  <2>2. /\ T[1] = Need("addr", 2)
        /\ T[2] = Need("pages", 1)
        /\ T[3] = Use("addr")
    BY ONLY <1>6
  <2>3. G(T[1], Class({"addr", "pages"}, {"words", "lines"}, {}), Class({"addr", "pages"}, {"words", "lines"}, {}))
    BY <1>3, <1>4, <2>2, GoesNeed
  <2>4. G(T[2], Class({"addr", "pages"}, {"words", "lines"}, {}), Class({"addr", "pages"}, {"words", "lines"}, {}))
    BY <1>3, <1>4, <2>2, GoesNeed
  <2>5. G(T[3], Class({"addr", "pages"}, {"words", "lines"}, {}), Class({"addr", "pages"}, {"words", "lines"}, {}))
    BY <1>3, <1>4, <2>2, GoesUse
  <2>6. Upto(T, 1, Class({"addr", "pages"}, {"words", "lines"}, {}), Class({"addr", "pages"}, {"words", "lines"}, {}), {"return", "cleanup"})
    BY <1>3, UptoFirst
  <2>7. Upto(T, 2, Class({"addr", "pages"}, {"words", "lines"}, {}), Class({"addr", "pages"}, {"words", "lines"}, {}), {"return", "cleanup"})
    BY <2>6, <2>3, UptoStep
  <2>8. Upto(T, 4, Class({"addr", "pages"}, {"words", "lines"}, {}), Class({"addr", "pages"}, {"words", "lines"}, {}), {"return", "cleanup"})
    BY <2>7, <2>4, <2>5, UptoStep
  <2>9. 4 = Len(T) + 1 /\ Len(T) \in Nat
    BY ONLY <2>1
  <2>10. T[1].what = "need" /\ T[2].what = "need" /\ T[3].what = "use"
    BY <2>2, OpParts
  <2>11. NeedFits(T, 1, At(T, 1, Class({"addr", "pages"}, {"words", "lines"}, {})), Class({"addr", "pages"}, {"words", "lines"}, {}))
    <3>1. HeldAt(T, 4, Class({"addr", "pages"}, {"words", "lines"}, {})) = {"addr", "pages"}
      BY <2>8, ClassParts DEF At, Upto
    <3>2. At(T, 1, Class({"addr", "pages"}, {"words", "lines"}, {})) = Class({"addr", "pages"}, {"words", "lines"}, {})
      BY <2>6 DEF Upto
    <3>3. T[1].r = "addr" /\ T[1].how = 2
      BY <2>2, OpParts
    <3>4. 1 + 2 = 3 /\ 1 + 2 + 1 = 4 /\ \A k \in 1+1..1+2 : k \in {2, 3}
      OBVIOUS
    <3> QED
      BY <1>4, <2>1, <2>10, <3>1, <3>2, <3>3, <3>4, ClassParts DEF NeedFits
  <2>12. NeedFits(T, 2, At(T, 2, Class({"addr", "pages"}, {"words", "lines"}, {})), Class({"addr", "pages"}, {"words", "lines"}, {}))
    <3>1. HeldAt(T, 4, Class({"addr", "pages"}, {"words", "lines"}, {})) = {"addr", "pages"}
      BY <2>8, ClassParts DEF At, Upto
    <3>2. At(T, 2, Class({"addr", "pages"}, {"words", "lines"}, {})) = Class({"addr", "pages"}, {"words", "lines"}, {})
      BY <2>7 DEF Upto
    <3>3. T[2].r = "pages" /\ T[2].how = 1
      BY <2>2, OpParts
    <3>4. 2 + 1 = 3 /\ 2 + 1 + 1 = 4 /\ \A k \in 2+1..2+1 : k \in {3}
      OBVIOUS
    <3> QED
      BY <1>4, <2>1, <2>10, <3>1, <3>2, <3>3, <3>4, ClassParts DEF NeedFits
  <2>13. \A k \in 1..Len(T) : T[k].what = "need" => k \in {1, 2}
    <3>1. \A k \in 1..Len(T) : k \in {1, 2, 3}
      BY <2>1
    <3> QED
      BY <2>10, <3>1
  <2> QED
    BY <2>8, <2>9, <2>11, <2>12, <2>13, UptoEndNeeds
\* benchmark(n)
<1>7. ASSUME NEW T, T = <<Use("addr")>>
      PROVE  /\ TextFits(T, Class({"addr", "pages"}, {"words", "lines"}, {}), {"cleanup"})
             /\ Ends(T, Class({"addr", "pages"}, {"words", "lines"}, {})) = Class({"addr", "pages"}, {"words", "lines"}, {})
  <2> DEFINE G(op, C, D) == Goes(op, C, Class({"addr", "pages"}, {"words", "lines"}, {}), D, {"cleanup", "need"})
  <2>1. Len(T) = 1
    BY ONLY <1>7
  <2>2. /\ T[1] = Use("addr")
    BY ONLY <1>7
  <2>3. G(T[1], Class({"addr", "pages"}, {"words", "lines"}, {}), Class({"addr", "pages"}, {"words", "lines"}, {}))
    BY <1>3, <1>4, <2>2, GoesUse
  <2>4. Upto(T, 1, Class({"addr", "pages"}, {"words", "lines"}, {}), Class({"addr", "pages"}, {"words", "lines"}, {}), {"cleanup", "need"})
    BY <1>3, UptoFirst
  <2>5. Upto(T, 2, Class({"addr", "pages"}, {"words", "lines"}, {}), Class({"addr", "pages"}, {"words", "lines"}, {}), {"cleanup", "need"})
    BY <2>4, <2>3, UptoStep
  <2>6. 2 = Len(T) + 1 /\ Len(T) \in Nat
    BY ONLY <2>1
  <2> QED
    BY ONLY <2>5, <2>6, UptoEnd
\* cleanup(n)
<1>8. ASSUME NEW T, T = <<>>
      PROVE  /\ TextFits(T, Class({"addr", "pages"}, {"words", "lines"}, {}), {"return", "cleanup"})
             /\ Ends(T, Class({"addr", "pages"}, {"words", "lines"}, {})) = Class({"addr", "pages"}, {"words", "lines"}, {})
  <2>1. {"addr", "pages"} \subseteq Cells /\ {"words", "lines"} \subseteq Cells /\ {} \subseteq Cells
    BY <1>3
  <2> QED
    BY ONLY <1>8, <2>1, TextEmpty
\* cleanup(0)
<1>9. ASSUME NEW T, T = <<FreeReset("addr"), FreeReset("lines"), FreeReset("pages"),
          FreeReset("words")>>
      PROVE  /\ TextFits(T, Class({"addr", "pages"}, {"words", "lines"}, {}), {"return", "cleanup",
               "make", "get"})
             /\ Ends(T, Class({"addr", "pages"}, {"words", "lines"}, {})) = Class({}, {"words", "lines", "addr", "pages"}, {})
  <2> DEFINE G(op, C, D) == Goes(op, C, Class({"addr", "pages"}, {"words", "lines"}, {}), D, {"return", "cleanup", "make", "get", "need"})
  <2>1. Len(T) = 4
    BY ONLY <1>9
  <2>2. /\ T[1] = FreeReset("addr")
        /\ T[2] = FreeReset("lines")
        /\ T[3] = FreeReset("pages")
        /\ T[4] = FreeReset("words")
    BY ONLY <1>9
  <2>3. /\ {"addr", "pages"} \ {"addr"} = {"pages"}
        /\ {"words", "lines"} \union {"addr"} = {"words", "lines", "addr"}
        /\ {} \ {"addr"} = {}
        /\ {"pages"} \ {"lines"} = {"pages"}
        /\ {"words", "lines", "addr"} \union {"lines"} = {"words", "lines", "addr"}
        /\ {} \ {"lines"} = {}
        /\ {"pages"} \ {"pages"} = {}
        /\ {"words", "lines", "addr"} \union {"pages"} = {"words", "lines", "addr", "pages"}
        /\ {} \ {"pages"} = {}
        /\ {} \ {"words"} = {}
        /\ {"words", "lines", "addr", "pages"} \union {"words"} = {"words", "lines", "addr", "pages"}
    OBVIOUS
  <2>4. G(T[1], Class({"addr", "pages"}, {"words", "lines"}, {}), Class({"pages"}, {"words", "lines", "addr"}, {}))
    BY <1>3, <1>4, <2>2, <2>3, GoesReset
  <2>5. G(T[2], Class({"pages"}, {"words", "lines", "addr"}, {}), Class({"pages"}, {"words", "lines", "addr"}, {}))
    BY <1>3, <1>4, <2>2, <2>3, GoesReset
  <2>6. G(T[3], Class({"pages"}, {"words", "lines", "addr"}, {}), Class({}, {"words", "lines", "addr", "pages"}, {}))
    BY <1>3, <1>4, <2>2, <2>3, GoesReset
  <2>7. G(T[4], Class({}, {"words", "lines", "addr", "pages"}, {}), Class({}, {"words", "lines", "addr", "pages"}, {}))
    BY <1>3, <1>4, <2>2, <2>3, GoesReset
  <2>8. Upto(T, 1, Class({"addr", "pages"}, {"words", "lines"}, {}), Class({"addr", "pages"}, {"words", "lines"}, {}), {"return", "cleanup", "make", "get", "need"})
    BY <1>3, UptoFirst
  <2>9. Upto(T, 4, Class({"addr", "pages"}, {"words", "lines"}, {}), Class({}, {"words", "lines", "addr", "pages"}, {}), {"return", "cleanup", "make", "get", "need"})
    BY <2>8, <2>4, <2>5, <2>6, UptoStep
  <2>10. Upto(T, 5, Class({"addr", "pages"}, {"words", "lines"}, {}), Class({}, {"words", "lines", "addr", "pages"}, {}), {"return", "cleanup", "make", "get", "need"})
    BY <2>9, <2>7, UptoStep
  <2>11. 5 = Len(T) + 1 /\ Len(T) \in Nat
    BY ONLY <2>1
  <2> QED
    BY ONLY <2>10, <2>11, UptoEnd
<1>10. Nothing = Class({}, {}, {})
  BY DEF Nothing, Class
<1>11. ProgramFits
  <2>1. Between = Class({"addr", "pages"}, {"words", "lines"}, {}) /\ During = Class({"addr", "pages"}, {"words", "lines"}, {}) /\ Kept = {"addr", "pages"} /\ Loose = {}
    BY <1>4 DEF Between, During, Kept, KeptBy, KeptWithOption, Nulled, Loose, Class
  <2>2. TextFits(P.zero, Nothing, {"return"}) /\ Ends(P.zero, Nothing) = Class({"pages", "addr"}, {"words", "lines"}, {})
    BY <1>2, <1>5, <1>10, <2>1
  <2>3. TextFits(P.nonzero, Between, {"return", "cleanup"}) /\ Ends(P.nonzero, Between) = Class({"addr", "pages"}, {"words", "lines"}, {})
    BY <1>2, <1>6, <2>1
  <2>4. TextFits(P.body, During, {"cleanup"}) /\ Ends(P.body, During) = Class({"addr", "pages"}, {"words", "lines"}, {})
    BY <1>2, <1>7, <2>1
  <2>5. TextFits(P.after, During, {"return", "cleanup"}) /\ Ends(P.after, During) = Class({"addr", "pages"}, {"words", "lines"}, {})
    BY <1>2, <1>8, <2>1
  <2>6. TextFits(P.end, Between, {"return", "cleanup", "make", "get"}) /\ Ends(P.end, Between) = Class({}, {"words", "lines", "addr", "pages"}, {})
    BY <1>2, <1>9, <2>1
  <2>7. Covers(Class({"addr", "pages"}, {"words", "lines"}, {}), Class({"pages", "addr"}, {"words", "lines"}, {})) /\ Covers(Class({"addr", "pages"}, {"words", "lines"}, {}), Class({"addr", "pages"}, {"words", "lines"}, {})) /\ Covers(Class({"addr", "pages"}, {"words", "lines"}, {}), Class({"addr", "pages"}, {"words", "lines"}, {}))
    BY ClassParts DEF Covers
  <2>8. {"clone", "dir"} \intersect (Ends(P.end, Between).held \union Ends(P.end, Between).loose) = {}
    BY <2>6, ClassParts
  <2>9. ~P.hasCleanup => {"clone", "dir"} \intersect (Kept \union Loose) = {}
    BY <1>2, <2>1
  <2> QED
    BY ONLY <2>1, <2>2, <2>3, <2>4, <2>5, <2>6, <2>7, <2>8, <2>9 DEF ProgramFits
<1> QED
  BY <1>11

\* thrash.
LEMMA FitsThrash ==
  ASSUME prog = "thrash", opt \in BOOLEAN
  PROVE  ProgramFits
<1>1. P = thrash_initialize
  BY DEF P, Program
<1>2. /\ P.zero = <<Null("words"), Null("lines"), Get("pages", "ignore"), Get("addr", "ignore")>> \o
            (<<Need("addr", 3 + 1), Need("pages", 3)>> \o <<Get("words", "ignore"), Use("words"),
            Use("addr")>>)
      /\ P.nonzero = <<Need("addr", 3 + 1), Need("pages", 3)>> \o <<Get("words", "ignore"),
            Use("words"), Use("addr")>>
      /\ P.body = <<Use("addr")>>
      /\ P.after = <<>>
      /\ P.end = <<FreeReset("addr"), FreeReset("lines"), FreeReset("pages"), FreeReset("words")>>
      /\ P.hasCleanup = TRUE
  BY <1>1 DEF thrash_initialize, Idle, Base, Initialized, MemCleanup, StrideLaid, ThrashLaid
<1>3. {"addr", "lines", "pages", "words"} \subseteq Resources /\ Resources \subseteq Cells /\ {"clone", "dir"} \subseteq Cells
  BY DEF Resources, Cells
<1>4. Careless /\ ~IsTree
  BY DEF Careless, Unchecked, IsTree
\* initialize(0)
<1>5. ASSUME NEW T, T = <<Null("words"), Null("lines"), Get("pages", "ignore"), Get("addr",
          "ignore")>> \o (<<Need("addr", 3 + 1), Need("pages", 3)>> \o <<Get("words", "ignore"),
          Use("words"), Use("addr")>>)
      PROVE  /\ TextFits(T, Class({}, {}, {}), {"return"})
             /\ Ends(T, Class({}, {}, {})) = Class({"pages", "addr", "words"}, {"lines"}, {})
  <2> DEFINE G(op, C, D) == Goes(op, C, Class({}, {}, {}), D, {"return"})
  <2>1. Len(T) = 9
    BY ONLY <1>5
  <2>2. /\ T[1] = Null("words")
        /\ T[2] = Null("lines")
        /\ T[3] = Get("pages", "ignore")
        /\ T[4] = Get("addr", "ignore")
        /\ T[5] = Need("addr", 4)
        /\ T[6] = Need("pages", 3)
        /\ T[7] = Get("words", "ignore")
        /\ T[8] = Use("words")
        /\ T[9] = Use("addr")
    BY ONLY <1>5
  <2>3. /\ {} \ {"words"} = {}
        /\ {} \union {"words"} = {"words"}
        /\ {} \ {"lines"} = {}
        /\ {"words"} \union {"lines"} = {"words", "lines"}
        /\ {} \union {"pages"} = {"pages"}
        /\ {"words", "lines"} \ {"pages"} = {"words", "lines"}
        /\ {} \ {"pages"} = {}
        /\ {"pages"} \union {"addr"} = {"pages", "addr"}
        /\ {"words", "lines"} \ {"addr"} = {"words", "lines"}
        /\ {} \ {"addr"} = {}
        /\ {"pages", "addr"} \union {"words"} = {"pages", "addr", "words"}
        /\ {"words", "lines"} \ {"words"} = {"lines"}
    OBVIOUS
  <2>4. G(T[1], Class({}, {}, {}), Class({}, {"words"}, {}))
    BY <1>3, <1>4, <2>2, <2>3, GoesNull
  <2>5. G(T[2], Class({}, {"words"}, {}), Class({}, {"words", "lines"}, {}))
    BY <1>3, <1>4, <2>2, <2>3, GoesNull
  <2>6. G(T[3], Class({}, {"words", "lines"}, {}), Class({"pages"}, {"words", "lines"}, {}))
    BY <1>3, <1>4, <2>2, <2>3, GoesGet
  <2>7. G(T[4], Class({"pages"}, {"words", "lines"}, {}), Class({"pages", "addr"}, {"words", "lines"}, {}))
    BY <1>3, <1>4, <2>2, <2>3, GoesGet
  <2>8. G(T[5], Class({"pages", "addr"}, {"words", "lines"}, {}), Class({"pages", "addr"}, {"words", "lines"}, {}))
    BY <1>3, <1>4, <2>2, GoesNeed
  <2>9. G(T[6], Class({"pages", "addr"}, {"words", "lines"}, {}), Class({"pages", "addr"}, {"words", "lines"}, {}))
    BY <1>3, <1>4, <2>2, GoesNeed
  <2>10. G(T[7], Class({"pages", "addr"}, {"words", "lines"}, {}), Class({"pages", "addr", "words"}, {"lines"}, {}))
    BY <1>3, <1>4, <2>2, <2>3, GoesGet
  <2>11. G(T[8], Class({"pages", "addr", "words"}, {"lines"}, {}), Class({"pages", "addr", "words"}, {"lines"}, {}))
    BY <1>3, <1>4, <2>2, GoesUse
  <2>12. G(T[9], Class({"pages", "addr", "words"}, {"lines"}, {}), Class({"pages", "addr", "words"}, {"lines"}, {}))
    BY <1>3, <1>4, <2>2, GoesUse
  <2>13. Upto(T, 1, Class({}, {}, {}), Class({}, {}, {}), {"return"})
    BY <1>3, UptoFirst
  <2>14. Upto(T, 4, Class({}, {}, {}), Class({"pages"}, {"words", "lines"}, {}), {"return"})
    BY <2>13, <2>4, <2>5, <2>6, UptoStep
  <2>15. Upto(T, 5, Class({}, {}, {}), Class({"pages", "addr"}, {"words", "lines"}, {}), {"return"})
    BY <2>14, <2>7, UptoStep
  <2>16. Upto(T, 6, Class({}, {}, {}), Class({"pages", "addr"}, {"words", "lines"}, {}), {"return"})
    BY <2>15, <2>8, UptoStep
  <2>17. Upto(T, 9, Class({}, {}, {}), Class({"pages", "addr", "words"}, {"lines"}, {}), {"return"})
    BY <2>16, <2>9, <2>10, <2>11, UptoStep
  <2>18. Upto(T, 10, Class({}, {}, {}), Class({"pages", "addr", "words"}, {"lines"}, {}), {"return"})
    BY <2>17, <2>12, UptoStep
  <2>19. 10 = Len(T) + 1 /\ Len(T) \in Nat
    BY ONLY <2>1
  <2>20. T[1].what = "null" /\ T[2].what = "null" /\ T[3].what = "get" /\ T[4].what = "get" /\
        T[5].what = "need" /\ T[6].what = "need" /\ T[7].what = "get" /\ T[8].what = "use" /\
        T[9].what = "use"
    BY <2>2, OpParts
  <2>21. NeedFits(T, 5, At(T, 5, Class({}, {}, {})), Class({}, {}, {}))
    <3>1. HeldAt(T, 10, Class({}, {}, {})) = {"pages", "addr", "words"}
      BY <2>18, ClassParts DEF At, Upto
    <3>2. At(T, 5, Class({}, {}, {})) = Class({"pages", "addr"}, {"words", "lines"}, {})
      BY <2>15 DEF Upto
    <3>3. T[5].r = "addr" /\ T[5].how = 4
      BY <2>2, OpParts
    <3>4. T[7].r = "words" /\ T[7].how = "ignore"
      BY <2>2, OpParts
    <3>5. 5 + 4 = 9 /\ 5 + 4 + 1 = 10 /\ \A k \in 5+1..5+4 : k \in {6, 7, 8, 9}
      OBVIOUS
    <3> QED
      BY <1>4, <2>1, <2>20, <3>1, <3>2, <3>3, <3>4, <3>5, ClassParts DEF NeedFits
  <2>22. NeedFits(T, 6, At(T, 6, Class({}, {}, {})), Class({}, {}, {}))
    <3>1. HeldAt(T, 10, Class({}, {}, {})) = {"pages", "addr", "words"}
      BY <2>18, ClassParts DEF At, Upto
    <3>2. At(T, 6, Class({}, {}, {})) = Class({"pages", "addr"}, {"words", "lines"}, {})
      BY <2>16 DEF Upto
    <3>3. T[6].r = "pages" /\ T[6].how = 3
      BY <2>2, OpParts
    <3>4. T[7].r = "words" /\ T[7].how = "ignore"
      BY <2>2, OpParts
    <3>5. 6 + 3 = 9 /\ 6 + 3 + 1 = 10 /\ \A k \in 6+1..6+3 : k \in {7, 8, 9}
      OBVIOUS
    <3> QED
      BY <1>4, <2>1, <2>20, <3>1, <3>2, <3>3, <3>4, <3>5, ClassParts DEF NeedFits
  <2>23. \A k \in 1..Len(T) : T[k].what = "need" => k \in {5, 6}
    <3>1. \A k \in 1..Len(T) : k \in {1, 2, 3, 4, 5, 6, 7, 8, 9}
      BY <2>1
    <3> QED
      BY <2>20, <3>1
  <2> QED
    BY <2>18, <2>19, <2>21, <2>22, <2>23, UptoEndNeeds
\* initialize(n)
<1>6. ASSUME NEW T, T = <<Need("addr", 3 + 1), Need("pages", 3)>> \o <<Get("words", "ignore"),
          Use("words"), Use("addr")>>
      PROVE  /\ TextFits(T, Class({"addr", "pages", "words"}, {"lines"}, {}), {"return", "cleanup"})
             /\ Ends(T, Class({"addr", "pages", "words"}, {"lines"}, {})) = Class({"addr", "pages", "words"}, {"lines"}, {})
  <2> DEFINE G(op, C, D) == Goes(op, C, Class({"addr", "pages", "words"}, {"lines"}, {}), D, {"return", "cleanup"})
  <2>1. Len(T) = 5
    BY ONLY <1>6
  <2>2. /\ T[1] = Need("addr", 4)
        /\ T[2] = Need("pages", 3)
        /\ T[3] = Get("words", "ignore")
        /\ T[4] = Use("words")
        /\ T[5] = Use("addr")
    BY ONLY <1>6
  <2>3. /\ {"addr", "pages", "words"} \union {"words"} = {"addr", "pages", "words"}
        /\ {"lines"} \ {"words"} = {"lines"}
        /\ {} \ {"words"} = {}
    OBVIOUS
  <2>4. G(T[1], Class({"addr", "pages", "words"}, {"lines"}, {}), Class({"addr", "pages", "words"}, {"lines"}, {}))
    BY <1>3, <1>4, <2>2, GoesNeed
  <2>5. G(T[2], Class({"addr", "pages", "words"}, {"lines"}, {}), Class({"addr", "pages", "words"}, {"lines"}, {}))
    BY <1>3, <1>4, <2>2, GoesNeed
  <2>6. G(T[3], Class({"addr", "pages", "words"}, {"lines"}, {}), Class({"addr", "pages", "words"}, {"lines"}, {}))
    BY <1>3, <1>4, <2>2, <2>3, GoesGet
  <2>7. G(T[4], Class({"addr", "pages", "words"}, {"lines"}, {}), Class({"addr", "pages", "words"}, {"lines"}, {}))
    BY <1>3, <1>4, <2>2, GoesUse
  <2>8. G(T[5], Class({"addr", "pages", "words"}, {"lines"}, {}), Class({"addr", "pages", "words"}, {"lines"}, {}))
    BY <1>3, <1>4, <2>2, GoesUse
  <2>9. Upto(T, 1, Class({"addr", "pages", "words"}, {"lines"}, {}), Class({"addr", "pages", "words"}, {"lines"}, {}), {"return", "cleanup"})
    BY <1>3, UptoFirst
  <2>10. Upto(T, 2, Class({"addr", "pages", "words"}, {"lines"}, {}), Class({"addr", "pages", "words"}, {"lines"}, {}), {"return", "cleanup"})
    BY <2>9, <2>4, UptoStep
  <2>11. Upto(T, 5, Class({"addr", "pages", "words"}, {"lines"}, {}), Class({"addr", "pages", "words"}, {"lines"}, {}), {"return", "cleanup"})
    BY <2>10, <2>5, <2>6, <2>7, UptoStep
  <2>12. Upto(T, 6, Class({"addr", "pages", "words"}, {"lines"}, {}), Class({"addr", "pages", "words"}, {"lines"}, {}), {"return", "cleanup"})
    BY <2>11, <2>8, UptoStep
  <2>13. 6 = Len(T) + 1 /\ Len(T) \in Nat
    BY ONLY <2>1
  <2>14. T[1].what = "need" /\ T[2].what = "need" /\ T[3].what = "get" /\ T[4].what = "use" /\
        T[5].what = "use"
    BY <2>2, OpParts
  <2>15. NeedFits(T, 1, At(T, 1, Class({"addr", "pages", "words"}, {"lines"}, {})), Class({"addr", "pages", "words"}, {"lines"}, {}))
    <3>1. HeldAt(T, 6, Class({"addr", "pages", "words"}, {"lines"}, {})) = {"addr", "pages", "words"}
      BY <2>12, ClassParts DEF At, Upto
    <3>2. At(T, 1, Class({"addr", "pages", "words"}, {"lines"}, {})) = Class({"addr", "pages", "words"}, {"lines"}, {})
      BY <2>9 DEF Upto
    <3>3. T[1].r = "addr" /\ T[1].how = 4
      BY <2>2, OpParts
    <3>4. T[3].r = "words" /\ T[3].how = "ignore"
      BY <2>2, OpParts
    <3>5. 1 + 4 = 5 /\ 1 + 4 + 1 = 6 /\ \A k \in 1+1..1+4 : k \in {2, 3, 4, 5}
      OBVIOUS
    <3> QED
      BY <1>4, <2>1, <2>14, <3>1, <3>2, <3>3, <3>4, <3>5, ClassParts DEF NeedFits
  <2>16. NeedFits(T, 2, At(T, 2, Class({"addr", "pages", "words"}, {"lines"}, {})), Class({"addr", "pages", "words"}, {"lines"}, {}))
    <3>1. HeldAt(T, 6, Class({"addr", "pages", "words"}, {"lines"}, {})) = {"addr", "pages", "words"}
      BY <2>12, ClassParts DEF At, Upto
    <3>2. At(T, 2, Class({"addr", "pages", "words"}, {"lines"}, {})) = Class({"addr", "pages", "words"}, {"lines"}, {})
      BY <2>10 DEF Upto
    <3>3. T[2].r = "pages" /\ T[2].how = 3
      BY <2>2, OpParts
    <3>4. T[3].r = "words" /\ T[3].how = "ignore"
      BY <2>2, OpParts
    <3>5. 2 + 3 = 5 /\ 2 + 3 + 1 = 6 /\ \A k \in 2+1..2+3 : k \in {3, 4, 5}
      OBVIOUS
    <3> QED
      BY <1>4, <2>1, <2>14, <3>1, <3>2, <3>3, <3>4, <3>5, ClassParts DEF NeedFits
  <2>17. \A k \in 1..Len(T) : T[k].what = "need" => k \in {1, 2}
    <3>1. \A k \in 1..Len(T) : k \in {1, 2, 3, 4, 5}
      BY <2>1
    <3> QED
      BY <2>14, <3>1
  <2> QED
    BY <2>12, <2>13, <2>15, <2>16, <2>17, UptoEndNeeds
\* benchmark(n)
<1>7. ASSUME NEW T, T = <<Use("addr")>>
      PROVE  /\ TextFits(T, Class({"addr", "pages", "words"}, {"lines"}, {}), {"cleanup"})
             /\ Ends(T, Class({"addr", "pages", "words"}, {"lines"}, {})) = Class({"addr", "pages", "words"}, {"lines"}, {})
  <2> DEFINE G(op, C, D) == Goes(op, C, Class({"addr", "pages", "words"}, {"lines"}, {}), D, {"cleanup", "need"})
  <2>1. Len(T) = 1
    BY ONLY <1>7
  <2>2. /\ T[1] = Use("addr")
    BY ONLY <1>7
  <2>3. G(T[1], Class({"addr", "pages", "words"}, {"lines"}, {}), Class({"addr", "pages", "words"}, {"lines"}, {}))
    BY <1>3, <1>4, <2>2, GoesUse
  <2>4. Upto(T, 1, Class({"addr", "pages", "words"}, {"lines"}, {}), Class({"addr", "pages", "words"}, {"lines"}, {}), {"cleanup", "need"})
    BY <1>3, UptoFirst
  <2>5. Upto(T, 2, Class({"addr", "pages", "words"}, {"lines"}, {}), Class({"addr", "pages", "words"}, {"lines"}, {}), {"cleanup", "need"})
    BY <2>4, <2>3, UptoStep
  <2>6. 2 = Len(T) + 1 /\ Len(T) \in Nat
    BY ONLY <2>1
  <2> QED
    BY ONLY <2>5, <2>6, UptoEnd
\* cleanup(n)
<1>8. ASSUME NEW T, T = <<>>
      PROVE  /\ TextFits(T, Class({"addr", "pages", "words"}, {"lines"}, {}), {"return", "cleanup"})
             /\ Ends(T, Class({"addr", "pages", "words"}, {"lines"}, {})) = Class({"addr", "pages", "words"}, {"lines"}, {})
  <2>1. {"addr", "pages", "words"} \subseteq Cells /\ {"lines"} \subseteq Cells /\ {} \subseteq Cells
    BY <1>3
  <2> QED
    BY ONLY <1>8, <2>1, TextEmpty
\* cleanup(0)
<1>9. ASSUME NEW T, T = <<FreeReset("addr"), FreeReset("lines"), FreeReset("pages"),
          FreeReset("words")>>
      PROVE  /\ TextFits(T, Class({"addr", "pages", "words"}, {"lines"}, {}), {"return", "cleanup",
               "make", "get"})
             /\ Ends(T, Class({"addr", "pages", "words"}, {"lines"}, {})) = Class({}, {"lines", "addr", "pages", "words"}, {})
  <2> DEFINE G(op, C, D) == Goes(op, C, Class({"addr", "pages", "words"}, {"lines"}, {}), D, {"return", "cleanup", "make", "get", "need"})
  <2>1. Len(T) = 4
    BY ONLY <1>9
  <2>2. /\ T[1] = FreeReset("addr")
        /\ T[2] = FreeReset("lines")
        /\ T[3] = FreeReset("pages")
        /\ T[4] = FreeReset("words")
    BY ONLY <1>9
  <2>3. /\ {"addr", "pages", "words"} \ {"addr"} = {"pages", "words"}
        /\ {"lines"} \union {"addr"} = {"lines", "addr"}
        /\ {} \ {"addr"} = {}
        /\ {"pages", "words"} \ {"lines"} = {"pages", "words"}
        /\ {"lines", "addr"} \union {"lines"} = {"lines", "addr"}
        /\ {} \ {"lines"} = {}
        /\ {"pages", "words"} \ {"pages"} = {"words"}
        /\ {"lines", "addr"} \union {"pages"} = {"lines", "addr", "pages"}
        /\ {} \ {"pages"} = {}
        /\ {"words"} \ {"words"} = {}
        /\ {"lines", "addr", "pages"} \union {"words"} = {"lines", "addr", "pages", "words"}
        /\ {} \ {"words"} = {}
    OBVIOUS
  <2>4. G(T[1], Class({"addr", "pages", "words"}, {"lines"}, {}), Class({"pages", "words"}, {"lines", "addr"}, {}))
    BY <1>3, <1>4, <2>2, <2>3, GoesReset
  <2>5. G(T[2], Class({"pages", "words"}, {"lines", "addr"}, {}), Class({"pages", "words"}, {"lines", "addr"}, {}))
    BY <1>3, <1>4, <2>2, <2>3, GoesReset
  <2>6. G(T[3], Class({"pages", "words"}, {"lines", "addr"}, {}), Class({"words"}, {"lines", "addr", "pages"}, {}))
    BY <1>3, <1>4, <2>2, <2>3, GoesReset
  <2>7. G(T[4], Class({"words"}, {"lines", "addr", "pages"}, {}), Class({}, {"lines", "addr", "pages", "words"}, {}))
    BY <1>3, <1>4, <2>2, <2>3, GoesReset
  <2>8. Upto(T, 1, Class({"addr", "pages", "words"}, {"lines"}, {}), Class({"addr", "pages", "words"}, {"lines"}, {}), {"return", "cleanup", "make", "get", "need"})
    BY <1>3, UptoFirst
  <2>9. Upto(T, 4, Class({"addr", "pages", "words"}, {"lines"}, {}), Class({"words"}, {"lines", "addr", "pages"}, {}), {"return", "cleanup", "make", "get", "need"})
    BY <2>8, <2>4, <2>5, <2>6, UptoStep
  <2>10. Upto(T, 5, Class({"addr", "pages", "words"}, {"lines"}, {}), Class({}, {"lines", "addr", "pages", "words"}, {}), {"return", "cleanup", "make", "get", "need"})
    BY <2>9, <2>7, UptoStep
  <2>11. 5 = Len(T) + 1 /\ Len(T) \in Nat
    BY ONLY <2>1
  <2> QED
    BY ONLY <2>10, <2>11, UptoEnd
<1>10. Nothing = Class({}, {}, {})
  BY DEF Nothing, Class
<1>11. ProgramFits
  <2>1. Between = Class({"addr", "pages", "words"}, {"lines"}, {}) /\ During = Class({"addr", "pages", "words"}, {"lines"}, {}) /\ Kept = {"addr", "pages", "words"} /\ Loose = {}
    BY <1>4 DEF Between, During, Kept, KeptBy, KeptWithOption, Nulled, Loose, Class
  <2>2. TextFits(P.zero, Nothing, {"return"}) /\ Ends(P.zero, Nothing) = Class({"pages", "addr", "words"}, {"lines"}, {})
    BY <1>2, <1>5, <1>10, <2>1
  <2>3. TextFits(P.nonzero, Between, {"return", "cleanup"}) /\ Ends(P.nonzero, Between) = Class({"addr", "pages", "words"}, {"lines"}, {})
    BY <1>2, <1>6, <2>1
  <2>4. TextFits(P.body, During, {"cleanup"}) /\ Ends(P.body, During) = Class({"addr", "pages", "words"}, {"lines"}, {})
    BY <1>2, <1>7, <2>1
  <2>5. TextFits(P.after, During, {"return", "cleanup"}) /\ Ends(P.after, During) = Class({"addr", "pages", "words"}, {"lines"}, {})
    BY <1>2, <1>8, <2>1
  <2>6. TextFits(P.end, Between, {"return", "cleanup", "make", "get"}) /\ Ends(P.end, Between) = Class({}, {"lines", "addr", "pages", "words"}, {})
    BY <1>2, <1>9, <2>1
  <2>7. Covers(Class({"addr", "pages", "words"}, {"lines"}, {}), Class({"pages", "addr", "words"}, {"lines"}, {})) /\ Covers(Class({"addr", "pages", "words"}, {"lines"}, {}), Class({"addr", "pages", "words"}, {"lines"}, {})) /\ Covers(Class({"addr", "pages", "words"}, {"lines"}, {}), Class({"addr", "pages", "words"}, {"lines"}, {}))
    BY ClassParts DEF Covers
  <2>8. {"clone", "dir"} \intersect (Ends(P.end, Between).held \union Ends(P.end, Between).loose) = {}
    BY <2>6, ClassParts
  <2>9. ~P.hasCleanup => {"clone", "dir"} \intersect (Kept \union Loose) = {}
    BY <1>2, <2>1
  <2> QED
    BY ONLY <2>1, <2>2, <2>3, <2>4, <2>5, <2>6, <2>7, <2>8, <2>9 DEF ProgramFits
<1> QED
  BY <1>11

\* dram_page.
LEMMA FitsDramPage ==
  ASSUME prog = "dram_page", opt \in BOOLEAN
  PROVE  ProgramFits
<1>1. P = dram_page_initialize
  BY DEF P, Program
<1>2. /\ P.zero = ((<<Null("words"), Null("lines"), Get("pages", "ignore"), Get("addr", "ignore")>> \o
            <<Need("addr", 3 + 1), Need("pages", 3)>>) \o <<Get("words", "ignore"), Get("lines",
            "ignore"), Use("addr")>>) \o <<Use("pages"), Use("addr")>>
      /\ P.nonzero = <<>>
      /\ P.body = <<Use("addr")>>
      /\ P.after = <<>>
      /\ P.end = <<FreeReset("addr"), FreeReset("lines"), FreeReset("pages"), FreeReset("words")>>
      /\ P.hasCleanup = TRUE
  BY <1>1 DEF dram_page_initialize, Idle, Base, Initialized, MemCleanup, StrideLaid, ThrashLaid
<1>3. {"addr", "lines", "pages", "words"} \subseteq Resources /\ Resources \subseteq Cells /\ {"clone", "dir"} \subseteq Cells
  BY DEF Resources, Cells
<1>4. Careless /\ ~IsTree
  BY DEF Careless, Unchecked, IsTree
\* initialize(0)
<1>5. ASSUME NEW T, T = ((<<Null("words"), Null("lines"), Get("pages", "ignore"), Get("addr",
          "ignore")>> \o <<Need("addr", 3 + 1), Need("pages", 3)>>) \o <<Get("words", "ignore"),
          Get("lines", "ignore"), Use("addr")>>) \o <<Use("pages"), Use("addr")>>
      PROVE  /\ TextFits(T, Class({}, {}, {}), {"return"})
             /\ Ends(T, Class({}, {}, {})) = Class({"pages", "addr", "words", "lines"}, {}, {})
  <2> DEFINE G(op, C, D) == Goes(op, C, Class({}, {}, {}), D, {"return"})
  <2>1. Len(T) = 11
    BY ONLY <1>5
  <2>2. /\ T[1] = Null("words")
        /\ T[2] = Null("lines")
        /\ T[3] = Get("pages", "ignore")
        /\ T[4] = Get("addr", "ignore")
        /\ T[5] = Need("addr", 4)
        /\ T[6] = Need("pages", 3)
        /\ T[7] = Get("words", "ignore")
        /\ T[8] = Get("lines", "ignore")
        /\ T[9] = Use("addr")
        /\ T[10] = Use("pages")
        /\ T[11] = Use("addr")
    BY ONLY <1>5
  <2>3. /\ {} \ {"words"} = {}
        /\ {} \union {"words"} = {"words"}
        /\ {} \ {"lines"} = {}
        /\ {"words"} \union {"lines"} = {"words", "lines"}
        /\ {} \union {"pages"} = {"pages"}
        /\ {"words", "lines"} \ {"pages"} = {"words", "lines"}
        /\ {} \ {"pages"} = {}
        /\ {"pages"} \union {"addr"} = {"pages", "addr"}
        /\ {"words", "lines"} \ {"addr"} = {"words", "lines"}
        /\ {} \ {"addr"} = {}
        /\ {"pages", "addr"} \union {"words"} = {"pages", "addr", "words"}
        /\ {"words", "lines"} \ {"words"} = {"lines"}
        /\ {"pages", "addr", "words"} \union {"lines"} = {"pages", "addr", "words", "lines"}
        /\ {"lines"} \ {"lines"} = {}
    OBVIOUS
  <2>4. G(T[1], Class({}, {}, {}), Class({}, {"words"}, {}))
    BY <1>3, <1>4, <2>2, <2>3, GoesNull
  <2>5. G(T[2], Class({}, {"words"}, {}), Class({}, {"words", "lines"}, {}))
    BY <1>3, <1>4, <2>2, <2>3, GoesNull
  <2>6. G(T[3], Class({}, {"words", "lines"}, {}), Class({"pages"}, {"words", "lines"}, {}))
    BY <1>3, <1>4, <2>2, <2>3, GoesGet
  <2>7. G(T[4], Class({"pages"}, {"words", "lines"}, {}), Class({"pages", "addr"}, {"words", "lines"}, {}))
    BY <1>3, <1>4, <2>2, <2>3, GoesGet
  <2>8. G(T[5], Class({"pages", "addr"}, {"words", "lines"}, {}), Class({"pages", "addr"}, {"words", "lines"}, {}))
    BY <1>3, <1>4, <2>2, GoesNeed
  <2>9. G(T[6], Class({"pages", "addr"}, {"words", "lines"}, {}), Class({"pages", "addr"}, {"words", "lines"}, {}))
    BY <1>3, <1>4, <2>2, GoesNeed
  <2>10. G(T[7], Class({"pages", "addr"}, {"words", "lines"}, {}), Class({"pages", "addr", "words"}, {"lines"}, {}))
    BY <1>3, <1>4, <2>2, <2>3, GoesGet
  <2>11. G(T[8], Class({"pages", "addr", "words"}, {"lines"}, {}), Class({"pages", "addr", "words", "lines"}, {}, {}))
    BY <1>3, <1>4, <2>2, <2>3, GoesGet
  <2>12. G(T[9], Class({"pages", "addr", "words", "lines"}, {}, {}), Class({"pages", "addr", "words", "lines"}, {}, {}))
    BY <1>3, <1>4, <2>2, GoesUse
  <2>13. G(T[10], Class({"pages", "addr", "words", "lines"}, {}, {}), Class({"pages", "addr", "words", "lines"}, {}, {}))
    BY <1>3, <1>4, <2>2, GoesUse
  <2>14. G(T[11], Class({"pages", "addr", "words", "lines"}, {}, {}), Class({"pages", "addr", "words", "lines"}, {}, {}))
    BY <1>3, <1>4, <2>2, GoesUse
  <2>15. Upto(T, 1, Class({}, {}, {}), Class({}, {}, {}), {"return"})
    BY <1>3, UptoFirst
  <2>16. Upto(T, 4, Class({}, {}, {}), Class({"pages"}, {"words", "lines"}, {}), {"return"})
    BY <2>15, <2>4, <2>5, <2>6, UptoStep
  <2>17. Upto(T, 5, Class({}, {}, {}), Class({"pages", "addr"}, {"words", "lines"}, {}), {"return"})
    BY <2>16, <2>7, UptoStep
  <2>18. Upto(T, 6, Class({}, {}, {}), Class({"pages", "addr"}, {"words", "lines"}, {}), {"return"})
    BY <2>17, <2>8, UptoStep
  <2>19. Upto(T, 9, Class({}, {}, {}), Class({"pages", "addr", "words", "lines"}, {}, {}), {"return"})
    BY <2>18, <2>9, <2>10, <2>11, UptoStep
  <2>20. Upto(T, 10, Class({}, {}, {}), Class({"pages", "addr", "words", "lines"}, {}, {}), {"return"})
    BY <2>19, <2>12, UptoStep
  <2>21. Upto(T, 12, Class({}, {}, {}), Class({"pages", "addr", "words", "lines"}, {}, {}), {"return"})
    BY <2>20, <2>13, <2>14, UptoStep
  <2>22. 12 = Len(T) + 1 /\ Len(T) \in Nat
    BY ONLY <2>1
  <2>23. T[1].what = "null" /\ T[2].what = "null" /\ T[3].what = "get" /\ T[4].what = "get" /\
        T[5].what = "need" /\ T[6].what = "need" /\ T[7].what = "get" /\ T[8].what = "get" /\
        T[9].what = "use" /\ T[10].what = "use" /\ T[11].what = "use"
    BY <2>2, OpParts
  <2>24. NeedFits(T, 5, At(T, 5, Class({}, {}, {})), Class({}, {}, {}))
    <3>1. HeldAt(T, 10, Class({}, {}, {})) = {"pages", "addr", "words", "lines"}
      BY <2>20, ClassParts DEF At, Upto
    <3>2. At(T, 5, Class({}, {}, {})) = Class({"pages", "addr"}, {"words", "lines"}, {})
      BY <2>17 DEF Upto
    <3>3. T[5].r = "addr" /\ T[5].how = 4
      BY <2>2, OpParts
    <3>4. T[7].r = "words" /\ T[7].how = "ignore"
      BY <2>2, OpParts
    <3>5. T[8].r = "lines" /\ T[8].how = "ignore"
      BY <2>2, OpParts
    <3>6. 5 + 4 = 9 /\ 5 + 4 + 1 = 10 /\ \A k \in 5+1..5+4 : k \in {6, 7, 8, 9}
      OBVIOUS
    <3> QED
      BY <1>4, <2>1, <2>23, <3>1, <3>2, <3>3, <3>4, <3>5, <3>6, ClassParts DEF NeedFits
  <2>25. NeedFits(T, 6, At(T, 6, Class({}, {}, {})), Class({}, {}, {}))
    <3>1. HeldAt(T, 10, Class({}, {}, {})) = {"pages", "addr", "words", "lines"}
      BY <2>20, ClassParts DEF At, Upto
    <3>2. At(T, 6, Class({}, {}, {})) = Class({"pages", "addr"}, {"words", "lines"}, {})
      BY <2>18 DEF Upto
    <3>3. T[6].r = "pages" /\ T[6].how = 3
      BY <2>2, OpParts
    <3>4. T[7].r = "words" /\ T[7].how = "ignore"
      BY <2>2, OpParts
    <3>5. T[8].r = "lines" /\ T[8].how = "ignore"
      BY <2>2, OpParts
    <3>6. 6 + 3 = 9 /\ 6 + 3 + 1 = 10 /\ \A k \in 6+1..6+3 : k \in {7, 8, 9}
      OBVIOUS
    <3> QED
      BY <1>4, <2>1, <2>23, <3>1, <3>2, <3>3, <3>4, <3>5, <3>6, ClassParts DEF NeedFits
  <2>26. \A k \in 1..Len(T) : T[k].what = "need" => k \in {5, 6}
    <3>1. \A k \in 1..Len(T) : k \in {1, 2, 3, 4, 5, 6, 7, 8, 9, 10, 11}
      BY <2>1
    <3> QED
      BY <2>23, <3>1
  <2> QED
    BY <2>21, <2>22, <2>24, <2>25, <2>26, UptoEndNeeds
\* initialize(n)
<1>6. ASSUME NEW T, T = <<>>
      PROVE  /\ TextFits(T, Class({"addr", "pages", "words", "lines"}, {}, {}), {"return",
               "cleanup"})
             /\ Ends(T, Class({"addr", "pages", "words", "lines"}, {}, {})) = Class({"addr", "pages", "words", "lines"}, {}, {})
  <2>1. {"addr", "pages", "words", "lines"} \subseteq Cells /\ {} \subseteq Cells
    BY <1>3
  <2> QED
    BY ONLY <1>6, <2>1, TextEmpty
\* benchmark(n)
<1>7. ASSUME NEW T, T = <<Use("addr")>>
      PROVE  /\ TextFits(T, Class({"addr", "pages", "words", "lines"}, {}, {}), {"cleanup"})
             /\ Ends(T, Class({"addr", "pages", "words", "lines"}, {}, {})) = Class({"addr", "pages", "words", "lines"}, {}, {})
  <2> DEFINE G(op, C, D) == Goes(op, C, Class({"addr", "pages", "words", "lines"}, {}, {}), D, {"cleanup", "need"})
  <2>1. Len(T) = 1
    BY ONLY <1>7
  <2>2. /\ T[1] = Use("addr")
    BY ONLY <1>7
  <2>3. G(T[1], Class({"addr", "pages", "words", "lines"}, {}, {}), Class({"addr", "pages", "words", "lines"}, {}, {}))
    BY <1>3, <1>4, <2>2, GoesUse
  <2>4. Upto(T, 1, Class({"addr", "pages", "words", "lines"}, {}, {}), Class({"addr", "pages", "words", "lines"}, {}, {}), {"cleanup", "need"})
    BY <1>3, UptoFirst
  <2>5. Upto(T, 2, Class({"addr", "pages", "words", "lines"}, {}, {}), Class({"addr", "pages", "words", "lines"}, {}, {}), {"cleanup", "need"})
    BY <2>4, <2>3, UptoStep
  <2>6. 2 = Len(T) + 1 /\ Len(T) \in Nat
    BY ONLY <2>1
  <2> QED
    BY ONLY <2>5, <2>6, UptoEnd
\* cleanup(n)
<1>8. ASSUME NEW T, T = <<>>
      PROVE  /\ TextFits(T, Class({"addr", "pages", "words", "lines"}, {}, {}), {"return",
               "cleanup"})
             /\ Ends(T, Class({"addr", "pages", "words", "lines"}, {}, {})) = Class({"addr", "pages", "words", "lines"}, {}, {})
  <2>1. {"addr", "pages", "words", "lines"} \subseteq Cells /\ {} \subseteq Cells
    BY <1>3
  <2> QED
    BY ONLY <1>8, <2>1, TextEmpty
\* cleanup(0)
<1>9. ASSUME NEW T, T = <<FreeReset("addr"), FreeReset("lines"), FreeReset("pages"),
          FreeReset("words")>>
      PROVE  /\ TextFits(T, Class({"addr", "pages", "words", "lines"}, {}, {}), {"return", "cleanup",
               "make", "get"})
             /\ Ends(T, Class({"addr", "pages", "words", "lines"}, {}, {})) = Class({}, {"addr", "lines", "pages", "words"}, {})
  <2> DEFINE G(op, C, D) == Goes(op, C, Class({"addr", "pages", "words", "lines"}, {}, {}), D, {"return", "cleanup", "make", "get", "need"})
  <2>1. Len(T) = 4
    BY ONLY <1>9
  <2>2. /\ T[1] = FreeReset("addr")
        /\ T[2] = FreeReset("lines")
        /\ T[3] = FreeReset("pages")
        /\ T[4] = FreeReset("words")
    BY ONLY <1>9
  <2>3. /\ {"addr", "pages", "words", "lines"} \ {"addr"} = {"pages", "words", "lines"}
        /\ {} \union {"addr"} = {"addr"}
        /\ {} \ {"addr"} = {}
        /\ {"pages", "words", "lines"} \ {"lines"} = {"pages", "words"}
        /\ {"addr"} \union {"lines"} = {"addr", "lines"}
        /\ {} \ {"lines"} = {}
        /\ {"pages", "words"} \ {"pages"} = {"words"}
        /\ {"addr", "lines"} \union {"pages"} = {"addr", "lines", "pages"}
        /\ {} \ {"pages"} = {}
        /\ {"words"} \ {"words"} = {}
        /\ {"addr", "lines", "pages"} \union {"words"} = {"addr", "lines", "pages", "words"}
        /\ {} \ {"words"} = {}
    OBVIOUS
  <2>4. G(T[1], Class({"addr", "pages", "words", "lines"}, {}, {}), Class({"pages", "words", "lines"}, {"addr"}, {}))
    BY <1>3, <1>4, <2>2, <2>3, GoesReset
  <2>5. G(T[2], Class({"pages", "words", "lines"}, {"addr"}, {}), Class({"pages", "words"}, {"addr", "lines"}, {}))
    BY <1>3, <1>4, <2>2, <2>3, GoesReset
  <2>6. G(T[3], Class({"pages", "words"}, {"addr", "lines"}, {}), Class({"words"}, {"addr", "lines", "pages"}, {}))
    BY <1>3, <1>4, <2>2, <2>3, GoesReset
  <2>7. G(T[4], Class({"words"}, {"addr", "lines", "pages"}, {}), Class({}, {"addr", "lines", "pages", "words"}, {}))
    BY <1>3, <1>4, <2>2, <2>3, GoesReset
  <2>8. Upto(T, 1, Class({"addr", "pages", "words", "lines"}, {}, {}), Class({"addr", "pages", "words", "lines"}, {}, {}), {"return", "cleanup", "make", "get", "need"})
    BY <1>3, UptoFirst
  <2>9. Upto(T, 4, Class({"addr", "pages", "words", "lines"}, {}, {}), Class({"words"}, {"addr", "lines", "pages"}, {}), {"return", "cleanup", "make", "get", "need"})
    BY <2>8, <2>4, <2>5, <2>6, UptoStep
  <2>10. Upto(T, 5, Class({"addr", "pages", "words", "lines"}, {}, {}), Class({}, {"addr", "lines", "pages", "words"}, {}), {"return", "cleanup", "make", "get", "need"})
    BY <2>9, <2>7, UptoStep
  <2>11. 5 = Len(T) + 1 /\ Len(T) \in Nat
    BY ONLY <2>1
  <2> QED
    BY ONLY <2>10, <2>11, UptoEnd
<1>10. Nothing = Class({}, {}, {})
  BY DEF Nothing, Class
<1>11. ProgramFits
  <2>1. Between = Class({"addr", "pages", "words", "lines"}, {}, {}) /\ During = Class({"addr", "pages", "words", "lines"}, {}, {}) /\ Kept = {"addr", "pages", "words", "lines"} /\ Loose = {}
    BY <1>4 DEF Between, During, Kept, KeptBy, KeptWithOption, Nulled, Loose, Class
  <2>2. TextFits(P.zero, Nothing, {"return"}) /\ Ends(P.zero, Nothing) = Class({"pages", "addr", "words", "lines"}, {}, {})
    BY <1>2, <1>5, <1>10, <2>1
  <2>3. TextFits(P.nonzero, Between, {"return", "cleanup"}) /\ Ends(P.nonzero, Between) = Class({"addr", "pages", "words", "lines"}, {}, {})
    BY <1>2, <1>6, <2>1
  <2>4. TextFits(P.body, During, {"cleanup"}) /\ Ends(P.body, During) = Class({"addr", "pages", "words", "lines"}, {}, {})
    BY <1>2, <1>7, <2>1
  <2>5. TextFits(P.after, During, {"return", "cleanup"}) /\ Ends(P.after, During) = Class({"addr", "pages", "words", "lines"}, {}, {})
    BY <1>2, <1>8, <2>1
  <2>6. TextFits(P.end, Between, {"return", "cleanup", "make", "get"}) /\ Ends(P.end, Between) = Class({}, {"addr", "lines", "pages", "words"}, {})
    BY <1>2, <1>9, <2>1
  <2>7. Covers(Class({"addr", "pages", "words", "lines"}, {}, {}), Class({"pages", "addr", "words", "lines"}, {}, {})) /\ Covers(Class({"addr", "pages", "words", "lines"}, {}, {}), Class({"addr", "pages", "words", "lines"}, {}, {})) /\ Covers(Class({"addr", "pages", "words", "lines"}, {}, {}), Class({"addr", "pages", "words", "lines"}, {}, {}))
    BY ClassParts DEF Covers
  <2>8. {"clone", "dir"} \intersect (Ends(P.end, Between).held \union Ends(P.end, Between).loose) = {}
    BY <2>6, ClassParts
  <2>9. ~P.hasCleanup => {"clone", "dir"} \intersect (Kept \union Loose) = {}
    BY <1>2, <2>1
  <2> QED
    BY ONLY <2>1, <2>2, <2>3, <2>4, <2>5, <2>6, <2>7, <2>8, <2>9 DEF ProgramFits
<1> QED
  BY <1>11

-----------------------------------------------------------------------------
(* The invariant, step by step                                             *)

\* Every program fits.
LEMMA FitsAll ==
  ASSUME prog \in Programs, opt \in BOOLEAN
  PROVE  ProgramFits
<1>1. prog \in DOMAIN Program
  BY ProgramsAssumption
<1>2. DOMAIN Program =
        {"lat_fs_mk", "lat_fs_rm", "lat_mmap", "lat_pagefault", "lat_pagefault_mmap",
         "bw_file_rd_open", "bw_file_rd_io", "bw_mmap_rd_open", "bw_mmap_rd_only",
         "bw_mem", "stream", "lat_ops", "par_ops", "lat_syscall", "lat_syscall_open",
         "lat_sig_prot", "lat_rpc", "lat_select", "lat_ctx_overhead", "stride", "thrash",
         "dram_page"}
  BY DEF Program
<1>3. CASE prog \in {"lat_fs_mk", "lat_fs_rm", "lat_mmap", "lat_pagefault", "lat_pagefault_mmap",
                     "bw_file_rd_open", "bw_file_rd_io"}
  BY <1>3, FitsLatFsMk, FitsLatFsRm, FitsLatMmap, FitsLatPagefault, FitsLatPagefaultMmap,
     FitsBwFileRdOpen, FitsBwFileRdIo
<1>4. CASE prog \in {"bw_mmap_rd_open", "bw_mmap_rd_only", "bw_mem", "stream", "lat_ops",
                     "par_ops", "lat_syscall"}
  BY <1>4, FitsBwMmapRdOpen, FitsBwMmapRdOnly, FitsBwMem, FitsStream, FitsLatOps, FitsParOps,
     FitsLatSyscall
<1>5. CASE prog \in {"lat_syscall_open", "lat_sig_prot", "lat_rpc", "lat_select",
                     "lat_ctx_overhead", "stride", "thrash", "dram_page"}
  BY <1>5, FitsLatSyscallOpen, FitsLatSigProt, FitsLatRpc, FitsLatSelect, FitsLatCtxOverhead,
     FitsStride, FitsThrash, FitsDramPage
<1> QED
  BY <1>1, <1>2, <1>3, <1>4, <1>5

\* Cells that are as a class says are as the classes that it covers say.
LEMMA CoversMatch ==
  ASSUME NEW X, NEW C, Covers(X, C), Match(C)
  PROVE  Match(X)
<1> SUFFICES ASSUME NEW r \in Cells
             PROVE  /\ r \in X.held => Cell(r) = "ok" \/ (Tolerant /\ Cell(r) = "null")
                    /\ r \in X.nulls => Cell(r) = "null"
                    /\ r \in X.loose => Cell(r) \in {"ok", "null"}
                    /\ r \notin X.held \union X.loose => Cell(r) # "ok"
  BY DEF Match
<1> QED
  BY DEF Covers, Match

\* The class before an operation only depends on the program and its option.
LEMMA AtSame ==
  ASSUME NEW T, NEW i, NEW E, prog' = prog, opt' = opt
  PROVE  At(T, i, E)' = At(T, i, E)
  BY DEF At, HeldAt, NullAt, LooseAt, Fresh, Last, Tested, Changes, Tests, Gets, Nulls, Loosens,
     Runs, Careless

\* What the cells match after a step.
LEMMA MatchAfter ==
  ASSUME NEW T, NEW i, NEW E, NEW C, prog' = prog, opt' = opt,
         T = Text', i = at', E = Entry', C = At(T, i, E), Match(C)'
  PROVE  Match(At(Text, at, Entry))'
<1>1. At(T, i, E)' = C
  BY AtSame
<1>2. At(Text, at, Entry)' = At(T, i, E)'
  OBVIOUS
<1> QED
  BY <1>1, <1>2 DEF Match


\* What an operation does to its cell, and what the cells then match.
LEMMA ChangeMatch ==
  ASSUME NEW op, NEW C, Match(C), Runs(op), op.r \in Cells,
         op.what \in {"get", "null", "drop", "make", "remove"},
         prog' = prog, faults \in Nat, faults' \in Nat, faults <= faults',
         \A x \in Cells : x # op.r => Cell(x)' = Cell(x),
         Gets(op) => Cell(op.r)' = "ok" \/ (Tolerant' /\ Cell(op.r)' = "null"),
         Nulls(op) => Cell(op.r)' = "null",
         Loosens(op) => Cell(op.r)' \in {"ok", "null"},
         ~Gets(op) /\ ~Loosens(op) => Cell(op.r)' # "ok",
         NEW D, D = After(op, C)
  PROVE  Match(D)'
<1>1. Changes(op, op.r) /\ op.r # "files"
  BY DEF Changes, Cells, Resources
<1>2. D = [held  |-> IF Gets(op) THEN C.held \union {op.r} ELSE C.held \ {op.r},
           nulls |-> IF Nulls(op) THEN C.nulls \union {op.r} ELSE C.nulls \ {op.r},
           loose |-> IF Loosens(op) THEN C.loose \union {op.r} ELSE C.loose \ {op.r}]
  BY <1>1 DEF After
<1>3. Tolerant => Tolerant'
  BY DEF Tolerant, Careless
<1> SUFFICES ASSUME NEW x \in Cells
             PROVE  /\ x \in D.held => Cell(x)' = "ok" \/ (Tolerant' /\ Cell(x)' = "null")
                    /\ x \in D.nulls => Cell(x)' = "null"
                    /\ x \in D.loose => Cell(x)' \in {"ok", "null"}
                    /\ x \notin D.held \union D.loose => Cell(x)' # "ok"
  BY DEF Match
<1>4. CASE x = op.r
  <2>1. /\ x \in D.held <=> Gets(op)
        /\ x \in D.nulls <=> Nulls(op)
        /\ x \in D.loose <=> Loosens(op)
    BY <1>2, <1>4
  <2> QED
    BY <1>4, <2>1
<1>5. CASE x # op.r
  <2>1. /\ x \in D.held <=> x \in C.held
        /\ x \in D.nulls <=> x \in C.nulls
        /\ x \in D.loose <=> x \in C.loose
    BY <1>2, <1>5
  <2>2. /\ x \in C.held => Cell(x) = "ok" \/ (Tolerant /\ Cell(x) = "null")
        /\ x \in C.nulls => Cell(x) = "null"
        /\ x \in C.loose => Cell(x) \in {"ok", "null"}
        /\ x \notin C.held \union C.loose => Cell(x) # "ok"
    BY DEF Match
  <2>3. Cell(x)' = Cell(x)
    BY <1>5
  <2> QED
    BY <1>3, <2>1, <2>2, <2>3
<1> QED
  BY <1>4, <1>5

\* What the cells match when none of them changes.
LEMMA SameMatch ==
  ASSUME NEW C, Match(C), prog' = prog, faults \in Nat, faults' \in Nat, faults <= faults',
         \A x \in Cells : Cell(x)' = Cell(x)
  PROVE  Match(C)'
<1>3. Tolerant => Tolerant'
  BY DEF Tolerant, Careless
<1> SUFFICES ASSUME NEW x \in Cells
             PROVE  /\ x \in C.held => Cell(x)' = "ok" \/ (Tolerant' /\ Cell(x)' = "null")
                    /\ x \in C.nulls => Cell(x)' = "null"
                    /\ x \in C.loose => Cell(x)' \in {"ok", "null"}
                    /\ x \notin C.held \union C.loose => Cell(x)' # "ok"
  BY DEF Match
<1>4. Cell(x)' = Cell(x)
  OBVIOUS
<1> QED
  BY <1>3, <1>4 DEF Match

\* What the cells match when one that is neither held, nor NULL, nor either becomes NULL.
LEMMA FailedMatch ==
  ASSUME NEW C, Match(C), prog' = prog, faults \in Nat, faults' \in Nat, faults <= faults',
         NEW r, r \notin C.held \union C.nulls \union C.loose, Cell(r)' = "null",
         \A x \in Cells : x # r => Cell(x)' = Cell(x)
  PROVE  Match(C)'
<1>3. Tolerant => Tolerant'
  BY DEF Tolerant, Careless
<1> SUFFICES ASSUME NEW x \in Cells
             PROVE  /\ x \in C.held => Cell(x)' = "ok" \/ (Tolerant' /\ Cell(x)' = "null")
                    /\ x \in C.nulls => Cell(x)' = "null"
                    /\ x \in C.loose => Cell(x)' \in {"ok", "null"}
                    /\ x \notin C.held \union C.loose => Cell(x)' # "ok"
  BY DEF Match
<1>4. x # r => Cell(x)' = Cell(x)
  OBVIOUS
<1> QED
  BY <1>3, <1>4 DEF Match

\* What a variable or a file becomes, cell by cell.
LEMMA CellSteps ==
  ASSUME LifeTypes, NEW r
  PROVE  /\ \A v : r \in Resources /\ val' = [val EXCEPT ![r] = v] /\ disk' = disk =>
              Cell(r) = val[r] /\ Cell(r)' = v /\ \A x \in Cells : x # r => Cell(x)' = Cell(x)
         /\ \A v : r \in OnDisk /\ disk' = [disk EXCEPT ![r] = v] /\ val' = val =>
              /\ Cell(r) = IF disk[r] = 0 THEN "gone" ELSE "ok"
              /\ Cell(r)' = IF v = 0 THEN "gone" ELSE "ok"
              /\ \A x \in Cells : x # r => Cell(x)' = Cell(x)
         /\ disk' = disk /\ val' = val => \A x \in Cells : Cell(x)' = Cell(x)
<1>0. /\ val \in [Resources -> {"unset", "null", "ok", "gone"}] /\ disk \in [OnDisk -> Nat]
      /\ \A x \in Cells : x \in Resources \/ (x \notin Resources /\ x \in OnDisk)
      /\ \A x \in OnDisk : x \notin Resources
  BY DEF LifeTypes, Cells, OnDisk, Resources
<1>1. ASSUME r \in Resources, NEW v, val' = [val EXCEPT ![r] = v], disk' = disk
      PROVE  Cell(r) = val[r] /\ Cell(r)' = v /\ \A x \in Cells : x # r => Cell(x)' = Cell(x)
  BY <1>0, <1>1 DEF Cell
<1>2. ASSUME r \in OnDisk, NEW v, disk' = [disk EXCEPT ![r] = v], val' = val
      PROVE  /\ Cell(r) = IF disk[r] = 0 THEN "gone" ELSE "ok"
             /\ Cell(r)' = IF v = 0 THEN "gone" ELSE "ok"
             /\ \A x \in Cells : x # r => Cell(x)' = Cell(x)
  BY <1>0, <1>2 DEF Cell
<1>3. ASSUME disk' = disk, val' = val
      PROVE  \A x \in Cells : Cell(x)' = Cell(x)
  BY <1>3 DEF Cell
<1> QED
  BY <1>1, <1>2, <1>3


(* An operation that has been done, and the program goes on.               *)
Does(op) ==
  \/ ~Runs(op) /\ UNCHANGED <<val, disk, faults>>
  \/ /\ Runs(op) /\ op.what = "get" /\ UNCHANGED disk
     /\ \/ val' = [val EXCEPT ![op.r] = "ok"] /\ UNCHANGED faults
        \/ op.how = "ignore" /\ val' = [val EXCEPT ![op.r] = "null"] /\ faults' = faults + 1
  \/ /\ Runs(op) /\ op.what = "make" /\ UNCHANGED val
     /\ \/ disk' = [disk EXCEPT ![op.r] = @ + 1] /\ UNCHANGED faults
        \/ op.how # "exit" /\ faults' = faults + 1 /\ UNCHANGED disk
  \/ /\ Runs(op) /\ op.what = "remove" /\ UNCHANGED <<val, faults>>
     /\ disk' = [disk EXCEPT ![op.r] = IF @ = 0 \/ (op.r = "dir" /\ disk["files"] > 0)
                                      THEN @ ELSE @ - 1]
  \/ /\ Runs(op) /\ op.what = "drop" /\ UNCHANGED <<disk, faults>>
     /\ val' = [val EXCEPT ![op.r] =
                  CASE op.how = "reset" -> "null"
                    [] op.how # "reset" /\ @ = "null" -> "null"
                    [] OTHER -> "gone"]
  \/ /\ Runs(op) /\ op.what = "null" /\ UNCHANGED <<disk, faults>>
     /\ val' = [val EXCEPT ![op.r] = "null"]
  \/ Runs(op) /\ op.what = "use" /\ UNCHANGED <<val, disk, faults>>
  \/ Runs(op) /\ op.what \in {"need", "must"} /\ val[op.r] # "null" /\ UNCHANGED <<val, disk, faults>>
  \/ Runs(op) /\ op.what = "check" /\ UNCHANGED <<val, disk, faults>>

\* What may follow an operation.
LEMMA DoOpCases ==
  ASSUME DoOp, OpFits(Now)
  PROVE  /\ at <= Len(Text)
         /\ prog' = prog /\ opt' = opt /\ arg' = arg /\ state' = state /\ iters' = iters
         /\ batch' = batch
         /\ \/ Does(Now) /\ On
            \/ /\ Runs(Now) /\ Now.what = "need" /\ val[Now.r] = "null" /\ Skips(Now.how)
               /\ UNCHANGED <<val, disk, faults>>
            \/ /\ Exits /\ UNCHANGED <<val, disk>> /\ faults' \in {faults, faults + 1}
            \/ /\ Runs(Now) /\ Now.what = "get" /\ Now.how = "cleanup" /\ Calls("give up")
               /\ UNCHANGED <<val, disk>> /\ faults' = faults + 1
            \/ /\ Runs(Now) /\ Now.what \in {"get", "check"} /\ Now.how = "return" /\ Returned
               /\ faults' = faults + 1 /\ UNCHANGED disk
               /\ \/ Now.what = "get" /\ val' = [val EXCEPT ![Now.r] = "null"]
                  \/ Now.what = "check" /\ UNCHANGED val
<1>1. Acts <=> Runs(Now)
  BY DEF DoOp, Acts, Runs, Busy
<1>2. CASE ~Acts
  BY <1>1, <1>2 DEF DoOp, Does, Busy, harness
<1>3. CASE Acts
  <2>0. /\ at <= Len(Text)
        /\ prog' = prog /\ opt' = opt /\ arg' = arg /\ state' = state /\ iters' = iters
        /\ batch' = batch
    BY DEF DoOp, harness, Busy
  <2>1. CASE DoGet
    BY <1>1, <1>3, <2>0, <2>1 DEF DoGet, Does, Fault
  <2>2. CASE DoMake
    BY <1>1, <1>3, <2>0, <2>2 DEF DoMake, Does, Fault
  <2>3. CASE DoRemove
    BY <1>1, <1>3, <2>0, <2>3 DEF DoRemove, Does, Fault
  <2>4. CASE DoDrop
    BY <1>1, <1>3, <2>0, <2>4 DEF DoDrop, Does, Fault
  <2>5. CASE DoOther
    BY <1>1, <1>3, <2>0, <2>5 DEF DoOther, Does, Fault, OpFits
  <2> QED
    BY <1>3, <2>1, <2>2, <2>3, <2>4, <2>5 DEF DoOp
<1> QED
  BY <1>2, <1>3

\* An operation that has been done keeps the types of what it changes.
LEMMA DoesTypes ==
  ASSUME LifeTypes, NEW op, OpFits(op), Does(op),
         Runs(op) /\ op.what = "make" /\ op.r # "files" => disk[op.r] = 0
  PROVE  /\ val' \in [Resources -> {"unset", "null", "ok", "gone"}]
         /\ disk' \in [OnDisk -> Nat] /\ disk'["clone"] \in 0..1 /\ disk'["dir"] \in 0..1
         /\ faults' \in Nat /\ faults <= faults'
<1>0. /\ val \in [Resources -> {"unset", "null", "ok", "gone"}]
      /\ disk \in [OnDisk -> Nat] /\ disk["clone"] \in 0..1 /\ disk["dir"] \in 0..1
      /\ faults \in Nat
  BY DEF LifeTypes
<1>1. faults' \in Nat /\ faults <= faults'
  BY <1>0 DEF Does
<1>2. CASE UNCHANGED disk
  BY <1>0, <1>1, <1>2 DEF Does
<1>3. CASE UNCHANGED val /\ op.r \in OnDisk
  <2>1. OnDisk = {"clone", "dir", "files"} /\ {"clone", "dir"} \subseteq Cells
        /\ "clone" \notin Resources /\ "dir" \notin Resources
    BY DEF OnDisk, Cells, Resources
  <2>3. CASE Runs(op) /\ op.what = "make" /\ disk' = [disk EXCEPT ![op.r] = @ + 1]
    <3>1. CASE op.r = "files"
      BY <1>0, <1>1, <1>3, <2>1, <2>3, <3>1
    <3>2. CASE op.r # "files"
      <4>0. disk[op.r] + 1 = 1
        BY <2>3, <3>2
      <4>1. disk' = [disk EXCEPT ![op.r] = 1]
        BY <2>3, <4>0
      <4> QED
        BY <1>0, <1>1, <1>3, <2>1, <3>2, <4>1
    <3> QED
      BY <3>1, <3>2
  <2>4. CASE disk' = [disk EXCEPT ![op.r] = IF @ = 0 \/ (op.r = "dir" /\ disk["files"] > 0)
                                            THEN @ ELSE @ - 1]
    <3>1. PICK v : /\ disk' = [disk EXCEPT ![op.r] = v]
                   /\ v = disk[op.r] \/ (disk[op.r] # 0 /\ v = disk[op.r] - 1)
      BY <2>4
    <3> QED
      BY <1>0, <1>1, <1>3, <2>1, <3>1
  <2> QED
    BY <1>2, <2>3, <2>4 DEF Does
<1>4. UNCHANGED disk \/ (UNCHANGED val /\ op.r \in OnDisk)
  BY DEF Does, OpFits
<1> QED
  BY <1>2, <1>3, <1>4


\* What the cells match after an operation that has been done.
LEMMA DoesMatch ==
  ASSUME LifeTypes, NEW op, OpFits(op), Does(op), NEW C, Match(C), NEW E,
         Runs(op) => ActFits(op, C, E), prog' = prog, opt' = opt,
         op.what = "remove" /\ op.r = "dir" => disk["files"] = 0,
         NEW D, D = After(op, C)
  PROVE  Match(D)'
<1>0. /\ val \in [Resources -> {"unset", "null", "ok", "gone"}]
      /\ disk \in [OnDisk -> Nat] /\ disk["clone"] \in 0..1 /\ disk["dir"] \in 0..1
      /\ faults \in Nat /\ opt \in BOOLEAN
  BY DEF LifeTypes
<1>1. faults' \in Nat /\ faults <= faults'
  BY <1>0 DEF Does
<1>2. /\ Resources \subseteq Cells /\ Cells \subseteq Resources \union OnDisk
      /\ OnDisk = {"clone", "dir", "files"} /\ "files" \notin Cells
      /\ {"clone", "dir"} \subseteq Cells
  BY DEF Cells, Resources, OnDisk
<1>3. CASE /\ UNCHANGED <<val, disk>>
           /\ ~Runs(op) \/ op.what \in {"use", "need", "check"} \/ op.r = "files"
  <2>1. (\A x \in Cells : ~Changes(op, x)) /\ (~Tests(op, op.r) \/ op.what = "must")
    BY <1>2, <1>3 DEF Changes, Tests
  <2>2. op.what # "must" \/ ~Runs(op)
    BY <1>2, <1>3 DEF OpFits
  <2>3. (\A x \in Cells : ~Changes(op, x)) /\ ~Tests(op, op.r)
    BY <2>1, <2>2 DEF Changes, Tests
  <2>4. D = C
    BY <2>3 DEF After
  <2>5. \A x \in Cells : Cell(x)' = Cell(x)
    BY <1>3 DEF Cell
  <2> QED
    BY <1>0, <1>1, <2>4, <2>5, SameMatch
<1>4. CASE Runs(op) /\ op.what = "get"
  <2>0. op.r \in Resources /\ op.r \in Cells
    BY <1>2, <1>4 DEF OpFits
  <2>1. PICK v : val' = [val EXCEPT ![op.r] = v] /\ disk' = disk
                 /\ (v = "ok" \/ (v = "null" /\ op.how = "ignore" /\ faults' = faults + 1))
    BY <1>4 DEF Does
  <2>2. Cell(op.r)' = v /\ \A x \in Cells : x # op.r => Cell(x)' = Cell(x)
    BY <2>0, <2>1, CellSteps
  <2>3. ~Nulls(op) /\ (Gets(op) \/ Loosens(op))
    BY <1>4 DEF Gets, Nulls, Loosens
  <2>4. Gets(op) => v = "ok" \/ (Tolerant' /\ v = "null")
    BY <1>0, <1>4, <2>1 DEF Gets, Tolerant, Careless
  <2> QED
    BY <1>0, <1>1, <1>4, <2>0, <2>1, <2>2, <2>3, <2>4, ChangeMatch
<1>5. CASE Runs(op) /\ op.what = "drop"
  <2>0. op.r \in Resources /\ op.r \in Cells
    BY <1>2, <1>5 DEF OpFits
  <2>1. PICK v : val' = [val EXCEPT ![op.r] = v] /\ disk' = disk
                 /\ (IF op.how = "reset" THEN v = "null" ELSE v \in {"null", "gone"})
    BY <1>5 DEF Does
  <2>2. Cell(op.r)' = v /\ \A x \in Cells : x # op.r => Cell(x)' = Cell(x)
    BY <2>0, <2>1, CellSteps
  <2>3. ~Gets(op) /\ ~Loosens(op) /\ (Nulls(op) => op.how = "reset")
    BY <1>5 DEF Gets, Nulls, Loosens
  <2> QED
    BY <1>0, <1>1, <1>5, <2>0, <2>1, <2>2, <2>3, ChangeMatch
<1>6. CASE Runs(op) /\ op.what = "null"
  <2>0. op.r \in Resources /\ op.r \in Cells
    BY <1>2, <1>6 DEF OpFits
  <2>1. val' = [val EXCEPT ![op.r] = "null"] /\ disk' = disk
    BY <1>6 DEF Does
  <2>2. Cell(op.r)' = "null" /\ \A x \in Cells : x # op.r => Cell(x)' = Cell(x)
    BY <2>0, <2>1, CellSteps
  <2>3. ~Gets(op) /\ ~Loosens(op)
    BY <1>6 DEF Gets, Loosens
  <2> QED
    BY <1>0, <1>1, <1>6, <2>0, <2>1, <2>2, <2>3, ChangeMatch
<1>7. CASE Runs(op) /\ op.what = "make" /\ op.r # "files"
  <2>0. op.r \in OnDisk /\ op.r \in Cells /\ op.how = "exit" /\ disk[op.r] \in Nat
    BY <1>0, <1>2, <1>7 DEF OpFits
  <2>1. val' = val /\ disk' = [disk EXCEPT ![op.r] = @ + 1]
    BY <1>7, <2>0 DEF Does
  <2> DEFINE v == disk[op.r] + 1
  <2>2. val' = val /\ disk' = [disk EXCEPT ![op.r] = v] /\ v # 0
    BY <2>0, <2>1
  <2> HIDE DEF v
  <2>3. Cell(op.r)' = "ok" /\ \A x \in Cells : x # op.r => Cell(x)' = Cell(x)
    BY <2>0, <2>2, CellSteps
  <2>4. Gets(op) /\ ~Loosens(op) /\ ~Nulls(op)
    BY <1>7 DEF Gets, Loosens, Nulls
  <2> QED
    BY <1>0, <1>1, <1>7, <2>0, <2>1, <2>3, <2>4, ChangeMatch
<1>8. CASE Runs(op) /\ op.what = "remove" /\ op.r # "files"
  <2>0. op.r \in OnDisk /\ op.r \in Cells /\ disk[op.r] \in 0..1
    BY <1>0, <1>2, <1>8 DEF OpFits
  <2>1. val' = val /\ disk' = [disk EXCEPT ![op.r] = IF @ = 0 \/ (op.r = "dir" /\ disk["files"] > 0)
                                                     THEN @ ELSE @ - 1]
    BY <1>8, <2>0 DEF Does
  <2>2. (IF disk[op.r] = 0 \/ (op.r = "dir" /\ disk["files"] > 0)
         THEN disk[op.r] ELSE disk[op.r] - 1) = 0
    BY <1>8, <2>0
  <2>3. val' = val /\ disk' = [disk EXCEPT ![op.r] = 0]
    BY <2>1, <2>2
  <2>4. Cell(op.r)' = "gone" /\ \A x \in Cells : x # op.r => Cell(x)' = Cell(x)
    BY <2>0, <2>3, CellSteps
  <2>5. ~Gets(op) /\ ~Loosens(op) /\ ~Nulls(op)
    BY <1>8 DEF Gets, Loosens, Nulls
  <2> QED
    BY <1>0, <1>1, <1>8, <2>0, <2>1, <2>4, <2>5, ChangeMatch
<1>9. CASE Runs(op) /\ op.what \in {"make", "remove"} /\ op.r = "files"
  <2>1. val' = val /\ \A x \in Cells : x \in OnDisk => disk'[x] = disk[x]
    BY <1>0, <1>2, <1>9 DEF Does
  <2>2. \A x \in Cells : Cell(x)' = Cell(x)
    BY <1>2, <2>1 DEF Cell
  <2>3. (\A x \in Cells : ~Changes(op, x)) /\ ~Tests(op, op.r)
    BY <1>2, <1>9 DEF Changes, Tests
  <2>4. D = C
    BY <2>3 DEF After
  <2> QED
    BY <1>0, <1>1, <2>2, <2>4, SameMatch
<1>10. CASE Runs(op) /\ op.what = "must"
  <2>0. op.r \in Resources /\ op.r \in Cells /\ Tests(op, op.r) /\ \A x \in Cells : ~Changes(op, x)
    BY <1>2, <1>10 DEF OpFits, Tests, Changes
  <2>1. UNCHANGED <<val, disk, faults>> /\ val[op.r] # "null"
    BY <1>10 DEF Does
  <2>2. \A x \in Cells : Cell(x)' = Cell(x)
    BY <2>1 DEF Cell
  <2>3. Match(C)'
    BY <1>0, <1>1, <2>2, SameMatch
  <2>4. CASE op.r \notin C.loose
    BY <2>0, <2>3, <2>4 DEF After
  <2>5. CASE op.r \in C.loose
    <3>1. Cell(op.r) = "ok"
      BY <2>0, <2>1, <2>5 DEF Match, Cell
    <3>2. D = [held |-> C.held \union {op.r}, nulls |-> C.nulls, loose |-> C.loose \ {op.r}]
      BY <2>0, <2>5 DEF After
    <3>3. Cell(op.r)' = "ok"
      BY <2>0, <2>2, <3>1
    <3> SUFFICES ASSUME NEW x \in Cells
                 PROVE  /\ x \in D.held => Cell(x)' = "ok" \/ (Tolerant' /\ Cell(x)' = "null")
                        /\ x \in D.nulls => Cell(x)' = "null"
                        /\ x \in D.loose => Cell(x)' \in {"ok", "null"}
                        /\ x \notin D.held \union D.loose => Cell(x)' # "ok"
      BY DEF Match
    <3>4. /\ x \in C.held => Cell(x)' = "ok" \/ (Tolerant' /\ Cell(x)' = "null")
          /\ x \in C.nulls => Cell(x)' = "null"
          /\ x \in C.loose => Cell(x)' \in {"ok", "null"}
          /\ x \notin C.held \union C.loose => Cell(x)' # "ok"
      BY <2>3 DEF Match
    <3> QED
      BY <3>2, <3>3, <3>4
  <2> QED
    BY <2>4, <2>5
<1> QED
  BY <1>3, <1>4, <1>5, <1>6, <1>7, <1>8, <1>9, <1>10 DEF OpFits, Does


-----------------------------------------------------------------------------
(* The texts of the calls                                                  *)

(* What may not happen in the call in progress.                            *)
Barred ==
  IF pc = "first" THEN {"return"}
  ELSE IF pc = "body" THEN {"cleanup"}
  ELSE IF pc \in {"init", "clean"} THEN {"return", "cleanup"}
  ELSE {"return", "cleanup", "make", "get"}

Reads == pc \in {"first", "init", "body", "clean", "report", "last", "give up"}

\* The call in progress fits.
LEMMA FitsHere ==
  ASSUME prog \in Programs, opt \in BOOLEAN, Reads
  PROVE  TextFits(Text, Entry, Barred)
  BY FitsAll DEF Reads, Text, Entry, Barred, ProgramFits

\* The other calls have no operations, and every text has a length.
LEMMA TextHere ==
  ASSUME prog \in Programs, opt \in BOOLEAN
  PROVE  /\ ~Reads => Text = <<>> /\ Len(Text) = 0
         /\ Len(Text) \in Nat
<1>1. ~Reads => Text = <<>> /\ Len(Text) = 0
  BY DEF Reads, Text
<1>2. Reads => Len(Text) \in Nat
  BY FitsHere DEF TextFits
<1> QED
  BY <1>1, <1>2

\* What a program keeps is among the cells.
LEMMA KeptInCells ==
  ASSUME prog \in Programs
  PROVE  Kept \subseteq Cells /\ Nulled \subseteq Cells /\ Loose \subseteq Cells
<1>1. prog \in DOMAIN KeptBy
  <2>1. prog \in DOMAIN Program
    BY ProgramsAssumption
  <2> QED
    BY <2>1 DEF Program, KeptBy
<1>2. \A x \in DOMAIN KeptBy : KeptBy[x] \subseteq Cells
  BY DEF KeptBy, Cells, Resources
<1>3. KeptWithOption \subseteq Cells
  BY DEF KeptWithOption, Cells, Resources
<1>4. Nulled \subseteq Cells
  BY <1>3 DEF Nulled, Cells, Resources
<1>5. Loose \subseteq Cells
  BY DEF Loose, Cells, Resources
<1> QED
  BY <1>1, <1>2, <1>3, <1>4, <1>5 DEF Kept

\* The class before the first operation of a call.
LEMMA EntryFirst ==
  ASSUME prog \in Programs, NEW T
  PROVE  /\ At(T, 1, Nothing) = Nothing
         /\ At(T, 1, Between) = Between
         /\ At(T, 1, During) = During
<1>1. At(T, 1, Nothing) = Nothing
  BY AtFirst DEF Nothing
<1>2. At(T, 1, Between) = Between
  BY KeptInCells, AtFirst DEF Between
<1>3. {"names", "dirs", "dir"} \subseteq Cells
  BY DEF Cells, Resources
<1>4. PICK h : h = (IF IsTree THEN {"names", "dirs", "dir"} ELSE Kept) /\ h \subseteq Cells
  BY <1>3, KeptInCells
<1>5. During = [held |-> h, nulls |-> Nulled, loose |-> Loose]
  BY <1>4 DEF During
<1>6. At(T, 1, During) = During
  BY <1>4, <1>5, KeptInCells, AtFirst
<1> QED
  BY <1>1, <1>2, <1>6


\* What the cells match when operations are skipped.
LEMMA SkipMatch ==
  ASSUME LifeTypes, NEW T, NEW i \in Nat \ {0}, NEW E, OpFits(T[i]), T[i].what = "need",
         NeedFits(T, i, At(T, i, E), E), Match(At(T, i, E)), val[T[i].r] = "null"
  PROVE  Tolerant /\ T[i].how \in Nat /\ i + T[i].how <= Len(T)
         /\ Match(At(T, i + T[i].how + 1, E))
<1> DEFINE k == T[i].how
           m == i + k + 1
<1>1. /\ Careless /\ k \in Nat /\ i + k <= Len(T) /\ T[i].r \in HeldAt(T, i, E)
      /\ \A j \in i+1..i+k :
           /\ T[j].what \in {"use", "need", "get"}
           /\ T[j].what = "get" =>
                /\ T[j].how = "ignore" /\ T[j].r \in HeldAt(T, i, E) \union NullAt(T, i, E)
                /\ T[j].r \in HeldAt(T, m, E)
  BY DEF NeedFits, At
<1>2. T[i].r \in Resources /\ T[i].r \in Cells
  BY DEF OpFits, Cells
<1>3. Tolerant
  <2>1. Cell(T[i].r) = "null"
    BY <1>2 DEF Cell
  <2> QED
    BY <1>1, <1>2, <2>1 DEF Match, At
<1> HIDE DEF k
<1>4. /\ \A j : j \in 1..m-1 <=> j \in 1..i-1 \/ j \in i..i+k
      /\ \A j \in 0..i-1 : \A x : x \in j+1..m-1 <=> x \in j+1..i-1 \/ x \in i..i+k
      /\ \A j \in i..i+k : \A x : x \in j+1..m-1 => x \in i..i+k
      /\ \A j \in 1..i-1 : j \in 0..i-1
      /\ 0 \in 0..i-1
      /\ \A j \in i..i+k : j = i \/ j \in i+1..i+k
  BY <1>1
<1>5. \A j \in i..i+k : \A r : /\ ~Tests(T[j], r) /\ ~Nulls(T[j]) /\ ~Loosens(T[j])
                              /\ (Changes(T[j], r) => T[j].r = r /\ j \in i+1..i+k /\ T[j].what = "get")
  BY <1>1, <1>4 DEF Tests, Nulls, Loosens, Gets, Changes
<1> SUFFICES ASSUME NEW r \in Cells
             PROVE  /\ r \in HeldAt(T, m, E) => Cell(r) = "ok" \/ (Tolerant /\ Cell(r) = "null")
                    /\ r \in NullAt(T, m, E) => Cell(r) = "null"
                    /\ r \in LooseAt(T, m, E) => Cell(r) \in {"ok", "null"}
                    /\ r \notin HeldAt(T, m, E) \union LooseAt(T, m, E) => Cell(r) # "ok"
  <2>1. Match(At(T, m, E))
    BY DEF Match, At
  <2> QED
    BY <1>1, <1>3, <2>1 DEF k
<1>6. /\ r \in HeldAt(T, i, E) => Cell(r) = "ok" \/ (Tolerant /\ Cell(r) = "null")
      /\ r \in NullAt(T, i, E) => Cell(r) = "null"
      /\ r \in LooseAt(T, i, E) => Cell(r) \in {"ok", "null"}
      /\ r \notin HeldAt(T, i, E) \union LooseAt(T, i, E) => Cell(r) # "ok"
  BY DEF Match, At
<1>7. CASE \E j \in i..i+k : Changes(T[j], r)
  <2>1. PICK j \in i..i+k : Changes(T[j], r)
    BY <1>7
  <2>2. r \in HeldAt(T, m, E) /\ r \in HeldAt(T, i, E) \union NullAt(T, i, E)
    BY <1>1, <1>5, <2>1, ZenonT(60)
  <2>3. ~Fresh(T, m, r)
    BY <1>4, <2>1 DEF Fresh
  <2>4. ASSUME NEW x, Last(T, m, x, r)
        PROVE  x \in i..i+k
    BY <1>4, <2>1, <2>4 DEF Last
  <2>5. r \notin NullAt(T, m, E) /\ r \notin LooseAt(T, m, E)
    BY <1>5, <2>3, <2>4 DEF NullAt, LooseAt
  <2> QED
    BY <1>3, <1>6, <2>2, <2>5
<1>8. CASE \A j \in i..i+k : ~Changes(T[j], r)
  <2>1. Fresh(T, m, r) <=> Fresh(T, i, r)
    BY <1>4, <1>8 DEF Fresh
  <2>2. \A j \in 1..m-1 : Last(T, m, j, r) <=> j \in 1..i-1 /\ Last(T, i, j, r)
    BY <1>4, <1>8 DEF Last
  <2>3. \A j \in 0..i-1 : Tested(T, m, j, r) <=> Tested(T, i, j, r)
    BY <1>4, <1>5 DEF Tested
  <2>4. \A j \in 1..i-1 : j \in 1..m-1
    BY <1>4
  <2>5. r \in HeldAt(T, m, E) <=> r \in HeldAt(T, i, E)
    BY <1>4, <2>1, <2>2, <2>3, <2>4 DEF HeldAt
  <2>6. r \in NullAt(T, m, E) <=> r \in NullAt(T, i, E)
    BY <1>4, <2>1, <2>2, <2>3, <2>4 DEF NullAt
  <2>7. r \in LooseAt(T, m, E) <=> r \in LooseAt(T, i, E)
    BY <1>4, <2>1, <2>2, <2>3, <2>4 DEF LooseAt
  <2> QED
    BY <1>6, <2>5, <2>6, <2>7
<1> QED
  BY <1>7, <1>8


-----------------------------------------------------------------------------
(* The operations keep the types and the classes                           *)

\* What is known of the operation in progress.
LEMMA OpHere ==
  ASSUME LifeTypes, Busy
  PROVE  /\ Reads /\ Len(Text) \in Nat /\ at \in Nat \ {0} /\ at \in 1..Len(Text)
         /\ OpFits(Now) /\ Allowed(Now, Barred)
         /\ Runs(Now) => ActFits(Now, At(Text, at, Entry), Entry)
         /\ Now.what = "need" => NeedFits(Text, at, At(Text, at, Entry), Entry)
<1>1. prog \in Programs /\ opt \in BOOLEAN /\ at \in 1..Len(Text)+1 /\ at <= Len(Text)
  BY DEF LifeTypes, Busy
<1>2. Len(Text) \in Nat /\ Reads
  BY <1>1, TextHere
<1>3. TextFits(Text, Entry, Barred)
  BY <1>1, <1>2, FitsHere
<1>4. at \in Nat \ {0} /\ at \in 1..Len(Text)
  BY <1>1, <1>2
<1> QED
  BY <1>2, <1>3, <1>4 DEF TextFits, FitsAt, Now

\* A call to come begins with its first operation.
LEMMA CallTypes ==
  ASSUME LifeTypes, NEW to, Calls(to), prog' = prog, opt' = opt
  PROVE  at' \in 1..Len(Text')+1 /\ turn' \in Nat \ {0} /\ turn' = 1 /\ at' = 1
<1>1. prog' \in Programs /\ opt' \in BOOLEAN
  BY DEF LifeTypes
<1>2. Len(Text') \in Nat
  <2>1. ProgramFits
    BY FitsAll DEF LifeTypes
  <2>2. /\ Len(P.zero) \in Nat /\ Len(P.nonzero) \in Nat /\ Len(P.body) \in Nat
        /\ Len(P.after) \in Nat /\ Len(P.end) \in Nat /\ Len(<<>>) \in Nat
    BY <2>1 DEF ProgramFits, TextFits
  <2>3. P' = P
    BY DEF P
  <2>4. Text' \in {P.zero, P.nonzero, P.body, P.after, P.end, <<>>}
    BY <2>3 DEF Text
  <2> QED
    BY <2>2, <2>4
<1> QED
  BY <1>2 DEF Calls

\* An operation keeps the types, if no directory is removed with files in it.
LEMMA OpKeepsTypes ==
  ASSUME LifeTypes, CellsInv, DoOp, pc = "body" => turn <= arg
  PROVE  LifeTypes'
<1>1. Busy
  BY DEF DoOp
<1>2. /\ Reads /\ Len(Text) \in Nat /\ at \in Nat \ {0} /\ at \in 1..Len(Text)
      /\ OpFits(Now) /\ Allowed(Now, Barred)
      /\ Runs(Now) => ActFits(Now, At(Text, at, Entry), Entry)
      /\ Now.what = "need" => NeedFits(Text, at, At(Text, at, Entry), Entry)
  BY <1>1, OpHere
<1>3. /\ prog' = prog /\ opt' = opt /\ arg' = arg /\ state' = state /\ iters' = iters
      /\ batch' = batch
  BY <1>2, DoOpCases
<1>4. /\ prog \in Programs /\ opt \in BOOLEAN
      /\ pc \in {"first", "decide", "init", "body", "clean", "report", "wait", "last", "give up",
                 "told", "reported", "dead", "failed"}
      /\ turn \in Nat \ {0} /\ arg \in Nat
      /\ state \in {"warmup", "timing", "cooldown"}
      /\ iters \in Nat \ {0} /\ batch \in Nat \ {0}
      /\ val \in [Resources -> {"unset", "null", "ok", "gone"}]
      /\ disk \in [OnDisk -> Nat] /\ disk["clone"] \in 0..1 /\ disk["dir"] \in 0..1
      /\ faults \in Nat
  BY DEF LifeTypes
<1>5. /\ prog' \in Programs /\ opt' \in BOOLEAN /\ arg' \in Nat
      /\ state' \in {"warmup", "timing", "cooldown"}
      /\ iters' \in Nat \ {0} /\ batch' \in Nat \ {0}
  BY <1>3, <1>4
<1>6. pc' = pc => Text' = Text
  BY <1>3 DEF Text, P
<1>12. faults + 1 \in Nat /\ turn + 1 \in Nat \ {0} /\ turn \in Nat \ {0}
  <2>1. faults \in Nat /\ turn \in Nat \ {0}
    BY DEF LifeTypes
  <2> QED
    BY ONLY <2>1
<1>7. CASE Does(Now) /\ On
  <2>1. Runs(Now) /\ Now.what = "make" /\ Now.r # "files" => disk[Now.r] = 0
    <3>1. SUFFICES ASSUME Runs(Now), Now.what = "make", Now.r # "files"
                   PROVE  disk[Now.r] = 0
      OBVIOUS
    <3>2. PICK C : C = At(Text, at, Entry)
      OBVIOUS
    <3>3. Now.r \notin C.held \union C.loose /\ Now.r \in OnDisk
      BY <1>2, <3>1, <3>2 DEF ActFits, OpFits
    <3>4. Now.r \in Cells /\ Now.r \notin Resources
      BY <3>1, <3>3 DEF OnDisk, Cells, Resources
    <3>5. pc # "give up"
      BY <1>2, <3>1 DEF Allowed, Barred
    <3>6. Match(C)
      BY <1>2, <3>2, <3>5 DEF CellsInv, Reads
    <3> QED
      BY <3>3, <3>4, <3>6 DEF Match, Cell
  <2>2. PICK op : op = Now
    OBVIOUS
  <2>3. /\ val' \in [Resources -> {"unset", "null", "ok", "gone"}]
        /\ disk' \in [OnDisk -> Nat] /\ disk'["clone"] \in 0..1 /\ disk'["dir"] \in 0..1
        /\ faults' \in Nat
    BY <1>2, <1>7, <2>1, <2>2, DoesTypes
  <2>4. pc' = pc /\ at' \in 1..Len(Text)+1 /\ turn' \in Nat \ {0}
    <3>1. at + 1 \in 1..Len(Text)+1 /\ at \in 1..Len(Text)+1
      <4>1. Len(Text) \in Nat /\ at \in 1..Len(Text)
        BY <1>2
      <4> QED
        BY ONLY <4>1
    <3>2. pc' = pc /\ at' \in {at, at + 1} /\ turn' \in {turn, 1, turn + 1}
      BY <1>7 DEF On
    <3> QED
      BY ONLY <1>12, <3>1, <3>2
  <2> QED
    BY <1>4, <1>5, <1>6, <2>3, <2>4 DEF LifeTypes
<1>8. CASE /\ Runs(Now) /\ Now.what = "need" /\ val[Now.r] = "null" /\ Skips(Now.how)
           /\ UNCHANGED <<val, disk, faults>>
  <2>1. pc' = pc /\ at' \in 1..Len(Text)+1 /\ turn' = turn
    BY <1>2, <1>8 DEF Skips, NeedFits, Now
  <2> QED
    BY <1>4, <1>5, <1>6, <1>8, <2>1 DEF LifeTypes
<1>9. CASE Exits /\ UNCHANGED <<val, disk>> /\ faults' \in {faults, faults + 1}
  <2>1. at' \in 1..Len(Text')+1 /\ turn' \in Nat \ {0} /\ pc' = "failed"
    BY <1>3, <1>9, CallTypes DEF Exits, Calls
  <2> QED
    BY <1>4, <1>5, <1>9, <1>12, <2>1 DEF LifeTypes
<1>10. CASE Calls("give up") /\ UNCHANGED <<val, disk>> /\ faults' = faults + 1
  <2>1. at' \in 1..Len(Text')+1 /\ turn' \in Nat \ {0} /\ pc' = "give up"
    BY <1>3, <1>10, CallTypes DEF Calls
  <2> QED
    BY <1>4, <1>5, <1>10, <1>12, <2>1 DEF LifeTypes
<1>11. CASE /\ Runs(Now) /\ Now.what \in {"get", "check"} /\ Now.how = "return" /\ Returned
            /\ faults' = faults + 1 /\ UNCHANGED disk
            /\ \/ Now.what = "get" /\ val' = [val EXCEPT ![Now.r] = "null"]
               \/ Now.what = "check" /\ UNCHANGED val
  <2>1. pc = "body"
    BY <1>2, <1>11 DEF Allowed, Barred, Reads
  <2>2. pc' = pc /\ at' \in 1..Len(Text)+1 /\ turn' = arg /\ arg \in Nat \ {0}
    BY <1>2, <1>4, <1>11, <2>1 DEF Returned
  <2>3. val' \in [Resources -> {"unset", "null", "ok", "gone"}]
    BY <1>4, <1>11
  <2> QED
    BY <1>4, <1>5, <1>6, <1>11, <1>12, <2>2, <2>3 DEF LifeTypes
<1> QED
  BY <1>2, <1>7, <1>8, <1>9, <1>10, <1>11, DoOpCases


\* The class before the next operation, or before this one again.
LEMMA OnMatch ==
  ASSUME LifeTypes, Busy, On, prog' = prog, opt' = opt,
         NEW C, C = At(Text, at, Entry), NEW D, D = After(Now, C), Match(D)'
  PROVE  Match(At(Text, at, Entry))'
<1>1. /\ Len(Text) \in Nat /\ at \in Nat \ {0} /\ at \in 1..Len(Text) /\ OpFits(Now)
  BY OpHere
<1>2. pc' = pc /\ Text' = Text /\ Entry' = Entry
  <2>1. pc' = pc
    BY DEF On
  <2>2. Kept' = Kept /\ Nulled' = Nulled /\ Loose' = Loose /\ IsTree' = IsTree
    BY DEF Kept, KeptWithOption, Nulled, Loose, IsTree
  <2> QED
    BY <2>1, <2>2 DEF Text, P, Entry, Between, During, Nothing
<1>3. PICK T, i, E : T = Text /\ i = at /\ E = Entry
  OBVIOUS
<1>4. Now = T[i] /\ i \in Nat \ {0}
  BY <1>1, <1>3 DEF Now
<1>5. CASE at' = at /\ Now.times = "each"
  <2>1. Now.what \in {"make", "remove"} /\ Now.r = "files"
    BY <1>1, <1>5 DEF OpFits
  <2>2. (\A x \in Cells : ~Changes(Now, x)) /\ ~Tests(Now, Now.r)
    BY <2>1 DEF Changes, Tests, Cells, Resources
  <2>3. D = C
    BY <2>2 DEF After
  <2> QED
    BY <1>2, <1>3, <1>5, <2>3, MatchAfter
<1>6. CASE at' = at + 1
  <2>1. At(T, i + 1, E) = D
    BY <1>1, <1>3, <1>4, AtStep
  <2>2. PICK j : j = i + 1
    OBVIOUS
  <2> QED
    BY <1>2, <1>3, <1>6, <2>1, <2>2, MatchAfter
<1> QED
  BY <1>5, <1>6 DEF On, Repeats

\* An operation keeps the cells as the classes say.
LEMMA OpKeepsCells ==
  ASSUME LifeTypes, CellsInv, DoOp, LifeTypes',
         Now.what = "remove" /\ Now.r = "dir" => disk["files"] = 0
  PROVE  CellsInv'
<1>1. Busy
  BY DEF DoOp
<1>2. /\ Reads /\ Len(Text) \in Nat /\ at \in Nat \ {0} /\ at \in 1..Len(Text)
      /\ OpFits(Now) /\ Allowed(Now, Barred)
      /\ Runs(Now) => ActFits(Now, At(Text, at, Entry), Entry)
      /\ Now.what = "need" => NeedFits(Text, at, At(Text, at, Entry), Entry)
  BY <1>1, OpHere
<1>3. prog' = prog /\ opt' = opt
  BY <1>2, DoOpCases
<1>4. /\ faults \in Nat /\ faults' \in Nat /\ prog \in Programs /\ opt \in BOOLEAN
      /\ val \in [Resources -> {"unset", "null", "ok", "gone"}] /\ disk \in [OnDisk -> Nat]
  BY DEF LifeTypes
<1>5. pc' = pc => Text' = Text /\ Entry' = Entry
  <2>2. Kept' = Kept /\ Nulled' = Nulled /\ Loose' = Loose /\ IsTree' = IsTree
    BY <1>3 DEF Kept, KeptWithOption, Nulled, Loose, IsTree
  <2> QED
    BY <1>3, <2>2 DEF Text, P, Entry, Between, During, Nothing
<1>6. PICK T, i, E, op, C : T = Text /\ i = at /\ E = Entry /\ op = Now /\ C = At(T, i, E)
  OBVIOUS
<1>7. op = T[i] /\ i \in Nat \ {0} /\ OpFits(op) /\ (Runs(op) => ActFits(op, C, E))
      /\ (op.what = "need" => NeedFits(T, i, C, E))
  BY <1>2, <1>6 DEF Now
<1>8. IsTree' = IsTree /\ Careless' = Careless
  BY <1>3 DEF IsTree, Careless
<1>9. CASE pc # "give up"
  <2>1. Match(C)
    BY <1>2, <1>6, <1>9 DEF CellsInv, Reads
  <2>2. ASSUME Match(At(Text, at, Entry))', pc' = pc
        PROVE  CellsInv'
    <3>1. pc \notin {"decide", "wait", "reported", "dead", "give up"}
      BY <1>2, <1>9 DEF Reads
    <3> QED
      BY <2>2, <3>1 DEF CellsInv
  <2>3. CASE Does(Now) /\ On
    <3>1. PICK D : D = After(op, C)
      OBVIOUS
    <3>2. Does(op) /\ (op.what = "remove" /\ op.r = "dir" => disk["files"] = 0)
      BY <1>6, <2>3
    <3>3. Match(D)'
      BY <1>3, <1>7, <2>1, <3>1, <3>2, DoesMatch
    <3>4. Match(At(Text, at, Entry))'
      BY <1>1, <1>3, <1>6, <2>3, <3>1, <3>3, OnMatch
    <3> QED
      BY <2>2, <2>3, <3>4 DEF On
  <2>4. CASE /\ Runs(Now) /\ Now.what = "need" /\ val[Now.r] = "null" /\ Skips(Now.how)
             /\ UNCHANGED <<val, disk, faults>>
    <3>1. val[op.r] = "null"
      BY <1>6, <2>4
    <3>2. /\ op.how \in Nat /\ i + op.how <= Len(T) /\ Match(At(T, i + op.how + 1, E))
      BY <1>6, <1>7, <2>1, <2>4, <3>1, SkipMatch
    <3>3. PICK j : j = i + op.how + 1
      OBVIOUS
    <3>4. PICK D : D = At(T, j, E)
      OBVIOUS
    <3>5. Match(D)'
      <4>1. \A x \in Cells : Cell(x)' = Cell(x)
        BY <2>4 DEF Cell
      <4>2. Match(D) /\ faults <= faults'
        BY <1>4, <2>4, <3>2, <3>3, <3>4
      <4> QED
        BY <1>3, <1>4, <4>1, <4>2, SameMatch
    <3>6. pc' = pc /\ at' = j
      BY <1>6, <2>4, <3>3 DEF Skips
    <3>7. Match(At(Text, at, Entry))'
      BY <1>3, <1>5, <1>6, <3>4, <3>5, <3>6, MatchAfter
    <3> QED
      BY <2>2, <3>6, <3>7
  <2>5. CASE Exits
    BY <2>5 DEF Exits, Calls, CellsInv
  <2>6. CASE /\ Runs(Now) /\ Now.what = "get" /\ Now.how = "cleanup" /\ Calls("give up")
             /\ UNCHANGED <<val, disk>> /\ faults' = faults + 1
    <3>1. Careless /\ ~IsTree /\ {"clone", "dir"} \intersect (C.held \union C.loose) = {}
      BY <1>6, <1>7, <2>6 DEF ActFits
    <3>2. disk["clone"] = 0 /\ disk["dir"] = 0
      <4>1. "clone" \in Cells /\ "dir" \in Cells /\ "clone" \notin Resources /\ "dir" \notin Resources
        BY DEF Cells, Resources
      <4> QED
        BY <2>1, <3>1, <4>1 DEF Match, Cell
    <3>3. faults' > 0
      <4>1. faults \in Nat /\ faults' = faults + 1
        BY <1>4, <2>6
      <4> QED
        BY ONLY <4>1
    <3> QED
      BY <1>8, <2>6, <3>1, <3>2, <3>3 DEF CellsInv, Calls, Tolerant
  <2>7. CASE /\ Runs(Now) /\ Now.what \in {"get", "check"} /\ Now.how = "return" /\ Returned
             /\ faults' = faults + 1 /\ UNCHANGED disk
             /\ \/ Now.what = "get" /\ val' = [val EXCEPT ![Now.r] = "null"]
                \/ Now.what = "check" /\ UNCHANGED val
    <3>1. pc = "body" /\ pc' = pc /\ at' = Len(Text) + 1
      BY <1>2, <2>7 DEF Allowed, Barred, Reads, Returned
    <3>2. C = E /\ (op.what = "get" => op.r \notin C.held \union C.nulls \union C.loose)
      BY <1>6, <1>7, <2>7 DEF ActFits
    <3>3. Text = P.body /\ Entry = During
      BY <3>1 DEF Text, Entry
    <3>4. At(T, Len(T) + 1, E) = C
      BY <1>4, <1>6, <3>2, <3>3, FitsAll DEF ProgramFits, Ends
    <3>5. faults <= faults'
      BY <1>4, <2>7
    <3>6. Match(C)'
      <4>1. CASE Now.what = "get" /\ val' = [val EXCEPT ![Now.r] = "null"]
        <5>1. op.r \in Resources
          BY <1>6, <1>7, <4>1 DEF OpFits
        <5>2. Cell(op.r)' = "null" /\ \A x \in Cells : x # op.r => Cell(x)' = Cell(x)
          BY <1>6, <2>7, <4>1, <5>1, CellSteps
        <5> QED
          BY <1>3, <1>4, <1>6, <2>1, <3>2, <3>5, <4>1, <5>2, FailedMatch
      <4>2. CASE UNCHANGED val
        <5>1. \A x \in Cells : Cell(x)' = Cell(x)
          BY <2>7, <4>2 DEF Cell
        <5> QED
          BY <1>3, <1>4, <2>1, <3>5, <5>1, SameMatch
      <4> QED
        BY <2>7, <4>1, <4>2
    <3>7. PICK j : j = Len(T) + 1
      OBVIOUS
    <3>8. Match(At(Text, at, Entry))'
      BY <1>3, <1>5, <1>6, <3>1, <3>4, <3>6, <3>7, MatchAfter
    <3> QED
      BY <2>2, <3>1, <3>8
  <2> QED
    BY <1>2, <2>3, <2>4, <2>5, <2>6, <2>7, DoOpCases
<1>10. CASE pc = "give up"
  <2>1. /\ disk["clone"] = 0 /\ disk["dir"] = 0 /\ ~IsTree /\ Tolerant
        /\ Allowed(Now, {"return", "cleanup", "make", "get"})
    BY <1>2, <1>10 DEF CellsInv, Barred
  <2>2. "clone" \in OnDisk /\ "dir" \in OnDisk
    BY DEF OnDisk
  <2>3. ASSUME disk'["clone"] = 0, disk'["dir"] = 0, faults <= faults', pc' = pc
        PROVE  CellsInv'
    <3>1. Tolerant'
      BY <1>4, <1>8, <2>1, <2>3 DEF Tolerant
    <3> QED
      BY <1>8, <1>10, <2>1, <2>3, <3>1 DEF CellsInv
  <2>4. CASE Does(Now) /\ On
    <3>1. PICK v : disk' = disk \/ (disk' = [disk EXCEPT ![op.r] = v] /\ (disk[op.r] = 0 => v = 0))
      BY <1>6, <2>1, <2>4 DEF Does, Allowed
    <3>2. disk'["clone"] = 0 /\ disk'["dir"] = 0
      BY <1>4, <2>1, <2>2, <3>1
    <3>3. faults <= faults'
      BY <1>4, <2>4 DEF Does
    <3> QED
      BY <2>3, <2>4, <3>2, <3>3 DEF On
  <2>5. CASE Skips(Now.how) /\ UNCHANGED <<val, disk, faults>>
    BY <1>4, <2>1, <2>3, <2>5 DEF Skips
  <2>6. CASE Exits
    BY <2>6 DEF Exits, Calls, CellsInv
  <2> QED
    BY <1>2, <2>1, <2>4, <2>5, <2>6, DoOpCases DEF Allowed
<1> QED
  BY <1>9, <1>10


-----------------------------------------------------------------------------
(* The files of lat_fs                                                     *)

(* Neither skipping others nor ending its function early.                  *)
Plain(op) == op.what # "need" /\ (op.what \in {"get", "check"} => op.how # "return")

\* The operations that are so.
LEMMA PlainOps ==
  /\ \A r : /\ Plain(Get(r, "ignore")) /\ Plain(Use(r)) /\ Plain(Free(r))
            /\ Plain(MakeOrExit(r)) /\ Plain(Unlink(r))
  /\ Plain(Make("files")) /\ Plain(Each(Make("files"))) /\ Plain(Each(Unlink("files")))
<1>1. \A r : /\ Plain(Get(r, "ignore")) /\ Plain(Use(r)) /\ Plain(MakeOrExit(r)) /\ Plain(Unlink(r))
  BY OpParts DEF Plain
<1>2. \A r : Plain(Free(r))
  BY DEF Plain, Free, Op
<1>3. Plain(Make("files")) /\ Plain(Each(Make("files"))) /\ Plain(Each(Unlink("files")))
  BY FilesParts DEF Plain
<1> QED
  BY <1>1, <1>2, <1>3

\* Which operations of its functions are about the files.
LEMMA MkTexts ==
  ASSUME prog = "lat_fs_mk"
  PROVE  /\ P.zero = <<>> /\ P.end = <<>>
         /\ Len(P.nonzero) = 5 /\ \A i \in 1..5 : P.nonzero[i].r # "files"
         /\ Len(P.body) = 2 /\ P.body[1] = Use("names") /\ P.body[2] = Make("files")
         /\ Len(P.after) = 6 /\ P.after[1] = Each(Unlink("files"))
         /\ \A i \in 2..6 : P.after[i].r # "files"
         /\ \A T \in {P.nonzero, P.body, P.after} : \A i \in 1..Len(T) : Plain(T[i])
<1>1. P = lat_fs_mk
  BY DEF P, Program
<1>2. /\ P.zero = <<>> /\ P.end = <<>>
      /\ P.nonzero = <<Get("names", "ignore"), Get("dirs", "ignore"), MakeOrExit("dir"), Use("dirs"),
            Use("names")>>
      /\ P.body = <<Use("names"), Make("files")>>
      /\ P.after = <<Each(Unlink("files"))>> \o <<Use("names"), Free("names"), Use("dirs"),
            Unlink("dir"), Free("dirs")>>
  BY <1>1 DEF lat_fs_mk, Idle, SetupNames, CleanupNames, CreateFile
<1>3. ASSUME NEW T, T = <<Get("names", "ignore"), Get("dirs", "ignore"), MakeOrExit("dir"), Use("dirs"),
                         Use("names")>>
      PROVE  /\ Len(T) = 5
             /\ \A i \in 1..5 : T[i].r # "files"
             /\ \A i \in 1..Len(T) : Plain(T[i])
  <2>1. /\ T[1] = Get("names", "ignore") /\ T[2] = Get("dirs", "ignore") /\ T[3] = MakeOrExit("dir")
        /\ T[4] = Use("dirs") /\ T[5] = Use("names") /\ Len(T) = 5
    BY ONLY <1>3
  <2>2. \A i \in 1..5 : i \in {1, 2, 3, 4, 5}
    OBVIOUS
  <2>3. /\ T[1].r = "names" /\ T[2].r = "dirs" /\ T[3].r = "dir" /\ T[4].r = "dirs"
        /\ T[5].r = "names"
    BY <2>1, OpParts
  <2>4. \A i \in 1..Len(T) : Plain(T[i])
    <3>1. \A i \in 1..5 : i \in {1, 2, 3, 4, 5}
      OBVIOUS
    <3>2. Plain(T[1]) /\ Plain(T[2]) /\ Plain(T[3]) /\ Plain(T[4]) /\ Plain(T[5])
      BY <2>1, PlainOps
    <3> QED
      BY <2>1, <3>1, <3>2
  <2> QED
    BY <2>1, <2>2, <2>3, <2>4
<1>4. ASSUME NEW T, T = <<Use("names"), Make("files")>>
      PROVE  /\ Len(T) = 2 /\ T[1] = Use("names") /\ T[2] = Make("files")
             /\ \A i \in 1..Len(T) : Plain(T[i])
  <2>1. Len(T) = 2 /\ T[1] = Use("names") /\ T[2] = Make("files")
    BY ONLY <1>4
  <2>2. \A i \in 1..2 : i \in {1, 2}
    OBVIOUS
  <2> QED
    BY <2>1, <2>2, PlainOps
<1>5. ASSUME NEW T, T = <<Each(Unlink("files"))>> \o <<Use("names"), Free("names"), Use("dirs"),
                          Unlink("dir"), Free("dirs")>>
      PROVE  /\ Len(T) = 6 /\ T[1] = Each(Unlink("files"))
             /\ \A i \in 2..6 : T[i].r # "files"
             /\ \A i \in 1..Len(T) : Plain(T[i])
  <2>1. /\ T[1] = Each(Unlink("files")) /\ T[2] = Use("names") /\ T[3] = Free("names")
        /\ T[4] = Use("dirs") /\ T[5] = Unlink("dir") /\ T[6] = Free("dirs") /\ Len(T) = 6
    BY ONLY <1>5
  <2>2. \A i \in 2..6 : i \in {2, 3, 4, 5, 6}
    OBVIOUS
  <2>3. /\ T[2].r = "names" /\ T[3].r = "names" /\ T[4].r = "dirs" /\ T[5].r = "dir"
        /\ T[6].r = "dirs"
    BY <2>1, OpParts
  <2>4. \A i \in 1..Len(T) : Plain(T[i])
    <3>1. \A i \in 1..6 : i \in {1, 2, 3, 4, 5, 6}
      OBVIOUS
    <3>2. Plain(T[1]) /\ Plain(T[2]) /\ Plain(T[3]) /\ Plain(T[4]) /\ Plain(T[5]) /\ Plain(T[6])
      BY <2>1, PlainOps
    <3> QED
      BY <2>1, <3>1, <3>2
  <2> QED
    BY <2>1, <2>2, <2>3, <2>4
<1> QED
  BY <1>2, <1>3, <1>4, <1>5

\* Likewise of its other form.
LEMMA RmTexts ==
  ASSUME prog = "lat_fs_rm"
  PROVE  /\ P.zero = <<>> /\ P.end = <<>>
         /\ Len(P.nonzero) = 6 /\ P.nonzero[6] = Each(Make("files"))
         /\ \A i \in 1..5 : P.nonzero[i].r # "files"
         /\ Len(P.body) = 2 /\ P.body[1] = Use("names") /\ P.body[2] = Unlink("files")
         /\ Len(P.after) = 5 /\ \A i \in 1..5 : P.after[i].r # "files"
         /\ \A T \in {P.nonzero, P.body, P.after} : \A i \in 1..Len(T) : Plain(T[i])
<1>1. P = lat_fs_rm
  BY DEF P, Program
<1>2. /\ P.zero = <<>> /\ P.end = <<>>
      /\ P.nonzero = <<Get("names", "ignore"), Get("dirs", "ignore"), MakeOrExit("dir"), Use("dirs"),
            Use("names")>> \o <<Each(Make("files"))>>
      /\ P.body = <<Use("names"), Unlink("files")>>
      /\ P.after = <<Use("names"), Free("names"), Use("dirs"), Unlink("dir"), Free("dirs")>>
  BY <1>1 DEF lat_fs_rm, Idle, SetupNames, CleanupNames, UnlinkFile
<1>3. ASSUME NEW T, T = <<Get("names", "ignore"), Get("dirs", "ignore"), MakeOrExit("dir"), Use("dirs"),
                         Use("names")>> \o <<Each(Make("files"))>>
      PROVE  /\ Len(T) = 6 /\ T[6] = Each(Make("files"))
             /\ \A i \in 1..5 : T[i].r # "files"
             /\ \A i \in 1..Len(T) : Plain(T[i])
  <2>1. /\ T[1] = Get("names", "ignore") /\ T[2] = Get("dirs", "ignore") /\ T[3] = MakeOrExit("dir")
        /\ T[4] = Use("dirs") /\ T[5] = Use("names") /\ T[6] = Each(Make("files")) /\ Len(T) = 6
    BY ONLY <1>3
  <2>2. \A i \in 1..5 : i \in {1, 2, 3, 4, 5}
    OBVIOUS
  <2>3. /\ T[1].r = "names" /\ T[2].r = "dirs" /\ T[3].r = "dir" /\ T[4].r = "dirs"
        /\ T[5].r = "names"
    BY <2>1, OpParts
  <2>4. \A i \in 1..Len(T) : Plain(T[i])
    <3>1. \A i \in 1..6 : i \in {1, 2, 3, 4, 5, 6}
      OBVIOUS
    <3>2. Plain(T[1]) /\ Plain(T[2]) /\ Plain(T[3]) /\ Plain(T[4]) /\ Plain(T[5]) /\ Plain(T[6])
      BY <2>1, PlainOps
    <3> QED
      BY <2>1, <3>1, <3>2
  <2> QED
    BY <2>1, <2>2, <2>3, <2>4
<1>4. ASSUME NEW T, T = <<Use("names"), Unlink("files")>>
      PROVE  /\ Len(T) = 2 /\ T[1] = Use("names") /\ T[2] = Unlink("files")
             /\ \A i \in 1..Len(T) : Plain(T[i])
  <2>1. Len(T) = 2 /\ T[1] = Use("names") /\ T[2] = Unlink("files")
    BY ONLY <1>4
  <2>2. \A i \in 1..2 : i \in {1, 2}
    OBVIOUS
  <2> QED
    BY <2>1, <2>2, PlainOps
<1>5. ASSUME NEW T, T = <<Use("names"), Free("names"), Use("dirs"), Unlink("dir"), Free("dirs")>>
      PROVE  /\ Len(T) = 5
             /\ \A i \in 1..5 : T[i].r # "files"
             /\ \A i \in 1..Len(T) : Plain(T[i])
  <2>1. /\ T[1] = Use("names") /\ T[2] = Free("names")
        /\ T[3] = Use("dirs") /\ T[4] = Unlink("dir") /\ T[5] = Free("dirs") /\ Len(T) = 5
    BY ONLY <1>5
  <2>2. \A i \in 1..5 : i \in {1, 2, 3, 4, 5}
    OBVIOUS
  <2>3. /\ T[1].r = "names" /\ T[2].r = "names" /\ T[3].r = "dirs" /\ T[4].r = "dir"
        /\ T[5].r = "dirs"
    BY <2>1, OpParts
  <2>4. \A i \in 1..Len(T) : Plain(T[i])
    <3>1. \A i \in 1..5 : i \in {1, 2, 3, 4, 5}
      OBVIOUS
    <3>2. Plain(T[1]) /\ Plain(T[2]) /\ Plain(T[3]) /\ Plain(T[4]) /\ Plain(T[5])
      BY <2>1, PlainOps
    <3> QED
      BY <2>1, <3>1, <3>2
  <2> QED
    BY <2>1, <2>2, <2>3, <2>4
<1> QED
  BY <1>2, <1>3, <1>4, <1>5

\* The removal of one file.
LEMMA UnlinkParts ==
  /\ Unlink("files").what = "remove" /\ Unlink("files").r = "files"
  /\ Unlink("files").times = "once" /\ Unlink("files").when = "always"
  BY DEF Unlink, Op

\* No directory is removed with files in it.
LEMMA DirIsEmpty ==
  ASSUME LifeTypes, FilesInv, Busy, Now.what = "remove", Now.r = "dir"
  PROVE  disk["files"] = 0
<1>1. Reads /\ IsTree /\ at \in 1..Len(Text) /\ disk["files"] \in Nat
  BY OpHere DEF OpFits, LifeTypes, OnDisk
<1>2. pc \notin {"told", "failed", "dead"}
  BY <1>1 DEF Reads
<1>3. MostFiles = 0
  <2>1. CASE prog = "lat_fs_mk"
    <3>1. pc # "body"
      <4>1. ASSUME pc = "body"
            PROVE  FALSE
        <5>1. Text = P.body /\ Len(P.body) = 2 /\ P.body[1] = Use("names") /\ P.body[2] = Make("files")
          BY <2>1, <4>1, MkTexts DEF Text
        <5>2. at = 1 \/ at = 2
          BY <1>1, <5>1
        <5> QED
          BY <5>1, <5>2, OpParts, FilesParts DEF Now
      <4> QED
        BY <4>1
    <3>2. ASSUME pc = "clean"
          PROVE  at # 1
      <4>1. Text = P.after /\ P.after[1] = Each(Unlink("files"))
        BY <2>1, <3>2, MkTexts DEF Text
      <4> QED
        BY <4>1, FilesParts DEF Now
    <3> QED
      BY <2>1, <3>1, <3>2 DEF MostFiles
  <2>2. CASE prog = "lat_fs_rm"
    <3>1. pc # "body"
      <4>1. ASSUME pc = "body"
            PROVE  FALSE
        <5>1. Text = P.body /\ Len(P.body) = 2 /\ P.body[1] = Use("names") /\ P.body[2] = Unlink("files")
          BY <2>2, <4>1, RmTexts DEF Text
        <5>2. at = 1 \/ at = 2
          BY <1>1, <5>1
        <5> QED
          BY <5>1, <5>2, OpParts, FilesParts DEF Now
      <4> QED
        BY <4>1
    <3>2. ASSUME pc = "init"
          PROVE  at # 6
      <4>1. Text = P.nonzero /\ P.nonzero[6] = Each(Make("files"))
        BY <2>2, <3>2, RmTexts DEF Text
      <4> QED
        BY <4>1, FilesParts DEF Now
    <3>3. ("lat_fs_rm" = "lat_fs_mk") = FALSE
      OBVIOUS
    <3> QED
      BY <2>2, <3>1, <3>2, <3>3 DEF MostFiles
  <2> QED
    BY <1>1, <2>1, <2>2 DEF IsTree
<1>4. disk["files"] <= MostFiles
  BY <1>2 DEF FilesInv
<1> QED
  BY <1>1, <1>3, <1>4


\* How an operation changes the number of files.
LEMMA FilesSteps ==
  ASSUME LifeTypes, NEW op, OpFits(op), Does(op)
  PROVE  /\ op.r # "files" => disk'["files"] = disk["files"]
         /\ op.what = "make" => disk'["files"] <= disk["files"] + 1
         /\ op.what = "remove" /\ op.r = "files" /\ Runs(op) =>
              disk'["files"] = IF disk["files"] = 0 THEN 0 ELSE disk["files"] - 1
         /\ ~IsTree => disk'["files"] = disk["files"]
<1>1. disk \in [OnDisk -> Nat] /\ "files" \in OnDisk /\ disk["files"] \in Nat
  BY DEF LifeTypes, OnDisk
<1>2. disk["files"] <= disk["files"] + 1
  BY <1>1
<1>3. op.r # "files" => disk'["files"] = disk["files"]
  BY <1>1 DEF Does, OpFits
<1>4. op.what = "make" => disk'["files"] <= disk["files"] + 1
  <2>1. CASE op.what = "make" /\ disk' = disk
    BY <1>2, <2>1
  <2>2. CASE op.what = "make" /\ disk' = [disk EXCEPT ![op.r] = @ + 1]
    <3>1. PICK v : disk' = [disk EXCEPT ![op.r] = v] /\ (op.r = "files" => v = disk["files"] + 1)
      BY <2>2
    <3>2. disk'["files"] = disk["files"] \/ disk'["files"] = disk["files"] + 1
      BY <1>1, <3>1
    <3> QED
      BY <1>1, <1>2, <3>2
  <2> QED
    BY <2>1, <2>2 DEF Does
<1>5. op.what = "remove" /\ op.r = "files" /\ Runs(op) =>
        disk'["files"] = IF disk["files"] = 0 THEN 0 ELSE disk["files"] - 1
  <2>1. SUFFICES ASSUME op.what = "remove", op.r = "files", Runs(op)
                 PROVE  disk'["files"] = IF disk["files"] = 0 THEN 0 ELSE disk["files"] - 1
    OBVIOUS
  <2>2. disk' = [disk EXCEPT !["files"] = IF @ = 0 THEN @ ELSE @ - 1]
    BY <2>1 DEF Does
  <2>3. PICK v : /\ disk' = [disk EXCEPT !["files"] = v]
                 /\ v = IF disk["files"] = 0 THEN 0 ELSE disk["files"] - 1
    BY <2>2
  <2> QED
    BY <1>1, <2>3
<1>6. ~IsTree => disk'["files"] = disk["files"]
  <2>1. ~IsTree /\ op.r = "files" => op.what \notin {"make", "remove"}
    BY DEF OpFits
  <2> QED
    BY <1>3, <2>1 DEF Does
<1> QED
  BY <1>3, <1>4, <1>5, <1>6

\* After an operation there are no more files than there should be.
LEMMA OpKeepsMost ==
  ASSUME LifeTypes, LifeTypes', FilesInv, IsTree, Does(Now), On, Busy, prog' = prog, arg' = arg, opt' = opt
  PROVE  disk'["files"] <= MostFiles'
<1>0. /\ disk["files"] \in Nat /\ turn \in Nat \ {0} /\ arg \in Nat /\ "files" \in OnDisk
      /\ disk'["files"] \in Nat
  <2>1. disk["files"] \in Nat /\ turn \in Nat \ {0} /\ arg \in Nat /\ "files" \in OnDisk
    BY DEF LifeTypes, OnDisk
  <2>2. disk'["files"] \in Nat
    BY DEF LifeTypes, OnDisk
  <2> QED
    BY <2>1, <2>2
<1>1. /\ Reads /\ at \in 1..Len(Text) /\ OpFits(Now) /\ pc' = pc /\ Text' = Text
  BY OpHere DEF On, Text, P
<1>2. /\ disk["files"] <= MostFiles
      /\ pc \in {"init", "body", "clean"} => turn <= arg
      /\ pc \in {"init", "clean"} /\ turn > 1 => Now.times = "each"
  BY <1>1 DEF FilesInv, Reads
<1>3. Now.times = "each" => Now.r = "files"
  BY <1>1 DEF OpFits
<1>4. ASSUME NEW op, op = Now
      PROVE  /\ op.r # "files" => disk'["files"] = disk["files"]
             /\ op.what = "make" => disk'["files"] <= disk["files"] + 1
             /\ op.what = "remove" /\ op.r = "files" /\ Runs(op) =>
                  disk'["files"] = IF disk["files"] = 0 THEN 0 ELSE disk["files"] - 1
  BY <1>1, <1>4, FilesSteps
<1>5. Now.times # "each" => at' = at + 1 /\ turn' = turn
  BY DEF On, Repeats
<1>6. /\ Now.times = "each" /\ turn < arg => at' = at /\ turn' = turn + 1
      /\ Now.times = "each" /\ ~(turn < arg) => at' = at + 1 /\ turn' = 1
  BY DEF On, Repeats
<1>7. CASE prog = "lat_fs_mk"
  <2>1. pc \in {"init", "body", "clean"}
    <3>1. Len(<<>>) = 0 /\ \A i : i \notin 1..0
      OBVIOUS
    <3>2. pc \in {"first", "report", "last", "give up"} => Text = <<>>
      BY <1>7, MkTexts DEF Text
    <3> QED
      BY <1>1, <3>1, <3>2 DEF Reads
  <2>2. CASE pc = "init"
    <3>1. Now.r # "files"
      BY <1>1, <1>7, <2>2, MkTexts DEF Text, Now
    <3>2. MostFiles = 0 /\ MostFiles' = 0
      BY <1>1, <1>7, <2>2 DEF MostFiles
    <3> QED
      BY <1>2, <1>4, <3>1, <3>2
  <2>3. CASE pc = "body"
    <3>1. Text = P.body /\ Len(P.body) = 2 /\ P.body[1] = Use("names") /\ P.body[2] = Make("files")
      BY <1>7, <2>3, MkTexts DEF Text
    <3>2. MostFiles = turn - 1
      BY <1>7, <2>3 DEF MostFiles
    <3>3. CASE at = 1
      <4>1. Now.r = "names"
        BY <3>1, <3>3, OpParts DEF Now
      <4>2. at' = 2 /\ turn' = turn
        BY <1>3, <1>5, <3>3, <4>1
      <4>3. MostFiles' = turn - 1
        BY <1>1, <1>7, <2>3, <3>1, <4>2 DEF MostFiles, Busy
      <4> QED
        BY <1>2, <1>4, <3>2, <4>1, <4>3
    <3>4. CASE at = 2
      <4>1. Now.what = "make" /\ Now.times = "once"
        BY <3>1, <3>4, FilesParts DEF Now
      <4>2. at' = 3 /\ turn' = turn
        BY <1>5, <3>4, <4>1
      <4>3. MostFiles' = turn
        BY <1>1, <1>7, <2>3, <3>1, <4>2 DEF MostFiles, Busy
      <4>4. disk'["files"] <= disk["files"] + 1 /\ disk["files"] <= turn - 1
        BY <1>2, <1>4, <3>2, <4>1
      <4> QED
        BY <1>0, <4>3, <4>4
    <3> QED
      BY <1>1, <3>1, <3>3, <3>4
  <2>4. CASE pc = "clean"
    <3>1. Text = P.after /\ Len(P.after) = 6 /\ P.after[1] = Each(Unlink("files"))
          /\ \A i \in 2..6 : P.after[i].r # "files"
      BY <1>7, <2>4, MkTexts DEF Text
    <3>2. CASE at = 1
      <4>1. /\ Now.what = "remove" /\ Now.r = "files" /\ Now.times = "each" /\ Runs(Now)
        BY <3>1, <3>2, FilesParts DEF Now, Runs
      <4>2. disk'["files"] = IF disk["files"] = 0 THEN 0 ELSE disk["files"] - 1
        BY <1>4, <4>1
      <4>3. disk["files"] <= arg + 1 - turn /\ turn <= arg
        BY <1>2, <1>7, <2>4, <3>2 DEF MostFiles
      <4>4. CASE turn < arg
        <5>1. at' = 1 /\ turn' = turn + 1
          BY <1>6, <3>2, <4>1, <4>4
        <5>2. MostFiles' = arg + 1 - (turn + 1)
          BY <1>1, <1>7, <2>4, <5>1 DEF MostFiles
        <5> QED
          BY <1>0, <4>2, <4>3, <5>2
      <4>5. CASE ~(turn < arg)
        <5>1. at' = 2
          BY <1>6, <3>2, <4>1, <4>5
        <5>2. MostFiles' = 0
          BY <1>1, <1>7, <2>4, <5>1 DEF MostFiles
        <5> QED
          BY <1>0, <4>2, <4>3, <4>5, <5>2
      <4> QED
        BY <4>4, <4>5
    <3>3. CASE at # 1
      <4>0. at \in 2..6
        BY <1>1, <3>1, <3>3
      <4>1. Now.r # "files"
        BY <3>1, <4>0 DEF Now
      <4>2. at' = at + 1
        BY <1>3, <1>5, <4>1
      <4>3. MostFiles = 0 /\ MostFiles' = 0
        BY <1>1, <1>7, <2>4, <4>0, <4>2 DEF MostFiles
      <4> QED
        BY <1>2, <1>4, <4>1, <4>3
    <3> QED
      BY <3>2, <3>3
  <2> QED
    BY <2>1, <2>2, <2>3, <2>4
<1>8. CASE prog = "lat_fs_rm"
  <2>0. prog # "lat_fs_mk"
    BY <1>8
  <2>1. pc \in {"init", "body", "clean"}
    <3>1. Len(<<>>) = 0 /\ \A i : i \notin 1..0
      OBVIOUS
    <3>2. pc \in {"first", "report", "last", "give up"} => Text = <<>>
      BY <1>8, RmTexts DEF Text
    <3> QED
      BY <1>1, <3>1, <3>2 DEF Reads
  <2>2. CASE pc = "clean"
    <3>1. Now.r # "files"
      BY <1>1, <1>8, <2>2, RmTexts DEF Text, Now
    <3>2. MostFiles = 0 /\ MostFiles' = 0
      BY <1>1, <1>8, <2>0, <2>2 DEF MostFiles
    <3> QED
      BY <1>2, <1>4, <3>1, <3>2
  <2>3. CASE pc = "body"
    <3>1. Text = P.body /\ Len(P.body) = 2 /\ P.body[1] = Use("names") /\ P.body[2] = Unlink("files")
      BY <1>8, <2>3, RmTexts DEF Text
    <3>2. MostFiles = arg + 1 - turn
      BY <1>8, <2>0, <2>3 DEF MostFiles
    <3>3. CASE at = 1
      <4>1. Now.r = "names"
        BY <3>1, <3>3, OpParts DEF Now
      <4>2. at' = 2 /\ turn' = turn
        BY <1>3, <1>5, <3>3, <4>1
      <4>3. MostFiles' = arg + 1 - turn
        BY <1>1, <1>8, <2>0, <2>3, <3>1, <4>2 DEF MostFiles, Busy
      <4> QED
        BY <1>2, <1>4, <3>2, <4>1, <4>3
    <3>4. CASE at = 2
      <4>1. Now.what = "remove" /\ Now.r = "files" /\ Now.times = "once" /\ Runs(Now)
        BY <3>1, <3>4, UnlinkParts DEF Now, Runs
      <4>2. at' = 3 /\ turn' = turn
        BY <1>5, <3>4, <4>1
      <4>3. MostFiles' = arg - turn
        BY <1>1, <1>8, <2>0, <2>3, <3>1, <4>2 DEF MostFiles, Busy
      <4>4. disk'["files"] = IF disk["files"] = 0 THEN 0 ELSE disk["files"] - 1
        BY <1>4, <4>1
      <4>5. disk["files"] <= arg + 1 - turn /\ turn <= arg
        BY <1>2, <2>3, <3>2
      <4> QED
        BY <1>0, <4>3, <4>4, <4>5
    <3> QED
      BY <1>1, <3>1, <3>3, <3>4
  <2>4. CASE pc = "init"
    <3>1. Text = P.nonzero /\ Len(P.nonzero) = 6 /\ P.nonzero[6] = Each(Make("files"))
          /\ \A i \in 1..5 : P.nonzero[i].r # "files"
      BY <1>8, <2>4, RmTexts DEF Text
    <3>2. CASE at = 6
      <4>1. Now.what = "make" /\ Now.times = "each"
        BY <3>1, <3>2, FilesParts DEF Now
      <4>2. disk'["files"] <= disk["files"] + 1
        BY <1>4, <4>1
      <4>3. disk["files"] <= turn - 1 /\ turn <= arg
        BY <1>2, <1>8, <2>0, <2>4, <3>2 DEF MostFiles
      <4>4. CASE turn < arg
        <5>1. at' = 6 /\ turn' = turn + 1
          BY <1>6, <3>2, <4>1, <4>4
        <5>2. MostFiles' = turn' - 1
          BY <1>1, <1>8, <2>0, <2>4, <3>1, <5>1 DEF MostFiles, Busy
        <5>3. MostFiles' = turn
          BY <1>0, <5>1, <5>2
        <5> QED
          BY <1>0, <4>2, <4>3, <5>3
      <4>5. CASE ~(turn < arg)
        <5>1. at' = 7
          BY <1>6, <3>2, <4>1, <4>5
        <5>2. MostFiles' = arg
          BY <1>1, <1>8, <2>0, <2>4, <3>1, <5>1 DEF MostFiles, Busy
        <5> QED
          BY <1>0, <4>2, <4>3, <5>2
      <4> QED
        BY <4>4, <4>5
    <3>3. CASE at # 6
      <4>0. at \in 1..5
        BY <1>1, <3>1, <3>3
      <4>1. Now.r # "files"
        BY <3>1, <4>0 DEF Now
      <4>2. at' = at + 1 /\ turn' = turn /\ turn = 1
        BY <1>0, <1>2, <1>3, <1>5, <2>4, <4>1
      <4>3. MostFiles = 0
        BY <1>8, <2>0, <2>4, <3>3 DEF MostFiles
      <4>4. MostFiles' = 0
        <5>1. at' <= 6 /\ turn' - 1 = 0
          BY <4>0, <4>2
        <5> QED
          BY <1>1, <1>8, <2>0, <2>4, <3>1, <5>1 DEF MostFiles, Busy
      <4> QED
        BY <1>2, <1>4, <4>1, <4>3, <4>4
    <3> QED
      BY <3>2, <3>3
  <2> QED
    BY <2>1, <2>2, <2>3, <2>4
<1> QED
  BY <1>7, <1>8 DEF IsTree


\* What an operation of lat_fs may not do.
LEMMA TreeOps ==
  ASSUME LifeTypes, IsTree, Busy
  PROVE  Now.what # "need" /\ (Now.what \in {"get", "check"} => Now.how # "return")
<1>1. Reads /\ at \in 1..Len(Text)
  BY OpHere
<1>2. PICK T : /\ T \in {P.zero, P.nonzero, P.body, P.after, P.end} /\ at \in 1..Len(T) /\ Now = T[at]
  BY <1>1 DEF Reads, Text, Now
<1>3. (\A i : i \notin 1..Len(<<>>)) /\ P.zero = <<>> /\ P.end = <<>>
  BY MkTexts, RmTexts DEF IsTree
<1>4. T \in {P.nonzero, P.body, P.after}
  BY <1>2, <1>3
<1> QED
  BY <1>2, <1>4, MkTexts, RmTexts DEF IsTree, Plain

\* An operation keeps what is known of the files and of the iterations.
LEMMA OpKeepsFiles ==
  ASSUME LifeTypes, LifeTypes', FilesInv, DoOp
  PROVE  FilesInv'
<1>1. Busy
  BY DEF DoOp
<1>2. /\ Reads /\ Len(Text) \in Nat /\ at \in Nat \ {0} /\ at \in 1..Len(Text)
      /\ OpFits(Now) /\ Allowed(Now, Barred)
      /\ Runs(Now) => ActFits(Now, At(Text, at, Entry), Entry)
  BY <1>1, OpHere
<1>3. /\ prog' = prog /\ opt' = opt /\ arg' = arg /\ state' = state /\ iters' = iters
      /\ batch' = batch
  BY <1>2, DoOpCases
<1>4. Ending' = Ending /\ IsTree' = IsTree
  BY <1>3 DEF Ending, IsTree
<1>5. /\ disk["files"] <= MostFiles
      /\ pc \in {"init", "body", "clean"} => arg = Ending /\ turn <= arg
      /\ pc \in {"init", "clean"} /\ turn > 1 => Now.times = "each"
  BY <1>2 DEF FilesInv, Reads
<1>6. /\ turn \in Nat \ {0} /\ arg \in Nat
      /\ pc \in {"init", "body", "clean"} => 1 <= arg
  <2>1. iters \in Nat \ {0} /\ batch \in Nat \ {0}
    BY DEF LifeTypes
  <2>2. turn \in Nat \ {0} /\ arg \in Nat
    BY DEF LifeTypes
  <2> QED
    BY <1>5, <2>1, <2>2 DEF Ending
<1>7. ~IsTree => MostFiles = 0 /\ MostFiles' = 0
  BY <1>3 DEF IsTree, MostFiles
<1>8. pc' = pc => Text' = Text
  BY <1>3 DEF Text, P
<1>9. CASE Does(Now) /\ On
  <2>1. pc' = pc /\ Text' = Text
    BY <1>8, <1>9 DEF On
  <2>2. disk'["files"] <= MostFiles'
    <3>1. CASE IsTree
      BY <1>1, <1>3, <1>9, <3>1, OpKeepsMost
    <3>2. CASE ~IsTree
      <4>1. \A op : op = Now => disk'["files"] = disk["files"]
        BY <1>2, <1>9, <3>2, FilesSteps
      <4> QED
        BY <1>5, <1>7, <3>2, <4>1
    <3> QED
      BY <3>1, <3>2
  <2>3. /\ Repeats => turn < arg /\ turn' = turn + 1 /\ at' = at /\ Now.times = "each"
        /\ ~Repeats => turn' = IF Now.times = "each" THEN 1 ELSE turn
    BY <1>9 DEF On, Repeats
  <2>4. pc \in {"init", "body", "clean"} => turn' <= arg
    BY <1>5, <1>6, <2>3
  <2>5. pc \in {"init", "clean"} /\ turn' > 1 => Busy' /\ Now'.times = "each"
    <3>1. Repeats => Busy' /\ Now' = Now
      BY <1>1, <2>1, <2>3 DEF Busy, Now
    <3>2. ~Repeats /\ pc \in {"init", "clean"} => turn' = 1
      BY <1>5, <1>6, <2>3
    <3> QED
      BY <2>3, <3>1, <3>2
  <2> QED
    BY <1>3, <1>4, <1>5, <2>1, <2>2, <2>4, <2>5 DEF FilesInv
<1>10. CASE Now.what = "need" /\ Skips(Now.how) /\ UNCHANGED <<val, disk, faults>>
  <2>1. ~IsTree
    BY <1>1, <1>10, TreeOps
  <2>2. pc' = pc /\ turn' = turn /\ Now.times # "each"
    BY <1>2, <1>10 DEF Skips, OpFits
  <2>3. pc \in {"init", "clean"} => ~(turn > 1)
    BY <1>5, <2>2
  <2> QED
    BY <1>3, <1>4, <1>5, <1>7, <1>10, <2>1, <2>2, <2>3 DEF FilesInv
<1>11. CASE Exits /\ UNCHANGED <<val, disk>>
  <2>1. pc' = "failed"
    BY <1>11 DEF Exits, Calls
  <2> QED
    BY <1>4, <1>5, <1>7, <1>11, <2>1 DEF FilesInv
<1>12. CASE Runs(Now) /\ Now.what = "get" /\ Now.how = "cleanup" /\ Calls("give up")
            /\ UNCHANGED <<val, disk>>
  <2>1. pc' = "give up" /\ ~IsTree
    BY <1>2, <1>12 DEF Calls, ActFits
  <2> QED
    BY <1>4, <1>5, <1>7, <1>12, <2>1 DEF FilesInv
<1>13. CASE /\ Runs(Now) /\ Now.what \in {"get", "check"} /\ Now.how = "return" /\ Returned
            /\ UNCHANGED disk
  <2>1. ~IsTree
    BY <1>1, <1>13, TreeOps
  <2>2. pc = "body" /\ pc' = pc /\ turn' = arg
    BY <1>2, <1>13 DEF Allowed, Barred, Reads, Returned
  <2> QED
    BY <1>3, <1>4, <1>5, <1>6, <1>7, <1>13, <2>1, <2>2 DEF FilesInv
<1> QED
  BY <1>2, <1>9, <1>10, <1>11, <1>12, <1>13, DoOpCases


-----------------------------------------------------------------------------
(* The ends of calls                                                       *)

\* The number of iterations of an interval.
LEMMA EndingPositive ==
  ASSUME LifeTypes
  PROVE  Ending \in Nat \ {0} /\ iters \in Nat \ {0} /\ batch \in Nat \ {0} /\ arg \in Nat
         /\ turn \in Nat \ {0}
  BY DEF LifeTypes, Ending

\* The end of a call keeps the types.
LEMMA ReturnKeepsTypes ==
  ASSUME LifeTypes, Returns
  PROVE  LifeTypes'
<1>1. prog' = prog /\ opt' = opt /\ UNCHANGED <<val, disk, faults>>
  BY DEF Returns
<1>2. /\ prog \in Programs /\ opt \in BOOLEAN
      /\ val \in [Resources -> {"unset", "null", "ok", "gone"}]
      /\ disk \in [OnDisk -> Nat] /\ disk["clone"] \in 0..1 /\ disk["dir"] \in 0..1
      /\ faults \in Nat /\ state \in {"warmup", "timing", "cooldown"}
  BY DEF LifeTypes
<1>3. SUFFICES
        /\ pc' \in {"first", "decide", "init", "body", "clean", "report", "wait", "last", "give up",
                    "told", "reported", "dead", "failed"}
        /\ at' \in 1..Len(Text')+1 /\ turn' \in Nat \ {0} /\ arg' \in Nat
        /\ state' \in {"warmup", "timing", "cooldown"}
        /\ iters' \in Nat \ {0} /\ batch' \in Nat \ {0}
  BY <1>1, <1>2 DEF LifeTypes
<1>4. ASSUME NEW to \in {"decide", "told", "clean", "last", "init", "report", "wait", "body",
                         "reported", "dead"}, Calls(to)
      PROVE  pc' = to /\ at' \in 1..Len(Text')+1 /\ turn' \in Nat \ {0}
  BY <1>1, <1>4, CallTypes DEF Calls
<1>5. UNCHANGED harness => state' = state /\ iters' = iters /\ batch' = batch
  BY DEF harness
<1>6. Ending \in Nat /\ iters \in Nat \ {0} /\ batch \in Nat \ {0} /\ arg \in Nat /\ turn \in Nat \ {0}
  BY EndingPositive
<1>7. CASE AfterFirst
  BY <1>2, <1>4, <1>5, <1>6, <1>7 DEF AfterFirst, Handler
<1>8. CASE AfterBody
  <2>1. CASE turn < arg
    <3>1. at' = 1 /\ turn' = turn + 1 /\ pc' = pc /\ arg' = arg /\ UNCHANGED harness /\ pc = "body"
      BY <1>8, <2>1 DEF AfterBody
    <3>2. Len(Text) \in Nat /\ Text' = Text
      BY <1>1, <1>2, <3>1, TextHere DEF Text, P
    <3>3. at' \in 1..Len(Text')+1
      BY <3>1, <3>2
    <3>4. turn + 1 \in Nat \ {0}
      BY ONLY <1>6
    <3> QED
      BY <1>2, <1>5, <1>6, <3>1, <3>3, <3>4
  <2>2. CASE ~(turn < arg)
    BY <1>2, <1>4, <1>5, <1>6, <1>8, <2>2 DEF AfterBody
  <2> QED
    BY <2>1, <2>2
<1>9. CASE AfterClean
  BY <1>2, <1>4, <1>5, <1>6, <1>9 DEF AfterClean
<1>10. CASE Decide
  <2>1. CASE \E to \in {"last", "report", "wait"} :
               Calls(to) /\ UNCHANGED harness /\ (arg' = 0 \/ arg' = arg)
    <3>1. PICK to \in {"last", "report", "wait"} :
            Calls(to) /\ UNCHANGED harness /\ (arg' = 0 \/ arg' = arg)
      BY <2>1
    <3>2. pc' = to /\ at' \in 1..Len(Text')+1 /\ turn' \in Nat \ {0}
      BY <1>4, <3>1
    <3>3. arg' \in Nat /\ iters' \in Nat \ {0} /\ batch' \in Nat \ {0}
      BY <1>5, <1>6, <3>1
    <3> QED
      BY <1>2, <1>5, <3>1, <3>2, <3>3
  <2>2. CASE \E st \in {"warmup", "timing", "cooldown"}, n \in {batch, iters, iters'} :
               Interval(st, n) /\ iters' \in 1..MaxN \union {iters}
    <3>1. PICK st \in {"warmup", "timing", "cooldown"}, n \in {batch, iters, iters'} :
               Interval(st, n) /\ iters' \in 1..MaxN \union {iters}
      BY <2>2
    <3>2. iters' \in Nat \ {0}
      BY <1>6, <3>1, LifecycleAssumption
    <3>3. Calls("init") /\ arg' = n /\ state' = st /\ batch' = batch
      BY <3>1 DEF Interval
    <3> QED
      BY <1>4, <1>6, <3>2, <3>3
  <2> QED
    BY <1>10, <2>1, <2>2 DEF Decide, CallsCleanup
<1>11. CASE AfterInit
  BY <1>2, <1>4, <1>5, <1>6, <1>11 DEF AfterInit
<1>12. CASE AfterReport
  BY <1>2, <1>4, <1>5, <1>6, <1>12 DEF AfterReport
<1>13. CASE Leaves
  BY <1>2, <1>4, <1>5, <1>6, <1>13 DEF Leaves
<1> QED
  BY <1>7, <1>8, <1>9, <1>10, <1>11, <1>12, <1>13 DEF Returns

\* What the cells match at the end of a call.
LEMMA EndMatch ==
  ASSUME LifeTypes, CellsInv, ~Busy, Reads, pc # "give up"
  PROVE  Match(Ends(Text, Entry)) /\ at = Len(Text) + 1
<1>1. Len(Text) \in Nat
  BY TextHere DEF LifeTypes
<1>2. at = Len(Text) + 1
  <2>1. at \in 1..Len(Text)+1 /\ ~(at <= Len(Text))
    BY DEF LifeTypes, Busy
  <2> QED
    BY ONLY <1>1, <2>1
<1>3. Match(At(Text, at, Entry))
  BY DEF CellsInv, Reads
<1> QED
  BY <1>2, <1>3 DEF Ends

\* Without copy and directory among what is held, there are none.
LEMMA NoneOnDisk ==
  ASSUME LifeTypes, NEW C, Match(C), {"clone", "dir"} \intersect (C.held \union C.loose) = {}
  PROVE  disk["clone"] = 0 /\ disk["dir"] = 0
<1>1. "clone" \in Cells /\ "dir" \in Cells /\ "clone" \notin Resources /\ "dir" \notin Resources
  BY DEF Cells, Resources
<1> QED
  BY <1>1 DEF Match, Cell

\* The end of a call keeps the cells as the classes say.
LEMMA ReturnKeepsCells ==
  ASSUME LifeTypes, LifeTypes', CellsInv, Returns
  PROVE  CellsInv'
<1>1. prog' = prog /\ opt' = opt /\ UNCHANGED <<val, disk, faults>> /\ ~Busy
  BY DEF Returns
<1>2. /\ prog \in Programs /\ opt \in BOOLEAN /\ faults \in Nat /\ faults' \in Nat
      /\ faults <= faults'
  <2>1. prog \in Programs /\ opt \in BOOLEAN /\ faults \in Nat /\ faults' = faults
    BY <1>1 DEF LifeTypes
  <2> QED
    BY ONLY <2>1
<1>3. ProgramFits
  BY <1>2, FitsAll
<1>4. ASSUME NEW C, Match(C)
      PROVE  Match(C)'
  <2>1. \A x \in Cells : Cell(x)' = Cell(x)
    BY <1>1 DEF Cell
  <2> QED
    BY <1>1, <1>2, <1>4, <2>1, SameMatch
<1>5. Between' = Between /\ During' = During /\ IsTree' = IsTree
  <2>1. Kept' = Kept /\ Nulled' = Nulled /\ Loose' = Loose /\ IsTree' = IsTree
    BY <1>1 DEF Kept, KeptWithOption, Nulled, Loose, IsTree
  <2> QED
    BY <2>1 DEF Between, During
<1>6. ASSUME Match(Between), pc' \in {"init", "report", "last"}, at' = 1
      PROVE  CellsInv'
  <2>1. PICK T, E, i : T = Text' /\ E = Entry' /\ i = at'
    OBVIOUS
  <2>2. E = Between
    BY <1>5, <1>6, <2>1 DEF Entry
  <2>3. PICK C : C = Between
    OBVIOUS
  <2>4. At(T, i, E) = C /\ Match(C)'
    BY <1>2, <1>4, <1>6, <2>1, <2>2, <2>3, EntryFirst
  <2>5. Match(At(Text, at, Entry))'
    BY <1>1, <2>1, <2>4, MatchAfter
  <2> QED
    BY <1>6, <2>5 DEF CellsInv
<1>7. ASSUME Match(During), pc' \in {"body", "clean"}, at' = 1
      PROVE  CellsInv'
  <2>1. PICK T, E, i : T = Text' /\ E = Entry' /\ i = at'
    OBVIOUS
  <2>2. E = During
    BY <1>5, <1>7, <2>1 DEF Entry
  <2>3. PICK C : C = During
    OBVIOUS
  <2>4. At(T, i, E) = C /\ Match(C)'
    BY <1>2, <1>4, <1>7, <2>1, <2>2, <2>3, EntryFirst
  <2>5. Match(At(Text, at, Entry))'
    BY <1>1, <2>1, <2>4, MatchAfter
  <2> QED
    BY <1>7, <2>5 DEF CellsInv
<1>8. ASSUME Match(Between), pc' = "decide"
      PROVE  CellsInv'
  <2>1. PICK C : C = Between
    OBVIOUS
  <2>2. Match(C)'
    BY <1>4, <1>8, <2>1
  <2>3. Match(Between)'
    BY <1>5, <2>1, <2>2 DEF Match
  <2> QED
    BY <1>8, <2>3 DEF CellsInv
<1>9. ASSUME disk["clone"] = 0, disk["dir"] = 0, pc' \in {"wait", "reported", "dead"}
      PROVE  CellsInv'
  BY <1>1, <1>9 DEF CellsInv
<1>10. CASE AfterFirst
  <2>1. CASE pending
    BY <1>10, <2>1 DEF AfterFirst, Handler, Calls, CellsInv
  <2>2. CASE ~pending
    <3>1. pc = "first" /\ pc' = "decide"
      BY <1>10, <2>2 DEF AfterFirst, Calls
    <3>2. Text = P.zero /\ Entry = Nothing
      BY <3>1 DEF Text, Entry
    <3>3. Match(Ends(P.zero, Nothing))
      BY <1>1, <3>1, <3>2, EndMatch DEF Reads
    <3>4. Match(Between)
      BY <1>3, <3>3, CoversMatch DEF ProgramFits
    <3> QED
      BY <1>8, <3>1, <3>4
  <2> QED
    BY <2>1, <2>2
<1>11. CASE AfterBody
  <2>1. pc = "body" /\ at' = 1 /\ pc' \in {"body", "clean"}
    BY <1>11 DEF AfterBody, Calls
  <2>2. Text = P.body /\ Entry = During
    BY <2>1 DEF Text, Entry
  <2>3. Match(Ends(P.body, During))
    BY <1>1, <2>1, <2>2, EndMatch DEF Reads
  <2>4. Match(During)
    BY <1>3, <2>3 DEF ProgramFits
  <2> QED
    BY <1>7, <2>1, <2>4
<1>12. CASE AfterClean
  <2>1. pc = "clean" /\ pc' = "decide"
    BY <1>12 DEF AfterClean, Calls
  <2>2. Text = P.after /\ Entry = During
    BY <2>1 DEF Text, Entry
  <2>3. Match(Ends(P.after, During))
    BY <1>1, <2>1, <2>2, EndMatch DEF Reads
  <2>4. Match(Between)
    BY <1>3, <2>3, CoversMatch DEF ProgramFits
  <2> QED
    BY <1>8, <2>1, <2>4
<1>13. CASE Decide
  <2>1. pc = "decide" /\ Match(Between)
    BY <1>13 DEF Decide, CellsInv
  <2>2. CASE pc' \in {"init", "report", "last"} /\ at' = 1
    BY <1>6, <2>1, <2>2
  <2>3. CASE ~P.hasCleanup /\ pc' = "wait"
    <3>1. {"clone", "dir"} \intersect (Between.held \union Between.loose) = {}
      BY <1>3, <2>3 DEF ProgramFits, Between
    <3>2. disk["clone"] = 0 /\ disk["dir"] = 0
      BY <2>1, <3>1, NoneOnDisk
    <3> QED
      BY <1>9, <2>3, <3>2
  <2> QED
    BY <1>13, <2>2, <2>3 DEF Decide, CallsCleanup, Calls, Interval
<1>14. CASE AfterInit
  <2>1. pc = "init" /\ at' = 1 /\ pc' = "body"
    BY <1>14 DEF AfterInit, Calls
  <2>2. Text = P.nonzero /\ Entry = Between
    BY <2>1 DEF Text, Entry
  <2>3. Match(Ends(P.nonzero, Between))
    BY <1>1, <2>1, <2>2, EndMatch DEF Reads
  <2>4. Match(During)
    BY <1>3, <2>3, CoversMatch DEF ProgramFits
  <2> QED
    BY <1>7, <2>1, <2>4
<1>15. ASSUME pc \in {"report", "last"}
       PROVE  disk["clone"] = 0 /\ disk["dir"] = 0
  <2>1. Text = P.end /\ Entry = Between
    BY <1>15 DEF Text, Entry
  <2>2. Match(Ends(P.end, Between))
    BY <1>1, <1>15, <2>1, EndMatch DEF Reads
  <2> QED
    BY <1>3, <2>2, NoneOnDisk DEF ProgramFits
<1>16. CASE AfterReport
  <2>1. pc = "report" /\ pc' = "wait"
    BY <1>16 DEF AfterReport, Calls
  <2> QED
    BY <1>9, <1>15, <2>1
<1>17. CASE Leaves
  <2>1. pc \in {"wait", "last", "give up"} /\ pc' \in {"reported", "dead"}
    BY <1>17 DEF Leaves, Calls
  <2>2. disk["clone"] = 0 /\ disk["dir"] = 0
    BY <1>15, <2>1 DEF CellsInv
  <2> QED
    BY <1>9, <2>1, <2>2
<1> QED
  BY <1>10, <1>11, <1>12, <1>13, <1>14, <1>16, <1>17 DEF Returns


\* The end of a call keeps what is known of the files and of the iterations.
LEMMA ReturnKeepsFiles ==
  ASSUME LifeTypes, LifeTypes', FilesInv, Returns
  PROVE  FilesInv'
<1>1. prog' = prog /\ opt' = opt /\ disk' = disk /\ ~Busy /\ IsTree' = IsTree
  BY DEF Returns, IsTree
<1>2. /\ Ending \in Nat \ {0} /\ arg \in Nat /\ turn \in Nat \ {0} /\ Len(Text) \in Nat
      /\ disk["files"] \in Nat
  BY EndingPositive, TextHere DEF LifeTypes, OnDisk
<1>3. at = Len(Text) + 1
  <2>1. at \in 1..Len(Text)+1 /\ ~(at <= Len(Text))
    BY <1>1 DEF LifeTypes, Busy
  <2> QED
    BY ONLY <1>2, <2>1
<1>4. /\ ~IsTree \/ pc \notin {"told", "failed", "dead"} => disk["files"] <= MostFiles
      /\ pc \in {"init", "body", "clean"} => arg = Ending /\ turn <= arg
  BY DEF FilesInv
<1>5. ~IsTree => MostFiles = 0 /\ MostFiles' = 0
  BY <1>1 DEF IsTree, MostFiles
<1>6. /\ prog = "lat_fs_mk" => P.zero = <<>> /\ P.end = <<>> /\ Len(P.body) = 2 /\ Len(P.after) = 6
      /\ prog = "lat_fs_rm" => Len(P.nonzero) = 6 /\ Len(P.body) = 2
  BY MkTexts, RmTexts
\* What becomes of the number of files.
<1>7. ASSUME IsTree, disk["files"] = 0, pc' \in {"decide", "report", "wait", "last", "reported", "init"},
             at' = 1, turn' = 1
      PROVE  disk'["files"] <= MostFiles'
  <2>1. prog = "lat_fs_rm" /\ pc' = "init" => Busy'
    <3>1. prog = "lat_fs_rm" /\ pc' = "init" => Text' = P.nonzero
      BY <1>1 DEF Text, P
    <3>2. prog = "lat_fs_rm" /\ pc' = "init" => at' = 1 /\ Len(Text') = 6
      BY <1>6, <1>7, <3>1
    <3> QED
      BY ONLY <3>2 DEF Busy
  <2>2. MostFiles' = 0
    BY <1>1, <1>7, <2>1 DEF MostFiles
  <2> QED
    BY <1>1, <1>7, <2>2
<1>8. UNCHANGED harness => Ending' = Ending
  BY DEF harness, Ending
<1>9. CASE AfterFirst
  <2>1. pc = "first" /\ (pc' = "told" \/ (pc' = "decide" /\ at' = 1 /\ turn' = 1))
    BY <1>9 DEF AfterFirst, Handler, Calls
  <2>2. MostFiles = 0
    BY <2>1 DEF MostFiles
  <2>3. disk["files"] = 0
    BY <1>2, <1>4, <2>1, <2>2
  <2> QED
    BY <1>1, <1>5, <1>7, <2>1, <2>3 DEF FilesInv
<1>10. CASE AfterBody
  <2>0. pc = "body" /\ UNCHANGED harness /\ arg = Ending /\ turn <= arg
    BY <1>4, <1>10 DEF AfterBody
  <2>1. /\ prog = "lat_fs_mk" => disk["files"] <= turn
        /\ prog = "lat_fs_rm" => disk["files"] <= arg - turn
    BY <1>1, <1>4, <2>0 DEF MostFiles, IsTree
  <2>2. CASE turn < arg
    <3>1. at' = 1 /\ turn' = turn + 1 /\ pc' = "body" /\ arg' = arg
      BY <1>10, <2>0, <2>2 DEF AfterBody
    <3>2. turn' <= arg'
      BY <1>2, <2>2, <3>1
    <3>3. disk'["files"] <= MostFiles'
      <4>1. Text' = P.body
        BY <1>1, <3>1 DEF Text, P
      <4>2. IsTree => Busy'
        <5>1. IsTree => at' = 1 /\ Len(Text') = 2
          BY <1>6, <3>1, <4>1 DEF IsTree
        <5> QED
          BY ONLY <5>1 DEF Busy
      <4>3. /\ prog = "lat_fs_mk" => MostFiles' = turn' - 1
            /\ prog = "lat_fs_rm" => MostFiles' = arg + 1 - turn'
        BY <1>1, <3>1, <4>2 DEF MostFiles, IsTree
      <4>4. /\ prog = "lat_fs_mk" => MostFiles' = turn
            /\ prog = "lat_fs_rm" => MostFiles' = arg - turn
        BY <1>2, <3>1, <4>3
      <4>5. ~IsTree => disk["files"] <= 0
        BY <1>4, <1>5
      <4> QED
        BY <1>1, <1>5, <2>1, <4>4, <4>5 DEF IsTree
    <3> QED
      BY <1>8, <2>0, <3>1, <3>2, <3>3 DEF FilesInv
  <2>3. CASE ~(turn < arg)
    <3>1. at' = 1 /\ turn' = 1 /\ pc' = "clean" /\ arg' = arg
      BY <1>10, <2>0, <2>3 DEF AfterBody, Calls
    <3>2. turn' <= arg' /\ ~(turn' > 1)
      BY <1>2, <2>0, <3>1
    <3>3. disk'["files"] <= MostFiles'
      <4>1. turn = arg
        BY <1>2, <2>0, <2>3
      <4>2. /\ prog = "lat_fs_mk" => MostFiles' = arg + 1 - 1
            /\ prog = "lat_fs_rm" => MostFiles' = 0
        BY <1>1, <3>1 DEF MostFiles
      <4>3. ~IsTree => disk["files"] <= 0
        BY <1>4, <1>5
      <4> QED
        BY <1>1, <1>2, <1>5, <2>1, <4>1, <4>2, <4>3 DEF IsTree
    <3> QED
      BY <1>8, <2>0, <3>1, <3>2, <3>3 DEF FilesInv
  <2> QED
    BY <2>2, <2>3
<1>11. CASE AfterClean
  <2>1. pc = "clean" /\ pc' = "decide" /\ at' = 1 /\ turn' = 1
    BY <1>11 DEF AfterClean, Calls
  <2>2. prog = "lat_fs_mk" => at = 7
    <3>1. SUFFICES ASSUME prog = "lat_fs_mk"
                   PROVE  at = 7
      OBVIOUS
    <3>2. Len(Text) = 6
      BY <1>6, <2>1, <3>1 DEF Text
    <3>3. at = 6 + 1
      BY <1>3, <3>2
    <3> QED
      BY ONLY <3>3
  <2>3. MostFiles = 0
    BY <2>1, <2>2 DEF MostFiles
  <2>4. disk["files"] = 0
    BY <1>2, <1>4, <2>1, <2>3
  <2> QED
    BY <1>1, <1>5, <1>7, <2>1, <2>4 DEF FilesInv
<1>12. CASE Decide
  <2>1. pc = "decide" /\ pc' \in {"last", "report", "wait", "init"} /\ at' = 1 /\ turn' = 1
    BY <1>12 DEF Decide, CallsCleanup, Calls, Interval
  <2>2. MostFiles = 0
    BY <2>1 DEF MostFiles
  <2>3. disk["files"] = 0
    BY <1>2, <1>4, <2>1, <2>2
  <2>4. pc' = "init" => arg' = Ending'
    BY <1>12 DEF Decide, CallsCleanup, Calls, Interval, Ending
  <2>5. Ending' \in Nat \ {0}
    BY DEF LifeTypes, Ending
  <2>6. pc' = "init" => turn' <= arg'
    BY <2>1, <2>4, <2>5
  <2> QED
    BY <1>1, <1>5, <1>7, <2>1, <2>3, <2>4, <2>6 DEF FilesInv
<1>13. CASE AfterInit
  <2>1. pc = "init" /\ pc' = "body" /\ at' = 1 /\ turn' = 1 /\ arg' = arg /\ UNCHANGED harness
    BY <1>13 DEF AfterInit, Calls
  <2>2. arg' = Ending' /\ turn' <= arg'
    BY <1>2, <1>4, <1>8, <2>1
  <2>3. disk'["files"] <= MostFiles'
    <3>1. Text' = P.body
      BY <1>1, <2>1 DEF Text, P
    <3>2. IsTree => Busy'
      <4>1. IsTree => at' = 1 /\ Len(Text') = 2
        BY <1>6, <2>1, <3>1 DEF IsTree
      <4> QED
        BY ONLY <4>1 DEF Busy
    <3>3. /\ prog = "lat_fs_mk" => MostFiles' = turn' - 1 /\ MostFiles = 0
          /\ prog = "lat_fs_rm" => MostFiles' = arg + 1 - turn' /\ MostFiles = arg
      BY <1>1, <2>1, <3>2 DEF MostFiles, IsTree
    <3>4. /\ prog = "lat_fs_mk" => MostFiles' = 0
          /\ prog = "lat_fs_rm" => MostFiles' = arg
      BY <1>2, <2>1, <3>3
    <3> QED
      BY <1>1, <1>4, <1>5, <2>1, <3>3, <3>4 DEF IsTree
  <2> QED
    BY <2>1, <2>2, <2>3 DEF FilesInv
<1>14. CASE AfterReport \/ Leaves
  <2>1. /\ pc \in {"report", "wait", "last", "give up"} /\ pc' \in {"wait", "reported", "dead"}
        /\ at' = 1 /\ turn' = 1
    BY <1>14 DEF AfterReport, Leaves, Calls
  <2>2. MostFiles = 0
    BY <2>1 DEF MostFiles
  <2>3. disk["files"] = 0
    <3>1. disk["files"] <= MostFiles
      BY <1>4, <2>1
    <3>2. disk["files"] \in Nat
      BY <1>2
    <3> QED
      BY ONLY <2>2, <3>1, <3>2
  <2> QED
    BY <1>1, <1>5, <1>7, <2>1, <2>3 DEF FilesInv
<1> QED
  BY <1>9, <1>10, <1>11, <1>12, <1>13, <1>14 DEF Returns

-----------------------------------------------------------------------------
(* Signals, and all steps                                                  *)

\* A step that changes nothing of what the program holds, nor what it is at.
LEMMA QuietKeeps ==
  ASSUME LifeTypes, CellsInv, FilesInv,
         prog' = prog, opt' = opt, UNCHANGED <<val, disk, harness>>, arg' = arg,
         pc' = pc, at' = at, turn' = turn, faults \in Nat, faults' \in Nat, faults <= faults'
  PROVE  (LifeTypes /\ CellsInv /\ FilesInv)'
<1>1. Text' = Text /\ Entry' = Entry /\ Between' = Between /\ IsTree' = IsTree
      /\ Ending' = Ending /\ Careless' = Careless
  <2>1. Kept' = Kept /\ Nulled' = Nulled /\ Loose' = Loose /\ IsTree' = IsTree
    BY DEF Kept, KeptWithOption, Nulled, Loose, IsTree
  <2> QED
    BY <2>1 DEF Text, P, Entry, Between, During, Nothing, Ending, harness, Careless
<1>2. Busy' = Busy /\ Now' = Now
  BY <1>1 DEF Busy, Now
<1>3. LifeTypes'
  BY <1>1 DEF LifeTypes, harness
<1>4. FilesInv'
  <2>1. MostFiles' = MostFiles
    BY <1>2 DEF MostFiles
  <2> QED
    BY <1>1, <1>2, <2>1 DEF FilesInv
<1>5. ASSUME NEW C, Match(C)
      PROVE  Match(C)'
  <2>1. \A x \in Cells : Cell(x)' = Cell(x)
    BY DEF Cell
  <2> QED
    BY <1>5, <2>1, SameMatch
<1>6. pc = "decide" => Match(Between)'
  <2>1. PICK C : C = Between
    OBVIOUS
  <2>2. pc = "decide" => Match(C)'
    BY <1>5, <2>1 DEF CellsInv
  <2> QED
    BY <1>1, <2>1, <2>2 DEF Match
<1>7. pc \in {"first", "init", "body", "clean", "report", "last"} => Match(At(Text, at, Entry))'
  <2>1. SUFFICES ASSUME pc \in {"first", "init", "body", "clean", "report", "last"}
                 PROVE  Match(At(Text, at, Entry))'
    OBVIOUS
  <2>2. PICK T, i, E, C : T = Text' /\ i = at' /\ E = Entry' /\ C = At(T, i, E)
    OBVIOUS
  <2>3. C = At(Text, at, Entry)
    BY <1>1, <2>2
  <2>4. Match(C)'
    BY <1>5, <2>1, <2>3 DEF CellsInv
  <2> QED
    BY <2>2, <2>4, MatchAfter
<1>8. Tolerant => Tolerant'
  <2>1. faults > 0 => faults' > 0
    OBVIOUS
  <2> QED
    BY <1>1, <2>1 DEF Tolerant
<1>9. CellsInv'
  BY <1>1, <1>6, <1>7, <1>8 DEF CellsInv
<1> QED
  BY <1>3, <1>4, <1>9

\* SIGTERM and the death of the parent change nothing of what the program holds.
LEMMA SignalsKeep ==
  ASSUME LifeTypes, CellsInv, FilesInv, Term \/ ParentDies
  PROVE  (LifeTypes /\ CellsInv /\ FilesInv)'
<1>1. /\ prog' = prog /\ opt' = opt /\ UNCHANGED <<val, disk, harness>> /\ arg' = arg
      /\ faults \in Nat /\ faults' \in Nat /\ faults <= faults'
  <2>1. /\ prog' = prog /\ opt' = opt /\ UNCHANGED <<val, disk, harness>> /\ arg' = arg
        /\ faults \in Nat /\ faults' = faults + 1
    BY DEF Term, ParentDies, Handler, Fault, LifeTypes
  <2>2. faults' \in Nat /\ faults <= faults'
    BY ONLY <2>1
  <2> QED
    BY <2>1, <2>2
<1>2. CASE pc' = pc /\ at' = at /\ turn' = turn
  BY <1>1, <1>2, QuietKeeps
<1>3. CASE Handler
  <2>1. pc' = "told" /\ at' \in 1..Len(Text')+1 /\ turn' \in Nat \ {0}
    BY <1>1, <1>3, CallTypes DEF Handler, Calls
  <2>2. LifeTypes'
    BY <1>1, <2>1 DEF LifeTypes, harness
  <2>3. CellsInv'
    BY <2>1 DEF CellsInv
  <2>4. FilesInv'
    <3>1. IsTree' = IsTree
      BY <1>1 DEF IsTree
    <3>2. ~IsTree => disk["files"] <= MostFiles /\ MostFiles = 0 /\ MostFiles' = 0
      BY <1>1 DEF FilesInv, IsTree, MostFiles
    <3> QED
      BY <1>1, <2>1, <3>1, <3>2 DEF FilesInv
  <2> QED
    BY <2>2, <2>3, <2>4
<1> QED
  BY <1>2, <1>3 DEF Term, ParentDies

\* The first state of a child.
LEMMA LifeFirst ==
  ASSUME ChildInit
  PROVE  LifeInv
<1>1. prog \in Programs /\ opt \in BOOLEAN /\ pc = "first" /\ at = 1 /\ turn = 1 /\ arg = 0
      /\ disk = [r \in OnDisk |-> 0] /\ val = [r \in Resources |-> "unset"] /\ faults = 0
      /\ state = "warmup" /\ batch \in {1, MaxN} /\ iters = batch
  BY DEF ChildInit
<1>2. LifeTypes
  <2>1. Len(Text) \in Nat
    BY <1>1, TextHere
  <2>2. at \in 1..Len(Text)+1
    BY <1>1, <2>1
  <2>3. batch \in Nat \ {0} /\ iters \in Nat \ {0}
    BY <1>1, LifecycleAssumption
  <2>4. disk["clone"] = 0 /\ disk["dir"] = 0 /\ disk \in [OnDisk -> Nat]
    BY <1>1 DEF OnDisk
  <2>5. val \in [Resources -> {"unset", "null", "ok", "gone"}]
    BY <1>1
  <2> QED
    BY <1>1, <2>2, <2>3, <2>4, <2>5 DEF LifeTypes
<1>3. CellsInv
  <2>1. At(Text, at, Entry) = Nothing
    BY <1>1, EntryFirst DEF Entry
  <2>2. \A r \in Cells : Cell(r) # "ok"
    BY <1>1 DEF Cell, Cells, OnDisk, Resources
  <2>3. Match(Nothing)
    BY <2>2 DEF Match, Nothing
  <2> QED
    BY <1>1, <2>1, <2>3 DEF CellsInv
<1>4. FilesInv
  <2>1. disk["files"] = 0 /\ MostFiles = 0
    BY <1>1 DEF OnDisk, MostFiles
  <2> QED
    BY <1>1, <2>1 DEF FilesInv
<1> QED
  BY <1>2, <1>3, <1>4 DEF LifeInv

(* The invariant of a child: what it holds, what is NULL, and what is on   *)
(* disk are as the class of the place that its calls have reached says,    *)
(* and there are no more files of lat_fs than its interval accounts for.   *)
THEOREM LifeInvariant == ChildSpec => []LifeInv
<1>1. ChildInit => LifeInv
  BY LifeFirst
<1>2. LifeInv /\ [ChildNext]_vars => LifeInv'
  <2> SUFFICES ASSUME LifeInv, [ChildNext]_vars
               PROVE  LifeInv'
    OBVIOUS
  <2>0. LifeTypes /\ CellsInv /\ FilesInv
    BY DEF LifeInv
  <2>1. CASE DoOp
    <3>1. LifeTypes'
      BY <2>0, <2>1, OpKeepsTypes DEF FilesInv
    <3>2. Busy
      BY <2>1 DEF DoOp
    <3>3. Now.what = "remove" /\ Now.r = "dir" => disk["files"] = 0
      BY <2>0, <3>2, DirIsEmpty
    <3>4. CellsInv'
      BY <2>0, <2>1, <3>1, <3>3, OpKeepsCells
    <3>5. FilesInv'
      BY <2>0, <2>1, <3>1, OpKeepsFiles
    <3> QED
      BY <3>1, <3>4, <3>5 DEF LifeInv
  <2>2. CASE Returns
    <3>1. LifeTypes'
      BY <2>0, <2>2, ReturnKeepsTypes
    <3>2. CellsInv' /\ FilesInv'
      BY <2>0, <2>2, <3>1, ReturnKeepsCells, ReturnKeepsFiles
    <3> QED
      BY <3>1, <3>2 DEF LifeInv
  <2>3. CASE Term \/ ParentDies
    BY <2>0, <2>3, SignalsKeep DEF LifeInv
  <2>4. CASE UNCHANGED vars
    <3>1. faults \in Nat /\ faults' = faults
      BY <2>0, <2>4 DEF LifeTypes, vars
    <3>2. faults' \in Nat /\ faults <= faults'
      BY ONLY <3>1
    <3> QED
      BY <2>0, <2>4, <3>1, <3>2, QuietKeeps DEF vars, harness, LifeInv
  <2> QED
    BY <2>1, <2>2, <2>3, <2>4 DEF ChildNext
<1> QED
  BY <1>1, <1>2, PTL DEF ChildSpec

(* Whatever the number of iterations of its intervals, and whatever goes   *)
(* wrong how often: a program that tests what it gets only works with what *)
(* it holds, and one that does not does so as long as nothing has failed;  *)
(* it releases only what has been set, and frees no memory twice.          *)
THEOREM ProgramsHoldWhatTheyUse == ChildSpec => []HoldsWhatItUses
<1>1. LifeInv => HoldsWhatItUses
  <2> SUFFICES ASSUME LifeInv, Acts, ~(faults > 0 /\ prog \in Unchecked)
               PROVE  /\ Now.what = "use" => val[Now.r] = "ok"
                      /\ Now.what = "drop" => val[Now.r] # "unset"
                      /\ (Now.what = "drop" /\ Now.how \in {"mem", "mem if"}) => val[Now.r] # "gone"
    BY DEF HoldsWhatItUses
  <2>0. LifeTypes /\ CellsInv /\ Busy /\ Runs(Now)
    BY DEF LifeInv, Acts, Runs, Busy
  <2>1. PICK C : C = At(Text, at, Entry)
    OBVIOUS
  <2>2. Reads /\ OpFits(Now) /\ ActFits(Now, C, Entry)
    BY <2>0, <2>1, OpHere
  <2>3. ~Tolerant
    BY DEF Tolerant, Careless
  <2>4. Match(C)
    BY <2>0, <2>1, <2>2, <2>3 DEF CellsInv, Reads
  <2>5. Now.what \in {"use", "drop"} => Now.r \in Cells /\ Cell(Now.r) = val[Now.r]
    BY <2>2 DEF OpFits, Cells, Cell
  <2>6. Now.what = "use" => val[Now.r] = "ok"
    BY <2>2, <2>3, <2>4, <2>5 DEF ActFits, Match
  <2>7. Now.what = "drop" => val[Now.r] \in {"ok", "null"}
    BY <2>2, <2>3, <2>4, <2>5 DEF ActFits, Match
  <2> QED
    BY <2>6, <2>7
<1> QED
  BY <1>1, LifeInvariant, PTL

(* However many intervals there are, a program gets nothing again that it  *)
(* still holds, so that it holds no more in the last than in the first:    *)
(* what initialize gets, cleanup has released before it is called again.   *)
(* lat_mem_rd -t, which gets its words again, is what the property excepts. *)
THEOREM ProgramsDoNotGrow == ChildSpec => []NoGrowth
<1>1. LifeInv => NoGrowth
  <2> SUFFICES ASSUME LifeInv, Acts, Now.what = "get", prog # "thrash"
               PROVE  val[Now.r] # "ok"
    BY DEF NoGrowth
  <2>0. LifeTypes /\ CellsInv /\ Busy /\ Runs(Now)
    BY DEF LifeInv, Acts, Runs, Busy
  <2>1. PICK C : C = At(Text, at, Entry)
    OBVIOUS
  <2>2. Reads /\ OpFits(Now) /\ Allowed(Now, Barred) /\ ActFits(Now, C, Entry)
    BY <2>0, <2>1, OpHere
  <2>3. pc # "give up"
    BY <2>2 DEF Allowed, Barred
  <2>4. Match(C)
    BY <2>0, <2>1, <2>2, <2>3 DEF CellsInv, Reads
  <2>5. Now.r \in Cells /\ Cell(Now.r) = val[Now.r]
    BY <2>2 DEF OpFits, Cells, Cell
  <2>6. Now.r \notin C.held \union C.loose
    BY <2>2 DEF ActFits
  <2> QED
    BY <2>4, <2>5, <2>6 DEF Match
<1> QED
  BY <1>1, LifeInvariant, PTL

(* A program that reports its results has removed every file and directory *)
(* that it made, of every interval, and its copy of the file; and one      *)
(* whose parent dies, or that gives up, its copy (lat_fs leaves its tree   *)
(* then, as its cleanup(0) does nothing).                                  *)
THEOREM ProgramsRemoveTheirFiles == ChildSpec => []FilesRemoved
<1>1. LifeInv => FilesRemoved
  <2> SUFFICES ASSUME LifeInv, pc = "reported" \/ (pc = "dead" /\ ~IsTree)
               PROVE  LeftOnDisk = {}
    BY DEF FilesRemoved, IsTree
  <2>1. disk["clone"] = 0 /\ disk["dir"] = 0
    BY DEF LifeInv, CellsInv
  <2>2. MostFiles = 0 /\ disk["files"] <= MostFiles /\ disk["files"] \in Nat
    BY DEF LifeInv, FilesInv, MostFiles, LifeTypes, OnDisk, IsTree
  <2>3. disk["files"] = 0
    BY ONLY <2>2
  <2> QED
    BY <2>1, <2>3 DEF LeftOnDisk, OnDisk
<1> QED
  BY <1>1, LifeInvariant, PTL

-----------------------------------------------------------------------------
(* The ranges                                                              *)
InBounds ==
  /\ pending \in BOOLEAN /\ orphan \in BOOLEAN
  /\ arg \in 0..MaxN /\ iters \in 1..MaxN /\ batch \in {1, MaxN}
  /\ faults \in 0..MaxFaults /\ disk["files"] <= MaxN

Ended == {"told", "failed", "dead"}

\* The files of an interval are no more than its iterations.
LEMMA FilesBounded ==
  LifeInv /\ arg \in 0..MaxN /\ (~IsTree \/ pc \notin Ended) => disk["files"] <= MaxN
<1> SUFFICES ASSUME LifeInv, arg \in 0..MaxN, ~IsTree \/ pc \notin Ended
             PROVE  disk["files"] <= MaxN
  OBVIOUS
<1>1. /\ disk["files"] \in Nat /\ turn \in Nat \ {0} /\ arg \in Nat /\ MaxN \in Nat /\ arg <= MaxN
      /\ disk["files"] <= MostFiles /\ (pc \in {"init", "body", "clean"} => turn <= arg)
  <2>1. LifeTypes /\ FilesInv
    BY DEF LifeInv
  <2>2. disk["files"] \in Nat /\ turn \in Nat \ {0} /\ arg \in Nat
    BY <2>1 DEF LifeTypes, OnDisk
  <2>3. MaxN \in Nat
    BY LifecycleAssumption DEF LifecycleAssumption
  <2>4. arg <= MaxN
    BY ONLY <2>2, <2>3, arg \in 0..MaxN
  <2>5. disk["files"] <= MostFiles /\ (pc \in {"init", "body", "clean"} => turn <= arg)
    BY <2>1 DEF FilesInv, Ended
  <2> QED
    BY <2>2, <2>3, <2>4, <2>5
<1>2. MostFiles \in {turn - 1, turn, arg + 1 - turn, 0, arg, arg - turn}
      /\ (MostFiles \in {turn - 1, turn} => MostFiles = 0 \/ turn <= arg)
  <2>1. pc \notin {"init", "body", "clean"} => MostFiles = 0
    BY DEF MostFiles
  <2>2. MostFiles \in {turn - 1, turn, arg + 1 - turn, 0, arg, arg - turn}
    BY DEF MostFiles
  <2> QED
    BY <1>1, <2>1, <2>2
<1>3. PICK m : m = MostFiles
  OBVIOUS
<1>4. /\ disk["files"] <= m /\ m \in {turn - 1, turn, arg + 1 - turn, 0, arg, arg - turn}
      /\ (m \in {turn - 1, turn} => m = 0 \/ turn <= arg)
  BY <1>1, <1>2, <1>3
<1>5. m \in Nat => m <= arg
  BY ONLY <1>1, <1>4
<1>6. m >= 0 => m \in Nat
  BY ONLY <1>1, <1>4
<1>7. m >= 0
  BY ONLY <1>1, <1>4
<1> QED
  BY ONLY <1>1, <1>4, <1>5, <1>6, <1>7

\* A program that ends leaves its files as they are.
LEMMA EndLeavesFiles ==
  ASSUME LifeInv, [ChildNext]_vars, pc' \in Ended
  PROVE  disk'["files"] = disk["files"]
<1>1. CASE DoOp
  <2>1. Busy
    BY <1>1 DEF DoOp
  <2>2. Reads /\ OpFits(Now)
    BY <2>1, OpHere DEF LifeInv
  <2>3. pc \notin Ended
    BY <2>2 DEF Reads, Ended
  <2>4. \/ pc' = pc
        \/ UNCHANGED disk
    BY <1>1, <2>2, DoOpCases DEF On
  <2> QED
    BY <2>3, <2>4
<1>2. CASE Returns \/ Term \/ ParentDies \/ UNCHANGED vars
  BY <1>2 DEF Returns, Term, ParentDies, vars
<1> QED
  BY <1>1, <1>2 DEF ChildNext

\* What an operation does not change.
LEMMA OpKeepsHarness ==
  ASSUME DoOp
  PROVE  /\ UNCHANGED <<pending, orphan, arg, iters, batch>>
         /\ faults' = faults \/ (faults < MaxFaults /\ faults' = faults + 1)
<1>1. UNCHANGED <<pending, orphan, arg, iters, batch>>
  BY DEF DoOp, harness
<1> SUFFICES faults' = faults \/ (faults < MaxFaults /\ faults' = faults + 1)
  BY <1>1
<1>2. CASE ~Acts
  BY <1>2 DEF DoOp
<1>3. CASE DoGet
  BY <1>3 DEF DoGet, Fault
<1>4. CASE DoMake
  BY <1>4 DEF DoMake, Fault
<1>5. CASE DoRemove \/ DoDrop
  BY <1>5 DEF DoRemove, DoDrop
<1>6. CASE DoOther
  BY <1>6 DEF DoOther, Fault
<1> QED
  BY <1>1, <1>2, <1>3, <1>4, <1>5, <1>6 DEF DoOp

\* The harness's calls keep within the bounds.
LEMMA BoundsStep ==
  ASSUME LifeInv, LifeInv', InBounds, [ChildNext]_vars
  PROVE  InBounds'
<1>0. /\ MaxN \in Nat \ {0} /\ MaxFaults \in Nat
      /\ pending \in BOOLEAN /\ orphan \in BOOLEAN
      /\ arg \in 0..MaxN /\ iters \in 1..MaxN /\ batch \in {1, MaxN} /\ faults \in 0..MaxFaults
      /\ 0 \in 0..MaxN /\ iters \in 0..MaxN /\ batch \in 0..MaxN /\ Ending \in 0..MaxN
  <2>1. /\ MaxN \in Nat \ {0} /\ MaxFaults \in Nat
        /\ arg \in 0..MaxN /\ iters \in 1..MaxN /\ batch \in {1, MaxN} /\ faults \in 0..MaxFaults
    BY LifecycleAssumption DEF InBounds, LifecycleAssumption
  <2>2. 0 \in 0..MaxN /\ iters \in 0..MaxN /\ batch \in 0..MaxN
    BY ONLY <2>1
  <2> QED
    BY <2>1, <2>2 DEF InBounds, Ending
<1>1. /\ pending' \in BOOLEAN /\ orphan' \in BOOLEAN
      /\ arg' \in 0..MaxN /\ iters' \in 1..MaxN /\ batch' \in {1, MaxN}
      /\ faults' = faults \/ (faults < MaxFaults /\ faults' = faults + 1)
  <2>1. CASE DoOp
    BY <1>0, <2>1, OpKeepsHarness
  <2>2. CASE Returns
    <3>1. UNCHANGED <<pending, orphan, faults>>
      BY <2>2 DEF Returns
    <3>2. CASE AfterFirst \/ AfterBody \/ AfterClean \/ AfterInit \/ AfterReport \/ Leaves
      BY <1>0, <3>1, <3>2 DEF AfterFirst, AfterBody, AfterClean, AfterInit, AfterReport, Leaves,
                               Handler, harness
    <3>3. CASE Decide
      BY <1>0, <3>1, <3>3 DEF Decide, CallsCleanup, Interval, harness
    <3> QED
      BY <2>2, <3>2, <3>3 DEF Returns
  <2>3. CASE Term \/ ParentDies
    BY <1>0, <2>3 DEF Term, ParentDies, Handler, Fault, harness
  <2>4. CASE UNCHANGED vars
    BY <1>0, <2>4 DEF vars
  <2> QED
    BY <2>1, <2>2, <2>3, <2>4 DEF ChildNext
<1>2. faults' \in 0..MaxFaults
  BY ONLY <1>0, <1>1
<1>3. disk'["files"] <= MaxN
  <2>1. (LifeInv /\ arg \in 0..MaxN /\ (~IsTree \/ pc \notin Ended) => disk["files"] <= MaxN)'
    BY FilesBounded, PTL
  <2>2. CASE pc' \notin Ended
    BY <1>1, <2>1, <2>2
  <2>3. CASE pc' \in Ended
    BY <2>3, EndLeavesFiles DEF InBounds
  <2> QED
    BY <2>2, <2>3
<1> QED
  BY <1>1, <1>2, <1>3 DEF InBounds

(* Every variable keeps its range: a child is never asked for more         *)
(* iterations than an interval may have, whichever way its intervals are   *)
(* resized, and leaves no more files than one interval has iterations,     *)
(* wherever it is ended.                                                   *)
THEOREM TypesOfALife == ChildSpec => []TypeOK
<1>1. ChildInit => LifeInv /\ InBounds
  <2> SUFFICES ASSUME ChildInit PROVE InBounds
    BY LifeFirst
  <2>1. /\ MaxN \in Nat \ {0} /\ MaxFaults \in Nat /\ arg = 0 /\ batch \in {1, MaxN}
        /\ iters = batch /\ faults = 0 /\ disk["files"] = 0
    BY LifecycleAssumption DEF ChildInit, LifecycleAssumption, OnDisk
  <2>2. arg \in 0..MaxN /\ iters \in 1..MaxN /\ faults \in 0..MaxFaults /\ disk["files"] <= MaxN
    BY ONLY <2>1
  <2> QED
    BY <2>1, <2>2 DEF ChildInit, InBounds
<1>2. LifeInv /\ InBounds => TypeOK
  <2> SUFFICES ASSUME LifeInv, InBounds PROVE TypeOK
    OBVIOUS
  <2>1. LifeTypes
    BY DEF LifeInv
  <2>2. Busy /\ Now.what # "check" => Now.r \in Resources \union OnDisk
    BY <2>1, OpHere DEF OpFits
  <2>3. disk \in [OnDisk -> 0..MaxN]
    <3>1. /\ disk \in [OnDisk -> Nat] /\ disk["clone"] \in 0..1 /\ disk["dir"] \in 0..1
          /\ disk["files"] <= MaxN /\ MaxN \in Nat \ {0} /\ disk["files"] \in Nat
      BY <2>1, LifecycleAssumption DEF LifeTypes, InBounds, LifecycleAssumption, OnDisk
    <3>2. disk["clone"] \in 0..MaxN /\ disk["dir"] \in 0..MaxN /\ disk["files"] \in 0..MaxN
      BY ONLY <3>1
    <3> QED
      BY <3>1, <3>2 DEF OnDisk
  <2> QED
    BY <2>1, <2>2, <2>3 DEF LifeTypes, InBounds, TypeOK
<1>3. LifeInv /\ LifeInv' /\ InBounds /\ [ChildNext]_vars => InBounds'
  BY BoundsStep
<1> QED
  BY <1>1, <1>2, <1>3, LifeInvariant, PTL DEF ChildSpec
=============================================================================
