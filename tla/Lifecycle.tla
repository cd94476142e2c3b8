----------------------------- MODULE Lifecycle -----------------------------
(***************************************************************************)
(* The programs of one process that keep something between the calls of   *)
(* the harness: descriptors, memory, mappings, files.  benchmp_child() and *)
(* benchmp_interval() call initialize(0), then initialize(n), benchmark(n) *)
(* and cleanup(n) for each interval, and cleanup(0) at the end.  Each      *)
(* function decides by its argument whether it acts.  A program is a       *)
(* record of the operations of its functions; the module has one child     *)
(* make these calls, in the first round of benchmp() (where SIGTERM has    *)
(* its handler), and asks what it holds, uses and leaves behind.           *)
(***************************************************************************)
EXTENDS Naturals, Sequences

CONSTANTS
  Programs,   \* names of programs, members of DOMAIN Program
  MaxN,       \* the greatest number of iterations of an interval
  Faults,     \* what may go wrong
  MaxFaults   \* how often

ASSUME LifecycleAssumption ==
  /\ MaxN \in Nat \ {0}
  /\ Faults \subseteq {"acquire", "term", "parent"}
  /\ MaxFaults \in Nat

-----------------------------------------------------------------------------
(* Operations on a resource r.  `how' says what follows a failure, or how  *)
(* the resource is released; `times' is for what is repeated for each      *)
(* iteration, and `when' for what is done with an option only.             *)
Op(what, r, how) ==
  [what |-> what, r |-> r, how |-> how, times |-> "once", when |-> "always"]

Get(r, how) == Op("get", r, how)      \* "exit", "return", "ignore", "cleanup"
Null(r)     == Op("null", r, "")      \* the variable is set to NULL, or to -1
Use(r)      == Op("use", r, "")
Need(r, k)  == Op("need", r, k)       \* if r is NULL, the next k are skipped
Must(r)     == Op("must", r, "")      \* if r is NULL, the program exits
Check       == Op("check", "", "exit")    \* something else that may fail
Try         == Op("check", "", "return")
Free(r)     == Op("drop", r, "mem")
FreeReset(r) == Op("drop", r, "reset")   \* if not NULL, and set to NULL
FreeIf(r)    == Op("drop", r, "mem if")   \* if not NULL, and left as it is
Close(r)    == Op("drop", r, "os")
CloseIf(r)  == Op("drop", r, "os if")
Make(r)     == Op("make", r, "ignore")   \* a file or a directory
MakeOrExit(r) == Op("make", r, "exit")
Unlink(r)   == Op("remove", r, "")

Each(op) == [op EXCEPT !.times = "each"]
Opt(op)  == [op EXCEPT !.when = "option"]

(* The fields of a program: zero and nonzero are what initialize does for  *)
(* no iterations and for some; body is one iteration of the benchmark      *)
(* function; end and after are what cleanup does for no iterations and for *)
(* some; hasCleanup says whether benchmp() is given one.                   *)
Idle == [zero |-> <<>>, nonzero |-> <<>>, body |-> <<>>, end |-> <<>>, after |-> <<>>,
         hasCleanup |-> TRUE]

-----------------------------------------------------------------------------
(* lat_fs: names and a tree of directories for the files of one interval.  *)
SetupNames   == <<Get("names", "ignore"), Get("dirs", "ignore"), MakeOrExit("dir"),
                  Use("dirs"), Use("names")>>
CleanupNames == <<Use("names"), Free("names"), Use("dirs"), Unlink("dir"), Free("dirs")>>
CreateFile   == <<Use("names"), Make("files")>>
UnlinkFile   == <<Use("names"), Unlink("files")>>

lat_fs_mk == [Idle EXCEPT !.nonzero = SetupNames, !.body = CreateFile,
                          !.after = <<Each(Unlink("files"))>> \o CleanupNames]
lat_fs_rm == [Idle EXCEPT !.nonzero = SetupNames \o <<Each(Make("files"))>>,
                          !.body = UnlinkFile, !.after = CleanupNames]

(* The copy of the file that option -C asks for.                           *)
CopyFile   == Opt(MakeOrExit("clone"))
UnlinkCopy == Opt(Unlink("clone"))

KeepsMapping == [Idle EXCEPT
  !.zero = <<CopyFile, Get("fd", "exit"), UnlinkCopy, Check>>,
  !.body = <<Get("map", "exit"), Use("map")>>,
  !.end  = <<Close("fd")>>]

lat_mmap == [Idle EXCEPT
  !.zero = <<CopyFile, Get("fd", "exit"), UnlinkCopy, Check>>,
  !.body = <<Get("map", "exit"), Use("map"), Close("map")>>,
  !.end  = <<Close("fd")>>]

(* A mapping that has failed is noticed by msync().                        *)
lat_pagefault == [Idle EXCEPT
  !.zero = <<CopyFile, Get("fd", "exit"), UnlinkCopy, Get("pages", "ignore"), Check,
             Get("where", "exit")>>,
  !.body = <<Use("where"), Use("pages"), Close("where"), Get("where", "exit")>>,
  !.end  = <<Close("where"), CloseIf("fd"), Free("pages")>>]
lat_pagefault_mmap == [lat_pagefault EXCEPT !.body = <<Close("where"), Get("where", "exit")>>]

KeepsCopy == [Idle EXCEPT
  !.zero = <<Null("fd"), CopyFile>>,
  !.body = <<Get("tmp", "ignore"), Use("tmp"), Close("tmp")>>,
  !.end  = <<CloseIf("fd")>>]

bw_file_rd_open == [Idle EXCEPT
  !.zero = <<Null("fd"), CopyFile>>,
  !.body = <<Get("tmp", "ignore"), Use("tmp"), Close("tmp")>>,
  !.end  = <<CloseIf("fd"), UnlinkCopy>>]
bw_file_rd_io == [bw_file_rd_open EXCEPT
  !.zero = <<Null("fd"), CopyFile, Get("fd", "exit")>>, !.body = <<Use("fd")>>]

Unset == [Idle EXCEPT
  !.zero = <<CopyFile>>,
  !.body = <<Get("tmp", "exit"), Get("map", "exit"), Use("map"), Close("tmp"), Close("map")>>,
  !.end  = <<CloseIf("buf"), CloseIf("fd"), UnlinkCopy>>]

bw_mmap_rd_open == [Idle EXCEPT
  !.zero = <<Null("fd"), Null("buf"), CopyFile>>,
  !.body = <<Get("tmp", "exit"), Get("map", "exit"), Use("map"), Close("tmp"), Close("map")>>,
  !.end  = <<CloseIf("buf"), CloseIf("fd"), UnlinkCopy>>]
bw_mmap_rd_only == [bw_mmap_rd_open EXCEPT
  !.zero = <<Null("fd"), Null("buf"), CopyFile, Get("fd", "exit"), Get("buf", "exit")>>,
  !.body = <<Use("buf")>>]

(* The second buffer is for the kernels that copy.                         *)
bw_mem == [Idle EXCEPT
  !.zero = <<Null("buf2"), Get("buf", "exit"), Opt(Get("buf2", "exit"))>>,
  !.body = <<Use("buf"), Opt(Use("buf2"))>>,
  !.end  = <<Free("buf"), FreeIf("buf2")>>]

stream == [Idle EXCEPT
  !.zero = <<Get("a", "ignore"), Get("b", "ignore"), Get("c", "ignore"),
             Must("a"), Must("b"), Must("c"), Use("a"), Use("b"), Use("c")>>,
  !.body = <<Use("a"), Use("b"), Use("c")>>,
  !.end  = <<Free("a"), Free("b"), Free("c")>>]

lat_ops == [Idle EXCEPT
  !.zero = <<Get("data", "ignore"), Use("data")>>,
  !.body = <<Use("data")>>, !.end = <<FreeIf("data")>>]

par_ops == [Idle EXCEPT
  !.zero = <<Get("int_data", "ignore"), Get("double_data", "ignore"),
             Use("int_data"), Use("double_data")>>,
  !.body = <<Use("int_data"), Use("double_data")>>,
  !.end  = <<Free("int_data"), Free("double_data")>>]

(* A system call that fails ends the benchmark function early.             *)
lat_syscall == [Idle EXCEPT !.body = <<Try>>, !.hasCleanup = FALSE]
lat_syscall_open == [Idle EXCEPT
  !.body = <<Get("tmp", "return"), Close("tmp")>>, !.hasCleanup = FALSE]

lat_sig_prot == [Idle EXCEPT
  !.zero = <<Get("fd", "ignore"), Get("where", "exit")>>,
  !.body = <<Use("where")>>, !.hasCleanup = FALSE]

lat_rpc == [Idle EXCEPT
  !.zero = <<Get("cl", "exit"), Check>>, !.body = <<Use("cl")>>, !.hasCleanup = FALSE]

lat_select == [Idle EXCEPT
  !.zero = <<Get("fid", "exit"), Get("set", "ignore"), Close("fid"), Must("set")>>,
  !.body = <<Use("set")>>, !.end = <<FreeReset("set")>>]

lat_ctx_overhead == [Idle EXCEPT
  !.zero = <<Get("p", "ignore"), Use("p"), Null("data"), Opt(Get("data", "ignore")),
             Get("pipes", "cleanup")>>,
  !.body = <<Use("p"), Use("pipes"), Opt(Use("data"))>>,
  !.end  = <<Use("p"), Close("pipes"), Free("p"), FreeIf("data")>>]

(* lib_mem: base_initialize, and the layouts that rest on it.  `stride'    *)
(* and `thrash' act again on every call once base_initialize has succeeded. *)
Base == <<Null("words"), Null("lines"), Get("pages", "ignore"), Get("addr", "ignore")>>
Initialized(k) == <<Need("addr", k + 1), Need("pages", k)>>
MemCleanup  == <<FreeReset("addr"), FreeReset("lines"), FreeReset("pages"),
                 FreeReset("words")>>

StrideLaid == Initialized(1) \o <<Use("addr")>>
ThrashLaid == Initialized(3) \o <<Get("words", "ignore"), Use("words"), Use("addr")>>

stride_initialize == [Idle EXCEPT
  !.zero = Base \o StrideLaid, !.nonzero = StrideLaid,
  !.body = <<Use("addr")>>, !.end = MemCleanup]
thrash_initialize == [Idle EXCEPT
  !.zero = Base \o ThrashLaid, !.nonzero = ThrashLaid,
  !.body = <<Use("addr")>>, !.end = MemCleanup]

(* lat_dram_page goes on when mem_initialize has returned early.           *)
dram_page_initialize == [Idle EXCEPT
  !.zero = Base \o Initialized(3)
           \o <<Get("words", "ignore"), Get("lines", "ignore"), Use("addr")>>
           \o <<Use("pages"), Use("addr")>>,
  !.body = <<Use("addr")>>, !.end = MemCleanup]

Program ==
  [lat_fs_mk |-> lat_fs_mk, lat_fs_rm |-> lat_fs_rm, lat_mmap |-> lat_mmap,
   lat_pagefault |-> lat_pagefault, lat_pagefault_mmap |-> lat_pagefault_mmap,
   bw_file_rd_open |-> bw_file_rd_open, bw_file_rd_io |-> bw_file_rd_io,
   bw_mmap_rd_open |-> bw_mmap_rd_open, bw_mmap_rd_only |-> bw_mmap_rd_only,
   bw_mem |-> bw_mem, stream |-> stream, lat_ops |-> lat_ops, par_ops |-> par_ops,
   lat_syscall |-> lat_syscall,
   lat_syscall_open |-> lat_syscall_open, lat_sig_prot |-> lat_sig_prot,
   lat_rpc |-> lat_rpc, lat_select |-> lat_select, lat_ctx_overhead |-> lat_ctx_overhead,
   stride |-> stride_initialize, thrash |-> thrash_initialize,
   dram_page |-> dram_page_initialize]

ASSUME ProgramsAssumption == Programs \subseteq DOMAIN Program

Resources == {"names", "dirs", "fd", "map", "pages", "where", "tmp", "buf", "buf2", "a", "b",
              "c", "data", "int_data", "double_data", "cl", "fid", "set", "p", "pipes",
              "addr", "words", "lines"}
OnDisk == {"clone", "dir", "files"}

-----------------------------------------------------------------------------
VARIABLES
  prog,      \* the program
  opt,       \* its option is given
  pc,        \* which call is in progress
  at,        \* the next of its operations
  turn,      \* which iteration, or repetition of the operation
  arg,       \* its number of iterations
  state,     \* state->state
  iters,     \* state->iterations
  batch,     \* state->iterations_batch
  val,       \* what each variable of the program names
  disk,      \* how many files of each kind there are
  pending,   \* benchmp_sigterm_received
  orphan,    \* the parent is dead
  faults     \* how many faults there have been

vars == <<prog, opt, pc, at, turn, arg, state, iters, batch, val, disk, pending, orphan, faults>>
harness == <<state, iters, batch>>

P == Program[prog]

(* The operations of the call in progress.                                 *)
Text ==
  CASE pc = "first" -> P.zero
    [] pc = "init"  -> P.nonzero
    [] pc = "body"  -> P.body
    [] pc = "clean" -> P.after
    [] pc \in {"report", "last", "give up"} -> P.end
    [] OTHER -> <<>>

ChildInit ==
  /\ prog \in Programs /\ opt \in BOOLEAN
  /\ pc = "first" /\ arg = 0
  /\ at = 1 /\ turn = 1
  /\ state = "warmup"
  /\ batch \in {1, MaxN} /\ iters = batch
  /\ val = [r \in Resources |-> "unset"]
  /\ disk = [r \in OnDisk |-> 0]
  /\ pending = FALSE /\ orphan = FALSE /\ faults = 0

-----------------------------------------------------------------------------
(* One operation                                                           *)
Busy == at <= Len(Text)
Now == Text[at]
Acts == Busy /\ (Now.when = "option" => opt)

(* The next operation, the next time, or the end of the call or of all.    *)
Repeats == Now.times = "each" /\ turn < arg
On ==
  /\ UNCHANGED pc
  /\ \/ Repeats /\ turn' = turn + 1 /\ UNCHANGED at
     \/ ~Repeats /\ at' = at + 1 /\ turn' = IF Now.times = "each" THEN 1 ELSE turn
Skips(k) == at' = at + k + 1 /\ UNCHANGED <<pc, turn>>
Returned == at' = Len(Text) + 1 /\ turn' = arg /\ UNCHANGED pc
Calls(to) == pc' = to /\ at' = 1 /\ turn' = 1
Exits == Calls("failed")
Fault(kind) == kind \in Faults /\ faults < MaxFaults /\ faults' = faults + 1

DoGet ==
  /\ Now.what = "get"
  /\ \/ val' = [val EXCEPT ![Now.r] = "ok"] /\ On /\ UNCHANGED faults
     \/ /\ Fault("acquire")
        /\ \/ Now.how = "ignore" /\ val' = [val EXCEPT ![Now.r] = "null"] /\ On
           \/ Now.how = "return" /\ val' = [val EXCEPT ![Now.r] = "null"] /\ Returned
           \/ Now.how = "exit" /\ Exits /\ UNCHANGED val
           \/ Now.how = "cleanup" /\ Calls("give up") /\ UNCHANGED val
  /\ UNCHANGED disk

(* A file that could not be created is not noticed; a copy or a directory  *)
(* that could not be is (and a partial copy is unlinked).                  *)
DoMake ==
  /\ Now.what = "make"
  /\ \/ disk' = [disk EXCEPT ![Now.r] = @ + 1] /\ On /\ UNCHANGED faults
     \/ /\ Fault("acquire") /\ UNCHANGED disk
        /\ IF Now.how = "exit" THEN Exits ELSE On
  /\ UNCHANGED val

(* A directory is only removed when it is empty.                           *)
DoRemove ==
  /\ Now.what = "remove" /\ On
  /\ disk' = [disk EXCEPT ![Now.r] = IF @ = 0 \/ (Now.r = "dir" /\ disk["files"] > 0)
                                    THEN @ ELSE @ - 1]
  /\ UNCHANGED <<val, faults>>

DoDrop ==
  /\ Now.what = "drop" /\ On
  /\ val' = [val EXCEPT ![Now.r] =
               CASE Now.how = "reset" -> "null"
                 [] Now.how # "reset" /\ @ = "null" -> "null"
                 [] OTHER -> "gone"]
  /\ UNCHANGED <<disk, faults>>

DoOther ==
  /\ \/ Now.what = "null" /\ val' = [val EXCEPT ![Now.r] = "null"] /\ On /\ UNCHANGED faults
     \/ Now.what = "use" /\ On /\ UNCHANGED <<val, faults>>
     \/ /\ Now.what = "need" /\ UNCHANGED <<val, faults>>
        /\ IF val[Now.r] = "null" THEN Skips(Now.how) ELSE On
     \/ /\ Now.what = "must" /\ UNCHANGED <<val, faults>>
        /\ IF val[Now.r] = "null" THEN Exits ELSE On
     \/ /\ Now.what = "check" /\ UNCHANGED val
        /\ \/ On /\ UNCHANGED faults
           \/ Fault("acquire") /\ IF Now.how = "exit" THEN Exits ELSE Returned
  /\ UNCHANGED disk

DoOp ==
  /\ Busy
  /\ IF Acts THEN DoGet \/ DoMake \/ DoRemove \/ DoDrop \/ DoOther
             ELSE On /\ UNCHANGED <<val, disk, faults>>
  /\ UNCHANGED <<prog, opt, arg, harness, pending, orphan>>

-----------------------------------------------------------------------------
(* benchmp_child() and benchmp_interval()                                  *)

CallsCleanup(to) == Calls(to) /\ arg' = 0

(* benchmp_child_sigterm.  The cleanup that it calls is given the harness' *)
(* record for the program's own (lib_timing.c:571), so that nothing of     *)
(* what the program holds is released before the exit.                     *)
Handler == Calls("told") /\ UNCHANGED arg

(* The number that cleanup(n) is called with: of the interval that ends.   *)
Ending == IF state = "timing" THEN iters ELSE batch

AfterFirst ==
  /\ pc = "first"
  /\ IF pending THEN Handler ELSE Calls("decide") /\ UNCHANGED arg
  /\ UNCHANGED harness

(* The next iteration; or the interval ends.                               *)
AfterBody ==
  /\ pc = "body"
  /\ IF turn < arg THEN at' = 1 /\ turn' = turn + 1 /\ UNCHANGED <<pc, arg>>
                   ELSE Calls("clean") /\ arg' = Ending
  /\ UNCHANGED harness

AfterClean ==
  /\ pc = "clean" /\ Calls("decide") /\ UNCHANGED <<arg, harness>>

(* The switch over state->state, and initialize(iterations).  A child      *)
(* alone resizes its intervals.                                            *)
Interval(st, n) ==
  /\ state' = st
  /\ Calls("init") /\ arg' = n
  /\ UNCHANGED batch

Decide ==
  /\ pc = "decide"
  /\ IF orphan /\ P.hasCleanup
     THEN CallsCleanup("last") /\ UNCHANGED harness
     ELSE \/ state = "warmup" /\ Interval("warmup", batch) /\ UNCHANGED iters
          \/ state = "warmup" /\ Interval("timing", iters) /\ UNCHANGED iters
          \/ /\ state = "timing"
             /\ iters' \in IF batch = 1 THEN 1..MaxN ELSE {iters}
             /\ Interval("timing", iters') \/ Interval("cooldown", batch)
          \/ state = "cooldown" /\ Interval("cooldown", batch) /\ UNCHANGED iters
          \/ /\ state = "cooldown" /\ UNCHANGED harness
             /\ IF P.hasCleanup THEN CallsCleanup("report")
                ELSE Calls("wait") /\ UNCHANGED arg

AfterInit ==
  /\ pc = "init" /\ Calls("body") /\ UNCHANGED <<arg, harness>>

AfterReport ==
  /\ pc = "report" /\ Calls("wait") /\ UNCHANGED <<arg, harness>>

(* The exit byte or end of file; or an error exit.                         *)
Leaves ==
  /\ pc \in {"wait", "last", "give up"}
  /\ Calls(IF pc = "wait" THEN "reported" ELSE "dead")
  /\ UNCHANGED <<arg, harness>>

Returns ==
  /\ ~Busy
  /\ AfterFirst \/ AfterBody \/ AfterClean \/ Decide \/ AfterInit \/ AfterReport \/ Leaves
  /\ UNCHANGED <<prog, opt, val, disk, pending, orphan, faults>>

(* SIGTERM: during initialize(0) the parent's handler is still installed;  *)
(* later the child's ends it.                                              *)
Term ==
  /\ Fault("term") /\ pc \notin {"dead", "failed", "reported", "told", "give up"}
  /\ IF pc = "first"
     THEN pending' = TRUE /\ UNCHANGED <<pc, at, turn, arg>>
     ELSE Handler /\ UNCHANGED pending
  /\ UNCHANGED <<prog, opt, harness, val, disk, orphan>>

ParentDies ==
  /\ Fault("parent") /\ ~orphan /\ orphan' = TRUE /\ pc \notin {"dead", "failed", "reported", "told"}
  /\ UNCHANGED <<prog, opt, pc, at, turn, arg, harness, val, disk, pending>>

ChildNext == DoOp \/ Returns \/ Term \/ ParentDies

ChildSpec == ChildInit /\ [][ChildNext]_vars
-----------------------------------------------------------------------------
(* Properties                                                              *)

TypeOK ==
  /\ prog \in Programs
  /\ <<opt, pending, orphan>> \in BOOLEAN \X BOOLEAN \X BOOLEAN
  /\ pc \in {"first", "decide", "init", "body", "clean", "report", "wait", "last", "give up",
             "told", "reported", "dead", "failed"}
  /\ Busy /\ Now.what # "check" => Now.r \in Resources \union OnDisk
  /\ arg \in 0..MaxN
  /\ state \in {"warmup", "timing", "cooldown"}
  /\ iters \in 1..MaxN /\ batch \in {1, MaxN}
  /\ val \in [Resources -> {"unset", "null", "ok", "gone"}]
  /\ disk \in [OnDisk -> 0..MaxN]
  /\ faults \in 0..MaxFaults

(* Programs that go on without what they could not get.                    *)
Unchecked == {"lat_fs_mk", "lat_fs_rm", "lat_pagefault", "bw_file_rd_open", "lat_ops",
              "par_ops", "lat_ctx_overhead", "stride", "thrash", "dram_page"}

(* A function only works with what its program holds, releases only what   *)
(* has been set, and frees memory once: the guards on `iterations' of      *)
(* initialize, benchmark and cleanup fit together in every order in which  *)
(* the harness calls them.                                                 *)
HoldsWhatItUses ==
  (Acts /\ ~(faults > 0 /\ prog \in Unchecked)) =>
    /\ Now.what = "use" => val[Now.r] = "ok"
    /\ Now.what = "drop" => val[Now.r] # "unset"
    /\ (Now.what = "drop" /\ Now.how \in {"mem", "mem if"}) => val[Now.r] # "gone"

(* A program holds no more after many intervals than after one: nothing is *)
(* got again that has not been released.  lat_mem_rd -t gets its words     *)
(* again for every interval (lib_mem.c:230, :241).                         *)
NoGrowth ==
  (Acts /\ Now.what = "get" /\ prog # "thrash") => val[Now.r] # "ok"

LeftOnDisk == {f \in OnDisk : disk[f] > 0}

(* A program that comes to its end has removed the files and directories   *)
(* that it made, whatever it did without in between; one whose parent dies *)
(* has removed its copy of the file.  lat_fs, whose cleanup(0) does        *)
(* nothing, then leaves its tree (lat_fs.c:240).                           *)
FilesRemoved ==
  /\ pc = "reported" => LeftOnDisk = {}
  /\ (pc = "dead" /\ prog \notin {"lat_fs_mk", "lat_fs_rm"}) => LeftOnDisk = {}

(* lib_timing.c:285: "give the children a chance to clean up gracefully":  *)
(* a program that gets SIGTERM has removed its copy of the file.           *)
CopyRemovedWhenTold == pc = "told" => disk["clone"] = 0
=============================================================================
