# lmbench, specified, model-checked and proved

The repository collects tools around OMAP boards (boot over a serial line,
image signing, build and measurement helpers) and the lmbench3 benchmark suite.
Its program logic is in `src/lmbench3/src`: some seventy C programs that measure
one thing each, and a library, `lib_timing.c` with `bench.h`, that decides how
anything is measured. Every number the suite prints has gone through that
library. It forks processes, synchronises them over pipes, watches them die, and
chooses how long to measure: it is the centre of this project. Around it stand what the
harness measures with: the processes and servers that a benchmark starts, the memory,
descriptors and files it holds between two calls of the harness, the chains of pointers it
walks, the searches of the programs that look for a size, and the way from a command line
to the benchmark.

## 1. Inventory

Line numbers are those of `src/lmbench3/src` unless a path is given.

| Part | State it keeps | Operations | What is hard in it | What makes it correct | Modelled in |
|---|---|---|---|---|---|
| Timing harness: `benchmp`, `benchmp_parent`, `benchmp_child`, `benchmp_interval` (`lib_timing.c` 84-780) | pids, four pipes, `benchmp_sigterm_received`, `benchmp_sigchld_received`, the saved handlers; per child a `benchmp_child_state` | fork the children, collect `ready`, send `start`, collect `done`, ask each child for its record, send `exit`, reap; error exits of both levels; signal handlers | up to hundreds of processes on shared pipes; children, `fork`, `pipe`, `malloc` failing at any point; SIGCHLD, SIGTERM, SIGALRM; the parent's death | all children are loaded while one is timed; records come whole and from one child each; a time is only left by complete records; no child is left behind; a call returns | `Benchmp` |
| Results: `insertsort`, `save_median`, `save_minimum`, `set_results` (1211-1298) | `result_t` records sorted by u/n, the current one, the saved time and count | insert a value, merge records, reduce to one value | ties, zero times, arrays of computed size, integer division | records stay sorted and complete, the reduced value is a middle value | `Results` |
| Interval sizing: `benchmp_interval` 712-742, `BENCH_INNER`, `BENCH1`, `BENCH`, `BENCHO` (`bench.h`) | number of iterations (in `BENCH_INNER` static), last time | run, scale, count, give up | truncation, an end for every cost, what is saved after a resize | the number reported was executed; the sizing ends | `Interval`, `BenchInner` |
| Calibration: `init_timing`, `t_overhead`, `l_overhead`, `get_enough`, `compute_enough` (1310-1560) | `done` and `initialized` flags, cached overheads and length | compute once, on first use | the functions call each other and use the caller's result state | results and time of a measurement in progress survive; the search ends | - |
| Clock: `start`, `stop`, `tvsub`, `tvdelta`, `settime` | two `struct timeval` | subtract with borrow | borrow and negative differences | the time is the difference of the two readings | - |
| Memory walks: `lib_mem.c`, `cache.c` and `line.c` that cut them | a chain of pointers in a buffer, tables of pages, lines and words | make, cut, mend, walk, free | indices modulo numbers of any kind, the closing of the chain | every word that the walk is for is visited once per round | `Walks`, `Lifecycle` |
| Processor placement: `lib_sched.c` | the placement chosen on the command line | CPU for a child and its helpers | bit reversal when the number of CPUs is not a power of two | a CPU that exists | - |
| Transport: `lib_tcp.c`, `lib_udp.c`, `lib_unix.c` | socket, port mapper registration, a static counter of tries | connect with retry, bind, accept | retry after refusal, descriptors of -1 | bounded retries, after which what is measured is known to be nothing | `Streams` |
| Servers over streams: `lat_tcp`, `bw_tcp`, `lat_connect`, `lat_unix_connect` | connections, workers, a size announced by the client | connect, announce, exchange, close, shut down | four conventions for "shut down", workers, what read and write return | the two sides stay in step and do not wait for each other; a client that is served measures transfers; only who is told to ends the server | `Streams` |
| Other socket programs: `lat_udp`, `bw_udp`, `lat_rpc`, `lat_select`, `lat_http` | sequence numbers, descriptors | send, receive, shut down | lost and late datagrams, alarms | client and server stay in step | options and resources only |
| Several processes: `lat_pipe`, `lat_fifo`, `lat_unix`, `lat_sem`, `lat_fcntl`, `lat_ctx`, `bw_pipe`, `bw_unix` | pipes, a socket pair, semaphores, locked files, pids of helpers | fork the helpers, pass a token, transfer, kill and wait | circular waiting, a helper that dies, a failed fork, ends of pipes that stay open | one token; an iteration is a trip round; the benchmark and its helpers end | `Helpers` |
| Programs of one process: system calls, files, mappings, memory, `stream`, `par_ops` | descriptors, memory, mappings, files between the calls of the harness | `initialize`, benchmark, `cleanup` with 0 and with a number | which function acts on which argument; a failure half-way; files after SIGTERM | nothing is used that is not held, freed twice, or got again and again; files are removed | `Lifecycle` |
| Size discovery: `tlb`, `memsize`, `cache` | bounds of a search, samples with latencies and ratios | double, halve, bisect, grow, touch, read off | loops that leave their variable past the end; samples changed during a recursion | the boundary is found; what is reported was touched; ratios agree with latencies | `Tlb`, `MemSize`, `CacheLevels` |
| `line`, `mhz`, `par_mem` | tables of times | fit | floating-point thresholds | - | options, resources, walks |
| Command lines: `getopt.c` and the `main` of forty programs | place in a word, place in `argv`, parallelism | parse, refuse, run | bundled options, missing arguments, options without a case | a program runs with what the words say; `benchmp` gets at least one child | `CommandLine` |
| Disk: `lmdd`, `disk`, `flushdisk`, `seek` | file positions, counts | copy, skip, verify | interaction of options | the requested bytes in order | - |
| HTTP: `lmhttp`, `rhttp` | log, clock string | serve, log | partial reads | one answer per request | - |
| Statistics, debug output, small programs | little | straight-line calls | - | - | - |
| `src/boot/serial-boot.pl`, `omap3430gp-signer.pl`, `boot/*.sh` | serial line, timer | identification, download | timeouts and retries | blocks in order | - |
| Scripts of `lmbench3/scripts`, `scripts/`, `release/`, `setup/`, documentation, recorded results | - | text processing, calls of external tools | - | - | - |

### How the parts interact

A benchmark program parses its options, calls `benchmp(initialize, benchmark,
cleanup, enough, parallel, warmup, repetitions, cookie)`, and prints with
`gettime()` and `get_n()`. With `parallel > 1` benchmp first runs a *baseline*
round with one child, then a round with all of them. In a round the parent forks
the children with four shared pipes: children answer on `response`, the parent
hands out one byte per child on `start_signal`, one byte at a time on
`result_signal`, and one byte per child on `exit_signal`. A child calls the
benchmark over and over, each time with what `benchmp_interval()` returns; that
function is a state machine (`warmup`, `timing_interval`, `cooldown`) which
polls the pipes between two calls. A child keeps its values with `insertsort`,
the parent merges the records with it, `set_results` makes the merged record
current and `save_median` sets what `gettime()` and `get_n()` return. A
benchmark's time of 0 after the baseline means that the round with all children
does not take place. `benchmp_interval` subtracts `t_overhead()` and
`l_overhead()`, which calibrate themselves on first use with the `BENCH` macros
and `insertsort`, on the caller's result state.

The hazards of the code, each at its line and with the properties that watch it,
are in `PROJECT.json` under `hazards`.

The benchmarks that measure several processes fork helpers in `initialize`, work with
them in the benchmark function, and kill them in `cleanup`; the harness calls those three
from its states, and the last from its SIGTERM and SIGCHLD handlers. The benchmarks over TCP and UNIX sockets
work with a server that was started as the same program with `-s` and is ended by the same
program with `-S`. All the others keep descriptors, memory and files in the cookie between
those calls; the walks through memory are laid by an `initialize` of `lib_mem.c`. `tlb`,
`memsize` and `cache` run a search around the measurements.

## 2. Modules

| Module | Models |
|---|---|
| `Benchmp` | the harness: `benchmp`, `benchmp_parent`, `benchmp_child`, `benchmp_interval`, the signal handlers; its properties |
| `MeasurementSession` | what the harness promises, without pipes, signals or processes |
| `BenchmpRefinement` | the mapping under which `Benchmp` implements `MeasurementSession` |
| `BenchmpInv` | the inductive invariants of `Benchmp`: of the handshake, of the records, of a round without faults |
| `BenchmpProofs` | proofs about `Benchmp`: types, handshake, start bytes, records, faultless rounds, refinement |
| `Results`, `ResultsProofs` | the records of one round, their merge and their median; proofs |
| `Sizing` | the arithmetic of interval sizing that `Interval` and `BenchInner` share |
| `Interval` | the sizing of a single child's intervals in `benchmp_interval` |
| `BenchInner` | the macro `BENCH_INNER` |
| `Helpers`, `HelpersProofs` | the benchmarks of several processes: `lat_pipe`, `lat_fifo`, `lat_unix`, `lat_sem`, `lat_fcntl`, `lat_ctx`, `bw_pipe`, `bw_unix`, as the harness runs them; proofs |
| `Streams`, `StreamsProofs` | the servers and clients over TCP and UNIX sockets: `lat_tcp`, `bw_tcp`, `lat_connect`, `lat_unix_connect`; proofs |
| `Lifecycle`, `LifecycleProofs` | what twenty-two programs of one process hold, use and leave behind in the calls of the harness; proofs |
| `Walks`, `WalksProofs` | the layouts of pointers in memory, and how they are cut and mended; proofs |
| `Tlb`, `MemSize`, `CacheLevels`, `Searches` | the searches of `tlb`, `memsize` and `cache`, each by itself, and the module that runs any of them |
| `SearchesProofs` | proofs about the three searches |
| `CommandLine` | `getopt` and the option switch of each program |
| `SingleProcess` | `CommandLine`, `Interval` and `BenchInner`, of which it runs any one |
| `SingleProcessProofs` | proofs about `CommandLine`, `Interval` and `BenchInner`, each of which is one process's own work; no theorem is about two of them |
| `MCBenchmp`, `MCResults`, `MCSingleProcess`, `MCHelpers`, `MCStreams`, `MCLifecycle`, `MCWalks`, `MCSearches` | instances for TLC |

Properties stand at the end of each module. A definition just before another one
with a similar name (`EarlyAllAnswered` before `AllAnswered`, `NotFaster` before
`Faster`) is a mutant: a plausible mistake in that piece of code, which a
property must detect. Nothing refers to it; `PROJECT.json` says which property
it is for.

### Benchmp and the code

The parent is one program counter, `ppc`, over the two functions it runs; `pi` is
the loop variable `i` of whichever loop it is in. A step of the parent is what it
does between two points where the interleaving matters: a turn of the fork loop,
one `select` with its `read`, one write to a pipe, one `kill`, one `waitpid`.
Child *c* is a program counter `cpc[c]` with the fields of `benchmp_child_state`
that control it. Its `select` on a signal pipe and the `read` after it are
separate steps, since other children share the pipe; its record is written byte
by byte, since a write to a pipe may be split when the pipe fills.

A signal pipe is a number of bytes. The response pipe is the sequence of the
writers of its bytes: the bytes carry nothing else, and the writers let the
properties say that a record is whole. A parent that is dead, or has closed its
ends (`open = FALSE`), gives end of file on the signal pipes and SIGPIPE on
`response`; a write of the parent to pipes whose children are all gone gives
SIGPIPE to the parent, which has no handler.

Signals: `chldArmed` and `chldSeen` are the disposition of SIGCHLD and
`benchmp_sigchld_received`; the handler resets the disposition, and so does
`signal(SIGCHLD, SIG_DFL)` at the end of a round. `termHandler`, `savedTerm` and
`termSeen` are the disposition of SIGTERM, `benchmp_sigterm_handler` and
`benchmp_sigterm_received`. SIGTERM to a child is pending (`term`) until a step of
its own delivers it.

Faults, each of which may happen at any point while fewer than `MaxFaults` have:
a child ends (`child`), `fork` fails (`fork`), a `pipe` fails (`pipe`), a `malloc`
fails (`alloc`), the user sends SIGTERM to the parent (`term`), the parent is
killed (`parent`).

Abstracted: what a benchmark does, its times (a single child's interval may or may
not count, and it may give up: `Interval` is about that), the warmup sleep, the
contents of records (`Results`), `_DEBUG` output, processor placement, and the
parts of a child that work on the caller's cookie (`Helpers` and `Lifecycle` are about
those).

### Results and the code

Values are records `[u, n]`; a `result_t` is the sequence of its first `N` values.
`InsertSort` is `insertsort` with its scan (`Place`) and its shift (`InsertAt`); the
comparison of quotients of doubles is the comparison of cross products. An interval
of time 0 is counted by the child and dropped by `insertsort`. Several children
all keep the number of iterations of the baseline; a single child may change its
number between intervals. The parent's merge is a step per value. Which child
answers a result byte is open, so `Collect` takes any of them.

### Sizing, Interval and BenchInner and the code

An iteration costs a whole number of eighths of a tick, and a time is a whole
number of ticks as `stop()` returns whole microseconds. `Interval` has one step per
interval, with the whole case `timing_interval`: the value is kept before the
interval is resized. `BenchInner` has one step per pass of the `while` loop, one for
`save_n` and `settime`, and one for the next use of the macro, whose static
`__iterations` goes on. The cost is net of `l_overhead()`, and `Overhead` in
`Interval` is `t_overhead()`. A benchmark of
`Interval` is the set of what its iterations may cost, with one element if it is steady;
the body of `BenchInner` is steady.

### Helpers and the code

Process 0 is a child of `benchmp()`, the others are the helpers that its `initialize`
forks. The eight programs differ in little, so each is a record: what the benchmark
function does in one iteration (`body`), what a helper does over and over (`turn`), who
holds which end of which channel, what follows end of file on either side, what
`initialize` does when `fork()` fails, which pids `cleanup` kills, with what signal, and
whether it closes its descriptors first. One set of actions carries a record out: the
turns of the fork loop, `initialize`'s trip, the iterations of an interval, the harness's
calls between intervals, the cleanup, and each helper's turn. The channels hold tokens
(a byte, or a transfer of `bw_pipe` and `bw_unix`); a semaphore is a channel that the
system keeps open; the locks of `lat_fcntl`'s files have owners. A read of a pipe without
writers is end of file, a write to one without readers is SIGPIPE, computed from who is
alive and has not closed its end.

The program runs in a baseline round, where SIGTERM ends a child with a cleanup, or in
the round with several children, where the child has inherited a handler that only sets
a flag (`killed_child` below). The cleanup that SIGTERM brings about gets the
harness's own record instead of the program's cookie (`lib_timing.c:571`): the helpers' pids
are not where the function looks, so that it touches no helper. Faults: a `fork` fails, a helper dies, the child gets SIGTERM, or SIGKILL, or
its parent dies.

### Streams and the code

A peer is a client (a child of `benchmp`) or a stopper (the program with `-S`). The model
has its connections, one for `lat_tcp` and `bw_tcp` and one for each iteration for the
other two, with the stream in both directions and the state of both ends. Servers of the
first kind fork a worker for each connection; the first bytes that it reads are the size
of a message, or the order to end. Those of the second kind accept, read, and close, one
connection after the other.

A message is `msize` parts, what `-m` asks for; 0 stands for `-m 0` and for the negative sizes,
which `lat_tcp` takes too. A `read()` takes any number of the parts that have arrived, and
`lat_tcp` looks at none of the numbers that `read` and `write` return: the worker answers each
read of at least a part with a whole message, and ends at one that returns nothing, which is
also what a message of no parts gives. Only the first read of a worker, of the four bytes of
the size, is assumed to bring them all.

`connect` fails without a listener, and with one when the ports are used up or the connection
is reset (`ConnectFails`). For ECONNREFUSED, ECONNRESET and EAGAIN `tcp_connect` tries again,
counts in a static variable, and returns -1 at last; for anything else, also of the port mapper,
it exits, as `unix_connect` always does (`Refused`). With -1 the clients go on: `sock` is then
`None`, reads and writes fail, and an iteration made of them is counted. A socket goes on
listening as long as a worker has inherited it.

What has happened on a connection is kept in sets: `sized` (the size was written), `short` (a
read brought part of a message), `hollow` (an iteration without any transfer was counted on it),
`crashed` (its worker died), `told` (it has told the server to end).

Faults: a client dies anywhere (`die`); a worker dies, which is also what `doserver` does when
its unchecked `malloc` fails (`crash`, `lat_tcp.c:161`); the server's `fork` fails (`fork`); a
connection is refused by a living server, as often as it may be (`connect`); the server's alarm,
or a death, ends it (`expire`). Not modelled: the death of a stopper; the client's own unchecked
`malloc` (`lat_tcp.c:101`), after which its reads and writes fail on a connection that stands; and that
`kill(getppid(), SIGTERM)` goes to `init` when the server has ended before.

### Lifecycle and the code

A program is a record of six sequences of operations: the parts of `initialize` for no
iterations, for any number, and for some; one iteration of the benchmark; the parts of
`cleanup` for no iterations and for some. An operation gets, uses, or releases a resource
(memory, a descriptor, a mapping), tests it for NULL, or makes or removes a file, and
says what follows when it fails: exit, return, a cleanup, or nothing at all. A call in
progress is a place (`at`) in such a sequence (`Text`), and `turn` is the iteration of the
benchmark, or the repetition of an operation that is done for each iteration. An operation for
an option is passed over in a program without it, a failed test skips the operations it
guards. The module makes the harness's calls: `initialize(0)`; then `initialize(n)`, `benchmark(n)`,
`cleanup(n)` for each interval, with `n` from 1 to `MaxN`; `cleanup(0)` at the end. SIGTERM
may come between any two operations: the cleanup that its handler calls gets the harness's
record for the program's own (`lib_timing.c:571`), releases nothing that the program
holds, and the program exits. Faults: something cannot
be got, SIGTERM, and the parent's death, which the child notices between two intervals and
which leads to a `cleanup(0)` with the right cookie.

### Walks and the code

`mem` is what each word of the buffer points to; the layouts of `lib_mem.c` and
`lat_dram_page.c` are written as the pointers that their loops write, in their
order, the last one to a word standing: a loop is a function from its counters to a word
and its pointer, and `Store` lets the latest counters win. The order of the pages is an input
and may be any without a repetition, since the code permutes them with `rand()`; pages and
lines are powers of two, as in the code. A layout is laid, then (for `line_test`
and `cache`'s `measure`) cut to some lines of some pages, and mended.

### Tlb, MemSize, CacheLevels and the code

What a measurement says is open: two walks compared (`Tlb`), whether `malloc()` succeeds
and a range is touched in time (`MemSize`), a latency (`CacheLevels`, where 0 is a
measure that failed). The steps are turns of the loops; the recursion of `search()` is a
stack of the calls that are still to be made, with what they have read before. `MemSize`
takes sizes in sixty-fourths of a megabyte.

### CommandLine and the code

`getopt` is modelled letter by letter, with its two places (`optind`, and `n` in the
word) kept between calls as in the code. A program is a record of the letters of its
option string, those without a case of their own, those whose argument is tested, those
after which it ends, and what it asks of the operands.

## 3. Runs

Passing runs (`name`: constants; what it shows):

- `handshake`: three children, two repetitions, records of two bytes, a response
  pipe of two bytes, any two faults, benchmp called for the first time or again.
  The load is complete while a child is timed (`LoadDuringTiming`), all timing has
  ended before a child reports (`AllStoppedBeforeReport`), records are whole and of
  one child (`ResultsUnmixed`), a time is left only by one whole record of each
  child (`TimedIsComplete`), the read after a poll of the start pipe does not block
  (`StartNeverBlocks`), without faults no error exit is taken
  (`ManagedChildrenLive`), every child is waited for (`NoneLeft`), and every step is a
  step of `MeasurementSession` or a stutter (`ImplementsSession`).
- `returns`: one child with a cleanup function, a response pipe of one byte, first
  call, any two faults: the call returns or the parent is dead (`Returns`), and then the
  child ends (`OrphansEnd`).
- `results`: a baseline whose intervals may differ in their number of iterations, or a
  round of two children, with four repetitions and times 0 to 3: records and merged
  record are sorted (`Sorted`), fit their arrays (`Fits`), the merge loses no value
  (`NothingLost`), and the median has at least half of the values on either side
  (`MedianIsMiddle`), except for an even number of values of a single child (see the next
  section).
- `single_process`: command lines and the two sizing loops, each by itself. Forty programs with some 5200
  command lines of up to two words of options and some operands: the program runs with what the
  words mean (`ParsedAsMeant`).
  Steady benchmarks of 65 costs, from none to five times the length wanted, and
  one whose cost changes between intervals: of both, what is kept was measured
  (`KeptAsExecuted`), and one scaling reaches the length unless the benchmark has become
  cheaper (`OneScalingIsEnough`); of a steady one, the sizing ends (`Settles`). The same steady bodies in
  `BENCH_INNER`, used again and again: every use ends (`Ends`), and the number of iterations
  reported is within a factor of two of those executed (`GetNWithinTwo`).
- `helpers`: the eight programs of several processes, `lat_ctx` with a ring of three,
  channels of two tokens, any one fault. The token stays one (`OneToken`); an iteration
  that is counted is a trip round (`EveryIterationIsATrip`); no cleanup kills every process
  of the user (`NeverKillsAll`); the benchmark comes to its end, also when a helper, the
  parent or the child itself is hit, where the code can notice it (`BenchmarkEnds`); and the
  helpers end (`HelpersEnd`).
- `streams`: two clients and a stopper of each of the four programs, two iterations,
  a server or none, messages of two parts or of none, one retry, one fault. `lat_tcp` is in step
  at the beginning of each iteration until a read on its connection has been short
  (`InStepUntilShort`), and its two sides never both wait in `read` with nothing under way, short
  reads or not (`NeverBothWait`). An iteration that transferred nothing is counted for one of four
  reasons (`HollowOnlyUnserved`): the client got no connection; the message is empty; the server
  ended before it forked a worker for the client; the worker died. That the server is shut down,
  while a worker serves the client, is none. Only a stopper ends a server, or a client of `lat_tcp` that
  has not written its size (`OnlyToldToEnd`).
- `streams_end`: the same with fair processes and one part of room in each direction. Every client
  ends (`ClientsEnd`) and a stopper that has a connection ends the server and all who listen with it
  (`ToldToEnd`), but for what the two name: a connection after a failed `fork`, a worker
  that died, and two sides of `lat_tcp` that block in `write` because short reads have filled both
  directions (`Stuck`).
- `lifecycle`: twenty-two programs, intervals of up to three iterations, two faults.
  Nothing is used that is not held, and nothing freed twice (`HoldsWhatItUses`);
  nothing is got again that was not released (`NoGrowth`); files are removed
  (`FilesRemoved`).
- `walks`: all layouts on pages of eight words, lines of one, two and four words, up to
  three pages in any order (up to nine for the TLB's walk, in a few orders): the walk visits
  every word it is for and no other, and comes back, whether whole, cut or mended
  (`WalksThroughAll`); the walk of `find_tlb` takes one load a page (`OnePagePerLoad`).
- `searches`: `tlb` from 4 to 24 pages; `memsize` with 302 amounts of memory and sizes asked
  for that are and are not powers of two; `cache` with seven samples of four latencies.
  What `tlb` prints is a boundary (`BoundaryFound`); `memsize` finds the greatest size
  (`LargestFound`) and reports only what was touched (`ReportedIsTouched`); the ratios from
  which `cache` reads its levels belong to the latencies it has kept (`RatiosAgree`).

Two runs find a violation:

- `killed_child` (`lib_timing.c:222`): `benchmp` never puts SIGTERM's disposition
  back. In the round after the baseline, and in a second call of `benchmp`, the
  handler it saves is its own `benchmp_sigterm`; the children install that instead
  of `benchmp_child_sigterm`, a SIGTERM only sets a flag in them, and an error exit
  waits for ever for a child that was to be killed. It happens when a child dies in a
  round with several children while another is in its measurement loop.
- `hot_potato` (`lat_tcp.c:163`): `lat_tcp` passes a message back and forth (`lat_tcp.8:29`), so that
  nothing of it should be under way when a client begins an iteration (`BackAndForth`). With a
  message of two parts the worker may read one of them and answer with two; the client, which reads
  once, goes on to the next iteration with parts of the last one under way in both directions.

### Statements of the documentation that the code does not keep

The modules also state these, with the place of the statement in a comment. No run checks
them; each is violated in the instance given here (where a constant is not named, it
is as in the run of the module).

| Definition | What is said | What the code does | Instance |
|---|---|---|---|
| `Benchmp!AllRanBeforeTiming` | children run the benchmark before timing starts (`lmbench3.ms:681-702`) | a child answers `ready` in its first call of `benchmp_interval`, before it has called the benchmark (`lib_timing.c:709`); the warmup sleep makes the difference small, and `LoadDuringTiming`, which counts a child from `ready` on, holds | two children, `Faults <- NoFaults` |
| `Benchmp!ChildFailureIsHandled` | a child's failure leads to the error exit | an only child that dies in the warmup sleep ends the program by SIGPIPE (`lib_timing.c:404`) | one child, `Faults <- OnlyChild` |
| `Benchmp!CleanedUpOnce` | cleanup is called once at the end | a child that waits for its exit byte has cleaned up, and SIGTERM makes it call the function again (`lib_timing.c:571`), with the harness's record for a cookie | one child, `Faults <- OnlyUserTerm` |
| `Results!MedianIsBetween` | the median of the values | of an even number of values with different numbers of iterations, the averages of the times and of the numbers are not a value between them (`lib_timing.c:1291`) | `Parallel = 1`, `Repetitions = 2` |
| `BenchInner!GetNIsExecuted` | `get_n()` is the number of iterations timed | a body of 48 ms, where 50 are wanted, is run once; the loop ends because 48 is above 0.95 of 50, but `__iterations` has been resized to 2 because it is below 0.99 (`bench.h:248`) | `Costs <- OneCost` |
| `Helpers!LocksAlternate` | only one of client and server runs at a time (`lat_fcntl.8`) | the benchmark's process can lock and unlock its files twice before the helper gets its turn | `Programs = {"lat_fcntl"}`, `Procs = 2`, `Room = 1` |
| `Helpers!LateChildIsKilled` | children that have not died in time are killed (`lib_timing.c:301`) | in the round after the baseline the helper of `lat_fifo` has inherited a handler that only sets a flag, so that the SIGTERM of the cleanup does not end it and the cleanup waits for ever (`lat_fifo.c:128`); what the parent sends to a late child is SIGTERM too, with the same effect | `Programs = {"lat_fifo"}`, `Faults = {}` |
| `Helpers!GracefulCleanup` | SIGTERM gives children a chance to clean up (`lib_timing.c:285`) | the cleanup of the handler has another cookie than the benchmark's, and helpers that nothing else ends live on | `Faults = {"term"}` |
| `Lifecycle!CopyRemovedWhenTold` | the same | for the same reason `bw_file_rd -C` and `bw_mmap_rd -C` leave their copy of the file | `Faults = {"term"}` |

Other places where the code does not do what it looks like, and what the models do about
it:

- `lib_mem.c:235`, `:241`: `lat_mem_rd -t` allocates its table of words for every interval
  (`NoGrowth` leaves it out). The table is no permutation for a number of words that
  is not a power of two (`WalksThroughAll` asks for sizes that suit). Line 314 does not
  go on with the line of a page in the next, and a width above the number of pointers
  divides by zero.
- `lat_fs.c:240`: `cleanup(0)` does nothing, so `lat_fs` leaves its tree when its parent
  dies (left out of `FilesRemoved`); line 72 uses `av[1]`; `-n 1` never ends, and `-n 0`
  divides by zero.
- `cache.c:303` drops good samples and may go below index 0; `:194` may read `r[-1]`; with
  `-L`, `state.line` is not set (137); `:569` saves `sizeof(int)` bytes of a page's table.
- `memsize`: with a size that is not a power of two the search stops short
  (`LargestFound` leaves it out), and a failing `fork` counts as a failing `malloc`; for
  sizes just below a megabyte more is touched than was allocated.
- `lat_tcp`: a client that dies before it has sent the size of its messages shuts the
  server down (`lat_tcp.c:167`; named in `OnlyToldToEnd`). After short reads (163, the run
  `hot_potato`) the parts that are left over can fill both directions, and client and worker
  block in `write` for ever (`Stuck`, named in `ClientsEnd` and `ToldToEnd`). When the
  server's `fork` fails, the connection stays open and the client hangs (140; the same in
  `bw_tcp`; named in `ClientsEnd`). A socket of -1 is measured like any other (100), also while the
  server lives; with `-m 0` the worker ends at its first read (163) and the client measures
  calls that transfer nothing (all three named in `HollowOnlyUnserved`).
- `lat_fcntl`, `lat_sem`, `lat_pipe` and `lat_unix` would send SIGKILL to pid -1, that is to
  everybody, if their cleanup ran after a failed `fork`; `NeverKillsAll` shows that a
  single fault does not lead there.
- Command lines: `lat_connect` prints its usage and exits at the `-P` and `-W` that `lat_connect.8`
  offers (62-63: the letters are in its string and have no case), and uses `av[optind]`
  of `-S` unchecked; `line` and `lat_dram_page` accept `-a` without a case; `lat_usleep` has
  a case for `P` that its string lacks; `lat_udp -m` takes negative sizes; `-N 0` reaches
  `lib_timing.c:357`.
- `lat_sig` measures one iteration less than it is asked for (31, 61); `bw_udp` mixes byte
  orders, and its `-S` does not end the server.

### Bounds

*Benchmp.* Two children are the least with interleaving, three let one child die, one
be slow and one take the slow one's byte. Two repetitions make an interval that is
not the last. A record of two bytes, in a pipe of two, can be split among reads and
make a writer block. Two faults cover a failure during the handling of a failure.
The baseline and the round after it are both in every behaviour with two or three
children. `freed`, `startB`, `resultB`, `exitB` are bounded by the protocol; `faults`
by `MaxFaults`. The children are not symmetric, because the loops over pids take them
in order. The liveness run uses one child, since three are out of
reach of TLC's liveness check in reasonable time.

*Results.* Times 0 to 3 and counts 1 and 2 give zero times, ties of equal and of
different values, and ratios that order differently from times. Four
repetitions, of which some may be dropped or given up, have records of odd and even length
and insertions at both ends and in the middle.

*Interval, BenchInner.* `Enough` is 100 ticks, so that the tests at 0.95, 0.99 and
1.2 are exact. `Clear` (150 microseconds in the code, 3 ticks here) is coarser than
in the code relative to `Enough`, which makes truncation matter more, not less.
`Limit` and `FewLimit` are smaller than 2^27 and 2^20, and like them a power of 8 and a
number between two powers. 65 costs cover each case of the code: never told, told after some
multiplications by 8,
told at once, longer than wanted.

*Helpers.* Three processes are the least ring of `lat_ctx` in which a token can be
somewhere else than at the benchmark or its neighbour; the other programs have one helper
whatever `Procs` is. Two tokens of room let the writer of `bw_pipe` run ahead and block. One
fault: each kind is met at every point of every program. Two faults are a real restriction: with a failed
`fork` and then the parent's death `lat_pipe` calls the cleanup that kills pid -1
(`lat_pipe.c:119`), so that `NeverKillsAll` is about single faults and says so. The number of
intervals is not bounded: the states repeat.

*Streams.* Two clients and a stopper are the least in which one client works while
another dies and the server is told to end. The second iteration shows what is left of the
first. A message of two parts is the least of which a read can return less; 0 is the
size at which a read returns nothing. Two parts of room hold a message, so that the next can follow it; one
part of room, in `streams_end`, makes a writer block within a message, which is what `Stuck` needs.
One retry has a refused connection, a try that succeeds and one that does not. One fault is
each kind at every point, and a stopper ends the server besides; the proofs are for any number.
`streams_end` leaves out the refusals by a living server: they are counted like the others, and lead a peer
to the states to which refusals without a server lead it.

*Lifecycle.* Three iterations let an interval be longer than the one before and
shorter; two faults let a program go on after a failure and be told to end then.

*Walks.* Pages of eight words hold one, two, four and eight lines; three pages are the least
whose order is more than a rotation; every length from a word to three pages is tried, so
that ends fall within lines and pages. *Searches.* 24 pages give the doubling a last step
inside and outside of the range and halvings of odd and even intervals; four latencies give
samples that differ, agree, and failed. *CommandLine.* Two words of options, bundled in
every pair of letters, reach every way in which `getopt` moves its places on.

### Fairness and termination

`Benchmp`'s `FairSpec` has weak fairness for the parent, for its alarm while it waits in
`waitpid` (the timer is set before the wait), for each child and for the delivery of a pending
SIGTERM: the kernel runs every runnable process and delivers signals. Strong fairness
is assumed for one thing, that a single child's interval comes to count: `Interval`
is the justification, where `Settles` shows it of a steady benchmark. No fairness is
assumed for faults. `Interval` and `BenchInner` have weak fairness of their only process, and claim an end for
steady benchmarks only.

`Helpers` has weak fairness for the child, its alarm, the delivery of its signals and each
helper, and strong fairness for the end of an interval and for the harness's request for
the results, which are enabled again and again while the benchmark loops: `Benchmp` shows
that the harness asks. A token that is taken by two who wait for it is not assumed
to be shared fairly. `Streams` has weak fairness for the server, each peer and each peer's worker;
a connection in the backlog is accepted because the server runs. The other modules have
no fairness and claim no liveness.

Deadlock is not checked. A finished call, a finished round of results, a settled
interval, a program that has ended and a search with its answer stop, and in `Benchmp` the
wait of `killed_child` stops as well; that something waits for ever where it should not is
what `Returns`, `OrphansEnd`, `Settles`, `Ends`, `BenchmarkEnds`, `HelpersEnd`, `ClientsEnd`
and `ToldToEnd` exclude.

## 4. Proofs

The theorems hold for every value of the constants that satisfies the assumption of the
module (numbers that are positive where the code needs them so, programs that exist, pages and
lines that are powers of two, command lines that are sequences of words): every number of
children, repetitions, record size, pipe capacity and faults, of clients and stoppers, every
set of times and counts, every ring, all sizes and outcomes of measurements, pages in every
order, messages of any size, intervals of any length, and every command line. Three have a
hypothesis more: `ScalingSuffices` and `NeverFarOff` on lengths of time and `SparesOthers`
on the number of faults; each is explained below.

| Module | Theorems, with the property that each states |
|---|---|
| `BenchmpProofs` | `TypeInvariant`, `TypeCorrect` (`TypeOK`), `HandshakeInvariant`, `Load` (`LoadDuringTiming`), `Stopped` (`AllStoppedBeforeReport`), `Waits` (`NoneLeft`), `StartBytes` (`StartNeverBlocks`), `RecordsInvariant`, `Unmixed` (`ResultsUnmixed`), `Complete` (`TimedIsComplete`), `Managed` (`ManagedChildrenLive`), `Implements` (`ImplementsSession`) |
| `ResultsProofs` | `RecordInvariant`, `AlwaysSorted` (`Sorted`), `AlwaysFits` (`Fits`), `RecordsKept`, `LosesNothing` (`NothingLost`), `ReturnsTheMiddle` (`MedianIsMiddle`) |
| `SingleProcessProofs` | `KeptWasMeasured` (`KeptAsExecuted`), `ScalingSuffices` (`OneScalingIsEnough`), `NeverFarOff` (`GetNWithinTwo`), `PlacesInRange`, `AtLeastOneChild` (`ParallelIsPositive`), `WordsAreParsed` (`ParsedAsMeant`) |
| `HelpersProofs` | `StatesInvariant`, `PassesOneToken` (`OneToken`), `EveryTripIsRound` (`EveryIterationIsATrip`), `SparesOthers` (`NeverKillsAll`) |
| `StreamsProofs` | `StreamsInvariant`, `TcpInvariant`, `StaysInStep` (`InStepUntilShort`), `NeverBothWaiting` (`NeverBothWait`), `HollowUnserved` (`HollowOnlyUnserved`), `ToldByStoppers` (`OnlyToldToEnd`) |
| `SearchesProofs` | `SearchInvariant`, `FindsBoundary` (`BoundaryFound`), `NeverTimedTwice`, `TouchedInTime` (`ReportedIsTouched`), `WithinAMegabyte` (`LargestFound`), `AllRatiosAgree` (`RatiosAgree`) |
| `LifecycleProofs` | `LifeInvariant`, `ProgramsHoldWhatTheyUse` (`HoldsWhatItUses`), `ProgramsDoNotGrow` (`NoGrowth`), `ProgramsRemoveTheirFiles` (`FilesRemoved`), `TypesOfALife` (`TypeOK`) |
| `WalksProofs` | `WalksInvariant`, `WalksGoThroughAll` (`WalksThroughAll`), `OnePageEachLoad` (`OnePagePerLoad`) |

That `benchmp` is always asked for at least one child (`ParallelIsPositive`) is proved only, and no run
checks it. Every safety property that a passing run checks, and the refinement, is proved: of the
harness, the results, the two sizing loops, the benchmarks with helpers, the streams, the
searches, the programs of one process, the walks and the command lines.

*Types of the harness.* `TypeOK` contains bounds that are not inductive: a child keeps at
most `Repetitions` results because it leaves the measurement at the last one (`Room`),
and `pi` stays in range because of where the parent is in its loops (`InLoop`). `TypeInv` is
the conjunction.

*Why the handshake invariant is what it is.* The parent does not know whose bytes it
counts, so the properties do not follow from where the parent is alone. `Counts` bounds
the bytes counted and in the pipe by the *number* of children that have written one;
when `np` are counted, that set of children is all of them, which `Phases` then carries
through the later stages (`AllReady`, `AllCool`). `ChildShape` ties a child's place in
its code to its state, so that a child in `run` is known to have answered. `ForkedSoFar`
says what each loop over pids has left behind, for three loops in two directions; it is
what `Waits` needs, and it also shows that a failed round starts the next with no
child. The death of the parent closes the pipes and lets every child go on alone, so
`Sync` is only claimed while the parent is not dead.

*The start bytes.* A child polls and then reads, and others may read in between; that
`StartNeverBlocks` is inductive neither alone nor with `IInv`. `Granted` is what is missing:
once there are start bytes, there are at least as many as children that will still take
one, those that have polled (`startread`) and those that are warming up. The parent writes
one for each child at once, a child that takes one leaves that set, and one that dies leaves
it without taking one.

*The records.* `Records` says whose bytes there are. While the parent asks, nobody writes.
While it collects, either the result byte is still in its pipe and no child that has not been
collected has written anything (`AllSilent`), or one child has taken it: then what is read and
what waits in the pipe together are the bytes which that child has written, and no other has
written any (`Writing`). A child that dies in the middle of its record leaves that as it is,
and the parent never sees a whole one. `Merging` counts: each turn of the loop merges one
record, of a child that has written all of it, so that after `np` turns all children are
collected, and that is all that `timed` needs. A round that fails has merged fewer
(`Unfinished`), whichever error exit it takes.

*A round without faults.* `Calm` says of every child of such a round that it is alive and
that no SIGTERM is on its way to it, up to the exit bytes, and that no SIGCHLD has been
seen. A child only ends for want of its parent, for SIGTERM, by a fault, or with its exit
byte; the first needs a parent that has ended, the second an error exit.

*The refinement.* `Implements` shows that the mapped start is one of `MeasurementSession`, and that
each step of the harness is a step of it or leaves `np`, `TeamPhase` and `TeamVerdict` alone. The
session's guards are the properties: a worker begins when nobody is `out` (from `Phases`), reports
when all have stopped and no other reports (from `OneWriter`), and the verdict is `ok` when all
have reported (from `Merging` and `SentShape`). There is a lemma for the steps in which a child
moves (`ChildMaps`), which are the session's or invisible, and one for each of the parent's that
changes the verdict or the team; every step into an error exit fails the session.

*The results.* The lemmas about `insertsort` show that an insertion into a descending record
is descending, and that it changes how often a value is there only by the one that is
inserted; transitivity of the order by quotients is the one fact with non-linear
arithmetic. `Kept` says that the merged record has each value as often as the places
which the parent has read (`Balanced`), and that all values of a round of several children
have the same number of iterations (`AllProper`). That is why the median of an even number of
them, the mean of the two in the middle, lies between those two.

*Sizing.* `ScalingSuffices` holds under the condition that 15 hundredths of `Enough` are at least the
overhead and one tick: the tenth that is added to the scale has to make up for the
truncation of the time, of the number of iterations, and for the overhead. The run has
100 and 1; the code's `Enough` is at least some hundred times its overhead. `NeverFarOff` holds
under `LongAgainstClear`: eight times the time that is just too short to be told must be below 2.2
times the length wanted (the code has 150 microseconds against the 5000 of `SHORT` at least). Its
invariant `Fits` is that number: no pass of more than one iteration takes longer than
2.2 times the length wanted, because a number of iterations is either scaled to 1.1 of that
length or the eightfold of one that took next to no time; and from 2.2 down to 1.1 is a
factor of two. The loop may also end after it has resized; then the time was above 0.95 of the
length, and the resized number is not above twice it either.

*Helpers.* `States` says where the processes are in their programs. It needs to know of each
program that its operations name channels that exist, that a turn returns to one of its
operations, and that there is a helper (`IsProgram`). The token of a ring is at one place
(`OnTrip`): in one channel, or with one process whose next operation puts it. The channels
on its way are numbered, and a token in channel *k* has been with every helper up to *k*, so
that it can only come back to the benchmark when all of them have had a turn
(`EveryTripIsRound`). Deaths and failures can only lose a token. `lat_sem` moves its token
between two semaphores in one operation (`IsSwap`). `SparesOthers` is about single faults, like
the property. A `fork` that failed was that fault; the benchmark then ends at once, or has only
its own ends of the channels, on which nothing ever arrives, while nobody ends it (`Stuck`). With
two faults it is false: when the parent dies after the `fork` failed, the child calls the
cleanup.

*The streams.* `StreamsInv` is about all four programs: a peer works on its own open
connection (`OwnSocket`); the order to end, and any byte where any byte is that order, is under way
from stoppers only, followed from the peer that wrote it (`OrderedByStoppers`); a peer of a forking
server closes at its end only (`ClosedAtEnd`); and a peer without a socket never gets the connection on
which it has counted nothing (`Fresh`), so that "no connection" stays true of it. `OnlyToldToEnd` needs
that a client of `lat_tcp` that is taken for a stopper never writes its size later: it is at its
end, and stays there (`Told`, `DoneIsDone`).

*One message.* The invariant of `lat_tcp`, `Tcp`, counts: what is under way in both directions, the size of
the messages not counted, and what the worker has still to write, are together at least the parts that the client
has written in this iteration, and exactly as many until a read was short (`Turns`, with `Balance`
and `Due`). A worker takes *n* parts and owes `msize`, a client takes *n* and goes on as if it had taken all:
each adds to the balance what its read was short of, and never less. At the beginning of
an iteration nothing is due, so that before a short read nothing is under way (`StaysInStep`); while
the client reads a whole message is due, so that something is under way or owed (`NeverBothWaiting`).
It holds on connections whose server's side is not closed; of the others `ClosedWhy` gives the reason
for which `HollowUnserved` asks. That a connection waits once, has no worker before it is taken,
and has one as long as it is open (`Queued`, `Served`), and that the size comes before the parts
(`SizeFirst`), make a worker begin with the size.

*The searches.* In `tlb`, the lower end of the interval was not slow, or is the half of the first
number; the upper was; nothing between them has been timed. In `memsize`, what was touched in time is
the range before its last growth; when the range has passed the size, no whole megabyte of it is left.
For the size that is found, on the way down the size is a power of two of which the double was too
much (`Halved`), on the way up twice the next part would be too much (`Narrowed`, with `Exhausted`),
and the last part is a megabyte. In `cache`, the calls of `search` that are still to be made lie in a row
from the first sample to where the work is done, nothing within them has been measured, and all ratios
beyond agree (`Pending`); a call that overwrites a bad sample does so at its left end, where the
ratio of the call to its left is still to come.

*Command lines.* The words of a command line are those that cannot be left out: `Begins` is the
least set of places that contains the first and, with a word of options, the place after it and
after what it takes from the next word. That set has no recursion, and it is what getopt's steps
can be followed along: `Parsed` says that `optind` is one of its places, that the words before it
are all of options and have been gone over, and that the parallelism is the last `-P` among them;
`InWord` says that within a word only letters without an argument are behind it. The step from one
word to the next is where the two meet (`ValueStep` for an argument that is the rest of the word or
the next word). An argument of `-P` that is not refused is positive, in every program that has a
case for it (`IsRow`, read off the table).

*The walks.* Three facts about numbers carry them. Reversing bits twice changes nothing, so that
`words_initialize` visits every word or line of a page once. Of what a loop writes, a word has what
the latest counters wrote, and where no two write the same word it has what any did (`Store`). A
set of words that a pointer leads round in the order of a numbering, each one of the numbers from 0
on, is visited once by as many loads, and the next is at the start. A layout is then a numbering
of its words, by the line, the page and the place in the line. For `line_test` and `measure()` the
invariant `WalksInv` says which links stay as they were laid: every line of a page, but the last of
those it is cut to, is linked to the next within the page, whatever pages have been swapped, and
the last ones lead from page to page when the walk is cut; that is all that mending and the next
cut rely on.

*The programs of one process.* A class says of each variable that it is held, is NULL, or may be
either. Each place of each text has the class (`At`) that the operations before it make of the
class at the beginning of the call: nothing for `initialize(0)`, what is kept between two intervals
(`Between`), or what is held during one (`During`). That every operation of a program may be done
in its class, that a test which skips operations skips only what does not matter then
(`NeedFits`), and that each call ends in the class with which the next begins (`ProgramFits`), is
read off the texts, program by program, once for all runs of them. The invariant, `LifeInv`, says that
the state is as the class of the place that was reached (`Match`); a program that goes on without
what it could not get may have NULL for what it should hold, once there was a fault. The files of
`lat_fs` are counted by iterations (`MostFiles`): there are none but those of the interval, and each
iteration, or each turn of the cleanup, makes or removes one, so that the directory is empty when it is
to be removed. `TypesOfALife` needs that too: there are never more files than iterations.

*Corrections that came out of the proofs.* Two definitions had a CASE whose guards overlap, of
which TLA+ leaves open which one is taken (TLC takes the first): what a peer does after `connect`
in `Streams`, and what a walk is promised to visit in `Walks`. Both are now conditionals in the code's
order. `Helpers` and `Lifecycle` assume that the programs they are given are among those they have.
What the words of a command line mean was a recursive function over words and letters, a second
`getopt` in effect; it is now the least closed set above. The loops of `Walks` were recursive, and
are functions of their counters; that the orders of pages do not repeat a page, and that lines and
pages are powers of two, was true of the instance and is now assumed in the open. `Lifecycle` computed
what a program still had to do from its sequences of operations, and now keeps the place in the
text, as the program does.

Only model-checked:

- all liveness (`Returns`, `OrphansEnd`, `Settles`, `Ends`, `BenchmarkEnds`, `HelpersEnd`,
  `ClientsEnd`, `ToldToEnd`), which is out of the prover's reach.

## 5. Not modelled, and why

- Calibration and clock: `init_timing`, `t_overhead`, `l_overhead`, `get_enough` run once,
  in one process, in an order that two flags fix; a model would be one path through
  measured times. `start`, `stop` and the subtraction of time stamps are straight-line
  arithmetic.
- `BENCH`, `BENCH1`, `BENCHO` around `BENCH_INNER`: a loop with `insertsort`, and the
  subtraction of an overhead; no program uses `BENCHO` (which reads values that may not
  exist, `bench.h:190`).
- Datagrams and RPC: `lat_udp`, `bw_udp`, the RPC server, `lib_udp`, the port mapper. The
  client's only answer to a loss is the alarm that ends it. `lat_select`'s forked server and
  `lat_http`, `lmhttp`, `rhttp`: a fork for each connection or request and a sequence of
  system calls.
- Bandwidth loops, the rounding of sizes, and what any benchmark measures: no control.
- The choice of pages in `test_chunk` and `fixup_chunk` of `cache`, `line_find`, `par_mem`,
  `mhz`, `lib_stats`: decisions by floating-point thresholds on measured times, which a
  model could only choose at random.
- The job control of `lat_proc` and `lat_pmake`, the timers of `lat_usleep`.
- Processor placement: a function of the environment, the number of the child and of CPUs.
- Disk: `lmdd`, `disk`, `flushdisk`, `seek`: one loop of raw I/O each.
- `getopt`'s optional arguments (`|` and `;`), which no program asks for; debug output;
  small programs without state.
- `src/boot`: the other side of the protocol is a boot ROM that is not in the repository.
  The shell and text-processing scripts, documentation, recorded results: no concurrent or
  lasting state of their own.
