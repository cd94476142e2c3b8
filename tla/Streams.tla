------------------------------ MODULE Streams ------------------------------
(***************************************************************************)
(* The servers over TCP and UNIX sockets and their clients: lat_tcp,       *)
(* bw_tcp, lat_connect and lat_unix_connect.  A client is a child of       *)
(* benchmp(): `initialize' connects, the benchmark function works on the   *)
(* connection (lat_connect and lat_unix_connect connect in every           *)
(* iteration), `cleanup' closes it.  A stopper is the program with -S.     *)
(* The first two have a server that forks a worker for each connection,    *)
(* the others serve one connection after the other.                        *)
(*                                                                         *)
(* A message is as many parts as the program was asked for: a read()       *)
(* returns what has arrived, and need not be a whole message.              *)
(***************************************************************************)
EXTENDS Naturals, Sequences, FiniteSets

CONSTANTS
  Kinds,       \* which programs
  Clients, Stoppers,
  Iterations,  \* how often a client goes round
  Sizes,       \* the parts of a message: -m; 0 is also a negative size
  Room,        \* how many parts a direction of a connection holds
  Retries,     \* how many refused connections tcp_connect takes (10)
  Faults, MaxFaults

KindNames == {"lat_tcp", "bw_tcp", "lat_connect", "lat_unix_connect"}
FaultKinds == {"die", "fork", "expire", "connect", "crash"}

ASSUME StreamsAssumption ==
  /\ Kinds \subseteq KindNames
  /\ Clients \cap Stoppers = {}
  /\ Iterations \in Nat \ {0} /\ Sizes \subseteq Nat /\ Room \in Nat \ {0}
  /\ Retries \in Nat /\ MaxFaults \in Nat
  /\ Faults \subseteq FaultKinds

Peers == Clients \union Stoppers
Conns == Peers \X (1..Iterations)
None == <<>>

VARIABLES
  kind, msize,
  server,    \* "accept", "read", "dead"
  at,        \* the connection that a serial server reads from
  backlog,   \* connections nobody has accepted
  worker,    \* the worker of each connection: "none", "first", "read", "write", "gone"
  owes,      \* parts that it has still to write
  up, down,  \* what is under way to the server's side, and from it
  mine,      \* the peer's end of each connection: "none", "open", "closed"
  theirs,    \* the other: "none", "queued", "open", "leaked", "closed"
  pc,        \* where a peer is
  iter,      \* its iteration
  sock,      \* its connection, or None for a descriptor of -1
  tries,     \* the static variable of tcp_connect
  rest,      \* parts that it has still to write or to read
  faults,
  \* What has happened on which connections:
  sized,     \* the size has been written
  short,     \* a read of lat_tcp has returned less than a message
  hollow,    \* a client has counted an iteration that transferred nothing
  crashed,   \* the worker has died
  told       \* it has told the server to end

program == <<kind, msize>>
serverVars == <<server, at, backlog, worker, owes>>
peerVars == <<pc, iter, sock, tries, rest>>
connVars == <<up, down, mine, theirs>>
history == <<sized, short, hollow, crashed, told>>
vars == <<program, serverVars, connVars, peerVars, faults, history>>

Forks == kind \in {"lat_tcp", "bw_tcp"}
PerIteration == ~Forks

Init ==
  /\ kind \in Kinds /\ msize \in Sizes /\ (kind # "lat_tcp" => msize > 0)
  /\ server \in {"accept", "dead"} /\ at = None /\ backlog = <<>>
  /\ worker = [c \in Conns |-> "none"] /\ owes = [c \in Conns |-> 0]
  /\ up = [c \in Conns |-> <<>>] /\ down = [c \in Conns |-> <<>>]
  /\ mine = [c \in Conns |-> "none"] /\ theirs = [c \in Conns |-> "none"]
  /\ pc = [p \in Peers |-> "connect"] /\ iter = [p \in Peers |-> 1]
  /\ sock = [p \in Peers |-> None] /\ tries = [p \in Peers |-> 0]
  /\ rest = [p \in Peers |-> 0] /\ faults = 0
  /\ sized = {} /\ short = {} /\ hollow = {} /\ crashed = {} /\ told = {}

Fault(f) == f \in Faults /\ faults < MaxFaults /\ faults' = faults + 1
-----------------------------------------------------------------------------
(* Connections                                                             *)

Working(c) == worker[c] \in {"first", "read", "write"}

(* A worker does not close the descriptor that its server listens with.    *)
Listening == server # "dead" \/ \E c \in Conns : Working(c)

(* The server's side of c's stream has gone, or c's own.                   *)
Broken(c) == theirs[c] = "closed"
Finished(c) == mine[c] = "closed"

Put(q, c, x) == [q EXCEPT ![c] = Append(@, x)]
Take(q, c) == [q EXCEPT ![c] = Tail(@)]

(* What happens to the ends of connections when the processes `gone' end:  *)
(* with the last that listens, those in the backlog are reset.             *)
EndsWithout(alive, cs) ==
  [c \in Conns |-> IF \/ c \in cs
                      \/ ~alive /\ theirs[c] = "queued"
                   THEN "closed" ELSE theirs[c]]

-----------------------------------------------------------------------------
(* The peers                                                               *)

Goes(p, to) == pc' = [pc EXCEPT ![p] = to]
Current(p) == <<p, iter[p]>>

(* An iteration of a client ends.                                          *)
NextIteration(p, again) ==
  IF iter[p] < Iterations
  THEN iter' = [iter EXCEPT ![p] = @ + 1] /\ Goes(p, again)
  ELSE UNCHANGED iter /\ Goes(p, IF PerIteration THEN "done" ELSE "close")

SaysNothing(p) ==
  IF p \notin Stoppers /\ Forks THEN "size" ELSE "close"

(* What follows tcp_connect or unix_connect.  bw_tcp first writes the size *)
(* of a message, and so does lat_tcp; a stopper of lat_tcp writes nothing. *)
AfterConnect(p) ==
  IF p \in Stoppers THEN IF kind = "lat_tcp" THEN "close" ELSE "stop"
  ELSE IF Forks THEN "size" ELSE "close"

Connect(p) ==
  /\ pc[p] = "connect" /\ Listening
  /\ backlog' = Append(backlog, Current(p))
  /\ mine' = [mine EXCEPT ![Current(p)] = "open"]
  /\ theirs' = [theirs EXCEPT ![Current(p)] = "queued"]
  /\ sock' = [sock EXCEPT ![p] = Current(p)]
  /\ tries' = [tries EXCEPT ![p] = 0]
  /\ Goes(p, AfterConnect(p))
  /\ UNCHANGED <<program, server, at, worker, owes, up, down, iter, rest, faults,
                 history>>

(* connect() fails without a listener, and with one when the ports are used *)
(* up or the connection is reset.                                          *)
ConnectFails == ~Listening \/ "connect" \in Faults

RetriesForever(p) ==
  /\ pc[p] = "connect" /\ ConnectFails
  /\ IF kind = "lat_unix_connect" THEN Goes(p, "exit") ELSE UNCHANGED pc
  /\ UNCHANGED <<program, serverVars, connVars, tries, sock, iter, rest, faults, history>>

(* unix_connect exits, and so does tcp_connect for what is not worth a     *)
(* retry; else it tries again, and at last returns -1, which only bw_tcp's *)
(* client looks at.                                                        *)
Refused(p) ==
  /\ pc[p] = "connect" /\ ConnectFails
  /\ \/ Goes(p, "exit") /\ UNCHANGED <<tries, sock>>
     \/ /\ kind # "lat_unix_connect"
        /\ tries' = [tries EXCEPT ![p] = IF @ > Retries THEN @ ELSE @ + 1]
        /\ IF tries[p] < Retries
           THEN UNCHANGED <<pc, sock>>
           ELSE /\ sock' = [sock EXCEPT ![p] = None]
                /\ Goes(p, IF kind = "bw_tcp" /\ p \in Clients THEN "exit"
                           ELSE AfterConnect(p))
  /\ UNCHANGED <<program, serverVars, connVars, iter, rest, faults, history>>

(* A write of one token: on a connection that the other side has closed it *)
(* is lost, fails, or ends the process with SIGPIPE.  bw_tcp's client      *)
(* exits if it fails.                                                      *)
Writes(p, token, then) ==
  \/ /\ sock[p] # None /\ ~Broken(sock[p]) /\ Len(up[sock[p]]) < Room
     /\ up' = Put(up, sock[p], token) /\ Goes(p, then)
  \/ /\ sock[p] # None /\ Broken(sock[p]) /\ UNCHANGED up
     /\ \/ Goes(p, then) \/ Goes(p, "exit")
  \/ sock[p] = None /\ Goes(p, then) /\ UNCHANGED up

SendSize(p) ==
  /\ pc[p] = "size"
  /\ Writes(p, "size", IF kind = "lat_tcp" THEN "write" ELSE "read")
  /\ rest' = [rest EXCEPT ![p] = msize]
  /\ sized' = sized \union {c \in Conns : up'[c] # up[c]}
  /\ UNCHANGED <<program, serverVars, down, mine, theirs, iter, sock, tries, faults,
                 short, hollow, crashed, told>>

(* A stopper writes "0", and ends.                                         *)
SendStop(p) ==
  /\ pc[p] = "stop"
  /\ Writes(p, "0", "close")
  /\ UNCHANGED <<program, serverVars, down, mine, theirs, iter, sock, tries, rest, faults,
                 history>>

(* doclient: write(sock, buf, msize), whatever it returns.                 *)
ClientWrites(p) ==
  /\ pc[p] = "write"
  /\ \/ rest[p] > 1 /\ Writes(p, "part", "write")
        /\ rest' = [rest EXCEPT ![p] = @ - 1]
     \/ rest[p] = 1 /\ Writes(p, "part", "read") /\ UNCHANGED rest
     \/ msize = 0 /\ Goes(p, "read") /\ UNCHANGED <<up, rest>>
     \/ msize = 0 /\ sock[p] # None /\ Broken(sock[p]) /\ Goes(p, "exit")
        /\ UNCHANGED <<up, rest>>
  /\ UNCHANGED <<program, serverVars, down, mine, theirs, iter, sock, tries, faults, history>>

Least(a, b) == IF a < b THEN a ELSE b
Most(c, q) == Least(msize, Len(q[c]))

(* What a read() of n parts of a message has cut short.                    *)
CutShort(c, n) == short' = short \union {d \in {c} : n < msize}

(* Where an iteration is counted: on the peer's connection, or on the one  *)
(* that it has not got.                                                    *)
CountedOn(p) == IF sock[p] = None THEN Current(p) ELSE sock[p]

(* doclient: read(sock, buf, msize), which takes between one part and all  *)
(* that has arrived.                                                       *)
ClientReads(p) ==
  /\ pc[p] = "read" /\ kind = "lat_tcp"
  /\ rest' = [rest EXCEPT ![p] = msize]
  /\ \/ /\ sock[p] # None /\ down[sock[p]] # <<>>
        /\ \E n \in 1..Most(sock[p], down) :
             /\ down' = [down EXCEPT ![sock[p]] = SubSeq(@, n + 1, Len(@))]
             /\ CutShort(sock[p], n)
        /\ UNCHANGED hollow
     \/ /\ sock[p] # None /\ msize > 0 => (down[sock[p]] = <<>> /\ Broken(sock[p]))
        /\ hollow' = hollow \union {CountedOn(p)} /\ UNCHANGED <<down, short>>
  /\ NextIteration(p, "write")
  /\ UNCHANGED <<program, serverVars, up, mine, theirs, sock, tries, faults,
                 sized, crashed, told>>

(* loop_transfer: read until `todo' is 0, or exit.                         *)
ClientTransfers(p) ==
  /\ pc[p] = "read" /\ kind = "bw_tcp"
  /\ \/ /\ down[sock[p]] # <<>>
        /\ \E n \in 1..Most(sock[p], down) :
             /\ down' = [down EXCEPT ![sock[p]] = SubSeq(@, n + 1, Len(@))]
             /\ IF n < rest[p]
                THEN rest' = [rest EXCEPT ![p] = @ - n] /\ UNCHANGED <<pc, iter>>
                ELSE rest' = [rest EXCEPT ![p] = msize] /\ NextIteration(p, "read")
     \/ /\ down[sock[p]] = <<>> /\ Broken(sock[p])
        /\ Goes(p, "exit") /\ UNCHANGED <<down, rest, iter>>
  /\ UNCHANGED <<program, serverVars, up, mine, theirs, sock, tries, faults, history>>

(* close(): of cleanup, of an iteration that only connects, of a stopper.  *)
CloseSock(p) == mine' = IF sock[p] = None THEN mine ELSE [mine EXCEPT ![sock[p]] = "closed"]
Closes(p) ==
  /\ pc[p] = "close"
  /\ CloseSock(p)
  /\ sock' = [sock EXCEPT ![p] = None]
  /\ IF p \in Clients /\ PerIteration
     THEN /\ hollow' = hollow \union {c \in {CountedOn(p)} : sock[p] = None}
          /\ NextIteration(p, "connect")
     ELSE Goes(p, "done") /\ UNCHANGED <<iter, hollow>>
  /\ UNCHANGED <<program, serverVars, up, down, theirs, tries, rest, faults,
                 sized, short, crashed, told>>

(* Its end closes what a process has open.                                 *)
Ends(p) ==
  /\ pc[p] = "exit" /\ CloseSock(p)
  /\ Goes(p, "done") /\ sock' = [sock EXCEPT ![p] = None]
  /\ UNCHANGED <<program, serverVars, up, down, theirs, iter, tries, rest, faults, history>>

(* A child of benchmp() may be killed anywhere.                            *)
Dies(p) ==
  /\ Fault("die") /\ p \in Clients /\ pc[p] \notin {"exit", "done"}
  /\ Goes(p, "exit")
  /\ UNCHANGED <<program, serverVars, connVars, iter, sock, tries, rest, history>>

Peer(p) ==
  \/ Connect(p) \/ Refused(p) \/ SendSize(p) \/ SendStop(p)
  \/ ClientWrites(p) \/ ClientReads(p) \/ ClientTransfers(p) \/ Closes(p) \/ Ends(p)

-----------------------------------------------------------------------------
(* The server                                                              *)

(* It takes a connection; a forking server closes its own copy, except     *)
(* when fork() has failed.                                                 *)
Accept(c) ==
  /\ server = "accept" /\ backlog # <<>> /\ c = Head(backlog)
  /\ backlog' = Tail(backlog)
  /\ IF Forks
     THEN \/ /\ worker' = [worker EXCEPT ![c] = "first"]
             /\ theirs' = [theirs EXCEPT ![c] = "open"] /\ UNCHANGED <<server, at, faults>>
          \/ /\ Fault("fork") /\ theirs' = [theirs EXCEPT ![c] = "leaked"]
             /\ UNCHANGED <<server, at, worker>>
     ELSE /\ server' = "read" /\ at' = c
          /\ theirs' = [theirs EXCEPT ![c] = "open"] /\ UNCHANGED <<worker, faults>>
  /\ UNCHANGED <<program, owes, up, down, mine, peerVars, history>>

Held == {c \in Conns : theirs[c] = "leaked" \/ (at # None /\ c = at)}

(* lat_connect and lat_unix_connect: a byte ends the server.               *)
SerialReads ==
  /\ server = "read"
  /\ \/ /\ up[at] # <<>> /\ server' = "dead" /\ told' = told \union {at}
        /\ theirs' = EndsWithout(FALSE, Held) /\ backlog' = <<>>
     \/ /\ up[at] = <<>> /\ Finished(at) /\ server' = "accept"
        /\ theirs' = [theirs EXCEPT ![at] = "closed"] /\ UNCHANGED <<told, backlog>>
  /\ at' = None
  /\ UNCHANGED <<program, worker, owes, up, down, mine, peerVars, faults,
                 sized, short, hollow, crashed>>

(* SIGTERM to the server, and GO_AWAY's alarm after an hour.               *)
ServerEnds(others) ==
  /\ server' = "dead" /\ at' = None
  /\ backlog' = IF others THEN backlog ELSE <<>>

Expire ==
  /\ Fault("expire") /\ server # "dead"
  /\ LET others == \E c \in Conns : Working(c)
     IN  ServerEnds(others) /\ theirs' = EndsWithout(others, Held)
  /\ UNCHANGED <<program, worker, owes, up, down, mine, peerVars, history>>

(* A worker ends.                                                          *)
Leaves(c) ==
  LET alive == server # "dead" \/ \E d \in Conns \ {c} : Working(d)
  IN  /\ worker' = [worker EXCEPT ![c] = "gone"]
      /\ theirs' = EndsWithout(alive, {c})
      /\ backlog' = IF alive THEN backlog ELSE <<>>
      /\ UNCHANGED <<server, at, told>>

(* A worker dies, or has no memory for a message.                          *)
Crashes(c) ==
  /\ Fault("crash") /\ Working(c) /\ Leaves(c)
  /\ crashed' = crashed \union {c}
  /\ UNCHANGED <<program, owes, up, down, mine, peerVars, sized, short, hollow>>

(* kill(0, SIGTERM).                                                       *)
KillsGroup(c) ==
  /\ ServerEnds(FALSE)
  /\ worker' = [d \in Conns |-> IF Working(d) THEN "gone" ELSE worker[d]]
  /\ theirs' = EndsWithout(FALSE, {d \in Conns : Working(d)} \union Held)
  /\ told' = told \union {c}

(* kill(getppid(), SIGTERM); exit(0): the parent is init if the server has *)
(* ended.                                                                  *)
Shutdown(c) ==
  LET others == \E d \in Conns \ {c} : Working(d)
  IN  /\ ServerEnds(others)
      /\ worker' = [worker EXCEPT ![c] = "gone"]
      /\ theirs' = EndsWithout(others, {c} \union Held)
      /\ told' = told \union {c}

EchoesSize(c) ==
  /\ worker[c] = "first"
  /\ \/ /\ up[c] # <<>> /\ up' = Take(up, c)
        /\ IF Head(up[c]) = "0" THEN Shutdown(c) /\ UNCHANGED owes
           ELSE /\ worker' = [worker EXCEPT ![c] = "write"]
                /\ owes' = [owes EXCEPT ![c] = msize]
                /\ UNCHANGED <<server, at, backlog, theirs, told>>
     \/ /\ up[c] = <<>> /\ Finished(c) /\ UNCHANGED <<up, owes>>
        /\ IF kind = "lat_tcp" THEN Shutdown(c) ELSE Leaves(c)
  /\ UNCHANGED <<program, down, mine, peerVars, faults, sized, short, hollow, crashed>>

(* doserver and source: a connection without data, or the size 0, says     *)
(* shut down.                                                              *)
First(c) ==
  /\ worker[c] = "first"
  /\ \/ /\ up[c] # <<>> /\ up' = Take(up, c)
        /\ IF Head(up[c]) = "0" THEN Shutdown(c) /\ UNCHANGED owes
           ELSE /\ worker' =
                     [worker EXCEPT ![c] = IF kind = "lat_tcp" THEN "read" ELSE "write"]
                /\ owes' = [owes EXCEPT ![c] = msize]
                /\ UNCHANGED <<server, at, backlog, theirs, told>>
     \/ /\ up[c] = <<>> /\ Finished(c) /\ UNCHANGED <<up, owes>>
        /\ IF kind = "lat_tcp" THEN Shutdown(c) ELSE Leaves(c)
  /\ UNCHANGED <<program, down, mine, peerVars, faults, sized, short, hollow, crashed>>

(* A read of a message is at the end, or of size 0.                        *)
ReadsNothing(c) == msize = 0 \/ (up[c] = <<>> /\ Finished(c))

ToldByEveryEnd(c) ==
  /\ worker[c] = "read"
  /\ \/ /\ up[c] # <<>>
        /\ \E n \in 1..Most(c, up) :
             up' = [up EXCEPT ![c] = SubSeq(@, n + 1, Len(@))] /\ CutShort(c, n)
        /\ worker' = [worker EXCEPT ![c] = "write"] /\ owes' = [owes EXCEPT ![c] = msize]
        /\ UNCHANGED <<server, at, backlog, theirs, told>>
     \/ /\ ReadsNothing(c) /\ Shutdown(c) /\ UNCHANGED <<up, owes, short>>
  /\ UNCHANGED <<program, down, mine, peerVars, faults, sized, hollow, crashed>>

OnlyWhole(c) ==
  /\ worker[c] = "read"
  /\ \/ /\ up[c] # <<>>
        /\ \E n \in 1..Most(c, up) :
             /\ up' = [up EXCEPT ![c] = SubSeq(@, n + 1, Len(@))] /\ CutShort(c, n)
             /\ worker' = [worker EXCEPT ![c] = IF n < msize THEN @ ELSE "write"]
        /\ owes' = [owes EXCEPT ![c] = msize]
        /\ UNCHANGED <<server, at, backlog, theirs, told>>
     \/ /\ ReadsNothing(c) /\ Leaves(c) /\ UNCHANGED <<up, owes, short>>
  /\ UNCHANGED <<program, down, mine, peerVars, faults, sized, hollow, crashed>>

(* doserver: for each read, of at least a part, a whole message; a read of *)
(* nothing, at the end or of a message of size 0, ends the worker.         *)
WorkerReads(c) ==
  /\ worker[c] = "read"
  /\ \/ /\ up[c] # <<>>
        /\ \E n \in 1..Most(c, up) :
             up' = [up EXCEPT ![c] = SubSeq(@, n + 1, Len(@))] /\ CutShort(c, n)
        /\ worker' = [worker EXCEPT ![c] = "write"] /\ owes' = [owes EXCEPT ![c] = msize]
        /\ UNCHANGED <<server, at, backlog, theirs, told>>
     \/ /\ ReadsNothing(c) /\ Leaves(c) /\ UNCHANGED <<up, owes, short>>
  /\ UNCHANGED <<program, down, mine, peerVars, faults, sized, hollow, crashed>>

(* Writing to a client that has gone ends the worker.  source() writes on  *)
(* and on.                                                                 *)
WorkerWrites(c) ==
  /\ worker[c] = "write"
  /\ \/ /\ ~Finished(c) /\ Len(down[c]) < Room
        /\ down' = Put(down, c, "part")
        /\ IF owes[c] > 1 THEN owes' = [owes EXCEPT ![c] = @ - 1] /\ UNCHANGED worker
           ELSE /\ owes' = [owes EXCEPT ![c] = msize]
                /\ worker' =
                     [worker EXCEPT ![c] = IF kind = "lat_tcp" THEN "read" ELSE "write"]
        /\ UNCHANGED <<server, at, backlog, theirs, told>>
     \/ Finished(c) /\ Leaves(c) /\ UNCHANGED <<down, owes>>
  /\ UNCHANGED <<program, up, mine, peerVars, faults, sized, short, hollow, crashed>>

Serves == SerialReads \/ \E c \in Conns : Accept(c)
Worker(c) == First(c) \/ WorkerReads(c) \/ WorkerWrites(c)

Next ==
  \/ \E p \in Peers : Peer(p) \/ Dies(p)
  \/ \E c \in Conns : Worker(c) \/ Crashes(c)
  \/ Serves \/ Expire

Spec == Init /\ [][Next]_vars

(* Every process that can go on goes on.                                   *)
FairSpec ==
  /\ Spec /\ WF_vars(Serves)
  /\ \A p \in Peers :
       WF_vars(Peer(p)) /\ WF_vars(\E i \in 1..Iterations : Worker(<<p, i>>))
-----------------------------------------------------------------------------
(* Properties                                                              *)

(* A client of lat_tcp is at the beginning of an iteration.                *)
Begins(p) ==
  /\ kind = "lat_tcp" /\ pc[p] = "write" /\ rest[p] = msize
  /\ sock[p] # None /\ ~Broken(sock[p])

(* Nothing of a message is under way on a connection or to be written.     *)
AtRest(c) ==
  /\ down[c] = <<>> /\ worker[c] # "write"
  /\ \A i \in 1..Len(up[c]) : up[c][i] # "part"

(* lat_tcp passes a message back and forth (lat_tcp.8): when a client      *)
(* begins an iteration nothing of the last one is under way.  The code     *)
(* does not keep this: a read() may return part of a message.              *)
BackAndForth == \A p \in Clients : Begins(p) => AtRest(sock[p])

(* It is only the short reads: until the first one on its connection a     *)
(* client of lat_tcp begins each iteration with nothing of the last one    *)
(* under way, whatever other clients, the server and its alarm do.         *)
InStepUntilShort ==
  \A p \in Clients : Begins(p) /\ sock[p] \notin short => AtRest(sock[p])

(* However short the reads are, client and worker of lat_tcp never both    *)
(* wait for the other: each part that was written is answered.             *)
NeverBothWait ==
  \A p \in Clients :
    /\ kind = "lat_tcp" /\ msize > 0 /\ pc[p] = "read"
    /\ sock[p] # None /\ worker[sock[p]] = "read"
    => up[sock[p]] # <<>> \/ down[sock[p]] # <<>>

(* No client looks at what read() and write() return, and an iteration     *)
(* that has transferred nothing is counted like any other.  But the end of *)
(* the server does not spoil the measurement of a client that is served:   *)
(* there was no connection, or nothing to transfer, or the server ended    *)
(* before it forked the client's worker, or the worker died.               *)
HollowOnlyUnserved ==
  \A c \in hollow :
    mine[c] = "none" \/ msize = 0 \/ (worker[c] = "none" /\ server = "dead") \/ c \in crashed

(* Only a stopper ends the server, whatever clients come, work and die, or *)
(* a client of lat_tcp that has not written the size of its messages.      *)
OnlyToldToEnd == \A c \in told : c[1] \in Stoppers \/ (kind = "lat_tcp" /\ c \notin sized)

(* The two sides of a connection of lat_tcp wait for each other to read:   *)
(* what short reads have left fills both directions.                       *)
Stuck(c) ==
  /\ kind = "lat_tcp" /\ pc[c[1]] = "write" /\ sock[c[1]] = c /\ worker[c] = "write"
  /\ Len(up[c]) = Room /\ Len(down[c]) = Room

(* A connection that nobody serves: fork() has failed, and the server has  *)
(* its descriptor open, or the server has ended, and the worker of one     *)
(* that is stuck listens on.                                               *)
Abandoned(c) ==
  theirs[c] = "leaked" \/ (theirs[c] = "queued" /\ server = "dead" /\ \E d \in Conns : Stuck(d))

(* Every client comes to its end, also when the server is shut down or     *)
(* ends while it works, unless it is stuck or nobody serves it.            *)
ClientsEnd ==
  <>(\A p \in Clients :
       pc[p] = "done" \/ (sock[p] # None /\ (Stuck(sock[p]) \/ Abandoned(sock[p]))))

(* A stopper that has got its connection ends the server, and in the end   *)
(* no process of the server is left to listen, unless a worker is stuck or *)
(* the stopper's own has died.                                             *)
ToldToEnd ==
  \A s \in Stoppers :
    mine[<<s, 1>>] = "open" ~>
      \/ ~Listening \/ theirs[<<s, 1>>] = "leaked" \/ <<s, 1>> \in crashed
      \/ \E c \in Conns : Stuck(c)
=============================================================================
