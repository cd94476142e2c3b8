--------------------------- MODULE StreamsProofs ---------------------------
(***************************************************************************)
(* Proofs about Streams, for any number of clients, stoppers, iterations,  *)
(* retries and faults, and for messages of any size.  There are two        *)
(* inductive invariants: StreamsInv, about the connections of all four     *)
(* programs, and Tcp, about lat_tcp: the balance of what is under way on a *)
(* connection, and why the server's side closes.  The properties follow    *)
(* from them, or are invariants with their help.                           *)
(***************************************************************************)
EXTENDS Streams, SequenceTheorems, TLAPS

Places == {"connect", "size", "stop", "write", "read", "close", "exit", "done"}
Ended == {"exit", "done"}

\* What can be under way to the server on a connection.
Messages(c) == {"size", "part"} \union (IF c[1] \in Stoppers THEN {"0"} ELSE {})

TypeInv ==
  /\ kind \in KindNames /\ msize \in Nat
  /\ server \in {"accept", "read", "dead"}
  /\ server = "read" => at \in Conns /\ kind \notin {"lat_tcp", "bw_tcp"}
  /\ up \in [Conns -> Seq({"size", "part", "0"})]
  /\ down \in [Conns -> Seq({"part"})]
  /\ mine \in [Conns -> {"none", "open", "closed"}]
  /\ theirs \in [Conns -> {"none", "queued", "open", "leaked", "closed"}]
  /\ pc \in [Peers -> Places]
  /\ iter \in [Peers -> 1..Iterations]
  /\ sock \in [Peers -> Conns \union {None}]
  /\ hollow \subseteq Conns /\ told \subseteq Conns

\* The connection that a peer works on is its own and open.
OwnSocket ==
  \A p \in Peers : sock[p] # None => sock[p][1] = p /\ mine[sock[p]] = "open"

\* The order to end is only under way from stoppers, and nothing else is where
\* any byte is that order.
OrderedByStoppers ==
  /\ \A p \in Peers : pc[p] = "stop" => p \in Stoppers
  /\ \A c \in Conns : up[c] \in Seq(Messages(c))
  /\ ~Forks => /\ \A p \in Peers : pc[p] \notin {"size", "write", "read"}
               /\ \A c \in Conns : up[c] # <<>> => c[1] \in Stoppers

\* With a forking server a peer has one connection, which it closes at its end.
ClosedAtEnd == Forks => \A c \in Conns : mine[c] = "closed" => pc[c[1]] = "done"

\* A connection of an iteration that has had its chance to connect.
Past(c) == c[2] <= iter[c[1]] /\ (pc[c[1]] = "connect" => c[2] < iter[c[1]])

\* A peer without a socket has no connection of this iteration, and never gets
\* the one on which it has counted nothing.
Fresh ==
  /\ \A c \in Conns : mine[c] # "none" =>
       /\ Past(c)
       /\ sock[c[1]] = None /\ pc[c[1]] \notin Ended => c[2] < iter[c[1]]
  /\ \A c \in hollow : Past(c)

StreamsInv == TypeInv /\ OwnSocket /\ OrderedByStoppers /\ ClosedAtEnd /\ Fresh
-----------------------------------------------------------------------------
(* A connection is a pair of a peer and one of its iterations.             *)
LEMMA NoneIsNoConnection == None \notin Conns
  BY DEF None, Conns

\* A connection belongs to a peer and one of its iterations.
LEMMA OwnerIsPeer == \A c \in Conns : c[1] \in Peers /\ c[2] \in Nat
  BY StreamsAssumption DEF Conns

\* The connection of this iteration is its own.
LEMMA CurrentIsOwn ==
  ASSUME TypeInv, NEW p \in Peers
  PROVE  Current(p) \in Conns /\ Current(p)[1] = p /\ Current(p)[2] = iter[p] /\ iter[p] \in Nat
  BY StreamsAssumption DEF TypeInv, Current, Conns

(* What remains of a queue holds what the queue held.                      *)
LEMMA Rest ==
  ASSUME NEW S, NEW q \in Seq(S), NEW n \in Nat, n <= Len(q)
  PROVE  /\ SubSeq(q, n + 1, Len(q)) \in Seq(S)
         /\ Len(SubSeq(q, n + 1, Len(q))) = Len(q) - n
  <1>1. \A i \in (n + 1)..Len(q) : q[i] \in S
    BY ElementOfSeq
  <1>2. Len(q) \in Nat
    BY LenProperties
  <1> QED  BY <1>1, <1>2, SubSeqProperties

\* A read takes no more than there is, and no more than a message.
LEMMA MostFacts ==
  ASSUME TypeInv, NEW S, NEW q \in [Conns -> Seq(S)], NEW c \in Conns, NEW n \in 1..Most(c, q)
  PROVE  n \in Nat /\ n <= Len(q[c]) /\ n <= msize /\ Len(q[c]) \in Nat
  <1>1. Len(q[c]) \in Nat /\ msize \in Nat
    BY LenProperties DEF TypeInv
  <1> QED  BY <1>1 DEF Most, Least

\* The invariant holds at the start.
LEMMA InitInv == Init => StreamsInv
  <1> SUFFICES ASSUME Init PROVE StreamsInv
    OBVIOUS
  <1> USE StreamsAssumption
  <1>1. TypeInv
    BY EmptySeq DEF Init, TypeInv, Places
  <1>2. OrderedByStoppers
    BY EmptySeq DEF Init, OrderedByStoppers
  <1>3. OwnSocket /\ ClosedAtEnd /\ Fresh
    BY OwnerIsPeer DEF Init, OwnSocket, ClosedAtEnd, Fresh
  <1> QED  BY <1>1, <1>2, <1>3 DEF StreamsInv

(* What an action leaves alone keeps these conjuncts.                      *)
LEMMA StutterInv == StreamsInv /\ UNCHANGED vars => StreamsInv'
  BY DEF StreamsInv, TypeInv, OwnSocket, OrderedByStoppers, ClosedAtEnd, Fresh, Past, Forks,
         vars, program, serverVars, peerVars, connVars, history

(* A step of a peer that does not connect.                                 *)
LEMMA FreshStep ==
  ASSUME StreamsInv, NEW p \in Peers, NEW i \in Nat, i >= iter[p],
         iter' = [iter EXCEPT ![p] = i],
         \A q \in Peers : q # p => pc'[q] = pc[q] /\ sock'[q] = sock[q],
         pc'[p] = "connect" => i > iter[p] \/ pc[p] = "connect",
         \/ sock'[p] = sock[p] \/ pc'[p] \in Ended
         \/ i > iter[p] \/ pc[p] = "connect",
         pc[p] \in Ended => pc'[p] \in Ended,
         \A c \in Conns : mine'[c] # "none" => mine[c] # "none",
         \A c \in hollow' :
           \/ c \in hollow
           \/ c \in Conns /\ c[1] = p /\ c[2] <= iter[p] /\ pc[p] # "connect"
  PROVE  Fresh'
  <1>1. /\ iter'[p] = i /\ iter[p] \in Nat
        /\ \A q \in Peers : q # p => iter'[q] = iter[q]
        /\ \A q \in Peers : iter[q] \in Nat
    BY StreamsAssumption DEF StreamsInv, TypeInv
  <1>2. ASSUME NEW c \in Conns, Past(c) \/ (c[1] = p /\ c[2] <= iter[p] /\ pc[p] # "connect")
        PROVE  Past(c)'
    <2>1. c[1] \in Peers /\ c[2] \in Nat
      BY OwnerIsPeer
    <2>2. CASE c[1] = p
      BY <1>1, <1>2, <2>1, <2>2 DEF Past
    <2>3. CASE c[1] # p
      BY <1>1, <1>2, <2>1, <2>3 DEF Past
    <2> QED  BY <2>2, <2>3
  <1>3. ASSUME NEW c \in Conns, mine'[c] # "none", sock'[c[1]] = None, pc'[c[1]] \notin Ended
        PROVE  c[2] < iter'[c[1]]
    <2>1. /\ c[1] \in Peers /\ c[2] \in Nat /\ Past(c)
          /\ sock[c[1]] = None /\ pc[c[1]] \notin Ended => c[2] < iter[c[1]]
      BY <1>3, OwnerIsPeer DEF StreamsInv, Fresh
    <2>2. CASE c[1] = p
      BY <1>1, <1>3, <2>1, <2>2 DEF Past
    <2>3. CASE c[1] # p
      BY <1>1, <1>3, <2>1, <2>3
    <2> QED  BY <2>2, <2>3
  <1>4. \A c \in Conns : mine'[c] # "none" => Past(c)'
    BY <1>2 DEF StreamsInv, Fresh
  <1>5. \A c \in hollow' : Past(c)'
    BY <1>2 DEF StreamsInv, TypeInv, Fresh
  <1> QED  BY <1>3, <1>4, <1>5 DEF Fresh

\* Connect keeps the invariant.
LEMMA ConnectInv ==
  ASSUME StreamsInv, NEW p \in Peers, Connect(p)
  PROVE  StreamsInv'
  <1> USE DEF StreamsInv, Connect, Goes, AfterConnect, program, history
  <1>1. /\ Current(p) \in Conns /\ Current(p)[1] = p
        /\ Current(p)[2] = iter[p] /\ iter[p] \in Nat
    BY CurrentIsOwn
  <1>2. TypeInv'
    BY <1>1 DEF TypeInv, Places
  <1>3. OwnSocket'
    BY <1>1, NoneIsNoConnection DEF TypeInv, OwnSocket
  <1>4. OrderedByStoppers'
    BY StreamsAssumption DEF TypeInv, OrderedByStoppers, Forks, Places, Peers
  <1>5. ClosedAtEnd'
    BY <1>1, OwnerIsPeer DEF TypeInv, ClosedAtEnd, Forks
  <1>6. Fresh'
    <2> DEFINE d == Current(p)
    <2>1. /\ mine' = [mine EXCEPT ![d] = "open"] /\ sock'[p] = d /\ d # None
          /\ pc'[p] \notin {"connect"} \union Ended /\ pc[p] = "connect"
          /\ \A q \in Peers : q # p => pc'[q] = pc[q] /\ sock'[q] = sock[q]
          /\ UNCHANGED <<iter, hollow>>
      BY <1>1, NoneIsNoConnection DEF TypeInv, Ended
    <2> HIDE DEF d, Connect
    <2>2. ASSUME NEW c \in Conns, c = d \/ Past(c) PROVE Past(c)'
      <3>1. c[1] \in Peers /\ c[2] \in Nat /\ d = Current(p)
        BY OwnerIsPeer DEF d
      <3> QED  BY <1>1, <2>1, <2>2, <3>1 DEF Past
    <2>3. \A c \in Conns : c # d => mine'[c] = mine[c]
      BY <2>1 DEF TypeInv
    <2>4. \A c \in Conns : mine'[c] # "none" => Past(c)'
      BY <2>2, <2>3 DEF Fresh
    <2>5. ASSUME NEW c \in Conns, mine'[c] # "none", sock'[c[1]] = None, pc'[c[1]] \notin Ended
          PROVE  c[2] < iter'[c[1]]
      <3>1. c[1] \in Peers /\ c[1] # p
        BY <2>1, <2>5, OwnerIsPeer
      <3>2. c # d
        BY <1>1, <3>1 DEF d
      <3> QED  BY <2>1, <2>3, <2>5, <3>1, <3>2 DEF Fresh
    <2>6. \A c \in hollow' : Past(c)'
      BY <2>1, <2>2 DEF TypeInv, Fresh
    <2> QED  BY <2>4, <2>5, <2>6 DEF Fresh
  <1> QED  BY <1>2, <1>3, <1>4, <1>5, <1>6

\* Refused keeps the invariant.
LEMMA RefusedInv ==
  ASSUME StreamsInv, NEW p \in Peers, Refused(p)
  PROVE  StreamsInv'
  <1> USE DEF StreamsInv
  <1> DEFINE to == IF kind = "bw_tcp" /\ p \in Clients THEN "exit" ELSE AfterConnect(p)
  <1>1. /\ UNCHANGED <<kind, msize, server, at, up, down, mine, theirs, iter, hollow, told>>
        /\ pc[p] = "connect"
        /\ \/ UNCHANGED <<pc, sock>>
           \/ pc' = [pc EXCEPT ![p] = "exit"] /\ UNCHANGED sock
           \/ /\ pc' = [pc EXCEPT ![p] = to] /\ sock' = [sock EXCEPT ![p] = None]
              /\ kind # "lat_unix_connect"
    BY DEF Refused, Goes, program, history, connVars, serverVars
  <1>2. to \in {"exit", "close", "size", "stop"} /\ (to = "stop" => p \in Stoppers)
        /\ (to = "size" => Forks)
    BY DEF AfterConnect
  <1> HIDE DEF to
  <1>3. TypeInv'
    <2>1. pc' \in [Peers -> Places]
      BY <1>1, <1>2 DEF TypeInv, Places
    <2>2. sock' \in [Peers -> Conns \union {None}]
      BY <1>1 DEF TypeInv
    <2> QED  BY <1>1, <2>1, <2>2 DEF TypeInv
  <1>4. OwnSocket'
    BY <1>1, <1>2 DEF TypeInv, OwnSocket
  <1>5. OrderedByStoppers'
    BY <1>1, <1>2 DEF TypeInv, OrderedByStoppers, Forks
  <1>6. ClosedAtEnd'
    BY <1>1, <1>2, OwnerIsPeer DEF TypeInv, ClosedAtEnd, Forks
  <1>7. Fresh'
    <2>1. iter[p] \in Nat /\ iter' = [iter EXCEPT ![p] = iter[p]] /\ iter[p] >= iter[p]
      BY <1>1, CurrentIsOwn DEF TypeInv
    <2>2. /\ \A q \in Peers : q # p => pc'[q] = pc[q] /\ sock'[q] = sock[q]
          /\ pc[p] \notin Ended
      BY <1>1 DEF TypeInv, Ended
    <2> QED  BY <1>1, <2>1, <2>2, FreshStep
  <1> QED  BY <1>3, <1>4, <1>5, <1>6, <1>7

(* A write puts what the peer may say on the peer's own connection.        *)
LEMMA WritesInv ==
  ASSUME StreamsInv, NEW p \in Peers, NEW token, NEW then \in Places,
         token \in {"size", "part"} \/ (token = "0" /\ p \in Stoppers),
         Forks \/ p \in Stoppers,
         Writes(p, token, then)
  PROVE  /\ up' \in [Conns -> Seq({"size", "part", "0"})]
         /\ \A c \in Conns : up'[c] \in Seq(Messages(c))
         /\ ~Forks => \A c \in Conns : up'[c] # <<>> => c[1] \in Stoppers
         /\ \/ pc' = [pc EXCEPT ![p] = then]
            \/ pc' = [pc EXCEPT ![p] = "exit"]
  <1>1. \/ pc' = [pc EXCEPT ![p] = then]
        \/ pc' = [pc EXCEPT ![p] = "exit"]
    BY DEF Writes, Goes
  <1>2. CASE UNCHANGED up
    BY <1>1, <1>2 DEF StreamsInv, TypeInv, OrderedByStoppers, Forks
  <1>3. CASE ~ UNCHANGED up
    <2> DEFINE d == sock[p]
    <2>1. d \in Conns /\ d[1] = p /\ up' = [up EXCEPT ![d] = Append(@, token)]
      BY <1>3 DEF Writes, Put, StreamsInv, TypeInv, OwnSocket
    <2>2. token \in Messages(d) /\ token \in {"size", "part", "0"}
      BY <2>1 DEF Messages
    <2>3. up[d] \in Seq(Messages(d)) /\ up[d] \in Seq({"size", "part", "0"})
      BY <2>1 DEF StreamsInv, TypeInv, OrderedByStoppers
    <2>4. Append(up[d], token) \in Seq(Messages(d))
      BY <2>2, <2>3, AppendProperties
    <2>5. Append(up[d], token) \in Seq({"size", "part", "0"})
      BY <2>2, <2>3, AppendProperties
    <2> HIDE DEF d
    <2> QED  BY <1>1, <2>1, <2>4, <2>5 DEF StreamsInv, TypeInv, OrderedByStoppers
  <1> QED  BY <1>2, <1>3

(* What a peer does that writes.                                           *)
LEMMA WriterInv ==
  ASSUME StreamsInv, NEW p \in Peers, NEW then \in Places \ {"connect", "stop"},
         UNCHANGED <<kind, msize, server, at, down, mine, theirs, iter, sock, hollow, told>>,
         up' \in [Conns -> Seq({"size", "part", "0"})],
         \A c \in Conns : up'[c] \in Seq(Messages(c)),
         ~Forks => \A c \in Conns : up'[c] # <<>> => c[1] \in Stoppers,
         then \in {"size", "write", "read"} => Forks,
         pc[p] \notin {"connect"} \union Ended,
         pc' = [pc EXCEPT ![p] = then] \/ pc' = [pc EXCEPT ![p] = "exit"]
  PROVE  StreamsInv'
  <1> USE DEF StreamsInv
  <1>1. TypeInv'
    BY DEF TypeInv, Places
  <1>2. OwnSocket'
    BY DEF TypeInv, OwnSocket
  <1>3. OrderedByStoppers'
    BY DEF TypeInv, OrderedByStoppers, Forks
  <1>4. ClosedAtEnd'
    BY OwnerIsPeer DEF TypeInv, ClosedAtEnd, Forks, Ended
  <1>5. Fresh'
    <2>1. iter[p] \in Nat /\ iter' = [iter EXCEPT ![p] = iter[p]] /\ iter[p] >= iter[p]
      BY CurrentIsOwn DEF TypeInv
    <2>2. pc'[p] # "connect" /\ \A q \in Peers : q # p => pc'[q] = pc[q]
      BY DEF TypeInv
    <2> QED  BY <2>1, <2>2, FreshStep
  <1> QED  BY <1>1, <1>2, <1>3, <1>4, <1>5

\* SendSize keeps the invariant.
LEMMA SendSizeInv ==
  ASSUME StreamsInv, NEW p \in Peers, SendSize(p)
  PROVE  StreamsInv'
  <1> DEFINE then == IF kind = "lat_tcp" THEN "write" ELSE "read"
  <1>1. Forks
    BY DEF StreamsInv, OrderedByStoppers, SendSize
  <1>2. then \in Places \ {"connect", "stop"} /\ Writes(p, "size", then)
    BY DEF Places, SendSize
  <1>3. /\ UNCHANGED <<kind, msize, server, at, down, mine, theirs, iter, sock, hollow, told>>
        /\ pc[p] \notin {"connect"} \union Ended
    BY DEF SendSize, program, serverVars, Ended
  <1> HIDE DEF then
  <1> QED  BY <1>1, <1>2, <1>3, WritesInv, WriterInv

\* SendStop keeps the invariant.
LEMMA SendStopInv ==
  ASSUME StreamsInv, NEW p \in Peers, SendStop(p)
  PROVE  StreamsInv'
  <1>1. p \in Stoppers
    BY DEF StreamsInv, OrderedByStoppers, SendStop
  <1>2. "close" \in Places \ {"connect", "stop"} /\ Writes(p, "0", "close")
    BY DEF Places, SendStop
  <1>3. /\ UNCHANGED <<kind, msize, server, at, down, mine, theirs, iter, sock, hollow, told>>
        /\ pc[p] \notin {"connect"} \union Ended
    BY DEF SendStop, program, serverVars, history, Ended
  <1> QED  BY <1>1, <1>2, <1>3, WritesInv, WriterInv

\* ClientWrites keeps the invariant.
LEMMA ClientWritesInv ==
  ASSUME StreamsInv, NEW p \in Peers, ClientWrites(p)
  PROVE  StreamsInv'
  <1>1. Forks
    BY DEF StreamsInv, OrderedByStoppers, ClientWrites
  <1>2. /\ UNCHANGED <<kind, msize, server, at, down, mine, theirs, iter, sock, hollow, told>>
        /\ pc[p] \notin {"connect"} \union Ended
    BY DEF ClientWrites, program, serverVars, history, Ended
  <1>3. {"write", "read"} \subseteq Places \ {"connect", "stop"}
    BY DEF Places
  <1>4. CASE Writes(p, "part", "write")
    BY <1>1, <1>2, <1>3, <1>4, WritesInv, WriterInv
  <1>5. CASE Writes(p, "part", "read")
    BY <1>1, <1>2, <1>3, <1>5, WritesInv, WriterInv
  <1>6. CASE UNCHANGED up /\ (Goes(p, "read") \/ Goes(p, "exit"))
    <2>1. /\ up' \in [Conns -> Seq({"size", "part", "0"})]
          /\ \A c \in Conns : up'[c] \in Seq(Messages(c))
      BY <1>6 DEF StreamsInv, TypeInv, OrderedByStoppers
    <2>2. pc' = [pc EXCEPT ![p] = "read"] \/ pc' = [pc EXCEPT ![p] = "exit"]
      BY <1>6 DEF Goes
    <2> QED  BY <1>1, <1>2, <1>3, <2>1, <2>2, WriterInv
  <1> QED  BY <1>4, <1>5, <1>6 DEF ClientWrites

(* Where the end of an iteration leads to.                                 *)
LEMMA NextIterationInv ==
  ASSUME StreamsInv, NEW p \in Peers, NEW again, NextIteration(p, again)
  PROVE  \E i \in 1..Iterations :
           /\ iter' = [iter EXCEPT ![p] = i] /\ i \in Nat /\ i >= iter[p]
           /\ \/ pc' = [pc EXCEPT ![p] = again] /\ i > iter[p]
              \/ Forks /\ pc' = [pc EXCEPT ![p] = "close"]
              \/ ~Forks /\ pc' = [pc EXCEPT ![p] = "done"]
  <1>1. iter \in [Peers -> 1..Iterations] /\ Iterations \in Nat /\ iter[p] \in 1..Iterations
    BY StreamsAssumption DEF StreamsInv, TypeInv
  <1>2. CASE iter[p] < Iterations
    <2>1. iter' = [iter EXCEPT ![p] = iter[p] + 1] /\ pc' = [pc EXCEPT ![p] = again]
      BY <1>2 DEF NextIteration, Goes
    <2>2. iter[p] + 1 \in 1..Iterations /\ iter[p] + 1 > iter[p] /\ iter[p] + 1 \in Nat
      BY <1>1, <1>2
    <2>3. iter[p] + 1 >= iter[p]
      BY <1>1
    <2> QED  BY <2>1, <2>2, <2>3
  <1>3. CASE ~(iter[p] < Iterations)
    <2>1. iter' = [iter EXCEPT ![p] = iter[p]] /\ iter[p] >= iter[p] /\ iter[p] \in Nat
      BY <1>1, <1>3 DEF NextIteration
    <2>2. \/ Forks /\ pc' = [pc EXCEPT ![p] = "close"]
          \/ ~Forks /\ pc' = [pc EXCEPT ![p] = "done"]
      BY <1>3 DEF NextIteration, Goes, PerIteration
    <2> QED  BY <1>1, <2>1, <2>2
  <1> QED  BY <1>2, <1>3

\* What an iteration is counted on is the peer's and not of a later iteration.
LEMMA CountedOnFacts ==
  ASSUME StreamsInv, NEW p \in Peers
  PROVE  CountedOn(p) \in Conns /\ CountedOn(p)[1] = p /\ CountedOn(p)[2] <= iter[p]
  <1>1. CASE sock[p] = None
    <2>1. iter[p] <= iter[p]
      BY CurrentIsOwn DEF StreamsInv
    <2> QED  BY <1>1, <2>1, CurrentIsOwn DEF CountedOn, StreamsInv
  <1>2. CASE sock[p] # None
    <2>1. sock[p] \in Conns /\ sock[p][1] = p /\ mine[sock[p]] = "open"
      BY <1>2 DEF StreamsInv, TypeInv, OwnSocket
    <2> QED  BY <1>2, <2>1 DEF CountedOn, StreamsInv, Fresh, Past
  <1> QED  BY <1>1, <1>2

(* What a peer does that reads.                                            *)
LEMMA ReaderInv ==
  ASSUME StreamsInv, Forks, NEW p \in Peers, pc[p] = "read",
         UNCHANGED <<kind, msize, server, at, up, mine, theirs, sock, told>>,
         down' \in [Conns -> Seq({"part"})],
         hollow' \subseteq hollow \union {CountedOn(p)},
         NEW i \in 1..Iterations, i \in Nat, i >= iter[p], iter' = [iter EXCEPT ![p] = i],
         \/ pc' = [pc EXCEPT ![p] = "write"] \/ pc' = [pc EXCEPT ![p] = "read"]
         \/ pc' = [pc EXCEPT ![p] = "exit"] \/ pc' = [pc EXCEPT ![p] = "close"]
  PROVE  StreamsInv'
  <1> USE DEF StreamsInv
  <1>1. CountedOn(p) \in Conns /\ CountedOn(p)[1] = p /\ CountedOn(p)[2] <= iter[p]
    BY CountedOnFacts
  <1>2. TypeInv'
    BY <1>1 DEF TypeInv, Places
  <1>3. OwnSocket'
    BY DEF TypeInv, OwnSocket
  <1>4. OrderedByStoppers'
    BY DEF TypeInv, OrderedByStoppers, Forks
  <1>5. ClosedAtEnd'
    BY OwnerIsPeer DEF TypeInv, ClosedAtEnd, Forks
  <1>6. Fresh'
    <2>1. /\ pc'[p] # "connect" /\ pc[p] \notin Ended
          /\ \A q \in Peers : q # p => pc'[q] = pc[q] /\ sock'[q] = sock[q]
      BY DEF TypeInv, Ended
    <2> QED  BY <1>1, <2>1, FreshStep
  <1> QED  BY <1>2, <1>3, <1>4, <1>5, <1>6

\* Taking parts of what has arrived.
LEMMA DownTaken ==
  ASSUME StreamsInv, NEW c \in Conns, NEW n \in 1..Most(c, down),
         down' = [down EXCEPT ![c] = SubSeq(@, n + 1, Len(@))]
  PROVE  /\ down' \in [Conns -> Seq({"part"})]
         /\ Len(down'[c]) = Len(down[c]) - n
  <1>1. down[c] \in Seq({"part"}) /\ n \in Nat /\ n <= Len(down[c])
    BY MostFacts DEF StreamsInv, TypeInv
  <1>2. /\ SubSeq(down[c], n + 1, Len(down[c])) \in Seq({"part"})
        /\ Len(SubSeq(down[c], n + 1, Len(down[c]))) = Len(down[c]) - n
    BY <1>1, Rest
  <1> QED  BY <1>2 DEF StreamsInv, TypeInv

\* ClientReads keeps the invariant.
LEMMA ClientReadsInv ==
  ASSUME StreamsInv, NEW p \in Peers, ClientReads(p)
  PROVE  StreamsInv'
  <1>1. /\ pc[p] = "read" /\ Forks
        /\ UNCHANGED <<kind, msize, server, at, up, mine, theirs, sock, told>>
    BY DEF ClientReads, Forks, program, serverVars
  <1>2. PICK i \in 1..Iterations :
          /\ iter' = [iter EXCEPT ![p] = i] /\ i \in Nat /\ i >= iter[p]
          /\ pc' = [pc EXCEPT ![p] = "write"] \/ pc' = [pc EXCEPT ![p] = "close"]
    BY <1>1, NextIterationInv DEF ClientReads
  <1>3. hollow' \subseteq hollow \union {CountedOn(p)}
    BY DEF ClientReads
  <1>4. down' \in [Conns -> Seq({"part"})]
    <2>1. CASE UNCHANGED down
      BY <2>1 DEF StreamsInv, TypeInv
    <2>2. CASE ~ UNCHANGED down
      <3>1. PICK n \in 1..Most(sock[p], down) :
              down' = [down EXCEPT ![sock[p]] = SubSeq(@, n + 1, Len(@))]
        BY <2>2 DEF ClientReads
      <3>2. sock[p] \in Conns
        BY <2>2 DEF ClientReads, StreamsInv, TypeInv
      <3> QED  BY <3>1, <3>2, DownTaken
    <2> QED  BY <2>1, <2>2
  <1> QED  BY <1>1, <1>2, <1>3, <1>4, ReaderInv

\* ClientTransfers keeps the invariant.
LEMMA ClientTransfersInv ==
  ASSUME StreamsInv, NEW p \in Peers, ClientTransfers(p)
  PROVE  StreamsInv'
  <1>1. /\ pc[p] = "read" /\ Forks
        /\ UNCHANGED <<kind, msize, server, at, up, mine, theirs, sock, told, hollow>>
    BY DEF ClientTransfers, Forks, program, serverVars, history
  <1>2. PICK i \in 1..Iterations :
          /\ iter' = [iter EXCEPT ![p] = i] /\ i \in Nat /\ i >= iter[p]
          /\ \/ pc' = [pc EXCEPT ![p] = "read"] \/ pc' = [pc EXCEPT ![p] = "exit"]
             \/ pc' = [pc EXCEPT ![p] = "close"]
    <2>1. CASE NextIteration(p, "read")
      BY <1>1, <2>1, NextIterationInv
    <2>2. CASE UNCHANGED iter /\ (UNCHANGED pc \/ Goes(p, "exit"))
      <3>1. iter' = [iter EXCEPT ![p] = iter[p]] /\ iter[p] \in 1..Iterations
            /\ iter[p] \in Nat /\ iter[p] >= iter[p]
        BY <2>2, CurrentIsOwn DEF StreamsInv, TypeInv
      <3>2. pc' = [pc EXCEPT ![p] = "read"] \/ pc' = [pc EXCEPT ![p] = "exit"]
        BY <1>1, <2>2 DEF StreamsInv, TypeInv, Goes
      <3> QED  BY <3>1, <3>2
    <2> QED  BY <2>1, <2>2 DEF ClientTransfers
  <1>3. down' \in [Conns -> Seq({"part"})]
    <2>1. CASE UNCHANGED down
      BY <2>1 DEF StreamsInv, TypeInv
    <2>2. CASE ~ UNCHANGED down
      <3>1. PICK n \in 1..Most(sock[p], down) :
              down' = [down EXCEPT ![sock[p]] = SubSeq(@, n + 1, Len(@))]
        BY <2>2 DEF ClientTransfers
      <3>2. CASE sock[p] \in Conns
        BY <3>1, <3>2, DownTaken
      <3>3. CASE sock[p] \notin Conns
        BY <3>1, <3>3 DEF StreamsInv, TypeInv
      <3> QED  BY <3>2, <3>3
    <2> QED  BY <2>1, <2>2
  <1> QED  BY <1>1, <1>2, <1>3, ReaderInv

\* Closes keeps the invariant.
LEMMA ClosesInv ==
  ASSUME StreamsInv, NEW p \in Peers, Closes(p) \/ Ends(p)
  PROVE  StreamsInv'
  <1> USE DEF StreamsInv
  <1>1. /\ pc[p] \in {"close", "exit"} /\ sock' = [sock EXCEPT ![p] = None]
        /\ UNCHANGED <<kind, msize, server, at, up, down, theirs, told>>
        /\ mine' = IF sock[p] = None THEN mine ELSE [mine EXCEPT ![sock[p]] = "closed"]
        /\ hollow' \subseteq hollow \union {CountedOn(p)}
    BY DEF Closes, Ends, CloseSock, program, serverVars, history
  <1>2. PICK i \in 1..Iterations :
          /\ iter' = [iter EXCEPT ![p] = i] /\ i \in Nat /\ i >= iter[p]
          /\ \/ ~Forks /\ pc' = [pc EXCEPT ![p] = "connect"] /\ i > iter[p] /\ pc[p] = "close"
             \/ pc' = [pc EXCEPT ![p] = "done"]
    <2>1. CASE p \in Clients /\ PerIteration /\ NextIteration(p, "connect") /\ pc[p] = "close"
      BY <2>1, NextIterationInv DEF PerIteration
    <2>2. CASE Goes(p, "done") /\ UNCHANGED iter
      <3>1. iter' = [iter EXCEPT ![p] = iter[p]] /\ iter[p] \in 1..Iterations
            /\ iter[p] \in Nat /\ iter[p] >= iter[p]
        BY <2>2, CurrentIsOwn DEF StreamsInv, TypeInv
      <3> QED  BY <2>2, <3>1 DEF Goes
    <2> QED  BY <2>1, <2>2 DEF Closes, Ends
  <1>3. CountedOn(p) \in Conns /\ CountedOn(p)[1] = p /\ CountedOn(p)[2] <= iter[p]
    BY CountedOnFacts
  <1>4. /\ mine' \in [Conns -> {"none", "open", "closed"}]
        /\ \A c \in Conns : mine'[c] # "none" => mine[c] # "none"
        /\ \A c \in Conns : c # sock[p] => mine'[c] = mine[c]
    <2>1. sock[p] # None => sock[p] \in Conns /\ mine[sock[p]] = "open"
      BY DEF TypeInv, OwnSocket
    <2> QED  BY <1>1, <2>1 DEF TypeInv
  <1>5. TypeInv'
    <2>1. pc' \in [Peers -> Places] /\ iter' \in [Peers -> 1..Iterations]
      BY <1>2 DEF TypeInv, Places
    <2>2. sock' \in [Peers -> Conns \union {None}] /\ hollow' \subseteq Conns
      BY <1>1, <1>3 DEF TypeInv
    <2> QED  BY <1>1, <1>4, <2>1, <2>2 DEF TypeInv
  <1>6. OwnSocket'
    BY <1>1, <1>4 DEF TypeInv, OwnSocket
  <1>7. OrderedByStoppers'
    BY <1>1, <1>2 DEF TypeInv, OrderedByStoppers, Forks
  <1>8. ClosedAtEnd'
    <2> SUFFICES ASSUME Forks, NEW c \in Conns, mine'[c] = "closed" PROVE pc'[c[1]] = "done"
      BY <1>1 DEF ClosedAtEnd, Forks
    <2>1. pc' = [pc EXCEPT ![p] = "done"] /\ c[1] \in Peers
      BY <1>2, OwnerIsPeer
    <2>2. CASE c = sock[p]
      <3>1. c[1] = p
        BY <2>2, NoneIsNoConnection DEF OwnSocket
      <3> QED  BY <2>1, <3>1 DEF TypeInv
    <2>3. CASE c # sock[p]
      BY <1>4, <2>1, <2>3 DEF TypeInv, ClosedAtEnd
    <2> QED  BY <2>2, <2>3
  <1>9. Fresh'
    <2>1. /\ pc'[p] = "connect" => i > iter[p]
          /\ pc'[p] \in Ended \/ i > iter[p]
          /\ pc[p] \in Ended => pc'[p] \in Ended
          /\ pc[p] # "connect"
          /\ \A q \in Peers : q # p => pc'[q] = pc[q] /\ sock'[q] = sock[q]
      BY <1>1, <1>2 DEF TypeInv, Ended
    <2>2. \/ sock'[p] = sock[p] \/ pc'[p] \in Ended
          \/ i > iter[p] \/ pc[p] = "connect"
      BY <2>1
    <2>3. \A c \in hollow' :
            \/ c \in hollow
            \/ c \in Conns /\ c[1] = p /\ c[2] <= iter[p] /\ pc[p] # "connect"
      BY <1>1, <1>3, <2>1
    <2>4. \A c \in Conns : mine'[c] # "none" => mine[c] # "none"
      BY <1>4
    <2>5. i \in Nat /\ i >= iter[p] /\ iter' = [iter EXCEPT ![p] = i]
      BY <1>2
    <2>6. /\ pc'[p] = "connect" => i > iter[p] \/ pc[p] = "connect"
          /\ pc[p] \in Ended => pc'[p] \in Ended
          /\ \A q \in Peers : q # p => pc'[q] = pc[q] /\ sock'[q] = sock[q]
      BY <2>1
    <2> QED  BY <2>2, <2>3, <2>4, <2>5, <2>6, FreshStep
  <1> QED  BY <1>5, <1>6, <1>7, <1>8, <1>9

\* Dies keeps the invariant.
LEMMA DiesInv ==
  ASSUME StreamsInv, NEW p \in Peers, Dies(p)
  PROVE  StreamsInv'
  <1>1. /\ UNCHANGED <<kind, msize, server, at, up, down, mine, theirs, iter, sock, hollow, told>>
        /\ pc' = [pc EXCEPT ![p] = "exit"] /\ pc[p] \notin Ended
    BY DEF Dies, Goes, program, serverVars, connVars, history, Ended
  <1> USE DEF StreamsInv
  <1>2. TypeInv' /\ OwnSocket'
    BY <1>1 DEF TypeInv, Places, OwnSocket
  <1>3. OrderedByStoppers'
    BY <1>1 DEF TypeInv, OrderedByStoppers, Forks
  <1>4. ClosedAtEnd'
    BY <1>1, OwnerIsPeer DEF TypeInv, ClosedAtEnd, Forks, Ended
  <1>5. Fresh'
    <2>1. iter[p] \in Nat /\ iter' = [iter EXCEPT ![p] = iter[p]] /\ iter[p] >= iter[p]
      BY <1>1, CurrentIsOwn DEF TypeInv
    <2>2. pc'[p] = "exit" /\ \A q \in Peers : q # p => pc'[q] = pc[q]
      BY <1>1 DEF TypeInv
    <2> QED  BY <1>1, <2>1, <2>2, FreshStep DEF Ended
  <1> QED  BY <1>2, <1>3, <1>4, <1>5
-----------------------------------------------------------------------------
(* The peers are as they were after a step of the server's side, which     *)
(* only takes from what is under way to it.                                *)
LEMMA ServerSide ==
  ASSUME StreamsInv, UNCHANGED <<kind, msize, mine, pc, iter, sock, hollow>>,
         server' \in {"accept", "read", "dead"},
         server' = "read" => at' \in Conns /\ kind \notin {"lat_tcp", "bw_tcp"},
         up' \in [Conns -> Seq({"size", "part", "0"})],
         \A c \in Conns : up'[c] \in Seq(Messages(c)),
         \A c \in Conns : up'[c] # <<>> => up[c] # <<>>,
         down' \in [Conns -> Seq({"part"})],
         theirs' \in [Conns -> {"none", "queued", "open", "leaked", "closed"}],
         told' \subseteq Conns
  PROVE  StreamsInv'
  <1> USE DEF StreamsInv
  <1>1. TypeInv'
    BY DEF TypeInv
  <1>2. OwnSocket'
    BY DEF OwnSocket
  <1>3. OrderedByStoppers'
    BY DEF OrderedByStoppers, Forks
  <1>4. ClosedAtEnd'
    BY DEF ClosedAtEnd, Forks
  <1>5. Fresh'
    BY DEF Fresh, Past
  <1> QED  BY <1>1, <1>2, <1>3, <1>4, <1>5

\* What the end of processes leaves of the server's ends of connections.
LEMMA EndsWithoutFacts ==
  ASSUME StreamsInv, NEW alive, NEW cs
  PROVE  EndsWithout(alive, cs) \in [Conns -> {"none", "queued", "open", "leaked", "closed"}]
  BY DEF EndsWithout, StreamsInv, TypeInv

\* What the end of a worker leaves.
LEMMA LeavesFacts ==
  ASSUME StreamsInv, NEW c \in Conns, Leaves(c)
  PROVE  /\ UNCHANGED <<server, at, told>>
         /\ theirs' \in [Conns -> {"none", "queued", "open", "leaked", "closed"}]
  BY EndsWithoutFacts DEF Leaves

\* What an order to end does.
LEMMA ShutdownFacts ==
  ASSUME StreamsInv, NEW c \in Conns, Shutdown(c)
  PROVE  /\ server' = "dead" /\ told' = told \union {c}
         /\ theirs' \in [Conns -> {"none", "queued", "open", "leaked", "closed"}]
  BY EndsWithoutFacts DEF Shutdown, ServerEnds

(* Taking n parts of what is under way on c.                               *)
LEMMA TakenFacts ==
  ASSUME StreamsInv, NEW c \in Conns, NEW n \in Nat, n <= Len(up[c]), up[c] # <<>>,
         up' = [up EXCEPT ![c] = SubSeq(@, n + 1, Len(@))]
  PROVE  /\ up' \in [Conns -> Seq({"size", "part", "0"})]
         /\ \A d \in Conns : up'[d] \in Seq(Messages(d))
         /\ \A d \in Conns : up'[d] # <<>> => up[d] # <<>>
         /\ Len(up'[c]) = Len(up[c]) - n
  <1>1. up[c] \in Seq(Messages(c)) /\ up[c] \in Seq({"size", "part", "0"})
    BY DEF StreamsInv, TypeInv, OrderedByStoppers
  <1> DEFINE r == SubSeq(up[c], n + 1, Len(up[c]))
  <1>2. r \in Seq(Messages(c))
    BY <1>1, Rest
  <1>3. r \in Seq({"size", "part", "0"}) /\ Len(r) = Len(up[c]) - n
    BY <1>1, Rest
  <1>4. up' = [up EXCEPT ![c] = r]
    OBVIOUS
  <1> HIDE DEF r
  <1> QED  BY <1>2, <1>3, <1>4 DEF StreamsInv, TypeInv, OrderedByStoppers

\* Accept keeps the invariant.
LEMMA AcceptInv ==
  ASSUME StreamsInv, NEW c \in Conns, Accept(c)
  PROVE  StreamsInv'
  <1>1. /\ UNCHANGED <<kind, msize, mine, up, down, told, pc, iter, sock, hollow>>
        /\ \/ UNCHANGED server
           \/ server' = "read" /\ at' = c /\ kind \notin {"lat_tcp", "bw_tcp"}
        /\ server = "accept"
        /\ \/ theirs' = [theirs EXCEPT ![c] = "open"]
           \/ theirs' = [theirs EXCEPT ![c] = "leaked"]
    BY DEF Accept, Forks, program, peerVars, history
  <1>2. theirs' \in [Conns -> {"none", "queued", "open", "leaked", "closed"}]
    BY <1>1 DEF StreamsInv, TypeInv
  <1> QED  BY <1>1, <1>2, ServerSide DEF StreamsInv, TypeInv, OrderedByStoppers

\* SerialReads keeps the invariant.
LEMMA SerialReadsInv ==
  ASSUME StreamsInv, SerialReads
  PROVE  StreamsInv'
  <1>1. /\ UNCHANGED <<kind, msize, mine, up, down, pc, iter, sock, hollow>>
        /\ server = "read" /\ at \in Conns /\ server' \in {"accept", "dead"}
        /\ told' \subseteq told \union {at}
    BY DEF SerialReads, StreamsInv, TypeInv, program, peerVars
  <1>2. theirs' \in [Conns -> {"none", "queued", "open", "leaked", "closed"}]
    <2>1. CASE theirs' = EndsWithout(FALSE, Held)
      BY <2>1, EndsWithoutFacts
    <2>2. CASE theirs' = [theirs EXCEPT ![at] = "closed"]
      BY <2>2 DEF StreamsInv, TypeInv
    <2> QED  BY <2>1, <2>2 DEF SerialReads
  <1> QED  BY <1>1, <1>2, ServerSide DEF StreamsInv, TypeInv, OrderedByStoppers

\* Expire keeps the invariant.
LEMMA ExpireInv ==
  ASSUME StreamsInv, Expire
  PROVE  StreamsInv'
  <1>1. /\ UNCHANGED <<kind, msize, mine, up, down, told, pc, iter, sock, hollow>>
        /\ server' = "dead"
        /\ theirs' \in [Conns -> {"none", "queued", "open", "leaked", "closed"}]
    BY EndsWithoutFacts DEF Expire, ServerEnds, program, peerVars, history
  <1> QED  BY <1>1, ServerSide DEF StreamsInv, TypeInv, OrderedByStoppers

\* Crashes keeps the invariant.
LEMMA CrashesInv ==
  ASSUME StreamsInv, NEW c \in Conns, Crashes(c)
  PROVE  StreamsInv'
  <1>1. /\ UNCHANGED <<kind, msize, mine, up, down, pc, iter, sock, hollow>> /\ Leaves(c)
    BY DEF Crashes, program, peerVars
  <1> QED  BY <1>1, LeavesFacts, ServerSide DEF StreamsInv, TypeInv, OrderedByStoppers

\* The first message is taken off its queue.
LEMMA FirstTaken ==
  ASSUME StreamsInv, NEW c \in Conns, up[c] # <<>>, up' = Take(up, c)
  PROVE  /\ up' \in [Conns -> Seq({"size", "part", "0"})]
         /\ \A d \in Conns : up'[d] \in Seq(Messages(d))
         /\ \A d \in Conns : up'[d] # <<>> => up[d] # <<>>
         /\ Len(up'[c]) = Len(up[c]) - 1
         /\ \A d \in Conns : d # c => up'[d] = up[d]
         /\ Head(up[c]) = "0" => c[1] \in Stoppers
         /\ Head(up[c]) = up[c][1]
  <1>1. /\ up[c] \in Seq(Messages(c)) /\ Len(up[c]) \in Nat \ {0}
        /\ up[c] \in Seq({"size", "part", "0"})
    BY EmptySeq, LenProperties DEF StreamsInv, TypeInv, OrderedByStoppers
  <1>2. up' = [up EXCEPT ![c] = SubSeq(@, 2, Len(@))]
    <2>1. Tail(up[c]) = SubSeq(up[c], 2, Len(up[c]))
      BY <1>1, TailIsSubSeq
    <2> QED  BY <2>1 DEF Take
  <1>3. PICK n \in Nat : n = 1 /\ n <= Len(up[c])
    BY <1>1
  <1>4. up' = [up EXCEPT ![c] = SubSeq(@, n + 1, Len(@))]
    BY <1>2, <1>3
  <1>5. /\ up' \in [Conns -> Seq({"size", "part", "0"})]
        /\ \A d \in Conns : up'[d] \in Seq(Messages(d))
        /\ \A d \in Conns : up'[d] # <<>> => up[d] # <<>>
        /\ Len(up'[c]) = Len(up[c]) - 1
    BY <1>3, <1>4, TakenFacts
  <1>6. Head(up[c]) \in Messages(c) /\ Head(up[c]) = up[c][1]
    BY <1>1, HeadTailProperties
  <1>7. Head(up[c]) = "0" => c[1] \in Stoppers
    BY <1>6 DEF Messages
  <1>8. \A d \in Conns : d # c => up'[d] = up[d]
    BY DEF Take, StreamsInv, TypeInv
  <1> QED  BY <1>5, <1>6, <1>7, <1>8

\* First keeps the invariant.
LEMMA FirstInv ==
  ASSUME StreamsInv, NEW c \in Conns, First(c)
  PROVE  StreamsInv'
  <1>1. UNCHANGED <<kind, msize, down, mine, pc, iter, sock, hollow>>
    BY DEF First, program, peerVars
  <1>2. /\ up' \in [Conns -> Seq({"size", "part", "0"})]
        /\ \A d \in Conns : up'[d] \in Seq(Messages(d))
        /\ \A d \in Conns : up'[d] # <<>> => up[d] # <<>>
    <2>1. CASE up[c] # <<>> /\ up' = Take(up, c)
      BY <2>1, FirstTaken
    <2>2. CASE UNCHANGED up
      BY <2>2 DEF StreamsInv, TypeInv, OrderedByStoppers
    <2> QED  BY <2>1, <2>2 DEF First
  <1>3. CASE Shutdown(c)
    BY <1>1, <1>2, <1>3, ShutdownFacts, ServerSide DEF StreamsInv, TypeInv
  <1>4. CASE Leaves(c)
    BY <1>1, <1>2, <1>4, LeavesFacts, ServerSide DEF StreamsInv, TypeInv
  <1>5. CASE UNCHANGED <<server, at, theirs, told>>
    BY <1>1, <1>2, <1>5, ServerSide DEF StreamsInv, TypeInv
  <1> QED  BY <1>3, <1>4, <1>5 DEF First

\* WorkerReads keeps the invariant.
LEMMA WorkerReadsInv ==
  ASSUME StreamsInv, NEW c \in Conns, WorkerReads(c)
  PROVE  StreamsInv'
  <1>1. UNCHANGED <<kind, msize, down, mine, pc, iter, sock, hollow>>
    BY DEF WorkerReads, program, peerVars
  <1>2. CASE /\ up[c] # <<>> /\ UNCHANGED <<server, at, theirs, told>>
             /\ \E n \in 1..Most(c, up) : up' = [up EXCEPT ![c] = SubSeq(@, n + 1, Len(@))]
    <2>1. PICK n \in 1..Most(c, up) : up' = [up EXCEPT ![c] = SubSeq(@, n + 1, Len(@))]
      BY <1>2
    <2>2. n \in Nat /\ n <= Len(up[c])
      BY MostFacts DEF StreamsInv, TypeInv
    <2>3. /\ up' \in [Conns -> Seq({"size", "part", "0"})]
          /\ \A d \in Conns : up'[d] \in Seq(Messages(d))
          /\ \A d \in Conns : up'[d] # <<>> => up[d] # <<>>
      BY <1>2, <2>1, <2>2, TakenFacts
    <2> QED  BY <1>1, <1>2, <2>3, ServerSide DEF StreamsInv, TypeInv
  <1>3. CASE Leaves(c) /\ UNCHANGED up
    BY <1>1, <1>3, LeavesFacts, ServerSide DEF StreamsInv, TypeInv, OrderedByStoppers
  <1> QED  BY <1>2, <1>3 DEF WorkerReads

\* WorkerWrites keeps the invariant.
LEMMA WorkerWritesInv ==
  ASSUME StreamsInv, NEW c \in Conns, WorkerWrites(c)
  PROVE  StreamsInv'
  <1>1. UNCHANGED <<kind, msize, up, mine, pc, iter, sock, hollow>>
    BY DEF WorkerWrites, program, peerVars
  <1>2. CASE down' = Put(down, c, "part") /\ UNCHANGED <<server, at, theirs, told>>
    <2>1. down[c] \in Seq({"part"})
      BY DEF StreamsInv, TypeInv
    <2>2. Append(down[c], "part") \in Seq({"part"})
      BY <2>1, AppendProperties
    <2>3. down' \in [Conns -> Seq({"part"})]
      BY <1>2, <2>2 DEF Put, StreamsInv, TypeInv
    <2> QED
      BY <1>1, <1>2, <2>3, ServerSide DEF StreamsInv, TypeInv, OrderedByStoppers
  <1>3. CASE Leaves(c) /\ UNCHANGED down
    BY <1>1, <1>3, LeavesFacts, ServerSide DEF StreamsInv, TypeInv, OrderedByStoppers
  <1> QED  BY <1>2, <1>3 DEF WorkerWrites
-----------------------------------------------------------------------------
\* Every step keeps the invariant.
LEMMA StepInv == StreamsInv /\ [Next]_vars => StreamsInv'
  <1> SUFFICES ASSUME StreamsInv, [Next]_vars PROVE StreamsInv'
    OBVIOUS
  <1>1. ASSUME NEW p \in Peers, Peer(p) \/ Dies(p) PROVE StreamsInv'
    BY <1>1, ConnectInv, RefusedInv, SendSizeInv, SendStopInv, ClientWritesInv,
       ClientReadsInv, ClientTransfersInv, ClosesInv, DiesInv DEF Peer
  <1>2. ASSUME NEW c \in Conns, Worker(c) \/ Crashes(c) PROVE StreamsInv'
    BY <1>2, FirstInv, WorkerReadsInv, WorkerWritesInv, CrashesInv DEF Worker
  <1>3. CASE Serves
    BY <1>3, AcceptInv, SerialReadsInv DEF Serves
  <1>4. CASE Expire
    BY <1>4, ExpireInv
  <1>5. CASE UNCHANGED vars
    BY <1>5, StutterInv
  <1> QED  BY <1>1, <1>2, <1>3, <1>4, <1>5 DEF Next

(* StreamsInv holds in every state: the types, whose connection a peer     *)
(* works on, who closes it and when, on whose connections the order to end *)
(* can be under way, and that a peer without a socket has no connection.   *)
THEOREM StreamsInvariant == Spec => []StreamsInv
  BY InitInv, StepInv, PTL DEF Spec

-----------------------------------------------------------------------------
(* lat_tcp: what is under way on a connection.                             *)

\* What the worker w of a connection has taken of it, if it owes o.
Size(w) == IF w \in {"none", "first"} THEN 1 ELSE 0
Owed(w, o) == IF w = "write" THEN o ELSE 0

\* The parts under way, or still to be written by the worker.
Balance(u, d, w, o) == Len(u) - Size(w) + Len(d) + Owed(w, o)

\* The parts of a message of m that a client at `place' with r parts to write
\* has written in this iteration.
Due(m, place, r) == IF place = "write" THEN m - r ELSE m

\* A connection that has both its sides: for each part written one is under
\* way or will be, and no more unless a read has been short (s).
Turn(m, place, r, u, d, w, o, z, s) ==
  /\ place = "size" => u = <<>> /\ d = <<>> /\ w \in {"none", "first"}
  /\ place \in {"write", "read"} =>
       /\ z /\ Balance(u, d, w, o) >= Due(m, place, r)
       /\ ~s => Balance(u, d, w, o) = Due(m, place, r)
  /\ place = "write" => r <= m /\ (m > 0 => r > 0)

TurnOf(p, c) ==
  Turn(msize, pc[p], rest[p], up[c], down[c], worker[c], owes[c], c \in sized, c \in short)

Turns ==
  \A p \in Clients :
    sock[p] # None /\ theirs[sock[p]] # "closed" => TurnOf(p, sock[p])

\* A connection waits in the queue once, without a worker, until it has one.
\* The queue of a server that has ended is nobody's.
Queued ==
  server # "dead" =>
    \A i, k \in 1..Len(backlog) :
      theirs[backlog[i]] = "queued" /\ (backlog[i] = backlog[k] => i = k)

Served ==
  \A c \in Conns :
    /\ theirs[c] = "none" => up[c] = <<>> /\ mine[c] = "none"
    /\ theirs[c] # "none" => pc[c[1]] # "connect"
    /\ theirs[c] \in {"none", "queued", "leaked"} => worker[c] = "none" /\ down[c] = <<>>
    /\ theirs[c] = "open" => Working(c)
    /\ theirs[c] = "closed" => ~Working(c)

\* The size of the messages comes before them.
SizeFirst ==
  \A c \in sized : worker[c] \in {"none", "first"} => up[c] # <<>> /\ up[c][1] = "size"

\* Why the server's side of a connection is closed.
Reason(c) ==
  \/ mine[c] = "closed" \/ msize = 0 \/ c \in crashed \/ c[1] \in Stoppers
  \/ worker[c] = "none" /\ server = "dead"

ClosedWhy == \A c \in Conns : theirs[c] = "closed" => Reason(c)

\* Only clients measure, and a stopper has nothing to say.
ClientsMeasure ==
  \A p \in Peers : pc[p] # "stop" /\ (pc[p] \in {"size", "write", "read"} => p \in Clients)

WorkersTyped ==
  /\ at = None /\ backlog \in Seq(Conns)
  /\ worker \in [Conns -> {"none", "first", "read", "write", "gone"}]
  /\ owes \in [Conns -> Nat] /\ rest \in [Peers -> Nat]
  /\ \A c \in Conns : worker[c] = "write" => owes[c] > 0
  /\ sized \subseteq Conns /\ short \subseteq Conns /\ crashed \subseteq Conns

Tcp ==
  WorkersTyped /\ Queued /\ Served /\ SizeFirst /\ ClosedWhy /\ ClientsMeasure /\ Turns

\* The lengths of what is under way.
LEMMA Lengths ==
  ASSUME StreamsInv, NEW c \in Conns
  PROVE  /\ Len(up[c]) \in Nat /\ Len(down[c]) \in Nat
         /\ up[c] = <<>> <=> Len(up[c]) = 0
         /\ down[c] = <<>> <=> Len(down[c]) = 0
  BY LenProperties, EmptySeq DEF StreamsInv, TypeInv

\* What the balance of a connection adds up.
LEMMA BalanceFacts ==
  ASSUME StreamsInv, Tcp, NEW c \in Conns
  PROVE  /\ Len(up[c]) \in Nat /\ Len(down[c]) \in Nat
         /\ Size(worker[c]) \in Nat /\ Owed(worker[c], owes[c]) \in Nat
         /\ Balance(up[c], down[c], worker[c], owes[c]) \in Int
  <1>1. Len(up[c]) \in Nat /\ Len(down[c]) \in Nat
    BY Lengths
  <1>2. Size(worker[c]) \in Nat
    BY DEF Size
  <1>3. Owed(worker[c], owes[c]) \in Nat
    BY DEF Owed, Tcp, WorkersTyped
  <1> QED  BY <1>1, <1>2, <1>3 DEF Balance

\* A connection that has something of a peer is not one that is to come.
LEMMA SocketServed ==
  ASSUME StreamsInv, Tcp, NEW p \in Peers, sock[p] # None
  PROVE  sock[p] \in Conns /\ sock[p][1] = p /\ theirs[sock[p]] # "none"
  BY DEF StreamsInv, TypeInv, OwnSocket, Tcp, Served

(* A step of one peer.                                                     *)
LEMMA PeerSide ==
  ASSUME StreamsInv, Tcp, NEW p \in Peers,
         UNCHANGED <<msize, server, at, backlog, worker, owes, theirs, crashed>>,
         rest' \in [Peers -> Nat],
         pc'[p] \notin {"connect", "stop"}, sock'[p] \in {sock[p], None},
         pc'[p] \in {"size", "write", "read"} =>
           pc[p] \in {"size", "write", "read"} \/ p \in Clients,
         \A q \in Peers : q # p => pc'[q] = pc[q] /\ sock'[q] = sock[q] /\ rest'[q] = rest[q],
         \A c \in Conns : c # sock[p] =>
           /\ up'[c] = up[c] /\ down'[c] = down[c] /\ mine'[c] = mine[c]
           /\ c \in sized' <=> c \in sized
           /\ c \in short' <=> c \in short,
         sized' \subseteq Conns, short' \subseteq Conns,
         sock[p] # None =>
           /\ down'[sock[p]] = down[sock[p]] \/ down[sock[p]] # <<>>
           /\ mine'[sock[p]] \in {mine[sock[p]], "closed"}
           /\ sock[p] \in sized' /\ worker[sock[p]] \in {"none", "first"} =>
                up'[sock[p]] # <<>> /\ up'[sock[p]][1] = "size",
         p \in Clients /\ sock'[p] # None /\ theirs[sock[p]] # "closed"
           => Turn(msize, pc'[p], rest'[p], up'[sock[p]], down'[sock[p]], worker[sock[p]],
                   owes[sock[p]], sock[p] \in sized', sock[p] \in short')
  PROVE  Tcp'
  <1>1. WorkersTyped'
    BY DEF Tcp, WorkersTyped
  <1>2. Queued'
    BY DEF Tcp, Queued
  <1>3. ASSUME NEW c \in Conns, c = sock[p] PROVE theirs[c] # "none"
    BY <1>3, NoneIsNoConnection, SocketServed
  <1>4. Served'
    <2> SUFFICES ASSUME NEW c \in Conns
                 PROVE  /\ theirs[c] = "none" => up'[c] = <<>> /\ mine'[c] = "none"
                        /\ theirs[c] # "none" => pc'[c[1]] # "connect"
                        /\ theirs[c] \in {"none", "queued", "leaked"} =>
                             worker[c] = "none" /\ down'[c] = <<>>
                        /\ theirs[c] = "open" => Working(c)
                        /\ theirs[c] = "closed" => ~Working(c)
      BY DEF Served, Working
    <2>1. c[1] \in Peers
      BY OwnerIsPeer
    <2> QED  BY <1>3, <2>1, NoneIsNoConnection DEF Tcp, Served
  <1>5. SizeFirst'
    <2> SUFFICES ASSUME NEW c \in sized', worker[c] \in {"none", "first"}
                 PROVE  up'[c] # <<>> /\ up'[c][1] = "size"
      BY DEF SizeFirst
    <2>1. CASE c = sock[p]
      BY <2>1, NoneIsNoConnection
    <2>2. CASE c # sock[p]
      BY <2>2 DEF Tcp, SizeFirst
    <2> QED  BY <2>1, <2>2
  <1>6. ClosedWhy'
    <2> SUFFICES ASSUME NEW c \in Conns, theirs[c] = "closed" PROVE Reason(c)'
      BY DEF ClosedWhy
    <2>1. mine'[c] \in {mine[c], "closed"}
      BY NoneIsNoConnection
    <2> QED  BY <2>1 DEF Tcp, ClosedWhy, Reason
  <1>7. ClientsMeasure'
    BY DEF Tcp, ClientsMeasure
  <1>8. Turns'
    <2> SUFFICES ASSUME NEW q \in Clients, sock'[q] # None, theirs[sock'[q]] # "closed"
                 PROVE  Turn(msize, pc'[q], rest'[q], up'[sock'[q]], down'[sock'[q]],
                             worker[sock'[q]], owes[sock'[q]],
                             sock'[q] \in sized', sock'[q] \in short')
      BY DEF Turns, TurnOf
    <2>1. CASE q = p
      BY <2>1
    <2>2. CASE q # p
      <3>1. q \in Peers /\ sock'[q] = sock[q] /\ pc'[q] = pc[q] /\ rest'[q] = rest[q]
        BY <2>2 DEF Peers
      <3>2. sock[q] \in Conns /\ sock[q] # sock[p]
        BY <2>2, <3>1, SocketServed
      <3>3. Turn(msize, pc[q], rest[q], up[sock[q]], down[sock[q]], worker[sock[q]],
                 owes[sock[q]], sock[q] \in sized, sock[q] \in short)
        BY <3>1 DEF Tcp, Turns, TurnOf
      <3>4. /\ up'[sock[q]] = up[sock[q]] /\ down'[sock[q]] = down[sock[q]]
            /\ (sock[q] \in sized') = (sock[q] \in sized)
            /\ (sock[q] \in short') = (sock[q] \in short)
        BY <3>2
      <3> QED  BY <3>1, <3>3, <3>4, Zenon
    <2> QED  BY <2>1, <2>2
  <1> QED  BY <1>1, <1>2, <1>4, <1>5, <1>6, <1>7, <1>8 DEF Tcp

(* A step of the server's side that only closes.                           *)
LEMMA OnlyCloses ==
  ASSUME StreamsInv, Tcp, UNCHANGED <<msize, pc, sock, rest, mine, sized, short>>,
         at' = None, backlog' \in Seq(Conns),
         worker' \in [Conns -> {"none", "first", "read", "write", "gone"}],
         UNCHANGED owes, Queued', server = "dead" => server' = "dead",
         crashed \subseteq crashed', crashed' \subseteq Conns,
         \A c \in Conns :
           \/ /\ theirs'[c] = "closed" /\ theirs[c] # "none" /\ Reason(c)'
              /\ \/ worker'[c] = "gone"
                 \/ worker'[c] = "none" /\ worker[c] = "none" /\ up'[c] = up[c]
           \/ /\ theirs'[c] = theirs[c] /\ worker'[c] = worker[c]
              /\ up'[c] = up[c] /\ down'[c] = down[c]
  PROVE  Tcp'
  <1>1. WorkersTyped'
    <2> SUFFICES ASSUME NEW c \in Conns, worker'[c] = "write" PROVE owes[c] > 0
      BY DEF Tcp, WorkersTyped
    <2> QED  BY DEF Tcp, WorkersTyped
  <1>2. Served'
    <2> SUFFICES ASSUME NEW c \in Conns
                 PROVE  /\ theirs'[c] = "none" => up'[c] = <<>> /\ mine'[c] = "none"
                        /\ theirs'[c] # "none" => pc'[c[1]] # "connect"
                        /\ theirs'[c] \in {"none", "queued", "leaked"} =>
                             worker'[c] = "none" /\ down'[c] = <<>>
                        /\ theirs'[c] = "open" => worker'[c] \in {"first", "read", "write"}
                        /\ theirs'[c] = "closed" => worker'[c] \notin {"first", "read", "write"}
      BY DEF Served, Working
    <2> QED  BY DEF Tcp, Served, Working
  <1>3. SizeFirst'
    <2> SUFFICES ASSUME NEW c \in sized, worker'[c] \in {"none", "first"}
                 PROVE  up'[c] # <<>> /\ up'[c][1] = "size"
      BY DEF SizeFirst
    <2>1. c \in Conns
      BY DEF Tcp, WorkersTyped
    <2>2. up'[c] = up[c] /\ worker[c] \in {"none", "first"}
      BY <2>1
    <2> QED  BY <2>2 DEF Tcp, SizeFirst
  <1>4. ClosedWhy'
    <2> SUFFICES ASSUME NEW c \in Conns, theirs'[c] = "closed", theirs[c] = "closed",
                        worker'[c] = worker[c]
                 PROVE  Reason(c)'
      BY DEF ClosedWhy
    <2> QED  BY DEF Tcp, ClosedWhy, Reason
  <1>5. ClientsMeasure'
    BY DEF Tcp, ClientsMeasure
  <1>6. Turns'
    <2> SUFFICES ASSUME NEW q \in Clients, sock[q] # None, theirs'[sock[q]] # "closed"
                 PROVE  Turn(msize, pc[q], rest[q], up'[sock[q]], down'[sock[q]],
                             worker'[sock[q]], owes[sock[q]],
                             sock[q] \in sized, sock[q] \in short)
      BY DEF Turns, TurnOf
    <2>1. sock[q] \in Conns
      BY DEF StreamsInv, TypeInv, Peers
    <2> QED  BY <2>1, Zenon DEF Tcp, Turns, TurnOf
  <1> QED  BY <1>1, <1>2, <1>3, <1>4, <1>5, <1>6 DEF Tcp

(* A step of the worker of one connection that goes on.                    *)
LEMMA WorkerSide ==
  ASSUME StreamsInv, Tcp, NEW c \in Conns,
         UNCHANGED <<msize, server, at, backlog, theirs, mine, pc, sock, rest, sized, crashed>>,
         Working(c), NEW w \in {"read", "write"}, NEW o \in Nat, w = "write" => o > 0,
         worker' = [worker EXCEPT ![c] = w], owes' = [owes EXCEPT ![c] = o],
         \A d \in Conns : d # c => up'[d] = up[d] /\ down'[d] = down[d],
         short' \subseteq Conns, \A d \in Conns : d # c => (d \in short' <=> d \in short),
         \A p \in Clients : TurnOf(p, c) =>
           Turn(msize, pc[p], rest[p], up'[c], down'[c], w, o, c \in sized, c \in short')
  PROVE  Tcp'
  <1>1. /\ worker'[c] = w /\ owes'[c] = o
        /\ \A d \in Conns : d # c => worker'[d] = worker[d] /\ owes'[d] = owes[d]
    BY DEF Tcp, WorkersTyped
  <1>2. WorkersTyped'
    <2> SUFFICES ASSUME NEW d \in Conns, worker'[d] = "write" PROVE owes'[d] > 0
      BY DEF Tcp, WorkersTyped
    <2> QED  BY <1>1 DEF Tcp, WorkersTyped
  <1>3. Queued'
    BY DEF Tcp, Queued
  <1>4. theirs[c] = "open"
    BY DEF Tcp, Served, Working, StreamsInv, TypeInv
  <1>5. Served'
    <2> SUFFICES ASSUME NEW d \in Conns
                 PROVE  /\ theirs[d] = "none" => up'[d] = <<>> /\ mine[d] = "none"
                        /\ theirs[d] # "none" => pc[d[1]] # "connect"
                        /\ theirs[d] \in {"none", "queued", "leaked"} =>
                             worker'[d] = "none" /\ down'[d] = <<>>
                        /\ theirs[d] = "open" => worker'[d] \in {"first", "read", "write"}
                        /\ theirs[d] = "closed" => worker'[d] \notin {"first", "read", "write"}
      BY DEF Served, Working
    <2>1. CASE d = c
      BY <1>1, <1>4, <2>1 DEF Tcp, Served
    <2>2. CASE d # c
      BY <1>1, <2>2 DEF Tcp, Served, Working
    <2> QED  BY <2>1, <2>2
  <1>6. SizeFirst'
    <2> SUFFICES ASSUME NEW d \in sized, worker'[d] \in {"none", "first"}
                 PROVE  up'[d] # <<>> /\ up'[d][1] = "size"
      BY DEF SizeFirst
    <2>1. d \in Conns /\ d # c
      BY <1>1 DEF Tcp, WorkersTyped
    <2> QED  BY <1>1, <2>1 DEF Tcp, SizeFirst
  <1>7. ClosedWhy'
    <2> SUFFICES ASSUME NEW d \in Conns, theirs[d] = "closed" PROVE Reason(d)'
      BY DEF ClosedWhy
    <2> QED  BY <1>1, <1>4 DEF Tcp, ClosedWhy, Reason
  <1>8. ClientsMeasure'
    BY DEF Tcp, ClientsMeasure
  <1>9. Turns'
    <2> SUFFICES ASSUME NEW q \in Clients, sock[q] # None, theirs[sock[q]] # "closed"
                 PROVE  Turn(msize, pc[q], rest[q], up'[sock[q]], down'[sock[q]],
                             worker'[sock[q]], owes'[sock[q]],
                             sock[q] \in sized, sock[q] \in short')
      BY DEF Turns, TurnOf
    <2>1. sock[q] \in Conns
      BY DEF StreamsInv, TypeInv, Peers
    <2>2. TurnOf(q, sock[q])
      BY DEF Tcp, Turns
    <2>3. CASE sock[q] = c
      BY <1>1, <2>2, <2>3
    <2>4. CASE sock[q] # c
      <3>1. (sock[q] \in short') = (sock[q] \in short)
        BY <2>1, <2>4
      <3> QED  BY <1>1, <2>1, <2>2, <2>4, <3>1, Zenon DEF TurnOf
    <2> QED  BY <2>3, <2>4
  <1> QED  BY <1>2, <1>3, <1>5, <1>6, <1>7, <1>8, <1>9 DEF Tcp

(* The peers of lat_tcp.                                                   *)
LEMMA ConnectTcp ==
  ASSUME StreamsInv, Tcp, kind = "lat_tcp", NEW p \in Peers, Connect(p)
  PROVE  Tcp'
  <1> DEFINE c == Current(p)
  <1>1. c \in Conns /\ c[1] = p
    BY CurrentIsOwn DEF StreamsInv
  <1>2. /\ pc[p] = "connect" /\ backlog' = Append(backlog, c)
        /\ mine' = [mine EXCEPT ![c] = "open"]
        /\ theirs' = [theirs EXCEPT ![c] = "queued"]
        /\ sock' = [sock EXCEPT ![p] = c]
        /\ pc' = [pc EXCEPT ![p] = IF p \in Stoppers THEN "close" ELSE "size"]
        /\ UNCHANGED <<msize, server, at, worker, owes, up, down, rest, sized, short, crashed>>
    BY DEF Connect, Goes, AfterConnect, Forks, program, history
  <1> HIDE DEF c
  <1>3. theirs[c] = "none" /\ up[c] = <<>> /\ down[c] = <<>> /\ worker[c] = "none"
    BY <1>1, <1>2 DEF StreamsInv, TypeInv, Tcp, Served
  <1>4. /\ theirs'[c] = "queued" /\ mine'[c] = "open"
        /\ \A d \in Conns : d # c => theirs'[d] = theirs[d] /\ mine'[d] = mine[d]
        /\ pc'[p] \in {"close", "size"} /\ \A q \in Peers : q # p => pc'[q] = pc[q]
        /\ p \in Clients => pc'[p] = "size"
        /\ pc'[p] = "size" => p \in Clients
        /\ sock'[p] = c /\ \A q \in Peers : q # p => sock'[q] = sock[q]
    BY <1>1, <1>2, StreamsAssumption DEF StreamsInv, TypeInv, Peers
  <1>5. WorkersTyped'
    BY <1>1, <1>2, AppendProperties DEF Tcp, WorkersTyped
  <1>6. Queued'
    <2> SUFFICES ASSUME server # "dead", NEW i \in 1..Len(backlog'), NEW k \in 1..Len(backlog')
                 PROVE  theirs'[backlog'[i]] = "queued" /\ (backlog'[i] = backlog'[k] => i = k)
      BY <1>2 DEF Queued
    <2>1. /\ Len(backlog) \in Nat /\ Len(backlog') = Len(backlog) + 1
          /\ \A l \in 1..Len(backlog) : backlog'[l] = backlog[l]
          /\ backlog'[Len(backlog) + 1] = c
      BY <1>1, <1>2, AppendProperties, LenProperties DEF Tcp, WorkersTyped
    <2>2. \A l \in 1..Len(backlog) : backlog[l] \in Conns /\ theirs[backlog[l]] = "queued"
      BY ElementOfSeq DEF Tcp, WorkersTyped, Queued
    <2>3. \A l \in 1..Len(backlog') :
            (l \in 1..Len(backlog) /\ backlog'[l] # c) \/ (l = Len(backlog) + 1 /\ backlog'[l] = c)
      BY <1>3, <2>1, <2>2
    <2>4. theirs'[backlog'[i]] = "queued"
      BY <1>4, <2>1, <2>2, <2>3
    <2>5. ASSUME backlog'[i] = backlog'[k] PROVE i = k
      BY <2>1, <2>3, <2>5 DEF Tcp, Queued
    <2> QED  BY <2>4, <2>5
  <1>7. Served'
    <2> SUFFICES ASSUME NEW d \in Conns
                 PROVE  /\ theirs'[d] = "none" => up[d] = <<>> /\ mine'[d] = "none"
                        /\ theirs'[d] # "none" => pc'[d[1]] # "connect"
                        /\ theirs'[d] \in {"none", "queued", "leaked"} =>
                             worker[d] = "none" /\ down[d] = <<>>
                        /\ theirs'[d] = "open" => Working(d)
                        /\ theirs'[d] = "closed" => ~Working(d)
      BY <1>2 DEF Served, Working
    <2>1. d[1] \in Peers
      BY OwnerIsPeer
    <2> QED  BY <1>1, <1>3, <1>4, <2>1 DEF Tcp, Served
  <1>8. SizeFirst'
    BY <1>2 DEF Tcp, SizeFirst
  <1>9. ClosedWhy'
    <2> SUFFICES ASSUME NEW d \in Conns, theirs'[d] = "closed" PROVE Reason(d)'
      BY DEF ClosedWhy
    <2>1. theirs[d] = "closed" /\ d # c
      BY <1>4
    <2> QED  BY <1>2, <1>4, <2>1 DEF Tcp, ClosedWhy, Reason
  <1>10. ClientsMeasure'
    BY <1>4 DEF Tcp, ClientsMeasure
  <1>11. Turns'
    <2> SUFFICES ASSUME NEW q \in Clients, sock'[q] # None, theirs'[sock'[q]] # "closed"
                 PROVE  Turn(msize, pc'[q], rest[q], up[sock'[q]], down[sock'[q]],
                             worker[sock'[q]], owes[sock'[q]],
                             sock'[q] \in sized, sock'[q] \in short)
      BY <1>2 DEF Turns, TurnOf
    <2>1. CASE q = p
      BY <1>3, <1>4, <2>1 DEF Turn
    <2>2. CASE q # p
      <3>1. q \in Peers /\ sock'[q] = sock[q] /\ pc'[q] = pc[q]
        BY <1>4, <2>2 DEF Peers
      <3>2. sock[q] \in Conns
        BY <3>1 DEF StreamsInv, TypeInv
      <3>3. sock[q] # c
        BY <1>1, <2>2, <3>1 DEF StreamsInv, OwnSocket
      <3> QED  BY <1>4, <3>1, <3>2, <3>3 DEF Tcp, Turns, TurnOf
    <2> QED  BY <2>1, <2>2
  <1> QED  BY <1>5, <1>6, <1>7, <1>8, <1>9, <1>10, <1>11 DEF Tcp

\* Refused of lat_tcp keeps the second invariant.
LEMMA RefusedTcp ==
  ASSUME StreamsInv, Tcp, kind = "lat_tcp", NEW p \in Peers, Refused(p)
  PROVE  Tcp'
  <1>1. /\ UNCHANGED <<msize, server, at, backlog, worker, owes, up, down, mine, theirs, rest,
                       sized, short, crashed>>
        /\ \/ UNCHANGED <<pc, sock>>
           \/ UNCHANGED sock /\ pc' = [pc EXCEPT ![p] = "exit"]
           \/ /\ sock' = [sock EXCEPT ![p] = None]
              /\ pc' = [pc EXCEPT ![p] = IF p \in Stoppers THEN "close" ELSE "size"]
    <2>1. ~(kind = "bw_tcp" /\ p \in Clients) /\ Forks
      BY DEF Forks
    <2>2. AfterConnect(p) = IF p \in Stoppers THEN "close" ELSE "size"
      BY <2>1 DEF AfterConnect
    <2>3. /\ UNCHANGED <<program, serverVars, connVars, rest, history>>
          /\ \/ UNCHANGED <<pc, sock>>
             \/ UNCHANGED sock /\ Goes(p, "exit")
             \/ sock' = [sock EXCEPT ![p] = None] /\ Goes(p, AfterConnect(p))
      BY <2>1, Zenon DEF Refused
    <2> QED  BY <2>2, <2>3 DEF Goes, program, serverVars, connVars, history
  <1>2. CASE UNCHANGED <<pc, sock>>
    BY <1>1, <1>2 DEF Tcp, WorkersTyped, Queued, Served, SizeFirst, ClosedWhy, Reason,
       ClientsMeasure, Turns, TurnOf, Working
  <1>3. CASE ~UNCHANGED <<pc, sock>>
    <2>1. /\ pc'[p] \notin {"connect", "stop"} /\ sock'[p] \in {sock[p], None}
          /\ pc'[p] \in {"size", "write", "read"} => p \in Clients
          /\ sock'[p] # None => pc'[p] = "exit"
          /\ \A q \in Peers : q # p => pc'[q] = pc[q] /\ sock'[q] = sock[q]
      BY <1>1, <1>3 DEF StreamsInv, TypeInv, Peers
    <2>2. rest' \in [Peers -> Nat] /\ sized \subseteq Conns /\ short \subseteq Conns
      BY <1>1 DEF Tcp, WorkersTyped
    <2>3. sock[p] # None =>
            (sock[p] \in sized /\ worker[sock[p]] \in {"none", "first"} =>
               up[sock[p]] # <<>> /\ up[sock[p]][1] = "size")
      BY DEF Tcp, SizeFirst
    <2>4. \A r, u, d, w, o, z, s : Turn(msize, "exit", r, u, d, w, o, z, s)
      BY DEF Turn
    <2> QED  BY <1>1, <2>1, <2>2, <2>3, <2>4, PeerSide
  <1> QED  BY <1>2, <1>3

(* What a write of a peer does.                                            *)
LEMMA WritesTcp ==
  ASSUME StreamsInv, Tcp, NEW p \in Peers, p \in Clients, NEW token,
         pc[p] \in {"size", "write"}, NEW then \in {"write", "read"},
         Writes(p, token, then), token \in {"size", "part"},
         UNCHANGED <<msize, server, at, backlog, worker, owes, theirs, down, mine, sock,
                     short, crashed>>,
         rest' \in [Peers -> Nat], \A q \in Peers : q # p => rest'[q] = rest[q],
         token = "size" => pc[p] = "size",
         sized' = IF token = "size" THEN sized \union {c \in Conns : up'[c] # up[c]} ELSE sized,
         sock[p] # None /\ TurnOf(p, sock[p]) =>
           Turn(msize, then, rest'[p], Append(up[sock[p]], token), down[sock[p]],
                worker[sock[p]], owes[sock[p]],
                token = "size" \/ sock[p] \in sized, sock[p] \in short)
  PROVE  Tcp'
  <1> DEFINE c == sock[p]
  <1>1. /\ pc' = [pc EXCEPT ![p] = then] \/ pc' = [pc EXCEPT ![p] = "exit"]
        /\ \/ /\ c # None /\ up' = [up EXCEPT ![c] = Append(up[c], token)]
              /\ pc' = [pc EXCEPT ![p] = then] /\ theirs[c] # "closed"
           \/ c # None /\ theirs[c] = "closed" /\ up' = up
           \/ c = None /\ up' = up
    BY DEF Writes, Goes, Put, Broken
  <1>2. pc'[p] \notin {"connect", "stop"} /\ \A q \in Peers : q # p => pc'[q] = pc[q]
    BY <1>1 DEF StreamsInv, TypeInv
  <1>3. \A d \in Conns : d # c => up'[d] = up[d]
    BY <1>1 DEF StreamsInv, TypeInv
  <1>4. \A d \in Conns : d # c => (d \in sized' <=> d \in sized)
    BY <1>3
  <1>5. c # None => c \in Conns
    BY DEF StreamsInv, TypeInv
  <1>6. ASSUME c # None, theirs[c] # "closed"
        PROVE  /\ up[c] \in Seq({"size", "part", "0"}) /\ up'[c] = Append(up[c], token)
               /\ up'[c] # up[c] /\ up'[c] # <<>> /\ pc'[p] = then
               /\ up'[c][1] = IF up[c] = <<>> THEN token ELSE up[c][1]
    <2>1. /\ c \in Conns /\ up[c] \in Seq({"size", "part", "0"}) /\ Len(up[c]) \in Nat
          /\ up[c] = <<>> <=> Len(up[c]) = 0
      BY <1>5, <1>6, Lengths DEF StreamsInv, TypeInv
    <2>2. up'[c] = Append(up[c], token) /\ pc'[p] = then
      BY <1>1, <1>6, <2>1 DEF StreamsInv, TypeInv
    <2> DEFINE q == up[c]
    <2>3. q \in Seq({"size", "part", "0"}) /\ Len(q) \in Nat /\ (q = <<>> <=> Len(q) = 0)
      BY <2>1
    <2> HIDE DEF q
    <2>4. /\ Len(Append(q, token)) = Len(q) + 1 /\ Append(q, token)[Len(q) + 1] = token
          /\ \A i \in 1..Len(q) : Append(q, token)[i] = q[i]
      BY <2>3, AppendProperties
    <2>5. Append(q, token)[1] = IF q = <<>> THEN token ELSE q[1]
      BY <2>3, <2>4
    <2>6. Append(q, token) # q /\ Append(q, token) # <<>>
      BY <2>3, <2>4
    <2> QED  BY <2>1, <2>2, <2>5, <2>6 DEF q
  <1>7. ASSUME c # None, c \in sized', worker[c] \in {"none", "first"}
        PROVE  up'[c] # <<>> /\ up'[c][1] = "size"
    <2>1. CASE c \in sized
      <3>1. up[c] # <<>> /\ up[c][1] = "size"
        BY <1>7, <2>1 DEF Tcp, SizeFirst
      <3> QED  BY <1>1, <1>6, <1>7, <3>1
    <2>2. CASE c \notin sized
      <3>1. token = "size" /\ up'[c] # up[c] /\ theirs[c] # "closed"
        BY <1>1, <1>7, <2>2
      <3>2. up[c] = <<>>
        BY <1>7, <3>1 DEF Tcp, Turns, TurnOf, Turn
      <3> QED  BY <1>6, <1>7, <3>1, <3>2
    <2> QED  BY <2>1, <2>2
  <1>8. ASSUME c # None, theirs[c] # "closed"
        PROVE  Turn(msize, pc'[p], rest'[p], up'[c], down'[c], worker[c],
                   owes[c], c \in sized', c \in short')
    <2>1. TurnOf(p, c)
      BY <1>8 DEF Tcp, Turns
    <2>2. (c \in sized') = (token = "size" \/ c \in sized)
      BY <1>5, <1>6, <1>8
    <2> QED  BY <1>6, <1>8, <2>1, <2>2
  <1>9. sized' \subseteq Conns /\ short' \subseteq Conns
    BY DEF Tcp, WorkersTyped
  <1> HIDE DEF c
  <1>10. c = sock[p]
    BY DEF c
  <1> QED  BY <1>2, <1>3, <1>4, <1>7, <1>8, <1>9, <1>10, PeerSide

\* SendSize of lat_tcp keeps the second invariant.
LEMMA SendSizeTcp ==
  ASSUME StreamsInv, Tcp, kind = "lat_tcp", NEW p \in Peers, SendSize(p)
  PROVE  Tcp'
  <1>1. /\ pc[p] = "size" /\ Writes(p, "size", "write")
        /\ rest' = [rest EXCEPT ![p] = msize]
        /\ sized' = sized \union {c \in Conns : up'[c] # up[c]}
        /\ UNCHANGED <<msize, server, at, backlog, worker, owes, theirs, down, mine, sock,
                       short, crashed>>
    BY DEF SendSize, program, serverVars
  <1>2. msize \in Nat
    BY DEF StreamsInv, TypeInv
  <1>3. /\ rest' \in [Peers -> Nat] /\ rest'[p] = msize
        /\ \A q \in Peers : q # p => rest'[q] = rest[q]
    BY <1>1, <1>2 DEF Tcp, WorkersTyped
  <1>4. p \in Clients
    BY <1>1 DEF Tcp, ClientsMeasure
  <1>5. ASSUME sock[p] # None, TurnOf(p, sock[p])
        PROVE  Turn(msize, "write", rest'[p], Append(up[sock[p]], "size"), down[sock[p]],
                    worker[sock[p]], owes[sock[p]], "size" = "size" \/ sock[p] \in sized,
                    sock[p] \in short)
    <2>1. up[sock[p]] = <<>> /\ down[sock[p]] = <<>> /\ worker[sock[p]] \in {"none", "first"}
      BY <1>1, <1>5 DEF TurnOf, Turn
    <2>2. Append(<<>>, "size") = <<"size">> /\ Len(<<"size">>) = 1 /\ Len(<<>>) = 0
      OBVIOUS
    <2> QED  BY <1>2, <1>3, <2>1, <2>2 DEF Turn, Balance, Due, Size, Owed
  <1> QED  BY <1>1, <1>3, <1>4, <1>5, WritesTcp

\* ClientWrites of lat_tcp keeps the second invariant.
LEMMA ClientWritesTcp ==
  ASSUME StreamsInv, Tcp, kind = "lat_tcp", NEW p \in Peers, ClientWrites(p)
  PROVE  Tcp'
  <1>1. /\ pc[p] = "write"
        /\ UNCHANGED <<msize, server, at, backlog, worker, owes, theirs, down, mine, sock,
                       sized, short, crashed>>
    BY DEF ClientWrites, program, serverVars, history
  <1>2. rest \in [Peers -> Nat] /\ rest[p] \in Nat /\ msize \in Nat
    BY DEF Tcp, WorkersTyped, StreamsInv, TypeInv
  <1>3. p \in Clients
    BY <1>1 DEF Tcp, ClientsMeasure
  <1>4. sized' = IF "part" = "size" THEN sized \union {c \in Conns : up'[c] # up[c]} ELSE sized
    BY <1>1
  <1>5. ASSUME sock[p] # None, TurnOf(p, sock[p])
        PROVE  /\ sock[p] \in sized /\ rest[p] <= msize /\ (msize > 0 => rest[p] > 0)
               /\ LET b == Balance(Append(up[sock[p]], "part"), down[sock[p]],
                                   worker[sock[p]], owes[sock[p]])
                  IN  /\ b >= msize - rest[p] + 1
                      /\ sock[p] \notin short => b = msize - rest[p] + 1
    <2>1. sock[p] \in Conns
      BY <1>5 DEF StreamsInv, TypeInv
    <2>2. /\ up[sock[p]] \in Seq({"size", "part", "0"}) /\ Len(up[sock[p]]) \in Nat
          /\ Len(down[sock[p]]) \in Nat
      BY <2>1, Lengths DEF StreamsInv, TypeInv
    <2>3. Len(Append(up[sock[p]], "part")) = Len(up[sock[p]]) + 1
      BY <2>2
    <2> DEFINE a == Balance(up[sock[p]], down[sock[p]], worker[sock[p]], owes[sock[p]])
               b == Balance(Append(up[sock[p]], "part"), down[sock[p]], worker[sock[p]],
                            owes[sock[p]])
    <2>5. a \in Int /\ b = a + 1
      <3>1. PICK l \in Nat, k \in Nat, x \in Nat, y \in Nat :
              /\ Len(up[sock[p]]) = l /\ Len(down[sock[p]]) = k
              /\ Size(worker[sock[p]]) = x /\ Owed(worker[sock[p]], owes[sock[p]]) = y
        BY <2>1, BalanceFacts
      <3>2. a = l - x + k + y
        BY <3>1 DEF Balance
      <3>3. Len(Append(up[sock[p]], "part")) = l + 1 /\ l + 1 \in Nat
        BY <2>3, <3>1
      <3>4. b = (l + 1) - x + k + y
        BY <3>1, <3>3 DEF Balance
      <3> HIDE DEF a, b
      <3> QED  BY <3>2, <3>4
    <2>6. /\ sock[p] \in sized /\ rest[p] <= msize /\ (msize > 0 => rest[p] > 0)
          /\ a >= msize - rest[p] /\ (sock[p] \notin short => a = msize - rest[p])
      BY <1>1, <1>5 DEF TurnOf, Turn, Due
    <2> HIDE DEF a, b
    <2>7. b >= msize - rest[p] + 1 /\ (sock[p] \notin short => b = msize - rest[p] + 1)
      BY <1>2, <2>5, <2>6
    <2> QED  BY <2>6, <2>7 DEF b
  <1>6. CASE rest[p] > 1 /\ Writes(p, "part", "write") /\ rest' = [rest EXCEPT ![p] = @ - 1]
    <2>1. rest[p] - 1 \in Nat /\ rest[p] - 1 > 0
      BY <1>2, <1>6
    <2>2. /\ rest' \in [Peers -> Nat] /\ rest'[p] = rest[p] - 1
          /\ \A q \in Peers : q # p => rest'[q] = rest[q]
      BY <1>2, <1>6, <2>1
    <2>3. ASSUME sock[p] # None, TurnOf(p, sock[p])
          PROVE  Turn(msize, "write", rest'[p], Append(up[sock[p]], "part"), down[sock[p]],
                      worker[sock[p]], owes[sock[p]], "part" = "size" \/ sock[p] \in sized,
                      sock[p] \in short)
      BY <1>2, <1>5, <2>1, <2>2, <2>3 DEF Turn, Due
    <2> QED  BY <1>1, <1>3, <1>4, <1>6, <2>2, <2>3, WritesTcp
  <1>7. CASE rest[p] = 1 /\ Writes(p, "part", "read") /\ UNCHANGED rest
    <2>1. ASSUME sock[p] # None, TurnOf(p, sock[p])
          PROVE  Turn(msize, "read", rest'[p], Append(up[sock[p]], "part"), down[sock[p]],
                      worker[sock[p]], owes[sock[p]], "part" = "size" \/ sock[p] \in sized,
                      sock[p] \in short)
      BY <1>2, <1>5, <1>7, <2>1 DEF Turn, Due
    <2> QED  BY <1>1, <1>2, <1>3, <1>4, <1>7, <2>1, WritesTcp
  <1>8. CASE msize = 0 /\ UNCHANGED <<up, rest>> /\ (Goes(p, "read") \/ Goes(p, "exit"))
    <2>1. /\ pc'[p] \in {"read", "exit"}
          /\ \A q \in Peers : q # p => pc'[q] = pc[q]
      BY <1>8 DEF Goes, StreamsInv, TypeInv
    <2>2. sock[p] # None =>
            (sock[p] \in sized /\ worker[sock[p]] \in {"none", "first"} =>
               up[sock[p]] # <<>> /\ up[sock[p]][1] = "size")
      BY DEF Tcp, SizeFirst
    <2>3. sized \subseteq Conns /\ short \subseteq Conns
      BY DEF Tcp, WorkersTyped
    <2>4. ASSUME sock[p] # None, theirs[sock[p]] # "closed"
          PROVE  Turn(msize, pc'[p], rest[p], up[sock[p]], down[sock[p]], worker[sock[p]],
                      owes[sock[p]], sock[p] \in sized, sock[p] \in short)
      <3>1. TurnOf(p, sock[p])
        BY <1>3, <2>4 DEF Tcp, Turns
      <3>2. rest[p] = 0
        BY <1>1, <1>2, <1>8, <3>1 DEF TurnOf, Turn
      <3> QED  BY <1>1, <1>8, <2>1, <3>1, <3>2 DEF TurnOf, Turn, Due
    <2> QED  BY <1>1, <1>2, <1>3, <1>8, <2>1, <2>2, <2>3, <2>4, PeerSide
  <1> QED  BY <1>6, <1>7, <1>8 DEF ClientWrites

\* ClientReads of lat_tcp keeps the second invariant.
LEMMA ClientReadsTcp ==
  ASSUME StreamsInv, Tcp, kind = "lat_tcp", NEW p \in Peers, ClientReads(p)
  PROVE  Tcp'
  <1> DEFINE c == sock[p]
  <1>1. /\ pc[p] = "read" /\ rest' = [rest EXCEPT ![p] = msize]
        /\ UNCHANGED <<msize, server, at, backlog, worker, owes, theirs, up, mine, sock,
                       sized, crashed>>
        /\ pc' = [pc EXCEPT ![p] = "write"] \/ pc' = [pc EXCEPT ![p] = "close"]
    BY DEF ClientReads, NextIteration, Goes, PerIteration, Forks, program, serverVars
  <1>2. msize \in Nat
    BY DEF StreamsInv, TypeInv
  <1>3. /\ rest' \in [Peers -> Nat] /\ rest'[p] = msize
        /\ pc'[p] \in {"write", "close"}
        /\ \A q \in Peers : q # p => rest'[q] = rest[q] /\ pc'[q] = pc[q]
        /\ sized \subseteq Conns
    BY <1>1, <1>2 DEF Tcp, WorkersTyped, StreamsInv, TypeInv
  <1>4. p \in Clients
    BY <1>1 DEF Tcp, ClientsMeasure
  <1>5. c # None => c \in Conns
    BY DEF StreamsInv, TypeInv
  <1>6. c # None =>
          (c \in sized /\ worker[c] \in {"none", "first"} => up[c] # <<>> /\ up[c][1] = "size")
    BY DEF Tcp, SizeFirst
  <1>7. CASE /\ c # None /\ down[c] # <<>>
             /\ \E n \in 1..Most(c, down) :
                  /\ down' = [down EXCEPT ![c] = SubSeq(@, n + 1, Len(@))]
                  /\ CutShort(c, n)
    <2>1. PICK n \in 1..Most(c, down) :
            /\ down' = [down EXCEPT ![c] = SubSeq(@, n + 1, Len(@))]
            /\ CutShort(c, n)
      BY <1>7
    <2>2. /\ Len(down'[c]) = Len(down[c]) - n /\ n \in Nat /\ n <= msize
          /\ Len(down[c]) \in Nat /\ n <= Len(down[c])
          /\ \A d \in Conns : d # c => down'[d] = down[d]
      BY <1>5, <1>7, <2>1, DownTaken, MostFacts DEF StreamsInv, TypeInv
    <2>3. /\ short' \subseteq Conns /\ (c \in short' <=> c \in short \/ n < msize)
          /\ \A d \in Conns : d # c => (d \in short' <=> d \in short)
      BY <1>5, <1>7, <2>1 DEF CutShort, Tcp, WorkersTyped
    <2>4. ASSUME theirs[c] # "closed"
          PROVE  Turn(msize, pc'[p], rest'[p], up[c], down'[c], worker[c], owes[c],
                      c \in sized, c \in short')
      <3>1. TurnOf(p, c)
        BY <1>4, <1>7, <2>4 DEF Tcp, Turns
      <3> DEFINE a == Balance(up[c], down[c], worker[c], owes[c])
                 b == Balance(up[c], down'[c], worker[c], owes[c])
      <3>2. a \in Int /\ b = a - n
        <4>1. PICK l \in Nat, k \in Nat, x \in Nat, y \in Nat :
                /\ Len(up[c]) = l /\ Len(down[c]) = k
                /\ Size(worker[c]) = x /\ Owed(worker[c], owes[c]) = y
          BY <1>5, <1>7, BalanceFacts
        <4>2. a = l - x + k + y
          BY <4>1 DEF Balance
        <4>3. Len(down'[c]) = k - n /\ k - n \in Nat
          BY <2>2, <4>1
        <4>4. b = l - x + (k - n) + y
          BY <4>1, <4>3 DEF Balance
        <4> HIDE DEF a, b
        <4> QED  BY <2>2, <4>1, <4>2, <4>4
      <3>3. c \in sized /\ a >= msize /\ (c \notin short => a = msize)
        BY <1>1, <3>1 DEF TurnOf, Turn, Due
      <3> HIDE DEF a, b
      <3>4. b >= 0 /\ (c \notin short' => b = 0)
        BY <1>2, <2>2, <2>3, <3>2, <3>3
      <3>5. Due(msize, "write", msize) = 0
        BY <1>2 DEF Due
      <3> QED  BY <1>2, <1>3, <3>3, <3>4, <3>5 DEF Turn, b
    <2> HIDE DEF c
    <2>5. c = sock[p]
      BY DEF c
    <2> QED  BY <1>1, <1>3, <1>4, <1>6, <1>7, <2>2, <2>3, <2>4, <2>5, PeerSide
  <1>8. CASE UNCHANGED <<down, short>> /\ (c # None => msize = 0 \/ theirs[c] = "closed")
    <2>1. short \subseteq Conns
      BY DEF Tcp, WorkersTyped
    <2>2. ASSUME c # None, theirs[c] # "closed"
          PROVE  Turn(msize, pc'[p], rest'[p], up[c], down[c], worker[c], owes[c],
                      c \in sized, c \in short)
      <3>1. TurnOf(p, c) /\ msize = 0
        BY <1>4, <1>8, <2>2 DEF Tcp, Turns
      <3> QED  BY <1>1, <1>3, <3>1 DEF TurnOf, Turn, Due
    <2> QED  BY <1>1, <1>3, <1>4, <1>6, <1>8, <2>1, <2>2, PeerSide
  <1>9. msize = 0 \/ msize > 0
    BY <1>2
  <1> QED  BY <1>7, <1>8, <1>9 DEF ClientReads, Broken

\* Closes of lat_tcp keeps the second invariant.
LEMMA ClosesTcp ==
  ASSUME StreamsInv, Tcp, kind = "lat_tcp", NEW p \in Peers, Closes(p) \/ Ends(p)
  PROVE  Tcp'
  <1>1. /\ pc' = [pc EXCEPT ![p] = "done"] /\ sock' = [sock EXCEPT ![p] = None]
        /\ mine' = IF sock[p] = None THEN mine ELSE [mine EXCEPT ![sock[p]] = "closed"]
        /\ UNCHANGED <<msize, server, at, backlog, worker, owes, theirs, up, down, rest,
                       sized, short, crashed>>
    BY DEF Closes, Ends, CloseSock, Goes, PerIteration, Forks, program, serverVars, history
  <1>2. /\ pc'[p] = "done" /\ sock'[p] = None
        /\ \A q \in Peers : q # p => pc'[q] = pc[q] /\ sock'[q] = sock[q]
        /\ \A c \in Conns : c # sock[p] => mine'[c] = mine[c]
        /\ sock[p] # None => mine'[sock[p]] = "closed"
    BY <1>1 DEF StreamsInv, TypeInv
  <1>3. rest' \in [Peers -> Nat] /\ sized \subseteq Conns /\ short \subseteq Conns
    BY <1>1 DEF Tcp, WorkersTyped
  <1>4. sock[p] # None =>
          (sock[p] \in sized /\ worker[sock[p]] \in {"none", "first"} =>
             up[sock[p]] # <<>> /\ up[sock[p]][1] = "size")
    BY DEF Tcp, SizeFirst
  <1> QED  BY <1>1, <1>2, <1>3, <1>4, PeerSide

\* Dies of lat_tcp keeps the second invariant.
LEMMA DiesTcp ==
  ASSUME StreamsInv, Tcp, NEW p \in Peers, Dies(p)
  PROVE  Tcp'
  <1>1. /\ pc' = [pc EXCEPT ![p] = "exit"]
        /\ UNCHANGED <<msize, server, at, backlog, worker, owes, theirs, up, down, rest, mine,
                       sock, sized, short, crashed>>
    BY DEF Dies, Goes, program, serverVars, connVars, history
  <1>2. pc'[p] = "exit" /\ \A q \in Peers : q # p => pc'[q] = pc[q]
    BY <1>1 DEF StreamsInv, TypeInv
  <1>3. rest' \in [Peers -> Nat] /\ sized \subseteq Conns /\ short \subseteq Conns
    BY <1>1 DEF Tcp, WorkersTyped
  <1>4. sock[p] # None =>
          (sock[p] \in sized /\ worker[sock[p]] \in {"none", "first"} =>
             up[sock[p]] # <<>> /\ up[sock[p]][1] = "size")
    BY DEF Tcp, SizeFirst
  <1>5. \A r, u, d, w, o, z, s : Turn(msize, "exit", r, u, d, w, o, z, s)
    BY DEF Turn
  <1> QED  BY <1>1, <1>2, <1>3, <1>4, <1>5, PeerSide

(* The server's side of lat_tcp.                                           *)
LEMMA AcceptTcp ==
  ASSUME StreamsInv, Tcp, kind = "lat_tcp", NEW c \in Conns, Accept(c)
  PROVE  Tcp'
  <1>1. /\ server = "accept" /\ backlog # <<>> /\ c = Head(backlog) /\ backlog' = Tail(backlog)
        /\ UNCHANGED <<msize, server, at, owes, up, down, mine, pc, sock, rest, sized, short,
                       crashed>>
        /\ \/ worker' = [worker EXCEPT ![c] = "first"] /\ theirs' = [theirs EXCEPT ![c] = "open"]
           \/ UNCHANGED worker /\ theirs' = [theirs EXCEPT ![c] = "leaked"]
    BY DEF Accept, Forks, program, peerVars, history
  <1>2. /\ c = backlog[1] /\ 1 \in 1..Len(backlog)
        /\ backlog' \in Seq(Conns) /\ Len(backlog') = Len(backlog) - 1
        /\ \A i \in 1..Len(backlog') : i + 1 \in 1..Len(backlog) /\ backlog'[i] = backlog[i + 1]
    BY <1>1, HeadTailProperties, LenProperties, EmptySeq DEF Tcp, WorkersTyped
  <1>3. \A i \in 1..Len(backlog) : backlog[i] \in Conns
    BY ElementOfSeq DEF Tcp, WorkersTyped
  <1>4. /\ theirs[c] = "queued"
        /\ \A i \in 1..Len(backlog') : theirs[backlog'[i]] = "queued" /\ backlog'[i] # c
    <2>1. \A i, k \in 1..Len(backlog) :
            theirs[backlog[i]] = "queued" /\ (backlog[i] = backlog[k] => i = k)
      BY <1>1 DEF Tcp, Queued
    <2>2. \A i \in 1..Len(backlog') : i + 1 # 1
      BY <1>2
    <2> QED  BY <1>2, <2>1, <2>2
  <1>5. worker[c] = "none" /\ down[c] = <<>> /\ pc[c[1]] # "connect"
    BY <1>4 DEF Tcp, Served
  <1>6. /\ \/ theirs'[c] = "open" /\ worker'[c] = "first"
           \/ theirs'[c] = "leaked" /\ worker'[c] = "none"
        /\ \A d \in Conns : d # c => theirs'[d] = theirs[d] /\ worker'[d] = worker[d]
    BY <1>1, <1>5 DEF StreamsInv, TypeInv, Tcp, WorkersTyped
  <1>7. WorkersTyped'
    <2> SUFFICES ASSUME NEW d \in Conns, worker'[d] = "write" PROVE owes[d] > 0
      BY <1>1, <1>2 DEF Tcp, WorkersTyped
    <2> QED  BY <1>6 DEF Tcp, WorkersTyped
  <1>8. Queued'
    <2> SUFFICES ASSUME NEW i \in 1..Len(backlog'), NEW k \in 1..Len(backlog')
                 PROVE  theirs'[backlog'[i]] = "queued" /\ (backlog'[i] = backlog'[k] => i = k)
      BY DEF Queued
    <2>1. theirs'[backlog'[i]] = "queued"
      BY <1>2, <1>3, <1>4, <1>6
    <2>2. ASSUME backlog'[i] = backlog'[k] PROVE i = k
      <3>1. i + 1 = k + 1
        BY <1>1, <1>2, <2>2 DEF Tcp, Queued
      <3> QED  BY <3>1
    <2> QED  BY <2>1, <2>2
  <1>9. Served'
    <2> SUFFICES ASSUME NEW d \in Conns
                 PROVE  /\ theirs'[d] = "none" => up[d] = <<>> /\ mine[d] = "none"
                        /\ theirs'[d] # "none" => pc[d[1]] # "connect"
                        /\ theirs'[d] \in {"none", "queued", "leaked"} =>
                             worker'[d] = "none" /\ down[d] = <<>>
                        /\ theirs'[d] = "open" => worker'[d] \in {"first", "read", "write"}
                        /\ theirs'[d] = "closed" => worker'[d] \notin {"first", "read", "write"}
      BY <1>1 DEF Served, Working
    <2>1. CASE d = c
      BY <1>5, <1>6, <2>1
    <2>2. CASE d # c
      BY <1>6, <2>2 DEF Tcp, Served, Working
    <2> QED  BY <2>1, <2>2
  <1>10. SizeFirst'
    <2> SUFFICES ASSUME NEW d \in sized, worker'[d] \in {"none", "first"}
                 PROVE  up[d] # <<>> /\ up[d][1] = "size"
      BY <1>1 DEF SizeFirst
    <2>1. d \in Conns
      BY DEF Tcp, WorkersTyped
    <2>2. worker[d] \in {"none", "first"}
      BY <1>5, <1>6, <2>1
    <2> QED  BY <2>2 DEF Tcp, SizeFirst
  <1>11. ClosedWhy'
    <2> SUFFICES ASSUME NEW d \in Conns, theirs'[d] = "closed" PROVE Reason(d)'
      BY DEF ClosedWhy
    <2>1. d # c /\ theirs[d] = "closed"
      BY <1>6
    <2> QED  BY <1>1, <1>6, <2>1 DEF Tcp, ClosedWhy, Reason
  <1>12. ClientsMeasure'
    BY <1>1 DEF Tcp, ClientsMeasure
  <1>13. Turns'
    <2> SUFFICES ASSUME NEW q \in Clients, sock[q] # None, theirs'[sock[q]] # "closed"
                 PROVE  Turn(msize, pc[q], rest[q], up[sock[q]], down[sock[q]],
                             worker'[sock[q]], owes[sock[q]],
                             sock[q] \in sized, sock[q] \in short)
      BY <1>1 DEF Turns, TurnOf
    <2>1. sock[q] \in Conns
      BY DEF StreamsInv, TypeInv, Peers
    <2>2. CASE sock[q] = c
      <3>1. Turn(msize, pc[q], rest[q], up[c], down[c], "none", owes[c], c \in sized, c \in short)
        BY <1>4, <1>5, <2>2 DEF Tcp, Turns, TurnOf
      <3>2. worker'[c] \in {"none", "first"}
        BY <1>6
      <3> QED  BY <2>2, <3>1, <3>2 DEF Turn, Balance, Size, Owed
    <2>3. CASE sock[q] # c
      BY <1>6, <2>1, <2>3 DEF Tcp, Turns, TurnOf
    <2> QED  BY <2>2, <2>3
  <1> QED  BY <1>7, <1>8, <1>9, <1>10, <1>11, <1>12, <1>13 DEF Tcp

(* What the end of a process closes.                                       *)
LEMMA EndsWithoutCloses ==
  ASSUME NEW alive, NEW cs, NEW d \in Conns, theirs' = EndsWithout(alive, cs)
  PROVE  \/ theirs'[d] = "closed" /\ (d \in cs \/ (~alive /\ theirs[d] = "queued"))
         \/ theirs'[d] = theirs[d] /\ d \notin cs
  BY DEF EndsWithout

(* A worker that is told to end, by a stopper or at the end of the data.   *)
LEMMA ShutdownTcp ==
  ASSUME StreamsInv, Tcp, NEW c \in Conns, Working(c), Shutdown(c),
         UNCHANGED <<msize, owes, mine, pc, sock, rest, down, sized, short, crashed>>,
         \A d \in Conns : d # c => up'[d] = up[d], mine[c] = "closed" \/ c[1] \in Stoppers
  PROVE  Tcp'
  <1> DEFINE others == \E d \in Conns \ {c} : Working(d)
  <1>1. /\ server' = "dead" /\ at' = None /\ backlog' = IF others THEN backlog ELSE <<>>
        /\ worker' = [worker EXCEPT ![c] = "gone"]
        /\ theirs' = EndsWithout(others, {c} \union Held)
    BY DEF Shutdown, ServerEnds
  <1> HIDE DEF others
  <1>2. backlog' \in Seq(Conns)
    BY <1>1, EmptySeq DEF Tcp, WorkersTyped
  <1>3. Queued'
    BY <1>1 DEF Queued
  <1>4. /\ theirs[c] = "open"
        /\ \A d \in Conns : d \in Held => theirs[d] = "leaked"
        /\ \A d \in Conns : theirs[d] \in {"leaked", "queued"} => worker[d] = "none"
    BY DEF Tcp, Served, Held, WorkersTyped, Working, StreamsInv, TypeInv
  <1>5. /\ worker' \in [Conns -> {"none", "first", "read", "write", "gone"}]
        /\ worker'[c] = "gone" /\ \A d \in Conns : d # c => worker'[d] = worker[d]
    BY <1>1 DEF Tcp, WorkersTyped
  <1>6. ASSUME NEW d \in Conns
        PROVE  \/ /\ theirs'[d] = "closed" /\ theirs[d] # "none" /\ Reason(d)'
                  /\ \/ worker'[d] = "gone"
                     \/ worker'[d] = "none" /\ worker[d] = "none" /\ up'[d] = up[d]
               \/ /\ theirs'[d] = theirs[d] /\ worker'[d] = worker[d]
                  /\ up'[d] = up[d] /\ down'[d] = down[d]
    <2>1. \/ theirs'[d] = "closed" /\ (d \in {c} \union Held \/ theirs[d] = "queued")
          \/ theirs'[d] = theirs[d] /\ d \notin {c} \union Held
      BY <1>1, EndsWithoutCloses
    <2>2. CASE d = c
      BY <1>4, <1>5, <2>1, <2>2 DEF Reason
    <2>3. CASE d # c
      BY <1>1, <1>4, <1>5, <2>1, <2>3 DEF Reason
    <2> QED  BY <2>2, <2>3
  <1> QED  BY <1>1, <1>2, <1>3, <1>5, <1>6, OnlyCloses DEF Tcp, WorkersTyped

(* A worker that ends for a reason.                                        *)
LEMMA LeavesTcp ==
  ASSUME StreamsInv, Tcp, NEW c \in Conns, Working(c), Leaves(c),
         UNCHANGED <<msize, owes, mine, pc, sock, rest, down, up, sized, short>>,
         crashed \subseteq crashed', crashed' \subseteq Conns,
         msize = 0 \/ mine[c] = "closed" \/ c \in crashed'
  PROVE  Tcp'
  <1> DEFINE alive == server # "dead" \/ \E d \in Conns \ {c} : Working(d)
  <1>1. /\ UNCHANGED <<server, at>> /\ backlog' = IF alive THEN backlog ELSE <<>>
        /\ worker' = [worker EXCEPT ![c] = "gone"]
        /\ theirs' = EndsWithout(alive, {c})
        /\ server # "dead" => alive
    BY DEF Leaves
  <1> HIDE DEF alive
  <1>2. backlog' \in Seq(Conns) /\ at' = None
    BY <1>1, EmptySeq DEF Tcp, WorkersTyped
  <1>3. /\ theirs[c] = "open"
        /\ \A d \in Conns : theirs[d] = "queued" => worker[d] = "none"
    BY DEF Tcp, Served, Working, StreamsInv, TypeInv
  <1>4. /\ worker' \in [Conns -> {"none", "first", "read", "write", "gone"}]
        /\ worker'[c] = "gone" /\ \A d \in Conns : d # c => worker'[d] = worker[d]
    BY <1>1 DEF Tcp, WorkersTyped
  <1>5. ASSUME NEW d \in Conns
        PROVE  \/ /\ theirs'[d] = "closed" /\ theirs[d] # "none" /\ Reason(d)'
                  /\ \/ worker'[d] = "gone"
                     \/ worker'[d] = "none" /\ worker[d] = "none" /\ up'[d] = up[d]
               \/ /\ theirs'[d] = theirs[d] /\ worker'[d] = worker[d]
                  /\ up'[d] = up[d] /\ down'[d] = down[d]
    <2>1. \/ theirs'[d] = "closed" /\ (d \in {c} \/ (~alive /\ theirs[d] = "queued"))
          \/ theirs'[d] = theirs[d] /\ d \notin {c}
      BY <1>1, EndsWithoutCloses
    <2>2. CASE d = c
      BY <1>3, <1>4, <2>1, <2>2 DEF Reason
    <2>3. CASE d # c
      BY <1>1, <1>3, <1>4, <2>1, <2>3 DEF Reason
    <2> QED  BY <2>2, <2>3
  <1>6. Queued'
    <2> SUFFICES ASSUME server # "dead" PROVE Queued'
      BY <1>1 DEF Queued
    <2>1. alive /\ backlog' = backlog
      BY <1>1
    <2>2. \A i \in 1..Len(backlog) : backlog[i] \in Conns
      BY ElementOfSeq DEF Tcp, WorkersTyped
    <2>3. \A d \in Conns : d # c => theirs'[d] = theirs[d]
      BY <1>1, <2>1 DEF EndsWithout
    <2> QED  BY <1>3, <2>1, <2>2, <2>3 DEF Tcp, Queued
  <1> QED  BY <1>1, <1>2, <1>4, <1>5, <1>6, OnlyCloses DEF Tcp, WorkersTyped

\* Crashes of lat_tcp keeps the second invariant.
LEMMA CrashesTcp ==
  ASSUME StreamsInv, Tcp, NEW c \in Conns, Crashes(c)
  PROVE  Tcp'
  <1>1. /\ Working(c) /\ Leaves(c) /\ crashed' = crashed \union {c}
        /\ UNCHANGED <<msize, owes, mine, pc, sock, rest, down, up, sized, short>>
    BY DEF Crashes, program, peerVars
  <1>2. crashed \subseteq crashed' /\ crashed' \subseteq Conns /\ c \in crashed'
    BY <1>1 DEF Tcp, WorkersTyped
  <1> QED  BY <1>1, <1>2, LeavesTcp

\* First of lat_tcp keeps the second invariant.
LEMMA FirstTcp ==
  ASSUME StreamsInv, Tcp, kind = "lat_tcp", NEW c \in Conns, First(c)
  PROVE  Tcp'
  <1>1. /\ worker[c] = "first" /\ Working(c)
        /\ UNCHANGED <<msize, mine, pc, sock, rest, down, sized, short, crashed>>
    BY DEF First, program, peerVars, Working
  <1>2. ASSUME up[c] # <<>>, up' = Take(up, c)
        PROVE  /\ Len(up'[c]) = Len(up[c]) - 1
               /\ \A d \in Conns : d # c => up'[d] = up[d]
               /\ Head(up[c]) = "0" => c[1] \in Stoppers
    BY <1>2, FirstTaken
  <1>3. CASE /\ up[c] # <<>> /\ up' = Take(up, c)
             /\ worker' = [worker EXCEPT ![c] = "read"] /\ owes' = [owes EXCEPT ![c] = msize]
             /\ UNCHANGED <<server, at, backlog, theirs>>
    <2>1. ASSUME NEW p \in Clients, TurnOf(p, c)
          PROVE  Turn(msize, pc[p], rest[p], up'[c], down'[c], "read", msize,
                      c \in sized, c \in short')
      <3>1. PICK l \in Nat, k \in Nat : Len(up[c]) = l /\ Len(down[c]) = k /\ l > 0
        BY <1>3, Lengths
      <3>2. /\ Balance(up[c], down[c], "first", owes[c]) = l - 1 + k
            /\ Balance(up'[c], down'[c], "read", msize) = l - 1 + k
        BY <1>1, <1>2, <1>3, <3>1 DEF Balance, Size, Owed
      <3>3. pc[p] # "size"
        BY <1>3, <2>1 DEF TurnOf, Turn
      <3> QED  BY <1>1, <2>1, <3>2, <3>3 DEF TurnOf, Turn
    <2>2. msize \in Nat /\ short' \subseteq Conns
      BY <1>1 DEF StreamsInv, TypeInv, Tcp, WorkersTyped
    <2>3. \A d \in Conns : d # c =>
            up'[d] = up[d] /\ down'[d] = down[d] /\ (d \in short' <=> d \in short)
      BY <1>1, <1>2, <1>3
    <2> QED  BY <1>1, <1>3, <2>1, <2>2, <2>3, WorkerSide
  <1>4. CASE /\ up[c] # <<>> /\ up' = Take(up, c) /\ Head(up[c]) = "0"
             /\ Shutdown(c) /\ UNCHANGED owes
    BY <1>1, <1>2, <1>4, ShutdownTcp
  <1>5. CASE UNCHANGED <<up, owes>> /\ Finished(c) /\ Shutdown(c)
    BY <1>1, <1>5, ShutdownTcp DEF Finished
  <1> QED  BY <1>3, <1>4, <1>5 DEF First

\* WorkerReads of lat_tcp keeps the second invariant.
LEMMA WorkerReadsTcp ==
  ASSUME StreamsInv, Tcp, NEW c \in Conns, WorkerReads(c)
  PROVE  Tcp'
  <1>1. /\ worker[c] = "read" /\ Working(c)
        /\ UNCHANGED <<msize, mine, pc, sock, rest, down, sized, crashed>>
    BY DEF WorkerReads, program, peerVars, Working
  <1>2. CASE /\ up[c] # <<>>
             /\ \E n \in 1..Most(c, up) :
                  up' = [up EXCEPT ![c] = SubSeq(@, n + 1, Len(@))] /\ CutShort(c, n)
             /\ worker' = [worker EXCEPT ![c] = "write"] /\ owes' = [owes EXCEPT ![c] = msize]
             /\ UNCHANGED <<server, at, backlog, theirs>>
    <2>1. PICK n \in 1..Most(c, up) :
            up' = [up EXCEPT ![c] = SubSeq(@, n + 1, Len(@))] /\ CutShort(c, n)
      BY <1>2
    <2>2. n \in Nat /\ n > 0 /\ n <= msize /\ n <= Len(up[c]) /\ msize \in Nat
      BY MostFacts DEF StreamsInv, TypeInv
    <2>3. /\ Len(up'[c]) = Len(up[c]) - n
          /\ \A d \in Conns : d # c => up'[d] = up[d]
      BY <1>2, <2>1, <2>2, TakenFacts DEF StreamsInv, TypeInv
    <2>4. /\ short' \subseteq Conns /\ (c \in short' <=> c \in short \/ n < msize)
          /\ \A d \in Conns : d # c => (d \in short' <=> d \in short)
      BY <2>1 DEF CutShort, Tcp, WorkersTyped
    <2>5. ASSUME NEW p \in Clients, TurnOf(p, c)
          PROVE  Turn(msize, pc[p], rest[p], up'[c], down'[c], "write", msize,
                      c \in sized, c \in short')
      <3>1. PICK l \in Nat, k \in Nat : Len(up[c]) = l /\ Len(down[c]) = k
        BY Lengths
      <3>2. /\ Balance(up[c], down[c], "read", owes[c]) = l + k
            /\ Balance(up'[c], down'[c], "write", msize) = l - n + k + msize
        BY <1>1, <2>2, <2>3, <3>1 DEF Balance, Size, Owed
      <3>3. Due(msize, pc[p], rest[p]) \in Int
        BY <2>2 DEF Due, Tcp, WorkersTyped, Peers
      <3> DEFINE due == Due(msize, pc[p], rest[p])
      <3>4. /\ pc[p] # "size"
            /\ pc[p] \in {"write", "read"} =>
                 c \in sized /\ l + k >= due /\ (c \notin short => l + k = due)
            /\ pc[p] = "write" => rest[p] <= msize /\ (msize > 0 => rest[p] > 0)
        BY <1>1, <2>5, <3>2 DEF TurnOf, Turn
      <3> HIDE DEF due
      <3>5. /\ l + k >= due => l - n + k + msize >= due
            /\ n = msize /\ l + k = due => l - n + k + msize = due
        BY <2>2, <3>1, <3>3 DEF due
      <3>6. c \notin short' => c \notin short /\ n = msize
        BY <2>2, <2>4
      <3> QED  BY <3>2, <3>4, <3>5, <3>6 DEF Turn, due
    <2>6. \A d \in Conns : d # c => down'[d] = down[d]
      BY <1>1
    <2>7. msize > 0
      BY <2>2
    <2> QED  BY <1>1, <1>2, <2>2, <2>3, <2>4, <2>5, <2>6, <2>7, WorkerSide
  <1>3. CASE Leaves(c) /\ ReadsNothing(c) /\ UNCHANGED <<up, owes, short>>
    <2>1. crashed' = crashed /\ crashed \subseteq Conns
      BY <1>1 DEF Tcp, WorkersTyped
    <2> QED  BY <1>1, <1>3, <2>1, LeavesTcp DEF ReadsNothing, Finished
  <1> QED  BY <1>2, <1>3 DEF WorkerReads

\* WorkerWrites of lat_tcp keeps the second invariant.
LEMMA WorkerWritesTcp ==
  ASSUME StreamsInv, Tcp, kind = "lat_tcp", NEW c \in Conns, WorkerWrites(c)
  PROVE  Tcp'
  <1>1. /\ worker[c] = "write" /\ Working(c)
        /\ UNCHANGED <<msize, mine, pc, sock, rest, up, sized, short, crashed>>
    BY DEF WorkerWrites, program, peerVars, Working
  <1>2. owes[c] \in Nat /\ owes[c] > 0 /\ msize \in Nat /\ short' \subseteq Conns
    BY <1>1 DEF Tcp, WorkersTyped, StreamsInv, TypeInv
  <1>3. CASE /\ down' = Put(down, c, "part")
             /\ IF owes[c] > 1 THEN owes' = [owes EXCEPT ![c] = @ - 1] /\ UNCHANGED worker
                ELSE /\ owes' = [owes EXCEPT ![c] = msize]
                     /\ worker' = [worker EXCEPT ![c] = "read"]
             /\ UNCHANGED <<server, at, backlog, theirs>>
    <2> DEFINE w == IF owes[c] > 1 THEN "write" ELSE "read"
               o == IF owes[c] > 1 THEN owes[c] - 1 ELSE msize
    <2>1. /\ w \in {"read", "write"} /\ o \in Nat /\ (w = "write" => o > 0)
          /\ Owed(w, o) = owes[c] - 1 /\ Size(w) = 0
      BY <1>2 DEF Owed, Size
    <2>2. worker' = [worker EXCEPT ![c] = w] /\ owes' = [owes EXCEPT ![c] = o]
      BY <1>1, <1>3 DEF Tcp, WorkersTyped
    <2>3. PICK l \in Nat, k \in Nat :
            Len(up[c]) = l /\ Len(down[c]) = k /\ down[c] \in Seq({"part"})
      BY Lengths DEF StreamsInv, TypeInv
    <2>4. Len(Append(down[c], "part")) = k + 1
      BY <2>3
    <2>5. /\ down'[c] = Append(down[c], "part")
          /\ \A d \in Conns : d # c => up'[d] = up[d] /\ down'[d] = down[d]
      BY <1>1, <1>3 DEF Put, StreamsInv, TypeInv
    <2> HIDE DEF w, o
    <2>6. ASSUME NEW p \in Clients, TurnOf(p, c)
          PROVE  Turn(msize, pc[p], rest[p], up'[c], down'[c], w, o, c \in sized, c \in short')
      <3>1. /\ Balance(up[c], down[c], "write", owes[c]) = l + k + owes[c]
        BY <1>2, <2>3 DEF Balance, Size, Owed
      <3>2. Balance(up'[c], down'[c], w, o) = l + k + owes[c]
        BY <1>1, <1>2, <2>1, <2>3, <2>4, <2>5 DEF Balance
      <3> QED  BY <1>1, <2>6, <3>1, <3>2 DEF TurnOf, Turn
    <2>7. \A d \in Conns : d # c => (d \in short' <=> d \in short)
      BY <1>1
    <2> QED  BY <1>1, <1>2, <1>3, <2>1, <2>2, <2>5, <2>6, <2>7, WorkerSide
  <1>4. CASE Finished(c) /\ Leaves(c) /\ UNCHANGED <<down, owes>>
    <2>1. crashed' = crashed /\ crashed \subseteq Conns
      BY <1>1 DEF Tcp, WorkersTyped
    <2> QED  BY <1>1, <1>4, <2>1, LeavesTcp DEF Finished
  <1> QED  BY <1>3, <1>4 DEF WorkerWrites

\* Expire of lat_tcp keeps the second invariant.
LEMMA ExpireTcp ==
  ASSUME StreamsInv, Tcp, Expire
  PROVE  Tcp'
  <1> DEFINE others == \E c \in Conns : Working(c)
  <1>1. /\ server' = "dead" /\ at' = None /\ backlog' = IF others THEN backlog ELSE <<>>
        /\ theirs' = EndsWithout(others, Held)
        /\ UNCHANGED <<msize, worker, owes, up, down, mine, pc, sock, rest, sized, short, crashed>>
    BY DEF Expire, ServerEnds, program, peerVars, history
  <1> HIDE DEF others
  <1>2. backlog' \in Seq(Conns)
    BY <1>1, EmptySeq DEF Tcp, WorkersTyped
  <1>3. Queued'
    BY <1>1 DEF Queued
  <1>4. /\ \A d \in Conns : d \in Held => theirs[d] = "leaked"
        /\ \A d \in Conns : theirs[d] \in {"leaked", "queued"} => worker[d] = "none"
    BY DEF Tcp, Held, Served, WorkersTyped
  <1>5. ASSUME NEW d \in Conns
        PROVE  \/ /\ theirs'[d] = "closed" /\ theirs[d] # "none" /\ Reason(d)'
                  /\ \/ worker'[d] = "gone"
                     \/ worker'[d] = "none" /\ worker[d] = "none" /\ up'[d] = up[d]
               \/ /\ theirs'[d] = theirs[d] /\ worker'[d] = worker[d]
                  /\ up'[d] = up[d] /\ down'[d] = down[d]
    <2>1. \/ theirs'[d] = "closed" /\ (d \in Held \/ theirs[d] = "queued")
          \/ theirs'[d] = theirs[d] /\ d \notin Held
      BY <1>1, EndsWithoutCloses
    <2> QED  BY <1>1, <1>4, <2>1 DEF Reason
  <1>6. /\ worker' \in [Conns -> {"none", "first", "read", "write", "gone"}]
        /\ crashed \subseteq crashed' /\ crashed' \subseteq Conns
    BY <1>1 DEF Tcp, WorkersTyped
  <1> QED  BY <1>1, <1>2, <1>3, <1>5, <1>6, OnlyCloses

\* Every step of lat_tcp keeps the balance.
LEMMA TcpStep ==
  ASSUME StreamsInv, kind = "lat_tcp", Tcp, [Next]_vars
  PROVE  Tcp'
  <1>1. ASSUME NEW p \in Peers, Peer(p) \/ Dies(p) PROVE Tcp'
    <2>1. ~ClientTransfers(p)
      BY DEF ClientTransfers
    <2>2. ~SendStop(p)
      BY DEF SendStop, Tcp, ClientsMeasure
    <2> QED
      BY <1>1, <2>1, <2>2, ConnectTcp, RefusedTcp, SendSizeTcp, ClientWritesTcp,
         ClientReadsTcp, ClosesTcp, DiesTcp DEF Peer
  <1>2. ASSUME NEW c \in Conns, Worker(c) \/ Crashes(c) PROVE Tcp'
    BY <1>2, FirstTcp, WorkerReadsTcp, WorkerWritesTcp, CrashesTcp DEF Worker
  <1>3. CASE Serves
    <2>1. ~SerialReads
      BY DEF SerialReads, StreamsInv, TypeInv
    <2> QED  BY <1>3, <2>1, AcceptTcp DEF Serves
  <1>4. CASE Expire
    BY <1>4, ExpireTcp
  <1>5. CASE UNCHANGED vars
    BY <1>5 DEF vars, program, serverVars, connVars, peerVars, history,
       Tcp, WorkersTyped, Queued, Served, SizeFirst, ClosedWhy, Reason, ClientsMeasure, Working,
       Turns, TurnOf
  <1> QED  BY <1>1, <1>2, <1>3, <1>4, <1>5 DEF Next

\* The second invariant, of all programs.
TcpInv == kind = "lat_tcp" => Tcp

\* At the start nothing is under way.
LEMMA InitTcp == Init => TcpInv
  <1> SUFFICES ASSUME Init PROVE Tcp
    BY DEF TcpInv
  <1>1. WorkersTyped
    BY EmptySeq DEF Init, WorkersTyped
  <1>2. Queued /\ SizeFirst /\ ClosedWhy /\ ClientsMeasure
    BY DEF Init, Queued, SizeFirst, ClosedWhy, ClientsMeasure
  <1>3. Served /\ Turns
    BY DEF Init, Served, Turns, Peers, Working
  <1> QED  BY <1>1, <1>2, <1>3 DEF Tcp

\* The program is what it was asked for.
LEMMA SameProgram == [Next]_vars => UNCHANGED <<kind, msize>>
  BY DEF Next, Peer, Connect, Refused, SendSize, SendStop, ClientWrites, ClientReads,
     ClientTransfers, Closes, Ends, Dies, Worker, First, WorkerReads, WorkerWrites, Crashes,
     Serves, SerialReads, Accept, Expire, vars, program

\* Every step keeps the second invariant.
LEMMA StepTcp == StreamsInv /\ TcpInv /\ [Next]_vars => TcpInv'
  <1> SUFFICES ASSUME StreamsInv, TcpInv, [Next]_vars, kind' = "lat_tcp" PROVE Tcp'
    BY DEF TcpInv
  <1>1. kind = "lat_tcp"
    BY SameProgram
  <1> QED  BY <1>1, TcpStep DEF TcpInv

(* What Tcp says of lat_tcp holds in every state: whose turn it is on each *)
(* connection, that the size comes first, and why a worker has gone.       *)
THEOREM TcpInvariant == Spec => [](StreamsInv /\ TcpInv)
  BY InitInv, StepInv, InitTcp, StepTcp, PTL DEF Spec

(* For any size of the messages and any number of clients, shutdowns and   *)
(* faults, a client of lat_tcp begins its iterations with nothing of the   *)
(* last one under way, until a read() has returned part of a message.      *)
THEOREM StaysInStep == Spec => []InStepUntilShort
  <1>1. StreamsInv /\ TcpInv => InStepUntilShort
    <2> SUFFICES ASSUME StreamsInv, TcpInv, NEW p \in Clients, Begins(p), sock[p] \notin short
                 PROVE  AtRest(sock[p])
      BY DEF InStepUntilShort
    <2> DEFINE c == sock[p]
    <2>1. Tcp /\ p \in Peers /\ c \in Conns /\ TurnOf(p, c)
      BY DEF TcpInv, Begins, Broken, Tcp, Turns, Peers, StreamsInv, TypeInv
    <2>2. msize \in Nat
      BY DEF StreamsInv, TypeInv
    <2>3. c \in sized /\ Balance(up[c], down[c], worker[c], owes[c]) = 0
      BY <2>1, <2>2 DEF TurnOf, Turn, Due, Begins
    <2>4. PICK l \in Nat, k \in Nat, o \in Nat :
            /\ Len(up[c]) = l /\ Len(down[c]) = k /\ Owed(worker[c], owes[c]) = o
            /\ up[c] = <<>> <=> l = 0
            /\ down[c] = <<>> <=> k = 0
            /\ o = 0 => worker[c] # "write"
      <3>1. worker[c] = "write" => owes[c] \in Nat /\ owes[c] > 0
        BY <2>1 DEF Tcp, WorkersTyped
      <3> QED  BY <2>1, <3>1, BalanceFacts, Lengths DEF Owed
    <2>5. CASE worker[c] \in {"none", "first"}
      <3>1. l - 1 + k + o = 0
        BY <2>3, <2>4, <2>5 DEF Balance, Size
      <3>2. up[c] # <<>> /\ up[c][1] = "size"
        BY <2>1, <2>3, <2>5 DEF Tcp, SizeFirst
      <3>3. l = 1 /\ k = 0
        BY <2>4, <3>1, <3>2
      <3> QED  BY <2>4, <2>5, <3>2, <3>3 DEF AtRest
    <2>6. CASE worker[c] \notin {"none", "first"}
      <3>1. l + k + o = 0
        BY <2>3, <2>4, <2>6 DEF Balance, Size
      <3>2. l = 0 /\ k = 0 /\ o = 0
        BY <2>4, <3>1
      <3> QED  BY <2>4, <3>2 DEF AtRest
    <2> QED  BY <2>5, <2>6
  <1> QED  BY <1>1, TcpInvariant, PTL

(* However short the reads are and however long the messages, client and   *)
(* worker of lat_tcp never both wait with nothing under way.               *)
THEOREM NeverBothWaiting == Spec => []NeverBothWait
  <1>1. StreamsInv /\ TcpInv => NeverBothWait
    <2> SUFFICES ASSUME StreamsInv, TcpInv, NEW p \in Clients, kind = "lat_tcp", msize > 0,
                        pc[p] = "read", sock[p] # None, worker[sock[p]] = "read"
                 PROVE  up[sock[p]] # <<>> \/ down[sock[p]] # <<>>
      BY DEF NeverBothWait
    <2> DEFINE c == sock[p]
    <2>1. Tcp /\ c \in Conns /\ msize \in Nat
      BY DEF TcpInv, Peers, StreamsInv, TypeInv
    <2>2. theirs[c] # "closed"
      BY <2>1 DEF Tcp, Served, Working
    <2>3. Balance(up[c], down[c], "read", owes[c]) >= msize
      BY <2>1, <2>2 DEF Tcp, Turns, TurnOf, Turn, Due
    <2>4. PICK l \in Nat, k \in Nat :
            /\ Len(up[c]) = l /\ Len(down[c]) = k
            /\ up[c] = <<>> <=> l = 0
            /\ down[c] = <<>> <=> k = 0
      BY <2>1, Lengths
    <2>5. l + k >= msize
      BY <2>3, <2>4 DEF Balance, Size, Owed
    <2> QED  BY <2>1, <2>4, <2>5
  <1> QED  BY <1>1, TcpInvariant, PTL
-----------------------------------------------------------------------------
(* What has happened.                                                      *)

WorkersAre == worker \in [Conns -> {"none", "first", "read", "write", "gone"}]

\* A client that is taken for a stopper has written nothing, and never will.
Told ==
  \A c \in told :
    \/ c[1] \in Stoppers
    \/ kind = "lat_tcp" /\ c \notin sized /\ pc[c[1]] = "done"

Outcomes == WorkersAre /\ Told /\ HollowOnlyUnserved

\* Nothing leads back from the end.
LEMMA DoneIsDone ==
  ASSUME StreamsInv, NEW p \in Peers, Peer(p) \/ Dies(p), NEW q \in Peers, pc[q] = "done"
  PROVE  pc'[q] = "done"
  <1>1. pc[p] # "done"
    BY DEF Peer, Connect, Refused, SendSize, SendStop, ClientWrites, ClientReads,
       ClientTransfers, Closes, Ends, Dies
  <1>2. \A r \in Peers : r # p => pc'[r] = pc[r]
    BY DEF Peer, Connect, Refused, SendSize, SendStop, ClientWrites, ClientReads,
       ClientTransfers, Closes, Ends, Dies, Writes, NextIteration, Goes, StreamsInv, TypeInv
  <1> QED  BY <1>1, <1>2

\* Who writes a size is not at its end.
LEMMA SizedGrows ==
  ASSUME StreamsInv, NEW p \in Peers, Peer(p) \/ Dies(p), NEW c \in Conns, c \in sized'
  PROVE  c \in sized \/ pc[c[1]] = "size"
  <1>1. CASE SendSize(p)
    <2>1. pc[p] = "size" /\ (c \notin sized => up'[c] # up[c])
      BY <1>1 DEF SendSize
    <2>2. sock[p] # None => sock[p][1] = p /\ sock[p] \in Conns
      BY DEF StreamsInv, OwnSocket, TypeInv
    <2>3. \A d \in Conns : up'[d] # up[d] => sock[p] # None /\ d = sock[p]
      BY <1>1 DEF SendSize, Writes, Put, StreamsInv, TypeInv
    <2> QED  BY <2>1, <2>2, <2>3
  <1>2. CASE UNCHANGED sized
    BY <1>2
  <1> QED
    BY <1>1, <1>2 DEF Peer, Connect, Refused, SendStop, ClientWrites, ClientReads,
       ClientTransfers, Closes, Ends, Dies, history

\* What a peer does to its own end.
LEMMA MineIsPast ==
  ASSUME StreamsInv, NEW p \in Peers, Peer(p) \/ Dies(p),
         NEW c \in Conns, Past(c), mine[c] = "none"
  PROVE  mine'[c] = "none"
  <1>1. CASE Connect(p)
    <2>1. pc[p] = "connect" /\ mine' = [mine EXCEPT ![Current(p)] = "open"]
      BY <1>1 DEF Connect
    <2>2. Current(p) # c
      BY <2>1, CurrentIsOwn DEF Past, StreamsInv
    <2> QED  BY <2>1, <2>2 DEF StreamsInv, TypeInv
  <1>2. CASE CloseSock(p)
    BY <1>2 DEF CloseSock, StreamsInv, TypeInv, OwnSocket
  <1>3. CASE UNCHANGED mine
    BY <1>3
  <1> QED
    BY <1>1, <1>2, <1>3 DEF Peer, Refused, SendSize, SendStop, ClientWrites, ClientReads,
       ClientTransfers, Closes, Ends, Dies, connVars

(* What a client without a socket counts an iteration on.                  *)
LEMMA NoSocket ==
  ASSUME StreamsInv, NEW p \in Peers, sock[p] = None, pc[p] \in {"read", "close"}
  PROVE  mine[CountedOn(p)] = "none"
  <1>1. /\ Current(p) \in Conns /\ Current(p)[1] = p
        /\ Current(p)[2] = iter[p] /\ iter[p] \in Nat
    BY CurrentIsOwn DEF StreamsInv
  <1>2. mine[Current(p)] # "none" => iter[p] < iter[p]
    BY <1>1 DEF StreamsInv, Fresh, Ended
  <1> QED  BY <1>1, <1>2 DEF CountedOn

\* An iteration that transfers nothing is counted.
LEMMA HollowGrows ==
  ASSUME StreamsInv, TcpInv, NEW p \in Peers, Peer(p) \/ Dies(p),
         NEW c \in hollow', c \notin hollow
  PROVE  \/ mine'[c] = "none" \/ msize = 0 \/ c \in crashed
         \/ worker[c] = "none" /\ server = "dead"
  <1>1. CASE Closes(p)
    <2>1. sock[p] = None /\ c = CountedOn(p) /\ UNCHANGED mine /\ pc[p] = "close"
      BY <1>1 DEF Closes, CloseSock
    <2> QED  BY <2>1, NoSocket
  <1>2. CASE ClientReads(p)
    <2>1. /\ kind = "lat_tcp" /\ pc[p] = "read" /\ c = CountedOn(p) /\ UNCHANGED mine
          /\ sock[p] # None => ~(msize > 0) \/ theirs[sock[p]] = "closed"
      BY <1>2 DEF ClientReads, Broken
    <2>2. CASE sock[p] = None
      BY <2>1, <2>2, NoSocket
    <2>3. CASE sock[p] # None
      <3>1. c = sock[p] /\ c \in Conns /\ c[1] = p /\ mine[c] = "open" /\ msize \in Nat
        BY <2>1, <2>3 DEF CountedOn, StreamsInv, TypeInv, OwnSocket
      <3>2. p \in Clients /\ p \notin Stoppers
        BY <2>1, StreamsAssumption DEF TcpInv, Tcp, ClientsMeasure
      <3>3. msize = 0 \/ Reason(c)
        BY <2>1, <2>3, <3>1 DEF TcpInv, Tcp, ClosedWhy
      <3> QED  BY <3>1, <3>2, <3>3 DEF Reason
    <2> QED  BY <2>2, <2>3
  <1> QED
    BY <1>1, <1>2 DEF Peer, Connect, Refused, SendSize, SendStop, ClientWrites, ClientTransfers,
       Ends, Dies, history

\* The outcomes after a step of a peer.
LEMMA OutcomesPeer ==
  ASSUME StreamsInv, TcpInv, Outcomes, NEW p \in Peers, Peer(p) \/ Dies(p)
  PROVE  Outcomes'
  <1>1. UNCHANGED <<kind, msize, server, worker, told, crashed>>
    BY DEF Peer, Connect, Refused, SendSize, SendStop, ClientWrites, ClientReads,
       ClientTransfers, Closes, Ends, Dies, program, serverVars, history
  <1>2. Told'
    <2> SUFFICES ASSUME NEW c \in told, c[1] \notin Stoppers
                 PROVE  kind = "lat_tcp" /\ c \notin sized' /\ pc'[c[1]] = "done"
      BY <1>1 DEF Told
    <2>1. /\ kind = "lat_tcp" /\ c \notin sized /\ pc[c[1]] = "done"
          /\ c \in Conns /\ c[1] \in Peers
      BY OwnerIsPeer DEF Outcomes, Told, StreamsInv, TypeInv
    <2> QED  BY <2>1, DoneIsDone, SizedGrows
  <1>3. HollowOnlyUnserved'
    <2> SUFFICES ASSUME NEW c \in hollow'
                 PROVE  \/ mine'[c] = "none" \/ msize = 0 \/ c \in crashed
                        \/ worker[c] = "none" /\ server = "dead"
      BY <1>1 DEF HollowOnlyUnserved
    <2>1. CASE c \notin hollow
      BY <2>1, HollowGrows
    <2>2. CASE c \in hollow
      <3>1. c \in Conns /\ Past(c)
        BY <2>2 DEF StreamsInv, TypeInv, Fresh
      <3> QED  BY <2>2, <3>1, MineIsPast DEF Outcomes, HollowOnlyUnserved
    <2> QED  BY <2>1, <2>2
  <1> QED  BY <1>1, <1>2, <1>3 DEF Outcomes, WorkersAre

(* A step of the server's side.                                            *)
LEMMA OutcomesServer ==
  ASSUME StreamsInv, Outcomes,
         UNCHANGED <<kind, msize, mine, pc, sized, hollow>>, crashed \subseteq crashed',
         WorkersAre',
         server = "dead" =>
           server' = "dead" /\ \A c \in Conns : worker[c] = "none" => worker'[c] = "none",
         told' \subseteq Conns,
         \A c \in told' \ told :
           \/ c[1] \in Stoppers
           \/ kind = "lat_tcp" /\ c \notin sized /\ mine[c] = "closed"
  PROVE  Outcomes'
  <1>1. Told'
    <2> SUFFICES ASSUME NEW c \in told' \ told, c[1] \notin Stoppers
                 PROVE  pc[c[1]] = "done"
      BY DEF Told, Outcomes
    <2>1. kind = "lat_tcp" /\ mine[c] = "closed" /\ Forks
      BY DEF Forks
    <2> QED  BY <2>1 DEF StreamsInv, TypeInv, ClosedAtEnd
  <1>2. HollowOnlyUnserved'
    BY DEF HollowOnlyUnserved, Outcomes, StreamsInv, TypeInv
  <1> QED  BY <1>1, <1>2 DEF Outcomes

\* The outcomes after a worker's first read.
LEMMA OutcomesFirst ==
  ASSUME StreamsInv, TcpInv, Outcomes, NEW c \in Conns, First(c)
  PROVE  Outcomes'
  <1>1. worker[c] = "first" /\ UNCHANGED <<kind, msize, mine, pc, sized, hollow, crashed>>
    BY DEF First, program, peerVars
  <1>2. WorkersAre' /\ \A d \in Conns : worker[d] = "none" => worker'[d] = "none"
    <2>1. \E w \in {"read", "write", "gone"} : worker' = [worker EXCEPT ![c] = w]
      BY DEF First, Shutdown, Leaves
    <2> QED  BY <1>1, <2>1 DEF Outcomes, WorkersAre
  <1>3. \/ UNCHANGED <<server, told>>
        \/ Shutdown(c) /\ up[c] # <<>> /\ up' = Take(up, c) /\ Head(up[c]) = "0"
        \/ Shutdown(c) /\ up[c] = <<>> /\ Finished(c) /\ kind = "lat_tcp"
    BY DEF First, Leaves
  <1>4. Shutdown(c) => server' = "dead" /\ told' = told \union {c}
    BY ShutdownFacts
  <1>5. told \subseteq Conns
    BY DEF StreamsInv, TypeInv
  <1>6. CASE UNCHANGED <<server, told>>
    BY <1>1, <1>2, <1>5, <1>6, OutcomesServer
  <1>7. CASE Shutdown(c) /\ up[c] # <<>> /\ up' = Take(up, c) /\ Head(up[c]) = "0"
    <2>1. c[1] \in Stoppers
      BY <1>7, FirstTaken
    <2> QED  BY <1>1, <1>2, <1>4, <1>5, <1>7, <2>1, OutcomesServer
  <1>8. CASE Shutdown(c) /\ up[c] = <<>> /\ Finished(c) /\ kind = "lat_tcp"
    <2>1. c \notin sized /\ mine[c] = "closed"
      BY <1>1, <1>8 DEF TcpInv, Tcp, SizeFirst, Finished
    <2> QED  BY <1>1, <1>2, <1>4, <1>5, <1>8, <2>1, OutcomesServer
  <1> QED  BY <1>3, <1>6, <1>7, <1>8

\* The outcomes after what a worker does later.
LEMMA OutcomesWorker ==
  ASSUME StreamsInv, Outcomes, NEW c \in Conns, WorkerReads(c) \/ WorkerWrites(c) \/ Crashes(c)
  PROVE  Outcomes'
  <1>1. /\ worker[c] # "none" /\ crashed \subseteq crashed'
        /\ UNCHANGED <<kind, msize, mine, pc, sized, hollow, server, told>>
    BY DEF WorkerReads, WorkerWrites, Crashes, Leaves, Working, program, peerVars
  <1>2. WorkersAre' /\ \A d \in Conns : worker[d] = "none" => worker'[d] = "none"
    <2>1. \/ UNCHANGED worker
          \/ \E w \in {"read", "write", "gone"} : worker' = [worker EXCEPT ![c] = w]
      BY DEF WorkerReads, WorkerWrites, Crashes, Leaves
    <2> QED  BY <1>1, <2>1 DEF Outcomes, WorkersAre
  <1>3. told' \subseteq Conns
    BY <1>1 DEF StreamsInv, TypeInv
  <1> QED  BY <1>1, <1>2, <1>3, OutcomesServer

\* The outcomes after a step of the server.
LEMMA OutcomesServes ==
  ASSUME StreamsInv, Outcomes, Serves \/ Expire
  PROVE  Outcomes'
  <1>1. told \subseteq Conns
    BY DEF StreamsInv, TypeInv
  <1>2. ASSUME NEW c \in Conns, Accept(c) PROVE Outcomes'
    <2>1. /\ server # "dead"
          /\ worker' = worker \/ worker' = [worker EXCEPT ![c] = "first"]
          /\ UNCHANGED <<kind, msize, mine, pc, sized, hollow, crashed, told>>
      BY <1>2 DEF Accept, program, peerVars, history
    <2>2. WorkersAre'
      BY <2>1 DEF Outcomes, WorkersAre
    <2> QED  BY <1>1, <2>1, <2>2, OutcomesServer
  <1>3. CASE SerialReads
    <2>1. /\ server # "dead" /\ at \in Conns
          /\ UNCHANGED <<worker, kind, msize, mine, pc, sized, hollow, crashed>>
          /\ UNCHANGED told \/ (told' = told \union {at} /\ up[at] # <<>>)
      BY <1>3 DEF SerialReads, program, peerVars, StreamsInv, TypeInv
    <2>2. up[at] # <<>> => at[1] \in Stoppers
      BY <1>3, <2>1 DEF SerialReads, StreamsInv, TypeInv, OrderedByStoppers, Forks
    <2>3. WorkersAre'
      BY <2>1 DEF Outcomes, WorkersAre
    <2> QED  BY <1>1, <2>1, <2>2, <2>3, OutcomesServer
  <1>4. CASE Expire
    <2>1. /\ server' = "dead"
          /\ UNCHANGED <<worker, kind, msize, mine, pc, sized, hollow, crashed, told>>
      BY <1>4 DEF Expire, ServerEnds, program, peerVars, history
    <2>2. WorkersAre'
      BY <2>1 DEF Outcomes, WorkersAre
    <2> QED  BY <1>1, <2>1, <2>2, OutcomesServer
  <1> QED  BY <1>2, <1>3, <1>4 DEF Serves

(* The outcomes are as they should be in every state.                      *)
LEMMA OutcomesInvariant == Spec => []Outcomes
  <1>1. Init => Outcomes
    BY DEF Init, Outcomes, WorkersAre, Told, HollowOnlyUnserved
  <1>2. StreamsInv /\ TcpInv /\ Outcomes /\ [Next]_vars => Outcomes'
    <2> SUFFICES ASSUME StreamsInv, TcpInv, Outcomes, [Next]_vars PROVE Outcomes'
      OBVIOUS
    <2>1. CASE UNCHANGED vars
      BY <2>1 DEF Outcomes, WorkersAre, Told, HollowOnlyUnserved, vars, program, serverVars,
         peerVars, connVars, history
    <2>2. CASE Next
      BY <2>2, OutcomesPeer, OutcomesFirst, OutcomesWorker, OutcomesServes DEF Next, Worker
    <2> QED  BY <2>1, <2>2
  <1> QED  BY <1>1, <1>2, TcpInvariant, PTL DEF Spec

(* An iteration in which a client transfers nothing is one without a       *)
(* connection or a message, or one that the server has not taken before    *)
(* its end, or whose worker has died, for any number of clients,           *)
(* iterations, retries and faults, and messages of any size.               *)
THEOREM HollowUnserved == Spec => []HollowOnlyUnserved
  BY OutcomesInvariant, PTL DEF Outcomes

(* Only a stopper ends the server, or a client of lat_tcp that has ended   *)
(* before it wrote the size, whatever clients come, work and die.          *)
THEOREM ToldByStoppers == Spec => []OnlyToldToEnd
  <1>1. Outcomes => OnlyToldToEnd
    BY DEF Outcomes, Told, OnlyToldToEnd
  <1> QED  BY <1>1, OutcomesInvariant, PTL
=============================================================================
