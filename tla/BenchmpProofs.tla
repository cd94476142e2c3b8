--------------------------- MODULE BenchmpProofs ---------------------------
(***************************************************************************)
(* Proofs about the harness, for every number of children, repetitions and *)
(* faults, every record size and every pipe capacity: type correctness;    *)
(* that its inductive invariant is one; and what follows from that: the    *)
(* load during timing, the end of all timing before a report, that every   *)
(* child is waited for, and that there are enough start bytes.  Then who   *)
(* writes a record and which records are merged, a round without faults,   *)
(* and that the steps of the harness are those of MeasurementSession.      *)
(*                                                                         *)
(* TypeStep and SyncStep have a case for each action; the lemmas before    *)
(* SyncStep are about the actions that write to the pipes or count what is *)
(* read from them.                                                         *)
(***************************************************************************)
EXTENDS BenchmpInv, BenchmpRefinement, SequenceTheorems, FiniteSetTheorems, TLAPS

----------------------------------------------------------------------------
(* Type correctness.                                                       *)

\* What a read leaves in the pipe and what it returns.
LEMMA ReadFacts ==
  ASSUME NEW S, NEW s \in Seq(S), NEW k \in 0..Len(s)
  PROVE  /\ SubSeq(s, k + 1, Len(s)) \in Seq(S)
         /\ Len(SubSeq(s, k + 1, Len(s))) = Len(s) - k
         /\ SubSeq(s, 1, k) \in Seq(S)
         /\ Len(SubSeq(s, 1, k)) = k
<1>1. Len(s) \in Nat
  OBVIOUS
<1>2. \A i \in 1..Len(s) : s[i] \in S
  OBVIOUS
<1>3. /\ SubSeq(s, k + 1, Len(s)) \in Seq(S)
      /\ Len(SubSeq(s, k + 1, Len(s))) = Len(s) - k
  BY <1>1, <1>2, SubSeqProperties
<1>4. SubSeq(s, 1, k) \in Seq(S) /\ Len(SubSeq(s, 1, k)) = k
  BY <1>1, <1>2, SubSeqProperties
<1> QED
  BY <1>3, <1>4

\* The empty sequence.
LEMMA EmptySeqFacts ==
  ASSUME NEW S
  PROVE  << >> \in Seq(S) /\ Len(<< >>) = 0
OBVIOUS

\* What two sequences make together.
LEMMA ConcatFacts ==
  ASSUME NEW S, NEW s \in Seq(S), NEW t \in Seq(S)
  PROVE  s \o t \in Seq(S) /\ Len(s \o t) = Len(s) + Len(t)
OBVIOUS

USE BenchmpAssumption DEF BenchmpAssumption

\* The ranges of the loop bounds.
LEMMA Numbers ==
  ASSUME TypeParent
  PROVE  /\ np \in Nat /\ 0 < np /\ np <= Parallel
         /\ pi \in Nat /\ pi <= np
BY DEF TypeParent

\* A read takes no more bytes than are there or wanted.
LEMMA AvailableFacts ==
  ASSUME TypePipes, NEW w \in Nat
  PROVE  Available(w) \in 0..Len(response) /\ Available(w) <= w
BY DEF Available, TypePipes

\* AskOne empties the buffer.
LEMMA AskOneType ==
  ASSUME TypeParent, AskOne
  PROVE  TypeParent'
<1>1. rbuf' \in Seq(Children) /\ Len(rbuf') <= Chunks
  <2>1. CASE NoReader
    BY <2>1 DEF AskOne, TypeParent
  <2>2. CASE ~NoReader
    BY <2>2, EmptySeqFacts DEF AskOne
  <2> QED
    BY <2>1, <2>2
<1> QED
  BY <1>1, Numbers DEF AskOne, TypeParent, ParentPcs, DieParent

\* The exit bytes are a number.
LEMMA ReleaseType ==
  ASSUME TypePipes, TypeParent, Release
  PROVE  TypePipes'
<1>1. exitB' \in {exitB, exitB + np}
  BY DEF Release, BytePerChild
<1>2. exitB' \in Nat
  BY <1>1, Numbers DEF TypePipes
<1> QED
  BY <1>2 DEF Release, TypePipes

\* A fork resets the entries of one child.
LEMMA ForkChildType ==
  ASSUME TypeChildren, TypeParent, ForkChild
  PROVE  TypeChildren'
<1>1. pi + 1 \in Children
  BY Numbers DEF ForkChild, Children
<1>2. cpc' \in [Children -> ChildPcs] /\ state' \in [Children -> Modes]
  BY <1>1 DEF ForkChild, TypeChildren, ChildPcs, Modes
<1>3. /\ need_warmup' \in [Children -> BOOLEAN]
      /\ ran' \in [Children -> BOOLEAN]
      /\ term' \in [Children -> BOOLEAN]
      /\ tflag' \in [Children -> BOOLEAN]
  BY <1>1 DEF ForkChild, TypeChildren
<1>4. /\ reps' \in [Children -> 0..Repetitions]
      /\ sent' \in [Children -> 0..Chunks]
      /\ freed' \in [Children -> Nat]
  BY <1>1 DEF ForkChild, TypeChildren
<1> QED
  BY <1>2, <1>3, <1>4 DEF TypeChildren

\* A child writes no more bytes than its record has.
LEMMA ReportType ==
  ASSUME TypeChildren, NEW c \in Children, Room, Report(c)
  PROVE  TypeChildren'
<1>2. cpc' \in [Children -> ChildPcs] 
  BY ZenonT(60) DEF Report, Respond, Goto, ExitChild, TypeChildren, ChildPcs, AfterByte
<1>4. sent' \in [Children -> 0..Chunks]
  BY DEF Report, TypeChildren, Room
<1> QED
  BY <1>2,  <1>4 DEF TypeChildren, Report, childSig

\* SIGTERM ends the child or sets its flag.
LEMMA TakeTermType ==
  ASSUME TypeChildren, NEW c \in Children, TakeTerm(c)
  PROVE  TypeChildren'
<1>2. cpc' \in [Children -> ChildPcs] 
  BY DEF TakeTerm, ExitChild, TypeChildren, ChildPcs
<1>3. term' \in [Children -> BOOLEAN] /\ tflag' \in [Children -> BOOLEAN]
  BY DEF TakeTerm,  TypeChildren
<1>4. freed' \in [Children -> Nat]
  BY DEF TakeTerm, TypeChildren, CleanupZero
<1> QED
  BY <1>2, <1>3, <1>4 DEF TypeChildren, TakeTerm, childState

\* Reading and merging a record.
LEMMA CollectResultType ==
  ASSUME TypeParent, TypePipes, InLoop, CollectResult
  PROVE  TypeParent' /\ TypePipes'
<1> DEFINE k == Available(Chunks - Len(rbuf))
<1>1. CASE RecordRead
  <2>1. merged' \in Seq(Seq(Children))
    <3>1. merged' = Append(merged, rbuf)
      BY <1>1 DEF CollectResult
    <3> QED
      BY <3>1 DEF TypeParent
  <2>2. pi' \in 0..np /\ ppc' = "ask"
    BY <1>1, Numbers DEF CollectResult, InLoop
  <2> QED
    BY <1>1, <2>1, <2>2 DEF CollectResult, TypeParent, ParentPcs, TypePipes, signalB
<1>2. CASE ~RecordRead /\ Failed
  BY <1>2, Numbers DEF CollectResult, TypeParent, ParentPcs, TypePipes, signalB, GiveUp
<1>3. CASE ~RecordRead /\ ~Failed
  <2>1. k \in 0..Len(response) /\ k <= Chunks - Len(rbuf)
    <3>1. Chunks - Len(rbuf) \in Nat
      BY DEF TypeParent
    <3> QED
      BY <3>1, AvailableFacts
  <2>2. /\ SubSeq(response, k + 1, Len(response)) \in Seq(Children)
        /\ Len(SubSeq(response, k + 1, Len(response))) <= PipeCap
        /\ SubSeq(response, 1, k) \in Seq(Children)
        /\ Len(SubSeq(response, 1, k)) = k
    BY <2>1, ReadFacts DEF TypePipes
  <2> HIDE DEF k
  <2>3. rbuf' \in Seq(Children) /\ Len(rbuf') <= Chunks
    <3>1. rbuf' = rbuf \o SubSeq(response, 1, k)
      BY <1>3 DEF CollectResult, k
    <3> QED
      BY <3>1, <2>1, <2>2, ConcatFacts DEF TypeParent
  <2>4. response' = SubSeq(response, k + 1, Len(response))
    BY <1>3 DEF CollectResult, k
  <2> QED
    BY <1>3, <2>2, <2>3, <2>4 DEF CollectResult, TypeParent, TypePipes, signalB
<1> QED
  BY <1>1, <1>2, <1>3

\* A write to the response pipe respects its capacity.
LEMMA RespondType ==
  ASSUME TypePipes, NEW c \in Children, NEW next, Respond(c, next), UNCHANGED signalB
  PROVE  TypePipes'
<1>1. response' \in Seq(Children) /\ Len(response') <= PipeCap
  BY DEF Respond, TypePipes
<1> QED
  BY <1>1 DEF TypePipes, signalB

\* Collecting the `ready' or the `done' bytes.
LEMMA CollectType ==
  ASSUME TypeParent, InLoop, TypePipes,
         NEW here, NEW next \in {"start", "ask"}, CollectBytes(here, next)
  PROVE  TypeParent' /\ TypePipes'
<1> DEFINE k == Available(np - pi)
<1>1. k \in 0..Len(response) /\ k <= np - pi
  <2>1. np - pi \in Nat
    BY Numbers
  <2>2. Available(np - pi) \in 0..Len(response) /\ Available(np - pi) <= np - pi
    BY <2>1, AvailableFacts
  <2> QED
    BY ONLY <2>2 DEF k
<1>2. /\ SubSeq(response, k + 1, Len(response)) \in Seq(Children)
      /\ Len(SubSeq(response, k + 1, Len(response))) <= PipeCap
  BY <1>1, ReadFacts DEF TypePipes
<1> HIDE DEF k
<1>3. response' \in {response, SubSeq(response, k + 1, Len(response))}
  BY DEF CollectBytes, k
<1>4. TypePipes'
  BY <1>2, <1>3 DEF TypePipes, CollectBytes, signalB
<1>5. pi' \in {0, pi + k}
  BY DEF CollectBytes, k, GiveUp, AllAnswered, TypeParent
<1>5b. pi' \in 0..np
  <2>1. CASE AllAnswered \/ Failed
    BY <2>1, Numbers DEF CollectBytes, AllAnswered, GiveUp
  <2>2. CASE ~AllAnswered /\ ~Failed
    BY <2>2, <1>1, Numbers DEF CollectBytes, AllAnswered, k
  <2> QED
    BY <2>1, <2>2
<1>6. ppc' \in {ppc, "start", "ask", "kill"}
  BY DEF CollectBytes, GiveUp
<1>7. UNCHANGED <<np, rbuf, merged, faults>>
  BY DEF CollectBytes
<1> QED
  BY <1>4, <1>5b, <1>6, <1>7 DEF TypeParent, ParentPcs

\* The type invariant holds before the call.
LEMMA TypeInit == Init => TypeInv
<1> SUFFICES ASSUME Init PROVE TypeInv
  OBVIOUS
<1>1. TypeParent /\ InLoop
  <2>1. rbuf \in Seq(Children) /\ Len(rbuf) <= Chunks
    BY EmptySeqFacts DEF Init
  <2>2. merged \in Seq(Seq(Children))
    BY EmptySeqFacts DEF Init
  <2> QED
    BY <2>1, <2>2 DEF Init, TypeParent, ParentPcs, InLoop
<1>2. TypeFlags /\ TypePipes
  <2>1. TypeFlags
    BY DEF Init, TypeFlags, Dispositions
  <2>2. TypePipes
    BY EmptySeqFacts DEF Init, TypePipes
  <2> QED
    BY <2>1, <2>2
<1>3. TypeChildren /\ Room
  BY DEF Init, TypeChildren, Room, ChildPcs, Modes
<1> QED
  BY <1>1, <1>2, <1>3 DEF TypeInv, TypeOK

\* Every action keeps the type invariant and the bounds that it rests on.
LEMMA TypeStep == TypeInv /\ [Next]_vars => TypeInv'
<1> SUFFICES ASSUME TypeParent, TypeFlags, TypePipes, TypeChildren, Room,
                    InLoop, [Next]_vars
             PROVE  TypeInv'
  BY DEF TypeInv, TypeOK
<1> USE Numbers DEF TypeInv, TypeOK
<1>1. CASE EnterRound
  <2>1. TypeParent'
    BY <1>1 DEF EnterRound, Prepare, children, TypeParent, ParentPcs, InLoop
  <2>2. InLoop'
    BY <1>1 DEF EnterRound, Prepare, children, InLoop, TypeParent
  <2>3. TypeFlags'
    BY <1>1 DEF EnterRound, Prepare, children, TypeFlags, Dispositions
  <2>4. TypePipes'
    BY <1>1 DEF EnterRound, Prepare, children, TypePipes, TypeParent, Children
  <2>5. TypeChildren' /\ Room'
    BY <1>1 DEF EnterRound, Prepare, children, TypeChildren, Room
  <2> QED
    BY <2>1, <2>2, <2>3, <2>4, <2>5
<1>2. CASE PidsAllocFails
  <2>1. TypeParent'
    BY <1>2 DEF PidsAllocFails, Fault, Prepare, children, TypeParent,
       ParentPcs, InLoop
  <2>2. InLoop'
    BY <1>2 DEF PidsAllocFails, Fault, Prepare, children, InLoop, TypeParent
  <2>3. TypeFlags'
    BY <1>2 DEF PidsAllocFails, Fault, Prepare, children, TypeFlags,
       Dispositions
  <2>4. TypePipes'
    BY <1>2 DEF PidsAllocFails, Fault, Prepare, children, TypePipes,
       TypeParent, Children
  <2>5. TypeChildren' /\ Room'
    BY <1>2 DEF PidsAllocFails, Fault, Prepare, children, TypeChildren, Room
  <2> QED
    BY <2>1, <2>2, <2>3, <2>4, <2>5
<1>3. CASE ForkChild
  <2>1. TypeParent'
    BY <1>3 DEF ForkChild, termVars, chldVars, pipes, TypeParent, ParentPcs,
       InLoop
  <2>2. InLoop'
    BY <1>3 DEF ForkChild, termVars, chldVars, pipes, InLoop, TypeParent
  <2>3. TypeChildren'
    BY <1>3, ForkChildType
  <2>4. Room'
    BY <1>3 DEF ForkChild, termVars, chldVars, pipes, Room, TypeChildren,
       ChildPcs, Modes
  <2>5. TypeFlags' /\ TypePipes'
    BY <1>3 DEF ForkChild, termVars, chldVars, pipes, TypeFlags, TypePipes
  <2> QED
    BY <2>1, <2>2, <2>3, <2>4, <2>5
<1>4. CASE ForkStops
  <2>1. TypeParent'
    BY <1>4 DEF ForkStops, termVars, pipes, children, Fault, TypeParent,
       ParentPcs, InLoop
  <2>2. InLoop'
    BY <1>4 DEF ForkStops, termVars, pipes, children, Fault, InLoop,
       TypeParent
  <2>3. TypeFlags'
    BY <1>4 DEF ForkStops, termVars, pipes, children, Fault, TypeFlags,
       Dispositions
  <2>4. TypePipes' /\ TypeChildren' /\ Room'
    BY <1>4 DEF ForkStops, termVars, pipes, children, Fault, TypePipes,
       TypeChildren, Room
  <2> QED
    BY <2>1, <2>2, <2>3, <2>4
<1>5. CASE ForkEnds
  <2>1. TypeParent'
    BY <1>5 DEF ForkEnds, termVars, chldVars, pipes, children, TypeParent,
       ParentPcs, InLoop
  <2>2. InLoop'
    BY <1>5 DEF ForkEnds, termVars, chldVars, pipes, children, InLoop,
       TypeParent
  <2>3. TypeFlags' /\ TypePipes' /\ TypeChildren' /\ Room'
    BY <1>5 DEF ForkEnds, termVars, chldVars, pipes, children, TypeFlags,
       TypePipes, TypeChildren, Room
  <2> QED
    BY <2>1, <2>2, <2>3
<1>6. CASE ForkKill
  <2>1. TypeParent'
    BY <1>6 DEF ForkKill, termVars, chldVars, pipes, childState, SendTerm,
       Alive, TypeParent, ParentPcs, InLoop
  <2>2. InLoop'
    BY <1>6 DEF ForkKill, termVars, chldVars, pipes, childState, SendTerm,
       Alive, InLoop, TypeParent
  <2>3. TypeChildren'
    BY <1>6 DEF ForkKill, termVars, chldVars, pipes, childState, SendTerm,
       Alive, TypeChildren, ChildPcs, Modes, Room
  <2>4. TypeFlags' /\ TypePipes' /\ Room'
    BY <1>6 DEF ForkKill, termVars, chldVars, pipes, childState, SendTerm,
       Alive, TypeFlags, TypePipes, Room
  <2> QED
    BY <2>1, <2>2, <2>3, <2>4
<1>7. CASE ForkWait
  <2>1. TypeParent'
    BY <1>7 DEF ForkWait, termVars, chldVars, pipes, childState, childSig,
       TypeParent, ParentPcs, InLoop
  <2>2. InLoop'
    BY <1>7 DEF ForkWait, termVars, chldVars, pipes, childState, childSig,
       InLoop, TypeParent
  <2>3. TypeChildren'
    BY <1>7 DEF ForkWait, termVars, chldVars, pipes, childState, childSig,
       TypeChildren, ChildPcs, Modes, Room
  <2>4. Room'
    BY <1>7 DEF ForkWait, termVars, chldVars, pipes, childState, childSig,
       Room, TypeChildren, ChildPcs, Modes
  <2>5. TypeFlags' /\ TypePipes'
    BY <1>7 DEF ForkWait, termVars, chldVars, pipes, childState, childSig,
       TypeFlags, TypePipes
  <2> QED
    BY <2>1, <2>2, <2>3, <2>4, <2>5
<1>8. CASE Reap
  <2>1. TypeParent'
    BY <1>8 DEF Reap, termVars, chldVars, pipes, childState, childSig, Dead,
       TypeParent, ParentPcs, InLoop
  <2>2. InLoop'
    BY <1>8 DEF Reap, termVars, chldVars, pipes, childState, childSig, Dead,
       InLoop, TypeParent
  <2>3. TypeChildren'
    BY <1>8 DEF Reap, termVars, chldVars, pipes, childState, childSig, Dead,
       TypeChildren, ChildPcs, Modes, Room
  <2>4. Room'
    BY <1>8 DEF Reap, termVars, chldVars, pipes, childState, childSig, Dead,
       Room, TypeChildren, ChildPcs, Modes
  <2>5. TypeFlags' /\ TypePipes'
    BY <1>8 DEF Reap, termVars, chldVars, pipes, childState, childSig, Dead,
       TypeFlags, TypePipes
  <2> QED
    BY <2>1, <2>2, <2>3, <2>4, <2>5
<1>9. CASE ReapEnds
  <2>1. TypeParent'
    BY <1>9 DEF ReapEnds, termVars, chldVars, pipes, children, TypeParent,
       ParentPcs, InLoop
  <2>2. InLoop'
    BY <1>9 DEF ReapEnds, termVars, chldVars, pipes, children, InLoop,
       TypeParent
  <2>3. TypeFlags' /\ TypePipes' /\ TypeChildren' /\ Room'
    BY <1>9 DEF ReapEnds, termVars, chldVars, pipes, children, TypeFlags,
       TypePipes, TypeChildren, Room
  <2> QED
    BY <2>1, <2>2, <2>3
<1>10. CASE FinishRound
  <2>1. TypeParent'
    BY <1>10 DEF FinishRound, termVars, chldVars, pipes, children, TypeParent,
       ParentPcs, InLoop
  <2>2. InLoop'
    BY <1>10 DEF FinishRound, termVars, chldVars, pipes, children, InLoop,
       TypeParent
  <2>3. TypeFlags' /\ TypePipes' /\ TypeChildren' /\ Room'
    BY <1>10 DEF FinishRound, termVars, chldVars, pipes, children, TypeFlags,
       TypePipes, TypeChildren, Room
  <2> QED
    BY <2>1, <2>2, <2>3
<1>11. CASE EnterParent
  <2>1. TypeParent'
    BY <1>11 DEF EnterParent, termVars, pipes, children, Failed, GiveUp,
       TypeParent, ParentPcs, InLoop
  <2>2. InLoop'
    BY <1>11 DEF EnterParent, termVars, pipes, children, Failed, GiveUp,
       InLoop, TypeParent
  <2>3. TypeFlags'
    BY <1>11 DEF EnterParent, termVars, pipes, children, Failed, GiveUp,
       TypeFlags, Dispositions
  <2>4. TypePipes' /\ TypeChildren' /\ Room'
    BY <1>11 DEF EnterParent, termVars, pipes, children, Failed, GiveUp,
       TypePipes, TypeChildren, Room
  <2> QED
    BY <2>1, <2>2, <2>3, <2>4
<1>12. CASE CollectReady
  <2>1. TypeParent'
    BY <1>12, CollectType DEF CollectReady
  <2>2. InLoop'
    BY <1>12 DEF CollectReady, CollectBytes, termVars, signalB, children,
       Failed, GiveUp, Available, AllAnswered, InLoop, TypeParent
  <2>3. TypeFlags'
    BY <1>12 DEF CollectReady, CollectBytes, termVars, signalB, children,
       Failed, GiveUp, Available, AllAnswered, TypeFlags, Dispositions
  <2>4. TypePipes'
    BY <1>12, CollectType DEF CollectReady
  <2>5. TypeChildren' /\ Room'
    BY <1>12 DEF CollectReady, CollectBytes, termVars, signalB, children,
       Failed, GiveUp, Available, AllAnswered, TypeChildren, Room
  <2> QED
    BY <2>1, <2>2, <2>3, <2>4, <2>5
<1>13. CASE SendStart
  <2>1. TypeParent'
    BY <1>13 DEF SendStart, termVars, chldVars, children, DieParent, NoReader,
       BytePerChild, Active, Alive, TypeParent, ParentPcs, InLoop
  <2>2. InLoop'
    BY <1>13 DEF SendStart, termVars, chldVars, children, DieParent, NoReader,
       BytePerChild, Active, Alive, InLoop, TypeParent
  <2>3. TypeFlags'
    BY <1>13 DEF SendStart, termVars, chldVars, children, DieParent, NoReader,
       BytePerChild, Active, Alive, TypeFlags, Dispositions
  <2>4. TypePipes'
    BY <1>13 DEF SendStart, termVars, chldVars, children, DieParent, NoReader,
       BytePerChild, Active, Alive, TypePipes, TypeParent, Children
  <2>5. TypeChildren' /\ Room'
    BY <1>13 DEF SendStart, termVars, chldVars, children, DieParent, NoReader,
       BytePerChild, Active, Alive, TypeChildren, Room
  <2> QED
    BY <2>1, <2>2, <2>3, <2>4, <2>5
<1>14. CASE CollectDone
  <2>1. TypeParent'
    BY <1>14, CollectType DEF CollectDone
  <2>2. InLoop'
    BY <1>14 DEF CollectDone, CollectBytes, termVars, signalB, children,
       Failed, GiveUp, Available, AllAnswered, InLoop, TypeParent
  <2>3. TypeFlags'
    BY <1>14 DEF CollectDone, CollectBytes, termVars, signalB, children,
       Failed, GiveUp, Available, AllAnswered, TypeFlags, Dispositions
  <2>4. TypePipes'
    BY <1>14, CollectType DEF CollectDone
  <2>5. TypeChildren' /\ Room'
    BY <1>14 DEF CollectDone, CollectBytes, termVars, signalB, children,
       Failed, GiveUp, Available, AllAnswered, TypeChildren, Room
  <2> QED
    BY <2>1, <2>2, <2>3, <2>4, <2>5
<1>15. CASE AskOne
  <2>1. TypeParent'
    BY <1>15, AskOneType
  <2>2. InLoop'
    BY <1>15 DEF AskOne, termVars, chldVars, children, DieParent, NoReader,
       Active, Alive, InLoop, TypeParent
  <2>3. TypeFlags'
    BY <1>15 DEF AskOne, termVars, chldVars, children, DieParent, NoReader,
       Active, Alive, TypeFlags, Dispositions
  <2>4. TypePipes'
    BY <1>15 DEF AskOne, termVars, chldVars, children, DieParent, NoReader,
       Active, Alive, TypePipes, TypeParent, Children
  <2>5. TypeChildren' /\ Room'
    BY <1>15 DEF AskOne, termVars, chldVars, children, DieParent, NoReader,
       Active, Alive, TypeChildren, Room
  <2> QED
    BY <2>1, <2>2, <2>3, <2>4, <2>5
<1>16. CASE CollectResult
  <2>1. TypeParent'
    BY <1>16, CollectResultType
  <2>2. InLoop'
    BY <1>16 DEF CollectResult, termVars, signalB, children, Failed, GiveUp,
       Available, RecordRead, InLoop, TypeParent
  <2>3. TypeFlags'
    BY <1>16 DEF CollectResult, termVars, signalB, children, Failed, GiveUp,
       Available, RecordRead, TypeFlags, Dispositions
  <2>4. TypePipes'
    BY <1>16, CollectResultType
  <2>5. TypeChildren' /\ Room'
    BY <1>16 DEF CollectResult, termVars, signalB, children, Failed, GiveUp,
       Available, RecordRead, TypeChildren, Room
  <2> QED
    BY <2>1, <2>2, <2>3, <2>4, <2>5
<1>17. CASE Release
  <2>1. TypeParent'
    BY <1>17 DEF Release, termVars, children, Active, NoReader, BytePerChild,
       Alive, TypeParent, ParentPcs, InLoop
  <2>2. InLoop'
    BY <1>17 DEF Release, termVars, children, Active, NoReader, BytePerChild,
       Alive, InLoop, TypeParent
  <2>3. TypeFlags'
    BY <1>17 DEF Release, termVars, children, Active, NoReader, BytePerChild,
       Alive, TypeFlags, Dispositions
  <2>4. TypePipes'
    BY <1>17, ReleaseType
  <2>5. TypeChildren' /\ Room'
    BY <1>17 DEF Release, termVars, children, Active, NoReader, BytePerChild,
       Alive, TypeChildren, Room
  <2> QED
    BY <2>1, <2>2, <2>3, <2>4, <2>5
<1>18. CASE Kill
  <2>1. TypeParent'
    BY <1>18 DEF Kill, termVars, chldVars, signalB, childState, SendTerm,
       Alive, TypeParent, ParentPcs, InLoop
  <2>2. InLoop'
    BY <1>18 DEF Kill, termVars, chldVars, signalB, childState, SendTerm,
       Alive, InLoop, TypeParent
  <2>3. TypeFlags'
    BY <1>18 DEF Kill, termVars, chldVars, signalB, childState, SendTerm,
       Alive, TypeFlags, Dispositions
  <2>4. TypeChildren'
    BY <1>18 DEF Kill, termVars, chldVars, signalB, childState, SendTerm,
       Alive, TypeChildren, ChildPcs, Modes, Room
  <2>5. TypePipes' /\ Room'
    BY <1>18 DEF Kill, termVars, chldVars, signalB, childState, SendTerm,
       Alive, TypePipes, Room
  <2> QED
    BY <2>1, <2>2, <2>3, <2>4, <2>5
<1>19. CASE KillWait
  <2>1. TypeParent'
    BY <1>19 DEF KillWait, termVars, chldVars, pipes, childState, childSig,
       TypeParent, ParentPcs, InLoop
  <2>2. InLoop'
    BY <1>19 DEF KillWait, termVars, chldVars, pipes, childState, childSig,
       InLoop, TypeParent
  <2>3. TypeChildren'
    BY <1>19 DEF KillWait, termVars, chldVars, pipes, childState, childSig,
       TypeChildren, ChildPcs, Modes, Room
  <2>4. Room'
    BY <1>19 DEF KillWait, termVars, chldVars, pipes, childState, childSig,
       Room, TypeChildren, ChildPcs, Modes
  <2>5. TypeFlags' /\ TypePipes'
    BY <1>19 DEF KillWait, termVars, chldVars, pipes, childState, childSig,
       TypeFlags, TypePipes
  <2> QED
    BY <2>1, <2>2, <2>3, <2>4, <2>5
<1>20. CASE AlarmRings
  <2>1. TypeParent'
    BY <1>20 DEF AlarmRings, termVars, chldVars, pipes, childState, SendTerm,
       Alive, TypeParent, ParentPcs, InLoop
  <2>2. InLoop'
    BY <1>20 DEF AlarmRings, termVars, chldVars, pipes, childState, SendTerm,
       Alive, InLoop, TypeParent
  <2>3. TypeChildren'
    BY <1>20 DEF AlarmRings, termVars, chldVars, pipes, childState, SendTerm,
       Alive, TypeChildren, ChildPcs, Modes, Room
  <2>4. TypeFlags' /\ TypePipes' /\ Room'
    BY <1>20 DEF AlarmRings, termVars, chldVars, pipes, childState, SendTerm,
       Alive, TypeFlags, TypePipes, Room
  <2> QED
    BY <2>1, <2>2, <2>3, <2>4
<1>21. CASE PipeFails
  <2>1. TypeParent'
    BY <1>21 DEF PipeFails, termVars, chldVars, pipes, children, Fault,
       TypeParent, ParentPcs, InLoop
  <2>2. InLoop'
    BY <1>21 DEF PipeFails, termVars, chldVars, pipes, children, Fault,
       InLoop, TypeParent
  <2>3. TypeFlags'
    BY <1>21 DEF PipeFails, termVars, chldVars, pipes, children, Fault,
       TypeFlags, Dispositions
  <2>4. TypePipes' /\ TypeChildren' /\ Room'
    BY <1>21 DEF PipeFails, termVars, chldVars, pipes, children, Fault,
       TypePipes, TypeChildren, Room
  <2> QED
    BY <2>1, <2>2, <2>3, <2>4
<1>22. CASE ResultsAllocFails
  <2>1. TypeParent'
    BY <1>22 DEF ResultsAllocFails, termVars, pipes, children, Fault, Failed,
       TypeParent, ParentPcs, InLoop
  <2>2. InLoop'
    BY <1>22 DEF ResultsAllocFails, termVars, pipes, children, Fault, Failed,
       InLoop, TypeParent
  <2>3. TypeFlags'
    BY <1>22 DEF ResultsAllocFails, termVars, pipes, children, Fault, Failed,
       TypeFlags, Dispositions
  <2>4. TypePipes' /\ TypeChildren' /\ Room'
    BY <1>22 DEF ResultsAllocFails, termVars, pipes, children, Fault, Failed,
       TypePipes, TypeChildren, Room
  <2> QED
    BY <2>1, <2>2, <2>3, <2>4
<1>23. CASE UserTerm
  <2>1. TypeParent'
    BY <1>23 DEF UserTerm, parentVars, chldVars, pipes, children, Fault,
       TypeParent, ParentPcs, InLoop
  <2>2. TypeFlags'
    BY <1>23 DEF UserTerm, parentVars, chldVars, pipes, children, Fault,
       TypeFlags, Dispositions
  <2>3. InLoop' /\ TypePipes' /\ TypeChildren' /\ Room'
    BY <1>23 DEF UserTerm, parentVars, chldVars, pipes, children, Fault,
       InLoop, TypePipes, TypeChildren, Room
  <2> QED
    BY <2>1, <2>2, <2>3
<1>24. CASE ParentDies
  <2>1. TypeParent'
    BY <1>24 DEF ParentDies, termVars, chldVars, signalB, children, Fault,
       DieParent, TypeParent, ParentPcs, InLoop
  <2>2. InLoop'
    BY <1>24 DEF ParentDies, termVars, chldVars, signalB, children, Fault,
       DieParent, InLoop, TypeParent
  <2>3. TypeFlags'
    BY <1>24 DEF ParentDies, termVars, chldVars, signalB, children, Fault,
       DieParent, TypeFlags, Dispositions
  <2>4. TypePipes' /\ TypeChildren' /\ Room'
    BY <1>24 DEF ParentDies, termVars, chldVars, signalB, children, Fault,
       DieParent, TypePipes, TypeChildren, Room
  <2> QED
    BY <2>1, <2>2, <2>3, <2>4
<1>25. ASSUME NEW c \in Children, StartChild(c) PROVE TypeInv'
  <2>1. TypeFlags'
    BY <1>25 DEF StartChild, chldVars, pipes, childState, ExitChild,
       CleanupZero, Goto, ParentIdle, parentVars, termVars, TypeFlags,
       Dispositions
  <2>2. TypeChildren'
    BY <1>25 DEF StartChild, chldVars, pipes, childState, ExitChild,
       CleanupZero, Goto, ParentIdle, parentVars, termVars, TypeChildren,
       ChildPcs, Modes, Room
  <2>3. Room'
    BY <1>25 DEF StartChild, chldVars, pipes, childState, ExitChild,
       CleanupZero, Goto, ParentIdle, parentVars, termVars, Room,
       TypeChildren, ChildPcs, Modes
  <2>4. TypeParent' /\ InLoop' /\ TypePipes'
    BY <1>25 DEF StartChild, chldVars, pipes, childState, ExitChild,
       CleanupZero, Goto, ParentIdle, parentVars, termVars, TypeParent,
       InLoop, TypePipes
  <2> QED
    BY <2>1, <2>2, <2>3, <2>4
<1>26. ASSUME NEW c \in Children, StopInterval(c) PROVE TypeInv'
  <2>1. TypeChildren'
    BY <1>26 DEF StopInterval, chldVars, pipes, childState, childSig, Goto,
       ParentIdle, parentVars, termVars, TypeChildren, ChildPcs, Modes, Room
  <2>2. Room'
    BY <1>26 DEF StopInterval, chldVars, pipes, childState, childSig, Goto,
       ParentIdle, parentVars, termVars, Room, TypeChildren, ChildPcs, Modes
  <2>3. TypeParent' /\ InLoop' /\ TypeFlags' /\ TypePipes'
    BY <1>26 DEF StopInterval, chldVars, pipes, childState, childSig, Goto,
       ParentIdle, parentVars, termVars, TypeParent, InLoop, TypeFlags,
       TypePipes
  <2> QED
    BY <2>1, <2>2, <2>3
<1>27. ASSUME NEW c \in Children, OrphanExits(c) PROVE TypeInv'
  <2>1. TypeFlags'
    BY <1>27 DEF OrphanExits, pipes, childState, ExitChild, CleanupZero,
       ParentIdle, parentVars, termVars, TypeFlags, Dispositions
  <2>2. TypeChildren'
    BY <1>27 DEF OrphanExits, pipes, childState, ExitChild, CleanupZero,
       ParentIdle, parentVars, termVars, TypeChildren, ChildPcs, Modes, Room
  <2>3. Room'
    BY <1>27 DEF OrphanExits, pipes, childState, ExitChild, CleanupZero,
       ParentIdle, parentVars, termVars, Room, TypeChildren, ChildPcs, Modes
  <2>4. TypeParent' /\ InLoop' /\ TypePipes'
    BY <1>27 DEF OrphanExits, pipes, childState, ExitChild, CleanupZero,
       ParentIdle, parentVars, termVars, TypeParent, InLoop, TypePipes
  <2> QED
    BY <2>1, <2>2, <2>3, <2>4
<1>28. ASSUME NEW c \in Children, PollStart(c) PROVE TypeInv'
  <2>1. TypeChildren'
    BY <1>28 DEF PollStart, chldVars, pipes, childSig, Goto, ParentIdle,
       NotOrphan, AfterPoll, parentVars, termVars, TypeChildren, ChildPcs,
       Modes, Room
  <2>2. Room'
    BY <1>28 DEF PollStart, chldVars, pipes, childSig, Goto, ParentIdle,
       NotOrphan, AfterPoll, parentVars, termVars, Room, TypeChildren,
       ChildPcs, Modes
  <2>3. TypeParent' /\ InLoop' /\ TypeFlags' /\ TypePipes'
    BY <1>28 DEF PollStart, chldVars, pipes, childSig, Goto, ParentIdle,
       NotOrphan, AfterPoll, parentVars, termVars, TypeParent, InLoop,
       TypeFlags, TypePipes
  <2> QED
    BY <2>1, <2>2, <2>3
<1>29. ASSUME NEW c \in Children, ReadStart(c) PROVE TypeInv'
  <2>1. TypePipes'
    BY <1>29 DEF ReadStart, chldVars, childState, childSig, Goto, ParentIdle,
       AfterPoll, parentVars, termVars, TypePipes, TypeParent, Children
  <2>2. TypeChildren'
    BY <1>29 DEF ReadStart, chldVars, childState, childSig, Goto, ParentIdle,
       AfterPoll, parentVars, termVars, TypeChildren, ChildPcs, Modes, Room
  <2>3. Room'
    BY <1>29 DEF ReadStart, chldVars, childState, childSig, Goto, ParentIdle,
       AfterPoll, parentVars, termVars, Room, TypeChildren, ChildPcs, Modes
  <2>4. TypeParent' /\ InLoop' /\ TypeFlags'
    BY <1>29 DEF ReadStart, chldVars, childState, childSig, Goto, ParentIdle,
       AfterPoll, parentVars, termVars, TypeParent, InLoop, TypeFlags
  <2> QED
    BY <2>1, <2>2, <2>3, <2>4
<1>30. ASSUME NEW c \in Children, SendReady(c) PROVE TypeInv'
  <2>1. TypeFlags'
    BY <1>30 DEF SendReady, signalB, childSig, ParentIdle, Respond, chldVars,
       ExitChild, Goto, parentVars, termVars, TypeFlags, Dispositions
  <2>2. TypePipes'
    BY <1>30, RespondType DEF SendReady
  <2>3. TypeChildren'
    BY <1>30 DEF SendReady, signalB, childSig, ParentIdle, Respond, chldVars,
       ExitChild, Goto, parentVars, termVars, TypeChildren, ChildPcs, Modes,
       Room
  <2>4. Room'
    BY <1>30 DEF SendReady, signalB, childSig, ParentIdle, Respond, chldVars,
       ExitChild, Goto, parentVars, termVars, Room, TypeChildren, ChildPcs,
       Modes
  <2>5. TypeParent' /\ InLoop'
    BY <1>30 DEF SendReady, signalB, childSig, ParentIdle, Respond, chldVars,
       ExitChild, Goto, parentVars, termVars, TypeParent, InLoop
  <2> QED
    BY <2>1, <2>2, <2>3, <2>4, <2>5
<1>31. ASSUME NEW c \in Children, Measure(c) PROVE TypeInv'
  <2>1. TypeChildren'
    BY <1>31 DEF Measure, MeasureWith, chldVars, pipes, childSig, Goto,
       ParentIdle, NotOrphan, parentVars, termVars, TypeChildren, ChildPcs,
       Modes, Room
  <2>2. Room'
    BY <1>31 DEF Measure, MeasureWith, chldVars, pipes, childSig, Goto,
       ParentIdle, NotOrphan, parentVars, termVars, Room, TypeChildren,
       ChildPcs, Modes
  <2>3. TypeParent' /\ InLoop' /\ TypeFlags' /\ TypePipes'
    BY <1>31 DEF Measure, MeasureWith, chldVars, pipes, childSig, Goto,
       ParentIdle, NotOrphan, parentVars, termVars, TypeParent, InLoop,
       TypeFlags, TypePipes
  <2> QED
    BY <2>1, <2>2, <2>3
<1>32. ASSUME NEW c \in Children, SendDone(c) PROVE TypeInv'
  <2>1. TypeFlags'
    BY <1>32 DEF SendDone, signalB, childState, childSig, ParentIdle, Respond,
       chldVars, ExitChild, Goto, parentVars, termVars, TypeFlags,
       Dispositions
  <2>2. TypePipes'
    BY <1>32, RespondType DEF SendDone
  <2>3. TypeChildren'
    BY <1>32 DEF SendDone, signalB, childState, childSig, ParentIdle, Respond,
       chldVars, ExitChild, Goto, parentVars, termVars, TypeChildren,
       ChildPcs, Modes, Room
  <2>4. Room'
    BY <1>32 DEF SendDone, signalB, childState, childSig, ParentIdle, Respond,
       chldVars, ExitChild, Goto, parentVars, termVars, Room, TypeChildren,
       ChildPcs, Modes
  <2>5. TypeParent' /\ InLoop'
    BY <1>32 DEF SendDone, signalB, childState, childSig, ParentIdle, Respond,
       chldVars, ExitChild, Goto, parentVars, termVars, TypeParent, InLoop
  <2> QED
    BY <2>1, <2>2, <2>3, <2>4, <2>5
<1>33. ASSUME NEW c \in Children, PollResult(c) PROVE TypeInv'
  <2>1. TypeChildren'
    BY <1>33 DEF PollResult, chldVars, pipes, childState, childSig, Goto,
       ParentIdle, NotOrphan, parentVars, termVars, TypeChildren, ChildPcs,
       Modes, Room
  <2>2. Room'
    BY <1>33 DEF PollResult, chldVars, pipes, childState, childSig, Goto,
       ParentIdle, NotOrphan, parentVars, termVars, Room, TypeChildren,
       ChildPcs, Modes
  <2>3. TypeParent' /\ InLoop' /\ TypeFlags' /\ TypePipes'
    BY <1>33 DEF PollResult, chldVars, pipes, childState, childSig, Goto,
       ParentIdle, NotOrphan, parentVars, termVars, TypeParent, InLoop,
       TypeFlags, TypePipes
  <2> QED
    BY <2>1, <2>2, <2>3
<1>34. ASSUME NEW c \in Children, ReadResult(c) PROVE TypeInv'
  <2>1. TypePipes'
    BY <1>34 DEF ReadResult, chldVars, childState, childSig, Goto, ParentIdle,
       parentVars, termVars, TypePipes, TypeParent, Children
  <2>2. TypeChildren'
    BY <1>34 DEF ReadResult, chldVars, childState, childSig, Goto, ParentIdle,
       parentVars, termVars, TypeChildren, ChildPcs, Modes, Room
  <2>3. Room'
    BY <1>34 DEF ReadResult, chldVars, childState, childSig, Goto, ParentIdle,
       parentVars, termVars, Room, TypeChildren, ChildPcs, Modes
  <2>4. TypeParent' /\ InLoop' /\ TypeFlags'
    BY <1>34 DEF ReadResult, chldVars, childState, childSig, Goto, ParentIdle,
       parentVars, termVars, TypeParent, InLoop, TypeFlags
  <2> QED
    BY <2>1, <2>2, <2>3, <2>4
<1>35. ASSUME NEW c \in Children, Report(c) PROVE TypeInv'
  <2>1. TypeFlags'
    BY <1>35 DEF Report, signalB, childSig, ParentIdle, Respond, AfterByte,
       chldVars, ExitChild, Goto, parentVars, termVars, TypeFlags,
       Dispositions
  <2>2. TypePipes'
    BY <1>35, RespondType DEF Report
  <2>3. TypeChildren'
    BY <1>35, ReportType
  <2>4. Room'
    BY <1>35 DEF Report, signalB, childSig, ParentIdle, Respond, AfterByte,
       chldVars, ExitChild, Goto, parentVars, termVars, Room, TypeChildren,
       ChildPcs, Modes
  <2>5. TypeParent' /\ InLoop'
    BY <1>35 DEF Report, signalB, childSig, ParentIdle, Respond, AfterByte,
       chldVars, ExitChild, Goto, parentVars, termVars, TypeParent, InLoop
  <2> QED
    BY <2>1, <2>2, <2>3, <2>4, <2>5
<1>36. ASSUME NEW c \in Children, FinalCleanup(c) PROVE TypeInv'
  <2>1. TypeChildren'
    BY <1>36 DEF FinalCleanup, chldVars, pipes, childState, CleanupZero, Goto,
       ParentIdle, parentVars, termVars, TypeChildren, ChildPcs, Modes, Room
  <2>2. Room'
    BY <1>36 DEF FinalCleanup, chldVars, pipes, childState, CleanupZero, Goto,
       ParentIdle, parentVars, termVars, Room, TypeChildren, ChildPcs, Modes
  <2>3. TypeParent' /\ InLoop' /\ TypeFlags' /\ TypePipes'
    BY <1>36 DEF FinalCleanup, chldVars, pipes, childState, CleanupZero, Goto,
       ParentIdle, parentVars, termVars, TypeParent, InLoop, TypeFlags,
       TypePipes
  <2> QED
    BY <2>1, <2>2, <2>3
<1>37. ASSUME NEW c \in Children, ReadExit(c) PROVE TypeInv'
  <2>1. TypeFlags'
    BY <1>37 DEF ReadExit, childState, childSig, ExitChild, ParentIdle,
       parentVars, termVars, TypeFlags, Dispositions
  <2>2. TypePipes'
    BY <1>37 DEF ReadExit, childState, childSig, ExitChild, ParentIdle,
       parentVars, termVars, TypePipes, TypeParent, Children
  <2>3. TypeChildren'
    BY <1>37 DEF ReadExit, childState, childSig, ExitChild, ParentIdle,
       parentVars, termVars, TypeChildren, ChildPcs, Modes, Room
  <2>4. Room'
    BY <1>37 DEF ReadExit, childState, childSig, ExitChild, ParentIdle,
       parentVars, termVars, Room, TypeChildren, ChildPcs, Modes
  <2>5. TypeParent' /\ InLoop'
    BY <1>37 DEF ReadExit, childState, childSig, ExitChild, ParentIdle,
       parentVars, termVars, TypeParent, InLoop
  <2> QED
    BY <2>1, <2>2, <2>3, <2>4, <2>5
<1>38. ASSUME NEW c \in Children, Restart(c) PROVE TypeInv'
  <2>1. TypeChildren'
    BY <1>38 DEF Restart, chldVars, pipes, childSig, Goto, ParentIdle,
       parentVars, termVars, TypeChildren, ChildPcs, Modes, Room
  <2>2. Room'
    BY <1>38 DEF Restart, chldVars, pipes, childSig, Goto, ParentIdle,
       parentVars, termVars, Room, TypeChildren, ChildPcs, Modes
  <2>3. TypeParent' /\ InLoop' /\ TypeFlags' /\ TypePipes'
    BY <1>38 DEF Restart, chldVars, pipes, childSig, Goto, ParentIdle,
       parentVars, termVars, TypeParent, InLoop, TypeFlags, TypePipes
  <2> QED
    BY <2>1, <2>2, <2>3
<1>39. ASSUME NEW c \in Children, TakeTerm(c) PROVE TypeInv'
  <2>1. TypeFlags'
    BY <1>39 DEF TakeTerm, chldVars, pipes, childState, Alive, ExitChild,
       CleanupZero, ParentIdle, parentVars, termVars, TypeFlags, Dispositions
  <2>2. TypeChildren'
    BY <1>39, TakeTermType
  <2>3. Room'
    BY <1>39 DEF TakeTerm, chldVars, pipes, childState, Alive, ExitChild,
       CleanupZero, ParentIdle, parentVars, termVars, Room, TypeChildren,
       ChildPcs, Modes
  <2>4. TypeParent' /\ InLoop' /\ TypePipes'
    BY <1>39 DEF TakeTerm, chldVars, pipes, childState, Alive, ExitChild,
       CleanupZero, ParentIdle, parentVars, termVars, TypeParent, InLoop,
       TypePipes
  <2> QED
    BY <2>1, <2>2, <2>3, <2>4
<1>40. ASSUME NEW c \in Children, ChildFails(c) PROVE TypeInv'
  <2>1. TypeParent'
    BY <1>40 DEF ChildFails, parentVars, termVars, pipes, childState,
       childSig, Alive, Fault, ExitChild, TypeParent, ParentPcs, InLoop
  <2>2. TypeFlags'
    BY <1>40 DEF ChildFails, parentVars, termVars, pipes, childState,
       childSig, Alive, Fault, ExitChild, TypeFlags, Dispositions
  <2>3. TypeChildren'
    BY <1>40 DEF ChildFails, parentVars, termVars, pipes, childState,
       childSig, Alive, Fault, ExitChild, TypeChildren, ChildPcs, Modes, Room
  <2>4. Room'
    BY <1>40 DEF ChildFails, parentVars, termVars, pipes, childState,
       childSig, Alive, Fault, ExitChild, Room, TypeChildren, ChildPcs, Modes
  <2>5. InLoop' /\ TypePipes'
    BY <1>40 DEF ChildFails, parentVars, termVars, pipes, childState,
       childSig, Alive, Fault, ExitChild, InLoop, TypePipes
  <2> QED
    BY <2>1, <2>2, <2>3, <2>4, <2>5
<1>41. CASE UNCHANGED vars
    BY <1>41 DEF vars, childSig, childState, children, chldVars, parentVars,
       pipes, signalB, termVars, TypeParent, TypeFlags, TypePipes,
       TypeChildren, Room, InLoop
<1> QED
    BY <1>1, <1>2, <1>3, <1>4, <1>5, <1>6, <1>7, <1>8, <1>9, <1>10, <1>11,
       <1>12, <1>13, <1>14, <1>15, <1>16, <1>17, <1>18, <1>19, <1>20, <1>21,
       <1>22, <1>23, <1>24, <1>25, <1>26, <1>27, <1>28, <1>29, <1>30, <1>31,
       <1>32, <1>33, <1>34, <1>35, <1>36, <1>37, <1>38, <1>39, <1>40, <1>41
    DEF Next, ParentStep, ParentFault, ChildStep, Terminated

\* Every variable of the harness keeps its type, loops stay inside their
\* bounds, no child collects more results than it was asked for or writes
\* more bytes than its record has.
THEOREM TypeInvariant == Spec => []TypeInv
<1>1. Init => TypeInv
  BY TypeInit
<1>2. TypeInv /\ [Next]_vars => TypeInv'
  BY TypeStep
<1> QED
  BY <1>1, <1>2, PTL DEF Spec

\* The type invariant that the runs check.
THEOREM TypeCorrect == Spec => []TypeOK
<1>1. TypeInv => TypeOK
  BY DEF TypeInv
<1> QED
  BY <1>1, TypeInvariant, PTL

----------------------------------------------------------------------------
(* Where the children are, and what is in the pipes.                       *)

\* Children are numbered from 1.
LEMMA ChildNumbers ==
  ASSUME NEW d \in Children
  PROVE  d \in Nat /\ 0 < d /\ d <= Parallel
BY DEF Children

\* A living child is one of the round's, and the round is on.
LEMMA Working ==
  ASSUME TypeParent, ForkedSoFar, NEW c \in Children, Alive(c)
  PROVE  c \in Active /\ ppc \notin {"call", "finish", "returned"}
BY Numbers, ChildNumbers DEF ForkedSoFar, LeftBehind, Waited, Alive, Active

\* The round's children are some of all.
LEMMA ActiveIsChildren ==
  ASSUME TypeParent
  PROVE  Active \subseteq Children
BY Numbers DEF Active, Children

\* A step in which only living children move, and none becomes unforked, does
\* not disturb the loops over pids.
LEMMA ForkedKept ==
  ASSUME TypeInv, ForkedSoFar, UNCHANGED <<ppc, np, pi>>,
         \A d \in Children : cpc'[d] = cpc[d] \/ (Alive(d) /\ cpc'[d] # "none")
  PROVE  ForkedSoFar'
<1>1. ASSUME NEW d \in Children, LeftBehind(d)' PROVE Waited(d)'
  <2>1. LeftBehind(d)
    BY <1>1 DEF LeftBehind
  <2>2. Waited(d) /\ ~Alive(d)
    BY <2>1 DEF ForkedSoFar, Waited, Alive
  <2> QED
    BY <2>2 DEF Waited
<1>2. ASSUME NEW d \in Children, ppc' \in {"fork", "enter"}, d <= pi'
      PROVE  cpc'[d] # "none"
  BY <1>2 DEF ForkedSoFar
<1> QED
  BY <1>1, <1>2 DEF ForkedSoFar

\* A child that answers goes on, or exits when its parent is gone.
LEMMA RespondMoves ==
  ASSUME NEW c \in Children, NEW next, Respond(c, next)
  PROVE  \E w \in {next, "zombie"} : cpc' = [cpc EXCEPT ![c] = w]
  BY DEF Respond, Goto, ExitChild

----------------------------------------------------------------------------
(* The phases of the handshake.                                            *)

\* What a child's step has to keep.
LEMMA PhasesKept ==
  ASSUME Phases, UNCHANGED <<ppc, np, open>>,
         open /\ Quiet => Quiet', AllReady => AllReady', AllCool => AllCool',
         NothingAsked', WhileReaping', HandedOut'
  PROVE  Phases'
BY DEF Phases, BeforeStart, AfterStart, NothingAsked, AfterDone, WhileKilling,
       WhileReaping, HandedOut

\* A child that warms up can see the end of file only when the parent is dead.
LEMMA WarmOpen ==
  ASSUME TypeParent, ForkedSoFar, Phases, ppc # "dead",
         NEW c \in Children, Alive(c), state[c] # "cooldown"
  PROVE  open
<1>1. ppc \notin {"call", "finish", "returned"}
  BY Working
<1>2. CASE ppc \in {"reap", "reaplate"}
  BY <1>2, Working DEF Phases, WhileReaping, AllCool
<1>3. CASE ppc \notin {"reap", "reaplate"}
  BY <1>1, <1>3 DEF Phases, BeforeStart, AfterStart, WhileKilling, TypeParent, ParentPcs
<1> QED
  BY <1>2, <1>3

\* A child may only begin its timing when every child is ready: PollStart.
LEMMA PollStartPhases ==
  ASSUME TypeInv, Sync, ppc # "dead", NEW c \in Children, PollStart(c)
  PROVE  Phases'
<1> USE DEF TypeInv, TypeOK, Sync
<1>1. Alive(c) /\ state[c] = "warmup"
  BY DEF PollStart, Alive
<1>2. open /\ c \in Active
  BY <1>1, Working, WarmOpen
<1>3. UNCHANGED <<ppc, np, open, startB, resultB, need_warmup>>
  BY DEF PollStart, ParentIdle, parentVars, pipes
<1>4. \A d \in Children : d # c => cpc'[d] = cpc[d] /\ state'[d] = state[d]
  BY DEF PollStart, Goto, TypeChildren
<1>5. cpc'[c] \in {"startread", "ready", "restart"}
  BY DEF PollStart, Goto, AfterPoll, TypeChildren
<1>6. open /\ Quiet => Quiet'
  <2> SUFFICES ASSUME Quiet PROVE Quiet'
    OBVIOUS
  <2>1. state' = state
    BY <1>2 DEF PollStart, Quiet
  <2> QED
    BY <2>1, <1>1, <1>3, <1>4 DEF Quiet, Alive
<1>7. AllReady => AllReady'
  BY <1>3 DEF AllReady, Active
<1>8. ~AllCool
  BY <1>1, <1>2 DEF AllCool
<1>9. NothingAsked'
  BY <1>3, <1>4, <1>5 DEF Phases, NothingAsked, Reporting
<1>10. WhileReaping'
  BY <1>2, <1>3, <1>6 DEF Phases, WhileReaping
<1>11. HandedOut'
  BY <1>2, <1>3, <1>4, <1>5, <1>8 DEF Phases, HandedOut, Reporting
<1> QED
  BY <1>3, <1>6, <1>7, <1>8, <1>9, <1>10, <1>11, PhasesKept

\* The `ready' byte leaves the phases as they are, and makes its writer ready.
LEMMA SendReadyPhases ==
  ASSUME TypeInv, Sync, ppc # "dead", NEW c \in Children, SendReady(c)
  PROVE  Phases'
<1> USE DEF TypeInv, TypeOK, Sync
<1>1. UNCHANGED <<ppc, np, open, startB, resultB, state>>
  BY DEF SendReady, ParentIdle, parentVars, signalB
<1>2. \A d \in Children : d # c => cpc'[d] = cpc[d]
  BY DEF SendReady, Respond, ExitChild, Goto, TypeChildren
<1>3. Alive(c) /\ cpc'[c] \in {"restart", "zombie"}
  BY DEF SendReady, Respond, ExitChild, Goto, TypeChildren, Alive
<1>4. \A d \in Children : ~need_warmup[d] => ~need_warmup'[d]
  BY DEF SendReady, TypeChildren
<1>5. Quiet => Quiet'
  BY <1>1, <1>2, <1>3 DEF Quiet, Alive
<1>6. AllReady => AllReady'
  BY <1>1, <1>4, ActiveIsChildren DEF AllReady, Active
<1>7. AllCool => AllCool'
  BY <1>1 DEF AllCool, Active
<1>8. NothingAsked'
  BY <1>1, <1>2, <1>3 DEF Phases, NothingAsked, Reporting
<1>9. WhileReaping'
  BY <1>1, <1>2, <1>3, <1>5, <1>7 DEF Phases, WhileReaping, Alive
<1>10. HandedOut'
  BY <1>1, <1>2, <1>3, <1>7 DEF Phases, HandedOut, Reporting
<1> QED
  BY <1>1, <1>5, <1>6, <1>7, <1>8, <1>9, <1>10, PhasesKept

\* The end of an interval, which may be the last, disturbs no phase.
LEMMA MeasurePhases ==
  ASSUME TypeInv, Sync, ppc # "dead", NEW c \in Children, Measure(c)
  PROVE  Phases'
<1> USE DEF TypeInv, TypeOK, Sync
<1>1. UNCHANGED <<ppc, np, open, startB, resultB, need_warmup>>
  BY DEF Measure, MeasureWith, ParentIdle, parentVars, pipes
<1>2. \A d \in Children : d # c => cpc'[d] = cpc[d] /\ state'[d] = state[d]
  BY DEF Measure, MeasureWith, Goto, TypeChildren
<1>3. Alive(c) /\ state[c] = "timing_interval"
  BY DEF Measure, MeasureWith, Alive
<1>4. cpc'[c] \in {"done", "restart"}
  BY DEF Measure, MeasureWith, Goto, TypeChildren
<1>5. c \in Active
  BY <1>3, Working
<1>6. ~Quiet /\ ~AllCool
  BY <1>3, <1>5 DEF Quiet, AllCool
<1>7. AllReady => AllReady'
  BY <1>1 DEF AllReady, Active
<1>8. NothingAsked'
  BY <1>1, <1>2, <1>4 DEF Phases, NothingAsked, Reporting
<1>9. WhileReaping'
  BY <1>1, <1>3, <1>6 DEF Phases, WhileReaping
<1>10. HandedOut'
  BY <1>1, <1>2, <1>4, <1>6 DEF Phases, HandedOut, Reporting
<1> QED
  BY <1>1, <1>6, <1>7, <1>8, <1>9, <1>10, PhasesKept

\* A result byte can be seen only when every child cools down.
LEMMA PollResultPhases ==
  ASSUME TypeInv, Sync, ppc # "dead", NEW c \in Children, PollResult(c)
  PROVE  Phases'
<1> USE DEF TypeInv, TypeOK, Sync
<1>1. UNCHANGED <<ppc, np, open, startB, resultB, need_warmup, state>>
  BY DEF PollResult, ParentIdle, parentVars, pipes, childState
<1>2. \A d \in Children : d # c => cpc'[d] = cpc[d]
  BY DEF PollResult, Goto, TypeChildren
<1>3. Alive(c) /\ state[c] = "cooldown"
  BY DEF PollResult, Alive
<1>4. ~Quiet
  BY <1>3 DEF Quiet
<1>5. AllReady' = AllReady /\ AllCool' = AllCool
  BY <1>1 DEF AllReady, AllCool, Active
<1>6. ppc \notin {"call", "finish", "returned"}
  BY <1>3, Working
<1>7. CASE open /\ resultB = 0
  <2>1. cpc'[c] = "restart"
    BY <1>7 DEF PollResult, Goto, TypeChildren
  <2>2. NothingAsked'
    BY <2>1, <1>1, <1>2 DEF Phases, NothingAsked, Reporting
  <2>3. HandedOut'
    BY <2>1, <1>1, <1>2, <1>5 DEF Phases, HandedOut, Reporting
  <2>4. WhileReaping'
    BY <1>1, <1>4, <1>7 DEF Phases, WhileReaping
  <2> QED
    BY <2>2, <2>3, <2>4, <1>1, <1>4, <1>5, PhasesKept
<1>8. CASE open /\ resultB > 0
  <2>1. AllCool
    BY <1>6, <1>8 DEF Phases, HandedOut
  <2>2. NothingAsked'
    BY <1>1, <1>8 DEF Phases, NothingAsked, TypePipes
  <2>3. HandedOut'
    BY <2>1, <1>5 DEF HandedOut
  <2>4. WhileReaping'
    BY <1>1, <1>4, <1>8 DEF Phases, WhileReaping
  <2> QED
    BY <2>2, <2>3, <2>4, <1>1, <1>4, <1>5, PhasesKept
<1>9. CASE ~open
  <2>1. ppc \in {"reap", "reaplate"}
    BY <1>4, <1>6, <1>9 DEF Phases, BeforeStart, AfterStart, WhileKilling,
                            TypeParent, ParentPcs
  <2>2. AllCool
    BY <2>1, <1>3, <1>9 DEF Phases, WhileReaping
  <2>3. NothingAsked'
    BY <2>1, <1>1 DEF NothingAsked
  <2>4. HandedOut'
    BY <2>2, <1>5 DEF HandedOut
  <2>5. WhileReaping'
    BY <2>2, <1>1, <1>5, <1>9 DEF WhileReaping
  <2> QED
    BY <2>3, <2>4, <2>5, <1>1, <1>4, <1>5, PhasesKept
<1> QED
  BY <1>7, <1>8, <1>9 DEF TypePipes

\* SIGTERM takes a child out of what the phases claim.
LEMMA TakeTermPhases ==
  ASSUME TypeInv, Sync, ppc # "dead", NEW c \in Children, TakeTerm(c)
  PROVE  Phases'
<1> USE DEF TypeInv, TypeOK, Sync
<1>1. UNCHANGED <<ppc, np, open, startB, resultB, need_warmup, state>>
  BY DEF TakeTerm, ParentIdle, parentVars, pipes, childState
<1>2. \A d \in Children : cpc'[d] = cpc[d] \/ cpc'[d] = "zombie"
  BY DEF TakeTerm, ExitChild, TypeChildren
<1>3. Quiet => Quiet'
  BY <1>1, <1>2 DEF Quiet, Alive
<1>4. AllReady' = AllReady /\ AllCool' = AllCool
  BY <1>1 DEF AllReady, AllCool, Active
<1>5. NothingAsked'
  BY <1>1, <1>2 DEF Phases, NothingAsked, Reporting
<1>6. WhileReaping'
  BY <1>1, <1>2, <1>3, <1>4 DEF Phases, WhileReaping, Alive
<1>7. HandedOut'
  BY <1>1, <1>2, <1>4 DEF Phases, HandedOut, Reporting
<1> QED
  BY <1>1, <1>3, <1>4, <1>5, <1>6, <1>7, PhasesKept

----------------------------------------------------------------------------
(* Counting the ready and the done bytes.                                  *)

\* Sets of children are finite, and their sizes are ordered as the sets are.
LEMMA CountFacts ==
  ASSUME NEW S \in SUBSET Children, NEW T \in SUBSET Children
  PROVE  /\ IsFiniteSet(S) /\ Cardinality(S) \in Nat
         /\ S \subseteq T => Cardinality(S) <= Cardinality(T)
<1>1. IsFiniteSet(Children)
  BY FS_Interval DEF Children
<1>2. IsFiniteSet(S) /\ IsFiniteSet(T)
  BY <1>1, FS_Subset
<1>3. Cardinality(S) \in Nat /\ Cardinality(T) \in Nat
  BY <1>2, FS_CardinalityType
<1>4. S \subseteq T => Cardinality(S) <= Cardinality(T)
  BY <1>2, FS_Subset
<1> QED
  BY <1>2, <1>3, <1>4

\* The two sets that are counted are sets of children.
LEMMA Subsets ==
  /\ ReadySet \subseteq Children /\ DoneSet \subseteq Children
  /\ ReadySet' \subseteq Children /\ DoneSet' \subseteq Children
BY DEF ReadySet, DoneSet

\* A set of the round's children as large as the round has all of them.
LEMMA AllCounted ==
  ASSUME TypeParent, NEW S \in SUBSET Active, np <= Cardinality(S)
  PROVE  S = Active
<1>1. IsFiniteSet(Active) /\ Cardinality(Active) = np
  BY Numbers, FS_Interval DEF Active
<1>2. Cardinality(S) <= np /\ (Cardinality(Active) = Cardinality(S) => Active = S)
  BY <1>1, FS_Subset
<1>3. Cardinality(S) \in Nat
  BY <1>1, FS_Subset, FS_CardinalityType
<1> QED
  BY <1>1, <1>2, <1>3, Numbers

\* Only the round's children are ready, and all of them when the sets are equal.
LEMMA ReadyInActive ==
  ASSUME TypeParent, ppc # "fork"
  PROVE  ReadySet \subseteq Active /\ (ReadySet = Active => AllReady)
BY Numbers, ChildNumbers, ActiveIsChildren DEF ReadySet, Active, AllReady

\* The same of the children whose `done' byte is written.
LEMMA DoneInActive ==
  ASSUME TypeParent
  PROVE  DoneSet \subseteq Active /\ (DoneSet = Active => AllCool)
BY Numbers, ChildNumbers, ActiveIsChildren DEF DoneSet, Active, AllCool

\* A step that writes nothing keeps the counts, if it takes no child out of
\* the two sets.
LEMMA CountsKept ==
  ASSUME TypeInv, Counts, UNCHANGED <<ppc, np, pi, response>>,
         ReadySet \subseteq ReadySet', DoneSet \subseteq DoneSet',
         AllReady => AllReady'
  PROVE  Counts'
<1> USE DEF TypeInv, TypeOK
<1>1. /\ Cardinality(ReadySet) \in Nat /\ Cardinality(ReadySet') \in Nat
      /\ Cardinality(ReadySet) <= Cardinality(ReadySet')
  BY Subsets, CountFacts
<1>2. /\ Cardinality(DoneSet) \in Nat /\ Cardinality(DoneSet') \in Nat
      /\ Cardinality(DoneSet) <= Cardinality(DoneSet')
  BY Subsets, CountFacts
<1>3. pi \in Nat /\ Len(response) \in Nat
  BY Numbers DEF TypePipes
<1> HIDE DEF TypeInv, TypeOK
<1>4. ppc' \in {"fork", "enter"} => Len(response') <= Cardinality(ReadySet')
  BY <1>1, <1>3 DEF Counts
<1>5. ppc' = "ready" => pi' + Len(response') <= Cardinality(ReadySet')
  BY <1>1, <1>3 DEF Counts
<1>6. ppc' = "start" => AllReady' /\ Len(response') = 0
  BY DEF Counts
<1>7. ppc' = "done" => pi' + Len(response') <= Cardinality(DoneSet')
  BY <1>2, <1>3 DEF Counts
<1> QED
  BY <1>4, <1>5, <1>6, <1>7 DEF Counts

\* A child's step that changes nothing but its own entries.
LEMMA ChildCounts ==
  ASSUME TypeInv, Counts, UNCHANGED <<ppc, np, pi, response, need_warmup>>,
         NEW c \in Children,
         \A d \in Children : d # c => cpc'[d] = cpc[d] /\ state'[d] = state[d],
         state[c] # "cooldown" \/ (state'[c] = state[c] /\ cpc'[c] # "done")
  PROVE  Counts'
<1>1. ReadySet' = ReadySet
  BY DEF ReadySet
<1>2. DoneSet \subseteq DoneSet'
  BY DEF DoneSet
<1>3. AllReady' = AllReady
  BY DEF AllReady, Active
<1> QED
  BY <1>1, <1>2, <1>3, CountsKept

\* A `ready' byte in the pipe goes with one more child that is ready.
LEMMA SendReadyCounts ==
  ASSUME TypeInv, Sync, NEW c \in Children, SendReady(c)
  PROVE  Counts'
<1> USE DEF TypeInv, TypeOK, Sync
<1>1. UNCHANGED <<ppc, np, pi, open, state>>
  BY DEF SendReady, ParentIdle, parentVars, signalB
<1>2. Alive(c) /\ need_warmup[c]
  BY DEF SendReady, Alive, ChildShape
<1>3. c \in Active /\ ppc \notin {"call", "finish", "returned"}
  BY <1>2, Working
<1>4. /\ \A d \in Children : d # c => need_warmup'[d] = need_warmup[d]
      /\ ~need_warmup'[c]
  BY DEF SendReady, TypeChildren
<1>5. \A d \in Children : cpc'[d] = "done" => cpc[d] = "done"
  BY DEF SendReady, Respond, Goto, ExitChild, TypeChildren
<1>6. ~AllReady
  BY <1>2, <1>3 DEF AllReady
<1>7. DoneSet \subseteq DoneSet'
  BY <1>1, <1>5 DEF DoneSet
<1>8. ReadySet \subseteq ReadySet'
  BY <1>1, <1>4 DEF ReadySet
<1>9. CASE response' = response
  BY <1>1, <1>6, <1>7, <1>8, <1>9, CountsKept
<1>10. CASE response' = Append(response, c)
  <2>1. Len(response') = Len(response) + 1 /\ Len(response) \in Nat
    BY <1>10 DEF TypePipes
  <2>2. c <= (IF ppc = "fork" THEN pi ELSE np)
    BY <1>2, <1>3, Numbers, ChildNumbers
       DEF ForkedSoFar, LeftBehind, Waited, Alive, Active
  <2>3. ReadySet' = ReadySet \cup {c} /\ c \notin ReadySet
    BY <2>2, <1>1, <1>2, <1>4 DEF ReadySet
  <2>4. IsFiniteSet(ReadySet) /\ Cardinality(ReadySet) \in Nat
    BY Subsets, CountFacts
  <2>5. Cardinality(ReadySet') = Cardinality(ReadySet) + 1
    BY <2>3, <2>4, FS_AddElement
  <2>6. pi' = pi /\ pi \in Nat
    BY <1>1, Numbers
  <2> HIDE DEF TypeInv, TypeOK
  <2>7. ppc' \notin {"start", "done"}
    BY <1>1, <1>6 DEF Counts, Phases, AfterStart
  <2> QED
    BY <2>1, <2>4, <2>5, <2>6, <2>7, <1>1 DEF Counts
<1> QED
  BY <1>9, <1>10 DEF SendReady, Respond

\* A child that cools down writes while it is not counted: before the start
\* bytes there is none.
LEMMA CoolPhase ==
  ASSUME Phases, NEW c \in Children, Alive(c), state[c] = "cooldown"
  PROVE  ppc \notin {"fork", "enter", "ready", "start"}
BY DEF Phases, BeforeStart, Quiet

\* A `done' byte in the pipe goes with one more child that is done.
LEMMA SendDoneCounts ==
  ASSUME TypeInv, Sync, NEW c \in Children, SendDone(c)
  PROVE  Counts'
<1> USE DEF TypeInv, TypeOK, Sync
<1>1. UNCHANGED <<ppc, np, pi, open, state, need_warmup>>
  BY DEF SendDone, ParentIdle, parentVars, signalB, childState
<1>2. Alive(c) /\ state[c] = "cooldown" /\ cpc[c] = "done"
  BY DEF SendDone, Alive, ChildShape
<1>3. c \in Active /\ ppc \notin {"fork", "enter", "ready", "start"}
  BY <1>2, Working, CoolPhase
<1>4. /\ \A d \in Children : d # c => cpc'[d] = cpc[d]
      /\ cpc'[c] # "done"
  BY DEF SendDone, Respond, Goto, ExitChild, TypeChildren
<1>5. DoneSet' = DoneSet \cup {c} /\ c \notin DoneSet
  <2>1. c <= np
    BY <1>3 DEF Active
  <2>2. c \in DoneSet' /\ c \notin DoneSet
    BY <1>1, <1>2, <1>4, <2>1 DEF DoneSet
  <2>3. ASSUME NEW d \in Children, d # c PROVE d \in DoneSet' <=> d \in DoneSet
    BY <1>1, <1>4, <2>3 DEF DoneSet
  <2> QED
    BY <2>2, <2>3, Subsets
<1>6. IsFiniteSet(DoneSet) /\ Cardinality(DoneSet) \in Nat
  BY Subsets, CountFacts
<1>7. Cardinality(DoneSet') = Cardinality(DoneSet) + 1
  BY <1>5, <1>6, FS_AddElement
<1>8. Len(response') \in {Len(response), Len(response) + 1} /\ Len(response) \in Nat
  <2>1. response' = response \/ response' = Append(response, c)
    BY DEF SendDone, Respond
  <2> QED
    BY <2>1 DEF TypePipes
<1>9. pi' = pi /\ pi \in Nat
  BY <1>1, Numbers
<1> HIDE DEF TypeInv, TypeOK
<1> QED
  BY <1>1, <1>3, <1>6, <1>7, <1>8, <1>9 DEF Counts

\* While records are written no byte is counted.
LEMMA ReportCounts ==
  ASSUME TypeInv, Sync, NEW c \in Children, Report(c)
  PROVE  Counts'
<1> USE DEF TypeInv, TypeOK, Sync
<1>1. ppc' = ppc
  BY DEF Report, ParentIdle, parentVars
<1>2. Alive(c) /\ state[c] = "cooldown" /\ cpc[c] \in Reporting
  BY DEF Report, Alive, ChildShape, Reporting
<1>3. ppc \notin {"fork", "enter", "ready", "start", "done"}
  BY <1>2, CoolPhase DEF Phases, NothingAsked
<1> QED
  BY <1>1, <1>3 DEF Counts

\* SIGTERM or a failure takes no child out of the two sets.
LEMMA EndCounts ==
  ASSUME TypeInv, Counts,
         UNCHANGED <<ppc, np, pi, response, need_warmup, state>>,
         \A d \in Children : cpc'[d] = cpc[d] \/ cpc'[d] = "zombie"
  PROVE  Counts'
<1>1. ReadySet' = ReadySet /\ AllReady' = AllReady
  BY DEF ReadySet, AllReady, Active
<1>2. DoneSet \subseteq DoneSet'
  BY DEF DoneSet
<1> QED
  BY <1>1, <1>2, CountsKept

----------------------------------------------------------------------------
(* The parent's steps.                                                     *)

\* A round begins with an empty pipe.
LEMMA EnterRoundCounts ==
  ASSUME EnterRound
  PROVE  Counts'
<1>1. Cardinality(ReadySet') \in Nat
  BY Subsets, CountFacts
<1>2. Len(response') = 0 /\ ppc' = "fork"
  BY EmptySeqFacts DEF EnterRound, Prepare
<1> QED
  BY <1>1, <1>2 DEF Counts

\* A new child is in neither of the sets.
LEMMA ForkChildCounts ==
  ASSUME TypeInv, Counts, ForkChild
  PROVE  Counts'
<1> USE DEF TypeInv, TypeOK
<1>1. pi + 1 \in Children /\ pi \in Nat
  BY Numbers DEF ForkChild, Children
<1>2. /\ need_warmup'[pi + 1]
      /\ \A d \in Children : d # pi + 1 => need_warmup'[d] = need_warmup[d]
  BY <1>1 DEF ForkChild, TypeChildren
<1>3. ppc = "fork" /\ ppc' = "fork" /\ pi' = pi + 1 /\ response' = response
  BY DEF ForkChild, pipes
<1>4. ReadySet' = ReadySet
  <2>1. ASSUME NEW d \in Children PROVE d <= pi + 1 /\ d # pi + 1 <=> d <= pi
    BY <1>1, ChildNumbers
  <2> QED
    BY <2>1, <1>1, <1>2, <1>3 DEF ReadySet
<1> QED
  BY <1>3, <1>4 DEF Counts

\* A new child has not been asked to report.
LEMMA ForkChildHanded ==
  ASSUME TypeInv, Sync, ForkChild
  PROVE  HandedOut'
<1> USE DEF TypeInv, TypeOK, Sync
<1>1. resultB = 0 /\ \A d \in Children : Alive(d) => state[d] = "warmup"
  BY DEF ForkChild, Phases, BeforeStart, Quiet
<1>2. \A d \in Children : cpc[d] \notin Reporting
  BY <1>1 DEF ChildShape, Reporting, Alive
<1>3. \A d \in Children : cpc'[d] \notin Reporting
  BY <1>2 DEF ForkChild, TypeChildren, Reporting
<1>4. resultB' = 0
  BY <1>1 DEF ForkChild, pipes
<1> QED
  BY <1>3, <1>4 DEF HandedOut

\* When the round is over no child is left that reports.
LEMMA FinishHanded ==
  ASSUME TypeInv, Sync, FinishRound
  PROVE  HandedOut'
<1> USE DEF TypeInv, TypeOK, Sync
<1>1. \A d \in Children : cpc[d] \notin Reporting
  BY DEF FinishRound, ForkedSoFar, LeftBehind, Waited, Reporting
<1>2. ppc' \in {"call", "returned"} /\ cpc' = cpc
  BY DEF FinishRound, children
<1> QED
  BY <1>1, <1>2 DEF HandedOut

\* The collection of the `ready' bytes begins at 0.
LEMMA EnterParentCounts ==
  ASSUME TypeInv, Counts, EnterParent
  PROVE  Counts'
<1> USE DEF TypeInv, TypeOK
<1>1. ppc = "enter" /\ UNCHANGED <<np, response, need_warmup>>
  BY DEF EnterParent, pipes, children
<1>2. CASE ppc' = "kill"
  BY <1>2 DEF Counts
<1>3. CASE ppc' = "ready" /\ pi' = 0
  <2>1. ReadySet' = ReadySet
    BY <1>1, <1>3 DEF ReadySet
  <2>2. Len(response) \in Nat
    BY DEF TypePipes
  <2> HIDE DEF TypeInv, TypeOK
  <2> QED
    BY <2>1, <2>2, <1>1, <1>3 DEF Counts
<1> QED
  BY <1>2, <1>3 DEF EnterParent, GiveUp

\* What a turn of the collecting loops does to the counts.
LEMMA CollectFacts ==
  ASSUME TypeInv, NEW here, NEW next, CollectBytes(here, next)
  PROVE  /\ ppc = here
         /\ UNCHANGED <<np, need_warmup, state, cpc>>
         /\ \/ pi = np /\ ppc' = next /\ pi' = 0 /\ response' = response
            \/ ppc' = "kill"
            \/ ppc' = ppc /\ pi' + Len(response') = pi + Len(response)
<1> USE DEF TypeInv, TypeOK
<1>1. ppc = here /\ UNCHANGED <<np, need_warmup, state, cpc>>
  BY DEF CollectBytes, children
<1> HIDE DEF TypeInv, TypeOK
<1>2. CASE AllAnswered
  BY <1>1, <1>2 DEF CollectBytes, AllAnswered
<1>3. CASE ~AllAnswered /\ Failed
  BY <1>1, <1>3 DEF CollectBytes, GiveUp
<1>4. CASE ~AllAnswered /\ ~Failed
  <2> DEFINE k == Available(np - pi)
  <2> USE DEF TypeInv, TypeOK
  <2>0. np - pi \in Nat
    BY Numbers
  <2>1. k \in 0..Len(response) /\ Len(response) \in Nat
    BY <2>0, AvailableFacts DEF TypePipes
  <2>2. Len(SubSeq(response, k + 1, Len(response))) = Len(response) - k
    BY <2>1, ReadFacts DEF TypePipes
  <2> HIDE DEF k
  <2>3. /\ ppc' = ppc /\ pi' = pi + k
        /\ response' = SubSeq(response, k + 1, Len(response))
    BY <1>4 DEF CollectBytes, k
  <2> QED
    BY <2>1, <2>2, <2>3, <1>1, Numbers
<1> QED
  BY <1>1, <1>2, <1>3, <1>4

\* When a byte of each child is counted, the `ready' set is all children.
LEMMA CollectReadyCounts ==
  ASSUME TypeInv, Counts, CollectReady
  PROVE  Counts'
<1> USE DEF TypeInv, TypeOK
<1>1. /\ ppc = "ready" /\ UNCHANGED <<np, need_warmup>>
      /\ \/ pi = np /\ ppc' = "start" /\ pi' = 0 /\ response' = response
         \/ ppc' = "kill"
         \/ ppc' = ppc /\ pi' + Len(response') = pi + Len(response)
  BY CollectFacts DEF CollectReady
<1>2. pi + Len(response) <= Cardinality(ReadySet)
  BY <1>1 DEF Counts
<1>3. Cardinality(ReadySet) \in Nat /\ Len(response) \in Nat
  BY Subsets, CountFacts DEF TypePipes
<1>4. CASE pi = np /\ ppc' = "start" /\ response' = response
  <2>1. np <= Cardinality(ReadySet)
    BY <1>2, <1>3, <1>4, Numbers
  <2>2. ReadySet = Active /\ AllReady
    BY <2>1, <1>1, ReadyInActive, AllCounted
  <2>3. Cardinality(Active) = np
    BY Numbers, FS_Interval DEF Active
  <2>4. Len(response') = 0
    BY <2>2, <2>3, <1>2, <1>3, <1>4, Numbers
  <2>5. AllReady'
    BY <2>2, <1>1 DEF AllReady, Active
  <2> QED
    BY <2>4, <2>5, <1>4 DEF Counts
<1>5. CASE ppc' = "kill"
  BY <1>5 DEF Counts
<1>6. CASE ppc' = ppc /\ pi' + Len(response') = pi + Len(response)
  <2>1. ReadySet' = ReadySet
    BY <1>1, <1>6 DEF ReadySet
  <2> HIDE DEF TypeInv, TypeOK
  <2> QED
    BY <2>1, <1>1, <1>2, <1>6 DEF Counts
<1> QED
  BY <1>1, <1>4, <1>5, <1>6

\* What the `done' bytes that are left bound.
LEMMA CollectDoneCounts ==
  ASSUME TypeInv, Counts, CollectDone
  PROVE  Counts'
<1> USE DEF TypeInv, TypeOK
<1>1. /\ ppc = "done" /\ UNCHANGED <<np, state, cpc>>
      /\ ppc' \in {"ask", "kill"} \/ (ppc' = ppc /\ pi' + Len(response') = pi + Len(response))
  BY CollectFacts DEF CollectDone
<1>2. DoneSet' = DoneSet
  BY <1>1 DEF DoneSet
<1> HIDE DEF TypeInv, TypeOK
<1> QED
  BY <1>1, <1>2 DEF Counts

\* When a byte of each child is counted, the `done' set is all children.
LEMMA CollectDoneCool ==
  ASSUME TypeInv, Counts, CollectDone
  PROVE  AfterDone'
<1> USE DEF TypeInv, TypeOK
<1>1. /\ ppc = "done" /\ UNCHANGED <<np, state>>
      /\ \/ pi = np /\ ppc' = "ask"
         \/ ppc' \in {"kill", "done"}
  BY CollectFacts DEF CollectDone
<1>2. CASE pi = np /\ ppc' = "ask"
  <2>1. np <= Cardinality(DoneSet)
    <3>1. pi + Len(response) <= Cardinality(DoneSet)
      BY <1>1 DEF Counts
    <3>2. Cardinality(DoneSet) \in Nat /\ Len(response) \in Nat
      BY Subsets, CountFacts DEF TypePipes
    <3> QED
      BY <3>1, <3>2, <1>2, Numbers
  <2>2. AllCool
    BY <2>1, DoneInActive, AllCounted
  <2> QED
    BY <2>2, <1>1 DEF AfterDone, AllCool, Active
<1>3. CASE ppc' \in {"kill", "done"}
  BY <1>3 DEF AfterDone
<1> QED
  BY <1>1, <1>2, <1>3

\* The start bytes are written when every child is ready.
LEMMA SendStartReady ==
  ASSUME TypeInv, Sync, SendStart, ppc' # "dead"
  PROVE  AfterStart' /\ NothingAsked' /\ Counts'
<1> USE DEF TypeInv, TypeOK, Sync
<1>1. /\ ppc = "start" /\ ppc' = "done" /\ pi' = 0
      /\ UNCHANGED <<np, open, response, resultB, need_warmup, state, cpc>>
  BY DEF SendStart, DieParent, children
<1>2. AllReady /\ Len(response) = 0 /\ open /\ Quiet
  BY <1>1 DEF Counts, Phases, BeforeStart
<1>3. AfterStart'
  BY <1>1, <1>2 DEF AfterStart, AllReady, Active
<1>4. NothingAsked'
  <2>1. \A c \in Children : cpc[c] \notin Reporting
    BY <1>2 DEF Quiet, Alive, ChildShape, Reporting
  <2> QED
    BY <2>1, <1>1, <1>2 DEF NothingAsked, Quiet
<1>5. Cardinality(DoneSet') \in Nat
  BY Subsets, CountFacts
<1>6. Counts'
  BY <1>1, <1>2, <1>5 DEF Counts
<1> QED
  BY <1>3, <1>4, <1>6

\* Giving up in the middle of a record leaves the loops over pids consistent.
LEMMA CollectResultForked ==
  ASSUME TypeInv, ForkedSoFar, CollectResult
  PROVE  ForkedSoFar'
<1> USE DEF TypeInv, TypeOK
<1>1. ppc = "collect" /\ UNCHANGED <<np, cpc>>
  BY DEF CollectResult, children
<1>2. ppc' \in {"ask", "collect"} \/ (ppc' = "kill" /\ pi' = 0)
  BY <1>1 DEF CollectResult, GiveUp
<1>3. ASSUME NEW d \in Children PROVE (LeftBehind(d) => Waited(d))'
  BY <1>1, <1>2, ChildNumbers DEF ForkedSoFar, LeftBehind, Waited
<1> QED
  BY <1>2, <1>3 DEF ForkedSoFar

\* The exit bytes are written when every child cools down.
LEMMA ReleaseReaping ==
  ASSUME TypeInv, Sync, Release
  PROVE  WhileReaping'
<1>1. AllCool
  BY DEF Release, Sync, Phases, AfterDone
<1>2. ~open' /\ UNCHANGED <<np, state>>
  BY DEF Release, children
<1> QED
  BY <1>1, <1>2 DEF WhileReaping, AllCool, Active

\* The loop of kills ends with no living child.
LEMMA KillReaping ==
  ASSUME TypeInv, Sync, Kill
  PROVE  WhileReaping'
<1> USE DEF TypeInv, TypeOK, Sync
<1>1. CASE pi < np
  BY <1>1 DEF Kill, WhileReaping
<1>2. CASE ~(pi < np)
  <2>1. ASSUME NEW c \in Children PROVE ~Alive(c)
    BY <1>2, Numbers, ChildNumbers DEF Kill, ForkedSoFar, LeftBehind, Waited, Alive
  <2>2. cpc' = cpc /\ ~open'
    BY <1>2 DEF Kill
  <2> QED
    BY <2>1, <2>2 DEF WhileReaping, Alive
<1> QED
  BY <1>1, <1>2

\* Every step of a living parent, of a child, or a fault keeps Sync: one step of
\* the proof for each action, and in it one for each part that it can disturb.
LEMMA SyncStep ==
  ASSUME TypeInv, Sync, ppc # "dead", [Next]_vars, TypeInv', ppc' # "dead"
  PROVE  Sync'
<1> USE Numbers DEF TypeInv, TypeOK, Sync
<1>1. CASE EnterRound
  <2>1. ForkedSoFar'
    <3>1. ASSUME NEW d \in Children PROVE (LeftBehind(d) => Waited(d))'
      BY <1>1, ChildNumbers DEF EnterRound, Prepare, children, ForkedSoFar,
         LeftBehind, Waited
    <3>2. ASSUME NEW d \in Children, (ppc \in {"fork", "enter"} /\ d <= pi)'
          PROVE  (cpc[d] # "none")'
      BY <1>1, <3>2, ChildNumbers DEF EnterRound, Prepare, children
    <3> QED
      BY <1>1, <3>1, <3>2 DEF EnterRound, ForkedSoFar
  <2>2. Phases'
    BY <1>1 DEF EnterRound, Prepare, children, Phases, BeforeStart,
       AfterStart, NothingAsked, AfterDone, WhileKilling, WhileReaping,
       HandedOut, Quiet, AllReady, AllCool, Active, Alive, ForkedSoFar,
       LeftBehind, Waited
  <2>3. Counts'
    BY <1>1, EnterRoundCounts
  <2>4. ChildShape'
    BY <1>1 DEF EnterRound, Prepare, children, ChildShape
  <2> QED
    BY <2>1, <2>2, <2>3, <2>4
<1>2. CASE PidsAllocFails
  <2>1. ForkedSoFar'
    <3>1. ASSUME NEW d \in Children PROVE (LeftBehind(d) => Waited(d))'
      BY <1>2, ChildNumbers DEF PidsAllocFails, Fault, Prepare, children,
         ForkedSoFar, LeftBehind, Waited
    <3>2. ASSUME NEW d \in Children, (ppc \in {"fork", "enter"} /\ d <= pi)'
          PROVE  (cpc[d] # "none")'
      BY <1>2, <3>2, ChildNumbers DEF PidsAllocFails, Fault, Prepare, children
    <3> QED
      BY <1>2, <3>1, <3>2 DEF PidsAllocFails, ForkedSoFar
  <2>2. Phases'
    BY <1>2 DEF PidsAllocFails, Fault, Prepare, children, Phases, BeforeStart,
       AfterStart, NothingAsked, AfterDone, WhileKilling, WhileReaping,
       HandedOut, AllReady, AllCool, Active
  <2>3. Counts'
    BY <1>2 DEF PidsAllocFails, Fault, Prepare, children, Counts, ReadySet,
       DoneSet
  <2>4. ChildShape'
    BY <1>2 DEF PidsAllocFails, Fault, Prepare, children, ChildShape
  <2> QED
    BY <2>1, <2>2, <2>3, <2>4
<1>3. CASE ForkChild
  <2>1. ForkedSoFar'
    <3>1. ASSUME NEW d \in Children PROVE (LeftBehind(d) => Waited(d))'
      BY <1>3, ChildNumbers DEF ForkChild, ForkedSoFar, LeftBehind, Waited
    <3>2. ASSUME NEW d \in Children, (ppc \in {"fork", "enter"} /\ d <= pi)'
          PROVE  (cpc[d] # "none")'
      BY <1>3, <3>2, ChildNumbers DEF ForkChild, ForkedSoFar, Waited,
         TypeChildren
    <3> QED
      BY <1>3, <3>1, <3>2 DEF ForkChild, ForkedSoFar
  <2>2. ChildShape'
    BY <1>3 DEF ForkChild, ChildShape, Reporting, TypeChildren
  <2>3. Phases'
    <3>1. BeforeStart'
      BY <1>3 DEF ForkChild, pipes, Phases, BeforeStart, AfterStart,
         NothingAsked, AfterDone, WhileKilling, WhileReaping, HandedOut,
         Quiet, Alive, TypeChildren
    <3>2. AfterStart'
      BY <1>3 DEF ForkChild, Phases, BeforeStart, AfterStart, NothingAsked,
         AfterDone, WhileKilling, WhileReaping, HandedOut
    <3>3. NothingAsked'
      BY <1>3 DEF ForkChild, Phases, BeforeStart, AfterStart, NothingAsked,
         AfterDone, WhileKilling, WhileReaping, HandedOut
    <3>4. AfterDone'
      BY <1>3 DEF ForkChild, Phases, BeforeStart, AfterStart, NothingAsked,
         AfterDone, WhileKilling, WhileReaping, HandedOut
    <3>5. WhileKilling'
      BY <1>3 DEF ForkChild, Phases, BeforeStart, AfterStart, NothingAsked,
         AfterDone, WhileKilling, WhileReaping, HandedOut
    <3>6. WhileReaping'
      BY <1>3 DEF ForkChild, Phases, BeforeStart, AfterStart, NothingAsked,
         AfterDone, WhileKilling, WhileReaping, HandedOut
    <3>7. HandedOut'
      BY <1>3, ForkChildHanded
    <3> QED
      BY <3>1, <3>2, <3>3, <3>4, <3>5, <3>6, <3>7 DEF Phases
  <2>4. Counts'
    BY <1>3, ForkChildCounts
  <2> QED
    BY <2>1, <2>2, <2>3, <2>4
<1>4. CASE ForkStops
  <2>1. ForkedSoFar'
    <3>1. ASSUME NEW d \in Children PROVE (LeftBehind(d) => Waited(d))'
      BY <1>4, ChildNumbers DEF ForkStops, children, Fault, ForkedSoFar,
         LeftBehind, Waited
    <3>2. ASSUME NEW d \in Children, (ppc \in {"fork", "enter"} /\ d <= pi)'
          PROVE  (cpc[d] # "none")'
      BY <1>4, <3>2, ChildNumbers DEF ForkStops, children, Fault
    <3> QED
      BY <1>4, <3>1, <3>2 DEF ForkStops, ForkedSoFar
  <2>2. Phases'
    BY <1>4 DEF ForkStops, pipes, children, Fault, Phases, BeforeStart,
       AfterStart, NothingAsked, AfterDone, WhileKilling, WhileReaping,
       HandedOut, Quiet, AllReady, AllCool, Active, Alive
  <2>3. Counts'
    BY <1>4 DEF ForkStops, children, Fault, Counts, ReadySet, DoneSet
  <2>4. ChildShape'
    BY <1>4 DEF ForkStops, children, Fault, ChildShape
  <2> QED
    BY <2>1, <2>2, <2>3, <2>4
<1>5. CASE ForkEnds
  <2>1. ForkedSoFar'
    <3>1. ASSUME NEW d \in Children PROVE (LeftBehind(d) => Waited(d))'
      BY <1>5, ChildNumbers DEF ForkEnds, children, ForkedSoFar, LeftBehind,
         Waited
    <3>2. ASSUME NEW d \in Children, (ppc \in {"fork", "enter"} /\ d <= pi)'
          PROVE  (cpc[d] # "none")'
      BY <1>5, <3>2, ChildNumbers DEF ForkEnds, children, ForkedSoFar
    <3> QED
      BY <1>5, <3>1, <3>2 DEF ForkEnds, ForkedSoFar
  <2>2. Phases'
    BY <1>5 DEF ForkEnds, pipes, children, Phases, BeforeStart, AfterStart,
       NothingAsked, AfterDone, WhileKilling, WhileReaping, HandedOut, Quiet,
       AllReady, AllCool, Active, Alive
  <2>3. Counts'
    BY <1>5 DEF ForkEnds, pipes, children, Counts, ReadySet, DoneSet
  <2>4. ChildShape'
    BY <1>5 DEF ForkEnds, children, ChildShape
  <2> QED
    BY <2>1, <2>2, <2>3, <2>4
<1>6. CASE ForkKill
  <2>1. ForkedSoFar'
    <3>1. ASSUME NEW d \in Children PROVE (LeftBehind(d) => Waited(d))'
      BY <1>6, ChildNumbers DEF ForkKill, ForkedSoFar, LeftBehind, Waited
    <3>2. ASSUME NEW d \in Children, (ppc \in {"fork", "enter"} /\ d <= pi)'
          PROVE  (cpc[d] # "none")'
      BY <1>6, <3>2, ChildNumbers DEF ForkKill
    <3> QED
      BY <1>6, <3>1, <3>2 DEF ForkKill, ForkedSoFar
  <2>2. Phases'
    BY <1>6 DEF ForkKill, pipes, childState, Alive, Phases, BeforeStart,
       AfterStart, NothingAsked, AfterDone, WhileKilling, WhileReaping,
       HandedOut, Quiet, AllReady, AllCool, Active
  <2>3. Counts'
    BY <1>6 DEF ForkKill, Counts, ReadySet, DoneSet
  <2>4. ChildShape'
    BY <1>6 DEF ForkKill, childState, ChildShape
  <2> QED
    BY <2>1, <2>2, <2>3, <2>4
<1>7. CASE ForkWait
  <2>1. ForkedSoFar'
    <3>1. ASSUME NEW d \in Children PROVE (LeftBehind(d) => Waited(d))'
      BY <1>7, ChildNumbers DEF ForkWait, ForkedSoFar, LeftBehind, Waited,
         TypeChildren
    <3>2. ASSUME NEW d \in Children, (ppc \in {"fork", "enter"} /\ d <= pi)'
          PROVE  (cpc[d] # "none")'
      BY <1>7, <3>2, ChildNumbers DEF ForkWait
    <3> QED
      BY <1>7, <3>1, <3>2 DEF ForkWait, ForkedSoFar
  <2>2. ChildShape'
    BY <1>7 DEF ForkWait, childState, ChildShape, Reporting
  <2>3. Phases'
    BY <1>7 DEF ForkWait, pipes, childState, Phases, BeforeStart, AfterStart,
       NothingAsked, AfterDone, WhileKilling, WhileReaping, HandedOut, Quiet,
       AllReady, AllCool, Active, Alive, Reporting
  <2>4. Counts'
    BY <1>7 DEF ForkWait, Counts, ReadySet, DoneSet
  <2> QED
    BY <2>1, <2>2, <2>3, <2>4
<1>8. CASE Reap
  <2>1. ForkedSoFar'
    <3>1. ASSUME NEW d \in Children PROVE (LeftBehind(d) => Waited(d))'
      BY <1>8, ChildNumbers DEF Reap, Dead, ForkedSoFar, LeftBehind, Waited,
         TypeChildren
    <3>2. ASSUME NEW d \in Children, (ppc \in {"fork", "enter"} /\ d <= pi)'
          PROVE  (cpc[d] # "none")'
      BY <1>8, <3>2, ChildNumbers DEF Reap, Dead
    <3> QED
      BY <1>8, <3>1, <3>2 DEF Reap, ForkedSoFar
  <2>2. ChildShape'
    BY <1>8 DEF Reap, childState, Dead, ChildShape, Reporting
  <2>3. Phases'
    BY <1>8 DEF Reap, pipes, childState, Dead, Phases, BeforeStart,
       AfterStart, NothingAsked, AfterDone, WhileKilling, WhileReaping,
       HandedOut, Quiet, AllReady, AllCool, Active, Alive, Reporting
  <2>4. Counts'
    BY <1>8 DEF Reap, Dead, Counts, ReadySet, DoneSet
  <2> QED
    BY <2>1, <2>2, <2>3, <2>4
<1>9. CASE ReapEnds
  <2>1. ForkedSoFar'
    <3>1. ASSUME NEW d \in Children PROVE (LeftBehind(d) => Waited(d))'
      BY <1>9, ChildNumbers DEF ReapEnds, children, ForkedSoFar, LeftBehind,
         Waited
    <3>2. ASSUME NEW d \in Children, (ppc \in {"fork", "enter"} /\ d <= pi)'
          PROVE  (cpc[d] # "none")'
      BY <1>9, <3>2, ChildNumbers DEF ReapEnds, children
    <3> QED
      BY <1>9, <3>1, <3>2 DEF ReapEnds, ForkedSoFar
  <2>2. Phases'
    BY <1>9 DEF ReapEnds, children, Phases, BeforeStart, AfterStart,
       NothingAsked, AfterDone, WhileKilling, WhileReaping, HandedOut,
       AllReady, AllCool, Active
  <2>3. Counts'
    BY <1>9 DEF ReapEnds, children, Counts, ReadySet, DoneSet
  <2>4. ChildShape'
    BY <1>9 DEF ReapEnds, children, ChildShape
  <2> QED
    BY <2>1, <2>2, <2>3, <2>4
<1>10. CASE FinishRound
  <2>1. ForkedSoFar'
    <3>1. ASSUME NEW d \in Children PROVE (LeftBehind(d) => Waited(d))'
      BY <1>10, ChildNumbers DEF FinishRound, children, ForkedSoFar,
         LeftBehind, Waited
    <3>2. ASSUME NEW d \in Children, (ppc \in {"fork", "enter"} /\ d <= pi)'
          PROVE  (cpc[d] # "none")'
      BY <1>10, <3>2, ChildNumbers DEF FinishRound, children
    <3> QED
      BY <1>10, <3>1, <3>2 DEF FinishRound, ForkedSoFar
  <2>2. Phases'
    <3>1. BeforeStart'
      BY <1>10 DEF FinishRound, children, Phases, BeforeStart, AfterStart,
         NothingAsked, AfterDone, WhileKilling, WhileReaping, HandedOut
    <3>2. AfterStart'
      BY <1>10 DEF FinishRound, children, Phases, BeforeStart, AfterStart,
         NothingAsked, AfterDone, WhileKilling, WhileReaping, HandedOut
    <3>3. NothingAsked'
      BY <1>10 DEF FinishRound, children, Phases, BeforeStart, AfterStart,
         NothingAsked, AfterDone, WhileKilling, WhileReaping, HandedOut
    <3>4. AfterDone'
      BY <1>10 DEF FinishRound, children, Phases, BeforeStart, AfterStart,
         NothingAsked, AfterDone, WhileKilling, WhileReaping, HandedOut
    <3>5. WhileKilling'
      BY <1>10 DEF FinishRound, children, Phases, BeforeStart, AfterStart,
         NothingAsked, AfterDone, WhileKilling, WhileReaping, HandedOut
    <3>6. WhileReaping'
      BY <1>10 DEF FinishRound, children, Phases, BeforeStart, AfterStart,
         NothingAsked, AfterDone, WhileKilling, WhileReaping, HandedOut
    <3>7. HandedOut'
      BY <1>10, FinishHanded
    <3> QED
      BY <3>1, <3>2, <3>3, <3>4, <3>5, <3>6, <3>7 DEF Phases
  <2>3. Counts'
    BY <1>10 DEF FinishRound, children, Counts, ReadySet, DoneSet
  <2>4. ChildShape'
    BY <1>10 DEF FinishRound, children, ChildShape
  <2> QED
    BY <2>1, <2>2, <2>3, <2>4
<1>11. CASE EnterParent
  <2>1. ForkedSoFar'
    <3>1. ASSUME NEW d \in Children PROVE (LeftBehind(d) => Waited(d))'
      BY <1>11, ChildNumbers DEF EnterParent, children, Failed, GiveUp,
         ForkedSoFar, LeftBehind, Waited
    <3>2. ASSUME NEW d \in Children, (ppc \in {"fork", "enter"} /\ d <= pi)'
          PROVE  (cpc[d] # "none")'
      BY <1>11, <3>2, ChildNumbers DEF EnterParent, children, Failed, GiveUp
    <3> QED
      BY <1>11, <3>1, <3>2 DEF EnterParent, GiveUp, ForkedSoFar
  <2>2. Phases'
    BY <1>11 DEF EnterParent, pipes, children, Failed, GiveUp, Phases,
       BeforeStart, AfterStart, NothingAsked, AfterDone, WhileKilling,
       WhileReaping, HandedOut, Quiet, AllReady, AllCool, Active, Alive
  <2>3. Counts'
    BY <1>11, EnterParentCounts
  <2>4. ChildShape'
    BY <1>11 DEF EnterParent, children, Failed, GiveUp, ChildShape
  <2> QED
    BY <2>1, <2>2, <2>3, <2>4
<1>12. CASE CollectReady
  <2>1. ForkedSoFar'
    <3>1. ASSUME NEW d \in Children PROVE (LeftBehind(d) => Waited(d))'
      BY <1>12, ChildNumbers DEF CollectReady, CollectBytes, children, Failed,
         GiveUp, Available, AllAnswered, ForkedSoFar, LeftBehind, Waited
    <3>2. ASSUME NEW d \in Children, (ppc \in {"fork", "enter"} /\ d <= pi)'
          PROVE  (cpc[d] # "none")'
      BY <1>12, <3>2, ChildNumbers DEF CollectReady, CollectBytes, children,
         Failed, GiveUp, Available, AllAnswered
    <3> QED
      BY <1>12, <3>1, <3>2 DEF CollectReady, CollectBytes, children, Failed,
         GiveUp, ForkedSoFar
  <2>2. Phases'
    BY <1>12 DEF CollectReady, CollectBytes, signalB, children, Failed,
       GiveUp, Available, AllAnswered, Phases, BeforeStart, AfterStart,
       NothingAsked, AfterDone, WhileKilling, WhileReaping, HandedOut, Quiet,
       AllReady, AllCool, Active, Alive
  <2>3. Counts'
    BY <1>12, CollectReadyCounts
  <2>4. ChildShape'
    BY <1>12 DEF CollectReady, CollectBytes, children, Failed, GiveUp,
       Available, AllAnswered, ChildShape
  <2> QED
    BY <2>1, <2>2, <2>3, <2>4
<1>13. CASE SendStart
  <2>1. ForkedSoFar'
    <3>1. ASSUME NEW d \in Children PROVE (LeftBehind(d) => Waited(d))'
      BY <1>13, ChildNumbers DEF SendStart, children, DieParent, ForkedSoFar,
         LeftBehind, Waited
    <3>2. ASSUME NEW d \in Children, (ppc \in {"fork", "enter"} /\ d <= pi)'
          PROVE  (cpc[d] # "none")'
      BY <1>13, <3>2, ChildNumbers DEF SendStart, children, DieParent
    <3> QED
      BY <1>13, <3>1, <3>2 DEF SendStart, children, DieParent, ForkedSoFar
  <2>2. Phases'
    <3>1. BeforeStart'
      BY <1>13 DEF SendStart, children, DieParent, Phases, BeforeStart,
         AfterStart, NothingAsked, AfterDone, WhileKilling, WhileReaping,
         HandedOut
    <3>2. AfterStart'
      BY <1>13, SendStartReady
    <3>3. NothingAsked'
      BY <1>13, SendStartReady
    <3>4. AfterDone'
      BY <1>13 DEF SendStart, children, DieParent, Phases, BeforeStart,
         AfterStart, NothingAsked, AfterDone, WhileKilling, WhileReaping,
         HandedOut
    <3>5. WhileKilling'
      BY <1>13 DEF SendStart, children, DieParent, Phases, BeforeStart,
         AfterStart, NothingAsked, AfterDone, WhileKilling, WhileReaping,
         HandedOut
    <3>6. WhileReaping'
      BY <1>13 DEF SendStart, children, DieParent, Phases, BeforeStart,
         AfterStart, NothingAsked, AfterDone, WhileKilling, WhileReaping,
         HandedOut
    <3>7. HandedOut'
      BY <1>13 DEF SendStart, children, DieParent, Active, Phases,
         BeforeStart, AfterStart, NothingAsked, AfterDone, WhileKilling,
         WhileReaping, HandedOut, AllReady, AllCool
    <3> QED
      BY <3>1, <3>2, <3>3, <3>4, <3>5, <3>6, <3>7 DEF Phases
  <2>3. Counts'
    BY <1>13, SendStartReady
  <2>4. ChildShape'
    BY <1>13 DEF SendStart, children, DieParent, ChildShape
  <2> QED
    BY <2>1, <2>2, <2>3, <2>4
<1>14. CASE CollectDone
  <2>1. ForkedSoFar'
    <3>1. ASSUME NEW d \in Children PROVE (LeftBehind(d) => Waited(d))'
      BY <1>14, ChildNumbers DEF CollectDone, CollectBytes, children, Failed,
         GiveUp, Available, AllAnswered, ForkedSoFar, LeftBehind, Waited
    <3>2. ASSUME NEW d \in Children, (ppc \in {"fork", "enter"} /\ d <= pi)'
          PROVE  (cpc[d] # "none")'
      BY <1>14, <3>2, ChildNumbers DEF CollectDone, CollectBytes, children,
         Failed, GiveUp, Available, AllAnswered
    <3> QED
      BY <1>14, <3>1, <3>2 DEF CollectDone, CollectBytes, children, Failed,
         GiveUp, ForkedSoFar
  <2>2. Phases'
    <3>1. BeforeStart'
      BY <1>14 DEF CollectDone, CollectBytes, children, Failed, GiveUp,
         Available, AllAnswered, Phases, BeforeStart, AfterStart,
         NothingAsked, AfterDone, WhileKilling, WhileReaping, HandedOut
    <3>2. AfterStart'
      BY <1>14 DEF CollectDone, CollectBytes, children, Failed, GiveUp,
         Available, AllAnswered, Phases, BeforeStart, AfterStart,
         NothingAsked, AfterDone, WhileKilling, WhileReaping, HandedOut,
         AllReady, AllCool, Active
    <3>3. NothingAsked'
      BY <1>14 DEF CollectDone, CollectBytes, signalB, children, Failed,
         GiveUp, Available, AllAnswered, Phases, BeforeStart, AfterStart,
         NothingAsked, AfterDone, WhileKilling, WhileReaping, HandedOut
    <3>4. AfterDone'
      BY <1>14, CollectDoneCool
    <3>5. WhileKilling'
      BY <1>14 DEF CollectDone, CollectBytes, children, Failed, GiveUp,
         Available, AllAnswered, Phases, BeforeStart, AfterStart,
         NothingAsked, AfterDone, WhileKilling, WhileReaping, HandedOut,
         AllReady, AllCool, Active
    <3>6. WhileReaping'
      BY <1>14 DEF CollectDone, CollectBytes, children, Failed, GiveUp,
         Available, AllAnswered, Phases, BeforeStart, AfterStart,
         NothingAsked, AfterDone, WhileKilling, WhileReaping, HandedOut
    <3>7. HandedOut'
      BY <1>14 DEF CollectDone, CollectBytes, signalB, children, Failed,
         GiveUp, Available, AllAnswered, Phases, BeforeStart, AfterStart,
         NothingAsked, AfterDone, WhileKilling, WhileReaping, HandedOut
    <3> QED
      BY <3>1, <3>2, <3>3, <3>4, <3>5, <3>6, <3>7 DEF Phases
  <2>3. Counts'
    BY <1>14, CollectDoneCounts
  <2>4. ChildShape'
    BY <1>14 DEF CollectDone, CollectBytes, children, Failed, GiveUp,
       Available, AllAnswered, ChildShape
  <2> QED
    BY <2>1, <2>2, <2>3, <2>4
<1>15. CASE AskOne
  <2>1. ForkedSoFar'
    <3>1. ASSUME NEW d \in Children PROVE (LeftBehind(d) => Waited(d))'
      BY <1>15, ChildNumbers DEF AskOne, children, DieParent, ForkedSoFar,
         LeftBehind, Waited
    <3>2. ASSUME NEW d \in Children, (ppc \in {"fork", "enter"} /\ d <= pi)'
          PROVE  (cpc[d] # "none")'
      BY <1>15, <3>2, ChildNumbers DEF AskOne, children, DieParent
    <3> QED
      BY <1>15, <3>1, <3>2 DEF AskOne, children, DieParent, ForkedSoFar
  <2>2. Phases'
    BY <1>15 DEF AskOne, children, DieParent, Active, Phases, BeforeStart,
       AfterStart, NothingAsked, AfterDone, WhileKilling, WhileReaping,
       HandedOut, AllReady, AllCool
  <2>3. Counts'
    BY <1>15 DEF AskOne, children, DieParent, Counts, ReadySet, DoneSet
  <2>4. ChildShape'
    BY <1>15 DEF AskOne, children, DieParent, ChildShape
  <2> QED
    BY <2>1, <2>2, <2>3, <2>4
<1>16. CASE CollectResult
  <2>1. ForkedSoFar'
    BY <1>16, CollectResultForked
  <2>2. Phases'
    BY <1>16 DEF CollectResult, children, Failed, GiveUp, Available,
       RecordRead, Phases, BeforeStart, AfterStart, NothingAsked, AfterDone,
       WhileKilling, WhileReaping, HandedOut, AllReady, AllCool, Active
  <2>3. Counts'
    BY <1>16 DEF CollectResult, children, Failed, GiveUp, Available,
       RecordRead, Counts, ReadySet, DoneSet
  <2>4. ChildShape'
    BY <1>16 DEF CollectResult, children, Failed, GiveUp, Available,
       RecordRead, ChildShape
  <2> QED
    BY <2>1, <2>2, <2>3, <2>4
<1>17. CASE Release
  <2>1. ForkedSoFar'
    <3>1. ASSUME NEW d \in Children PROVE (LeftBehind(d) => Waited(d))'
      BY <1>17, ChildNumbers DEF Release, children, ForkedSoFar, LeftBehind,
         Waited
    <3>2. ASSUME NEW d \in Children, (ppc \in {"fork", "enter"} /\ d <= pi)'
          PROVE  (cpc[d] # "none")'
      BY <1>17, <3>2, ChildNumbers DEF Release, children
    <3> QED
      BY <1>17, <3>1, <3>2 DEF Release, children, ForkedSoFar
  <2>2. Phases'
    <3>1. BeforeStart'
      BY <1>17 DEF Release, children, Phases, BeforeStart, AfterStart,
         NothingAsked, AfterDone, WhileKilling, WhileReaping, HandedOut
    <3>2. AfterStart'
      BY <1>17 DEF Release, children, Phases, BeforeStart, AfterStart,
         NothingAsked, AfterDone, WhileKilling, WhileReaping, HandedOut
    <3>3. NothingAsked'
      BY <1>17 DEF Release, children, Phases, BeforeStart, AfterStart,
         NothingAsked, AfterDone, WhileKilling, WhileReaping, HandedOut
    <3>4. AfterDone'
      BY <1>17 DEF Release, children, Phases, BeforeStart, AfterStart,
         NothingAsked, AfterDone, WhileKilling, WhileReaping, HandedOut
    <3>5. WhileKilling'
      BY <1>17 DEF Release, children, Phases, BeforeStart, AfterStart,
         NothingAsked, AfterDone, WhileKilling, WhileReaping, HandedOut
    <3>6. WhileReaping'
      BY <1>17, ReleaseReaping
    <3>7. HandedOut'
      BY <1>17 DEF Release, children, Active, Phases, BeforeStart, AfterStart,
         NothingAsked, AfterDone, WhileKilling, WhileReaping, HandedOut,
         AllReady, AllCool
    <3> QED
      BY <3>1, <3>2, <3>3, <3>4, <3>5, <3>6, <3>7 DEF Phases
  <2>3. Counts'
    BY <1>17 DEF Release, children, Counts, ReadySet, DoneSet
  <2>4. ChildShape'
    BY <1>17 DEF Release, children, ChildShape
  <2> QED
    BY <2>1, <2>2, <2>3, <2>4
<1>18. CASE Kill
  <2>1. ForkedSoFar'
    <3>1. ASSUME NEW d \in Children PROVE (LeftBehind(d) => Waited(d))'
      BY <1>18, ChildNumbers DEF Kill, ForkedSoFar, LeftBehind, Waited
    <3>2. ASSUME NEW d \in Children, (ppc \in {"fork", "enter"} /\ d <= pi)'
          PROVE  (cpc[d] # "none")'
      BY <1>18, <3>2, ChildNumbers DEF Kill
    <3> QED
      BY <1>18, <3>1, <3>2 DEF Kill, ForkedSoFar
  <2>2. Phases'
    <3>1. BeforeStart'
      BY <1>18 DEF Kill, Phases, BeforeStart, AfterStart, NothingAsked,
         AfterDone, WhileKilling, WhileReaping, HandedOut
    <3>2. AfterStart'
      BY <1>18 DEF Kill, Phases, BeforeStart, AfterStart, NothingAsked,
         AfterDone, WhileKilling, WhileReaping, HandedOut
    <3>3. NothingAsked'
      BY <1>18 DEF Kill, Phases, BeforeStart, AfterStart, NothingAsked,
         AfterDone, WhileKilling, WhileReaping, HandedOut
    <3>4. AfterDone'
      BY <1>18 DEF Kill, Phases, BeforeStart, AfterStart, NothingAsked,
         AfterDone, WhileKilling, WhileReaping, HandedOut
    <3>5. WhileKilling'
      BY <1>18 DEF Kill, signalB, childState, Alive, Phases, BeforeStart,
         AfterStart, NothingAsked, AfterDone, WhileKilling, WhileReaping,
         HandedOut, Quiet, AllReady, AllCool, Active
    <3>6. WhileReaping'
      BY <1>18, KillReaping
    <3>7. HandedOut'
      BY <1>18 DEF Kill, signalB, childState, Phases, BeforeStart, AfterStart,
         NothingAsked, AfterDone, WhileKilling, WhileReaping, HandedOut,
         AllReady, AllCool, Active
    <3> QED
      BY <3>1, <3>2, <3>3, <3>4, <3>5, <3>6, <3>7 DEF Phases
  <2>3. Counts'
    BY <1>18 DEF Kill, Counts, ReadySet, DoneSet
  <2>4. ChildShape'
    BY <1>18 DEF Kill, childState, ChildShape
  <2> QED
    BY <2>1, <2>2, <2>3, <2>4
<1>19. CASE KillWait
  <2>1. ForkedSoFar'
    <3>1. ASSUME NEW d \in Children PROVE (LeftBehind(d) => Waited(d))'
      BY <1>19, ChildNumbers DEF KillWait, termVars, chldVars, childSig,
         ForkedSoFar, LeftBehind, Waited, TypeChildren
    <3>2. ASSUME NEW d \in Children, (ppc \in {"fork", "enter"} /\ d <= pi)'
          PROVE  (cpc[d] # "none")'
      BY <1>19, <3>2, ChildNumbers DEF KillWait
    <3> QED
      BY <1>19, <3>1, <3>2 DEF KillWait, ForkedSoFar
  <2>2. ChildShape'
    BY <1>19 DEF KillWait, childState, ChildShape, Reporting
  <2>3. Phases'
    BY <1>19 DEF KillWait, pipes, childState, Phases, BeforeStart, AfterStart,
       NothingAsked, AfterDone, WhileKilling, WhileReaping, HandedOut, Quiet,
       AllReady, AllCool, Active, Alive, Reporting
  <2>4. Counts'
    BY <1>19 DEF KillWait, Counts, ReadySet, DoneSet
  <2> QED
    BY <2>1, <2>2, <2>3, <2>4
<1>20. CASE AlarmRings
  <2>1. ForkedSoFar'
    <3>1. ASSUME NEW d \in Children PROVE (LeftBehind(d) => Waited(d))'
      BY <1>20, ChildNumbers DEF AlarmRings, ForkedSoFar, LeftBehind, Waited
    <3>2. ASSUME NEW d \in Children, (ppc \in {"fork", "enter"} /\ d <= pi)'
          PROVE  (cpc[d] # "none")'
      BY <1>20, <3>2, ChildNumbers DEF AlarmRings
    <3> QED
      BY <1>20, <3>1, <3>2 DEF AlarmRings, ForkedSoFar
  <2>2. Phases'
    BY <1>20 DEF AlarmRings, pipes, childState, Alive, Phases, BeforeStart,
       AfterStart, NothingAsked, AfterDone, WhileKilling, WhileReaping,
       HandedOut, Quiet, AllReady, AllCool, Active
  <2>3. Counts'
    BY <1>20 DEF AlarmRings, Counts, ReadySet, DoneSet
  <2>4. ChildShape'
    BY <1>20 DEF AlarmRings, childState, ChildShape
  <2> QED
    BY <2>1, <2>2, <2>3, <2>4
<1>21. CASE PipeFails
  <2>1. ForkedSoFar'
    <3>1. ASSUME NEW d \in Children PROVE (LeftBehind(d) => Waited(d))'
      BY <1>21, ChildNumbers DEF PipeFails, children, Fault, ForkedSoFar,
         LeftBehind, Waited
    <3>2. ASSUME NEW d \in Children, (ppc \in {"fork", "enter"} /\ d <= pi)'
          PROVE  (cpc[d] # "none")'
      BY <1>21, <3>2, ChildNumbers DEF PipeFails, children, Fault
    <3> QED
      BY <1>21, <3>1, <3>2 DEF PipeFails, ForkedSoFar
  <2>2. Phases'
    BY <1>21 DEF PipeFails, children, Fault, Phases, BeforeStart, AfterStart,
       NothingAsked, AfterDone, WhileKilling, WhileReaping, HandedOut,
       AllReady, AllCool, Active
  <2>3. Counts'
    BY <1>21 DEF PipeFails, children, Fault, Counts, ReadySet, DoneSet
  <2>4. ChildShape'
    BY <1>21 DEF PipeFails, children, Fault, ChildShape
  <2> QED
    BY <2>1, <2>2, <2>3, <2>4
<1>22. CASE ResultsAllocFails
  <2>1. ForkedSoFar'
    <3>1. ASSUME NEW d \in Children PROVE (LeftBehind(d) => Waited(d))'
      BY <1>22, ChildNumbers DEF ResultsAllocFails, children, Fault, Failed,
         ForkedSoFar, LeftBehind, Waited
    <3>2. ASSUME NEW d \in Children, (ppc \in {"fork", "enter"} /\ d <= pi)'
          PROVE  (cpc[d] # "none")'
      BY <1>22, <3>2, ChildNumbers DEF ResultsAllocFails, children, Fault,
         Failed
    <3> QED
      BY <1>22, <3>1, <3>2 DEF ResultsAllocFails, ForkedSoFar
  <2>2. Phases'
    BY <1>22 DEF ResultsAllocFails, pipes, children, Fault, Failed, Phases,
       BeforeStart, AfterStart, NothingAsked, AfterDone, WhileKilling,
       WhileReaping, HandedOut, Quiet, AllReady, AllCool, Active, Alive
  <2>3. Counts'
    BY <1>22 DEF ResultsAllocFails, children, Fault, Failed, Counts, ReadySet,
       DoneSet
  <2>4. ChildShape'
    BY <1>22 DEF ResultsAllocFails, children, Fault, Failed, ChildShape
  <2> QED
    BY <2>1, <2>2, <2>3, <2>4
<1>23. CASE UserTerm
  <2>1. ForkedSoFar' /\ ChildShape' /\ Phases' /\ Counts'
    BY <1>23 DEF UserTerm, parentVars, pipes, children, Fault, ForkedSoFar,
       LeftBehind, Waited, ChildShape, Reporting, Phases, BeforeStart,
       AfterStart, NothingAsked, AfterDone, WhileKilling, WhileReaping,
       HandedOut, Quiet, AllReady, AllCool, Active, Alive, Counts, ReadySet,
       DoneSet
  <2> QED
    BY <2>1
<1>24. CASE ParentDies
  <2>1. ForkedSoFar'
    <3>1. ASSUME NEW d \in Children PROVE (LeftBehind(d) => Waited(d))'
      BY <1>24, ChildNumbers DEF ParentDies, children, Fault, DieParent
    <3>2. ASSUME NEW d \in Children, (ppc \in {"fork", "enter"} /\ d <= pi)'
          PROVE  (cpc[d] # "none")'
      BY <1>24, <3>2, ChildNumbers DEF ParentDies, children, Fault, DieParent
    <3> QED
      BY <1>24, <3>1, <3>2 DEF ParentDies, DieParent
  <2>2. Phases'
    BY <1>24 DEF ParentDies, children, Fault, DieParent, Phases, BeforeStart,
       AfterStart, NothingAsked, AfterDone, WhileKilling, WhileReaping,
       HandedOut
  <2>3. Counts'
    BY <1>24 DEF ParentDies, children, Fault, DieParent, Counts, ReadySet,
       DoneSet
  <2>4. ChildShape'
    BY <1>24 DEF ParentDies, children, Fault, DieParent
  <2> QED
    BY <2>1, <2>2, <2>3, <2>4
<1>25. ASSUME NEW c \in Children, StartChild(c) PROVE Sync'
  <2>1. ForkedSoFar'
    BY <1>25, ForkedKept DEF StartChild, ExitChild, Goto, ParentIdle,
       parentVars, TypeChildren, Alive
  <2>2. ChildShape'
    BY <1>25 DEF StartChild, childState, ExitChild, Goto, ParentIdle,
       parentVars, ChildShape, Reporting, TypeChildren
  <2>3. Phases'
    BY <1>25 DEF StartChild, pipes, childState, ExitChild, Goto, ParentIdle,
       parentVars, Phases, BeforeStart, AfterStart, NothingAsked, AfterDone,
       WhileKilling, WhileReaping, HandedOut, Quiet, AllReady, AllCool,
       Active, Alive, Reporting, TypeChildren
  <2>4. Counts'
    BY <1>25, ChildCounts DEF StartChild, pipes, childState, ExitChild, Goto,
       ParentIdle, parentVars, TypeChildren
  <2> QED
    BY <2>1, <2>2, <2>3, <2>4
<1>26. ASSUME NEW c \in Children, StopInterval(c) PROVE Sync'
  <2>1. ForkedSoFar'
    BY <1>26, ForkedKept DEF StopInterval, Goto, ParentIdle, parentVars, Alive
  <2>2. ChildShape'
    BY <1>26 DEF StopInterval, childState, Goto, ParentIdle, parentVars,
       ChildShape, Reporting
  <2>3. Phases'
    BY <1>26 DEF StopInterval, pipes, childState, Goto, ParentIdle,
       parentVars, Phases, BeforeStart, AfterStart, NothingAsked, AfterDone,
       WhileKilling, WhileReaping, HandedOut, Quiet, AllReady, AllCool,
       Active, Alive, Reporting
  <2>4. Counts'
    BY <1>26 DEF StopInterval, pipes, childState, Goto, ParentIdle,
       parentVars, Counts, ReadySet, DoneSet, AllReady, Active, TypeChildren
  <2> QED
    BY <2>1, <2>2, <2>3, <2>4
<1>27. ASSUME NEW c \in Children, OrphanExits(c) PROVE Sync'
  <2>1. ForkedSoFar'
    BY <1>27, ForkedKept DEF OrphanExits, ExitChild
  <2>2. ChildShape'
    BY <1>27 DEF OrphanExits, ExitChild, ParentIdle, parentVars
  <2>3. Phases'
    BY <1>27 DEF OrphanExits, ExitChild, ParentIdle, parentVars, Phases,
       BeforeStart, AfterStart, NothingAsked, AfterDone, WhileKilling,
       WhileReaping, HandedOut
  <2>4. Counts'
    BY <1>27 DEF OrphanExits, ExitChild, ParentIdle, parentVars, Counts,
       ReadySet, DoneSet
  <2> QED
    BY <2>1, <2>2, <2>3, <2>4
<1>28. ASSUME NEW c \in Children, PollStart(c) PROVE Sync'
  <2>1. ForkedSoFar'
    BY <1>28, ForkedKept DEF PollStart, Goto, ParentIdle, parentVars,
       TypeChildren, Alive, AfterPoll
  <2>2. ChildShape'
    BY <1>28 DEF PollStart, Goto, ParentIdle, NotOrphan, AfterPoll,
       parentVars, ChildShape, Reporting, TypeChildren
  <2>3. Phases'
    BY <1>28, PollStartPhases
  <2>4. Counts'
    BY <1>28, ChildCounts DEF PollStart, pipes, Goto, ParentIdle, parentVars,
       TypeChildren
  <2> QED
    BY <2>1, <2>2, <2>3, <2>4
<1>29. ASSUME NEW c \in Children, ReadStart(c) PROVE Sync'
  <2>1. ForkedSoFar'
    BY <1>29, ForkedKept DEF ReadStart, Goto, ParentIdle, parentVars, Alive,
       AfterPoll
  <2>2. ChildShape'
    BY <1>29 DEF ReadStart, childState, Goto, ParentIdle, AfterPoll,
       parentVars, ChildShape, Reporting
  <2>3. Phases'
    BY <1>29 DEF ReadStart, childState, Goto, ParentIdle, AfterPoll,
       parentVars, Phases, BeforeStart, AfterStart, NothingAsked, AfterDone,
       WhileKilling, WhileReaping, HandedOut, Quiet, AllReady, AllCool,
       Active, Alive, Reporting
  <2>4. Counts'
    BY <1>29 DEF ReadStart, childState, Goto, ParentIdle, AfterPoll,
       parentVars, Counts, ReadySet, DoneSet, AllReady, Active, TypeChildren
  <2> QED
    BY <2>1, <2>2, <2>3, <2>4
<1>30. ASSUME NEW c \in Children, SendReady(c) PROVE Sync'
  <2>0. PICK w \in {"restart", "zombie"} : cpc' = [cpc EXCEPT ![c] = w]
    BY <1>30, RespondMoves DEF SendReady
  <2>1. ForkedSoFar'
    <3>1. UNCHANGED <<ppc, np, pi>> /\ cpc[c] = "ready"
      BY <1>30 DEF SendReady, ParentIdle, parentVars
    <3>2. \A d \in Children : cpc'[d] = cpc[d] \/ (Alive(d) /\ cpc'[d] # "none")
      BY <2>0, <3>1 DEF TypeChildren, Alive
    <3> QED
      BY <3>1, <3>2, ForkedKept
  <2>2. ChildShape'
    BY <1>30, <2>0 DEF SendReady, ParentIdle, parentVars, ChildShape, Reporting,
       TypeChildren
  <2>3. Phases'
    BY <1>30, SendReadyPhases
  <2>4. Counts'
    BY <1>30, SendReadyCounts
  <2> QED
    BY <2>1, <2>2, <2>3, <2>4
<1>31. ASSUME NEW c \in Children, Measure(c) PROVE Sync'
  <2>1. ForkedSoFar'
    BY <1>31, ForkedKept DEF Measure, MeasureWith, Goto, ParentIdle,
       parentVars, TypeChildren, Alive
  <2>2. ChildShape'
    BY <1>31 DEF Measure, MeasureWith, Goto, ParentIdle, NotOrphan,
       parentVars, ChildShape, Reporting, TypeChildren
  <2>3. Phases'
    BY <1>31, MeasurePhases
  <2>4. Counts'
    BY <1>31, ChildCounts DEF Measure, MeasureWith, pipes, Goto, ParentIdle,
       parentVars, TypeChildren
  <2> QED
    BY <2>1, <2>2, <2>3, <2>4
<1>32. ASSUME NEW c \in Children, SendDone(c) PROVE Sync'
  <2>0. PICK w \in {"restart", "zombie"} : cpc' = [cpc EXCEPT ![c] = w]
    BY <1>32, RespondMoves DEF SendDone
  <2>1. ForkedSoFar'
    <3>1. UNCHANGED <<ppc, np, pi>> /\ cpc[c] = "done"
      BY <1>32 DEF SendDone, ParentIdle, parentVars
    <3>2. \A d \in Children : cpc'[d] = cpc[d] \/ (Alive(d) /\ cpc'[d] # "none")
      BY <2>0, <3>1 DEF TypeChildren, Alive
    <3> QED
      BY <3>1, <3>2, ForkedKept
  <2>2. ChildShape'
    BY <1>32, <2>0 DEF SendDone, childState, ParentIdle, parentVars, ChildShape,
       TypeChildren
  <2>3. Phases'
    BY <1>32, ZenonT(60) DEF SendDone, signalB, childState, ParentIdle, Respond,
       ExitChild, Goto, parentVars, Phases, BeforeStart, AfterStart,
       NothingAsked, AfterDone, WhileKilling, WhileReaping, HandedOut, Quiet,
       AllReady, AllCool, Active, Alive, Reporting, TypeChildren
  <2>4. Counts'
    BY <1>32, SendDoneCounts
  <2> QED
    BY <2>1, <2>2, <2>3, <2>4
<1>33. ASSUME NEW c \in Children, PollResult(c) PROVE Sync'
  <2>1. ForkedSoFar'
    BY <1>33, ForkedKept DEF PollResult, Goto, ParentIdle, parentVars, Alive
  <2>2. ChildShape'
    BY <1>33 DEF PollResult, childState, Goto, ParentIdle, NotOrphan,
       parentVars, ChildShape
  <2>3. Phases'
    BY <1>33, PollResultPhases
  <2>4. Counts'
    BY <1>33 DEF PollResult, pipes, childState, Goto, ParentIdle, NotOrphan,
       parentVars, Counts, ReadySet, DoneSet, AllReady, Active, TypeChildren
  <2> QED
    BY <2>1, <2>2, <2>3, <2>4
<1>34. ASSUME NEW c \in Children, ReadResult(c) PROVE Sync'
  <2>1. ForkedSoFar'
    BY <1>34, ForkedKept DEF ReadResult, Goto, ParentIdle, parentVars, Alive
  <2>2. ChildShape'
    BY <1>34 DEF ReadResult, childState, Goto, ParentIdle, parentVars,
       ChildShape, Reporting
  <2>3. Phases'
    BY <1>34 DEF ReadResult, childState, Goto, ParentIdle, parentVars, Phases,
       BeforeStart, AfterStart, NothingAsked, AfterDone, WhileKilling,
       WhileReaping, HandedOut, Quiet, AllReady, AllCool, Active, Alive,
       Reporting
  <2>4. Counts'
    BY <1>34 DEF ReadResult, childState, Goto, ParentIdle, parentVars, Counts,
       ReadySet, DoneSet, AllReady, Active, TypeChildren
  <2> QED
    BY <2>1, <2>2, <2>3, <2>4
<1>35. ASSUME NEW c \in Children, Report(c) PROVE Sync'
  <2>0. PICK w \in {AfterByte(c), "zombie"} : cpc' = [cpc EXCEPT ![c] = w]
    BY <1>35, RespondMoves DEF Report
  <2>1. ForkedSoFar'
    <3>1. UNCHANGED <<ppc, np, pi>> /\ cpc[c] = "report"
      BY <1>35 DEF Report, ParentIdle, parentVars
    <3>2. \A d \in Children : cpc'[d] = cpc[d] \/ (Alive(d) /\ cpc'[d] # "none")
      BY <2>0, <3>1 DEF TypeChildren, Alive, AfterByte
    <3> QED
      BY <3>1, <3>2, ForkedKept
  <2>2. ChildShape'
    BY <1>35, <2>0 DEF Report, ParentIdle, AfterByte, parentVars, ChildShape,
       Reporting, TypeChildren
  <2>3. Phases'
    BY <1>35 DEF Report, ParentIdle, Respond, AfterByte, ExitChild, Goto,
       parentVars, Phases, BeforeStart, AfterStart, NothingAsked, AfterDone,
       WhileKilling, WhileReaping, HandedOut, Quiet, AllReady, AllCool,
       Active, Alive, ChildShape, Reporting
  <2>4. Counts'
    BY <1>35, ReportCounts
  <2> QED
    BY <2>1, <2>2, <2>3, <2>4
<1>36. ASSUME NEW c \in Children, FinalCleanup(c) PROVE Sync'
  <2>1. ForkedSoFar'
    BY <1>36, ForkedKept DEF FinalCleanup, Goto, ParentIdle, parentVars, Alive
  <2>2. ChildShape'
    BY <1>36 DEF FinalCleanup, childState, Goto, ParentIdle, parentVars,
       ChildShape, Reporting
  <2>3. Phases'
    BY <1>36 DEF FinalCleanup, pipes, childState, Goto, ParentIdle,
       parentVars, Phases, BeforeStart, AfterStart, NothingAsked, AfterDone,
       WhileKilling, WhileReaping, HandedOut, Quiet, AllReady, AllCool,
       Active, Alive, Reporting
  <2>4. Counts'
    BY <1>36 DEF FinalCleanup, pipes, childState, Goto, ParentIdle,
       parentVars, Counts, ReadySet, DoneSet, AllReady, Active, TypeChildren
  <2> QED
    BY <2>1, <2>2, <2>3, <2>4
<1>37. ASSUME NEW c \in Children, ReadExit(c) PROVE Sync'
  <2>1. ForkedSoFar'
    BY <1>37, ForkedKept DEF ReadExit, ExitChild, ParentIdle, parentVars,
       Alive
  <2>2. ChildShape'
    BY <1>37 DEF ReadExit, childState, ExitChild, ParentIdle, parentVars,
       ChildShape, Reporting
  <2>3. Phases'
    BY <1>37 DEF ReadExit, childState, ExitChild, ParentIdle, parentVars,
       Phases, BeforeStart, AfterStart, NothingAsked, AfterDone, WhileKilling,
       WhileReaping, HandedOut, Quiet, AllReady, AllCool, Active, Alive,
       Reporting
  <2>4. Counts'
    BY <1>37 DEF ReadExit, childState, ExitChild, ParentIdle, parentVars,
       Counts, ReadySet, DoneSet, AllReady, Active, TypeChildren
  <2> QED
    BY <2>1, <2>2, <2>3, <2>4
<1>38. ASSUME NEW c \in Children, Restart(c) PROVE Sync'
  <2>1. ForkedSoFar'
    BY <1>38, ForkedKept DEF Restart, Goto, ParentIdle, parentVars, Alive
  <2>2. ChildShape'
    BY <1>38 DEF Restart, Goto, ParentIdle, parentVars, ChildShape, Reporting
  <2>3. Phases'
    BY <1>38 DEF Restart, pipes, Goto, ParentIdle, parentVars, Phases,
       BeforeStart, AfterStart, NothingAsked, AfterDone, WhileKilling,
       WhileReaping, HandedOut, Quiet, AllReady, AllCool, Active, Alive,
       Reporting
  <2>4. Counts'
    BY <1>38 DEF Restart, pipes, Goto, ParentIdle, parentVars, Counts,
       ReadySet, DoneSet, AllReady, Active, TypeChildren
  <2> QED
    BY <2>1, <2>2, <2>3, <2>4
<1>39. ASSUME NEW c \in Children, TakeTerm(c) PROVE Sync'
  <2>1. ForkedSoFar'
    BY <1>39, ForkedKept DEF TakeTerm, ExitChild, ParentIdle, parentVars,
       TypeChildren
  <2>2. ChildShape'
    BY <1>39 DEF TakeTerm, childState, ExitChild, ParentIdle, parentVars,
       ChildShape, Reporting, TypeChildren
  <2>3. Phases'
    BY <1>39, TakeTermPhases
  <2>4. Counts'
    BY <1>39, EndCounts DEF TakeTerm, ExitChild, ParentIdle, parentVars,
       pipes, childState, TypeChildren
  <2> QED
    BY <2>1, <2>2, <2>3, <2>4
<1>40. ASSUME NEW c \in Children, ChildFails(c) PROVE Sync'
  <2>1. ForkedSoFar'
    BY <1>40, ForkedKept DEF ChildFails, parentVars, ExitChild
  <2>2. ChildShape'
    BY <1>40 DEF ChildFails, parentVars, childState, Fault, ExitChild,
       ChildShape, Reporting
  <2>3. Phases'
    BY <1>40 DEF ChildFails, parentVars, pipes, childState, Alive, Fault,
       ExitChild, Phases, BeforeStart, AfterStart, NothingAsked, AfterDone,
       WhileKilling, WhileReaping, HandedOut, Quiet, AllReady, AllCool,
       Active, Reporting
  <2>4. Counts'
    BY <1>40, EndCounts DEF ChildFails, ExitChild, parentVars, pipes,
       childState
  <2> QED
    BY <2>1, <2>2, <2>3, <2>4
<1>41. CASE UNCHANGED vars
    BY <1>41 DEF vars, childState, children, parentVars, pipes, signalB,
       ForkedSoFar, LeftBehind, ChildShape, Phases, BeforeStart, AfterStart,
       NothingAsked, AfterDone, WhileKilling, WhileReaping, HandedOut, Counts,
       Waited, Reporting, Quiet, AllReady, AllCool, Active, Alive, ReadySet,
       DoneSet
<1> QED
    BY <1>1, <1>2, <1>3, <1>4, <1>5, <1>6, <1>7, <1>8, <1>9, <1>10, <1>11,
       <1>12, <1>13, <1>14, <1>15, <1>16, <1>17, <1>18, <1>19, <1>20, <1>21,
       <1>22, <1>23, <1>24, <1>25, <1>26, <1>27, <1>28, <1>29, <1>30, <1>31,
       <1>32, <1>33, <1>34, <1>35, <1>36, <1>37, <1>38, <1>39, <1>40, <1>41
    DEF Next, ParentStep, ParentFault, ChildStep, Terminated

\* Sync holds before the call.
LEMMA SyncInit ==
  ASSUME Init
  PROVE  Sync
<1>1. /\ ppc = "call" /\ startB = 0 /\ resultB = 0
      /\ \A c \in Children : cpc[c] = "none" /\ state[c] = "warmup" /\ need_warmup[c]
  BY DEF Init
<1>2. ForkedSoFar /\ ChildShape
  BY <1>1 DEF ForkedSoFar, Waited, ChildShape, Reporting
<1>3. Phases
  BY <1>1 DEF Phases, BeforeStart, AfterStart, NothingAsked, AfterDone,
              WhileKilling, WhileReaping, HandedOut, Reporting
<1>4. Counts
  BY <1>1 DEF Counts
<1> QED
  BY <1>2, <1>3, <1>4 DEF Sync

\* A dead parent takes no step, and no child's step concerns it.
LEMMA DeadStaysDead ==
  ASSUME ppc = "dead", [Next]_vars
  PROVE  ppc' = "dead"
<1>1. ~ParentStep
  BY DEF ParentStep, EnterRound, Prepare, ForkChild, ForkStops, ForkEnds,
         ForkKill, ForkWait, Reap, ReapEnds, FinishRound, EnterParent,
         CollectReady, CollectDone, CollectBytes, SendStart, AskOne,
         CollectResult, Release, Kill, KillWait
<1>2. ~AlarmRings /\ ~ParentFault
  BY DEF AlarmRings, ParentFault, PipeFails, PidsAllocFails, Prepare,
         ResultsAllocFails, UserTerm, ParentDies
<1>3. ASSUME NEW c \in Children, ChildStep(c) \/ TakeTerm(c) \/ ChildFails(c)
      PROVE  ppc' = ppc
  BY <1>3 DEF ChildStep, StartChild, StopInterval, OrphanExits, PollStart,
         ReadStart, SendReady, Measure, MeasureWith, SendDone, PollResult,
         ReadResult, Report, FinalCleanup, ReadExit, Restart, TakeTerm,
         ChildFails, ParentIdle, parentVars
<1>4. Terminated \/ UNCHANGED vars => ppc' = ppc
  BY DEF Terminated, vars, parentVars
<1> QED
  BY <1>1, <1>2, <1>3, <1>4 DEF Next

\* The invariant behind the properties below holds of every call of benchmp():
\* the loops over pids, the phases of the handshake and the counts of the bytes
\* that the parent of lib_timing.c has read agree with where the children are.
THEOREM HandshakeInvariant == Spec => []IInv
<1>1. Init => IInv
  BY TypeInit, SyncInit DEF IInv
<1>2. IInv /\ [Next]_vars => IInv'
  <2> SUFFICES ASSUME IInv, [Next]_vars PROVE IInv'
    OBVIOUS
  <2>1. TypeInv'
    BY TypeStep DEF IInv
  <2>2. ASSUME ppc' # "dead" PROVE Sync'
    BY <2>1, <2>2, DeadStaysDead, SyncStep DEF IInv
  <2> QED
    BY <2>1, <2>2 DEF IInv
<1> QED
  BY <1>1, <1>2, PTL DEF Spec

----------------------------------------------------------------------------
(* What follows from the invariant.                                        *)

\* The phases say of a child that is timed that every child is ready.
LEMMA LoadFollows ==
  ASSUME IInv
  PROVE  LoadDuringTiming
<1> SUFFICES ASSUME ppc # "dead", NEW c \in Active, NEW d \in Active, Timing(c)
             PROVE  Loaded(d) \/ Dead(d)
  BY DEF LoadDuringTiming
<1> USE DEF IInv, Sync, TypeInv, TypeOK
<1>1. c \in Children /\ d \in Children
  BY ActiveIsChildren
<1>2. Alive(c) /\ state[c] = "timing_interval"
  BY DEF Timing, Alive
<1>3. ~Quiet /\ ~AllCool
  BY <1>1, <1>2 DEF Quiet, AllCool
<1>4. AllReady
  <2>1. ppc \notin {"call", "finish", "returned"}
    BY <1>1, <1>2, Working
  <2>2. ppc \notin {"reap", "reaplate"}
    BY <1>1, <1>2, <1>3 DEF Phases, WhileReaping
  <2> QED
    BY <2>1, <2>2, <1>3 DEF Phases, BeforeStart, AfterStart, WhileKilling,
                            TypeParent, ParentPcs
<1>5. ~need_warmup[d] /\ cpc[d] \notin Reporting
  BY <1>1, <1>3, <1>4 DEF AllReady, Phases, HandedOut
<1>6. cpc[d] \notin {"init", "none"}
  BY <1>1, <1>5 DEF ChildShape
<1> QED
  BY <1>1, <1>5, <1>6 DEF Loaded, Dead, Reporting, TypeChildren, ChildPcs

\* The first goal of the harness, for every number of children, repetitions
\* and faults: no child is timed in benchmp_interval() unless every other child
\* is alive in its measurement loop, or dead.
THEOREM Load == Spec => []LoadDuringTiming
BY HandshakeInvariant, LoadFollows, PTL

\* The phases say of a child that reports that every child cools down.
LEMMA StoppedFollows ==
  ASSUME IInv
  PROVE  AllStoppedBeforeReport
<1>1. ASSUME ppc # "dead", NEW c \in Children, cpc[c] \in Reporting PROVE AllCool
  BY <1>1 DEF IInv, Sync, Phases, HandedOut
<1>2. Active \subseteq Children
  BY ActiveIsChildren DEF IInv, TypeInv, TypeOK
<1> QED
  BY <1>1, <1>2 DEF AllStoppedBeforeReport, AllCool, Reporting

\* The comment of benchmp_interval() that all children have stopped their
\* measurement loops when one of them reports is true, whatever fails.
THEOREM Stopped == Spec => []AllStoppedBeforeReport
BY HandshakeInvariant, StoppedFollows, PTL

\* After the last loop every child is left behind.
LEMMA NoneLeftFollows ==
  ASSUME IInv
  PROVE  NoneLeft
BY DEF IInv, Sync, ForkedSoFar, LeftBehind, Waited, NoneLeft

\* benchmp() leaves no child behind: on each of its exits the loops over pids
\* have waited for every child that was forked.
THEOREM Waits == Spec => []NoneLeft
BY HandshakeInvariant, NoneLeftFollows, PTL

----------------------------------------------------------------------------
(* The start bytes: enough for every child that will read one.             *)

\* A child will take a byte of start_signal: it has seen one, or warms up.
Owes(c) == cpc[c] = "startread" \/ (Alive(c) /\ state[c] = "warmup")
Owing == {c \in Children : Owes(c)}

\* Once the bytes are written there is one for each child that will take one.
Granted ==
  open /\ (startB > 0 \/ \E c \in Children : cpc[c] = "startread") =>
    Cardinality(Owing) <= startB

StartShape == \A c \in Children : cpc[c] = "startread" => state[c] = "timing_interval"

StartInv == StartShape /\ Granted

\* The children that will take a start byte are counted.
LEMMA OwingFinite == IsFiniteSet(Owing) /\ Cardinality(Owing) \in Nat
<1>1. Parallel \in Int /\ 1 \in Int
  BY BenchmpAssumption DEF BenchmpAssumption
<1>2. IsFiniteSet(Children)
  BY <1>1, FS_Interval DEF Children
<1> QED
  BY <1>2, FS_Subset, FS_CardinalityType DEF Owing

\* A step that takes no start byte, and in which children only move on or end.
LEMMA StartKept ==
  ASSUME StartInv, TypeInv, startB' = startB, open' => open,
         \A d \in Children :
           \/ cpc'[d] = cpc[d] /\ state'[d] = state[d]
           \/ /\ cpc'[d] # "startread"
              /\ \/ cpc'[d] \in {"zombie", "gone"}
                 \/ Alive(d) /\ (state'[d] = "warmup" => state[d] = "warmup")
  PROVE  StartInv'
<1>1. StartShape'
  BY DEF StartInv, StartShape
<1>2. Owing' \subseteq Owing
  BY DEF Owing, Owes, Alive
<1>3. Cardinality(Owing') <= Cardinality(Owing)
  BY <1>2, OwingFinite, FS_Subset
<1>4. Owing' \subseteq Owing /\ IsFiniteSet(Owing') /\ Cardinality(Owing') \in Nat
  BY <1>2, OwingFinite, FS_Subset, FS_CardinalityType
<1>5. Granted'
  BY <1>3, <1>4, OwingFinite DEF StartInv, Granted, TypeInv, TypeOK, TypePipes
<1> QED
  BY <1>1, <1>5 DEF StartInv

\* There are neither children nor bytes at the start.
LEMMA StartInitially == Init => StartInv
  BY DEF Init, StartInv, StartShape, Granted

\* A round begins with empty pipes, when no child is left of the last one.
LEMMA PrepareStart ==
  ASSUME IInv, StartInv, Prepare
  PROVE  StartInv'
<1>1. ppc = "call" /\ startB' = 0 /\ UNCHANGED children
  BY DEF Prepare
<1>2. \A c \in Children : Waited(c)
  BY <1>1 DEF IInv, Sync, ForkedSoFar, LeftBehind
<1>3. \A c \in Children : cpc'[c] # "startread"
  BY <1>1, <1>2 DEF Waited, children
<1> QED
  BY <1>1, <1>3 DEF StartInv, StartShape, Granted

\* A child that is forked does not wait for a start byte yet.
LEMMA ForkChildStart ==
  ASSUME IInv, StartInv, ForkChild
  PROVE  StartInv'
<1>1. ppc = "fork" /\ UNCHANGED startB
  BY DEF ForkChild, pipes
<1>2. startB = 0 /\ \A c \in Children : Alive(c) => state[c] = "warmup"
  BY <1>1 DEF IInv, Sync, Phases, BeforeStart, Quiet
<1>3. \A c \in Children : cpc[c] # "startread"
  BY <1>2 DEF StartInv, StartShape, Alive
<1>4. \A c \in Children : cpc'[c] # "startread"
  BY <1>3 DEF ForkChild, IInv, TypeInv, TypeOK, TypeChildren
<1> QED
  BY <1>1, <1>2, <1>4 DEF StartInv, StartShape, Granted

\* One byte for each child of the round.
LEMMA SendStartStart ==
  ASSUME IInv, StartInv, SendStart
  PROVE  StartInv'
<1>1. UNCHANGED children /\ ppc = "start"
  BY DEF SendStart
<1>2. Owing' = Owing /\ StartShape'
  BY <1>1 DEF children, Owing, Owes, Alive, StartInv, StartShape
<1>3. CASE ~open'
  BY <1>2, <1>3 DEF StartInv, Granted
<1>4. CASE startB' = startB + np
  <2>1. Sync /\ TypeParent /\ startB \in Nat
    BY <1>1 DEF IInv, TypeInv, TypeOK, TypePipes
  <2>2. Owing \subseteq Active
    <3> SUFFICES ASSUME NEW c \in Children, Owes(c) PROVE c \in Active
      BY DEF Owing
    <3>1. Alive(c)
      BY DEF Owes, Alive
    <3> QED
      BY <2>1, <3>1, Working DEF Sync
  <2>3. np \in Nat /\ np > 0
    BY <2>1, Numbers DEF TypeParent
  <2>4. IsFiniteSet(Active) /\ Cardinality(Active) = np
    BY <2>3, FS_Interval DEF Active
  <2>5. Cardinality(Owing) <= np
    BY <2>2, <2>4, FS_Subset
  <2>6. Cardinality(Owing') <= startB'
    BY <1>2, <1>4, <2>1, <2>3, <2>5, OwingFinite
  <2> QED
    BY <1>2, <2>6 DEF StartInv, Granted
<1> QED
  BY <1>3, <1>4 DEF SendStart, BytePerChild, DieParent

\* The child that has seen a byte, or end of file.
LEMMA PollStartStart ==
  ASSUME IInv, StartInv, NEW c \in Children, PollStart(c)
  PROVE  StartInv'
<1> USE DEF IInv, TypeInv, TypeOK, TypeChildren, TypePipes
<1>1. UNCHANGED <<open, startB>> /\ cpc[c] = "switch" /\ state[c] = "warmup"
  BY DEF PollStart, pipes
<1>2. CASE startB > 0 \/ ~open
  <2>1. /\ state' = [state EXCEPT ![c] = "timing_interval"]
        /\ cpc' = [cpc EXCEPT ![c] = "startread"]
    BY <1>2 DEF PollStart, Goto
  <2>2. StartShape'
    BY <2>1 DEF StartInv, StartShape
  <2>3. Owing' = Owing
    BY <1>1, <2>1 DEF Owing, Owes, Alive
  <2> QED
    BY <1>1, <1>2, <2>2, <2>3 DEF StartInv, Granted
<1>3. CASE ~(startB > 0 \/ ~open)
  <2>1. cpc' = [cpc EXCEPT ![c] = AfterPoll(c)] /\ UNCHANGED state
    BY <1>3 DEF PollStart, Goto
  <2>2. AfterPoll(c) # "startread"
    BY DEF AfterPoll
  <2> QED
    BY <1>1, <2>1, <2>2, StartKept DEF Alive
<1> QED
  BY <1>2, <1>3

\* The child that takes its byte owes none any more.
LEMMA ReadStartStart ==
  ASSUME IInv, StartInv, NEW c \in Children, ReadStart(c)
  PROVE  StartInv'
<1> USE DEF IInv, TypeInv, TypeOK, TypeChildren, TypePipes
<1>1. /\ UNCHANGED <<open, state>> /\ cpc[c] = "startread"
      /\ state[c] = "timing_interval"
      /\ cpc' = [cpc EXCEPT ![c] = AfterPoll(c)]
      /\ startB' = IF startB > 0 THEN startB - 1 ELSE 0
      /\ startB > 0 \/ ~open
  BY DEF ReadStart, childState, Goto, StartInv, StartShape
<1>2. AfterPoll(c) # "startread"
  BY DEF AfterPoll
<1>3. StartShape'
  BY <1>1, <1>2 DEF StartInv, StartShape
<1>4. Owing' = Owing \ {c} /\ c \in Owing
  BY <1>1, <1>2 DEF Owing, Owes, Alive, AfterPoll
<1>5. CASE ~open
  BY <1>1, <1>3, <1>5 DEF StartInv, Granted
<1>6. CASE open
  <2>1. Cardinality(Owing) <= startB
    BY <1>1, <1>6 DEF StartInv, Granted
  <2>2. Cardinality(Owing') = Cardinality(Owing) - 1
    BY <1>4, OwingFinite, FS_RemoveElement
  <2>3. Cardinality(Owing') <= startB'
    BY <1>1, <1>6, <2>1, <2>2, OwingFinite
  <2> QED
    BY <1>3, <2>3 DEF StartInv, Granted
<1> QED
  BY <1>5, <1>6
\* The parent's other steps only wait for children that have ended.
LEMMA ParentKept ==
  ASSUME IInv, StartInv,
         ParentStep \/ AlarmRings \/ ParentFault,
         ~(Prepare \/ ForkChild \/ SendStart)
  PROVE  StartInv'
<1> USE DEF IInv, TypeInv, TypeOK, TypeChildren
<1>1. CASE ForkWait \/ Reap \/ KillWait
  <2>1. /\ UNCHANGED <<open, startB, state>>
        /\ \A d \in Children : cpc'[d] = cpc[d] \/ cpc'[d] = "gone"
    BY <1>1 DEF ForkWait, Reap, KillWait, pipes, childState
  <2> QED
    BY <2>1, StartKept
<1>2. CASE Release \/ ParentDies
  <2>1. /\ UNCHANGED <<startB, state, cpc>> /\ (open' => open)
    BY <1>2 DEF Release, ParentDies, DieParent, signalB, children
  <2> QED
    BY <2>1, StartKept
<1>3. CASE Kill
  <2>1. /\ UNCHANGED <<startB, state, cpc>> /\ (open' => open)
    BY <1>3 DEF Kill, signalB, childState
  <2> QED
    BY <2>1, StartKept
<1>4. CASE AskOne
  <2>1. /\ UNCHANGED <<startB, state, cpc>> /\ (open' => open)
    BY <1>4 DEF AskOne, DieParent, children
  <2> QED
    BY <2>1, StartKept
<1>5. CASE CollectReady \/ CollectDone \/ CollectResult
  <2>1. UNCHANGED <<open, startB, state, cpc>>
    BY <1>5 DEF CollectReady, CollectDone, CollectBytes, CollectResult, signalB, children
  <2> QED
    BY <2>1, StartKept
<1>6. CASE ForkStops \/ ForkEnds \/ ForkKill \/ AlarmRings \/ ReapEnds \/ FinishRound
           \/ EnterParent \/ PipeFails \/ ResultsAllocFails \/ UserTerm
  <2>1. UNCHANGED <<open, startB, state, cpc>>
    BY <1>6 DEF ForkStops, ForkEnds, ForkKill, AlarmRings, ReapEnds, FinishRound,
       EnterParent, PipeFails, ResultsAllocFails, UserTerm, pipes, children, childState
  <2> QED
    BY <2>1, StartKept
<1> QED
  BY <1>1, <1>2, <1>3, <1>4, <1>5, <1>6
  DEF ParentStep, ParentFault, EnterRound, PidsAllocFails

\* A child that takes no start byte now leaves the bytes to the others.
LEMMA ChildKept ==
  ASSUME IInv, StartInv, NEW c \in Children,
         ChildStep(c) \/ TakeTerm(c) \/ ChildFails(c),
         ~PollStart(c), ~ReadStart(c)
  PROVE  StartInv'
<1> USE DEF IInv, TypeInv, TypeOK, TypeChildren
<1> SUFFICES /\ UNCHANGED <<open, startB>>
             /\ \A d \in Children \ {c} : cpc'[d] = cpc[d] /\ state'[d] = state[d]
             /\ \/ cpc'[c] = cpc[c] /\ state'[c] = state[c]
                \/ /\ cpc'[c] # "startread"
                   /\ \/ cpc'[c] \in {"zombie", "gone"}
                      \/ Alive(c) /\ (state'[c] = "warmup" => state[c] = "warmup")
  BY StartKept
<1>1. CASE StartChild(c) \/ OrphanExits(c) \/ TakeTerm(c) \/ ChildFails(c)
  BY <1>1 DEF StartChild, OrphanExits, TakeTerm, ChildFails, ExitChild, Goto, pipes,
     childState, Alive
<1>2. CASE StopInterval(c) \/ PollResult(c) \/ Restart(c) \/ FinalCleanup(c)
  BY <1>2 DEF StopInterval, PollResult, Restart, FinalCleanup, Goto, pipes, childState, Alive
<1>3. CASE ReadResult(c) \/ ReadExit(c)
  BY <1>3 DEF ReadResult, ReadExit, ExitChild, Goto, childState, Alive
<1>4. CASE SendReady(c) \/ SendDone(c) \/ Report(c)
  BY <1>4 DEF SendReady, SendDone, Report, Respond, AfterByte, ExitChild, Goto, signalB,
     childState, Alive
<1>5. CASE Measure(c)
  BY <1>5 DEF Measure, MeasureWith, Goto, pipes, Alive
<1> QED
  BY <1>1, <1>2, <1>3, <1>4, <1>5 DEF ChildStep

LEMMA StartStep == IInv /\ StartInv /\ [Next]_vars => StartInv'
<1> SUFFICES ASSUME IInv, StartInv, [Next]_vars PROVE StartInv'
  OBVIOUS
<1>1. CASE ParentStep \/ AlarmRings \/ ParentFault
  BY <1>1, PrepareStart, ForkChildStart, SendStartStart, ParentKept
<1>2. ASSUME NEW c \in Children, ChildStep(c) \/ TakeTerm(c) \/ ChildFails(c)
      PROVE  StartInv'
  BY <1>2, PollStartStart, ReadStartStart, ChildKept
<1>3. CASE UNCHANGED vars
  BY <1>3, StartKept DEF vars, pipes, children, IInv
<1> QED
  BY <1>1, <1>2, <1>3 DEF Next, Terminated

\* A child in startread is one of those for whom there are enough.
LEMMA StartFollows == TypeInv /\ StartInv => StartNeverBlocks
<1> SUFFICES ASSUME TypeInv, StartInv, open, NEW c \in Children, cpc[c] = "startread"
             PROVE  startB > 0
  BY DEF StartNeverBlocks
<1>1. c \in Owing
  BY DEF Owing, Owes
<1>2. Cardinality(Owing) # 0
  BY <1>1, OwingFinite, FS_EmptySet
<1>3. Cardinality(Owing) <= startB /\ startB \in Nat
  BY DEF StartInv, Granted, TypeInv, TypeOK, TypePipes
<1> QED
  BY <1>2, <1>3, OwingFinite

\* A child that found start_signal readable reads its byte without blocking,
\* whatever other children read between its select() and its read(), for any
\* number of children, and whatever fails.
THEOREM StartBytes == Spec => []StartNeverBlocks
<1>1. Spec => [](IInv /\ StartInv)
  BY HandshakeInvariant, StartInitially, StartStep, PTL DEF Spec
<1>2. IInv /\ StartInv => StartNeverBlocks
  BY StartFollows DEF IInv
<1> QED
  BY <1>1, <1>2, PTL
-----------------------------------------------------------------------------
(* Records and the session: the second invariant of Benchmp, on top of     *)
(* IInv, and what follows from it; one lemma of the refinement for the     *)
(* steps that may change the phase of a child or the verdict.              *)

----------------------------------------------------------------------------
(* What the steps leave alone.                                             *)

\* A child's step moves a living child, and nothing of the parent's or of
\* another child's.
LEMMA ChildMoves ==
  ASSUME TypeInv, NEW c \in Children, ChildStep(c) \/ TakeTerm(c) \/ ChildFails(c)
  PROVE  /\ UNCHANGED <<ppc, np, pi, rbuf, merged, timed, termSeen, open>>
         /\ Alive(c)
         /\ \A d \in Children : d # c =>
              /\ cpc'[d] = cpc[d] /\ sent'[d] = sent[d]
              /\ state'[d] = state[d] /\ need_warmup'[d] = need_warmup[d]
<1> USE DEF TypeInv, TypeOK, TypeChildren
<1>1. CASE StartChild(c) \/ StopInterval(c) \/ OrphanExits(c) \/ PollStart(c) \/ ReadStart(c)
  BY <1>1 DEF StartChild, StopInterval, OrphanExits, PollStart, ReadStart, ParentIdle,
     parentVars, termVars, pipes, childState, ExitChild, Goto, Alive
<1>2. CASE SendReady(c) \/ Measure(c) \/ SendDone(c) \/ PollResult(c) \/ ReadResult(c)
  BY <1>2 DEF SendReady, Measure, MeasureWith, SendDone, PollResult, ReadResult, ParentIdle,
     parentVars, termVars, pipes, childState, ExitChild, Goto, Alive, Respond
<1>3. CASE Report(c) \/ FinalCleanup(c) \/ ReadExit(c) \/ Restart(c)
  BY <1>3 DEF Report, FinalCleanup, ReadExit, Restart, ParentIdle,
     parentVars, termVars, pipes, childState, ExitChild, Goto, Alive, Respond
<1>4. CASE TakeTerm(c) \/ ChildFails(c)
  BY <1>4 DEF TakeTerm, ChildFails, ParentIdle,
     parentVars, termVars, pipes, childState, ExitChild, Goto, Alive
<1> QED
  BY <1>1, <1>2, <1>3, <1>4 DEF ChildStep

\* Nothing but the fork of a child writes to a child's entries in the
\* parent's steps; a child that has ended may be waited for.
LEMMA ParentMoves ==
  ASSUME TypeInv, ParentStep \/ AlarmRings \/ ParentFault, ~ForkChild
  PROVE  /\ UNCHANGED childState
         /\ \A d \in Children : cpc'[d] = cpc[d] \/ (Dead(d) /\ cpc'[d] = "gone")
<1> USE DEF TypeInv, TypeOK, TypeChildren
<1>1. CASE ForkWait \/ Reap \/ KillWait
  BY <1>1 DEF ForkWait, Reap, KillWait, Dead
<1>2. CASE EnterRound \/ ForkStops \/ ForkEnds \/ ReapEnds \/ FinishRound \/ EnterParent
           \/ CollectReady \/ CollectDone
  BY <1>2 DEF EnterRound, Prepare, ForkStops, ForkEnds, ReapEnds, FinishRound, EnterParent,
     CollectReady, CollectDone, CollectBytes, children, childState
<1>3. CASE SendStart \/ AskOne \/ CollectResult \/ Release
  BY <1>3 DEF SendStart, AskOne, CollectResult, Release, children, childState
<1>4. CASE ForkKill \/ Kill \/ AlarmRings
  BY <1>4 DEF ForkKill, Kill, AlarmRings
<1>5. CASE ParentFault
  BY <1>5 DEF ParentFault, PipeFails, PidsAllocFails, Prepare, ResultsAllocFails, UserTerm,
     ParentDies, children, childState
<1> QED
  BY <1>1, <1>2, <1>3, <1>4, <1>5 DEF ParentStep

\* The merged records are those of the same children as before.
LEMMA CollectedKept ==
  ASSUME UNCHANGED <<np, merged>>
  PROVE  Active' = Active /\ Collected' = Collected /\ Wholes' = Wholes
BY DEF Collected, Wholes, Active

\* A round that has merged nothing has collected nothing.
LEMMA NoneCollected ==
  ASSUME merged = <<>>
  PROVE  Collected = {} /\ Wholes /\ Len(merged) = 0
<1>1. Len(merged) = 0
  BY EmptySeqFacts
<1> QED
  BY <1>1 DEF Collected, Wholes

\* The children whose records are merged are counted.
LEMMA CollectedFinite ==
  ASSUME TypeParent
  PROVE  /\ IsFiniteSet(Collected) /\ Cardinality(Collected) \in Nat
         /\ Collected \subseteq Active /\ Collected \subseteq Children
<1>1. IsFiniteSet(Active)
  BY Numbers, FS_Interval DEF Active
<1>2. Collected \subseteq Active
  BY DEF Collected
<1> QED
  BY <1>1, <1>2, ActiveIsChildren, FS_Subset, FS_CardinalityType

----------------------------------------------------------------------------
(* The records under the children's steps.                                 *)

\* A step of a child that writes no byte of a record and takes no result
\* byte: it ends, or stays before its report, or stays after it.
LEMMA QuietChildKept ==
  ASSUME TypeInv, Records, NEW c \in Children,
         UNCHANGED <<ppc, np, pi, rbuf, merged, timed, sent, response, resultB>>,
         \A d \in Children : d # c => cpc'[d] = cpc[d],
         \/ cpc'[c] = "zombie"
         \/ /\ cpc[c] \notin {"report", "cleanup", "exitread", "zombie", "gone"}
            /\ cpc'[c] \notin {"report", "cleanup", "exitread"}
         \/ cpc[c] = "cleanup" /\ cpc'[c] = "exitread",
         ppc \in {"ask", "collect"} => cpc'[c] # "done"
  PROVE  Records'
<1> USE DEF TypeInv, TypeOK
<1>1. Active' = Active /\ Collected' = Collected /\ Wholes'
  BY CollectedKept DEF Records
<1>2. Active \subseteq Children
  BY ActiveIsChildren
<1>3. \A d \in Children : cpc'[d] = "report" => cpc[d] = "report"
  OBVIOUS
<1>4. SentShape'
  BY DEF Records, SentShape
<1>5. ASSUME ppc # "dead" PROVE Ledger'
  <2> USE <1>5
  <2>1. NothingSent'
    BY <1>1 DEF Records, Ledger, NothingSent
  <2>2. Unfinished' /\ Outcome'
    BY <1>1 DEF Records, Ledger, Unfinished, Outcome
  <2>3. Merging'
    BY <1>1 DEF Records, Ledger, Merging
  <2>4. \A d \in Active : Silent(d) => Silent(d)'
    BY <1>2, <1>3 DEF Silent
  <2>5. \A w \in Active : Writing(w) => Writing(w)'
    BY <1>1, <2>4 DEF Writing
  <2>6. OneWriter'
    BY <1>1, <2>4, <2>5 DEF Records, Ledger, OneWriter, AllSilent
  <2> QED
    BY <2>1, <2>2, <2>3, <2>6 DEF Ledger
<1> QED
  BY <1>1, <1>4, <1>5 DEF Records

\* The `ready' and the `done' bytes are not written while records are read.
LEMMA ByteKept ==
  ASSUME TypeInv, Records, NEW c \in Children, ppc \notin {"ask", "collect"},
         UNCHANGED <<ppc, np, pi, merged, timed, sent>>,
         \A d \in Children : d # c => cpc'[d] = cpc[d],
         \/ cpc'[c] = "zombie"
         \/ /\ cpc[c] \notin {"report", "cleanup", "exitread", "zombie", "gone"}
            /\ cpc'[c] \notin {"cleanup", "exitread"}
  PROVE  Records'
<1>1. Active' = Active /\ Collected' = Collected /\ Wholes'
  BY CollectedKept DEF Records
<1>2. SentShape'
  BY DEF Records, SentShape
<1>3. ASSUME ppc # "dead" PROVE Ledger'
  BY <1>1, <1>3 DEF Records, Ledger, NothingSent, Unfinished, Merging, OneWriter, Outcome
<1> QED
  BY <1>1, <1>2, <1>3 DEF Records

\* The child that takes the result byte becomes the one writer.
LEMMA ReadResultRecords ==
  ASSUME IInv, Records, NEW c \in Children, ReadResult(c)
  PROVE  Records'
<1> USE DEF IInv, TypeInv, TypeOK, TypeChildren, TypePipes
<1>1. /\ UNCHANGED <<ppc, np, pi, rbuf, merged, timed, sent, response, open>>
      /\ cpc[c] = "resultread" /\ cpc' = [cpc EXCEPT ![c] = "report"]
      /\ resultB > 0 \/ ~open
      /\ resultB' = IF resultB > 0 THEN resultB - 1 ELSE 0
  BY DEF ReadResult, Goto, ParentIdle, parentVars, childState
<1>2. CASE ppc \notin {"ask", "collect"}
  BY <1>1, <1>2, ByteKept
<1>3. CASE ppc \in {"ask", "collect"}
  <2>1. open /\ Ledger /\ c \in Active /\ sent[c] = 0
    BY <1>1, <1>3, Working DEF Sync, Phases, AfterStart, Records, SentShape, Alive
  <2>2. ppc = "collect" /\ resultB = 1 /\ AllSilent
    BY <1>1, <1>3, <2>1 DEF Ledger, OneWriter, Writing
  <2>3. Active' = Active /\ Collected' = Collected /\ Wholes'
    BY <1>1, CollectedKept DEF Records
  <2>4. c \notin Collected
    BY <1>3, <2>1 DEF Ledger, Merging
  <2>5. \A d \in Active : d # c /\ Silent(d) => Silent(d)'
    BY <1>1, ActiveIsChildren DEF Silent
  <2>6. Writing(c)'
    BY <1>1, <2>1, <2>2, <2>3, <2>4, <2>5, EmptySeqFacts DEF Writing, AllSilent, AllFrom
  <2>7. OneWriter'
    BY <1>1, <2>1, <2>2, <2>3, <2>6 DEF OneWriter
  <2>8. NothingSent' /\ Unfinished' /\ Outcome'
    BY <1>1, <2>1, <2>2 DEF Ledger, NothingSent, Unfinished, Outcome
  <2>9. Merging'
    BY <1>1, <2>1, <2>3 DEF Ledger, Merging
  <2>10. SentShape'
    BY <1>1 DEF Records, SentShape
  <2> QED
    BY <2>3, <2>7, <2>8, <2>9, <2>10 DEF Records, Ledger
<1> QED
  BY <1>2, <1>3

\* The bytes of two parts of a pipe are as before, and one more.
LEMMA AppendFacts ==
  ASSUME NEW S, NEW s \in Seq(S), NEW x \in S
  PROVE  /\ Append(s, x) \in Seq(S) /\ Len(Append(s, x)) = Len(s) + 1
         /\ \A j \in 1..(Len(s) + 1) :
              Append(s, x)[j] = IF j = Len(s) + 1 THEN x ELSE s[j]
OBVIOUS

\* One byte of the record: its writer is the one that was asked.
LEMMA ReportRecords ==
  ASSUME IInv, Records, ppc # "dead", NEW c \in Children, Report(c)
  PROVE  Records'
<1> USE DEF IInv, TypeInv, TypeOK, TypeChildren, TypePipes
<1>1. /\ UNCHANGED <<ppc, np, pi, rbuf, merged, timed, resultB, open>>
      /\ cpc[c] = "report" /\ sent' = [sent EXCEPT ![c] = @ + 1]
      /\ sent[c] \in Nat /\ sent[c] < Chunks
  <2>1. cpc[c] = "report" /\ sent[c] \in 0..Chunks
    BY DEF Report
  <2>2. sent[c] < Chunks
    BY <2>1 DEF Room
  <2> QED
    BY <2>1, <2>2 DEF Report, ParentIdle, parentVars, signalB
<1>2. \A d \in Children : d # c => cpc'[d] = cpc[d] /\ sent'[d] = sent[d]
  BY <1>1 DEF Report, Respond, Goto, ExitChild
<1>3. \/ cpc'[c] = "zombie"
      \/ cpc'[c] = "report" /\ sent[c] + 1 # Chunks
      \/ cpc'[c] = "cleanup" /\ sent[c] + 1 = Chunks
  BY <1>1 DEF Report, Respond, Goto, ExitChild, AfterByte
<1>4. Alive(c) /\ c \in Active /\ Ledger /\ state[c] = "cooldown"
  BY <1>1, Working DEF Alive, Sync, Records, ChildShape, Reporting
<1>5. Active' = Active /\ Collected' = Collected /\ Wholes'
  BY <1>1, CollectedKept DEF Records
<1>6. SentShape'
  BY <1>1, <1>2, <1>3 DEF Records, SentShape
<1>7. ppc \notin {"fork", "enter", "ready", "start", "done"}
  BY <1>1, <1>4 DEF Sync, Phases, BeforeStart, Quiet, NothingAsked, Reporting
<1>8. NothingSent' /\ Unfinished'
  BY <1>1, <1>4, <1>7 DEF Ledger, NothingSent, Unfinished
<1>9. Outcome'
  BY <1>1, <1>4, <1>5 DEF Ledger, Outcome
<1>10. CASE ppc \notin {"ask", "collect"}
  BY <1>1, <1>5, <1>6, <1>8, <1>9, <1>10 DEF Records, Ledger, Merging, OneWriter
<1>11. CASE ppc \in {"ask", "collect"}
  <2>1. c \notin Collected /\ open
    BY <1>1, <1>4, <1>11 DEF Ledger, Merging, Sync, Phases, AfterStart
  <2>2. /\ ppc = "collect"
        /\ \A w \in Active : Writing(w) => w = c
        /\ Writing(c)
    BY <1>1, <1>4, <1>11, <2>1 DEF Ledger, OneWriter, AllSilent, Writing, Silent
  <2>3. response' = Append(response, c)
    BY <2>1 DEF Report, Respond
  <2>4. /\ Len(response') = Len(response) + 1
        /\ \A j \in 1..Len(response') : response'[j] = c
    <3>1. response \in Seq(Children) /\ Len(response) \in Nat
      OBVIOUS
    <3>2. \A j \in 1..Len(response) : response[j] = c
      BY <2>2 DEF Writing, AllFrom
    <3> HIDE DEF IInv, TypeInv, TypeOK, TypeChildren, TypePipes
    <3>3. /\ Len(response') = Len(response) + 1
          /\ \A j \in 1..(Len(response) + 1) :
               response'[j] = IF j = Len(response) + 1 THEN c ELSE response[j]
      BY <2>3, <3>1, AppendFacts
    <3> QED
      BY <3>1, <3>2, <3>3
  <2>5. Len(rbuf) + Len(response') = sent'[c]
    <3>1. Len(rbuf) \in Nat /\ Len(response) \in Nat
      BY DEF TypeParent
    <3> QED
      BY <1>1, <2>2, <2>4, <3>1 DEF Writing
  <2>6. \A d \in Active : d # c /\ Silent(d) => Silent(d)'
    BY <1>2, ActiveIsChildren DEF Silent
  <2>7. Writing(c)'
    BY <1>1, <1>5, <2>2, <2>4, <2>5, <2>6 DEF Writing, AllFrom
  <2>8. OneWriter'
    BY <1>1, <1>4, <1>5, <2>2, <2>7 DEF OneWriter
  <2>9. Merging'
    <3>1. \A d \in Collected : sent'[d] = sent[d]
      BY <1>2, <2>1, CollectedFinite
    <3>2. \A d \in Children : cpc'[d] # "done"
      BY <1>2, <1>3, <1>4, <1>11 DEF Ledger, Merging
    <3> QED
      BY <1>1, <1>4, <1>5, <3>1, <3>2 DEF Ledger, Merging
  <2> QED
    BY <1>5, <1>6, <1>8, <1>9, <2>8, <2>9 DEF Records, Ledger
<1> QED
  BY <1>10, <1>11

\* Every child's step keeps the records in order.
LEMMA ChildRecords ==
  ASSUME IInv, Records, ppc # "dead", NEW c \in Children,
         ChildStep(c) \/ TakeTerm(c) \/ ChildFails(c)
  PROVE  Records'
<1>1. TypeInv /\ TypeParent /\ cpc \in [Children -> ChildPcs] /\ Sync /\ ForkedSoFar /\ Phases /\ ChildShape /\ Ledger
  BY DEF IInv, TypeInv, TypeOK, TypeChildren, Sync, Records
<1>2. /\ UNCHANGED <<ppc, np, pi, rbuf, merged, timed, open>> /\ Alive(c)
      /\ \A d \in Children : d # c => cpc'[d] = cpc[d] /\ sent'[d] = sent[d]
  BY <1>1, ChildMoves
<1>3. c \in Active
  BY <1>1, <1>2, Working
<1>4. ppc \in {"ask", "collect"} => open /\ AllCool /\ ~need_warmup[c] /\ cpc[c] # "done"
  BY <1>1, <1>3 DEF Phases, AfterStart, AfterDone, AllReady, Ledger, Merging
<1>5. CASE StartChild(c) \/ StopInterval(c) \/ OrphanExits(c) \/ Restart(c) \/ PollStart(c)
  <2>1. UNCHANGED <<sent, response, resultB>>
    BY <1>5 DEF StartChild, StopInterval, OrphanExits, Restart, PollStart, pipes, childState
  <2>2. /\ cpc[c] \in {"init", "run", "switch", "restart"}
        /\ cpc'[c] \in {"zombie", "switch", "run", "startread", "ready", "restart"}
    BY <1>1, <1>5 DEF StartChild, StopInterval, OrphanExits, Restart, PollStart, Goto,
       ExitChild, AfterPoll
  <2> QED
    BY <1>1, <1>2, <2>1, <2>2, QuietChildKept
<1>6. CASE ReadStart(c) \/ PollResult(c)
  <2>1. UNCHANGED <<sent, response, resultB>>
    BY <1>6 DEF ReadStart, PollResult, pipes, childState
  <2>2. /\ cpc[c] \in {"startread", "switch"}
        /\ cpc'[c] \in {"ready", "restart", "resultread"}
    BY <1>1, <1>6 DEF ReadStart, PollResult, Goto, AfterPoll
  <2> QED
    BY <1>1, <1>2, <2>1, <2>2, QuietChildKept
<1>7. CASE Measure(c)
  <2>1. UNCHANGED <<sent, response, resultB>> /\ state[c] = "timing_interval"
    BY <1>7 DEF Measure, MeasureWith, pipes
  <2>2. cpc[c] = "switch" /\ cpc'[c] \in {"done", "restart"}
    BY <1>1, <1>7 DEF Measure, MeasureWith, Goto
  <2>3. ppc \notin {"ask", "collect"}
    BY <1>3, <1>4, <2>1 DEF AllCool
  <2> QED
    BY <1>1, <1>2, <2>1, <2>2, <2>3, QuietChildKept
<1>8. CASE SendReady(c) \/ SendDone(c)
  <2>1. UNCHANGED sent /\ cpc[c] \in {"ready", "done"}
    BY <1>8 DEF SendReady, SendDone, childState
  <2>2. ppc \notin {"ask", "collect"}
    BY <1>1, <1>4, <2>1 DEF ChildShape
  <2>3. cpc'[c] \in {"restart", "zombie"}
    BY <1>1, <1>8 DEF SendReady, SendDone, Respond, Goto, ExitChild
  <2> QED
    BY <1>1, <1>2, <2>1, <2>2, <2>3, ByteKept
<1>9. CASE FinalCleanup(c) \/ ReadExit(c) \/ TakeTerm(c) \/ ChildFails(c)
  <2>1. UNCHANGED <<sent, response, resultB>>
    BY <1>9 DEF FinalCleanup, ReadExit, TakeTerm, ChildFails, pipes, childState
  <2>2. \/ cpc[c] = "cleanup" /\ cpc'[c] = "exitread"
        \/ cpc'[c] = "zombie"
        \/ TakeTerm(c) /\ cpc' = cpc
    BY <1>1, <1>9 DEF FinalCleanup, ReadExit, TakeTerm, ChildFails, Goto, ExitChild
  <2>3. CASE cpc' = cpc
    <3>1. Active' = Active /\ Collected' = Collected /\ Wholes'
      BY <1>2, CollectedKept DEF Records
    <3>2. SentShape'
      BY <2>1, <2>3 DEF Records, SentShape
    <3>3. Ledger'
      BY <1>1, <1>2, <2>1, <2>3, <3>1 DEF Ledger, NothingSent, Unfinished, Merging,
         OneWriter, Outcome, AllSilent, Writing, Silent
    <3> QED
      BY <3>1, <3>2, <3>3 DEF Records
  <2>4. CASE cpc' # cpc
    BY <1>1, <1>2, <2>1, <2>2, <2>4, QuietChildKept
  <2> QED
    BY <2>3, <2>4
<1> QED
  BY <1>5, <1>6, <1>7, <1>8, <1>9, ReadResultRecords, ReportRecords DEF ChildStep

----------------------------------------------------------------------------
(* The records under the parent's steps.                                   *)

\* A parent's step that merges nothing and stays out of the merging loop.
LEMMA AsideKept ==
  ASSUME TypeInv, Records, ppc # "dead",
         UNCHANGED <<np, merged, childState>>,
         \A d \in Children : cpc'[d] = cpc[d] \/ (Dead(d) /\ cpc'[d] = "gone"),
         ppc' \in {"call", "kill", "killwait", "fkill", "fwait", "reap", "reaplate", "finish",
                   "returned", "dead", "enter", "ready", "start", "done"},
         ppc' # "dead" => NothingSent' /\ Unfinished' /\ Outcome'
  PROVE  Records'
<1>1. Wholes'
  BY CollectedKept DEF Records
<1>2. SentShape'
  BY DEF Records, SentShape, childState, Dead
<1>3. ppc' # "dead" => Ledger'
  BY DEF Ledger, Merging, OneWriter
<1> QED
  BY <1>1, <1>2, <1>3 DEF Records

\* The lengths that the parent compares.
LEMMA Lengths ==
  ASSUME TypeInv
  PROVE  /\ Len(merged) \in Nat /\ Len(rbuf) \in Nat /\ Len(response) \in Nat
         /\ np \in Nat /\ 0 < np /\ pi \in Nat /\ pi <= np
BY Numbers DEF TypeInv, TypeOK, TypeParent, TypePipes

\* The steps before the merging loop, and the ends of an attempt before it.
LEMMA EarlyRecords ==
  ASSUME IInv, Records, ppc # "dead",
         EnterRound \/ PidsAllocFails \/ PipeFails \/ ForkStops \/ ForkEnds
         \/ EnterParent \/ ResultsAllocFails \/ CollectReady \/ SendStart
  PROVE  Records'
<1>1. TypeInv /\ ForkedSoFar /\ Ledger
  BY DEF IInv, Sync, Records
<1>2. UNCHANGED childState /\ \A d \in Children : cpc'[d] = cpc[d]
  BY DEF EnterRound, PidsAllocFails, Prepare, PipeFails, ForkStops, ForkEnds, EnterParent,
     ResultsAllocFails, CollectReady, CollectBytes, SendStart, children, childState
<1>3. /\ np \in Nat /\ 0 < np /\ Len(merged) \in Nat /\ Len(<<>>) = 0
      /\ Active \subseteq Children
  BY <1>1, Lengths, ActiveIsChildren, EmptySeqFacts DEF TypeInv, TypeOK
<1>4. CASE EnterRound
  <2>1. ppc' = "fork" /\ merged' = <<>> /\ pi' = 0 /\ ~timed' /\ np' = np
    BY <1>4 DEF EnterRound, Prepare
  <2>2. SentShape'
    BY <1>2 DEF Records, SentShape, childState
  <2>3. Wholes'
    BY <1>3, <2>1 DEF Wholes
  <2>4. NothingSent'
    BY <1>3, <2>1 DEF NothingSent, Active
  <2> QED
    BY <2>1, <2>2, <2>3, <2>4 DEF Records, Ledger, Unfinished, Merging, OneWriter, Outcome
<1>5. CASE PidsAllocFails
  <2>1. ppc' = "finish" /\ merged' = <<>> /\ ~timed' /\ np' = np
    BY <1>5 DEF PidsAllocFails, Prepare
  <2>2. SentShape'
    BY <1>2 DEF Records, SentShape, childState
  <2>3. Wholes'
    BY <1>3, <2>1 DEF Wholes
  <2> QED
    BY <1>3, <2>1, <2>2, <2>3
    DEF Records, Ledger, NothingSent, Unfinished, Merging, OneWriter, Outcome
<1>6. CASE PipeFails
  <2>1. ppc' = "finish" /\ ppc = "call" /\ ~timed' /\ UNCHANGED <<np, merged>>
    BY <1>6 DEF PipeFails
  <2>2. NothingSent' /\ Unfinished' /\ Outcome'
    BY <1>1, <1>3, <2>1 DEF Ledger, NothingSent, Unfinished, Outcome
  <2> QED
    BY <1>1, <1>2, <2>1, <2>2, AsideKept
<1>7. CASE ForkStops \/ ResultsAllocFails
  <2>1. /\ ppc \in {"fork", "enter"} /\ ppc' \in {"fkill", "reap"}
        /\ UNCHANGED <<np, merged, timed>>
    BY <1>7 DEF ForkStops, ResultsAllocFails
  <2>2. NothingSent' /\ Unfinished' /\ Outcome'
    BY <1>1, <1>3, <2>1 DEF Ledger, NothingSent, Unfinished, Outcome
  <2> QED
    BY <1>1, <1>2, <2>1, <2>2, AsideKept
<1>8. CASE ForkEnds \/ EnterParent \/ CollectReady \/ SendStart
  <2>1. /\ ppc \in {"fork", "enter", "ready", "start"}
        /\ ppc' \in {"enter", "ready", "start", "done", "kill", "dead"}
        /\ UNCHANGED <<np, merged, timed, sent>> /\ (ppc = "fork" => pi = np)
    BY <1>8, <1>2 DEF ForkEnds, EnterParent, CollectReady, CollectBytes, SendStart, GiveUp,
       DieParent, childState
  <2>2. \A c \in Active : (ppc = "fork" => c <= pi)
    BY <1>3, <2>1 DEF Active
  <2>3. NothingSent' /\ Unfinished' /\ Outcome'
    BY <1>1, <1>3, <2>1, <2>2 DEF Ledger, NothingSent, Unfinished, Outcome, Active
  <2> QED
    BY <1>1, <1>2, <2>1, <2>3, AsideKept
<1> QED
  BY <1>4, <1>5, <1>6, <1>7, <1>8

\* A new child has written nothing.
LEMMA ForkChildRecords ==
  ASSUME IInv, Records, ppc # "dead", ForkChild
  PROVE  Records'
<1> USE DEF IInv, TypeInv, TypeOK, TypeChildren
<1>1. /\ ppc = "fork" /\ ppc' = "fork" /\ pi < np /\ pi' = pi + 1
      /\ UNCHANGED <<np, merged, timed>>
      /\ cpc' = [cpc EXCEPT ![pi + 1] = "init"] /\ sent' = [sent EXCEPT ![pi + 1] = 0]
  BY DEF ForkChild
<1>2. /\ pi \in Nat /\ np \in Nat /\ pi + 1 \in Children
      /\ Active \subseteq Children /\ \A c \in Children : c \in Nat
  <2>1. pi \in Nat /\ np \in Nat /\ np <= Parallel
    BY Numbers
  <2>2. pi + 1 \in Children
    BY <1>1, <2>1 DEF Children
  <2> QED
    BY <2>1, <2>2, ActiveIsChildren, ChildNumbers
<1>3. SentShape'
  BY <1>1, <1>2 DEF Records, SentShape
<1>4. Wholes'
  BY <1>1, CollectedKept DEF Records
<1>5. NothingSent'
  <2>1. merged = <<>> /\ \A c \in Active : c <= pi => sent[c] = 0
    BY <1>1 DEF Records, Ledger, NothingSent
  <2>2. \A c \in Active : c <= pi + 1 => sent'[c] = 0
    BY <1>1, <1>2, <2>1
  <2> QED
    BY <1>1, <2>1, <2>2 DEF NothingSent, Active
<1> QED
  BY <1>1, <1>3, <1>4, <1>5
  DEF Records, Ledger, Unfinished, Merging, OneWriter, Outcome

\* When the last `done' byte is counted, no child is before it, and none has
\* been asked.
LEMMA CollectDoneRecords ==
  ASSUME IInv, Records, ppc # "dead", CollectDone
  PROVE  Records'
<1>1. TypeInv /\ TypeParent /\ TypePipes /\ ForkedSoFar /\ Ledger /\ Phases /\ Counts
  BY DEF IInv, TypeInv, TypeOK, Sync, Records
<1>2. /\ ppc = "done" /\ UNCHANGED <<np, cpc, state, need_warmup>>
      /\ \/ pi = np /\ ppc' = "ask" /\ pi' = 0 /\ response' = response
         \/ ppc' \in {"kill", "done"}
  BY <1>1, CollectFacts DEF CollectDone
<1>3. UNCHANGED <<merged, timed, sent, resultB>> /\ UNCHANGED childState
  BY DEF CollectDone, CollectBytes, signalB, children, childState
<1>4. /\ merged = <<>> /\ resultB = 0 /\ ~timed
      /\ \A c \in Active : sent[c] = 0
      /\ \A c \in Children : cpc[c] \notin Reporting
  BY <1>1, <1>2 DEF Ledger, NothingSent, Unfinished, Phases, NothingAsked
<1>5. Collected = {} /\ Len(merged) = 0 /\ np > 0
  BY <1>1, <1>4, NoneCollected, Lengths
<1>6. CASE ppc' \in {"kill", "done"}
  <2>1. NothingSent' /\ Unfinished' /\ Outcome'
    BY <1>2, <1>3, <1>4, <1>5, <1>6 DEF NothingSent, Unfinished, Outcome, Active
  <2> QED
    BY <1>1, <1>2, <1>3, <1>6, <2>1, AsideKept
<1>7. CASE pi = np /\ ppc' = "ask" /\ pi' = 0 /\ response' = response
  <2>1. np + Len(response) <= Cardinality(DoneSet) /\ DoneSet \subseteq Active
    BY <1>1, <1>2, <1>7, DoneInActive DEF Counts
  <2>2. Cardinality(DoneSet) \in Nat /\ Len(response) \in Nat
    BY <1>1, Subsets, CountFacts, Lengths
  <2>3. DoneSet = Active
    BY <1>1, <2>1, <2>2, AllCounted, Numbers
  <2>4. Cardinality(Active) = np
    BY <1>1, Numbers, FS_Interval DEF Active
  <2>5. response = <<>>
    <3>1. Len(response) = 0 /\ response \in Seq(Children)
      BY <1>1, <2>1, <2>2, <2>3, <2>4, Lengths DEF TypePipes
    <3> QED
      BY <3>1
  <2>6. \A c \in Children : cpc[c] # "done"
    BY <1>1, <1>2, <2>3, Working DEF DoneSet, Alive
  <2>7. Collected' = {} /\ Active' = Active /\ Wholes'
    BY <1>2, <1>3, <1>5, CollectedKept DEF Records
  <2>8. Merging'
    BY <1>2, <1>3, <1>5, <1>7, <2>6, <2>7, FS_EmptySet DEF Merging
  <2>9. OneWriter'
    BY <1>1, <1>2, <1>3, <1>4, <1>7, <2>5, <2>7, ActiveIsChildren
    DEF OneWriter, Silent, Reporting
  <2>10. SentShape'
    BY <1>2, <1>3 DEF Records, SentShape
  <2> QED
    BY <1>3, <1>4, <1>7, <2>7, <2>8, <2>9, <2>10
    DEF Records, Ledger, NothingSent, Unfinished, Outcome
<1> QED
  BY <1>2, <1>6, <1>7

\* One result byte, when nobody writes.
LEMMA AskOneRecords ==
  ASSUME IInv, Records, ppc # "dead", AskOne
  PROVE  Records'
<1>1. TypeInv /\ Ledger /\ ppc = "ask" /\ UNCHANGED <<np, pi, merged, timed, response>>
      /\ UNCHANGED <<cpc, sent>> /\ UNCHANGED childState
  BY DEF IInv, Records, AskOne, children, childState
<1>2. CASE NoReader
  BY <1>1, <1>2, AsideKept DEF AskOne, DieParent, children
<1>3. CASE ~NoReader
  <2>1. ppc' = "collect" /\ rbuf' = <<>> /\ resultB' = resultB + 1
    BY <1>3 DEF AskOne
  <2>2. Active' = Active /\ Collected' = Collected /\ Wholes'
    BY <1>1, CollectedKept DEF Records
  <2>3. SentShape'
    BY <1>1 DEF Records, SentShape
  <2>4. OneWriter'
    BY <1>1, <2>1, <2>2 DEF Ledger, OneWriter, AllSilent, Silent
  <2>5. Merging'
    BY <1>1, <2>1, <2>2 DEF Ledger, Merging
  <2> QED
    BY <1>1, <2>1, <2>2, <2>3, <2>4, <2>5
    DEF Records, Ledger, NothingSent, Unfinished, Outcome
<1> QED
  BY <1>2, <1>3

\* A read moves bytes of one writer from the pipe to the buffer.
LEMMA MoveFacts ==
  ASSUME NEW S, NEW s \in Seq(S), NEW t \in Seq(S), NEW k \in 0..Len(t), NEW w \in S,
         AllFrom(s, w), AllFrom(t, w)
  PROVE  /\ Len(s \o SubSeq(t, 1, k)) + Len(SubSeq(t, k + 1, Len(t))) = Len(s) + Len(t)
         /\ AllFrom(s \o SubSeq(t, 1, k), w)
         /\ AllFrom(SubSeq(t, k + 1, Len(t)), w)
<1> DEFINE u == SubSeq(t, 1, k)
           v == SubSeq(t, k + 1, Len(t))
<1> USE DEF AllFrom
<1>1. Len(s) \in Nat /\ Len(t) \in Nat /\ k \in Nat /\ k <= Len(t)
  OBVIOUS
<1>2. u \in Seq(S) /\ Len(u) = k /\ Len(v) = Len(t) - k
  BY ReadFacts
<1>3. \A j \in 1..k : u[j] = t[j]
  BY <1>1
<1>4. \A j \in 1..(Len(t) - k) : v[j] = t[k + j]
  BY <1>1
<1> HIDE DEF u, v
<1>5. /\ Len(s \o u) = Len(s) + Len(u)
      /\ \A j \in 1..(Len(s) + Len(u)) :
           (s \o u)[j] = IF j <= Len(s) THEN s[j] ELSE u[j - Len(s)]
  BY <1>2, ConcatProperties
<1>6. \A j \in 1..Len(s \o u) : (s \o u)[j] = w
  <2> SUFFICES ASSUME NEW j \in 1..Len(s \o u) PROVE (s \o u)[j] = w
    OBVIOUS
  <2>1. CASE j <= Len(s)
    BY <1>1, <1>2, <1>5, <2>1
  <2>2. CASE ~(j <= Len(s))
    <3>1. j - Len(s) \in 1..k
      BY <1>1, <1>2, <1>5, <2>2
    <3> QED
      BY <1>1, <1>2, <1>3, <1>5, <2>2, <3>1
  <2> QED
    BY <2>1, <2>2
<1>7. \A j \in 1..Len(v) : v[j] = w
  BY <1>1, <1>2, <1>4
<1>8. Len(s \o u) + Len(v) = Len(s) + Len(t)
  BY <1>1, <1>2, <1>5
<1> QED
  BY <1>6, <1>7, <1>8 DEF u, v

\* Reading bytes of a record, and merging it when it is whole: the records
\* are of one child each, and of one more child than before.
LEMMA CollectResultRecords ==
  ASSUME IInv, Records, ppc # "dead", CollectResult
  PROVE  Records'
<1>1. /\ TypeInv /\ TypeParent /\ TypePipes /\ Ledger /\ ppc = "collect" /\ pi < np
      /\ UNCHANGED <<np, timed, resultB>> /\ UNCHANGED <<cpc, sent>> /\ UNCHANGED childState
  BY DEF IInv, TypeInv, TypeOK, InLoop, Records, CollectResult, signalB, children, childState
<1>2. /\ Len(merged) \in Nat /\ Len(rbuf) \in Nat /\ Len(response) \in Nat
      /\ np \in Nat /\ pi \in Nat
  BY <1>1, Lengths
<1>3. SentShape'
  BY <1>1 DEF Records, SentShape
<1>4. CASE RecordRead
  <2>1. /\ merged' = Append(merged, rbuf) /\ ppc' = "ask" /\ pi' = pi + 1
        /\ UNCHANGED <<rbuf, response>>
    BY <1>4 DEF CollectResult
  <2>2. PICK w \in Active : Writing(w)
    BY <1>1, <1>4, EmptySeqFacts DEF Ledger, OneWriter, AllSilent, RecordRead
  <2>3. w \in Children /\ sent[w] \in 0..Chunks
    BY <1>1, ActiveIsChildren DEF TypeInv, TypeOK, TypeChildren
  <2>4. sent[w] = Chunks /\ Len(response) = 0
    BY <1>2, <1>4, <2>2, <2>3 DEF Writing, RecordRead
  <2>5. response = <<>>
    BY <1>1, <2>4 DEF TypePipes
  <2>6. rbuf = Whole(w)
    <3>1. rbuf \in [1..Chunks -> Children]
      BY <1>1, <1>4, LenProperties DEF TypeParent, RecordRead
    <3>2. \A j \in 1..Chunks : rbuf[j] = w
      BY <1>4, <2>2 DEF Writing, AllFrom, RecordRead
    <3> QED
      BY <3>1, <3>2 DEF Whole
  <2>7. /\ Len(merged') = Len(merged) + 1 /\ merged'[Len(merged) + 1] = Whole(w)
        /\ \A k \in 1..Len(merged) : merged'[k] = merged[k]
    <3>1. merged \in Seq(Seq(Children)) /\ rbuf \in Seq(Children)
      BY <1>1 DEF TypeParent
    <3> QED
      BY <2>1, <2>6, <3>1, AppendProperties
  <2>8. Active' = Active /\ Collected' = Collected \cup {w}
    <3>1. Active' = Active
      BY <1>1 DEF Active
    <3>2. ASSUME NEW c \in Active PROVE c \in Collected' <=> c \in Collected \cup {w}
      <4>1. CASE c \in Collected
        BY <1>2, <2>7, <3>1, <4>1 DEF Collected, Whole
      <4>2. CASE c = w
        BY <1>2, <2>7, <3>1, <4>2 DEF Collected, Whole
      <4>3. ASSUME c \in Collected', c # w PROVE c \in Collected
        <5>1. PICK k \in 1..Len(merged') : merged'[k] = Whole(c)
          BY <4>3 DEF Collected, Whole
        <5>2. Whole(c)[1] = c /\ Whole(w)[1] = w
          BY DEF Whole
        <5>3. k # Len(merged) + 1
          BY <2>7, <4>3, <5>1, <5>2
        <5>4. k \in 1..Len(merged)
          BY <1>2, <2>7, <5>1, <5>3
        <5> QED
          BY <2>7, <5>1, <5>4 DEF Collected
      <4> QED
        BY <4>1, <4>2, <4>3
    <3>3. Collected \subseteq Active /\ Collected' \subseteq Active
      BY <3>1 DEF Collected
    <3> QED
      BY <3>1, <3>2, <3>3
  <2>9. Wholes'
    <3> SUFFICES ASSUME NEW k \in 1..Len(merged') PROVE \E c \in Active : merged'[k] = Whole(c)
      BY <2>8 DEF Wholes, Whole
    <3>1. k \in 1..Len(merged) \/ k = Len(merged) + 1
      BY <1>2, <2>7
    <3> QED
      BY <2>7, <3>1 DEF Records, Wholes
  <2>10. Cardinality(Collected') = Cardinality(Collected) + 1
    BY <1>1, <2>2, <2>8, CollectedFinite, FS_AddElement DEF Writing
  <2>11. Merging'
    <3>1. Len(merged) = pi /\ Cardinality(Collected) = pi
      BY <1>1 DEF Ledger, Merging
    <3>2. Len(merged') = pi' /\ Cardinality(Collected') = pi'
      BY <2>1, <2>7, <2>10, <3>1
    <3>3. \A c \in Collected' : sent'[c] = Chunks
      BY <1>1, <2>4, <2>8 DEF Ledger, Merging
    <3> QED
      BY <1>1, <3>2, <3>3 DEF Ledger, Merging
  <2>12. OneWriter'
    BY <1>1, <2>1, <2>2, <2>5, <2>8 DEF OneWriter, Writing, Silent
  <2> QED
    BY <1>1, <1>3, <2>1, <2>9, <2>11, <2>12
    DEF Records, Ledger, NothingSent, Unfinished, Outcome
<1>5. CASE ~RecordRead /\ Failed
  <2>1. ppc' = "kill" /\ UNCHANGED merged
    BY <1>5 DEF CollectResult, GiveUp
  <2>2. NothingSent' /\ Unfinished' /\ Outcome'
    BY <1>1, <1>2, <2>1 DEF Ledger, Merging, NothingSent, Unfinished, Outcome
  <2> QED
    BY <1>1, <2>1, <2>2, AsideKept
<1>6. CASE ~RecordRead /\ ~Failed
  <2> DEFINE k == Available(Chunks - Len(rbuf))
  <2>1. /\ ppc' = ppc /\ pi' = pi /\ merged' = merged /\ response # <<>>
        /\ rbuf' = rbuf \o SubSeq(response, 1, k)
        /\ response' = SubSeq(response, k + 1, Len(response))
    BY <1>6 DEF CollectResult
  <2>2. k \in 0..Len(response)
    <3>1. Chunks - Len(rbuf) \in Nat
      BY <1>1, <1>2 DEF TypeParent
    <3> QED
      BY <1>1, <3>1, AvailableFacts
  <2> HIDE DEF k
  <2>3. PICK w \in Active : Writing(w)
    BY <1>1, <2>1 DEF Ledger, OneWriter, AllSilent
  <2>4. Active' = Active /\ Collected' = Collected /\ Wholes'
    BY <1>1, <2>1, CollectedKept DEF Records
  <2>5. /\ Len(rbuf') + Len(response') = Len(rbuf) + Len(response)
        /\ AllFrom(rbuf', w) /\ AllFrom(response', w)
    <3>1. rbuf \in Seq(Children) /\ response \in Seq(Children) /\ w \in Children
      BY <1>1, <2>3, ActiveIsChildren DEF TypeParent, TypePipes
    <3>2. AllFrom(rbuf, w) /\ AllFrom(response, w)
      BY <2>3 DEF Writing
    <3>3. /\ Len(rbuf \o SubSeq(response, 1, k)) + Len(SubSeq(response, k + 1, Len(response)))
               = Len(rbuf) + Len(response)
          /\ AllFrom(rbuf \o SubSeq(response, 1, k), w)
          /\ AllFrom(SubSeq(response, k + 1, Len(response)), w)
      BY <2>2, <3>1, <3>2, MoveFacts
    <3> QED
      BY <2>1, <3>3
  <2>6. Writing(w)'
    BY <1>1, <2>3, <2>4, <2>5 DEF Writing, Silent
  <2>7. OneWriter'
    BY <1>1, <2>1, <2>4, <2>6 DEF OneWriter
  <2>8. Merging'
    BY <1>1, <2>1, <2>4 DEF Ledger, Merging
  <2> QED
    BY <1>1, <1>3, <2>1, <2>4, <2>7, <2>8
    DEF Records, Ledger, NothingSent, Unfinished, Outcome
<1> QED
  BY <1>4, <1>5, <1>6

\* All children are collected when the loop ends.
LEMMA AllCollected ==
  ASSUME TypeInv, Ledger, ppc = "ask", pi = np
  PROVE  Len(merged) = np /\ \A c \in Active : c \in Collected /\ sent[c] = Chunks
<1>1. TypeParent
  BY DEF TypeInv, TypeOK
<1>2. /\ Len(merged) = np /\ Cardinality(Collected) = np
      /\ \A c \in Collected : sent[c] = Chunks
  BY DEF Ledger, Merging
<1>3. Collected = Active
  BY <1>1, <1>2, CollectedFinite, AllCounted, Numbers
<1> QED
  BY <1>2, <1>3

\* The exit bytes.
LEMMA ReleaseRecords ==
  ASSUME IInv, Records, ppc # "dead", Release
  PROVE  Records'
<1>1. /\ TypeInv /\ Ledger /\ ppc = "ask" /\ pi = np
      /\ UNCHANGED <<np, merged, cpc, sent>> /\ UNCHANGED childState
      /\ ppc' \in {"dead", "reap"}
  BY DEF IInv, Records, Release, children, childState
<1>2. Len(merged) = np /\ \A c \in Active : c \in Collected /\ sent[c] = Chunks
  BY <1>1, AllCollected
<1>3. Active' = Active /\ Collected' = Collected
  BY <1>1, CollectedKept
<1>4. NothingSent' /\ Unfinished' /\ Outcome'
  BY <1>1, <1>2, <1>3 DEF Ledger, NothingSent, Unfinished, Outcome
<1> QED
  BY <1>1, <1>4, AsideKept

\* The ends of a round, and the loops that kill and wait.
LEMMA LateRecords ==
  ASSUME IInv, Records, ppc # "dead",
         ForkKill \/ ForkWait \/ Reap \/ AlarmRings \/ ReapEnds \/ Kill \/ KillWait
  PROVE  Records'
<1>1. /\ TypeInv /\ Ledger
      /\ UNCHANGED <<np, merged, timed>>
      /\ ppc \in {"fkill", "fwait", "reap", "reaplate", "kill", "killwait"}
      /\ ppc' \in {"fkill", "fwait", "reap", "reaplate", "kill", "killwait", "finish"}
      /\ ppc \notin {"reap", "reaplate"} => ppc' \in {"reap", "finish"} \/ ~(ppc' \in {"reap", "reaplate", "finish"})
      /\ ppc \in {"reap", "reaplate"} => ppc' \in {"reap", "reaplate", "finish"}
  BY DEF IInv, Records, ForkKill, ForkWait, Reap, AlarmRings, ReapEnds, Kill, KillWait
<1>2. UNCHANGED childState /\ \A d \in Children : cpc'[d] = cpc[d] \/ (Dead(d) /\ cpc'[d] = "gone")
  BY <1>1, ParentMoves DEF ParentStep, ForkChild
<1>3. Active' = Active /\ Collected' = Collected
  BY <1>1, CollectedKept
<1>4. Len(merged) \in Nat /\ np \in Nat
  BY <1>1, Lengths
<1>5. NothingSent' /\ Unfinished'
  BY <1>1 DEF Ledger, NothingSent, Unfinished
<1>6. Outcome'
  BY <1>1, <1>2, <1>3, <1>4 DEF Ledger, Unfinished, Outcome, childState
<1> QED
  BY <1>1, <1>2, <1>5, <1>6, AsideKept

\* The round with all children begins after a baseline of one record.
LEMMA FinishRecords ==
  ASSUME IInv, Records, ppc # "dead", FinishRound
  PROVE  Records'
<1>1. /\ TypeInv /\ TypeParent /\ Ledger /\ ppc = "finish"
      /\ UNCHANGED <<merged, timed, cpc, sent>> /\ UNCHANGED childState
  BY DEF IInv, TypeInv, TypeOK, Records, FinishRound, children, childState
<1>2. CASE np < Parallel /\ timed
  <2>1. ppc' = "call" /\ np' = Parallel /\ Len(merged) = np
    BY <1>1, <1>2 DEF FinishRound, Ledger, Outcome
  <2>2. Active \subseteq Active'
    BY <1>1, <1>2, <2>1, Numbers DEF Active
  <2>3. Wholes'
    BY <1>1, <2>2 DEF Records, Wholes, Whole
  <2>4. SentShape'
    BY <1>1 DEF Records, SentShape
  <2> QED
    BY <1>1, <1>2, <2>1, <2>3, <2>4
    DEF Records, Ledger, NothingSent, Unfinished, Merging, OneWriter, Outcome
<1>3. CASE ~(np < Parallel /\ timed)
  <2>1. ppc' = "returned" /\ UNCHANGED np
    BY <1>3 DEF FinishRound
  <2>2. Active' = Active /\ Collected' = Collected
    BY <1>1, <2>1, CollectedKept
  <2>3. NothingSent' /\ Unfinished' /\ Outcome'
    BY <1>1, <2>1, <2>2 DEF Ledger, NothingSent, Unfinished, Outcome
  <2> QED
    BY <1>1, <2>1, <2>3, AsideKept
<1> QED
  BY <1>2, <1>3

\* No record has been written at the start.
LEMMA RecordsInit == Init => Records
<1> SUFFICES ASSUME Init PROVE Records
  OBVIOUS
<1>1. Len(merged) = 0 /\ np = 1 /\ ppc = "call" /\ ~timed
  BY EmptySeqFacts DEF Init
<1>2. SentShape
  BY DEF Init, SentShape
<1> QED
  BY <1>1, <1>2 DEF Records, Wholes, Ledger, NothingSent, Unfinished, Merging, OneWriter, Outcome

\* A child without a parent goes on with its record as before.
LEMMA DeadRecords ==
  ASSUME TypeInv, Records, ppc = "dead", NEW c \in Children,
         ChildStep(c) \/ TakeTerm(c) \/ ChildFails(c)
  PROVE  Records'
<1>1. /\ UNCHANGED <<ppc, np, merged>> /\ Alive(c)
      /\ \A d \in Children : d # c => cpc'[d] = cpc[d] /\ sent'[d] = sent[d]
  BY ChildMoves
<1>2. Wholes'
  BY <1>1, CollectedKept DEF Records
<1> USE DEF TypeInv, TypeOK, TypeChildren
<1> SUFFICES /\ sent'[c] # 0 => cpc'[c] \in {"report", "cleanup", "exitread", "zombie", "gone"}
             /\ cpc'[c] \in {"cleanup", "exitread"} => sent'[c] = Chunks
  BY <1>1, <1>2 DEF Records, SentShape
<1>3. CASE Report(c)
  <2>1. cpc[c] = "report" /\ sent[c] \in 0..Chunks /\ sent'[c] = sent[c] + 1
    BY <1>3 DEF Report
  <2>2. sent[c] < Chunks
    BY <2>1 DEF Room
  <2> QED
    BY <1>3, <2>1, <2>2 DEF Report, Respond, Goto, ExitChild, AfterByte
<1>4. CASE FinalCleanup(c) \/ ReadExit(c) \/ TakeTerm(c) \/ ChildFails(c)
  BY <1>4 DEF Records, SentShape, FinalCleanup, ReadExit, TakeTerm, ChildFails, Goto, ExitChild,
     childState
<1>5. CASE ~(Report(c) \/ FinalCleanup(c) \/ ReadExit(c) \/ TakeTerm(c) \/ ChildFails(c))
  <2>1. sent' = sent /\ cpc[c] \notin {"report", "cleanup", "exitread", "zombie", "gone"}
    BY <1>5, <1>1 DEF ChildStep, StartChild, StopInterval, OrphanExits, PollStart, ReadStart,
       SendReady, Measure, MeasureWith, SendDone, PollResult, ReadResult, Restart, childState
  <2>2. cpc'[c] \notin {"cleanup", "exitread"}
    BY <1>5 DEF ChildStep, StartChild, StopInterval, OrphanExits, PollStart, ReadStart,
       SendReady, Measure, MeasureWith, SendDone, PollResult, ReadResult, Restart,
       Goto, ExitChild, Respond, AfterPoll
  <2> QED
    BY <2>1, <2>2 DEF Records, SentShape
<1> QED
  BY <1>3, <1>4, <1>5

\* Every step keeps the records in order.
LEMMA RecordsStep == IInv /\ Records /\ [Next]_vars => Records'
<1> SUFFICES ASSUME IInv, Records, [Next]_vars PROVE Records'
  OBVIOUS
<1>1. TypeInv
  BY DEF IInv
<1>2. CASE UNCHANGED vars
  <2>1. UNCHANGED <<parentVars, pipes, cpc, sent>>
    BY <1>2 DEF vars, children
  <2>2. Active' = Active /\ Collected' = Collected /\ Wholes'
    BY <2>1, CollectedKept DEF Records, parentVars
  <2>3. Ledger => Ledger'
    BY <2>1, <2>2 DEF Ledger, NothingSent, Unfinished, Merging, OneWriter, Outcome, AllSilent,
       Writing, Silent, parentVars, pipes
  <2> QED
    BY <2>1, <2>2, <2>3 DEF Records, SentShape, parentVars
<1>3. ASSUME NEW c \in Children, ChildStep(c) \/ TakeTerm(c) \/ ChildFails(c)
      PROVE  Records'
  BY <1>1, <1>3, ChildRecords, DeadRecords
<1>4. CASE UserTerm \/ ParentDies
  <2>1. /\ ppc # "dead" /\ UNCHANGED <<np, pi, rbuf, merged, timed, response, resultB>>
        /\ UNCHANGED childState /\ UNCHANGED <<cpc, sent>> /\ ppc' \in {ppc, "dead"}
    BY <1>4 DEF UserTerm, ParentDies, DieParent, parentVars, pipes, signalB, children, childState
  <2>2. Active' = Active /\ Collected' = Collected /\ Wholes'
    BY <2>1, CollectedKept DEF Records
  <2>3. ppc' # "dead" => Ledger'
    BY <2>1, <2>2 DEF Records, Ledger, NothingSent, Unfinished, Merging, OneWriter, Outcome,
       AllSilent, Writing, Silent
  <2> QED
    BY <2>1, <2>2, <2>3 DEF Records, SentShape
<1>5. CASE ParentStep \/ AlarmRings \/ (ParentFault /\ ~UserTerm /\ ~ParentDies)
  <2>1. ppc # "dead"
    BY <1>5 DEF ParentStep, EnterRound, Prepare, ForkChild, ForkStops, ForkEnds,
       ForkKill, ForkWait, Reap, ReapEnds, FinishRound, EnterParent,
       CollectReady, CollectDone, CollectBytes, SendStart, AskOne,
       CollectResult, Release, Kill, KillWait, AlarmRings, ParentFault, PipeFails,
       PidsAllocFails, ResultsAllocFails
  <2> QED
    BY <1>5, <2>1, EarlyRecords, ForkChildRecords, CollectDoneRecords, AskOneRecords,
       CollectResultRecords, ReleaseRecords, LateRecords, FinishRecords
    DEF ParentStep, ParentFault
<1> QED
  BY <1>2, <1>3, <1>4, <1>5 DEF Next, Terminated, ParentFault

\* The records of every call of benchmp() are in order: what the parent of
\* lib_timing.c has read or can read is from the one child that took the
\* result byte, and what it merged is a whole record of each child in turn.
THEOREM RecordsInvariant == Spec => []Records
<1> QED
  BY HandshakeInvariant, RecordsInit, RecordsStep, PTL DEF Spec

\* Every record that is read or merged has one writer.
LEMMA UnmixedFollows == IInv /\ Records => ResultsUnmixed
<1> SUFFICES ASSUME IInv, Records PROVE ResultsUnmixed
  OBVIOUS
<1>1. \A k \in 1..Len(merged) : \E c \in Active : merged[k] = [j \in 1..Chunks |-> c]
  BY DEF Records, Wholes, Whole
<1>2. ASSUME ppc = "collect"
      PROVE  \E c \in Active : AllFrom(rbuf, c) /\ AllFrom(response, c)
  <2>1. CASE AllSilent
    <3>1. 1 \in Active
      BY Numbers DEF IInv, TypeInv, TypeOK, Active
    <3>2. AllFrom(rbuf, 1) /\ AllFrom(response, 1)
      BY <2>1, EmptySeqFacts DEF AllSilent, AllFrom
    <3> QED
      BY <3>1, <3>2
  <2>2. CASE \E w \in Active : Writing(w)
    BY <2>2 DEF Writing
  <2> QED
    BY <1>2, <2>1, <2>2 DEF Records, Ledger, OneWriter
<1> QED
  BY <1>1, <1>2 DEF ResultsUnmixed, AllFrom

\* The bytes of a record come from one child, for any number of children,
\* sizes of records and of pipes: `only one child is trying to send its
\* results back' of benchmp_interval().
THEOREM Unmixed == Spec => []ResultsUnmixed
BY HandshakeInvariant, RecordsInvariant, UnmixedFollows, PTL

\* A time is only left by a round that has merged them all.
LEMMA CompleteFollows == Records => TimedIsComplete
BY DEF Records, Ledger, Unfinished, Outcome, TimedIsComplete, Collected, Whole

\* A call that leaves a time has one whole record of each of its children,
\* whatever failed on the way.
THEOREM Complete == Spec => []TimedIsComplete
BY RecordsInvariant, CompleteFollows, PTL

----------------------------------------------------------------------------
(* A round without faults.                                                 *)

\* Nothing has happened at the start.
LEMMA CalmInit == Init => Calm
BY DEF Init, Calm, Engaged

\* A fault is counted, and nothing takes it back.
LEMMA FaultsGrow ==
  ASSUME TypeInv, [Next]_vars, faults' = 0
  PROVE  /\ faults = 0
         /\ ~ParentFault /\ \A c \in Children : ~ChildFails(c)
<1>1. faults \in Nat
  BY DEF TypeInv, TypeOK, TypeParent
<1>2. ASSUME NEW kind PROVE ~Fault(kind)
  BY <1>1 DEF Fault
<1>3. ~ParentFault /\ \A c \in Children : ~ChildFails(c)
  BY <1>2 DEF ParentFault, PipeFails, PidsAllocFails, ResultsAllocFails, UserTerm, ParentDies,
     ChildFails
<1>4. ASSUME ParentStep \/ AlarmRings PROVE faults = 0
  BY <1>2, <1>4 DEF ParentStep, EnterRound, Prepare, ForkChild, ForkStops, ForkEnds,
       ForkKill, ForkWait, Reap, ReapEnds, FinishRound, EnterParent,
       CollectReady, CollectDone, CollectBytes, SendStart, AskOne,
       CollectResult, Release, Kill, KillWait, AlarmRings
<1>5. ASSUME NEW c \in Children, ChildStep(c) \/ TakeTerm(c)
      PROVE  faults = 0
  BY <1>5 DEF ChildStep, StartChild, StopInterval, OrphanExits, PollStart,
         ReadStart, SendReady, Measure, MeasureWith, SendDone, PollResult,
         ReadResult, Report, FinalCleanup, ReadExit, Restart, TakeTerm, ParentIdle
<1> QED
  BY <1>5, <1>3, <1>4 DEF Next, Terminated, vars

\* Without a fault the parent's pipes are open until the exit bytes.
LEMMA EngagedOpen ==
  ASSUME IInv, Engaged
  PROVE  open
BY DEF IInv, Sync, Phases, BeforeStart, AfterStart, Engaged

\* No child of the round ends before the exit bytes.
LEMMA CalmChild ==
  ASSUME IInv, Calm, faults = 0, faults' = 0, NEW c \in Children, ChildStep(c) \/ TakeTerm(c)
  PROVE  Calm'
<1> USE DEF IInv, TypeInv, TypeOK, TypeChildren, TypePipes
<1>1. /\ UNCHANGED <<ppc, np, pi, termSeen, open>> /\ Alive(c)
      /\ \A d \in Children : d # c => cpc'[d] = cpc[d]
  BY ChildMoves
<1>2. Active' = Active /\ Engaged' = Engaged /\ ppc # "dead"
  BY <1>1 DEF Active, Engaged, Calm
<1>3. CASE ~Engaged
  BY <1>1, <1>2, <1>3 DEF Calm
<1>4. CASE Engaged
  <2>1. open /\ ~chldSeen /\ exitB = 0 /\ c \in Active
    BY <1>1, <1>2, <1>4, EngagedOpen, Working DEF Calm, Sync
  <2>2. ppc = "fork" => c <= pi
    BY <1>1, <1>2, ChildNumbers, Numbers DEF Sync, ForkedSoFar, LeftBehind, Waited, Alive
  <2>3. ~term[c] /\ ~tflag[c]
    BY <1>4, <2>1, <2>2 DEF Calm, Untouched
  <2>4. UNCHANGED <<chldSeen, exitB, term, tflag>> /\ cpc'[c] \notin {"none", "zombie", "gone"}
    <3>1. CASE StartChild(c) \/ StopInterval(c) \/ OrphanExits(c) \/ PollStart(c) \/ ReadStart(c)
      BY <1>2, <2>1, <2>3, <3>1 DEF StartChild, StopInterval, OrphanExits, PollStart, ReadStart,
         AfterPoll, Goto, chldVars, pipes, childSig
    <3>2. CASE SendReady(c) \/ SendDone(c)
      BY <2>1, <3>2 DEF SendReady, SendDone, Respond, Goto, chldVars, signalB, childSig
    <3>3. CASE Measure(c)
      BY <2>1, <3>3 DEF Measure, MeasureWith, Goto, chldVars, pipes, childSig
    <3>4. CASE PollResult(c) \/ ReadResult(c)
      BY <2>1, <3>4 DEF PollResult, ReadResult, Goto, chldVars, pipes, signalB, childSig
    <3>5. CASE Report(c) \/ FinalCleanup(c) \/ Restart(c)
      BY <2>1, <3>5 DEF Report, FinalCleanup, Restart, AfterByte, Respond, Goto, chldVars,
         pipes, signalB, childSig
    <3>6. ~ReadExit(c) /\ ~TakeTerm(c)
      BY <2>1, <2>3 DEF ReadExit, TakeTerm
    <3> QED
      BY <3>1, <3>2, <3>3, <3>4, <3>5, <3>6 DEF ChildStep
  <2>5. \A d \in Active : Untouched(d) => Untouched(d)'
    BY <1>1, <2>4, ActiveIsChildren DEF Untouched, Alive
  <2> QED
    BY <1>1, <1>2, <1>4, <2>4, <2>5 DEF Calm
<1> QED
  BY <1>3, <1>4

\* The parent meets no failure.
LEMMA CalmParent ==
  ASSUME IInv, Calm, faults = 0, faults' = 0, ParentStep \/ AlarmRings
  PROVE  Calm'
<1> USE DEF TypeInv, TypeOK, TypeChildren
<1>1. TypeInv /\ ppc # "dead" /\ ForkedSoFar /\ ~termSeen
  BY DEF IInv, Calm, Sync
<1>2. /\ np \in Nat /\ 0 < np /\ np <= Parallel /\ pi \in Nat
      /\ Active \subseteq Children /\ 1 \in Active
  BY <1>1, Numbers, ActiveIsChildren DEF Active
<1>3. CASE EnterRound
  BY <1>2, <1>3 DEF EnterRound, Prepare, Calm, Engaged, Active
<1>4. CASE ForkChild
  <2>1. /\ ppc = "fork" /\ ppc' = "fork" /\ pi' = pi + 1 /\ pi + 1 \in Children
        /\ UNCHANGED <<np, termSeen, chldSeen, exitB>>
        /\ cpc' = [cpc EXCEPT ![pi + 1] = "init"]
        /\ term' = [term EXCEPT ![pi + 1] = FALSE]
        /\ tflag' = [tflag EXCEPT ![pi + 1] = FALSE]
    BY <1>2, <1>4 DEF ForkChild, termVars, chldVars, pipes, Children
  <2>2. ~chldSeen /\ exitB = 0 /\ \A c \in Active : c <= pi => Untouched(c)
    BY <2>1 DEF Calm, Engaged
  <2>3. \A c \in Active : c <= pi + 1 => c <= pi \/ c = pi + 1
    BY <1>2 DEF Active
  <2>4. \A c \in Active : c <= pi + 1 => Untouched(c)'
    BY <1>1, <1>2, <2>1, <2>2, <2>3 DEF Untouched, Alive
  <2> QED
    BY <1>1, <2>1, <2>2, <2>4 DEF Calm, Engaged, Active
<1>5. CASE ForkEnds \/ EnterParent \/ CollectReady \/ CollectDone \/ CollectResult
  <2>1. /\ UNCHANGED <<np, termSeen, chldSeen, exitB, cpc, term, tflag>>
        /\ ppc \in {"fork", "enter", "ready", "done", "collect"}
        /\ ppc = "fork" => pi = np
    BY <1>5 DEF ForkEnds, EnterParent, CollectReady, CollectDone, CollectBytes, CollectResult,
       termVars, chldVars, pipes, signalB, children
  <2>2. ~Failed
    BY <1>1, <2>1 DEF Calm, Engaged, Failed
  <2>3. ppc' \in {"enter", "ready", "start", "done", "ask", "collect"}
    BY <1>5, <2>2 DEF ForkEnds, EnterParent, CollectReady, CollectDone, CollectBytes, CollectResult
  <2>4. \A c \in Active : Untouched(c)
    BY <1>2, <2>1 DEF Calm, Engaged, Active
  <2> QED
    BY <1>1, <2>1, <2>3, <2>4 DEF Calm, Engaged, Active, Untouched, Alive
<1>6. CASE SendStart \/ AskOne \/ Release
  <2>1. ppc \in {"start", "ask"} /\ UNCHANGED <<np, termSeen, chldSeen, cpc, term, tflag>>
    BY <1>6 DEF SendStart, AskOne, Release, termVars, chldVars, children
  <2>2. \A c \in Active : Untouched(c)
    BY <2>1 DEF Calm, Engaged
  <2>3. ~NoReader
    BY <1>2, <2>2 DEF NoReader, Untouched
  <2>4. (ppc' \in {"done", "collect"} /\ exitB' = exitB) \/ ppc' = "reap"
    BY <1>6, <2>3 DEF SendStart, AskOne, Release
  <2> QED
    BY <1>1, <2>1, <2>2, <2>4 DEF Calm, Engaged, Active, Untouched, Alive
<1>7. CASE Reap \/ ReapEnds \/ FinishRound \/ AlarmRings
  BY <1>7 DEF Reap, ReapEnds, FinishRound, AlarmRings, termVars, Calm, Engaged
<1>8. ~ForkStops /\ ~ForkKill /\ ~ForkWait /\ ~Kill /\ ~KillWait
  BY <1>1 DEF ForkStops, ForkKill, ForkWait, Kill, KillWait, Fault, Calm, TypeParent
<1> QED
  BY <1>3, <1>4, <1>5, <1>6, <1>7, <1>8 DEF ParentStep

\* A step without a fault leaves the children of the round alive.
LEMMA CalmStep == IInv /\ Calm /\ [Next]_vars => Calm'
<1> SUFFICES ASSUME IInv, Calm, [Next]_vars, faults' = 0 PROVE Calm'
  BY DEF Calm
<1>1. faults = 0 /\ ~ParentFault /\ \A c \in Children : ~ChildFails(c)
  BY FaultsGrow DEF IInv
<1>2. CASE UNCHANGED vars
  BY <1>2 DEF vars, parentVars, termVars, chldVars, pipes, children, Calm, Engaged, Active,
     Untouched, Alive
<1> QED
  BY <1>1, <1>2, CalmChild, CalmParent DEF Next, Terminated

\* Without a fault the parent never takes an error exit: no child ends before
\* the exit bytes, so that the SIGCHLD that benchmp_sigchld counts as a failure
\* is one.
THEOREM Managed == Spec => []ManagedChildrenLive
<1>1. Spec => [](IInv /\ Calm)
  BY HandshakeInvariant, CalmInit, CalmStep, PTL DEF Spec
<1>2. Calm => ManagedChildrenLive
  BY DEF Calm, ManagedChildrenLive
<1> QED
  BY <1>1, <1>2, PTL

----------------------------------------------------------------------------
(* The harness implements a measurement session.                           *)

\* What the steps of the proof conclude.
Maps == Session!Next \/ UNCHANGED <<np, TeamPhase, TeamVerdict>>

\* The round is given up: a step to such a state fails the session.
LEMMA FailMaps ==
  ASSUME UNCHANGED np, GivenUp'
  PROVE  Maps
<1>1. TeamVerdict' = "failed" /\ TeamPhase' = [c \in Children |-> "lost"]
  BY DEF TeamVerdict, TeamPhase, Children
<1> QED
  BY <1>1 DEF Maps, Session!Next, Session!Fail, Session!AllLost, Session!Workers, Children

\* The session sees nothing of the step.
LEMMA StutterMaps ==
  ASSUME UNCHANGED np, ~GivenUp, ~GivenUp',
         \A c \in Children : PhaseOf(c)' = PhaseOf(c),
         ppc \in {"reap", "reaplate", "finish", "returned"}
           <=> ppc' \in {"reap", "reaplate", "finish", "returned"}
  PROVE  Maps
BY DEF Maps, TeamPhase, TeamVerdict, Children

\* The session begins where benchmp() does.
LEMMA InitMaps == Init => Session!Init
<1> SUFFICES ASSUME Init PROVE Session!Init
  OBVIOUS
<1>1. ~GivenUp /\ ppc = "call" /\ np = 1
  BY DEF Init, GivenUp
<1>2. TeamPhase = [c \in Children |-> "out"]
  BY <1>1 DEF TeamPhase, PhaseOf, NotForked
<1> QED
  BY <1>1, <1>2 DEF Session!Init, Session!AllOut, Session!Workers, TeamVerdict, Children

\* The phase of a forked child, without the cases.
PhaseNow(c) ==
  IF sent[c] = Chunks THEN "reported"
  ELSE IF Dead(c) THEN "lost"
  ELSE IF need_warmup[c] THEN "out"
  ELSE IF state[c] = "warmup" THEN "loaded"
  ELSE IF state[c] = "timing_interval" THEN "timed"
  ELSE IF cpc[c] = "report" THEN "reporting"
  ELSE "stopped"

\* A worker's phase, from its place in the code.
LEMMA PhaseIs ==
  TypeChildren =>
    \A c \in Children : PhaseOf(c) = IF NotForked(c) THEN "out" ELSE PhaseNow(c)
<1> SUFFICES ASSUME TypeChildren, NEW c \in Children
             PROVE  PhaseOf(c) = IF NotForked(c) THEN "out" ELSE PhaseNow(c)
  OBVIOUS
<1>1. /\ sent[c] = Chunks \/ sent[c] < Chunks
      /\ sent[c] \in 0..Chunks
      /\ state[c] \in {"warmup", "timing_interval", "cooldown"}
      /\ need_warmup[c] \in BOOLEAN
  BY DEF TypeChildren, Modes
<1>2. CASE NotForked(c)
  BY <1>2 DEF PhaseOf
<1>3. CASE ~NotForked(c) /\ sent[c] = Chunks
  BY <1>3 DEF PhaseOf, PhaseNow
<1>4. CASE ~NotForked(c) /\ sent[c] < Chunks
  BY <1>1, <1>4 DEF PhaseOf, PhaseNow
<1> QED
  BY <1>1, <1>2, <1>3, <1>4

\* The same after a step.
LEMMA PhaseIsPrimed ==
  TypeChildren' =>
    \A c \in Children : PhaseOf(c)' = IF NotForked(c)' THEN "out" ELSE PhaseNow(c)'
<1>1. (TypeChildren =>
        \A c \in Children : PhaseOf(c) = IF NotForked(c) THEN "out" ELSE PhaseNow(c))'
  BY PhaseIs, PTL
<1> QED
  BY <1>1 DEF Children

\* A child's step while the round is on: the session sees the phase of this
\* child only.
LEMMA EngagedChild ==
  ASSUME IInv, IInv', Engaged, NEW c \in Children, ChildStep(c) \/ TakeTerm(c) \/ ChildFails(c)
  PROVE  /\ TypeInv /\ Sync /\ ForkedSoFar /\ c \in Active /\ Active \subseteq Children
         /\ Alive(c) /\ open /\ ~GivenUp /\ ~GivenUp' /\ UNCHANGED <<ppc, np, pi, open>>
         /\ \A d \in Children : ~NotForked(d)' <=> ~NotForked(d)
         /\ \A d \in Active : (ppc = "fork" => d <= pi) => PhaseOf(d) = PhaseNow(d)
         /\ \A d \in Children : d # c => PhaseOf(d)' = PhaseOf(d)
         /\ PhaseOf(c) = PhaseNow(c) /\ PhaseOf(c)' = PhaseNow(c)'
         /\ ppc = "fork" => c <= pi
<1>1. /\ TypeInv /\ TypeParent /\ TypeChildren /\ TypeChildren' /\ Sync /\ ForkedSoFar
      /\ open /\ ~GivenUp
  BY EngagedOpen DEF IInv, TypeInv, TypeOK, Sync, Engaged, GivenUp
<1>2. /\ UNCHANGED <<ppc, np, pi, merged, open>> /\ Alive(c)
      /\ \A d \in Children : d # c =>
           /\ cpc'[d] = cpc[d] /\ sent'[d] = sent[d]
           /\ state'[d] = state[d] /\ need_warmup'[d] = need_warmup[d]
  BY <1>1, ChildMoves
<1>3. c \in Active /\ Active \subseteq Children
  BY <1>1, <1>2, Working, ActiveIsChildren
<1>4. ppc = "fork" => c <= pi
  BY <1>1, <1>2, ChildNumbers, Numbers DEF ForkedSoFar, LeftBehind, Waited, Alive
<1>5. \A d \in Children : NotForked(d)' <=> NotForked(d)
  BY <1>2 DEF NotForked
<1>6. \A d \in Active : (ppc = "fork" => d <= pi) => ~NotForked(d)
  BY <1>1, Numbers DEF NotForked, Engaged, Active
<1>7. /\ \A d \in Children : PhaseOf(d) = IF NotForked(d) THEN "out" ELSE PhaseNow(d)
      /\ \A d \in Children : PhaseOf(d)' = IF NotForked(d)' THEN "out" ELSE PhaseNow(d)'
  BY <1>1, PhaseIs, PhaseIsPrimed
<1>8. \A d \in Children : d # c => PhaseNow(d)' = PhaseNow(d)
  BY <1>2 DEF PhaseNow, Dead
<1>9. ~GivenUp'
  BY <1>1, <1>2 DEF GivenUp
<1>10. \A d \in Active : (ppc = "fork" => d <= pi) => PhaseOf(d) = PhaseNow(d)
  BY <1>3, <1>6, <1>7
<1>11. \A d \in Children : d # c => PhaseOf(d)' = PhaseOf(d)
  BY <1>5, <1>7, <1>8
<1>12. PhaseOf(c) = PhaseNow(c) /\ PhaseOf(c)' = PhaseNow(c)'
  BY <1>3, <1>4, <1>5, <1>6, <1>7
<1> QED
  BY <1>1, <1>2, <1>3, <1>4, <1>5, <1>9, <1>10, <1>11, <1>12

\* The phase of one child changes, or stays as it is.
LEMMA BecomeMaps ==
  ASSUME Engaged, NEW c \in Active, Active \subseteq Children, ~GivenUp, ~GivenUp',
         UNCHANGED <<ppc, np>>, \A d \in Children : d # c => PhaseOf(d)' = PhaseOf(d)
  PROVE  /\ TeamPhase = [d \in Children |-> PhaseOf(d)]
         /\ Session!Become(c, PhaseOf(c)')
         /\ PhaseOf(c)' = PhaseOf(c) => Maps
<1>1. TeamVerdict = "none" /\ TeamVerdict' = "none"
  BY DEF TeamVerdict, Engaged
<1>2. TeamPhase = [d \in Children |-> PhaseOf(d)]
  BY DEF TeamPhase
<1>3. TeamPhase' = [d \in Children |-> PhaseOf(d)']
  BY DEF TeamPhase, Children
<1>4. TeamPhase' = [TeamPhase EXCEPT ![c] = PhaseOf(c)']
  BY <1>2, <1>3
<1>5. Session!Become(c, PhaseOf(c)')
  BY <1>1, <1>4 DEF Session!Become, Session!Team, Active
<1>6. PhaseOf(c)' = PhaseOf(c) => TeamPhase' = TeamPhase
  BY <1>2, <1>3
<1> QED
  BY <1>1, <1>2, <1>5, <1>6 DEF Maps

\* The death of a child that is not reported is its loss.
LEMMA LoseMaps ==
  ASSUME TypeChildren, NEW c \in Active, Active \subseteq Children, Alive(c), Engaged,
         PhaseOf(c) = PhaseNow(c), PhaseOf(c)' = PhaseNow(c)',
         TeamPhase = [d \in Children |-> PhaseOf(d)],
         Session!Become(c, PhaseOf(c)'), PhaseOf(c)' = PhaseOf(c) => Maps,
         sent'[c] = sent[c], cpc'[c] = "zombie"
  PROVE  Maps
<1>1. CASE sent[c] = Chunks
  BY <1>1 DEF PhaseNow
<1>2. CASE sent[c] # Chunks
  <2>1. PhaseOf(c)' = "lost" /\ PhaseOf(c) \notin {"reported", "lost"}
    BY <1>2 DEF PhaseNow, Dead, Alive
  <2>2. Session!Lose(c)
    BY <2>1 DEF Session!Lose
  <2> QED
    BY <2>2 DEF Maps, Session!Next, Session!Workers, Children
<1> QED
  BY <1>1, <1>2

\* While the round is on, a child's step is a step of its worker.
LEMMA EngagedMaps ==
  ASSUME IInv, IInv', Records, Engaged, NEW c \in Children,
         ChildStep(c) \/ TakeTerm(c) \/ ChildFails(c)
  PROVE  Maps
<1>1. /\ TypeInv /\ Sync /\ ForkedSoFar /\ c \in Active /\ Active \subseteq Children
      /\ Alive(c) /\ open /\ ~GivenUp /\ ~GivenUp' /\ UNCHANGED <<ppc, np, pi, open>>
      /\ \A d \in Active : (ppc = "fork" => d <= pi) => PhaseOf(d) = PhaseNow(d)
      /\ \A d \in Children : d # c => PhaseOf(d)' = PhaseOf(d)
      /\ PhaseOf(c) = PhaseNow(c) /\ PhaseOf(c)' = PhaseNow(c)'
      /\ ppc # "dead"
  BY EngagedChild DEF Engaged
<1>2. /\ TeamPhase = [d \in Children |-> PhaseOf(d)]
      /\ Session!Become(c, PhaseOf(c)')
      /\ PhaseOf(c)' = PhaseOf(c) => Maps
  BY <1>1, BecomeMaps
<1>3. /\ TypeChildren /\ TypePipes /\ Phases /\ ChildShape /\ Ledger /\ Room /\ SentShape
  BY <1>1 DEF TypeInv, TypeOK, Sync, Records
<1>4. /\ cpc \in [Children -> ChildPcs] /\ state \in [Children -> Modes]
      /\ need_warmup \in [Children -> BOOLEAN] /\ sent \in [Children -> 0..Chunks]
  BY <1>3 DEF TypeChildren
<1>5. /\ c \in Session!Workers
      /\ \A d \in Children : TeamPhase[d] = PhaseOf(d)
      /\ Session!Team = Active
  BY <1>1, <1>2 DEF Session!Workers, Children, Session!Team, Active
<1>6. \/ ppc \in {"done", "ask", "collect"} /\ AllReady
      \/ startB = 0 /\ \A d \in Children : Alive(d) => state[d] = "warmup"
  BY <1>3 DEF Phases, BeforeStart, AfterStart, Quiet, Engaged
<1>7. AllReady /\ ppc \in {"done", "ask", "collect"} =>
        \A d \in Active : PhaseOf(d) = PhaseNow(d) /\ PhaseOf(d) # "out"
  BY <1>1 DEF PhaseNow, AllReady
<1>8. CASE StopInterval(c) \/ ReadStart(c) \/ SendDone(c) \/ PollResult(c) \/ Restart(c)
  <2>1. UNCHANGED <<state, sent, need_warmup>> /\ cpc[c] # "report"
    BY <1>8 DEF StopInterval, ReadStart, SendDone, PollResult, Restart, childState
  <2>2. cpc'[c] \notin {"report", "zombie", "gone"}
    BY <1>1, <1>4, <1>8 DEF StopInterval, ReadStart, SendDone, PollResult, Restart, Goto,
       AfterPoll, Respond
  <2>3. PhaseNow(c)' = PhaseNow(c)
    BY <1>1, <2>1, <2>2 DEF PhaseNow, Dead, Alive
  <2> QED
    BY <1>1, <1>2, <2>3
<1>9. CASE StartChild(c) \/ OrphanExits(c) \/ TakeTerm(c) \/ ChildFails(c) \/ ReadExit(c)
  <2>1. UNCHANGED <<state, sent, need_warmup>>
    BY <1>9 DEF StartChild, OrphanExits, TakeTerm, ChildFails, ReadExit, childState
  <2>2. CASE cpc'[c] = "zombie"
    BY <1>1, <1>2, <1>3, <2>1, <2>2, LoseMaps
  <2>3. CASE cpc'[c] # "zombie"
    <3>1. cpc'[c] = cpc[c] \/ (cpc[c] = "init" /\ cpc'[c] = "switch")
      BY <1>4, <1>9, <2>3 DEF StartChild, OrphanExits, TakeTerm, ChildFails, ReadExit,
         ExitChild, Goto
    <3>2. PhaseNow(c)' = PhaseNow(c)
      BY <1>1, <2>1, <3>1 DEF PhaseNow, Dead, Alive
    <3> QED
      BY <1>1, <1>2, <3>2
  <2> QED
    BY <2>2, <2>3
<1>10. CASE PollStart(c)
  <2>1. UNCHANGED <<sent, need_warmup>> /\ cpc[c] = "switch" /\ state[c] = "warmup"
    BY <1>10 DEF PollStart
  <2>2. cpc'[c] \in {"startread", "ready", "restart"} /\ state'[c] \in {state[c], "timing_interval"}
    BY <1>4, <1>10 DEF PollStart, Goto, AfterPoll
  <2>3. CASE startB > 0
    <3>1. \A d \in Active : PhaseOf(d) = PhaseNow(d) /\ PhaseOf(d) # "out"
      BY <1>6, <1>7, <2>3
    <3>2. sent[c] = 0
      BY <1>3, <2>1 DEF SentShape
    <3>3. PhaseOf(c) = "loaded"
      BY <1>1, <2>1, <3>1, <3>2 DEF PhaseNow, Dead, Alive
    <3>4. state'[c] = "timing_interval"
      BY <1>4, <1>10, <2>3 DEF PollStart
    <3>5. ~need_warmup[c]
      BY <1>1, <1>6, <2>3 DEF AllReady
    <3>6. PhaseOf(c)' = "timed"
      BY <1>1, <2>1, <2>2, <3>2, <3>4, <3>5 DEF PhaseNow, Dead
    <3>7. Session!Begin(c)
      BY <1>1, <1>2, <1>5, <3>1, <3>3, <3>6 DEF Session!Begin
    <3> QED
      BY <1>5, <3>7 DEF Maps, Session!Next
  <2>4. CASE ~(startB > 0)
    <3>1. state' = state
      BY <1>1, <1>10, <2>4 DEF PollStart
    <3>2. PhaseNow(c)' = PhaseNow(c)
      BY <1>1, <2>1, <2>2, <3>1 DEF PhaseNow, Dead, Alive
    <3> QED
      BY <1>1, <1>2, <3>2
  <2> QED
    BY <2>3, <2>4
<1>11. CASE SendReady(c)
  <2>1. UNCHANGED <<sent, state>> /\ cpc[c] = "ready" /\ ~need_warmup'[c]
    BY <1>4, <1>11 DEF SendReady
  <2>2. cpc'[c] = "restart"
    BY <1>1, <1>4, <1>11 DEF SendReady, Respond, Goto
  <2>3. need_warmup[c] /\ sent[c] = 0
    BY <1>3, <2>1 DEF ChildShape, SentShape
  <2>4. state[c] = "warmup"
    BY <1>1, <1>6, <2>3 DEF AllReady
  <2>5. PhaseOf(c) = "out" /\ PhaseOf(c)' = "loaded"
    BY <1>1, <2>1, <2>2, <2>3, <2>4 DEF PhaseNow, Dead, Alive
  <2>6. Session!Load(c)
    BY <1>1, <1>2, <1>5, <2>5 DEF Session!Load
  <2> QED
    BY <1>5, <2>6 DEF Maps, Session!Next
<1>12. CASE Measure(c)
  <2>1. UNCHANGED <<sent, need_warmup>> /\ cpc[c] = "switch" /\ state[c] = "timing_interval"
    BY <1>12 DEF Measure, MeasureWith
  <2>2. cpc'[c] \in {"done", "restart"} /\ state'[c] \in {state[c], "cooldown"}
    BY <1>4, <1>12 DEF Measure, MeasureWith, Goto
  <2>3. ~need_warmup[c] /\ sent[c] = 0
    BY <1>1, <1>3, <1>6, <2>1 DEF AllReady, SentShape
  <2>4. PhaseOf(c) = "timed" /\ PhaseOf(c)' \in {"timed", "stopped"}
    BY <1>1, <2>1, <2>2, <2>3 DEF PhaseNow, Dead, Alive
  <2>5. PhaseOf(c)' = "stopped" => Session!End(c)
    BY <1>1, <1>2, <1>5, <2>4 DEF Session!End
  <2> QED
    BY <1>2, <1>5, <2>4, <2>5 DEF Maps, Session!Next
<1>13. CASE ReadResult(c)
  <2>1. /\ UNCHANGED <<sent, need_warmup, state>> /\ cpc[c] = "resultread"
        /\ cpc' = [cpc EXCEPT ![c] = "report"] /\ resultB > 0
    BY <1>1, <1>13 DEF ReadResult, Goto, childState
  <2>2. AllCool /\ sent[c] = 0
    BY <1>3, <2>1 DEF Phases, HandedOut, Reporting, SentShape
  <2>3. ppc \in {"done", "ask", "collect"} /\ AllReady
    BY <1>1, <1>6, <2>2 DEF AllCool
  <2>4. ppc = "collect" /\ AllSilent
    BY <1>3, <2>1, <2>3 DEF Phases, NothingAsked, Ledger, OneWriter, Writing
  <2>5. \A d \in Active : cpc[d] # "report"
    <3>1. ASSUME NEW d \in Collected PROVE cpc[d] # "report"
      <4>1. d \in Children /\ sent[d] = Chunks
        BY <1>1, <1>3, <2>4 DEF Ledger, Merging, Collected
      <4> QED
        BY <4>1, <1>3 DEF Room
    <3>2. \A d \in Active \ Collected : cpc[d] # "report"
      BY <2>4 DEF AllSilent, Silent
    <3> QED
      BY <3>1, <3>2
  <2>6. \A d \in Active : PhaseOf(d) \in {"stopped", "reported", "lost"}
    BY <1>1, <1>7, <2>2, <2>3, <2>5 DEF PhaseNow, AllReady, AllCool
  <2>7. PhaseOf(c) = "stopped" /\ PhaseOf(c)' = "reporting"
    BY <1>1, <1>4, <2>1, <2>2, <2>3 DEF PhaseNow, AllReady, AllCool, Dead
  <2>8. Session!StartReport(c)
    BY <1>1, <1>2, <1>5, <2>6, <2>7 DEF Session!StartReport
  <2> QED
    BY <1>5, <2>8 DEF Maps, Session!Next
<1>14. CASE Report(c)
  <2>1. /\ UNCHANGED <<need_warmup, state>> /\ cpc[c] = "report"
        /\ sent' = [sent EXCEPT ![c] = @ + 1] /\ cpc' = [cpc EXCEPT ![c] = AfterByte(c)]
    BY <1>1, <1>14 DEF Report, Respond, Goto
  <2>2. sent[c] \in Nat /\ sent[c] < Chunks /\ AllCool
    BY <1>3, <1>4, <2>1 DEF Room, Phases, HandedOut, Reporting
  <2>3. AllReady /\ state[c] = "cooldown"
    BY <1>1, <1>6, <2>2 DEF AllCool
  <2>4. PhaseOf(c) = "reporting"
    BY <1>1, <2>1, <2>2, <2>3 DEF PhaseNow, AllReady, Dead
  <2>5. PhaseOf(c)' = IF sent[c] + 1 = Chunks THEN "reported" ELSE "reporting"
    BY <1>1, <1>4, <2>1, <2>2, <2>3 DEF PhaseNow, AllReady, Dead, AfterByte
  <2>6. PhaseOf(c)' = "reported" => Session!EndReport(c)
    BY <1>1, <1>2, <1>5, <2>4 DEF Session!EndReport
  <2> QED
    BY <1>2, <1>5, <2>4, <2>5, <2>6 DEF Maps, Session!Next
<1>15. CASE FinalCleanup(c)
  <2>1. UNCHANGED sent /\ cpc[c] = "cleanup"
    BY <1>15 DEF FinalCleanup, childState
  <2>2. PhaseNow(c)' = PhaseNow(c)
    BY <1>3, <2>1 DEF PhaseNow, SentShape
  <2> QED
    BY <1>1, <1>2, <2>2
<1> QED
  BY <1>8, <1>9, <1>10, <1>11, <1>12, <1>13, <1>14, <1>15 DEF ChildStep

\* After the round the session sees nothing of the children.
LEMMA ChildMaps ==
  ASSUME IInv, IInv', Records, NEW c \in Children,
         ChildStep(c) \/ TakeTerm(c) \/ ChildFails(c)
  PROVE  Maps
<1>1. TypeInv /\ TypeParent /\ TypeChildren /\ TypeChildren'
  BY DEF IInv, TypeInv, TypeOK
<1>2. /\ UNCHANGED <<ppc, np, pi, merged, open>> /\ Alive(c)
      /\ \A d \in Children : d # c =>
           /\ cpc'[d] = cpc[d] /\ sent'[d] = sent[d]
           /\ state'[d] = state[d] /\ need_warmup'[d] = need_warmup[d]
  BY <1>1, ChildMoves
<1>3. CASE Engaged
  BY <1>3, EngagedMaps
<1>4. CASE GivenUp
  <2>1. GivenUp'
    BY <1>2, <1>4 DEF GivenUp
  <2> QED
    BY <1>2, <2>1, FailMaps
<1>5. CASE ~Engaged /\ ~GivenUp
  <2>1. /\ ppc # "dead" /\ Sync /\ Ledger
        /\ ppc \in {"call", "reap", "reaplate", "finish", "returned"}
    BY <1>1, <1>5 DEF Engaged, GivenUp, IInv, Records, TypeParent, ParentPcs
  <2>2. c \in Active /\ ppc \in {"reap", "reaplate"}
    BY <1>1, <1>2, <2>1, Working DEF Sync
  <2>3. Len(merged) = np
    BY <1>5, <2>2 DEF GivenUp
  <2>4. sent[c] = Chunks /\ ~NotForked(c)
    BY <1>1, <2>1, <2>2, <2>3, Numbers DEF Ledger, Outcome, NotForked, Active
  <2>5. sent'[c] = Chunks
    <3>1. ~Report(c)
      BY <1>1, <2>4 DEF Report, TypeInv, Room
    <3> QED
      BY <1>2, <2>4, <3>1 DEF ChildStep, StartChild, StopInterval, OrphanExits, PollStart,
         ReadStart, SendReady, Measure, MeasureWith, SendDone, PollResult, ReadResult,
         FinalCleanup, ReadExit, Restart, TakeTerm, ChildFails, childState
  <2>6. /\ \A d \in Children : PhaseOf(d) = IF NotForked(d) THEN "out" ELSE PhaseNow(d)
        /\ \A d \in Children : PhaseOf(d)' = IF NotForked(d)' THEN "out" ELSE PhaseNow(d)'
        /\ \A d \in Children : NotForked(d)' <=> NotForked(d)
    BY <1>1, <1>2, PhaseIs, PhaseIsPrimed DEF NotForked
  <2>7. \A d \in Children : d # c => PhaseNow(d)' = PhaseNow(d)
    BY <1>2 DEF PhaseNow, Dead
  <2>8. PhaseNow(c)' = PhaseNow(c)
    BY <2>4, <2>5 DEF PhaseNow
  <2>9. \A d \in Children : PhaseOf(d)' = PhaseOf(d)
    BY <2>6, <2>7, <2>8
  <2>10. ~GivenUp'
    BY <1>2, <1>5 DEF GivenUp
  <2> QED
    BY <1>2, <1>5, <2>9, <2>10, StutterMaps
<1> QED
  BY <1>3, <1>4, <1>5

\* The parent's steps, seen from the session: the session fails, or succeeds,
\* or begins again with the whole team, or sees nothing.
LEMMA ForkMaps ==
  ASSUME IInv, IInv', Records, Records', ppc # "dead",
         EnterRound \/ ForkChild \/ ForkEnds
  PROVE  Maps
<1>1. /\ TypeInv /\ TypeChildren /\ TypeChildren' /\ UNCHANGED np
      /\ ~GivenUp /\ ~GivenUp' /\ np \in Nat /\ pi \in Nat
      /\ ppc \in {"call", "fork"} /\ ppc' \in {"fork", "enter"}
  BY Numbers DEF IInv, TypeInv, TypeOK, EnterRound, Prepare, ForkChild, ForkEnds, GivenUp
<1>2. /\ \A d \in Children : PhaseOf(d) = IF NotForked(d) THEN "out" ELSE PhaseNow(d)
      /\ \A d \in Children : PhaseOf(d)' = IF NotForked(d)' THEN "out" ELSE PhaseNow(d)'
  BY <1>1, PhaseIs, PhaseIsPrimed
<1>3. CASE EnterRound
  <2>1. \A d \in Children : NotForked(d) /\ NotForked(d)'
    BY <1>3, ChildNumbers DEF EnterRound, Prepare, NotForked
  <2> QED
    BY <1>1, <1>2, <2>1, StutterMaps
<1>4. CASE ForkEnds
  <2>1. \A d \in Children : NotForked(d)' <=> NotForked(d)
    BY <1>1, <1>4, ChildNumbers DEF ForkEnds, NotForked
  <2>2. \A d \in Children : PhaseNow(d)' = PhaseNow(d)
    BY <1>4 DEF ForkEnds, children, PhaseNow, Dead
  <2> QED
    BY <1>1, <1>2, <2>1, <2>2, StutterMaps
<1>5. CASE ForkChild
  <2>1. /\ ppc = "fork" /\ ppc' = "fork" /\ pi' = pi + 1 /\ pi < np
        /\ cpc' = [cpc EXCEPT ![pi + 1] = "init"]
        /\ state' = [state EXCEPT ![pi + 1] = "warmup"]
        /\ need_warmup' = [need_warmup EXCEPT ![pi + 1] = TRUE]
        /\ sent' = [sent EXCEPT ![pi + 1] = 0]
    BY <1>5 DEF ForkChild
  <2>2. PICK c \in Children : c = pi + 1
    BY <1>1, <2>1, Numbers DEF Children, IInv, TypeInv, TypeOK
  <2>3. \A d \in Children : d # c => (NotForked(d)' <=> NotForked(d))
    BY <1>1, <2>1, <2>2, ChildNumbers DEF NotForked
  <2>4. \A d \in Children : d # c => PhaseNow(d)' = PhaseNow(d)
    BY <1>1, <2>1, <2>2 DEF PhaseNow, Dead, TypeChildren
  <2>5. NotForked(c) /\ PhaseNow(c)' = "out"
    <3>1. NotForked(c)
      BY <1>1, <2>1, <2>2 DEF NotForked
    <3>2. sent'[c] = 0 /\ need_warmup'[c] /\ cpc'[c] = "init"
      BY <1>1, <2>1, <2>2 DEF TypeChildren
    <3> QED
      BY <3>1, <3>2 DEF PhaseNow, Dead
  <2>6. \A d \in Children : PhaseOf(d)' = PhaseOf(d)
    BY <1>2, <2>2, <2>3, <2>4, <2>5
  <2> QED
    BY <1>1, <2>1, <2>6, StutterMaps
<1> QED
  BY <1>3, <1>4, <1>5

\* The children's entries and the team are as before.
LEMMA SamePhases ==
  ASSUME TypeChildren, TypeChildren', UNCHANGED np, UNCHANGED childState,
         \A d \in Children : cpc'[d] = cpc[d] \/ (Dead(d) /\ cpc'[d] = "gone"),
         ppc \notin {"call", "fork"}, ppc' \notin {"call", "fork"}
  PROVE  \A d \in Children : PhaseOf(d)' = PhaseOf(d)
<1>1. /\ \A d \in Children : PhaseOf(d) = IF NotForked(d) THEN "out" ELSE PhaseNow(d)
      /\ \A d \in Children : PhaseOf(d)' = IF NotForked(d)' THEN "out" ELSE PhaseNow(d)'
  BY PhaseIs, PhaseIsPrimed
<1>2. \A d \in Children : NotForked(d)' <=> NotForked(d)
  BY DEF NotForked
<1>3. \A d \in Children : PhaseNow(d)' = PhaseNow(d)
  BY DEF PhaseNow, Dead, childState
<1> QED
  BY <1>1, <1>2, <1>3

\* The handshake: the parent counts bytes, or gives the round up.
LEMMA HandshakeMaps ==
  ASSUME IInv, IInv', Records, Records',
         EnterParent \/ CollectReady \/ CollectDone \/ SendStart \/ AskOne \/ CollectResult
  PROVE  Maps
<1>1. /\ TypeInv /\ TypeChildren /\ TypeChildren'
      /\ UNCHANGED np /\ UNCHANGED childState /\ UNCHANGED cpc
      /\ ppc \in {"enter", "ready", "start", "done", "ask", "collect"}
      /\ ppc' \in {"ready", "start", "done", "ask", "collect", "kill", "dead"}
  BY DEF IInv, TypeInv, TypeOK, EnterParent, CollectReady, CollectDone, CollectBytes, SendStart,
     AskOne, CollectResult, GiveUp, DieParent, children, childState
<1>2. CASE ppc' \in {"kill", "dead"}
  BY <1>1, <1>2, FailMaps DEF GivenUp
<1>3. CASE ppc' \notin {"kill", "dead"}
  <2>1. \A d \in Children : PhaseOf(d)' = PhaseOf(d)
    BY <1>1, SamePhases
  <2>2. ~GivenUp /\ ~GivenUp'
    BY <1>1, <1>3 DEF GivenUp
  <2> QED
    BY <1>1, <1>3, <2>1, <2>2, StutterMaps
<1> QED
  BY <1>2, <1>3

\* The exit bytes: every worker has reported, and the session succeeds.
LEMMA ReleaseMaps ==
  ASSUME IInv, IInv', Records, Records', Release
  PROVE  Maps
<1>1. /\ TypeInv /\ TypeParent /\ TypeChildren /\ TypeChildren' /\ Ledger
      /\ UNCHANGED <<np, merged>> /\ UNCHANGED childState /\ UNCHANGED cpc
      /\ ppc = "ask" /\ pi = np /\ ppc' \in {"reap", "dead"}
  BY DEF IInv, TypeInv, TypeOK, Records, Release, children, childState
<1>2. CASE ppc' = "dead"
  BY <1>1, <1>2, FailMaps DEF GivenUp
<1>3. CASE ppc' = "reap"
  <2>1. Len(merged) = np /\ \A c \in Active : sent[c] = Chunks
    BY <1>1, AllCollected
  <2>2. ~GivenUp /\ ~GivenUp'
    BY <1>1, <1>3, <2>1 DEF GivenUp
  <2>3. \A d \in Children : PhaseOf(d)' = PhaseOf(d)
    BY <1>1, <1>3, SamePhases
  <2>4. \A d \in Active : PhaseOf(d) = "reported" /\ d \in Children
    BY <1>1, <2>1, Numbers, ActiveIsChildren, PhaseIs DEF NotForked, PhaseNow, Active
  <2>5. /\ TeamPhase = [d \in Children |-> PhaseOf(d)]
        /\ TeamPhase' = TeamPhase
        /\ TeamVerdict = "none" /\ TeamVerdict' = "ok"
    BY <1>1, <1>3, <2>2, <2>3 DEF TeamPhase, TeamVerdict, Children
  <2>6. \A d \in Active : TeamPhase[d] = "reported"
    BY <2>4, <2>5
  <2>7. Session!Succeed
    BY <1>1, <2>5, <2>6 DEF Session!Succeed, Session!Team, Active
  <2> QED
    BY <2>7 DEF Maps, Session!Next
<1> QED
  BY <1>1, <1>2, <1>3

\* The ends of a round.
LEMMA EndMaps ==
  ASSUME IInv, IInv', Records, Records', ppc # "dead",
         ForkStops \/ ForkKill \/ ForkWait \/ Reap \/ ReapEnds \/ AlarmRings \/ Kill \/ KillWait
         \/ PipeFails \/ PidsAllocFails \/ ResultsAllocFails \/ ParentDies
  PROVE  Maps
<1>1. /\ TypeInv /\ TypeChildren /\ TypeChildren' /\ Ledger /\ UNCHANGED np
      /\ Len(merged) \in Nat /\ np \in Nat /\ np > 0 /\ Len(<<>>) = 0
  BY Lengths, EmptySeqFacts DEF IInv, TypeInv, TypeOK, Records, ForkStops, ForkKill, ForkWait,
     Reap, ReapEnds, AlarmRings, Kill, KillWait, PipeFails, PidsAllocFails, Prepare,
     ResultsAllocFails, ParentDies
<1>2. CASE ForkStops \/ ParentDies
  BY <1>1, <1>2, FailMaps DEF GivenUp, ForkStops, ParentDies, DieParent
<1>3. CASE PipeFails \/ PidsAllocFails \/ ResultsAllocFails
  <2>1. ppc' \in {"finish", "reap"} /\ Len(merged') # np
    BY <1>1, <1>3 DEF PipeFails, PidsAllocFails, Prepare, ResultsAllocFails, Ledger,
       NothingSent, Unfinished
  <2> QED
    BY <1>1, <2>1, FailMaps DEF GivenUp
<1>4. CASE ForkKill \/ ForkWait \/ Kill \/ KillWait
  <2>1. /\ ppc' \in {"fkill", "fwait", "kill", "killwait", "finish", "reap"}
        /\ UNCHANGED merged /\ Len(merged) < np
    BY <1>1, <1>4 DEF ForkKill, ForkWait, Kill, KillWait, Ledger, Unfinished
  <2> QED
    BY <1>1, <2>1, FailMaps DEF GivenUp
<1>5. CASE Reap \/ ReapEnds \/ AlarmRings
  <2>1. /\ UNCHANGED merged
        /\ ppc \in {"reap", "reaplate"} /\ ppc' \in {"reap", "reaplate", "finish"}
    BY <1>5 DEF Reap, ReapEnds, AlarmRings
  <2>2. /\ UNCHANGED childState
        /\ \A d \in Children : cpc'[d] = cpc[d] \/ (Dead(d) /\ cpc'[d] = "gone")
    BY <1>1, <1>5, <2>1, ParentMoves DEF ParentStep, ForkChild
  <2>3. GivenUp' <=> GivenUp
    BY <1>1, <2>1 DEF GivenUp
  <2>4. \A d \in Children : PhaseOf(d)' = PhaseOf(d)
    BY <1>1, <2>1, <2>2, SamePhases
  <2> QED
    BY <1>1, <2>1, <2>3, <2>4, FailMaps, StutterMaps
<1> QED
  BY <1>2, <1>3, <1>4, <1>5

\* The whole team's round begins after a baseline that succeeded.
LEMMA FinishMaps ==
  ASSUME IInv, IInv', Records, Records', FinishRound
  PROVE  Maps
<1>1. /\ TypeInv /\ TypeChildren /\ TypeChildren' /\ Ledger /\ ppc = "finish"
      /\ UNCHANGED merged /\ UNCHANGED childState /\ UNCHANGED cpc
  BY DEF IInv, TypeInv, TypeOK, Records, FinishRound, children, childState
<1>2. CASE np < Parallel /\ timed
  <2>1. ppc' = "call" /\ np' = Parallel /\ Len(merged) = np
    BY <1>1, <1>2 DEF FinishRound, Ledger, Outcome
  <2>2. ~GivenUp /\ ~GivenUp'
    BY <1>1, <2>1 DEF GivenUp
  <2>3. TeamVerdict = "ok" /\ TeamVerdict' = "none"
    BY <1>1, <2>1, <2>2 DEF TeamVerdict
  <2>4. \A d \in Children : PhaseOf(d)' = "out"
    BY <1>1, <2>1, PhaseIsPrimed DEF NotForked
  <2>5. TeamPhase' = [d \in Children |-> "out"]
    BY <2>2, <2>4 DEF TeamPhase, Children
  <2>6. Session!Enlarge
    BY <1>2, <2>1, <2>3, <2>5 DEF Session!Enlarge, Session!AllOut, Session!Workers, Children
  <2> QED
    BY <2>6 DEF Maps, Session!Next
<1>3. CASE ~(np < Parallel /\ timed)
  <2>1. ppc' = "returned" /\ UNCHANGED np
    BY <1>3 DEF FinishRound
  <2>2. GivenUp' <=> GivenUp
    BY <1>1, <2>1 DEF GivenUp
  <2>3. \A d \in Children : PhaseOf(d)' = PhaseOf(d)
    BY <1>1, <2>1, SamePhases
  <2> QED
    BY <1>1, <2>1, <2>2, <2>3, FailMaps, StutterMaps
<1> QED
  BY <1>2, <1>3

\* Every step is a step of the session or leaves it as it is.
LEMMA NextMaps == IInv /\ IInv' /\ Records /\ Records' /\ [Next]_vars => Maps
<1> SUFFICES ASSUME IInv, IInv', Records, Records', [Next]_vars PROVE Maps
  OBVIOUS
<1>1. CASE UNCHANGED vars \/ UserTerm
  <2>1. UNCHANGED <<ppc, np, pi, merged, cpc, state, need_warmup, sent>>
    BY <1>1 DEF vars, UserTerm, parentVars, children
  <2>2. TeamPhase' = TeamPhase /\ TeamVerdict' = TeamVerdict
    BY <2>1 DEF TeamPhase, TeamVerdict, GivenUp, PhaseOf, NotForked, Dead, Children
  <2> QED
    BY <2>1, <2>2 DEF Maps
<1>2. CASE ppc = "dead" /\ ParentFault
  BY <1>2 DEF ParentFault, PipeFails, PidsAllocFails, Prepare, ResultsAllocFails, UserTerm,
     ParentDies
<1>3. CASE ppc = "dead" /\ (ParentStep \/ AlarmRings)
  BY <1>3 DEF ParentStep, EnterRound, Prepare, ForkChild, ForkStops, ForkEnds,
       ForkKill, ForkWait, Reap, ReapEnds, FinishRound, EnterParent,
       CollectReady, CollectDone, CollectBytes, SendStart, AskOne,
       CollectResult, Release, Kill, KillWait, AlarmRings
<1>4. CASE ppc # "dead" /\ (ParentStep \/ AlarmRings \/ ParentFault) /\ ~UserTerm
  BY <1>4, ForkMaps, HandshakeMaps, ReleaseMaps, EndMaps, FinishMaps
  DEF ParentStep, ParentFault
<1>5. ASSUME NEW c \in Children, ChildStep(c) \/ TakeTerm(c) \/ ChildFails(c)
      PROVE  Maps
  BY <1>5, ChildMaps
<1> QED
  BY <1>1, <1>2, <1>3, <1>4, <1>5 DEF Next, Terminated

\* benchmp() implements the measurement session: its team is timed only under
\* the load of all, no child stops before each one's timing has ended, one
\* child hands its record over at a time, and a time means a record of each;
\* for any number of children and with every fault.
THEOREM Implements == Spec => ImplementsSession
<1>1. IInv /\ IInv' /\ Records /\ Records' /\ [Next]_vars => [Session!Next]_(Session!vars)
  BY NextMaps DEF Maps, Session!vars
<1> QED
  BY InitMaps, <1>1, HandshakeInvariant, RecordsInvariant, PTL
  DEF Spec, ImplementsSession, Session!Spec
=============================================================================
