--------------------------- MODULE ResultsProofs ---------------------------
(***************************************************************************)
(* The records of a round stay sorted, never outgrow their allocation and  *)
(* lose no value, and the result is the middle of them, for every number   *)
(* of children and repetitions and for all times.                          *)
(***************************************************************************)
EXTENDS Results, FiniteSetTheorems, WellFoundedInduction, TLAPS

USE ResultsAssumption DEF ResultsAssumption

----------------------------------------------------------------------------
(* insertsort().                                                           *)

\* The order of the natural numbers, as the library's theorems want it.
Below == {p \in Nat \X Nat : p[1] < p[2]}

\* A set of numbers that is not empty has a least element.
LEMMA LeastOne ==
  ASSUME NEW S \in SUBSET Nat, S # {}
  PROVE  \E k \in S : \A l \in S : k <= l
<1>1. IsWellFoundedOn(Below, Nat)
  BY NatLessThanWellFounded DEF OpToRel, Below
<1>2. PICK k \in S : \A l \in S : <<l, k>> \notin Below
  BY <1>1, WFMin
<1>3. ASSUME NEW l \in S PROVE k <= l
  <2> DEFINE p == <<l, k>>
  <2>1. p \in Nat \X Nat /\ p[1] = l /\ p[2] = k
    OBVIOUS
  <2>2. p \notin Below
    BY <1>2
  <2> HIDE DEF p
  <2>3. ~(p[1] < p[2])
    BY <2>1, <2>2 DEF Below
  <2> QED
    BY <2>1, <2>3
<1> QED
  BY <1>3

\* The scan stops at the first value that is faster, or at the end.
LEMMA PlaceFacts ==
  ASSUME NEW r \in Seq(Values), NEW x \in Values
  PROVE  /\ Place(r, x) \in 1..Len(r) + 1
         /\ \A k \in 1..Place(r, x) - 1 : ~Slower(x, r[k])
         /\ Place(r, x) <= Len(r) => Slower(x, r[Place(r, x)])
<1>1. Len(r) \in Nat
  OBVIOUS
<1>2. Faster(r, x) \in SUBSET (1..Len(r))
  BY DEF Faster
<1>3. CASE Faster(r, x) = {}
  BY <1>1, <1>3 DEF Place, Faster
<1>4. CASE Faster(r, x) # {}
  <2>1. \E k \in Faster(r, x) : \A l \in Faster(r, x) : k <= l
    BY <1>1, <1>2, <1>4, LeastOne
  <2>2. /\ Place(r, x) \in Faster(r, x)
        /\ \A l \in Faster(r, x) : Place(r, x) <= l
    BY <2>1, <1>4 DEF Place
  <2>3. Place(r, x) \in 1..Len(r)
    BY <2>2, <1>2
  <2>4. ASSUME NEW k \in 1..Place(r, x) - 1 PROVE ~Slower(x, r[k])
    <3>1. k \in 1..Len(r) /\ k < Place(r, x)
      BY <1>1, <2>3
    <3>2. k \notin Faster(r, x)
      BY <2>2, <2>3, <3>1
    <3> QED
      BY <3>1, <3>2 DEF Faster
  <2>5. Slower(x, r[Place(r, x)])
    BY <2>2 DEF Faster
  <2> QED
    BY <1>1, <2>3, <2>4, <2>5
<1> QED
  BY <1>3, <1>4

\* The scan of insertsort() decides between an order and its converse.
LEMMA OrderFacts ==
  ASSUME NEW a \in Values, NEW b \in Values
  PROVE  /\ Slower(a, b) => AtLeast(a, b)
         /\ ~Slower(a, b) => AtLeast(b, a)
<1>1. a.u * b.n \in Nat /\ b.u * a.n \in Nat
  BY DEF Values
<1> QED
  BY <1>1 DEF Slower, AtLeast

\* A value inserted anywhere leaves a record of values, one longer.
LEMMA InsertAtFacts ==
  ASSUME NEW r \in Seq(Values), NEW x \in Values, NEW k \in 1..Len(r) + 1
  PROVE  /\ InsertAt(r, k, x) \in Seq(Values)
         /\ Len(InsertAt(r, k, x)) = Len(r) + 1
         /\ \A l \in 1..Len(r) + 1 :
              InsertAt(r, k, x)[l] = IF l < k THEN r[l]
                                     ELSE IF l = k THEN x ELSE r[l - 1]
<1>1. Len(r) \in Nat /\ \A l \in 1..Len(r) : r[l] \in Values
  OBVIOUS
<1>2. ASSUME NEW l \in 1..Len(r) + 1
      PROVE  (IF l < k THEN r[l] ELSE IF l = k THEN x ELSE r[l - 1]) \in Values
  BY <1>1
<1>3. InsertAt(r, k, x) \in [1..Len(r) + 1 -> Values]
  BY <1>2 DEF InsertAt
<1>4. InsertAt(r, k, x) \in Seq(Values)
  BY <1>1, <1>3
<1>5. Len(InsertAt(r, k, x)) = Len(r) + 1
  BY <1>1, <1>3, <1>4
<1> QED
  BY <1>4, <1>5 DEF InsertAt

\* insertsort() keeps a record of values and its order, and makes it longer
\* by one at most.
LEMMA InsertSortFacts ==
  ASSUME NEW r \in Seq(Values), NEW x \in Values
  PROVE  /\ InsertSort(r, x) \in Seq(Values)
         /\ Len(InsertSort(r, x)) <= Len(r) + 1
         /\ Descending(r) => Descending(InsertSort(r, x))
<1>1. Len(r) \in Nat
  OBVIOUS
<1>2. CASE x.u = 0
  BY <1>1, <1>2 DEF InsertSort
<1>3. CASE x.u # 0
  <2> DEFINE k == Place(r, x)
             s == InsertAt(r, k, x)
  <2>1. InsertSort(r, x) = s
    BY <1>3 DEF InsertSort
  <2>2. k \in 1..Len(r) + 1
    BY PlaceFacts
  <2>3. \A l \in 1..k - 1 : ~Slower(x, r[l])
    BY PlaceFacts
  <2>4. k <= Len(r) => Slower(x, r[k])
    BY PlaceFacts
  <2>5. /\ s \in Seq(Values) /\ Len(s) = Len(r) + 1
        /\ \A l \in 1..Len(r) + 1 :
             s[l] = IF l < k THEN r[l] ELSE IF l = k THEN x ELSE r[l - 1]
    BY <2>2, InsertAtFacts, SMTT(90)
  <2> HIDE DEF k, s
  <2>6. ASSUME Descending(r), NEW l \in 1..Len(s) - 1
        PROVE  AtLeast(s[l], s[l + 1])
    <3>1. l \in 1..Len(r) /\ l + 1 \in 1..Len(r) + 1 /\ l \in 1..Len(r) + 1
      BY <1>1, <2>5
    <3>2. CASE l + 1 < k
      <4>1. s[l] = r[l] /\ s[l + 1] = r[l + 1] /\ l \in 1..Len(r) - 1
        BY <1>1, <2>2, <2>5, <3>1, <3>2
      <4> QED
        BY <4>1, <2>6 DEF Descending
    <3>3. CASE l + 1 = k
      <4>1. s[l] = r[l] /\ s[l + 1] = x /\ l \in 1..k - 1
        BY <1>1, <2>2, <2>5, <3>1, <3>3
      <4>2. ~Slower(x, r[l]) /\ r[l] \in Values
        BY <2>3, <3>1, <4>1
      <4> QED
        BY <4>1, <4>2, OrderFacts
    <3>4. CASE l = k
      <4>1. s[l] = x /\ s[l + 1] = r[l]
        BY <1>1, <2>2, <2>5, <3>1, <3>4
      <4>2. Slower(x, r[l]) /\ r[l] \in Values
        BY <2>4, <3>1, <3>4
      <4> QED
        BY <4>1, <4>2, OrderFacts
    <3>5. CASE l > k
      <4>1. s[l] = r[l - 1] /\ s[l + 1] = r[l] /\ l - 1 \in 1..Len(r) - 1
        BY <1>1, <2>2, <2>5, <3>1, <3>5
      <4>2. AtLeast(r[l - 1], r[(l - 1) + 1])
        BY <4>1, <2>6 DEF Descending
      <4>3. (l - 1) + 1 = l
        BY <3>1
      <4> QED
        BY <4>1, <4>2, <4>3
    <3> QED
      BY <3>2, <3>3, <3>4, <3>5, <3>1, <2>2
  <2> QED
    BY <2>1, <2>5, <2>6, <1>1 DEF Descending
<1> QED
  BY <1>2, <1>3

\* The median of a record is a time and a number.
LEMMA MedianType ==
  ASSUME NEW r \in Seq(Values)
  PROVE  Median(r) \in [u : Nat, n : Nat]
<1>1. Len(r) \in Nat /\ \A k \in 1..Len(r) : r[k] \in Values
  OBVIOUS
<1>2. CASE Len(r) = 0
  BY <1>2 DEF Median, Nothing
<1>3. CASE Len(r) % 2 = 1
  <2>1. Len(r) \div 2 + 1 \in 1..Len(r)
    BY <1>1, <1>3
  <2> QED
    BY <2>1, <1>1, <1>2, <1>3 DEF Median, UpperMiddle, Values
<1>4. CASE Len(r) # 0 /\ Len(r) % 2 # 1
  <2>1. Len(r) \div 2 + 1 \in 1..Len(r) /\ Len(r) \div 2 \in 1..Len(r)
    BY <1>1, <1>4
  <2>2. /\ UpperMiddle(r).u \in Nat /\ LowerMiddle(r).u \in Nat
        /\ UpperMiddle(r).n \in Nat /\ LowerMiddle(r).n \in Nat
    BY <2>1, <1>1 DEF UpperMiddle, LowerMiddle, Values
  <2>3. /\ (UpperMiddle(r).u + LowerMiddle(r).u) \div 2 \in Nat
        /\ (UpperMiddle(r).n + LowerMiddle(r).n) \div 2 \in Nat
    BY <2>2, SMTT(60)
  <2> QED
    BY <2>3, <1>4 DEF Median
<1> QED
  BY <1>2, <1>3, <1>4

----------------------------------------------------------------------------
(* The invariant: types, order, and how far the records have grown.        *)

\* A child that still measures has room for one more interval.
Room ==
  \A c \in Children :
    /\ c \notin cool => i[c] < Repetitions
    /\ Len(record[c]) <= i[c]

\* The parent has merged whole records of the children that have reported,
\* and j values of the one that reports.
Merged ==
  Len(merged) <=
    (np - Cardinality(left)) * Repetitions + (IF reporter = 0 THEN 0 ELSE j)

InRecord ==
  reporter # 0 =>
    cool = Active /\ reporter \in left /\ j <= Len(record[reporter])

Inv == TypeOK /\ Sorted /\ Room /\ InRecord /\ Merged

\* The children of the round are finitely many, and 0 is none of them.
LEMMA ActiveFinite ==
  ASSUME np \in {1, Parallel}
  PROVE  /\ IsFiniteSet(Active) /\ Cardinality(Active) = np
         /\ Active \subseteq Children /\ 0 \notin Active
         /\ np \in Nat /\ 0 < np
BY FS_Interval DEF Active, Children

\* The same of a state that satisfies the invariant.
LEMMA Round ==
  ASSUME Inv
  PROVE  /\ IsFiniteSet(Active) /\ Cardinality(Active) = np
         /\ Active \subseteq Children /\ 0 \notin Active
         /\ np \in Nat /\ 0 < np
BY ActiveFinite DEF Inv, TypeOK

\* The invariant holds before the first interval.
LEMMA InitInv ==
  ASSUME Init
  PROVE  Inv
<1>1. TypeOK
  <2>1. <<>> \in Seq(Values)
    OBVIOUS
  <2>2. record \in [Children -> Seq(Values)] /\ merged \in Seq(Values)
    BY <2>1 DEF Init
  <2>3. i \in [Children -> 0..Repetitions]
    BY DEF Init
  <2>4. saved \in [u : Nat, n : Nat]
    BY DEF Init, Nothing
  <2> QED
    BY <2>2, <2>3, <2>4 DEF Init, TypeOK
<1>2. Sorted /\ Room /\ InRecord
  BY DEF Init, Sorted, Descending, Room, InRecord
<1>3. Merged
  BY ActiveFinite DEF Init, Merged
<1> QED
  BY <1>1, <1>2, <1>3 DEF Inv

\* An interval is inserted into the record of its child.
LEMMA IntervalInv ==
  ASSUME Inv, NEW c \in Children, NEW u \in Times, NEW n \in Counts,
         Interval(c, u, n)
  PROVE  Inv'
<1> DEFINE x == [u |-> u, n |-> n]
<1>1. x \in Values
  BY DEF Values
<1>2. record[c] \in Seq(Values) /\ i[c] \in 0..Repetitions /\ c \in Active \ cool
  BY DEF Inv, TypeOK, Interval
<1>3. /\ InsertSort(record[c], x) \in Seq(Values)
      /\ Len(InsertSort(record[c], x)) <= Len(record[c]) + 1
      /\ Descending(record[c]) => Descending(InsertSort(record[c], x))
  BY <1>1, <1>2, InsertSortFacts
<1>4. /\ record' = [record EXCEPT ![c] = InsertSort(record[c], x)]
      /\ i' = [i EXCEPT ![c] = i[c] + 1]
      /\ cool' = IF i[c] + 1 >= Repetitions THEN cool \cup {c} ELSE cool
      /\ UNCHANGED <<np, iterations, left, reporter, j, merged, current, saved>>
  BY DEF Interval, Last, parentVars
<1> HIDE DEF x
<1>5. i[c] < Repetitions /\ Len(record[c]) <= i[c] /\ Len(record[c]) \in Nat
  BY <1>2 DEF Inv, Room
<1>6. TypeOK'
  <2>1. record' \in [Children -> Seq(Values)]
    BY <1>3, <1>4 DEF Inv, TypeOK
  <2>2. i' \in [Children -> 0..Repetitions]
    BY <1>2, <1>4, <1>5 DEF Inv, TypeOK
  <2>3. cool' \subseteq Active /\ Active' = Active
    BY <1>2, <1>4 DEF Inv, TypeOK, Active
  <2>4. reporter' \in {0} \cup left' /\ left' \subseteq Active'
    BY <1>4, <2>3 DEF Inv, TypeOK
  <2> QED
    BY <2>1, <2>2, <2>3, <2>4, <1>4 DEF Inv, TypeOK
<1>7. Sorted'
  BY <1>3, <1>4 DEF Inv, TypeOK, Sorted
<1>8. Room'
  <2>1. Len(InsertSort(record[c], x)) \in Nat
    BY <1>3
  <2>2. ASSUME NEW d \in Children, d # c
        PROVE  (d \notin cool' => i'[d] < Repetitions) /\ Len(record'[d]) <= i'[d]
    BY <2>2, <1>4 DEF Inv, TypeOK, Room
  <2>3. (c \notin cool' => i'[c] < Repetitions) /\ Len(record'[c]) <= i'[c]
    BY <2>1, <1>2, <1>3, <1>4, <1>5 DEF Inv, TypeOK
  <2> QED
    BY <2>2, <2>3 DEF Room
<1>9. InRecord' /\ Merged'
  <2>1. reporter = 0
    BY DEF Interval, Inv, InRecord
  <2> QED
    BY <2>1, <1>4 DEF Inv, InRecord, Merged
<1> QED
  BY <1>6, <1>7, <1>8, <1>9 DEF Inv

\* A child that gives up keeps its record.
LEMMA GiveUpInv ==
  ASSUME Inv, NEW c \in Children, GiveUp(c)
  PROVE  Inv'
<1>1. /\ c \in Active \ cool /\ cool' = cool \cup {c}
      /\ UNCHANGED <<np, iterations, i, record, left, reporter, j, merged, current, saved>>
  BY DEF GiveUp, parentVars
<1>2. TypeOK'
  BY <1>1, Round DEF Inv, TypeOK, Active
<1>3. Sorted' /\ Room' /\ Merged'
  BY <1>1 DEF Inv, Sorted, Room, Merged
<1>4. InRecord'
  BY <1>1, Round DEF Inv, InRecord, Active
<1> QED
  BY <1>2, <1>3, <1>4 DEF Inv

\* A record is read when its child has stopped.
LEMMA CollectInv ==
  ASSUME Inv, NEW c \in Children, Collect(c)
  PROVE  Inv'
<1>1. /\ cool = Active /\ reporter = 0 /\ c \in left
      /\ reporter' = c /\ j' = 0
      /\ UNCHANGED <<np, iterations, i, cool, record, left, merged, current, saved>>
  BY DEF Collect, childVars
<1>2. TypeOK'
  BY <1>1 DEF Inv, TypeOK, Active
<1>3. Sorted' /\ Room'
  BY <1>1 DEF Inv, Sorted, Room
<1>4. InRecord'
  <2>1. Len(record[c]) \in Nat
    BY DEF Inv, TypeOK
  <2> QED
    BY <2>1, <1>1 DEF InRecord, Active
<1>5. Merged'
  BY <1>1 DEF Inv, Merged
<1> QED
  BY <1>2, <1>3, <1>4, <1>5 DEF Inv

\* One value of the record is inserted into the merged one.
LEMMA MergeInv ==
  ASSUME Inv, Merge
  PROVE  Inv'
<1> DEFINE x == record[reporter][j + 1]
<1>1. /\ reporter # 0 /\ j < Len(record[reporter])
      /\ merged' = InsertSort(merged, x) /\ j' = j + 1
      /\ UNCHANGED <<np, iterations, i, cool, record, left, reporter, current, saved>>
  BY DEF Merge, childVars
<1>2. reporter \in Children /\ reporter \in left /\ j \in Nat
  BY <1>1, Round DEF Inv, TypeOK, InRecord, Active
<1>3. record[reporter] \in Seq(Values) /\ j + 1 \in 1..Len(record[reporter])
  BY <1>1, <1>2 DEF Inv, TypeOK
<1>4. x \in Values /\ merged \in Seq(Values)
  BY <1>3 DEF Inv, TypeOK
<1> HIDE DEF x
<1>5. /\ merged' \in Seq(Values) /\ Len(merged') <= Len(merged) + 1
      /\ Descending(merged) => Descending(merged')
  BY <1>1, <1>4, InsertSortFacts
<1>6. TypeOK'
  BY <1>1, <1>2, <1>5 DEF Inv, TypeOK, Active
<1>7. Sorted' /\ Room'
  BY <1>1, <1>5 DEF Inv, Sorted, Room
<1>8. InRecord'
  BY <1>1, <1>2, <1>3 DEF Inv, InRecord, Active
<1>9. Merged'
  <2> DEFINE others == (np - Cardinality(left)) * Repetitions
  <2>1. others' = others
    BY <1>1
  <2>2. Len(merged) <= others + j
    BY <1>1 DEF Inv, Merged
  <2>3. others \in Int
    <3>1. IsFiniteSet(left)
      BY Round, FS_Subset DEF Inv, TypeOK
    <3>2. Cardinality(left) \in Nat
      BY <3>1, FS_CardinalityType
    <3> QED
      BY <3>2, Round
  <2>4. Len(merged) \in Nat /\ Len(merged') \in Nat
    BY <1>4, <1>5
  <2>5. Merged' <=> Len(merged') <= others' + j'
    BY <1>1 DEF Merged
  <2> HIDE DEF others
  <2> QED
    BY <2>1, <2>2, <2>3, <2>4, <2>5, <1>1, <1>2, <1>5
<1> QED
  BY <1>6, <1>7, <1>8, <1>9 DEF Inv

\* The values of a record that is merged are counted once.
LEMMA MergeEndsInv ==
  ASSUME Inv, MergeEnds
  PROVE  Inv'
<1>1. /\ reporter # 0 /\ j = Len(record[reporter])
      /\ left' = left \ {reporter} /\ reporter' = 0
      /\ UNCHANGED <<np, iterations, i, cool, record, j, merged, current, saved>>
  BY DEF MergeEnds, childVars
<1>2. reporter \in Children /\ reporter \in left
  BY <1>1, Round DEF Inv, TypeOK, InRecord, Active
<1>3. TypeOK'
  BY <1>1 DEF Inv, TypeOK, Active
<1>4. Sorted' /\ Room' /\ InRecord'
  BY <1>1 DEF Inv, Sorted, Room, InRecord
<1>5. Merged'
  <2> DEFINE n == Cardinality(left)
  <2>1. IsFiniteSet(left)
    BY Round, FS_Subset DEF Inv, TypeOK
  <2>2. n \in Nat /\ Cardinality(left') = n - 1
    BY <2>1, <1>1, <1>2, FS_CardinalityType, FS_RemoveElement
  <2>3. Len(merged) <= (np - n) * Repetitions + j
    BY <1>1 DEF Inv, Merged
  <2>4. j \in Nat /\ j <= Repetitions /\ Len(merged) \in Nat
    <3>1. /\ Len(record[reporter]) <= i[reporter]
          /\ i[reporter] \in 0..Repetitions /\ j \in Nat
      BY <1>2 DEF Inv, TypeOK, Room
    <3>2. Len(merged) \in Nat
      BY DEF Inv, TypeOK
    <3> QED
      BY <3>1, <3>2, <1>1
  <2>5. Merged' <=> Len(merged) <= (np - Cardinality(left')) * Repetitions
    <3>1. Cardinality(left') \in Nat
      BY <1>1, <2>1, FS_Subset, FS_CardinalityType
    <3>2. (np - Cardinality(left')) * Repetitions \in Int
      BY <3>1, Round
    <3> QED
      BY <3>2, <1>1 DEF Merged
  <2> HIDE DEF n
  <2>6. (np - (n - 1)) * Repetitions = (np - n) * Repetitions + Repetitions
    BY <2>2, Round
  <2>7. (np - n) * Repetitions \in Int
    BY <2>2, Round
  <2> QED
    BY <2>2, <2>3, <2>4, <2>5, <2>6, <2>7
<1> QED
  BY <1>3, <1>4, <1>5 DEF Inv

\* set_results() leaves the records alone.
LEMMA SetResultsInv ==
  ASSUME Inv, SetResults
  PROVE  Inv'
<1>1. /\ current' = TRUE /\ saved' = Median(merged)
      /\ UNCHANGED <<np, iterations, i, cool, record, left, reporter, j, merged>>
  BY DEF SetResults, childVars
<1>2. saved' \in [u : Nat, n : Nat]
  BY <1>1, MedianType DEF Inv, TypeOK
<1>3. TypeOK'
  BY <1>1, <1>2 DEF Inv, TypeOK, Active
<1>4. Sorted' /\ Room' /\ InRecord' /\ Merged'
  BY <1>1 DEF Inv, Sorted, Room, InRecord, Merged, Active
<1> QED
  BY <1>3, <1>4 DEF Inv

\* A step that changes nothing keeps the invariant.
LEMMA StutterInv ==
  ASSUME Inv, UNCHANGED vars
  PROVE  Inv'
BY DEF Inv, TypeOK, Sorted, Room, InRecord, Merged, vars, childVars,
   parentVars, Active

\* The records of the children and the merged one, for every order of the
\* intervals in benchmp_interval() and of the reports in benchmp_parent().
THEOREM RecordInvariant == Spec => []Inv
<1>1. Inv /\ [Next]_vars => Inv'
  BY IntervalInv, GiveUpInv, CollectInv, MergeInv, MergeEndsInv,
     SetResultsInv, StutterInv DEF Next
<1> QED
  BY <1>1, InitInv, PTL DEF Spec

\* results.3's promise for every record and for the merged one: insertsort()
\* keeps them in decreasing order of u/n, wherever the parent is in its loops.
THEOREM AlwaysSorted == Spec => []Sorted
<1>1. Inv => Sorted
  BY DEF Inv
<1> QED
  BY <1>1, RecordInvariant, PTL

\* No insertsort() of benchmp_interval() or benchmp_parent() writes past the
\* memory that sizeof_result(repetitions), or sizeof_result(parallel *
\* repetitions), has allocated.
THEOREM AlwaysFits == Spec => []Fits
<1>1. ASSUME Inv PROVE Fits
  <2> DEFINE n == Cardinality(left)
  <2>1. n \in Nat /\ n <= np
    BY <1>1, Round, FS_Subset, FS_CardinalityType DEF Inv, TypeOK
  <2>2. CASE reporter = 0
    <3>1. (np - n) * Repetitions <= np * Repetitions
      BY <1>1, <2>1, Round
    <3>2. Len(merged) <= (np - n) * Repetitions + 0
      BY <1>1, <2>2 DEF Inv, Merged
    <3>3. Len(merged) \in Nat
      BY <1>1 DEF Inv, TypeOK
    <3>4. (np - n) * Repetitions \in Int /\ np * Repetitions \in Int
      BY <1>1, <2>1, Round
    <3> HIDE DEF n
    <3>5. Len(merged) <= np * Repetitions
      BY <3>1, <3>2, <3>3, <3>4
    <3> QED
      BY <1>1, <3>5 DEF Inv, TypeOK, Room, Fits
  <2>3. CASE reporter # 0
    <3>1. reporter \in left /\ left \subseteq Active /\ left \subseteq Children
      BY <1>1, <2>3, Round DEF Inv, InRecord, TypeOK, Active
    <3>2. n # 0
      <4>1. IsFiniteSet(left)
        BY <1>1, <3>1, Round, FS_Subset DEF Active
      <4> QED
        BY <4>1, <3>1, FS_EmptySet
    <3>3. j \in Nat /\ j <= Repetitions /\ Len(merged) \in Nat
      <4>1. /\ Len(record[reporter]) <= i[reporter]
            /\ i[reporter] \in 0..Repetitions /\ j \in Nat
            /\ j <= Len(record[reporter]) /\ Len(record[reporter]) \in Nat
        BY <1>1, <2>3, <3>1 DEF Inv, TypeOK, Room, InRecord
      <4>2. Len(merged) \in Nat
        BY <1>1 DEF Inv, TypeOK
      <4> QED
        BY <4>1, <4>2
    <3>4. Len(merged) <= (np - n) * Repetitions + j
      BY <1>1, <2>3 DEF Inv, Merged
    <3> HIDE DEF n
    <3>5. (np - n) * Repetitions + Repetitions <= np * Repetitions
      <4>1. (np - n) * Repetitions + Repetitions = (np - n + 1) * Repetitions
        BY <1>1, <2>1, Round
      <4>2. np - n + 1 <= np
        BY <1>1, <2>1, <3>2, Round
      <4>3. (np - n + 1) * Repetitions <= np * Repetitions
        BY <1>1, <4>2, <2>1, Round
      <4> QED
        BY <4>1, <4>3
    <3>6. (np - n) * Repetitions \in Int /\ np * Repetitions \in Int
      BY <1>1, <2>1, Round
    <3>7. Len(merged) <= np * Repetitions
      BY <3>3, <3>4, <3>5, <3>6
    <3> QED
      BY <1>1, <3>7 DEF Inv, TypeOK, Room, Fits
  <2> QED
    BY <2>2, <2>3
<1>2. Inv => Fits
  BY <1>1
<1> QED
  BY <1>2, RecordInvariant, PTL

----------------------------------------------------------------------------
(* The median.                                                             *)

\* A product may be divided by a positive factor.
LEMMA Cancel ==
  ASSUME NEW a \in Nat, NEW b \in Nat, NEW m \in Nat \ {0}, a * m >= b * m
  PROVE  a >= b
  OBVIOUS

\* Values are ordered by their ratios.
LEMMA AtLeastTransitive ==
  ASSUME NEW a \in Values, NEW b \in Values, NEW c \in Values, AtLeast(a, b), AtLeast(b, c)
  PROVE  AtLeast(a, c)
<1>1. PICK au \in Nat, an \in Nat \ {0}, bu \in Nat, bn \in Nat \ {0}, cu \in Nat,
           cn \in Nat \ {0} :
        au = a.u /\ an = a.n /\ bu = b.u /\ bn = b.n /\ cu = c.u /\ cn = c.n
  BY DEF Values
<1>2. au * bn >= bu * an /\ bu * cn >= cu * bn
  BY <1>1 DEF AtLeast
<1>3. (au * bn) * cn >= (bu * an) * cn
  BY <1>2
<1>4. (bu * cn) * an >= (cu * bn) * an
  BY <1>2
<1>5. /\ (bu * an) * cn = (bu * cn) * an
      /\ (au * bn) * cn = (au * cn) * bn /\ (cu * bn) * an = (cu * an) * bn
  OBVIOUS
<1>6. (au * cn) * bn >= (cu * an) * bn
  BY <1>3, <1>4, <1>5
<1>7. au * cn \in Nat /\ cu * an \in Nat
  OBVIOUS
<1>8. au * cn >= cu * an
  BY <1>6, <1>7, Cancel
<1> QED
  BY <1>1, <1>8 DEF AtLeast

\* What is sorted step by step is sorted throughout: else there would be a first
\* place whose value is too slow.
LEMMA DescendingOrder ==
  ASSUME NEW r \in Seq(Values), Descending(r), NEW k \in 1..Len(r), NEW l \in k..Len(r)
  PROVE  AtLeast(r[k], r[l])
<1> DEFINE S == {m \in k..Len(r) : ~AtLeast(r[k], r[m])}
<1>1. Len(r) \in Nat /\ \A m \in 1..Len(r) : r[m] \in Values
  OBVIOUS
<1>2. AtLeast(r[k], r[k])
  BY <1>1 DEF AtLeast, Values
<1> SUFFICES ASSUME S # {} PROVE FALSE
  BY <1>1
<1>3. S \in SUBSET Nat
  BY <1>1
<1>4. PICK m \in S : \A n \in S : m <= n
  BY <1>3, LeastOne
<1>5. m \in k..Len(r) /\ m # k /\ ~AtLeast(r[k], r[m])
  BY <1>2, <1>4
<1>6. m - 1 \in k..Len(r) /\ m - 1 \in 1..Len(r) - 1 /\ (m - 1) + 1 = m /\ m \in 1..Len(r)
      /\ ~(m <= m - 1)
  BY <1>1, <1>5
<1>7. m - 1 \notin S
  BY <1>4, <1>6
<1>8. AtLeast(r[k], r[m - 1])
  BY <1>6, <1>7
<1>9. AtLeast(r[m - 1], r[m])
  BY <1>6 DEF Descending
<1>10. r[k] \in Values /\ r[m - 1] \in Values /\ r[m] \in Values
  BY <1>1, <1>6
<1> QED
  BY <1>5, <1>8, <1>9, <1>10, AtLeastTransitive

\* Some places of a record are as many as half of it.
LEMMA HalfOf ==
  ASSUME NEW n \in Nat, NEW S \in SUBSET (1..n), NEW a \in Nat, NEW b \in Nat,
         1 <= a, b <= n, a <= b + 1, a..b \subseteq S, 2 * (b + 1 - a) >= n
  PROVE  2 * Cardinality(S) >= n
<1>1. IsFiniteSet(1..n) /\ IsFiniteSet(a..b)
  BY FS_Interval
<1>2. Cardinality(a..b) = b + 1 - a
  <2>1. Cardinality(a..b) = IF a > b THEN 0 ELSE b - a + 1
    BY FS_Interval
  <2> QED
    BY <2>1
<1>3. IsFiniteSet(S)
  BY <1>1, FS_Subset
<1>4. Cardinality(a..b) <= Cardinality(S) /\ Cardinality(S) \in Nat
  BY <1>3, FS_Subset, FS_CardinalityType
<1> QED
  BY <1>2, <1>4

\* The middle value of an odd number of values.
LEMMA OddMedian ==
  ASSUME NEW r \in Seq(Values), Descending(r), Len(r) % 2 = 1
  PROVE  /\ 2 * Cardinality({k \in 1..Len(r) : AtLeast(r[k], Median(r))}) >= Len(r)
         /\ 2 * Cardinality({k \in 1..Len(r) : AtLeast(Median(r), r[k])}) >= Len(r)
<1> DEFINE n == Len(r)
           m == n \div 2 + 1
           A == {k \in 1..n : AtLeast(r[k], Median(r))}
           B == {k \in 1..n : AtLeast(Median(r), r[k])}
<1>1. n \in Nat /\ m \in 1..n /\ 2 * m >= n /\ 2 * (n + 1 - m) >= n /\ m \in Nat
  <2>1. n \in Nat
    OBVIOUS
  <2> QED
    BY <2>1
<1>2. Median(r) = r[m]
  BY <1>1 DEF Median, UpperMiddle
<1> HIDE DEF m
<1>3. \A k \in 1..m : k \in 1..n /\ m \in k..n
  BY <1>1
<1>4. \A k \in m..n : k \in 1..n
  BY <1>1
<1>5. \A k \in 1..m : AtLeast(r[k], r[m])
  BY <1>3, DescendingOrder
<1>6. \A k \in m..n : AtLeast(r[m], r[k])
  BY <1>1, DescendingOrder
<1>7. 1..m \subseteq A /\ m..n \subseteq B
  BY <1>2, <1>3, <1>4, <1>5, <1>6
<1>8. A \in SUBSET (1..n) /\ B \in SUBSET (1..n)
  OBVIOUS
<1> HIDE DEF A, B, n
<1>9. 2 * Cardinality(A) >= n
  <2>1. 1 \in Nat /\ 1 <= 1 /\ m <= n /\ 1 <= m + 1 /\ 2 * (m + 1 - 1) >= n
    BY <1>1
  <2> QED
    BY <1>1, <1>7, <1>8, <2>1, HalfOf
<1>10. 2 * Cardinality(B) >= n
  <2>1. 1 <= m /\ n <= n /\ m <= n + 1
    BY <1>1
  <2> QED
    BY <1>1, <1>7, <1>8, <2>1, HalfOf
<1> QED
  BY <1>9, <1>10 DEF A, B, n

\* The average of the middle two of an even number of values, all for the same
\* number of iterations.
LEMMA EvenMedian ==
  ASSUME NEW r \in Seq(Values), Descending(r), Len(r) # 0, Len(r) % 2 # 1, NEW c \in Nat \ {0},
         \A k \in 1..Len(r) : r[k].n = c
  PROVE  /\ 2 * Cardinality({k \in 1..Len(r) : AtLeast(r[k], Median(r))}) >= Len(r)
         /\ 2 * Cardinality({k \in 1..Len(r) : AtLeast(Median(r), r[k])}) >= Len(r)
<1> DEFINE n == Len(r)
           h == n \div 2
           A == {k \in 1..n : AtLeast(r[k], Median(r))}
           B == {k \in 1..n : AtLeast(Median(r), r[k])}
<1>1. /\ n \in Nat /\ h \in Nat /\ h \in 1..n /\ h + 1 \in 1..n /\ 2 * h = n
      /\ \A k \in 1..n : r[k] \in Values
  <2>1. n \in Nat /\ \A k \in 1..n : r[k] \in Values
    OBVIOUS
  <2> QED
    BY <2>1
<1>2. PICK x \in Nat, y \in Nat : x = r[h].u /\ y = r[h + 1].u
  BY <1>1 DEF Values
<1>3. Median(r) = [u |-> (y + x) \div 2, n |-> (c + c) \div 2]
  BY <1>1, <1>2 DEF Median, UpperMiddle, LowerMiddle
<1>4. (c + c) \div 2 = c
  OBVIOUS
<1> HIDE DEF h
<1>5. x >= y
  <2>1. AtLeast(r[h], r[h + 1])
    BY <1>1 DEF Descending
  <2>2. x * c >= y * c
    BY <1>1, <1>2, <2>1 DEF AtLeast
  <2> QED
    BY <2>2, Cancel
<1>6. PICK z \in Nat : z = (y + x) \div 2 /\ x >= z /\ z >= y
  BY <1>5
<1>7. Median(r).u = z /\ Median(r).n = c
  BY <1>3, <1>4, <1>6
<1>8. ASSUME NEW k \in 1..h PROVE k \in A
  <2>1. k \in 1..n /\ h \in k..n
    BY <1>1
  <2>2. AtLeast(r[k], r[h])
    BY <2>1, DescendingOrder
  <2>3. PICK v \in Nat : v = r[k].u
    BY <1>1, <2>1 DEF Values
  <2>4. v * c >= x * c
    BY <1>1, <1>2, <2>1, <2>2, <2>3 DEF AtLeast
  <2>5. x * c >= z * c
    BY <1>6
  <2>6. v * c >= z * c
    BY <2>4, <2>5
  <2> QED
    BY <1>7, <2>1, <2>3, <2>6 DEF AtLeast
<1>9. ASSUME NEW k \in h+1..n PROVE k \in B
  <2>1. k \in 1..n /\ h + 1 \in 1..n /\ k \in h+1..n
    BY <1>1
  <2>2. AtLeast(r[h + 1], r[k])
    BY <2>1, DescendingOrder
  <2>3. PICK v \in Nat : v = r[k].u
    BY <1>1, <2>1 DEF Values
  <2>4. y * c >= v * c
    BY <1>1, <1>2, <2>1, <2>2, <2>3 DEF AtLeast
  <2>5. z * c >= y * c
    BY <1>6
  <2>6. z * c >= v * c
    BY <2>4, <2>5
  <2> QED
    BY <1>7, <2>1, <2>3, <2>6 DEF AtLeast
<1>10. 1..h \subseteq A /\ h+1..n \subseteq B /\ A \in SUBSET (1..n) /\ B \in SUBSET (1..n)
  BY <1>8, <1>9
<1> HIDE DEF A, B, n
<1>11. 2 * Cardinality(A) >= n
  <2>1. 1 \in Nat /\ 1 <= 1 /\ h <= n /\ 1 <= h + 1 /\ 2 * (h + 1 - 1) >= n
    BY <1>1
  <2> QED
    BY <1>1, <1>10, <2>1, HalfOf
<1>12. 2 * Cardinality(B) >= n
  <2>1. h + 1 \in Nat /\ 1 <= h + 1 /\ n <= n /\ h + 1 <= n + 1 /\ 2 * (n + 1 - (h + 1)) >= n
    BY <1>1
  <2> QED
    BY <1>1, <1>10, <2>1, HalfOf
<1> QED
  BY <1>11, <1>12 DEF A, B, n

----------------------------------------------------------------------------
(* What insertsort() inserts.                                              *)

\* A record holds what it held, and the new value if that took any time.
LEMMA InsertSortHolds ==
  ASSUME NEW r \in Seq(Values), NEW x \in Values,
         NEW l \in 1..Len(InsertSort(r, x))
  PROVE  \/ x.u # 0 /\ InsertSort(r, x)[l] = x
         \/ \E m \in 1..Len(r) : InsertSort(r, x)[l] = r[m]
<1>1. CASE x.u = 0
  BY <1>1 DEF InsertSort
<1>2. CASE x.u # 0
  <2> DEFINE k == Place(r, x)
             s == InsertAt(r, k, x)
  <2>1. InsertSort(r, x) = s
    BY <1>2 DEF InsertSort
  <2>2. k \in 1..Len(r) + 1 /\ Len(r) \in Nat
    BY PlaceFacts
  <2>3. /\ Len(s) = Len(r) + 1
        /\ \A m \in 1..Len(r) + 1 :
             s[m] = IF m < k THEN r[m] ELSE IF m = k THEN x ELSE r[m - 1]
    BY <2>2, InsertAtFacts, SMTT(60)
  <2> HIDE DEF k, s
  <2>4. l \in 1..Len(r) + 1
    BY <2>1, <2>3
  <2>5. CASE l < k
    <3>1. l \in 1..Len(r) /\ s[l] = r[l]
      BY <2>2, <2>3, <2>4, <2>5
    <3> QED
      BY <2>1, <3>1
  <2>6. CASE l = k
    BY <1>2, <2>1, <2>2, <2>3, <2>4, <2>6
  <2>7. CASE l > k
    <3>1. l - 1 \in 1..Len(r) /\ s[l] = r[l - 1]
      BY <2>2, <2>3, <2>4, <2>7
    <3> QED
      BY <2>1, <3>1
  <2> QED
    BY <2>2, <2>4, <2>5, <2>6, <2>7
<1> QED
  BY <1>1, <1>2

\* A value inserted anywhere is in the record once more, and every other value
\* as often as before: the places move, and none is lost.
LEMMA InsertAtCounts ==
  ASSUME NEW r \in Seq(Values), NEW y \in Values, NEW k \in 1..Len(r) + 1, NEW x
  PROVE  /\ Occurrences(r, x) \in Nat
         /\ Occurrences(InsertAt(r, k, y), x) =
              IF x = y THEN Occurrences(r, x) + 1 ELSE Occurrences(r, x)
<1> DEFINE n == Len(r)
           s == InsertAt(r, k, y)
           T == {l \in 1..n : r[l] = x}
           U == {l \in 1..n + 1 : s[l] = x /\ l # k}
           f == [l \in T |-> IF l < k THEN l ELSE l + 1]
<1>1. /\ n \in Nat /\ Len(s) = n + 1
      /\ \A l \in 1..n + 1 : s[l] = IF l < k THEN r[l] ELSE IF l = k THEN y ELSE r[l - 1]
  BY InsertAtFacts, SMTT(60)
<1> HIDE DEF n, s
<1>2. IsFiniteSet(T)
  <2>1. n \in Int /\ 1 \in Int
    BY <1>1
  <2>2. IsFiniteSet(1..n)
    BY <2>1, FS_Interval
  <2>3. T \in SUBSET (1..n)
    OBVIOUS
  <2> HIDE DEF T
  <2> QED
    BY <2>2, <2>3, FS_Subset
<1>3. f \in Bijection(T, U)
  <2>1. ASSUME NEW l \in T PROVE f[l] \in U
    <3>1. l \in 1..n /\ r[l] = x /\ k \in 1..n + 1
      BY DEF n
    <3>2. CASE l < k
      BY <1>1, <3>1, <3>2
    <3>3. CASE ~(l < k)
      <4>0. f[l] = l + 1
        BY <3>3
      <4> HIDE DEF f, T
      <4>1. l + 1 \in 1..n + 1 /\ (l + 1) - 1 = l /\ ~(l + 1 < k) /\ l + 1 # k
        BY <1>1, <3>1, <3>3
      <4>2. s[l + 1] = r[(l + 1) - 1]
        BY <1>1, <4>1
      <4> QED
        BY <3>1, <4>0, <4>1, <4>2
    <3> QED
      BY <3>2, <3>3
  <2>2. ASSUME NEW a \in T, NEW b \in T, f[a] = f[b] PROVE a = b
    <3>1. a \in Nat /\ b \in Nat /\ k \in Nat
      BY <1>1
    <3> QED
      BY <2>2, <3>1
  <2>3. ASSUME NEW u \in U PROVE \E l \in T : f[l] = u
    <3>1. u \in 1..n + 1 /\ s[u] = x /\ u # k /\ k \in 1..n + 1
      BY DEF n
    <3>2. CASE u < k
      <4>1. u \in T
        BY <1>1, <3>1, <3>2
      <4> QED
        BY <3>2, <4>1
    <3>3. CASE u > k
      <4>1. u - 1 \in 1..n /\ ~(u - 1 < k) /\ (u - 1) + 1 = u /\ r[u - 1] = x
        BY <1>1, <3>1, <3>3
      <4>2. u - 1 \in T
        BY <4>1
      <4> QED
        BY <4>1, <4>2
    <3> QED
      BY <1>1, <3>1, <3>2, <3>3
  <2>4. f \in [T -> U]
    BY <2>1
  <2>5. DOMAIN f = T
    OBVIOUS
  <2> HIDE DEF f, T, U
  <2> QED
    BY <2>2, <2>3, <2>4, <2>5 DEF IsInjective, Bijection, Injection, Surjection
<1>4. IsFiniteSet(U) /\ Cardinality(U) = Cardinality(T) /\ Cardinality(T) \in Nat
  <2> HIDE DEF f, T, U
  <2>1. ExistsBijection(T, U)
    BY <1>3 DEF ExistsBijection
  <2> QED
    BY <1>2, <2>1, FS_Bijection, FS_CardinalityType
<1>5. Occurrences(r, x) = Cardinality(T)
  BY DEF Occurrences, n
<1>6. Occurrences(s, x) = Cardinality({l \in 1..n + 1 : s[l] = x})
  BY <1>1 DEF Occurrences
<1>7. k \in 1..n + 1 /\ s[k] = y /\ k \notin U
  <2>1. k \in 1..n + 1
    BY DEF n
  <2> QED
    BY <1>1, <2>1
<1>8. CASE x = y
  <2>1. {l \in 1..n + 1 : s[l] = x} = U \cup {k}
    BY <1>7, <1>8
  <2> HIDE DEF T, U
  <2> QED
    BY <1>4, <1>5, <1>6, <1>7, <1>8, <2>1, FS_AddElement, ZenonT(60) DEF s
<1>9. CASE x # y
  <2>1. {l \in 1..n + 1 : s[l] = x} = U
    BY <1>7, <1>9
  <2> HIDE DEF T, U
  <2> QED
    BY <1>4, <1>5, <1>6, <1>9, <2>1 DEF s
<1> QED
  BY <1>4, <1>5, <1>8, <1>9

----------------------------------------------------------------------------
(* What is in the records, and what the parent has taken from them.        *)

\* Every value took some time, and those of several children count the same
\* iterations.
Proper(r) ==
  \A k \in 1..Len(r) : r[k].u # 0 /\ (np > 1 => r[k].n = iterations)

AllProper == Proper(merged) /\ \A c \in Children : Proper(record[c])

\* The results are those of all children, and nothing is merged after that.
Settled == current => left = {} /\ saved = Median(merged)

\* The parent collects when all children have stopped.
Waits == cool # Active => left = Active /\ reporter = 0

\* The places in the records that hold x and that the parent has merged.
Taken(x) ==
  {p \in Children \X (1..Repetitions) :
     /\ p[2] <= Len(record[p[1]]) /\ record[p[1]][p[2]] = x
     /\ p[1] \notin left \/ (p[1] = reporter /\ p[2] <= j)}

Balanced == \A x \in Values : Occurrences(merged, x) = Cardinality(Taken(x))

\* Together with Inv this is inductive.
Kept == AllProper /\ Settled /\ Waits /\ Balanced

\* The places are finitely many.
LEMMA TakenFinite ==
  ASSUME NEW x
  PROVE  IsFiniteSet(Taken(x)) /\ Cardinality(Taken(x)) \in Nat
<1>1. IsFiniteSet(Children) /\ IsFiniteSet(1..Repetitions)
  BY FS_Interval DEF Children
<1>2. IsFiniteSet(Children \X (1..Repetitions))
  BY <1>1, FS_Product
<1>3. Taken(x) \in SUBSET (Children \X (1..Repetitions))
  BY DEF Taken
<1> QED
  BY <1>2, <1>3, FS_Subset, FS_CardinalityType

\* insertsort() keeps a record proper.
LEMMA InsertProper ==
  ASSUME NEW r \in Seq(Values), NEW x \in Values,
         Proper(r), np > 1 => x.n = iterations
  PROVE  Proper(InsertSort(r, x))
<1> SUFFICES ASSUME NEW l \in 1..Len(InsertSort(r, x))
             PROVE  /\ InsertSort(r, x)[l].u # 0
                    /\ np > 1 => InsertSort(r, x)[l].n = iterations
  BY DEF Proper
<1> QED
  BY InsertSortHolds DEF Proper

\* The same values in the same places.
LEMMA BalancedSame ==
  ASSUME Balanced, merged' = merged, \A x \in Values : Taken(x)' = Taken(x)
  PROVE  Balanced'
BY DEF Balanced, Occurrences

\* Nothing is in the records before the first interval.
LEMMA InitKept ==
  ASSUME Init
  PROVE  Kept
<1>1. AllProper /\ Settled /\ Waits
  BY DEF Init, AllProper, Proper, Settled, Waits
<1>2. ASSUME NEW x \in Values PROVE Occurrences(merged, x) = Cardinality(Taken(x))
  <2>1. Taken(x) = {}
    BY DEF Init, Taken
  <2>2. {k \in 1..Len(merged) : merged[k] = x} = {}
    BY DEF Init
  <2> QED
    BY <2>1, <2>2 DEF Occurrences
<1> QED
  BY <1>1, <1>2 DEF Kept, Balanced

\* An interval changes the record of a child that has not been merged.
LEMMA IntervalKept ==
  ASSUME Inv, Kept, NEW c \in Children, NEW u \in Times, NEW n \in Counts,
         Interval(c, u, n)
  PROVE  Kept'
<1> DEFINE x == [u |-> u, n |-> n]
<1>1. x \in Values /\ (np > 1 => x.n = iterations)
  BY DEF Values, Interval
<1>2. /\ c \in Active \ cool /\ record[c] \in Seq(Values)
      /\ left = Active /\ reporter = 0
  BY DEF Inv, TypeOK, Interval, Kept, Waits
<1>3. /\ record' = [record EXCEPT ![c] = InsertSort(record[c], x)]
      /\ UNCHANGED <<np, iterations, left, reporter, j, merged, current, saved>>
  BY DEF Interval, parentVars
<1> HIDE DEF x
<1>4. AllProper'
  <2>1. Proper(InsertSort(record[c], x))
    BY <1>1, <1>2, InsertProper DEF Kept, AllProper
  <2>2. \A r : Proper(r)' <=> Proper(r)
    BY <1>3 DEF Proper
  <2> QED
    BY <1>3, <2>1 DEF Kept, AllProper, Proper, Inv, TypeOK
<1>5. Settled' /\ Waits'
  BY <1>2, <1>3 DEF Kept, Settled, Waits, Active
<1>6. ASSUME NEW y \in Values PROVE Taken(y)' = Taken(y)
  <2>1. \A p \in Children \X (1..Repetitions) :
          p[1] # reporter /\ (p[1] \notin left => record'[p[1]] = record[p[1]])
    <3>1. \A p \in Children \X (1..Repetitions) : p[1] \in Children /\ p[1] # 0
      BY DEF Children
    <3>2. \A d \in Children : d \notin left => record'[d] = record[d]
      BY <1>2, <1>3 DEF Inv, TypeOK
    <3> QED
      BY <1>2, <3>1, <3>2
  <2> QED
    BY <1>3, <2>1 DEF Taken
<1> QED
  BY <1>3, <1>4, <1>5, <1>6, BalancedSame DEF Kept

\* A child that gives up keeps its record.
LEMMA GiveUpKept ==
  ASSUME Inv, Kept, NEW c \in Children, GiveUp(c)
  PROVE  Kept'
<1>1. /\ c \in Active \ cool
      /\ UNCHANGED <<np, iterations, i, record, left, reporter, j, merged, current, saved>>
  BY DEF GiveUp, parentVars
<1>2. AllProper' /\ Settled' /\ Waits'
  BY <1>1 DEF Kept, AllProper, Proper, Settled, Waits, Active
<1>3. ASSUME NEW y \in Values PROVE Taken(y)' = Taken(y)
  BY <1>1 DEF Taken
<1> QED
  BY <1>1, <1>2, <1>3, BalancedSame DEF Kept

\* The parent has taken nothing yet of the record that it has read.
LEMMA CollectKept ==
  ASSUME Inv, Kept, NEW c \in Children, Collect(c)
  PROVE  Kept'
<1>1. /\ cool = Active /\ reporter = 0 /\ c \in left /\ reporter' = c /\ j' = 0
      /\ UNCHANGED <<np, iterations, i, cool, record, left, merged, current, saved>>
  BY DEF Collect, childVars
<1>2. AllProper' /\ Settled' /\ Waits'
  BY <1>1 DEF Kept, AllProper, Proper, Settled, Waits, Active
<1>3. ASSUME NEW y \in Values PROVE Taken(y)' = Taken(y)
  <2>1. \A p \in Children \X (1..Repetitions) : p[1] # 0 /\ ~(p[2] <= 0)
    BY DEF Children
  <2> QED
    BY <1>1, <2>1 DEF Taken
<1> QED
  BY <1>1, <1>2, <1>3, BalancedSame DEF Kept

\* The value merged is the next of the record, and no other moves out.
LEMMA MergeKept ==
  ASSUME Inv, Kept, Merge
  PROVE  Kept'
<1> DEFINE x == record[reporter][j + 1]
           q == <<reporter, j + 1>>
<1>1. /\ reporter # 0 /\ j < Len(record[reporter])
      /\ merged' = InsertSort(merged, x) /\ j' = j + 1
      /\ UNCHANGED <<np, iterations, i, cool, record, left, reporter, current, saved>>
  BY DEF Merge, childVars
<1>2. reporter \in Children /\ reporter \in left /\ j \in Nat
  BY <1>1, Round DEF Inv, TypeOK, InRecord, Active
<1>3. record[reporter] \in Seq(Values) /\ j + 1 \in 1..Len(record[reporter])
  BY <1>1, <1>2 DEF Inv, TypeOK
<1>4. x \in Values /\ merged \in Seq(Values)
  BY <1>3 DEF Inv, TypeOK
<1>5. x.u # 0 /\ (np > 1 => x.n = iterations)
  BY <1>2, <1>3 DEF Kept, AllProper, Proper
<1>6. q \in Children \X (1..Repetitions)
  <2>1. Len(record[reporter]) <= i[reporter] /\ i[reporter] \in 0..Repetitions
    BY <1>2 DEF Inv, TypeOK, Room
  <2>2. j + 1 \in 1..Repetitions
    BY <1>3, <2>1
  <2> QED
    BY <1>2, <2>2
<1>7. AllProper'
  <2>1. Proper(InsertSort(merged, x))
    BY <1>4, <1>5, InsertProper DEF Kept, AllProper
  <2> HIDE DEF x
  <2> QED
    BY <1>1, <2>1 DEF Kept, AllProper, Proper
<1>8. Settled' /\ Waits'
  BY <1>1, <1>2 DEF Kept, Settled, Waits, Active
<1>9. ASSUME NEW y \in Values
      PROVE  Taken(y)' = IF y = x THEN Taken(y) \cup {q} ELSE Taken(y)
  <2>1. ASSUME NEW p \in Children \X (1..Repetitions)
        PROVE  p[1] = reporter =>
                 ((p[2] <= j + 1) <=> (p[2] <= j \/ p = q))
    BY <1>2
  <2>2. q[1] = reporter /\ q[2] = j + 1 /\ q[2] <= Len(record[q[1]]) /\ record[q[1]][q[2]] = x
    BY <1>3
  <2>3. \A p \in Children \X (1..Repetitions) : p = q => p[1] = reporter
    OBVIOUS
  <2> HIDE DEF q, x
  <2> QED
    BY <1>1, <1>2, <1>6, <2>1, <2>2, <2>3 DEF Taken
<1>10. ASSUME NEW y \in Values PROVE q \notin Taken(y)
  <2>1. q[1] = reporter /\ q[2] = j + 1 /\ ~(j + 1 <= j)
    BY <1>2
  <2> HIDE DEF q
  <2> QED
    BY <1>2, <2>1 DEF Taken
<1>11. merged' = InsertAt(merged, Place(merged, x), x)
  BY <1>1, <1>5 DEF InsertSort
<1>12. Place(merged, x) \in 1..Len(merged) + 1
  BY <1>4, PlaceFacts
<1> HIDE DEF x, q
<1>13. ASSUME NEW y \in Values
       PROVE  Occurrences(merged', y) = Cardinality(Taken(y)')
  <2>1. Occurrences(merged, y) = Cardinality(Taken(y))
    BY DEF Kept, Balanced
  <2>2. Occurrences(merged', y) =
          IF y = x THEN Occurrences(merged, y) + 1 ELSE Occurrences(merged, y)
    BY <1>4, <1>11, <1>12, InsertAtCounts
  <2>3. Cardinality(Taken(y) \cup {q}) = Cardinality(Taken(y)) + 1
    BY <1>10, TakenFinite, FS_AddElement
  <2> QED
    BY <1>9, <2>1, <2>2, <2>3
<1>14. Balanced'
  BY <1>13 DEF Balanced
<1> QED
  BY <1>7, <1>8, <1>14 DEF Kept

\* A record whose values are all taken is a record that is done.
LEMMA MergeEndsKept ==
  ASSUME Inv, Kept, MergeEnds
  PROVE  Kept'
<1>1. /\ reporter # 0 /\ j = Len(record[reporter])
      /\ left' = left \ {reporter} /\ reporter' = 0
      /\ UNCHANGED <<np, iterations, i, cool, record, j, merged, current, saved>>
  BY DEF MergeEnds, childVars
<1>2. cool = Active /\ reporter \in left
  BY <1>1 DEF Inv, InRecord
<1>3. AllProper' /\ Settled' /\ Waits'
  BY <1>1, <1>2 DEF Kept, AllProper, Proper, Settled, Waits, Active
<1>4. ASSUME NEW y \in Values PROVE Taken(y)' = Taken(y)
  <2>1. \A p \in Children \X (1..Repetitions) : p[1] # 0
    BY DEF Children
  <2> QED
    BY <1>1, <1>2, <2>1 DEF Taken
<1> QED
  BY <1>1, <1>3, <1>4, BalancedSame DEF Kept

\* set_results() takes the median of what is merged.
LEMMA SetResultsKept ==
  ASSUME Inv, Kept, SetResults
  PROVE  Kept'
<1>1. /\ left = {} /\ current' = TRUE /\ saved' = Median(merged)
      /\ UNCHANGED <<np, iterations, i, cool, record, left, reporter, j, merged>>
  BY DEF SetResults, childVars
<1>2. AllProper' /\ Settled' /\ Waits'
  BY <1>1 DEF Kept, AllProper, Proper, Settled, Waits, Active
<1>3. ASSUME NEW y \in Values PROVE Taken(y)' = Taken(y)
  BY <1>1 DEF Taken
<1> QED
  BY <1>1, <1>2, <1>3, BalancedSame DEF Kept

\* A step that changes nothing keeps the records.
LEMMA StutterKept ==
  ASSUME Kept, UNCHANGED vars
  PROVE  Kept'
<1>1. AllProper' /\ Settled' /\ Waits'
  BY DEF vars, childVars, parentVars, Kept, AllProper, Proper, Settled, Waits, Active
<1>2. ASSUME NEW y \in Values PROVE Taken(y)' = Taken(y)
  BY DEF vars, childVars, parentVars, Taken
<1> QED
  BY <1>1, <1>2, BalancedSame DEF Kept, vars, parentVars

\* The parent has merged each value that it has read of the records once, and
\* nothing else: in whatever order benchmp_interval() inserts the intervals of
\* the children and the children report.
THEOREM RecordsKept == Spec => [](Inv /\ Kept)
<1>1. Inv /\ Kept /\ [Next]_vars => Kept'
  BY IntervalKept, GiveUpKept, CollectKept, MergeKept, MergeEndsKept,
     SetResultsKept, StutterKept DEF Next
<1> QED
  BY <1>1, InitKept, RecordInvariant, PTL DEF Spec

\* No value of a record is lost or counted twice on its way through the two
\* insertions, by the child and by the loop over results->v in the parent.
THEOREM LosesNothing == Spec => []NothingLost
<1>1. Inv /\ Kept => NothingLost
  <2> SUFFICES ASSUME Inv, Kept, left = {}, NEW u \in Times, NEW n \in Counts
               PROVE  Occurrences(merged, [u |-> u, n |-> n]) =
                        InRecords([u |-> u, n |-> n])
    BY DEF NothingLost
  <2> DEFINE x == [u |-> u, n |-> n]
  <2>1. x \in Values
    BY DEF Values
  <2> HIDE DEF x
  <2>2. Occurrences(merged, x) = Cardinality(Taken(x))
    BY <2>1 DEF Kept, Balanced
  <2>3. InRecords(x) = Cardinality(Taken(x))
    BY DEF InRecords, Taken
  <2> QED
    BY <2>2, <2>3 DEF x
<1> QED
  BY <1>1, RecordsKept, PTL

\* gettime() and get_n() return the middle of what was measured: save_median()
\* of a sorted record, for the children of a parallel round and for an odd
\* number of values of a single child.
THEOREM ReturnsTheMiddle == Spec => []MedianIsMiddle
<1>1. Inv /\ Kept => MedianIsMiddle
  <2> SUFFICES ASSUME Inv, Kept, current, merged # <<>>, np > 1 \/ Len(merged) % 2 = 1
               PROVE  LET Here == 1..Len(merged) IN
                      /\ 2 * Cardinality({k \in Here : AtLeast(merged[k], saved)}) >= Len(merged)
                      /\ 2 * Cardinality({k \in Here : AtLeast(saved, merged[k])}) >= Len(merged)
    BY DEF MedianIsMiddle
  <2>1. saved = Median(merged) /\ Descending(merged) /\ merged \in Seq(Values)
    BY DEF Kept, Settled, Inv, TypeOK, Sorted
  <2>2. CASE Len(merged) % 2 = 1
    BY <2>1, <2>2, OddMedian
  <2>3. CASE Len(merged) % 2 # 1
    <3>1. iterations \in Nat \ {0} /\ Len(merged) # 0
      BY <2>1 DEF Inv, TypeOK
    <3>2. \A k \in 1..Len(merged) : merged[k].n = iterations
      BY <2>3 DEF Kept, AllProper, Proper
    <3> QED
      BY <2>1, <2>3, <3>1, <3>2, EvenMedian
  <2> QED
    BY <2>2, <2>3
<1> QED
  BY <1>1, RecordsKept, PTL
=============================================================================
