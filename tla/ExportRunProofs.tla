--------------------------- MODULE ExportRunProofs ---------------------------
(***************************************************************************)
(* Theorems about ExportRun, for every set of records, page size, limit,   *)
(* sink, choice of faults and of changes to the source, and every number   *)
(* of deliveries.                                                          *)
(***************************************************************************)
EXTENDS ExportRun, FiniteSetTheorems, SequenceTheorems, TLAPS

-----------------------------------------------------------------------------
(* The order of the query                                                  *)

\* The elements of S up to r.
UpTo(S, r) == {s \in S : s <= r}

\* A record's place in the order is one of as many as there are records.
LEMMA RankIn ==
  ASSUME NEW S, S \subseteq Nat, IsFiniteSet(S), NEW r \in S
  PROVE  /\ IsFiniteSet(UpTo(S, r)) /\ Cardinality(S) \in Nat
         /\ Cardinality(UpTo(S, r)) \in Nat /\ Cardinality(UpTo(S, r)) \in 1..Cardinality(S)
<1>1. UpTo(S, r) \in SUBSET S /\ r \in UpTo(S, r)
  BY DEF UpTo
<1>2. IsFiniteSet(UpTo(S, r)) /\ Cardinality(UpTo(S, r)) <= Cardinality(S)
  BY <1>1, FS_Subset
<1>3. /\ Cardinality(S) \in Nat
      /\ Cardinality(UpTo(S, r)) \in Nat /\ Cardinality(UpTo(S, r)) # 0
  BY <1>1, <1>2, FS_CardinalityType, FS_EmptySet
<1>4. QED
  BY <1>2, <1>3

\* A greater record has a greater place.
LEMMA RankGrows ==
  ASSUME NEW S, S \subseteq Nat, IsFiniteSet(S), NEW r \in S, NEW s \in S, r < s
  PROVE  Cardinality(UpTo(S, r)) < Cardinality(UpTo(S, s))
<1>1. r \in Nat /\ s \in Nat /\ r < s /\ s <= s /\ ~(s <= r) /\ \A q \in S : q <= r => q <= s
  OBVIOUS
<1>2. UpTo(S, r) \in SUBSET UpTo(S, s) /\ s \in UpTo(S, s) /\ s \notin UpTo(S, r)
  BY <1>1, Zenon DEF UpTo
<1>3. IsFiniteSet(UpTo(S, s))
  BY RankIn
<1>4. /\ Cardinality(UpTo(S, r)) <= Cardinality(UpTo(S, s))
      /\ Cardinality(UpTo(S, r)) # Cardinality(UpTo(S, s))
  BY <1>2, <1>3, FS_Subset
<1>5. Cardinality(UpTo(S, r)) \in Nat /\ Cardinality(UpTo(S, s)) \in Nat
  BY RankIn
<1>6. QED
  BY <1>4, <1>5

\* And a record at a greater place is greater.
LEMMA RankTells ==
  ASSUME NEW S, S \subseteq Nat, IsFiniteSet(S), NEW r \in S, NEW s \in S,
         Cardinality(UpTo(S, r)) < Cardinality(UpTo(S, s))
  PROVE  r < s
<1>1. Cardinality(UpTo(S, r)) \in Nat /\ Cardinality(UpTo(S, s)) \in Nat
  BY RankIn
<1>2. s < r => Cardinality(UpTo(S, s)) < Cardinality(UpTo(S, r))
  BY RankGrows
<1>3. r \in Nat /\ s \in Nat /\ s # r
  BY <1>1
<1>4. QED
  BY <1>1, <1>2, <1>3

\* A finite set of numbers has an increasing enumeration (what Sorted chooses): the
\* inverse of the function from an element to its place, which is injective into as
\* many numbers.
LEMMA SortedExists ==
  ASSUME NEW S, S \subseteq Nat, IsFiniteSet(S)
  PROVE  Sorted(S) \in [1..Cardinality(S) -> S] /\ InOrder(Sorted(S))
<1> DEFINE N == Cardinality(S)
           place == [r \in S |-> Cardinality(UpTo(S, r))]
<1>1. N \in Nat
  BY FS_CardinalityType
<1>2. \A r \in S : place[r] \in 1..N
  BY RankIn
<1>3. \A r, s \in S : r < s => place[r] < place[s]
  BY RankGrows
<1>4. place \in Injection(S, 1..N)
  BY <1>2, <1>3 DEF Injection, IsInjective
<1>5. place \in Surjection(S, 1..N)
  <2>1. IsFiniteSet(1..N) /\ Cardinality(1..N) = N
    BY <1>1, FS_Interval
  <2>2. QED
    BY <1>4, <2>1, FS_Injection
<1> DEFINE list == [n \in 1..N |-> CHOOSE r \in S : place[r] = n]
<1>6. \A n \in 1..N : list[n] \in S /\ place[list[n]] = n
  <2>1. \A n \in 1..N : \E r \in S : place[r] = n
    BY <1>5 DEF Surjection
  <2> HIDE DEF place
  <2>2. QED
    BY <2>1
<1>7. InOrder(list)
  <2> SUFFICES ASSUME NEW m \in 1..N, NEW n \in 1..N, m < n PROVE list[m] < list[n]
    BY DEF InOrder
  <2>1. list[m] \in Nat /\ list[n] \in Nat
    BY <1>6
  <2>2. ~(list[n] < list[m]) /\ list[n] # list[m]
    <3> HIDE DEF list, place
    <3>1. /\ list[m] \in S /\ place[list[m]] = m
          /\ list[n] \in S /\ place[list[n]] = n
      BY <1>6
    <3>2. list[n] < list[m] => n < m
      BY <1>3, <3>1, Zenon
    <3>3. QED
      BY <1>1, <3>1, <3>2
  <2>3. QED
    BY <2>1, <2>2
<1>8. list \in [1..N -> S]
  BY <1>6
<1>9. QED
  BY <1>7, <1>8 DEF Sorted

\* The n-th record of the order has n records up to itself: the first n of the order
\* are exactly those.
LEMMA RankOfSorted ==
  ASSUME NEW S, S \subseteq Nat, IsFiniteSet(S), NEW n \in 1..Cardinality(S)
  PROVE  Sorted(S)[n] \in S /\ Cardinality(UpTo(S, Sorted(S)[n])) = n
<1> DEFINE N == Cardinality(S)
           list == Sorted(S)
           first == [m \in 1..n |-> list[m]]
           upto == UpTo(S, list[n])
<1>1. N \in Nat
  BY FS_CardinalityType
<1>2. list \in [1..N -> S] /\ \A m, o \in 1..N : m < o => list[m] < list[o]
  BY SortedExists DEF InOrder
<1> HIDE DEF list
<1>3. \A m, o \in 1..N : list[m] = list[o] => m = o
  <2> SUFFICES ASSUME NEW m \in 1..N, NEW o \in 1..N, list[m] = list[o] PROVE m = o
    OBVIOUS
  <2>1. list[m] \in Nat /\ list[o] \in Nat
    BY <1>2
  <2>2. ~(m < o) /\ ~(o < m)
    BY <1>2, <2>1
  <2>3. QED
    BY <1>1, <2>2
<1>4. \A s \in S : \E m \in 1..N : list[m] = s
  <2>1. list \in Injection(1..N, S)
    BY <1>2, <1>3 DEF Injection, IsInjective
  <2>2. Cardinality(1..N) = N
    BY <1>1, FS_Interval
  <2>3. list \in Surjection(1..N, S)
    BY <2>1, <2>2, FS_Injection
  <2>4. QED
    BY <2>3 DEF Surjection
<1>5. \A m \in 1..N : list[m] <= list[n] <=> m <= n
  <2> TAKE m \in 1..N
  <2>0. list[m] \in S /\ list[n] \in S
    BY <1>2
  <2>1. list[m] \in Nat /\ list[n] \in Nat
    BY <2>0
  <2>2. m \in Nat /\ n \in Nat
    BY <1>1
  <2>3. (m < n => list[m] < list[n]) /\ (n < m => list[n] < list[m])
    BY <1>2
  <2>4. QED
    BY <2>1, <2>2, <2>3
<1>6. first \in [1..n -> upto]
  BY <1>1, <1>2, <1>5 DEF UpTo
<1>7. \A s \in upto : \E m \in 1..n : first[m] = s
  <2> TAKE s \in upto
  <2>1. s \in S /\ s <= list[n]
    BY DEF UpTo
  <2>2. PICK m \in 1..N : list[m] = s
    BY <1>4, <2>1
  <2>3. m \in 1..n
    BY <1>1, <1>5, <2>1, <2>2
  <2>4. QED
    BY <2>2, <2>3
<1>8. \A m, o \in 1..n : first[m] = first[o] => m = o
  BY <1>1, <1>3
<1>9. first \in Bijection(1..n, upto)
  <2> HIDE DEF first, upto
  <2>1. QED
    BY <1>6, <1>7, <1>8 DEF Bijection, Injection, Surjection, IsInjective
<1>10. IsFiniteSet(1..n) /\ Cardinality(1..n) = n
  BY <1>1, FS_Interval
<1>11. Cardinality(upto) = n
  BY <1>9, <1>10, FS_Bijection DEF ExistsBijection
<1>12. QED
  BY <1>2, <1>11 DEF list

\* A record after all the others changes no place.
LEMMA RankKept ==
  ASSUME NEW S, S \subseteq Nat, IsFiniteSet(S), NEW r \in Nat, \A s \in S : s < r
  PROVE  /\ r \notin S /\ IsFiniteSet(S \cup {r})
         /\ Cardinality(S \cup {r}) = Cardinality(S) + 1
         /\ \A s \in S : UpTo(S \cup {r}, s) = UpTo(S, s)
<1>1. r \notin S
  OBVIOUS
<1>2. \A s \in S : ~(r <= s)
  OBVIOUS
<1>3. QED
  BY <1>1, <1>2, FS_AddElement DEF UpTo

-----------------------------------------------------------------------------
(* The inductive invariants                                                *)

InLoop == {"fetching", "posting", "reporting", "checking"}
BeforeLoop == {"queued", "ended", "loaded", "counting", "creating"}

\* The page at work is never empty, and a coroutine before its loop, or a dead one,
\* has the locals it starts with.
LocalsInv ==
  /\ pc = "posting" => page # <<>>
  /\ pc \in BeforeLoop => offset = 0 /\ processed = 0 /\ skipped = 0 /\ ~full

\* Below the limit as long as records may come, and no output longer than the count.
LimitInv ==
  limit # 0 =>
    /\ processed <= limit /\ rprocessed <= limit
    /\ pc \in {"fetching", "posting"} => processed < limit
    /\ pc \in {"reporting", "checking"} => full \/ processed < limit
    /\ kind # "remote" => Len(dest) <= limit
    /\ kind = "stream" /\ pc \in InLoop => Len(dest) <= processed
    /\ kind = "buffer" /\ pc \in InLoop \cup {"finalising"} => Len(buf) <= processed

\* The place of a record among those the query matches, and the output of this run.
Rank(r) == Cardinality(UpTo(source, r))
Out == IF kind = "buffer" THEN buf ELSE dest

\* The records that have been written, lost or skipped are the first ones.
Taken == Len(Out) + lost + skipped

Written(s) == InOrder(s) /\ \A n \in DOMAIN s : s[n] \in source
OfTheFirst(s, k) == \A n \in DOMAIN s : Rank(s[n]) <= k

\* A page from offset on may end after n records: all of a source at rest.
PageEnd(n) ==
  /\ n <= offset + BatchSize /\ n <= Cardinality(source)
  /\ n = offset + BatchSize \/ total <= n

\* The whole source has been taken, and what it has gained on the last page.
AllOf(n) == total <= n /\ n < total + BatchSize /\ n <= Cardinality(source)

\* What a cancel, or an earlier delivery, leaves in the row.
RowInv ==
  /\ status = "completed" => pc \in {"queued", "loaded", "failing", "returned", "ended"}
  /\ pc \in InLoop \cup {"finalising", "deciding"} /\ full /\ limit = 0 => status = "cancelled"
  /\ pc = "closing" /\ full => limit # 0
  /\ pc \in InLoop \cup {"creating", "finalising", "deciding", "closing"} => rtotal = total
  /\ tries = 0 => pc = "queued" /\ status # "completed"
  /\ kind = "remote" /\ (tries = 0 \/ (tries = 1 /\ pc \in {"loaded", "counting", "creating"})) => dest = <<>>

CountedInv ==
  pc \in InLoop \cup {"creating", "finalising", "deciding", "closing"} =>
    total <= Cardinality(source) /\ (moved = "still" => total = Cardinality(source))

LoopInv ==
  /\ pc \in InLoop \cup {"finalising"} => Written(Out) /\ OfTheFirst(Out, Taken)
  /\ pc \in InLoop => offset < total
  /\ pc = "fetching" => Taken = offset /\ ~full
  /\ pc = "posting" =>
       /\ ~full /\ PageEnd(Taken + Len(page))
       /\ \A n \in DOMAIN page : page[n] \in source /\ Rank(page[n]) = Taken + n
  /\ pc \in {"reporting", "checking"} => full \/ PageEnd(Taken)
  /\ pc = "checking" => rskipped = skipped

EndInv ==
  /\ pc = "finalising" => /\ total # 0 => rskipped = skipped
                          /\ full \/ AllOf(Taken)
  /\ pc \in {"deciding", "closing"} /\ total # 0 => Written(dest) /\ (full \/ AllOf(Accounted))

\* Of a run whose output is its own, from a source that has at most grown at its end.
RunInv == Replaced /\ moved # "shifted" => CountedInv /\ LoopInv /\ EndInv

\* What Complete has left, for the next delivery to find as it was.
DoneInv ==
  Reported /\ moved # "shifted" =>
    /\ Written(dest) /\ rtotal \in Nat
    /\ moved = "still" => rtotal = Cardinality(source)
    /\ limit = 0 =>
         /\ rtotal <= Accounted /\ Accounted < rtotal + BatchSize
         /\ Accounted <= Cardinality(source)

Inv == TypeOK /\ LocalsInv /\ LimitInv /\ RowInv /\ RunInv /\ DoneInv

-----------------------------------------------------------------------------
(* The page                                                                *)

\* The source is a finite set of numbers.
LEMMA SourceFinite ==
  ASSUME TypeOK
  PROVE  source \subseteq Nat /\ IsFiniteSet(source) /\ Cardinality(source) \in Nat
<1>1. source \in SUBSET Records /\ Records \subseteq Nat /\ IsFiniteSet(Records)
  BY RecordsAssumption DEF TypeOK
<1>2. QED
  BY <1>1, FS_Subset, FS_CardinalityType

\* The smaller of two numbers.
LEMMA MinOfTwo ==
  ASSUME NEW a \in Nat, NEW b \in Nat
  PROVE  Min({a, b}) = IF a <= b THEN a ELSE b
<1>1. PICK c \in {a, b} : \A d \in {a, b} : c =< d
  OBVIOUS
<1>2. Min({a, b}) \in {a, b} /\ \A d \in {a, b} : Min({a, b}) =< d
  BY <1>1 DEF Min
<1>3. QED
  BY <1>2

\* fetch_page returns the records at the places after the offset, as many as a page
\* has or as are left.
LEMMA PageIs ==
  ASSUME TypeOK
  PROVE  /\ Page(offset) \in Seq(source)
         /\ Len(Page(offset)) = IF offset + BatchSize <= Cardinality(source) THEN BatchSize
                                ELSE IF offset < Cardinality(source) THEN Cardinality(source) - offset
                                ELSE 0
         /\ \A n \in DOMAIN Page(offset) : Rank(Page(offset)[n]) = offset + n
<1> DEFINE C == Cardinality(source)
           list == Sorted(source)
           last == Min({offset + BatchSize, C})
<1>1. C \in Nat /\ offset \in Nat /\ BatchSize \in Nat \ {0}
  BY SourceFinite, SizesAssumption DEF TypeOK
<1>2. last = IF offset + BatchSize <= C THEN offset + BatchSize ELSE C
  BY <1>1, MinOfTwo
<1>3. \A n \in 1..C : list[n] \in source /\ Rank(list[n]) = n
  BY SourceFinite, RankOfSorted DEF Rank
<1> HIDE DEF C, list, last
<1>4. last \in Int /\ offset + 1 \in Int /\ last <= C
  BY <1>1, <1>2
<1>5. \A n \in (offset + 1)..last : list[n] \in source
  BY <1>1, <1>3, <1>4
<1>a. Page(offset) = SubSeq(list, offset + 1, last)
  BY DEF Page, C, list, last
<1>6. /\ Page(offset) \in Seq(source)
      /\ Len(Page(offset)) = IF offset + 1 <= last THEN last - (offset + 1) + 1 ELSE 0
      /\ \A n \in 1..(last - (offset + 1) + 1) : Page(offset)[n] = list[offset + 1 + n - 1]
  BY <1>4, <1>5, <1>a, SubSeqProperties
<1>7. \A n \in DOMAIN Page(offset) : Rank(Page(offset)[n]) = offset + n
  <2> TAKE n \in DOMAIN Page(offset)
  <2>1. n \in 1..Len(Page(offset))
    BY <1>6
  <2>2. n \in 1..(last - (offset + 1) + 1) /\ offset + 1 + n - 1 = offset + n
    BY <1>1, <1>4, <1>6, <2>1
  <2>3. Page(offset)[n] = list[offset + n] /\ offset + n \in 1..C
    BY <1>1, <1>4, <1>6, <2>2
  <2>4. QED
    BY <1>3, <2>3
<1>8. QED
  BY <1>1, <1>2, <1>6, <1>7 DEF C

-----------------------------------------------------------------------------
(* Types                                                                   *)

\* Every step keeps the types.
LEMMA TypeStep ==
  ASSUME TypeOK, LocalsInv, [Next]_vars
  PROVE  TypeOK' /\ LocalsInv'
<1> USE DEF TypeOK, LocalsInv, BeforeLoop, Busy, Goto, sourceVars, jobVars, counterCols, rowVars,
            loopVars, countVars, sinkVars
<1>1. CASE Deliver
  BY <1>1, SizesAssumption DEF Deliver
<1>2. CASE MarkRunning
  BY <1>2 DEF MarkRunning
<1>3. CASE Count
  BY <1>3, SourceFinite DEF Count, Moves
<1>4. CASE CreateDataset
  BY <1>4 DEF CreateDataset, Loop
<1>5. CASE FetchPage
  <2>1. Page(offset) \in Seq(Records)
    BY PageIs
  <2>2. QED
    BY <1>5, <2>1 DEF FetchPage
<1>6. CASE ProcessRecord
  <2>1. page # <<>> /\ page \in Seq(Records)
    BY <1>6 DEF ProcessRecord
  <2>2. Head(page) \in Records /\ Tail(page) \in Seq(Records)
    BY <2>1, HeadTailProperties
  <2>3. Append(buf, Head(page)) \in Seq(Records) /\ Append(dest, Head(page)) \in Seq(Records)
    BY <2>2, AppendProperties
  <2>4. (page' = Tail(page) /\ full' = full) \/ (page' = <<>> /\ full' = TRUE)
    BY <1>6 DEF ProcessRecord, Skip, Keep, Advance
  <2>5. /\ processed' \in {processed, processed + 1} /\ skipped' \in {skipped, skipped + 1}
        /\ lost' \in {lost, lost + 1}
        /\ buf' \in {buf, Append(buf, Head(page))} /\ dest' \in {dest, Append(dest, Head(page))}
    <3>1. CASE Skip
      BY <1>6, <3>1 DEF ProcessRecord, Skip
    <3>2. CASE Keep
      BY <1>6, <3>2 DEF ProcessRecord, Keep, Post, PostUnwritable
    <3>3. QED
      BY <1>6, <3>1, <3>2 DEF ProcessRecord
  <2>6. /\ UNCHANGED <<sourceVars, jobVars, rowVars, tries, total, offset>>
        /\ pc' = IF page' = <<>> THEN "reporting" ELSE "posting"
    BY <1>6 DEF ProcessRecord
  <2>7. page' \in Seq(Records) /\ full' \in BOOLEAN
    BY <2>2, <2>4, EmptySeq
  <2>8. {processed', skipped', lost'} \subseteq Nat
    BY <2>5
  <2>9. {buf', dest'} \subseteq Seq(Records)
    BY <2>3, <2>5
  <2>10. TypeOK'
    BY <2>6, <2>7, <2>8, <2>9
  <2>11. LocalsInv'
    BY <2>6
  <2>12. QED
    BY <2>10, <2>11
<1>7. CASE UpdateProgress
  BY <1>7 DEF UpdateProgress
<1>8. CASE CheckCancelled
  BY <1>8, SizesAssumption DEF CheckCancelled, Loop
<1>9. CASE Finalise
  BY <1>9 DEF Finalise
<1>10. CASE Decide
  BY <1>10 DEF Decide
<1>11. CASE Complete
  BY <1>11 DEF Complete
<1>12. CASE Fail
  BY <1>12 DEF Fail
<1>13. CASE Release
  <2>1. <<>> \in Seq(Records)
    BY EmptySeq
  <2>2. TypeOK'
    <3>1. full' \in BOOLEAN
      BY <1>13 DEF Release, Forget
    <3>2. {total', offset', processed', skipped', lost'} \subseteq Nat
      BY <1>13 DEF Release, Forget
    <3>3. {page', buf', dest'} \subseteq Seq(Records)
      BY <1>13, <2>1 DEF Release, Forget
    <3>4. QED
      BY <1>13, <3>1, <3>2, <3>3 DEF Release
  <2>3. LocalsInv'
    BY <1>13 DEF Release, Forget
  <2>4. QED
    BY <2>2, <2>3
<1>14. CASE CallRaises
  <2>1. dest' \in Seq(Records)
    <3>1. pc = "posting" => Append(dest, Head(page)) \in Seq(Records)
      BY HeadTailProperties
    <3>2. QED
      BY <1>14, <3>1 DEF CallRaises
  <2>2. QED
    BY <1>14, <2>1 DEF CallRaises
<1>15. CASE Crash
  <2>1. <<>> \in Seq(Records)
    BY EmptySeq
  <2>2. TypeOK'
    <3>1. full' \in BOOLEAN
      BY <1>15 DEF Crash, Forget
    <3>2. {total', offset', processed', skipped', lost'} \subseteq Nat
      BY <1>15 DEF Crash, Forget
    <3>3. {page', buf', dest'} \subseteq Seq(Records)
      BY <1>15, <2>1 DEF Crash, Forget
    <3>4. QED
      BY <1>15, <3>1, <3>2, <3>3 DEF Crash
  <2>3. LocalsInv'
    BY <1>15 DEF Crash, Forget
  <2>4. QED
    BY <2>2, <2>3
<1>16. CASE Cancel
  BY <1>16 DEF Cancel
<1>17. ASSUME NEW r \in Records, SourceGains(r) PROVE TypeOK' /\ LocalsInv'
  BY <1>17 DEF SourceGains, Moves
<1>18. ASSUME NEW r \in Records, SourceLoses(r) PROVE TypeOK' /\ LocalsInv'
  BY <1>18 DEF SourceLoses, Moves
<1>19. CASE UNCHANGED vars
  BY <1>19 DEF vars
<1>20. QED
  BY <1>1, <1>2, <1>3, <1>4, <1>5, <1>6, <1>7, <1>8, <1>9, <1>10, <1>11, <1>12, <1>13, <1>14,
     <1>15, <1>16, <1>17, <1>18, <1>19 DEF Next, Step

\* And so does the first state.
LEMMA TypeInit ==
  ASSUME Init
  PROVE  TypeOK /\ LocalsInv
<1>1. <<>> \in Seq(Records) /\ limit \in Nat /\ 0 \in 0..MaxTries /\ kind \in AllKinds
  BY EmptySeq, SizesAssumption, KindsAssumption DEF Init
<1>2. TypeOK
  <2>1. full \in BOOLEAN
    BY DEF Init
  <2>2. {total, offset, processed, skipped, lost} \subseteq Nat
    BY DEF Init
  <2>3. {page, buf, dest} \subseteq Seq(Records)
    BY <1>1 DEF Init
  <2>4. rtotal \in Nat \cup {NULL} /\ {rprocessed, rskipped} \subseteq Nat
    BY DEF Init
  <2>5. QED
    BY <1>1, <2>1, <2>2, <2>3, <2>4 DEF Init, TypeOK, Moves
<1>3. LocalsInv
  BY DEF Init, LocalsInv
<1>4. QED
  BY <1>2, <1>3

\* Every variable keeps its type, and a page at work is never empty.
THEOREM TypeCorrect == Spec => []TypeOK
<1>1. Init => TypeOK /\ LocalsInv
  BY TypeInit
<1>2. TypeOK /\ LocalsInv /\ [Next]_vars => (TypeOK /\ LocalsInv)'
  BY TypeStep
<1>3. QED
  BY <1>1, <1>2, PTL DEF Spec

-----------------------------------------------------------------------------
(* The limit                                                               *)

\* The lengths a type-correct state has.
LEMMA Lengths ==
  ASSUME TypeOK
  PROVE  /\ Len(dest) \in Nat /\ Len(buf) \in Nat /\ Len(page) \in Nat
         /\ \A r \in Records : Len(Append(dest, r)) = Len(dest) + 1
         /\ \A r \in Records : Len(Append(buf, r)) = Len(buf) + 1
<1>1. dest \in Seq(Records) /\ buf \in Seq(Records) /\ page \in Seq(Records)
  BY DEF TypeOK
<1>2. QED
  BY <1>1, AppendProperties, LenProperties

\* Every step keeps within the limit.
LEMMA LimitStep ==
  ASSUME TypeOK, TypeOK', LocalsInv, LocalsInv', LimitInv, [Next]_vars
  PROVE  LimitInv'
<1> SUFFICES ASSUME limit' # 0 PROVE LimitInv'
  BY DEF LimitInv
<1> USE DEF LimitInv, InLoop, Goto, sourceVars, jobVars, counterCols, rowVars, loopVars,
            countVars, sinkVars
<1>0. /\ limit' = limit /\ kind' = kind /\ limit \in Nat \ {0}
      /\ processed \in Nat /\ rprocessed \in Nat /\ full \in BOOLEAN /\ kind \in AllKinds
  <2>1. limit' = limit /\ kind' = kind
    BY DEF Next, Step, vars, Deliver, MarkRunning, Count, CreateDataset, FetchPage, ProcessRecord,
           UpdateProgress, CheckCancelled, Finalise, Decide, Complete, Fail, Release, CallRaises,
           Crash, Cancel, SourceGains, SourceLoses
  <2>2. QED
    BY <2>1 DEF TypeOK
<1>1. CASE Deliver
  BY <1>0, <1>1 DEF Deliver
<1>2. CASE MarkRunning
  BY <1>0, <1>2 DEF MarkRunning
<1>3. CASE Count
  BY <1>0, <1>3 DEF Count
<1>4. CASE CreateDataset
  <2>1. processed = 0 /\ Len(buf') = 0 /\ (kind = "stream" => Len(dest') = 0)
    BY <1>0, <1>4 DEF CreateDataset, LocalsInv, BeforeLoop
  <2>2. kind # "stream" => dest' = dest
    BY <1>4 DEF CreateDataset
  <2>3. QED
    BY <1>0, <1>4, <2>1, <2>2 DEF CreateDataset, Loop
<1>5. CASE FetchPage
  BY <1>0, <1>5 DEF FetchPage
<1>6. CASE ProcessRecord
  <2>1. Head(page) \in Records /\ processed < limit
    BY <1>0, <1>6, HeadTailProperties DEF ProcessRecord, TypeOK, LocalsInv
  <2>2. /\ Len(Append(dest, Head(page))) = Len(dest) + 1
        /\ Len(Append(buf, Head(page))) = Len(buf) + 1
        /\ Len(dest) \in Nat /\ Len(buf) \in Nat
    BY <2>1, Lengths
  <2>3. CASE Skip
    BY <1>0, <1>6, <2>1, <2>3 DEF ProcessRecord, Skip
  <2>4. CASE Keep
    <3>1. /\ processed' = processed + 1
          /\ full' \/ processed' < limit
          /\ page' # <<>> => processed' < limit
      BY <1>0, <2>1, <2>4 DEF Keep, Advance, LimitHit
    <3>2. /\ kind = "buffer" => dest' = dest /\ Len(buf') <= Len(buf) + 1
          /\ kind = "stream" => Len(dest') <= Len(dest) + 1
      BY <2>2, <2>4 DEF Keep, Post, PostUnwritable
    <3>3. kind \in {"buffer", "stream", "remote"}
      BY <1>0 DEF AllKinds
    <3>4. Len(dest') \in Nat /\ Len(buf') \in Nat
      BY Lengths, LenProperties DEF TypeOK
    <3>5. pc' = (IF page' = <<>> THEN "reporting" ELSE "posting") /\ rprocessed' = rprocessed
      BY <1>6 DEF ProcessRecord
    <3>6. Len(buf) <= processed \/ kind # "buffer"
      BY <1>0, <1>6 DEF ProcessRecord
    <3>7. Len(dest) <= processed \/ kind # "stream"
      BY <1>0, <1>6 DEF ProcessRecord
    <3>8. kind = "buffer" => Len(dest) <= limit
      BY <1>0
    <3>9. QED
      BY <1>0, <2>1, <2>2, <3>1, <3>2, <3>3, <3>4, <3>5, <3>6, <3>7, <3>8
  <2>5. QED
    BY <1>6, <2>3, <2>4 DEF ProcessRecord
<1>7. CASE UpdateProgress
  BY <1>0, <1>7 DEF UpdateProgress
<1>8. CASE CheckCancelled
  BY <1>0, <1>8 DEF CheckCancelled, Loop
<1>9. CASE Finalise
  <2>1. Len(buf') = 0 /\ Len(dest') \in Nat /\ Len(buf) \in Nat
    BY <1>9, Lengths, LenProperties DEF Finalise, TypeOK
  <2>2. QED
    BY <1>0, <1>9, <2>1 DEF Finalise
<1>10. CASE Decide
  BY <1>0, <1>10 DEF Decide
<1>11. CASE Complete
  BY <1>0, <1>11 DEF Complete
<1>12. CASE Fail
  BY <1>0, <1>12 DEF Fail
<1>13. CASE Release
  BY <1>0, <1>13 DEF Release, Forget
<1>14. CASE CallRaises
  <2>1. pc = "posting" => Len(Append(dest, Head(page))) = Len(dest) + 1
    BY Lengths, HeadTailProperties DEF TypeOK, LocalsInv
  <2>2. Len(dest) \in Nat /\ Len(buf) \in Nat
    BY Lengths
  <2>3. kind # "remote" => Len(dest') <= limit
    <3> SUFFICES ASSUME kind # "remote" PROVE Len(dest') <= limit
      OBVIOUS
    <3>1. CASE dest' = dest
      BY <1>0, <3>1
    <3>2. CASE pc = "posting" /\ kind # "buffer" /\ dest' = Append(dest, Head(page))
      BY <1>0, <2>1, <2>2, <3>2 DEF AllKinds
    <3>3. CASE pc = "finalising" /\ kind = "buffer" /\ dest' = buf
      BY <1>0, <2>2, <3>3
    <3>4. QED
      BY <1>14, <3>1, <3>2, <3>3 DEF CallRaises
  <2>4. QED
    BY <1>0, <1>14, <2>3 DEF CallRaises
<1>15. CASE Crash
  BY <1>0, <1>15 DEF Crash, Forget, Busy
<1>16. CASE Cancel
  BY <1>0, <1>16 DEF Cancel
<1>17. ASSUME NEW r \in Records, SourceGains(r) PROVE LimitInv'
  BY <1>0, <1>17 DEF SourceGains
<1>18. ASSUME NEW r \in Records, SourceLoses(r) PROVE LimitInv'
  BY <1>0, <1>18 DEF SourceLoses
<1>19. CASE UNCHANGED vars
  BY <1>0, <1>19 DEF vars
<1>20. QED
  BY <1>1, <1>2, <1>3, <1>4, <1>5, <1>6, <1>7, <1>8, <1>9, <1>10, <1>11, <1>12, <1>13, <1>14,
     <1>15, <1>16, <1>17, <1>18, <1>19 DEF Next, Step

\* Over failing calls, crashes and deliveries again, no delivery processes more than
\* max_items records, and no output that is replaced at each delivery has more.
THEOREM MaxItemsHolds == Spec => []MaxItemsHonoured
<1> DEFINE Limited == TypeOK /\ LocalsInv /\ LimitInv
<1>1. Init => Limited
  <2> SUFFICES ASSUME Init PROVE Limited
    OBVIOUS
  <2>1. TypeOK /\ LocalsInv
    BY TypeInit
  <2>2. LimitInv
    BY <2>1 DEF Init, LimitInv, InLoop, TypeOK
  <2>3. QED
    BY <2>1, <2>2
<1>2. Limited /\ [Next]_vars => Limited'
  BY TypeStep, LimitStep
<1>3. Limited => MaxItemsHonoured
  BY DEF LimitInv, MaxItemsHonoured
<1>4. QED
  BY <1>1, <1>2, <1>3, PTL DEF Spec

-----------------------------------------------------------------------------
(* The row                                                                 *)

\* Every step keeps what the row says of the run, and the run of the row.
LEMMA RowStep ==
  ASSUME TypeOK, LocalsInv, RowInv, [Next]_vars
  PROVE  RowInv'
<1> USE DEF RowInv, InLoop, Goto, sourceVars, jobVars, counterCols, rowVars, loopVars,
            countVars, sinkVars
<1>0. tries \in Nat /\ full \in BOOLEAN
  BY SizesAssumption DEF TypeOK
<1>1. CASE Deliver
  BY <1>0, <1>1 DEF Deliver
<1>2. CASE MarkRunning
  BY <1>0, <1>2 DEF MarkRunning
<1>3. CASE Count
  BY <1>0, <1>3 DEF Count
<1>4. CASE CreateDataset
  BY <1>0, <1>4 DEF CreateDataset, Loop, LocalsInv, BeforeLoop
<1>5. CASE FetchPage
  BY <1>0, <1>5 DEF FetchPage
<1>6. CASE ProcessRecord
  BY <1>0, <1>6 DEF ProcessRecord, Skip, Keep, Advance, LimitHit, Post, PostUnwritable
<1>7. CASE UpdateProgress
  BY <1>0, <1>7 DEF UpdateProgress
<1>8. CASE CheckCancelled
  BY <1>0, <1>8 DEF CheckCancelled, Loop
<1>9. CASE Finalise
  BY <1>0, <1>9 DEF Finalise
<1>10. CASE Decide
  BY <1>0, <1>10 DEF Decide
<1>11. CASE Complete
  BY <1>0, <1>11 DEF Complete
<1>12. CASE Fail
  BY <1>0, <1>12 DEF Fail
<1>13. CASE Release
  BY <1>0, <1>13 DEF Release, Forget
<1>14. CASE CallRaises
  BY <1>0, <1>14 DEF CallRaises, Busy
<1>15. CASE Crash
  BY <1>0, <1>15 DEF Crash, Forget, Busy
<1>16. CASE Cancel
  BY <1>0, <1>16 DEF Cancel
<1>17. ASSUME NEW r \in Records, SourceGains(r) PROVE RowInv'
  BY <1>17 DEF SourceGains
<1>18. ASSUME NEW r \in Records, SourceLoses(r) PROVE RowInv'
  BY <1>18 DEF SourceLoses
<1>19. CASE UNCHANGED vars
  BY <1>19 DEF vars
<1>20. QED
  BY <1>1, <1>2, <1>3, <1>4, <1>5, <1>6, <1>7, <1>8, <1>9, <1>10, <1>11, <1>12, <1>13, <1>14,
     <1>15, <1>16, <1>17, <1>18, <1>19 DEF Next, Step

-----------------------------------------------------------------------------
(* The records of the run                                                  *)

\* A record at the next place may be written after what has been written.
LEMMA WrittenNext ==
  ASSUME TypeOK, NEW s \in Seq(Records), NEW k \in Nat, Written(s), OfTheFirst(s, k),
         NEW r \in source, Rank(r) = k + 1
  PROVE  Written(Append(s, r)) /\ OfTheFirst(Append(s, r), k + 1)
<1>1. \A q \in source : Rank(q) \in Nat
  BY SourceFinite, RankIn DEF Rank
<1>2. \A q \in source : Rank(q) < Rank(r) => q < r
  BY SourceFinite, RankTells DEF Rank
<1>3. /\ Len(s) \in Nat /\ DOMAIN s = 1..Len(s)
      /\ DOMAIN Append(s, r) = 1..(Len(s) + 1)
      /\ \A n \in 1..Len(s) : Append(s, r)[n] = s[n]
      /\ Append(s, r)[Len(s) + 1] = r
  BY AppendProperties, LenProperties DEF TypeOK
<1>4. \A n \in 1..Len(s) : s[n] \in source /\ Rank(s[n]) <= k /\ s[n] < r
  BY <1>1, <1>2, <1>3 DEF Written, OfTheFirst
<1>5. \A m, n \in 1..Len(s) : m < n => s[m] < s[n]
  BY <1>3 DEF Written, InOrder
<1>6. InOrder(Append(s, r))
  <2> SUFFICES ASSUME NEW m \in 1..(Len(s) + 1), NEW n \in 1..(Len(s) + 1), m < n
               PROVE  Append(s, r)[m] < Append(s, r)[n]
    BY <1>3 DEF InOrder
  <2>1. m \in 1..Len(s) /\ (n \in 1..Len(s) \/ n = Len(s) + 1)
    BY <1>3
  <2>2. QED
    BY <1>3, <1>4, <1>5, <2>1
<1>7. \A n \in 1..(Len(s) + 1) : Append(s, r)[n] \in source /\ Rank(Append(s, r)[n]) <= k + 1
  <2> TAKE n \in 1..(Len(s) + 1)
  <2>1. CASE n \in 1..Len(s)
    BY <1>1, <1>3, <1>4, <2>1
  <2>2. CASE n = Len(s) + 1
    BY <1>3, <2>2
  <2>3. QED
    BY <1>3, <2>1, <2>2
<1>8. QED
  BY <1>3, <1>6, <1>7 DEF Written, OfTheFirst

\* And a record at the next place may be left out.
LEMMA FirstMore ==
  ASSUME TypeOK, NEW s \in Seq(Records), NEW k \in Nat, Written(s), OfTheFirst(s, k)
  PROVE  OfTheFirst(s, k + 1)
<1>1. \A q \in source : Rank(q) \in Nat
  BY SourceFinite, RankIn DEF Rank
<1>2. QED
  BY <1>1 DEF Written, OfTheFirst

\* What has been written and counted is what it was as long as nothing is written,
\* counted or stored.
LEMMA SameTaken ==
  ASSUME UNCHANGED <<source, kind, buf, dest, lost, skipped>>
  PROVE  /\ Taken' = Taken /\ Cardinality(source)' = Cardinality(source)
         /\ Written(Out)' <=> Written(Out)
         /\ OfTheFirst(Out, Taken)' <=> OfTheFirst(Out, Taken)
         /\ Written(dest)' <=> Written(dest)
BY DEF Taken, Out, Written, OfTheFirst, InOrder, Rank

\* Outside of the run nothing is said of the records.
LEMMA NotRunning ==
  ASSUME pc \notin InLoop \cup {"creating", "finalising", "deciding", "closing"}
  PROVE  CountedInv /\ LoopInv /\ EndInv
BY DEF InLoop, CountedInv, LoopInv, EndInv

\* One record, written, lost or skipped: the rest of the page is that of the places
\* that follow.
LEMMA RecordStep ==
  ASSUME TypeOK, TypeOK', LocalsInv, CountedInv, LoopInv, ProcessRecord
  PROVE  LoopInv'
<1>1. /\ pc = "posting" /\ page # <<>> /\ page \in Seq(Records)
      /\ buf \in Seq(Records) /\ dest \in Seq(Records) /\ Out \in Seq(Records)
      /\ lost \in Nat /\ skipped \in Nat /\ offset \in Nat /\ total \in Nat /\ full \in BOOLEAN
      /\ BatchSize \in Nat
  BY SizesAssumption DEF ProcessRecord, LocalsInv, TypeOK, Out
<1>2. /\ Len(Out) \in Nat /\ Taken \in Nat /\ Len(page) \in Nat /\ Len(page) # 0
      /\ DOMAIN page = 1..Len(page) /\ Head(page) = page[1]
  BY <1>1, LenProperties, EmptySeq DEF Taken
<1>3. /\ Len(Tail(page)) = Len(page) - 1
      /\ \A n \in 1..Len(Tail(page)) : Tail(page)[n] = page[n + 1]
      /\ DOMAIN Tail(page) = 1..Len(Tail(page))
  BY <1>1, HeadTailProperties, LenProperties
<1>4. /\ Written(Out) /\ OfTheFirst(Out, Taken) /\ ~full /\ offset < total
      /\ PageEnd(Taken + Len(page))
      /\ \A n \in 1..Len(page) : page[n] \in source /\ Rank(page[n]) = Taken + n
  BY <1>1, <1>2 DEF LoopInv, InLoop
<1>5. /\ Written(Append(Out, Head(page))) /\ OfTheFirst(Append(Out, Head(page)), Taken + 1)
      /\ OfTheFirst(Out, Taken + 1)
      /\ Len(Append(Out, Head(page))) = Len(Out) + 1
  <2>1. Head(page) \in source /\ Rank(Head(page)) = Taken + 1
    BY <1>2, <1>4
  <2>2. Head(page) \in Records
    BY <2>1 DEF TypeOK
  <2>3. Len(Append(Out, Head(page))) = Len(Out) + 1
    BY <1>1, <2>2, AppendProperties
  <2>4. QED
    BY <1>1, <1>2, <1>4, <2>1, <2>3, WrittenNext, FirstMore
<1>6. /\ Out' \in {Out, Append(Out, Head(page))} /\ Taken' = Taken + 1
      /\ page' = <<>> \/ page' = Tail(page)
      /\ ~full' => page' = Tail(page)
      /\ page' # <<>> => ~full'
  <2>1. (page' = Tail(page) /\ full' = full) \/ (page' = <<>> /\ full' = TRUE)
    BY DEF ProcessRecord, Skip, Keep, Advance
  <2>2. kind' = kind
    BY DEF ProcessRecord, jobVars
  <2>3. CASE Skip
    <3>1. buf' = buf /\ dest' = dest /\ lost' = lost /\ skipped' = skipped + 1
      BY <2>3 DEF Skip, sinkVars
    <3>2. Out' = Out
      BY <2>2, <3>1 DEF Out
    <3>3. Taken' = Taken + 1
      BY <1>1, <1>2, <3>1, <3>2 DEF Taken
    <3>4. QED
      BY <1>4, <2>1, <3>2, <3>3
  <2>4. CASE Keep /\ Post(Head(page))
    <3>1. Out' = Append(Out, Head(page)) /\ lost' = lost /\ skipped' = skipped
      BY <2>2, <2>4 DEF Keep, Post, Out
    <3>2. Taken' = Taken + 1
      BY <1>1, <1>2, <1>5, <3>1 DEF Taken
    <3>3. QED
      BY <1>4, <2>1, <3>1, <3>2
  <2>5. CASE Keep /\ PostUnwritable
    <3>1. Out' = Out /\ lost' = lost + 1 /\ skipped' = skipped
      BY <2>2, <2>5 DEF Keep, PostUnwritable, Out
    <3>2. Taken' = Taken + 1
      BY <1>1, <1>2, <3>1 DEF Taken
    <3>3. QED
      BY <1>4, <2>1, <3>1, <3>2
  <2>6. QED
    BY <2>3, <2>4, <2>5 DEF ProcessRecord, Keep
<1>7. /\ source' = source /\ offset' = offset /\ total' = total
      /\ pc' = (IF page' = <<>> THEN "reporting" ELSE "posting")
  BY DEF ProcessRecord, sourceVars, Goto
<1>8. Written(Out)' /\ OfTheFirst(Out, Taken)'
  <2>1. \A s : /\ Written(s) => InOrder(s) /\ \A n \in DOMAIN s : s[n] \in source'
               /\ OfTheFirst(s, Taken + 1) =>
                    \A n \in DOMAIN s : Cardinality(UpTo(source', s[n])) <= Taken'
    BY <1>6, <1>7 DEF Written, OfTheFirst, Rank
  <2>2. Written(Out') /\ OfTheFirst(Out', Taken + 1)
    BY <1>4, <1>5, <1>6
  <2>3. QED
    BY <2>1, <2>2 DEF Written, OfTheFirst, Rank
<1>9. pc' = "posting" =>
        /\ ~full' /\ PageEnd(Taken + Len(page))'
        /\ \A n \in DOMAIN page' : page'[n] \in source' /\ Rank(page[n])' = Taken' + n
  <2> SUFFICES ASSUME pc' = "posting"
               PROVE  /\ ~full' /\ PageEnd(Taken + Len(page))'
                      /\ \A n \in DOMAIN page' : page'[n] \in source' /\ Rank(page[n])' = Taken' + n
    OBVIOUS
  <2>1. page' = Tail(page) /\ ~full'
    BY <1>6, <1>7
  <2>2. Taken' + Len(page') = Taken + Len(page)
    BY <1>2, <1>3, <1>6, <2>1
  <2>3. PageEnd(Taken + Len(page))'
    BY <1>4, <1>7, <2>2 DEF PageEnd
  <2>4. ASSUME NEW n \in DOMAIN page'
        PROVE  page'[n] \in source' /\ Rank(page[n])' = Taken' + n
    <3>1. n \in 1..Len(Tail(page)) /\ n + 1 \in 1..Len(page)
      BY <1>2, <1>3, <2>1, <2>4
    <3>2. page'[n] = page[n + 1] /\ Taken' + n = Taken + (n + 1)
      BY <1>2, <1>3, <1>6, <2>1, <3>1
    <3>3. page[n + 1] \in source /\ Rank(page[n + 1]) = Taken + (n + 1)
      BY <1>4, <3>1
    <3>4. Rank(page[n])' = Rank(page[n + 1])
      BY <1>7, <3>2 DEF Rank
    <3>5. QED
      BY <1>7, <3>2, <3>3, <3>4
  <2>5. QED
    BY <2>1, <2>3, <2>4
<1>10. pc' = "reporting" => full' \/ PageEnd(Taken)'
  <2> SUFFICES ASSUME pc' = "reporting", ~full' PROVE PageEnd(Taken)'
    OBVIOUS
  <2>1. Tail(page) = <<>> /\ Len(page) = 1
    BY <1>1, <1>2, <1>3, <1>6, <1>7, EmptySeq
  <2>2. Taken' = Taken + Len(page)
    BY <1>6, <2>1
  <2>3. QED
    BY <1>4, <1>7, <2>2 DEF PageEnd
<1>11. QED
  BY <1>4, <1>7, <1>8, <1>9, <1>10 DEF LoopInv, InLoop

\* A record stored after the others changes nothing of what has been taken.
LEMMA SourceGrows ==
  ASSUME TypeOK, NEW r \in Records, SourceGains(r), moved' # "shifted"
  PROVE  /\ moved # "shifted" /\ moved' = "grown"
         /\ Cardinality(source') = Cardinality(source) + 1 /\ Cardinality(source) \in Nat
         /\ source \subseteq source'
         /\ \A s \in source : Cardinality(UpTo(source', s)) = Rank(s)
         /\ \A s : Written(s) => InOrder(s) /\ \A n \in DOMAIN s : s[n] \in source'
<1>1. /\ \A s \in source : s < r
      /\ source' = source \cup {r} /\ moved # "shifted" /\ moved' = "grown"
  BY DEF SourceGains, TypeOK, Moves
<1>2. r \in Nat
  BY RecordsAssumption
<1>3. /\ Cardinality(source') = Cardinality(source) + 1
      /\ \A s \in source : UpTo(source', s) = UpTo(source, s)
  BY <1>1, <1>2, SourceFinite, RankKept
<1>4. QED
  BY <1>1, <1>3, SourceFinite DEF Rank, Written

\* Every step keeps what is said of the run.
LEMMA RunStep ==
  ASSUME TypeOK, TypeOK', LocalsInv, RowInv, RunInv, [Next]_vars
  PROVE  RunInv'
<1> SUFFICES ASSUME Replaced', moved' # "shifted"
             PROVE  (CountedInv /\ LoopInv /\ EndInv)'
  BY DEF RunInv
<1> DEFINE Others == UNCHANGED <<sourceVars, jobVars, tries>>
           Quiet == pc' \notin InLoop \cup {"creating", "finalising", "deciding", "closing"}
<1>1. Quiet => (CountedInv /\ LoopInv /\ EndInv)'
  BY DEF InLoop, CountedInv, LoopInv, EndInv
<1>2. Others => CountedInv /\ LoopInv /\ EndInv
  BY DEF RunInv, Replaced, sourceVars, jobVars
<1>3. /\ offset \in Nat /\ total \in Nat /\ lost \in Nat /\ skipped \in Nat /\ full \in BOOLEAN
      /\ Len(Out) \in Nat /\ Len(dest) \in Nat /\ Taken \in Nat /\ BatchSize \in Nat \ {0}
      /\ Cardinality(source) \in Nat /\ kind \in AllKinds
  <2>1. Len(Out) \in Nat /\ Len(dest) \in Nat
    BY Lengths DEF Out
  <2>2. /\ offset \in Nat /\ total \in Nat /\ lost \in Nat /\ skipped \in Nat
        /\ full \in BOOLEAN /\ kind \in AllKinds
    BY DEF TypeOK
  <2>3. Taken \in Nat
    BY <2>1, <2>2 DEF Taken
  <2>4. QED
    BY <2>1, <2>2, <2>3, SourceFinite, SizesAssumption
<1>4. CASE Deliver \/ MarkRunning \/ Complete \/ CallRaises \/ Fail \/ Release \/ Crash
  BY <1>1, <1>4 DEF Deliver, MarkRunning, Complete, CallRaises, Fail, Release, Crash, Goto, InLoop
<1>5. CASE Count
  BY <1>3, <1>5 DEF Count, Goto, CountedInv, LoopInv, EndInv, InLoop
<1>6. CASE CreateDataset
  <2>1. /\ CountedInv /\ pc = "creating" /\ pc' \in {"fetching", "finalising"}
        /\ UNCHANGED <<source, moved, kind, rtotal, rskipped, total, offset, full, skipped>>
    BY <1>2, <1>6 DEF CreateDataset, sourceVars, jobVars, rowVars, counterCols, loopVars,
                      countVars, Goto, Loop
  <2>2. Out' = <<>> /\ lost' = 0
    <3>1. buf' = <<>> /\ lost' = 0 /\ (kind = "stream" => dest' = <<>>)
          /\ (kind = "remote" => dest' = dest) /\ tries' = tries
      BY <1>6 DEF CreateDataset
    <3>2. kind = "remote" => tries = 1
      BY <2>1, <3>1 DEF Replaced
    <3>3. kind = "remote" => dest = <<>>
      BY <2>1, <3>2 DEF RowInv
    <3>4. QED
      BY <1>3, <2>1, <3>1, <3>3 DEF Out, AllKinds
  <2>3. offset = 0 /\ skipped = 0 /\ ~full
    BY <2>1 DEF LocalsInv, BeforeLoop
  <2>4. Taken' = 0 /\ Len(Out') = 0 /\ DOMAIN Out' = {}
    BY <2>1, <2>2, <2>3 DEF Taken
  <2>5. Written(Out)' /\ OfTheFirst(Out, Taken)'
    BY <2>4 DEF Written, OfTheFirst, InOrder
  <2>6. IF 0 < total THEN pc' = "fetching" ELSE pc' = "finalising"
    BY <1>6 DEF CreateDataset, Loop, Goto
  <2>7. CountedInv'
    BY <2>1 DEF CountedInv
  <2>8. LoopInv'
    BY <1>3, <2>1, <2>3, <2>4, <2>5, <2>6 DEF LoopInv, InLoop
  <2>9. EndInv'
    BY <1>3, <2>1, <2>4, <2>6 DEF EndInv, AllOf
  <2>10. QED
    BY <2>7, <2>8, <2>9
<1>7. CASE FetchPage
  <2>1. /\ CountedInv /\ LoopInv /\ pc = "fetching" /\ page' = Page(offset)
        /\ pc' = (IF page' = <<>> THEN "reporting" ELSE "posting")
        /\ UNCHANGED <<source, moved, kind, rtotal, rskipped, total, offset, full, skipped,
                       buf, dest, lost>>
    BY <1>2, <1>7 DEF FetchPage, sourceVars, jobVars, rowVars, counterCols, loopVars,
                      countVars, sinkVars, Goto
  <2>2. /\ Taken = offset /\ ~full /\ offset < total /\ total <= Cardinality(source)
        /\ Written(Out) /\ OfTheFirst(Out, Taken)
    BY <2>1 DEF LoopInv, CountedInv, InLoop
  <2>3. /\ page' \in Seq(source)
        /\ Len(page') = IF offset + BatchSize <= Cardinality(source) THEN BatchSize
                        ELSE Cardinality(source) - offset
        /\ \A n \in DOMAIN page' : Rank(page'[n]) = offset + n
    BY <1>3, <2>1, <2>2, PageIs
  <2>4. page' # <<>> /\ \A n \in DOMAIN page' : page'[n] \in source
    BY <1>3, <2>2, <2>3, LenProperties
  <2>5. PageEnd(Taken + Len(page))'
    <3>1. /\ offset + Len(page') <= offset + BatchSize
          /\ offset + Len(page') <= Cardinality(source)
          /\ offset + Len(page') = offset + BatchSize \/ total <= offset + Len(page')
      BY <1>3, <2>2, <2>3
    <3>2. QED
      BY <2>1, <2>2, <3>1, SameTaken DEF PageEnd
  <2>6. \A n \in DOMAIN page' : page'[n] \in source' /\ Rank(page[n])' = Taken' + n
    <3>1. Taken' = offset
      BY <2>1, <2>2, SameTaken
    <3>2. QED
      BY <2>1, <2>3, <2>4, <3>1 DEF Rank
  <2>7. Written(Out)' /\ OfTheFirst(Out, Taken)'
    BY <2>1, <2>2, SameTaken
  <2>8. QED
    BY <2>1, <2>2, <2>4, <2>5, <2>6, <2>7 DEF CountedInv, LoopInv, EndInv, InLoop
<1>8. CASE ProcessRecord
  <2>1. CountedInv /\ LoopInv
    BY <1>2, <1>8 DEF ProcessRecord
  <2>2. LoopInv'
    BY <1>8, <2>1, RecordStep
  <2>3. /\ pc = "posting" /\ pc' \in InLoop \cup {"posting"}
        /\ UNCHANGED <<source, moved, rtotal, total>>
    BY <1>8 DEF ProcessRecord, sourceVars, rowVars, Goto, InLoop
  <2>4. CountedInv' /\ EndInv'
    BY <2>1, <2>3 DEF CountedInv, EndInv, InLoop
  <2>5. QED
    BY <2>2, <2>4
<1>9. CASE UpdateProgress
  <2>1. /\ CountedInv /\ LoopInv /\ pc = "reporting" /\ pc' = "checking" /\ rskipped' = skipped
        /\ UNCHANGED <<source, moved, kind, rtotal, total, offset, full, skipped, buf, dest, lost>>
    BY <1>2, <1>9 DEF UpdateProgress, sourceVars, jobVars, rowVars, loopVars,
                      countVars, sinkVars, Goto
  <2>2. QED
    BY <2>1, SameTaken DEF CountedInv, LoopInv, EndInv, InLoop, PageEnd
<1>10. CASE CheckCancelled
  <2>1. /\ CountedInv /\ LoopInv /\ pc = "checking"
        /\ full => full'
        /\ offset' = offset + BatchSize
        /\ pc' = Loop(offset', full')
        /\ UNCHANGED <<source, moved, kind, rtotal, rskipped, total, skipped, buf, dest, lost>>
    BY <1>2, <1>10 DEF CheckCancelled, sourceVars, jobVars, rowVars, counterCols,
                      countVars, sinkVars, Goto
  <2>2. /\ Written(Out)' /\ OfTheFirst(Out, Taken)' /\ Taken' = Taken
        /\ Cardinality(source') = Cardinality(source)
    BY <2>1, SameTaken DEF LoopInv, InLoop
  <2>3. (full' \/ PageEnd(Taken)) /\ offset < total /\ rskipped = skipped
    BY <2>1 DEF LoopInv, InLoop
  <2>4. CASE offset + BatchSize < total /\ ~full'
    <3>1. Taken = offset + BatchSize
      BY <1>3, <2>3, <2>4 DEF PageEnd
    <3>2. pc' = "fetching"
      BY <2>1, <2>4 DEF Loop
    <3>3. QED
      BY <2>1, <2>2, <2>4, <3>1, <3>2 DEF CountedInv, LoopInv, EndInv, InLoop
  <2>5. CASE ~(offset + BatchSize < total /\ ~full')
    <3>1. full' \/ AllOf(Taken)
      BY <1>3, <2>3, <2>5 DEF PageEnd, AllOf
    <3>2. full' \/ AllOf(Taken)'
      BY <2>1, <2>2, <3>1 DEF AllOf
    <3>3. pc' = "finalising"
      BY <2>1, <2>5 DEF Loop
    <3>4. QED
      BY <2>1, <2>2, <2>3, <3>2, <3>3 DEF CountedInv, LoopInv, EndInv, InLoop
  <2>6. QED
    BY <2>4, <2>5
<1>11. CASE Finalise
  <2>1. /\ CountedInv /\ LoopInv /\ EndInv /\ pc = "finalising" /\ pc' = "deciding"
        /\ dest' = Out
        /\ UNCHANGED <<source, moved, kind, rtotal, rskipped, total, full, lost>>
    BY <1>2, <1>11 DEF Finalise, sourceVars, jobVars, rowVars, counterCols, loopVars, Goto, Out
  <2>2. total # 0 => rskipped = skipped /\ Written(Out) /\ (full \/ AllOf(Taken))
    BY <2>1 DEF LoopInv, EndInv
  <2>3. Written(Out) => Written(dest)'
    BY <2>1 DEF Written
  <2>4. rskipped = skipped => Accounted' = Taken
    BY <1>3, <2>1 DEF Accounted, Taken
  <2>5. rskipped = skipped /\ AllOf(Taken) => AllOf(Accounted)'
    BY <2>1, <2>4 DEF AllOf
  <2>6. EndInv'
    BY <2>1, <2>2, <2>3, <2>5 DEF EndInv
  <2>7. QED
    BY <2>1, <2>6 DEF CountedInv, LoopInv, InLoop
<1>12. CASE Decide
  <2>1. /\ CountedInv /\ EndInv /\ pc = "deciding" /\ pc' \in {"returned", "closing"}
        /\ UNCHANGED <<source, moved, rtotal, rskipped, total, full, dest, lost>>
    BY <1>2, <1>12 DEF Decide, sourceVars, jobVars, rowVars, counterCols, loopVars, sinkVars, Goto
  <2>2. (Written(dest)' <=> Written(dest)) /\ (AllOf(Accounted)' <=> AllOf(Accounted))
    BY <2>1 DEF Written, AllOf, Accounted
  <2>3. QED
    BY <2>1, <2>2 DEF CountedInv, LoopInv, EndInv, InLoop
<1>13. CASE Cancel \/ UNCHANGED vars
  <2>1. /\ CountedInv /\ LoopInv /\ EndInv
        /\ UNCHANGED <<source, moved, kind, rtotal, rskipped, pc, total, offset, page, full, skipped,
                       buf, dest, lost>>
    BY <1>2, <1>13 DEF Cancel, vars, sourceVars, jobVars, rowVars, counterCols, loopVars,
                      countVars, sinkVars
  <2>2. QED
    BY <2>1 DEF CountedInv, LoopInv, EndInv, PageEnd, AllOf, Accounted, Taken, Out, Written,
                OfTheFirst, Rank
<1>14. ASSUME NEW r \in Records, SourceGains(r) PROVE (CountedInv /\ LoopInv /\ EndInv)'
  <2>1. /\ moved # "shifted" /\ moved' = "grown"
        /\ Cardinality(source') = Cardinality(source) + 1
        /\ source \subseteq source'
        /\ \A s \in source : Cardinality(UpTo(source', s)) = Rank(s)
        /\ \A s : Written(s) => InOrder(s) /\ \A n \in DOMAIN s : s[n] \in source'
    BY <1>14, SourceGrows
  <2>2. UNCHANGED <<kind, tries, rtotal, rskipped, pc, total, offset, page, full, skipped,
                    buf, dest, lost>>
    BY <1>14 DEF SourceGains, jobVars, rowVars, counterCols, loopVars, countVars, sinkVars
  <2>3. CountedInv /\ LoopInv /\ EndInv
    BY <2>1, <2>2 DEF RunInv, Replaced
  <2>4. Taken' = Taken /\ Out' = Out /\ Accounted' = Accounted
    BY <2>2 DEF Taken, Out, Accounted
  <2>5. CountedInv'
    BY <1>3, <2>1, <2>2, <2>3 DEF CountedInv
  <2>6. (Written(Out) => Written(Out)') /\ (Written(dest) => Written(dest)')
    BY <2>1, <2>2, <2>4 DEF Written
  <2>7. Written(Out) /\ OfTheFirst(Out, Taken) => OfTheFirst(Out, Taken)'
    BY <2>1, <2>4 DEF Written, OfTheFirst, Rank
  <2>8. (PageEnd(Taken) => PageEnd(Taken)') /\ (AllOf(Taken) => AllOf(Taken)')
    BY <1>3, <2>1, <2>2, <2>4 DEF PageEnd, AllOf
  <2>9. PageEnd(Taken + Len(page)) => PageEnd(Taken + Len(page))'
    <3>1. Len(page) \in Nat
      BY Lengths
    <3>2. QED
      BY <1>3, <2>1, <2>2, <2>4, <3>1 DEF PageEnd
  <2>10. AllOf(Accounted) => AllOf(Accounted)'
    <3>1. Accounted \in Nat
      <4>1. rskipped \in Nat
        BY DEF TypeOK
      <4>2. QED
        BY <1>3, <4>1 DEF Accounted
    <3>2. QED
      BY <1>3, <2>1, <2>2, <2>4, <3>1 DEF AllOf
  <2>11. (\A n \in DOMAIN page : page[n] \in source /\ Rank(page[n]) = Taken + n)
           => \A n \in DOMAIN page' : page'[n] \in source' /\ Rank(page[n])' = Taken' + n
    BY <2>1, <2>2, <2>4 DEF Rank
  <2>12. LoopInv'
    BY <2>2, <2>3, <2>4, <2>6, <2>7, <2>8, <2>9, <2>11 DEF LoopInv
  <2>13. EndInv'
    BY <2>2, <2>3, <2>6, <2>8, <2>10 DEF EndInv
  <2>14. QED
    BY <2>5, <2>12, <2>13
<1>15. ASSUME NEW r \in Records, SourceLoses(r) PROVE FALSE
  BY <1>15 DEF SourceLoses
<1>16. QED
  BY <1>4, <1>5, <1>6, <1>7, <1>8, <1>9, <1>10, <1>11, <1>12, <1>13, <1>14, <1>15 DEF Next, Step

-----------------------------------------------------------------------------
(* The whole export                                                        *)

\* Every step keeps what Complete has left.
LEMMA DoneStep ==
  ASSUME TypeOK, TypeOK', RowInv, RowInv', RunInv, DoneInv, [Next]_vars
  PROVE  DoneInv'
<1> SUFFICES ASSUME status' = "completed", Replaced', rtotal' # 0, moved' # "shifted"
             PROVE  /\ Written(dest)' /\ rtotal' \in Nat
                    /\ moved' = "still" => rtotal' = Cardinality(source')
                    /\ limit' = 0 =>
                         /\ rtotal' <= Accounted' /\ Accounted' < rtotal' + BatchSize
                         /\ Accounted' <= Cardinality(source')
  BY DEF DoneInv, Reported
<1>1. /\ Accounted \in Nat /\ Cardinality(source) \in Nat /\ BatchSize \in Nat \ {0}
      /\ full \in BOOLEAN /\ total \in Nat
  <2>1. rskipped \in Nat /\ lost \in Nat /\ full \in BOOLEAN /\ total \in Nat
    BY DEF TypeOK
  <2>2. Len(dest) \in Nat
    BY Lengths
  <2>3. QED
    BY <2>1, <2>2, SourceFinite, SizesAssumption DEF Accounted
<1>2. CASE Complete
  <2>1. /\ pc = "closing"
        /\ UNCHANGED <<source, moved, kind, limit, rtotal, rskipped, tries, total, full, dest, lost>>
    BY <1>2 DEF Complete, sourceVars, jobVars, counterCols, loopVars, sinkVars
  <2>2. CountedInv /\ EndInv
    BY <2>1 DEF RunInv, Replaced
  <2>3. rtotal = total /\ (moved = "still" => total = Cardinality(source))
    BY <2>1, <2>2 DEF RowInv, CountedInv
  <2>4. Written(dest) /\ (full \/ AllOf(Accounted))
    BY <2>1, <2>2, <2>3 DEF EndInv
  <2>5. limit = 0 => AllOf(Accounted)
    BY <2>1, <2>4 DEF RowInv
  <2>6. Written(dest)' /\ Accounted' = Accounted
    BY <2>1, <2>4 DEF Written, Accounted
  <2>7. QED
    BY <1>1, <2>1, <2>3, <2>5, <2>6 DEF AllOf
<1>3. CASE Deliver \/ CallRaises \/ Release \/ Crash \/ UNCHANGED vars
  <2>1. UNCHANGED <<source, moved, kind, limit, status, rtotal, rskipped, lost>>
    BY <1>3 DEF Deliver, CallRaises, Release, Crash, vars, sourceVars, jobVars, rowVars,
                counterCols, sinkVars
  <2>2. dest' = dest
    <3>1. CASE CallRaises
      BY <2>1, <3>1 DEF CallRaises, RowInv
    <3>2. CASE ~CallRaises
      BY <1>3, <3>2 DEF Deliver, Release, Crash, vars, sinkVars
    <3>3. QED
      BY <3>1, <3>2
  <2>3. Replaced
    <3>1. CASE Deliver
      <4>1. tries \in Nat /\ tries' = tries + 1 /\ tries # 0
        BY <2>1, <3>1, SizesAssumption DEF Deliver, RowInv, TypeOK
      <4>2. QED
        BY <2>1, <4>1 DEF Replaced
    <3>2. CASE ~Deliver
      BY <1>3, <2>1, <3>2 DEF CallRaises, Release, Crash, vars, Replaced
    <3>3. QED
      BY <3>1, <3>2
  <2>4. /\ Written(dest) /\ rtotal \in Nat
        /\ moved = "still" => rtotal = Cardinality(source)
        /\ limit = 0 =>
             /\ rtotal <= Accounted /\ Accounted < rtotal + BatchSize
             /\ Accounted <= Cardinality(source)
    BY <2>1, <2>3 DEF DoneInv, Reported
  <2>5. Written(dest)' /\ Accounted' = Accounted
    BY <2>1, <2>2, <2>4 DEF Written, Accounted
  <2>6. QED
    BY <2>1, <2>4, <2>5
<1>4. ASSUME \/ MarkRunning \/ Count \/ CreateDataset \/ FetchPage \/ ProcessRecord
             \/ UpdateProgress \/ CheckCancelled \/ Finalise \/ Decide \/ Fail \/ Cancel
      PROVE  FALSE
  <2>1. status' # "completed" \/ status' = status
    BY <1>4 DEF MarkRunning, Count, CreateDataset, FetchPage, ProcessRecord, UpdateProgress,
                CheckCancelled, Finalise, Decide, Fail, Cancel, rowVars
  <2>2. status = "completed"
    BY <2>1
  <2>3. pc \in {"queued", "loaded", "failing", "returned", "ended"}
    BY <2>2 DEF RowInv
  <2>4. QED
    BY <1>4, <2>3 DEF MarkRunning, Count, CreateDataset, FetchPage, ProcessRecord, UpdateProgress,
                CheckCancelled, Finalise, Decide, Fail, Cancel
<1>5. ASSUME NEW r \in Records, SourceGains(r)
      PROVE  /\ Written(dest)' /\ rtotal' \in Nat /\ moved' # "still"
             /\ limit' = 0 =>
                  /\ rtotal' <= Accounted' /\ Accounted' < rtotal' + BatchSize
                  /\ Accounted' <= Cardinality(source')
  <2>1. UNCHANGED <<kind, limit, status, rtotal, rskipped, tries, dest, lost>>
    BY <1>5 DEF SourceGains, jobVars, rowVars, counterCols, sinkVars
  <2>2. /\ moved # "shifted" /\ moved' = "grown"
        /\ Cardinality(source') = Cardinality(source) + 1
        /\ \A s : Written(s) => InOrder(s) /\ \A n \in DOMAIN s : s[n] \in source'
    BY <1>5, SourceGrows
  <2>3. /\ Written(dest) /\ rtotal \in Nat
        /\ limit = 0 =>
             /\ rtotal <= Accounted /\ Accounted < rtotal + BatchSize
             /\ Accounted <= Cardinality(source)
    BY <2>1, <2>2 DEF DoneInv, Reported, Replaced
  <2>4. Written(dest)' /\ Accounted' = Accounted
    BY <2>1, <2>2, <2>3 DEF Written, Accounted
  <2>5. QED
    BY <1>1, <2>1, <2>2, <2>3, <2>4
<1>6. ASSUME NEW r \in Records, SourceLoses(r) PROVE FALSE
  BY <1>6 DEF SourceLoses
<1>7. QED
  BY <1>2, <1>3, <1>4, <1>5, <1>6 DEF Next, Step

\* Over cancels, failing calls, crashes and deliveries again, of a source that at most
\* grows at its end: the output of a completed job has records of the source only, in
\* order and once, and without max_items each record is there or counted as skipped.
THEOREM WholeHolds == Spec => []WholeExport
<1> DEFINE Whole == TypeOK /\ LocalsInv /\ RowInv /\ RunInv /\ DoneInv
<1>1. Init => Whole
  <2> SUFFICES ASSUME Init PROVE Whole
    OBVIOUS
  <2>1. TypeOK /\ LocalsInv
    BY TypeInit
  <2>2. RowInv
    BY DEF Init, RowInv, InLoop
  <2>3. RunInv
    BY NotRunning DEF Init, RunInv, InLoop
  <2>4. DoneInv
    BY DEF Init, DoneInv, Reported
  <2>5. QED
    BY <2>1, <2>2, <2>3, <2>4
<1>2. Whole /\ [Next]_vars => Whole'
  BY TypeStep, RowStep, RunStep, DoneStep
<1>3. Whole => WholeExport
  <2> SUFFICES ASSUME Whole, Reported, moved \in {"still", "grown"}
               PROVE  /\ InOrder(dest) /\ ToSet(dest) \subseteq source
                      /\ limit = 0 =>
                           IF moved = "still" THEN Accounted = Cardinality(source)
                           ELSE Accounted \in rtotal .. (rtotal + BatchSize - 1)
    BY DEF WholeExport
  <2>1. /\ Written(dest) /\ rtotal \in Nat
        /\ moved = "still" => rtotal = Cardinality(source)
        /\ limit = 0 =>
             /\ rtotal <= Accounted /\ Accounted < rtotal + BatchSize
             /\ Accounted <= Cardinality(source)
    BY DEF DoneInv
  <2>2. InOrder(dest) /\ ToSet(dest) \subseteq source
    BY <2>1 DEF Written, ToSet
  <2>3. Accounted \in Nat /\ Cardinality(source) \in Nat /\ BatchSize \in Nat
    <3>1. rskipped \in Nat /\ lost \in Nat /\ Len(dest) \in Nat
      BY Lengths DEF TypeOK
    <3>2. QED
      BY <3>1, SourceFinite, SizesAssumption DEF Accounted
  <2>4. QED
    BY <2>1, <2>2, <2>3
<1>4. QED
  BY <1>1, <1>2, <1>3, PTL DEF Spec

=============================================================================
