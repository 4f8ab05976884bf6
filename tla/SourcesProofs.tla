---------------------------- MODULE SourcesProofs ----------------------------
(***************************************************************************)
(* Theorems about Sources, for every engine, source and request, every     *)
(* size of pages, previews and listings, and every choice of faults.       *)
(***************************************************************************)
EXTENDS Sources, FiniteSetTheorems, FunctionTheorems, SequenceTheorems,
        WellFoundedInduction, NaturalsInduction, TLAPS

-----------------------------------------------------------------------------
(* Orders of a set                                                         *)

Least(a, b) == IF a <= b THEN a ELSE b

\* The smaller of two numbers.
LEMMA MinOfTwo ==
  ASSUME NEW a \in Nat, NEW b \in Nat
  PROVE  Min({a, b}) = Least(a, b)
<1>1. PICK c \in {a, b} : \A d \in {a, b} : c =< d
  OBVIOUS
<1>2. Min({a, b}) \in {a, b} /\ \A d \in {a, b} : Min({a, b}) =< d
  BY <1>1 DEF Min
<1>3. QED
  BY <1>2 DEF Least

\* A set of numbers has a smallest one.
LEMMA MinOfSet ==
  ASSUME NEW S, S \subseteq Nat, S # {}
  PROVE  Min(S) \in S /\ \A m \in S : Min(S) <= m
<1>1. PICK n \in S : \A m \in S : ~(<<m, n>> \in OpToRel(<, Nat))
  BY NatLessThanWellFounded, WFMin
<1>2. \A m \in S : ~(m < n)
  BY <1>1 DEF OpToRel
<1>3. \A m \in S : n =< m
  BY <1>2
<1>4. QED
  BY <1>3 DEF Min

\* An enumeration of a finite set has each element at one place.
LEMMA SeqsAre ==
  ASSUME NEW S, IsFiniteSet(S), NEW p \in SetToSeqs(S)
  PROVE  /\ Cardinality(S) \in Nat /\ p \in Seq(S) /\ Len(p) = Cardinality(S)
         /\ DOMAIN p = 1..Cardinality(S) /\ p \in [1..Cardinality(S) -> S]
         /\ IsInjective(p)
         /\ ToSet(p) = S
<1> DEFINE N == Cardinality(S)
<1>1. N \in Nat
  BY FS_CardinalityType
<1>2. p \in [1..N -> S] /\ \A i, j \in 1..N : i # j => p[i] # p[j]
  BY DEF SetToSeqs
<1> HIDE DEF N
<1>3. IsInjective(p)
  BY <1>2 DEF IsInjective
<1>4. p \in Surjection(1..N, S)
  <2>1. p \in Injection(1..N, S)
    BY <1>2, <1>3 DEF Injection
  <2>2. Cardinality(1..N) = N
    BY <1>1, FS_Interval
  <2>3. QED
    BY <2>1, <2>2, FS_Injection DEF N
<1>5. ToSet(p) = S
  BY <1>2, <1>4 DEF Surjection, ToSet
<1>6. p \in Seq(S) /\ Len(p) = N /\ DOMAIN p = 1..N
  BY <1>1, <1>2
<1>7. QED
  BY <1>1, <1>2, <1>3, <1>5, <1>6 DEF N

\* The elements of S that are not after r by their keys, and by their numbers when the
\* keys tie.
Before(t, s, r) == t[s] < t[r] \/ (t[s] = t[r] /\ s <= r)
UpTo(S, t, r) == {s \in S : Before(t, s, r)}

\* The place of an element is one of as many as there are elements.
LEMMA PlaceIn ==
  ASSUME NEW S, S \subseteq Nat, IsFiniteSet(S), NEW t \in [S -> Nat], NEW r \in S
  PROVE  IsFiniteSet(UpTo(S, t, r)) /\ Cardinality(UpTo(S, t, r)) \in 1..Cardinality(S)
<1>1. UpTo(S, t, r) \in SUBSET S /\ r \in UpTo(S, t, r)
  BY DEF UpTo, Before
<1>2. IsFiniteSet(UpTo(S, t, r)) /\ Cardinality(UpTo(S, t, r)) <= Cardinality(S)
  BY <1>1, FS_Subset
<1>3. /\ Cardinality(S) \in Nat
      /\ Cardinality(UpTo(S, t, r)) \in Nat /\ Cardinality(UpTo(S, t, r)) # 0
  BY <1>1, <1>2, FS_CardinalityType, FS_EmptySet
<1>4. QED
  BY <1>2, <1>3

\* An element after another has a greater place.
LEMMA PlaceGrows ==
  ASSUME NEW S, S \subseteq Nat, IsFiniteSet(S), NEW t \in [S -> Nat],
         NEW r \in S, NEW s \in S, ~Before(t, s, r)
  PROVE  Cardinality(UpTo(S, t, r)) < Cardinality(UpTo(S, t, s))
<1>1. \A q \in S : q \in Nat /\ t[q] \in Nat
  OBVIOUS
<1>2. \A q \in S : Before(t, q, r) => Before(t, q, s)
  BY <1>1 DEF Before
<1>3. Before(t, s, s)
  BY <1>1 DEF Before
<1>4. UpTo(S, t, r) \in SUBSET UpTo(S, t, s) /\ s \in UpTo(S, t, s) /\ s \notin UpTo(S, t, r)
  BY <1>2, <1>3, Zenon DEF UpTo
<1>5. IsFiniteSet(UpTo(S, t, s))
  BY PlaceIn
<1>6. /\ Cardinality(UpTo(S, t, r)) <= Cardinality(UpTo(S, t, s))
      /\ Cardinality(UpTo(S, t, r)) # Cardinality(UpTo(S, t, s))
  BY <1>4, <1>5, FS_Subset
<1>7. Cardinality(UpTo(S, t, r)) \in Nat /\ Cardinality(UpTo(S, t, s)) \in Nat
  BY PlaceIn, FS_CardinalityType
<1>8. QED
  BY <1>6, <1>7

\* A finite set can be put in the order of its keys: by the inverse of the function
\* from an element to its place, which is injective into as many numbers.
LEMMA SortExists ==
  ASSUME NEW S, S \subseteq Nat, IsFiniteSet(S), NEW t \in [S -> Nat]
  PROVE  \E p \in SetToSeqs(S) :
           \A m, n \in DOMAIN p :
             m < n => t[p[m]] < t[p[n]] \/ (t[p[m]] = t[p[n]] /\ p[m] < p[n])
<1> DEFINE N == Cardinality(S)
           place == [r \in S |-> Cardinality(UpTo(S, t, r))]
<1>1. N \in Nat
  BY FS_CardinalityType
<1>2. \A r \in S : place[r] \in 1..N
  BY PlaceIn
<1>3. \A r, s \in S : ~Before(t, s, r) => place[r] < place[s]
  BY PlaceGrows
<1>4. \A r \in S : r \in Nat /\ t[r] \in Nat
  OBVIOUS
<1>5. place \in Injection(S, 1..N)
  <2>1. \A r, s \in S : r # s => ~Before(t, s, r) \/ ~Before(t, r, s)
    BY <1>4 DEF Before
  <2>2. \A r, s \in S : r # s => place[r] # place[s]
    <3> HIDE DEF place
    <3> SUFFICES ASSUME NEW r \in S, NEW s \in S, r # s PROVE place[r] # place[s]
      OBVIOUS
    <3>1. place[r] < place[s] \/ place[s] < place[r]
      BY <1>3, <2>1
    <3>2. place[r] \in Nat /\ place[s] \in Nat
      BY <1>1, <1>2
    <3>3. QED
      BY <3>1, <3>2
  <2>3. place \in [S -> 1..N]
    BY <1>2
  <2> HIDE DEF place
  <2>4. QED
    BY <2>2, <2>3 DEF Injection, IsInjective
<1>6. place \in Surjection(S, 1..N)
  <2>1. IsFiniteSet(1..N) /\ Cardinality(1..N) = N
    BY <1>1, FS_Interval
  <2>2. QED
    BY <1>5, <2>1, FS_Injection
<1> DEFINE list == [n \in 1..N |-> CHOOSE r \in S : place[r] = n]
<1>7. \A n \in 1..N : list[n] \in S /\ place[list[n]] = n
  <2>1. \A n \in 1..N : \E r \in S : place[r] = n
    BY <1>6 DEF Surjection
  <2> HIDE DEF place
  <2>2. QED
    BY <2>1
<1>8. DOMAIN list = 1..N /\ list \in [1..N -> S]
  BY <1>7
<1> HIDE DEF list, place
<1>9. list \in SetToSeqs(S)
  BY <1>7, <1>8 DEF SetToSeqs, N
<1>10. \A m, n \in 1..N :
         m < n => t[list[m]] < t[list[n]] \/ (t[list[m]] = t[list[n]] /\ list[m] < list[n])
  <2> SUFFICES ASSUME NEW m \in 1..N, NEW n \in 1..N, m < n
               PROVE  t[list[m]] < t[list[n]] \/ (t[list[m]] = t[list[n]] /\ list[m] < list[n])
    OBVIOUS
  <2>1. /\ list[m] \in S /\ place[list[m]] = m
        /\ list[n] \in S /\ place[list[n]] = n
    BY <1>7
  <2>2. ~Before(t, list[m], list[n]) => n < m
    BY <1>3, <2>1, Zenon
  <2>3. Before(t, list[m], list[n]) /\ list[m] # list[n]
    BY <1>1, <2>1, <2>2
  <2>4. /\ list[m] \in Nat /\ t[list[m]] \in Nat
        /\ list[n] \in Nat /\ t[list[n]] \in Nat
    BY <1>4, <2>1
  <2>5. QED
    BY <2>3, <2>4 DEF Before
<1>11. QED
  BY <1>8, <1>9, <1>10

-----------------------------------------------------------------------------
(* Pages                                                                   *)

\* s holds the elements of p at the places from off + 1 up to last, in their order.
Shifted(s, p, off, last) ==
  /\ \A i \in DOMAIN s : off + i \in 1..last /\ s[i] = p[off + i]
  /\ \A k \in (off + 1)..last : k - off \in DOMAIN s /\ s[k - off] = p[k]

\* LIMIT and OFFSET: the elements at the places after the offset, as many as are asked
\* for or as there are left.
LEMMA SliceIs ==
  ASSUME NEW S, NEW p \in Seq(S), NEW off \in Nat, NEW n \in Nat
  PROVE  /\ Slice(p, off, n) \in Seq(S)
         /\ Len(Slice(p, off, n)) = Least(off + n, Len(p)) - Least(off, Len(p))
         /\ Shifted(Slice(p, off, n), p, off, Least(off + n, Len(p)))
<1> DEFINE last == Least(off + n, Len(p))
           s == Slice(p, off, n)
<1>1. Len(p) \in Nat /\ last \in Nat /\ last <= Len(p) /\ last <= off + n /\ off + 1 \in Int
  BY DEF Least
<1>2. s = SubSeq(p, off + 1, last)
  BY <1>1, MinOfTwo DEF Slice
<1>3. last - (off + 1) + 1 = last - off /\ (off + 1 <= last <=> off < last)
  BY <1>1
<1> HIDE DEF last, s
<1>4. \A k \in (off + 1)..last : p[k] \in S
  BY <1>1
<1>5. /\ s \in Seq(S)
      /\ Len(s) = IF off + 1 <= last THEN last - (off + 1) + 1 ELSE 0
      /\ \A i \in 1..(last - (off + 1) + 1) : s[i] = p[off + 1 + i - 1]
  BY <1>1, <1>2, <1>4, SubSeqProperties
<1>6. Len(s) = (IF off < last THEN last - off ELSE 0) /\ DOMAIN s = 1..Len(s)
  BY <1>3, <1>5
<1>7. \A i \in DOMAIN s : off + i \in 1..last /\ s[i] = p[off + i]
  <2> TAKE i \in DOMAIN s
  <2>1. i \in 1..(last - off) /\ off + 1 + i - 1 = off + i
    BY <1>1, <1>6
  <2>2. s[i] = p[off + i]
    BY <1>3, <1>5, <2>1
  <2>3. QED
    BY <1>1, <2>1, <2>2
<1>8. \A k \in (off + 1)..last : k - off \in DOMAIN s /\ s[k - off] = p[k]
  <2> TAKE k \in (off + 1)..last
  <2>1. k - off \in DOMAIN s /\ off + (k - off) = k
    BY <1>1, <1>6
  <2>2. QED
    BY <1>7, <2>1
<1>9. Len(s) = last - Least(off, Len(p))
  <2> DEFINE N == Len(p)
             from == Least(off, N)
  <2>1. last = IF off + n <= N THEN off + n ELSE N
    BY DEF last, Least
  <2>2. from = IF off <= N THEN off ELSE N
    BY DEF Least
  <2>3. Len(s) = (IF off < last THEN last - off ELSE 0) /\ N \in Nat
    BY <1>1, <1>6
  <2> HIDE DEF N, from
  <2>4. CASE off <= N
    <3>1. from = off
      BY <2>2, <2>4
    <3>2. off <= last /\ last \in Nat
      BY <1>1, <2>1, <2>3, <2>4
    <3>3. Len(s) = last - off
      BY <2>3, <3>2
    <3>4. QED
      BY <3>1, <3>3 DEF N, from
  <2>5. CASE ~(off <= N)
    <3>1. from = N /\ last = N
      BY <2>1, <2>2, <2>3, <2>5
    <3>2. Len(s) = 0 /\ last - last = 0
      BY <2>3, <2>5, <3>1
    <3>3. QED
      BY <3>1, <3>2 DEF N, from
  <2>6. QED
    BY <2>4, <2>5
<1>10. QED
  BY <1>5, <1>7, <1>8, <1>9 DEF last, s, Shifted

\* The elements of p at the places up to n, and from m + 1 up to n.
FirstOfSeq(p, n) == {p[i] : i \in 1..n}
PlacesOf(p, m, n) == {p[i] : i \in (m + 1)..n}

\* What a page of an enumeration has: no element twice, and none of the pages before.
LEMMA SliceOf ==
  ASSUME NEW S, NEW p \in Seq(S), IsInjective(p), NEW off \in Nat, NEW n \in Nat
  PROVE  /\ IsInjective(Slice(p, off, n))
         /\ ToSet(Slice(p, off, n)) = PlacesOf(p, off, Least(off + n, Len(p)))
         /\ FirstOfSeq(p, Least(off, Len(p))) \cap ToSet(Slice(p, off, n)) = {}
         /\ FirstOfSeq(p, Least(off + n, Len(p))) =
              FirstOfSeq(p, Least(off, Len(p))) \cup ToSet(Slice(p, off, n))
<1> DEFINE last == Least(off + n, Len(p))
           from == Least(off, Len(p))
           s == Slice(p, off, n)
<1>1. /\ \A i \in DOMAIN s : off + i \in 1..last /\ s[i] = p[off + i]
      /\ \A k \in (off + 1)..last : k - off \in DOMAIN s /\ s[k - off] = p[k]
      /\ s \in Seq(S)
  <2>1. Slice(p, off, n) \in Seq(S) /\ Shifted(Slice(p, off, n), p, off, Least(off + n, Len(p)))
    BY SliceIs
  <2>2. QED
    BY <2>1 DEF Shifted
<1>2. /\ Len(p) \in Nat /\ DOMAIN p = 1..Len(p)
      /\ last \in Nat /\ last <= Len(p) /\ from \in Nat /\ from <= last /\ from <= off
      /\ from < last => from = off
  <2> DEFINE N == Len(p)
  <2>1. N \in Nat /\ DOMAIN p = 1..N
    OBVIOUS
  <2>2. /\ last = IF off + n <= N THEN off + n ELSE N
        /\ from = IF off <= N THEN off ELSE N
    BY DEF Least
  <2> HIDE DEF last, from, N
  <2>3. last \in Nat /\ last <= N /\ from \in Nat /\ from <= off
    BY <2>1, <2>2
  <2>4. from <= last /\ (from < last => from = off)
    BY <2>1, <2>2
  <2>5. QED
    BY <2>1, <2>3, <2>4 DEF N
<1> HIDE DEF last, from, s
<1>3. DOMAIN s \subseteq Nat
  BY <1>1
<1>4. IsInjective(s)
  <2> SUFFICES ASSUME NEW a \in DOMAIN s, NEW b \in DOMAIN s, s[a] = s[b] PROVE a = b
    BY DEF IsInjective
  <2>1. off + a \in DOMAIN p /\ off + b \in DOMAIN p /\ p[off + a] = p[off + b]
    BY <1>1, <1>2
  <2>2. off + a = off + b
    BY <2>1 DEF IsInjective
  <2>3. QED
    BY <1>3, <2>2
<1>5. ToSet(s) = PlacesOf(p, off, last)
  <2>1. ASSUME NEW i \in DOMAIN s PROVE s[i] \in PlacesOf(p, off, last)
    <3>1. off + i \in (off + 1)..last
      BY <1>1, <1>2, <1>3
    <3>2. QED
      BY <1>1, <3>1 DEF PlacesOf
  <2>2. ASSUME NEW k \in (off + 1)..last PROVE p[k] \in ToSet(s)
    BY <1>1 DEF ToSet
  <2>3. QED
    BY <2>1, <2>2 DEF ToSet, PlacesOf
<1>6. FirstOfSeq(p, from) \cap ToSet(s) = {}
  <2> SUFFICES ASSUME NEW i \in 1..from, NEW k \in (off + 1)..last, p[i] = p[k] PROVE FALSE
    BY <1>5 DEF FirstOfSeq, PlacesOf
  <2>1. i \in DOMAIN p /\ k \in DOMAIN p /\ i # k
    BY <1>2
  <2>2. QED
    BY <2>1 DEF IsInjective
<1>7. FirstOfSeq(p, last) = FirstOfSeq(p, from) \cup ToSet(s)
  <2>1. \A k : k \in 1..last <=> (k \in 1..from \/ k \in (off + 1)..last)
    <3>1. CASE from < last
      BY <1>2, <3>1
    <3>2. CASE ~(from < last)
      BY <1>2, <3>2
    <3>3. QED
      BY <3>1, <3>2
  <2>2. QED
    BY <1>5, <2>1 DEF FirstOfSeq, PlacesOf
<1>8. QED
  BY <1>4, <1>5, <1>6, <1>7 DEF last, from, s

\* A finite set of numbers in increasing order.
LEMMA SortedIs ==
  ASSUME NEW S, S \subseteq Nat, IsFiniteSet(S)
  PROVE  Sorted(S) \in SetToSeqs(S)
<1>1. [s \in S |-> 0] \in [S -> Nat]
  OBVIOUS
<1>2. PICK p \in SetToSeqs(S) :
        \A m, n \in DOMAIN p :
          m < n => [s \in S |-> 0][p[m]] < [s \in S |-> 0][p[n]]
                     \/ ([s \in S |-> 0][p[m]] = [s \in S |-> 0][p[n]] /\ p[m] < p[n])
  BY <1>1, SortExists
<1>3. \A m, n \in DOMAIN p : m < n => p[m] < p[n]
  BY <1>2, SeqsAre
<1>4. QED
  BY <1>3 DEF Sorted

\* The lines that parse: without broken ones, none twice.
LEMMA ParsedIs ==
  ASSUME NEW S, NEW rows \in Seq(S), IsInjective(rows)
  PROVE  /\ Parsed(rows) \in Seq(S) /\ IsInjective(Parsed(rows))
         /\ ToSet(Parsed(rows)) = ToSet(rows) \ table.broken
         /\ ToSet(rows) \cap table.broken = {} => Len(Parsed(rows)) = Len(rows)
<1> DEFINE good == {n \in DOMAIN rows : rows[n] \notin table.broken}
           lines == Sorted(good)
           C == Cardinality(good)
<1>1. /\ DOMAIN rows = 1..Len(rows) /\ Len(rows) \in Nat
      /\ good \in SUBSET (1..Len(rows))
      /\ IsFiniteSet(1..Len(rows)) /\ Cardinality(1..Len(rows)) = Len(rows)
  <2>1. DOMAIN rows = 1..Len(rows) /\ Len(rows) \in Nat
    OBVIOUS
  <2>2. IsFiniteSet(1..Len(rows)) /\ Cardinality(1..Len(rows)) = Len(rows)
    BY <2>1, FS_Interval
  <2>3. QED
    BY <2>1, <2>2
<1>2. IsFiniteSet(good) /\ good \subseteq Nat
  BY <1>1, FS_Subset
<1>3. lines \in SetToSeqs(good)
  BY <1>2, SortedIs
<1>4. /\ C \in Nat /\ DOMAIN lines = 1..C /\ lines \in [1..C -> good]
      /\ IsInjective(lines) /\ ToSet(lines) = good
  BY <1>2, <1>3, SeqsAre
<1>5. Parsed(rows) = [n \in DOMAIN lines |-> rows[lines[n]]]
  BY DEF Parsed
<1>6. ToSet(rows) \cap table.broken = {} => good = 1..Len(rows)
  BY <1>1 DEF ToSet
<1>7. \A n \in good : n \in DOMAIN rows /\ rows[n] \notin table.broken /\ rows[n] \in S
  BY <1>1
<1>8. \A n \in DOMAIN rows : rows[n] \notin table.broken => n \in good
  OBVIOUS
<1> HIDE DEF good, lines
<1>9. /\ DOMAIN Parsed(rows) = 1..C /\ Parsed(rows) \in [1..C -> S]
      /\ \A n \in 1..C : Parsed(rows)[n] = rows[lines[n]] /\ lines[n] \in good
  BY <1>4, <1>5, <1>7
<1>10. Parsed(rows) \in Seq(S) /\ Len(Parsed(rows)) = C
  BY <1>4, <1>9
<1>11. IsInjective(Parsed(rows))
  <2> SUFFICES ASSUME NEW a \in 1..C, NEW b \in 1..C, Parsed(rows)[a] = Parsed(rows)[b] PROVE a = b
    BY <1>9 DEF IsInjective
  <2>1. lines[a] = lines[b]
    BY <1>7, <1>9 DEF IsInjective
  <2>2. QED
    BY <1>4, <2>1 DEF IsInjective
<1>12. ToSet(Parsed(rows)) = ToSet(rows) \ table.broken
  <2>1. ASSUME NEW n \in 1..C PROVE Parsed(rows)[n] \in ToSet(rows) \ table.broken
    BY <1>7, <1>9 DEF ToSet
  <2>2. ASSUME NEW n \in DOMAIN rows, rows[n] \notin table.broken PROVE rows[n] \in ToSet(Parsed(rows))
    <3>1. PICK m \in 1..C : lines[m] = n
      BY <1>4, <1>8, <2>2 DEF ToSet
    <3>2. QED
      BY <1>9, <3>1 DEF ToSet
  <2>3. QED
    BY <1>9, <2>1, <2>2 DEF ToSet
<1>13. QED
  BY <1>1, <1>6, <1>10, <1>11, <1>12

\* What an engine drops from the rows it found, and the rows it replies with.
Lost == IF engine = "clickhouse" THEN table.broken ELSE {}
Kept(rows) == IF engine = "clickhouse" THEN Parsed(rows) ELSE rows

LEMMA KeptIs ==
  ASSUME NEW S, NEW rows \in Seq(S), IsInjective(rows)
  PROVE  /\ Kept(rows) \in Seq(S) /\ IsInjective(Kept(rows))
         /\ ToSet(Kept(rows)) = ToSet(rows) \ Lost
         /\ ToSet(rows) \cap Lost = {} => Len(Kept(rows)) = Len(rows)
BY ParsedIs DEF Kept, Lost

-----------------------------------------------------------------------------
(* The rows of a request                                                   *)

Given == engine \in Engines /\ table \in Tables /\ request \in Requests

\* What the source holds, and the columns its statements name.
LEMMA GivenIs ==
  ASSUME Given
  PROVE  /\ Keys = 1..Len(table.format) /\ Len(table.format) \in Nat
         /\ Keys \subseteq Rows /\ Keys \subseteq Nat /\ IsFiniteSet(Keys)
         /\ Cardinality(Keys) = Len(table.format)
         /\ \A c \in Columns : \A r \in Keys : table.time[c][r] \in Nat
         /\ engine \in AllEngines /\ request \in RequestType
         /\ TsCol \in Columns \cup {"missing", ""} /\ SortCol \in Columns \cup {"missing", ""}
         /\ engine = "langfuse" => TsCol = "timestamp" /\ SortCol = "timestamp"
<1>1. table \in TableType /\ \A c \in Columns : DOMAIN table.time[c] = DOMAIN table.format
  BY DataAssumption DEF Given
<1>2. table.format \in Seq(STRING) /\ \A c \in Columns : table.time[c] \in Seq(Nat)
  BY <1>1 DEF TableType
<1>3. Keys = 1..Len(table.format) /\ Len(table.format) \in Nat
  BY <1>2 DEF Keys
<1>4. IsFiniteSet(Keys) /\ Cardinality(Keys) = Len(table.format)
  BY <1>3, FS_Interval
<1>5. Keys \subseteq Rows
  BY <1>3 DEF Given, Rows
<1>6. \A c \in Columns : \A r \in Keys : table.time[c][r] \in Nat
  <2> TAKE c \in Columns
  <2> TAKE r \in Keys
  <2>1. table.time[c] \in Seq(Nat) /\ r \in DOMAIN table.time[c]
    BY <1>1, <1>2 DEF Keys
  <2>2. QED
    BY <2>1
<1>7. engine \in AllEngines /\ request \in RequestType
  BY DataAssumption DEF Given
<1>8. TsCol \in Columns \cup {"missing", ""}
  BY DEF TsCol, SafeTsCol, SafeIdent, Columns
<1>9. SortCol \in Columns \cup {"missing", ""}
  BY <1>8 DEF SortCol, SafeSortCol, SafeIdent, Columns
<1>10. engine = "langfuse" => TsCol = "timestamp" /\ SortCol = "timestamp"
  BY DEF TsCol, SortCol
<1>11. Keys \subseteq Nat
  BY <1>3
<1>12. QED
  BY <1>3, <1>4, <1>5, <1>6, <1>7, <1>8, <1>9, <1>10, <1>11

\* The rows of a WHERE clause are rows of the source.
LEMMA MatchingIn ==
  ASSUME Given, NEW q
  PROVE  /\ Matching(q) \in SUBSET Keys /\ IsFiniteSet(Matching(q))
         /\ Cardinality(Matching(q)) \in Nat
<1>1. Matching(q) \in SUBSET Keys
  BY DEF Matching
<1>2. QED
  BY <1>1, GivenIs, FS_Subset, FS_CardinalityType

\* The readers that have files, and the rows a statement finds: in a bucket, those of
\* the first such reader.
Used == {i \in DOMAIN Readers : OfFormat(Readers[i], Keys) # {}}
Found(q) ==
  IF engine # "s3" THEN Matching(q)
  ELSE IF Used = {} THEN {}
  ELSE (Matching(q) \cap OfFormat(Readers[Min(Used)], Keys)) \ table.broken

LEMMA FoundIn ==
  ASSUME Given, NEW q
  PROVE  /\ Found(q) \in SUBSET Keys /\ Found(q) \subseteq Nat /\ IsFiniteSet(Found(q))
         /\ Cardinality(Found(q)) \in Nat
<1>1. Found(q) \in SUBSET Keys
  BY MatchingIn DEF Found
<1>2. QED
  BY <1>1, GivenIs, FS_Subset, FS_CardinalityType

-----------------------------------------------------------------------------
(* ORDER BY                                                                *)

\* A list the other way round has the same elements.
LEMMA ReverseIs ==
  ASSUME NEW S, IsFiniteSet(S), NEW p \in SetToSeqs(S)
  PROVE  /\ Reverse(p) \in SetToSeqs(S)
         /\ \A i \in 1..Cardinality(S) :
              Cardinality(S) - i + 1 \in 1..Cardinality(S) /\ Reverse(p)[i] = p[Cardinality(S) - i + 1]
<1> DEFINE N == Cardinality(S)
           r == Reverse(p)
<1>1. N \in Nat /\ Len(p) = N /\ p \in [1..N -> S] /\ IsInjective(p) /\ DOMAIN p = 1..N
  BY SeqsAre
<1>2. r = [i \in 1..N |-> p[(N - i) + 1]]
  BY <1>1 DEF Reverse
<1> HIDE DEF N, r
<1>3. \A i \in 1..N : N - i + 1 \in 1..N /\ r[i] = p[N - i + 1]
  BY <1>1, <1>2
<1>4. r \in [1..N -> S]
  BY <1>1, <1>2, <1>3
<1>5. \A i, j \in 1..N : i # j => r[i] # r[j]
  <2> SUFFICES ASSUME NEW i \in 1..N, NEW j \in 1..N, i # j PROVE r[i] # r[j]
    OBVIOUS
  <2> DEFINE a == N - i + 1
             b == N - j + 1
  <2>1. a # b
    BY <1>1
  <2>2. a \in DOMAIN p /\ b \in DOMAIN p /\ r[i] = p[a] /\ r[j] = p[b]
    BY <1>1, <1>3
  <2> HIDE DEF a, b
  <2>3. QED
    BY <1>1, <2>1, <2>2 DEF IsInjective
<1>6. r \in SetToSeqs(S)
  BY <1>4, <1>5 DEF SetToSeqs, N
<1>7. QED
  BY <1>3, <1>6 DEF N, r

LEMMA NewestIs ==
  ASSUME NEW S, IsFiniteSet(S), NEW by, NEW o \in Newest(S, by)
  PROVE  /\ o \in SetToSeqs(S)
         /\ by # "" =>
              \A i, j \in 1..Cardinality(S) : i < j => table.time[by][o[j]] <= table.time[by][o[i]]
<1>1. PICK p \in Ascending(S, by) : o = Reverse(p)
  BY DEF Newest, Descending
<1>2. p \in SetToSeqs(S)
  BY <1>1 DEF Ascending
<1> DEFINE N == Cardinality(S)
<1>3. N \in Nat /\ DOMAIN p = 1..N
  BY <1>2, SeqsAre
<1>4. o \in SetToSeqs(S) /\ \A i \in 1..N : N - i + 1 \in 1..N /\ o[i] = p[N - i + 1]
  BY <1>1, <1>2, ReverseIs
<1> HIDE DEF N
<1>5. ASSUME by # "", NEW i \in 1..N, NEW j \in 1..N, i < j
      PROVE  table.time[by][o[j]] <= table.time[by][o[i]]
  <2> DEFINE m == N - j + 1
             n == N - i + 1
  <2>1. m \in 1..N /\ n \in 1..N /\ o[j] = p[m] /\ o[i] = p[n]
    BY <1>4
  <2>2. m < n
    <3>1. i < j
      BY <1>5
    <3>2. N \in Int /\ i \in Int /\ j \in Int
      BY <1>3
    <3>3. N - j + 1 < N - i + 1
      BY <3>1, <3>2
    <3>4. QED
      BY <3>3
  <2> HIDE DEF m, n
  <2>3. table.time[by][p[m]] <= table.time[by][p[n]]
    BY <1>3, <1>5, <2>1, <2>2 DEF Ascending
  <2>4. QED
    BY <2>1, <2>3
<1>6. QED
  BY <1>4, <1>5 DEF N

\* Rows without ties have one order only: the place of a row in it is the number of
\* rows that are not newer.
LEMMA PlaceOf ==
  ASSUME Given, NEW S \in SUBSET Keys, NEW by \in Columns, ~Tied(by), NEW p \in Ascending(S, by),
         NEW n \in 1..Cardinality(S)
  PROVE  Cardinality({s \in S : table.time[by][s] <= table.time[by][p[n]]}) = n
<1> DEFINE N == Cardinality(S)
           T(r) == table.time[by][r]
           first == [m \in 1..n |-> p[m]]
           upto == {s \in S : T(s) <= T(p[n])}
<1>1. IsFiniteSet(S) /\ p \in SetToSeqs(S)
  BY GivenIs, FS_Subset DEF Ascending
<1>2. /\ N \in Nat /\ p \in [1..N -> S] /\ DOMAIN p = 1..N /\ IsInjective(p) /\ ToSet(p) = S
  BY <1>1, SeqsAre
<1>3. \A r \in S : T(r) \in Nat /\ r \in Keys
  BY GivenIs
<1>4. \A i, j \in 1..N : i < j => T(p[i]) < T(p[j])
  <2> SUFFICES ASSUME NEW i \in 1..N, NEW j \in 1..N, i < j PROVE T(p[i]) < T(p[j])
    OBVIOUS
  <2>1. by # ""
    BY DEF Columns
  <2>2. T(p[i]) <= T(p[j])
    BY <1>2, <2>1 DEF Ascending
  <2>3. p[i] \in S /\ p[j] \in S /\ p[i] # p[j]
    BY <1>2 DEF IsInjective
  <2>4. T(p[i]) # T(p[j])
    BY <1>3, <2>3 DEF Tied
  <2>5. QED
    BY <1>3, <2>2, <2>3, <2>4
<1>5. \A i \in 1..N : T(p[i]) <= T(p[n]) <=> i <= n
  <2> TAKE i \in 1..N
  <2>1. T(p[i]) \in Nat /\ T(p[n]) \in Nat /\ i \in Nat /\ n \in Nat
    BY <1>2, <1>3
  <2>2. (i < n => T(p[i]) < T(p[n])) /\ (n < i => T(p[n]) < T(p[i]))
    BY <1>4
  <2> HIDE DEF T
  <2>3. QED
    BY <2>1, <2>2
<1>6. first \in [1..n -> upto]
  BY <1>2, <1>5
<1>7. \A s \in upto : \E m \in 1..n : first[m] = s
  <2> TAKE s \in upto
  <2>1. s \in S /\ T(s) <= T(p[n])
    OBVIOUS
  <2>2. PICK m \in 1..N : p[m] = s
    BY <1>2, <2>1 DEF ToSet
  <2>3. m \in 1..n
    BY <1>2, <1>5, <2>1, <2>2
  <2>4. QED
    BY <2>2, <2>3
<1>8. \A m, k \in 1..n : first[m] = first[k] => m = k
  BY <1>2 DEF IsInjective
<1>9. first \in Bijection(1..n, upto)
  <2> HIDE DEF first, upto
  <2>1. QED
    BY <1>6, <1>7, <1>8 DEF Bijection, Injection, Surjection, IsInjective
<1>10. IsFiniteSet(1..n) /\ Cardinality(1..n) = n
  BY <1>2, FS_Interval
<1>11. QED
  BY <1>9, <1>10, FS_Bijection DEF ExistsBijection

LEMMA OneOrder ==
  ASSUME Given, NEW S \in SUBSET Keys, NEW by \in Columns, ~Tied(by),
         NEW p \in Ascending(S, by), NEW o \in Ascending(S, by)
  PROVE  p = o
<1> DEFINE N == Cardinality(S)
<1>1. IsFiniteSet(S) /\ p \in SetToSeqs(S) /\ o \in SetToSeqs(S)
  BY GivenIs, FS_Subset DEF Ascending
<1>2. p \in [1..N -> S] /\ o \in [1..N -> S] /\ ToSet(p) = S /\ DOMAIN p = 1..N
  BY <1>1, SeqsAre
<1>3. ASSUME NEW n \in 1..N PROVE p[n] = o[n]
  <2>1. PICK m \in 1..N : p[m] = o[n]
    BY <1>2 DEF ToSet
  <2>2. /\ Cardinality({s \in S : table.time[by][s] <= table.time[by][o[n]]}) = n
        /\ Cardinality({s \in S : table.time[by][s] <= table.time[by][p[m]]}) = m
    BY PlaceOf
  <2>3. QED
    BY <2>1, <2>2
<1>4. p = [n \in 1..N |-> p[n]] /\ o = [n \in 1..N |-> o[n]]
  BY <1>2
<1> HIDE DEF N
<1>5. QED
  BY <1>3, <1>4

\* The traces of Langfuse can be put in an order.
LEMMA LangfuseOrderIs ==
  ASSUME Given, NEW S \in SUBSET Keys
  PROVE  LangfuseOrder(S) \in SetToSeqs(S)
<1> DEFINE t == [r \in S |-> table.time["timestamp"][r]]
<1>1. IsFiniteSet(S) /\ S \subseteq Nat /\ t \in [S -> Nat]
  BY GivenIs, FS_Subset DEF Columns
<1>2. PICK p \in SetToSeqs(S) :
        \A m, n \in DOMAIN p : m < n => t[p[m]] < t[p[n]] \/ (t[p[m]] = t[p[n]] /\ p[m] < p[n])
  BY <1>1, SortExists
<1>3. p \in Ascending(S, "timestamp")
  <2> SUFFICES ASSUME NEW m \in DOMAIN p, NEW n \in DOMAIN p, m < n
               PROVE  table.time["timestamp"][p[m]] <= table.time["timestamp"][p[n]]
    BY DEF Ascending
  <2>1. p[m] \in S /\ p[n] \in S
    BY <1>1, SeqsAre
  <2>2. t[p[m]] = table.time["timestamp"][p[m]] /\ t[p[n]] = table.time["timestamp"][p[n]]
    BY <2>1
  <2>3. t[p[m]] \in Nat /\ t[p[n]] \in Nat
    BY <1>1, <2>1
  <2> HIDE DEF t
  <2>4. t[p[m]] <= t[p[n]]
    BY <1>2, <2>3
  <2>5. QED
    BY <2>2, <2>4
<1>4. Reverse(p) \in Descending(S, "timestamp")
  BY <1>3 DEF Descending
<1>5. LangfuseOrder(S) \in Newest(S, "timestamp")
  BY <1>4 DEF LangfuseOrder, Newest
<1>6. QED
  BY <1>1, <1>5, NewestIs

-----------------------------------------------------------------------------
(* The readers of a bucket                                                 *)

\* The rows of a scan are rows of the source.
LEMMA ScanIn ==
  ASSUME Given, NEW q, NEW by, NEW readers, NEW s \in Scans(q, by, readers)
  PROVE  /\ s.rows \in SUBSET Keys /\ s.rows \subseteq Nat /\ IsFiniteSet(s.rows)
         /\ Cardinality(s.rows) \in Nat /\ s.ok \in BOOLEAN
<1> DEFINE used == {i \in DOMAIN readers : readers[i].files # {}}
           bad  == {i \in used : Broken(readers[i]) \/ NoColumn(q, by)}
           Left(raised) == used \ raised
           First(raised) == IF Left(raised) = {} THEN Len(readers) + 1 ELSE Min(Left(raised))
           Scan(raised) ==
             [rows |-> IF Left(raised) = {} THEN {}
                       ELSE (Matching(q) \cap readers[First(raised)].files) \ table.broken,
              ok |-> \A i \in raised : i > First(raised)]
<1>1. PICK more : s = Scan(bad \cup more)
  BY Zenon DEF Scans
<1> HIDE DEF used, bad, Left, First
<1>2. s.rows \in SUBSET Keys /\ s.ok \in BOOLEAN
  BY <1>1, MatchingIn
<1>3. QED
  BY <1>2, GivenIs, FS_Subset, FS_CardinalityType

\* A scan that is what it was asked for has the rows of the first reader with files.
LEMMA ScanOk ==
  ASSUME NEW q, NEW by, NEW readers, Len(readers) \in Nat, DOMAIN readers = 1..Len(readers),
         NEW s \in Scans(q, by, readers), s.ok
  PROVE  LET used == {i \in DOMAIN readers : readers[i].files # {}} IN
           \/ used = {} /\ s.rows = {}
           \/ /\ used # {} /\ ~NoColumn(q, by)
              /\ s.rows = (Matching(q) \cap readers[Min(used)].files) \ table.broken
<1> DEFINE used == {i \in DOMAIN readers : readers[i].files # {}}
           bad  == {i \in used : Broken(readers[i]) \/ NoColumn(q, by)}
           Left(raised) == used \ raised
           First(raised) == IF Left(raised) = {} THEN Len(readers) + 1 ELSE Min(Left(raised))
           Scan(raised) ==
             [rows |-> IF Left(raised) = {} THEN {}
                       ELSE (Matching(q) \cap readers[First(raised)].files) \ table.broken,
              ok |-> \A i \in raised : i > First(raised)]
<1>1. PICK more \in IF "reader" \in Faults THEN SUBSET used ELSE {{}} : s = Scan(bad \cup more)
  BY Zenon DEF Scans
<1> DEFINE raised == bad \cup more
<1>2. raised \subseteq used /\ used \subseteq 1..Len(readers)
  BY <1>1
<1>3. bad \subseteq raised
  OBVIOUS
<1>4. \A i \in raised : i > First(raised)
  BY <1>1
<1>5. s.rows = IF Left(raised) = {} THEN {}
               ELSE (Matching(q) \cap readers[First(raised)].files) \ table.broken
  BY <1>1
<1>6. \A i \in used : NoColumn(q, by) => i \in bad
  OBVIOUS
<1> HIDE DEF used, bad, raised
<1>7. CASE Left(raised) = {}
  <2>1. raised = {}
    BY <1>2, <1>4, <1>7
  <2>2. used = {}
    BY <1>7, <2>1
  <2>3. QED
    BY <1>5, <1>7, <2>2 DEF used
<1>8. CASE Left(raised) # {}
  <2> DEFINE first == Min(Left(raised))
  <2>1. Left(raised) \subseteq Nat /\ used \subseteq Nat
    BY <1>2
  <2>2. first \in Left(raised) /\ \A i \in Left(raised) : first <= i
    BY <1>8, <2>1, MinOfSet
  <2>3. first = First(raised) /\ first \in used /\ first \notin raised
    BY <1>8, <2>2
  <2> HIDE DEF first
  <2>4. \A i \in used : first <= i
    <3> TAKE i \in used
    <3>1. i \in raised => i > first
      BY <1>4, <2>3
    <3>2. i \notin raised => first <= i
      BY <2>2
    <3>3. i \in Nat /\ first \in Nat
      BY <2>1, <2>3
    <3>4. QED
      BY <3>1, <3>2, <3>3
  <2>5. first = Min(used)
    <3>1. Min(used) \in used /\ \A m \in used : Min(used) <= m
      BY <2>1, <2>3, MinOfSet
    <3>2. Min(used) \in Nat /\ first \in Nat
      BY <2>1, <2>3, <3>1
    <3>3. Min(used) <= first /\ first <= Min(used)
      BY <2>3, <2>4, <3>1
    <3>4. QED
      BY <3>2, <3>3
  <2>6. ~NoColumn(q, by)
    BY <1>3, <1>6, <2>3
  <2>7. s.rows = (Matching(q) \cap readers[Min(used)].files) \ table.broken
    BY <1>5, <1>8, <2>3, <2>5
  <2>8. QED
    BY <2>3, <2>6, <2>7 DEF used
<1>9. QED
  BY <1>7, <1>8

\* With the glob: what a statement finds.
LEMMA GlobFinds ==
  ASSUME Given, engine = "s3", NEW q, NEW by, NEW s \in Scans(q, by, Glob(Readers)), s.ok
  PROVE  s.rows = Found(q) /\ (NoColumn(q, by) => Found(q) = {})
<1> DEFINE readers == Glob(Readers)
           used == {i \in DOMAIN readers : readers[i].files # {}}
<1>1. Len(Readers) \in Nat /\ DOMAIN Readers = 1..Len(Readers)
  BY DataAssumption
<1>2. /\ DOMAIN readers = 1..Len(Readers)
      /\ \A i \in 1..Len(Readers) : readers[i].files = OfFormat(Readers[i], Keys)
  BY <1>1 DEF Glob
<1>3. readers \in Seq({readers[i] : i \in 1..Len(Readers)})
  BY <1>1, <1>2 DEF Glob
<1>4. Len(readers) = Len(Readers)
  BY <1>1, <1>2, <1>3
<1>5. used = Used
  BY <1>1, <1>2 DEF Used
<1>6. Used # {} => Min(Used) \in 1..Len(Readers)
  <2>1. Used \subseteq 1..Len(Readers)
    BY <1>1 DEF Used
  <2>2. Used \subseteq Nat
    BY <2>1
  <2>3. QED
    BY <2>1, <2>2, MinOfSet
<1> HIDE DEF readers, used
<1>7. \/ used = {} /\ s.rows = {}
      \/ /\ used # {} /\ ~NoColumn(q, by)
         /\ s.rows = (Matching(q) \cap readers[Min(used)].files) \ table.broken
  <2>1. s \in Scans(q, by, readers) /\ Len(readers) \in Nat /\ DOMAIN readers = 1..Len(readers)
    BY <1>1, <1>2, <1>4 DEF readers
  <2>2. QED
    BY <2>1, ScanOk DEF used
<1>8. QED
  BY <1>2, <1>5, <1>6, <1>7 DEF Found

\* The key space of a small bucket is listed whole.
LEMMA SmallIs ==
  ASSUME Given, engine = "s3", SmallBucket
  PROVE  /\ {k \in Keys : k <= PeekKeys} = Keys
         /\ FirstPages(0) = {} /\ \A n \in Nat \ {0} : FirstPages(n) = Keys
         /\ \A S \in SUBSET Keys : FirstOf(S, SampleKeys) = S
         /\ PagesListed \in Nat \ {0}
<1>1. /\ Keys = 1..Len(table.format) /\ Len(table.format) \in Nat
      /\ IsFiniteSet(Keys) /\ Cardinality(Keys) = Len(table.format)
  BY GivenIs
<1>2. /\ Len(table.format) <= PeekKeys /\ PeekKeys <= SampleKeys /\ PeekKeys <= ListPage
      /\ PeekKeys \in Nat /\ SampleKeys \in Nat /\ ListPage \in Nat /\ MaxPages \in Nat \ {0}
  BY SizesAssumption DEF SmallBucket
<1>3. {k \in Keys : k <= PeekKeys} = Keys
  BY <1>1, <1>2
<1>4. FirstPages(0) = {}
  BY <1>1, <1>2 DEF FirstPages
<1>5. ASSUME NEW n \in Nat \ {0} PROVE FirstPages(n) = Keys
  <2>1. ListPage <= n * ListPage
    <3>1. n - 1 \in Nat
      OBVIOUS
    <3>2. (n - 1) * ListPage \in Nat /\ n * ListPage = (n - 1) * ListPage + ListPage
      BY <1>2, <3>1
    <3>3. QED
      BY <1>2, <3>2
  <2>2. n * ListPage \in Nat
    BY <1>2
  <2> DEFINE bound == n * ListPage
  <2> HIDE DEF bound
  <2>3. \A k \in Keys : k <= bound
    BY <1>1, <1>2, <2>1, <2>2 DEF bound
  <2>4. QED
    BY <2>3 DEF FirstPages, bound
<1>6. ASSUME NEW S \in SUBSET Keys PROVE FirstOf(S, SampleKeys) = S
  <2> SUFFICES ASSUME NEW k \in S PROVE Cardinality({s \in S : s <= k}) <= SampleKeys
    BY DEF FirstOf
  <2> DEFINE T == {s \in S : s <= k}
  <2>1. T \in SUBSET Keys
    OBVIOUS
  <2>2. IsFiniteSet(T) /\ Cardinality(T) <= Len(table.format)
    BY <1>1, <2>1, FS_Subset
  <2>3. Cardinality(T) \in Nat
    BY <2>2, FS_CardinalityType
  <2>4. QED
    BY <1>1, <1>2, <2>2, <2>3
<1>7. PagesListed \in 1..MaxPages
  <2>1. Enough(1)
    BY <1>5 DEF Enough
  <2>2. 1 \in 1..MaxPages /\ \A k \in 1..(1 - 1) : ~Enough(k)
    BY <1>2
  <2>3. \E n \in 1..MaxPages : Enough(n) /\ \A k \in 1..(n - 1) : ~Enough(k)
    BY <2>1, <2>2
  <2>4. QED
    BY <2>3 DEF PagesListed
<1>8. QED
  BY <1>2, <1>3, <1>4, <1>5, <1>6, <1>7

\* So that a sample of it is the glob, also when the listing fails.
LEMMA SampleIs ==
  ASSUME Given, engine = "s3", SmallBucket, NEW r \in SampledReaders
  PROVE  r = Glob(Readers)
<1>1. PICK n \in (IF "list" \in Faults THEN 0..PagesListed ELSE {PagesListed}) :
        r = IF \A i \in DOMAIN Readers : Sampled(n)[i].files = {} THEN Glob(Readers) ELSE Sampled(n)
  BY DEF SampledReaders
<1>2. n \in Nat
  BY SmallIs
<1>3. CASE n = 0
  <2>1. \A i \in DOMAIN Readers : Sampled(n)[i].files = FirstOf(OfFormat(Readers[i], FirstPages(n)), SampleKeys)
    BY DEF Sampled
  <2>2. FirstPages(n) = {}
    BY <1>3, SmallIs
  <2>3. \A i \in DOMAIN Readers : Sampled(n)[i].files = {}
    BY <2>1, <2>2 DEF FirstOf, OfFormat
  <2>4. QED
    BY <1>1, <2>3
<1>4. CASE n # 0
  <2>1. FirstPages(n) = Keys
    BY <1>2, <1>4, SmallIs
  <2>2. \A i \in DOMAIN Readers : FirstOf(OfFormat(Readers[i], Keys), SampleKeys) = OfFormat(Readers[i], Keys)
    BY SmallIs DEF OfFormat
  <2>3. Sampled(n) = Glob(Readers)
    BY <2>1, <2>2 DEF Sampled, Glob
  <2>4. QED
    BY <1>1, <2>3
<1>5. QED
  BY <1>3, <1>4

\* The format that the count tries first is that of the first reader with files.
LEMMA CountFinds ==
  ASSUME Given, engine = "s3", SmallBucket, NEW q, NEW by,
         NEW r \in OrderedReaders, NEW s \in Scans(q, by, r), s.ok
  PROVE  s.rows = Found(q)
<1>1. Peeked = Used
  BY SmallIs DEF Peeked, Used
<1>2. CASE r = Glob(Readers)
  BY <1>2, GlobFinds
<1>3. CASE Used # {} /\ r = Glob(Preferred(Min(Used)))
  <2> DEFINE n == Min(Used)
             order == Preferred(n)
             used == {i \in DOMAIN r : r[i].files # {}}
  <2>1. Readers \in Seq(STRING) /\ Len(Readers) \in Nat /\ DOMAIN Readers = 1..Len(Readers)
    BY DataAssumption
  <2>2. n \in Used /\ n \in 1..Len(Readers)
    <3>1. Used \subseteq 1..Len(Readers)
      BY <2>1 DEF Used
    <3>2. Used \subseteq Nat
      BY <3>1
    <3>3. QED
      BY <1>3, <3>1, <3>2, MinOfSet
  <2> HIDE DEF n
  <2>3. order \in Seq(STRING) /\ order[1] = Readers[n] /\ Len(order) \in Nat /\ 1 \in DOMAIN order
    <3>1. RemoveAt(Readers, n) \in Seq(STRING)
      <4>1. SubSeq(Readers, 1, n - 1) \in Seq(STRING)
        BY <2>1, <2>2, SubSeqProperties
      <4>2. SubSeq(Readers, n + 1, Len(Readers)) \in Seq(STRING)
        BY <2>1, <2>2, SubSeqProperties
      <4>3. QED
        BY <4>1, <4>2 DEF RemoveAt
    <3>2. Readers[n] \in STRING
      BY <2>1, <2>2
    <3>3. QED
      BY <3>1, <3>2 DEF Preferred
  <2>4. DOMAIN order = 1..Len(order)
    BY <2>3
  <2> HIDE DEF order
  <2>5. r = Glob(order)
    BY <1>3 DEF n, order
  <2>6. /\ DOMAIN r = 1..Len(order)
        /\ \A i \in 1..Len(order) : r[i].files = OfFormat(order[i], Keys)
    BY <2>4, <2>5 DEF Glob
  <2>7. r \in Seq({r[i] : i \in 1..Len(order)})
    BY <2>3, <2>4, <2>5 DEF Glob
  <2>8. Len(r) = Len(order)
    BY <2>3, <2>6, <2>7
  <2>9. 1 \in used
    BY <2>2, <2>3, <2>4, <2>6 DEF Used
  <2>10. Min(used) = 1
    <3>1. used \subseteq Nat /\ \A i \in used : 1 <= i
      BY <2>6
    <3>2. Min(used) \in used /\ \A i \in used : Min(used) <= i
      BY <2>9, <3>1, MinOfSet
    <3>3. Min(used) \in Nat /\ 1 <= Min(used) /\ Min(used) <= 1
      BY <2>9, <3>1, <3>2
    <3>4. QED
      BY <3>3
  <2> HIDE DEF used
  <2>11. s.rows = (Matching(q) \cap r[1].files) \ table.broken
    <3>1. Len(r) \in Nat /\ DOMAIN r = 1..Len(r)
      BY <2>3, <2>6, <2>8
    <3>2. s.rows = (Matching(q) \cap r[Min(used)].files) \ table.broken
      BY <2>9, <3>1, ScanOk DEF used
    <3>3. QED
      BY <2>10, <3>2
  <2>12. r[1].files = OfFormat(Readers[n], Keys)
    BY <2>3, <2>4, <2>6
  <2>13. QED
    BY <1>3, <2>11, <2>12 DEF Found, n
<1>4. QED
  BY <1>1, <1>2, <1>3 DEF OrderedReaders

-----------------------------------------------------------------------------
(* The calls                                                               *)

LEMMA EngineIs ==
  ASSUME Given
  PROVE  engine \in {"clickhouse", "trino", "langfuse", "s3"}
BY GivenIs DEF AllEngines

\* A count is a number, and one that is what it was asked for is the number of rows.
LEMMA CountIs ==
  ASSUME Given, NEW q, NEW c \in Counts(q)
  PROVE  /\ c.rows \in Nat /\ c.ok \in BOOLEAN
         /\ SmallBucket /\ c.ok => c.rows = Cardinality(Found(q))
<1> DEFINE N == Cardinality(Matching(q))
<1>1. N \in Nat
  BY MatchingIn
<1>2. engine # "s3" => Found(q) = Matching(q)
  BY DEF Found
<1>3. ASSUME engine # "s3", c = Reply(N, TRUE) \/ c = Reply(0, FALSE)
      PROVE  /\ c.rows \in Nat /\ c.ok \in BOOLEAN
             /\ c.ok => c.rows = Cardinality(Found(q))
  <2>1. Cardinality(Found(q)) = N
    BY <1>2, <1>3
  <2> HIDE DEF N
  <2>2. CASE c = Reply(N, TRUE)
    BY <1>1, <2>1, <2>2 DEF Reply
  <2>3. CASE c = Reply(0, FALSE)
    BY <2>3 DEF Reply
  <2>4. QED
    BY <1>3, <2>2, <2>3
<1>4. CASE engine = "clickhouse"
  <2>1. c = Reply(N, TRUE)
    BY <1>4 DEF Counts, ClickHouseCount
  <2>2. QED
    BY <1>4, <1>3, <2>1
<1>5. CASE engine = "trino"
  <2>1. c \in TrinoCount(q)
    BY <1>5 DEF Counts
  <2>2. c = Reply(N, TRUE) \/ c = Reply(0, FALSE)
    BY <2>1 DEF TrinoCount
  <2>3. QED
    BY <1>5, <1>3, <2>2
<1>6. CASE engine = "langfuse"
  <2>1. c = Reply(N, TRUE)
    BY <1>6 DEF Counts, LangfuseCount
  <2>2. QED
    BY <1>6, <1>3, <2>1
<1>7. CASE engine = "s3"
  <2>1. c \in S3Count(q)
    BY <1>7 DEF Counts
  <2>2. PICK r \in OrderedReaders : \E s \in Scans(q, "", r) : c = Reply(Cardinality(s.rows), s.ok)
    BY <2>1 DEF S3Count
  <2>3. PICK s \in Scans(q, "", r) : c = Reply(Cardinality(s.rows), s.ok)
    BY <2>2
  <2>4. Cardinality(s.rows) \in Nat /\ s.ok \in BOOLEAN
    BY ScanIn
  <2>5. c.rows = Cardinality(s.rows) /\ c.ok = s.ok
    BY <2>3 DEF Reply
  <2>6. SmallBucket /\ s.ok => s.rows = Found(q)
    BY <1>7, CountFinds
  <2>7. QED
    BY <2>4, <2>5, <2>6
<1>8. QED
  BY <1>4, <1>5, <1>6, <1>7, EngineIs

\* A part of an enumeration of rows of the source, with the broken lines left out or not.
LEMMA PartIs ==
  ASSUME Given, NEW S \in SUBSET Keys, NEW p \in SetToSeqs(S), NEW off \in Nat, NEW n \in Nat
  PROVE  /\ Slice(p, off, n) \in Seq(Rows) /\ Parsed(Slice(p, off, n)) \in Seq(Rows)
         /\ Kept(Slice(p, off, n)) \in Seq(Rows)
<1>1. IsFiniteSet(S) /\ Keys \subseteq Rows
  BY GivenIs, FS_Subset
<1>2. p \in Seq(S) /\ IsInjective(p)
  BY <1>1, SeqsAre
<1>3. Slice(p, off, n) \in Seq(S) /\ IsInjective(Slice(p, off, n))
  BY <1>2, SliceIs, SliceOf
<1>4. Parsed(Slice(p, off, n)) \in Seq(S) /\ Kept(Slice(p, off, n)) \in Seq(S)
  BY <1>3, ParsedIs, KeptIs
<1>5. Seq(S) \subseteq Seq(Rows)
  BY <1>1
<1>6. QED
  BY <1>3, <1>4, <1>5

\* A reply of Trino has rows, and one that is what it was asked for all of a page.
LEMMA SelectedIs ==
  ASSUME NEW q, NEW by, NEW pages, \A p \in pages : p \in Seq(Rows), NEW r \in Selected(q, by, pages)
  PROVE  /\ r.rows \in Seq(Rows) /\ r.ok \in BOOLEAN
         /\ r.ok => r.rows \in pages /\ ~NoColumn(q, by)
<1>1. CASE NoColumn(q, by)
  <2>1. r = Reply(<<>>, FALSE)
    BY <1>1 DEF Selected
  <2>2. QED
    BY <2>1 DEF Reply
<1>2. CASE ~NoColumn(q, by) /\ r \in Whole(pages)
  <2>1. PICK p \in pages : r = Reply(p, TRUE)
    BY <1>2 DEF Whole
  <2>2. QED
    BY <1>2, <2>1 DEF Reply
<1>3. CASE ~NoColumn(q, by) /\ \E p \in pages : \E s \in Prefixes(p) : r = Reply(s, FALSE)
  <2>1. PICK p \in pages : \E s \in Prefixes(p) : r = Reply(s, FALSE)
    BY <1>3
  <2>2. PICK s \in Prefixes(p) : r = Reply(s, FALSE)
    BY <2>1
  <2>3. PICK l \in 0..Len(p) : s = SubSeq(p, 1, l)
    BY DEF Prefixes
  <2>4. s \in Seq(Rows)
    <3>1. p \in Seq(Rows) /\ l \in Int /\ \A i \in 1..l : p[i] \in Rows
      OBVIOUS
    <3>2. QED
      BY <2>3, <3>1, SubSeqProperties
  <2>5. QED
    BY <2>2, <2>4 DEF Reply
<1>4. QED
  BY <1>1, <1>2, <1>3 DEF Selected, Statement

\* The page number of Langfuse, computed from the offset of a page.
LEMMA Quotient ==
  ASSUME NEW k \in Nat, NEW b \in Nat \ {0}
  PROVE  (k * b) \div b = k
<1> DEFINE n == k * b
           d == n \div b
<1>1. n \in Nat
  OBVIOUS
<1>2. d \in Int /\ b * d <= n /\ n < b * (d + 1)
  BY <1>1
<1>3. ~(d < k)
  <2> SUFFICES ASSUME d < k PROVE FALSE
    OBVIOUS
  <2>1. d + 1 <= k /\ k - (d + 1) \in Nat
    BY <1>2
  <2>2. b * (k - (d + 1)) \in Nat
    BY <2>1
  <2>3. b * (k - (d + 1)) = n - b * (d + 1)
    BY <1>2
  <2> HIDE DEF d, n
  <2>4. QED
    BY <1>1, <1>2, <2>2, <2>3
<1>4. ~(k < d)
  <2> SUFFICES ASSUME k < d PROVE FALSE
    OBVIOUS
  <2>1. d - (k + 1) \in Nat
    BY <1>2
  <2>2. b * (d - (k + 1)) \in Nat
    BY <2>1
  <2>3. b * (d - (k + 1)) = b * d - n - b
    BY <1>2
  <2> HIDE DEF d, n
  <2>4. QED
    BY <1>1, <1>2, <2>2, <2>3
<1>5. QED
  BY <1>2, <1>3, <1>4

\* The orders that the pages of an export are cut from.
PageOrders(S) ==
  IF engine = "langfuse" THEN {LangfuseOrder(S)}
  ELSE IF engine = "trino" THEN SetToSeqs(S) ELSE Ascending(S, TsCol)

LEMMA PageOrdersAre ==
  ASSUME Given, NEW S \in SUBSET Keys
  PROVE  /\ PageOrders(S) \subseteq SetToSeqs(S)
         /\ Ordered /\ TsCol # "missing" => \A p, o \in PageOrders(S) : p = o
<1>1. PageOrders(S) \subseteq SetToSeqs(S)
  BY LangfuseOrderIs DEF PageOrders, Ascending
<1>2. ASSUME Ordered, TsCol # "missing", NEW p \in PageOrders(S), NEW o \in PageOrders(S)
      PROVE  p = o
  <2>1. CASE engine = "langfuse"
    BY <2>1 DEF PageOrders
  <2>2. CASE engine # "langfuse"
    <3>1. engine # "trino" /\ TsCol # "" /\ ~Tied(TsCol)
      BY <1>2, <2>2 DEF Ordered
    <3>2. TsCol \in Columns
      BY <1>2, <3>1, GivenIs
    <3>3. p \in Ascending(S, TsCol) /\ o \in Ascending(S, TsCol)
      BY <2>2, <3>1 DEF PageOrders
    <3>4. QED
      BY <3>1, <3>2, <3>3, OneOrder
  <2>3. QED
    BY <2>1, <2>2
<1>3. QED
  BY <1>1, <1>2

\* fetch_page returns rows, and a reply that is what it was asked for is the page at
\* the offset of such an order.
LEMMA PageIs ==
  ASSUME Given, NEW q, ~MustRaise(q, TsCol), NEW k \in Nat, NEW r \in FetchPages(q, k * BatchSize)
  PROVE  /\ r.rows \in Seq(Rows) /\ r.ok \in BOOLEAN
         /\ SmallBucket /\ r.ok =>
              /\ TsCol = "missing" => engine = "trino" \/ Found(q) = {}
              /\ \E p \in PageOrders(Found(q)) : r.rows = Kept(Slice(p, k * BatchSize, BatchSize))
<1> DEFINE off == k * BatchSize
           S == Matching(q)
<1>1. BatchSize \in Nat \ {0} /\ off \in Nat /\ S \in SUBSET Keys
  BY SizesAssumption, MatchingIn
<1>2. engine # "s3" => Found(q) = S
  BY DEF Found
<1> HIDE DEF off, S
<1>3. CASE engine = "clickhouse"
  <2>1. PICK p \in Ascending(S, TsCol) : r = Reply(Parsed(Slice(p, off, BatchSize)), TRUE)
    BY <1>3 DEF FetchPages, ClickHousePage, off, S
  <2>2. p \in SetToSeqs(S) /\ p \in PageOrders(S)
    BY <1>3 DEF Ascending, PageOrders
  <2>3. r.rows = Parsed(Slice(p, off, BatchSize)) /\ r.ok = TRUE
    BY <2>1 DEF Reply
  <2>4. r.rows \in Seq(Rows)
    BY <1>1, <2>2, <2>3, PartIs
  <2>5. TsCol # "missing"
    BY <1>3 DEF MustRaise, NoColumn
  <2>6. r.rows = Kept(Slice(p, off, BatchSize))
    BY <1>3, <2>3 DEF Kept
  <2>7. QED
    BY <1>2, <1>3, <2>2, <2>3, <2>4, <2>5, <2>6 DEF off
<1>4. CASE engine = "trino"
  <2> DEFINE pages == {Slice(p, off, BatchSize) : p \in Ascending(S, "")}
  <2>1. r \in Selected(q, "", pages)
    BY <1>4 DEF FetchPages, TrinoPage, off, S
  <2>2. \A p \in Ascending(S, "") : p \in SetToSeqs(S) /\ p \in PageOrders(S)
    BY <1>4 DEF Ascending, PageOrders
  <2>3. \A s \in pages : s \in Seq(Rows)
    BY <1>1, <2>2, PartIs
  <2> HIDE DEF pages
  <2>4. r.rows \in Seq(Rows) /\ r.ok \in BOOLEAN /\ (r.ok => r.rows \in pages)
    BY <2>1, <2>3, SelectedIs
  <2>5. ASSUME r.ok PROVE \E p \in PageOrders(S) : r.rows = Kept(Slice(p, off, BatchSize))
    <3>1. PICK p \in Ascending(S, "") : r.rows = Slice(p, off, BatchSize)
      BY <2>4, <2>5 DEF pages
    <3>2. r.rows = Kept(Slice(p, off, BatchSize))
      BY <1>4, <3>1 DEF Kept
    <3>3. QED
      BY <2>2, <3>2
  <2>6. QED
    BY <1>2, <1>4, <2>4, <2>5 DEF off
<1>5. CASE engine = "langfuse"
  <2> DEFINE page == (off \div BatchSize) + 1
             p == LangfuseOrder(S)
  <2>1. r = Reply(Slice(p, (page - 1) * BatchSize, BatchSize), TRUE)
    BY <1>5 DEF FetchPages, LangfusePage, Whole, off, S
  <2>2. off \div BatchSize = k
    BY <1>1, Quotient DEF off
  <2>3. (page - 1) * BatchSize = off
    BY <1>1, <2>2 DEF off
  <2>4. p \in SetToSeqs(S) /\ p \in PageOrders(S)
    BY <1>1, <1>5, LangfuseOrderIs DEF PageOrders
  <2>5. r.rows = Slice(p, off, BatchSize) /\ r.ok = TRUE
    BY <2>1, <2>3 DEF Reply
  <2> HIDE DEF p, page
  <2>6. r.rows \in Seq(Rows)
    BY <1>1, <2>4, <2>5, PartIs
  <2>7. r.rows = Kept(Slice(p, off, BatchSize)) /\ TsCol # "missing"
    BY <1>5, <2>5, GivenIs DEF Kept
  <2>8. QED
    BY <1>2, <1>5, <2>4, <2>5, <2>6, <2>7 DEF off
<1>6. CASE engine = "s3"
  <2>1. PICK readers \in SampledReaders :
          \E s \in Scans(q, TsCol, readers) :
            \E p \in Ascending(s.rows, TsCol) : r = Reply(Slice(p, off, BatchSize), s.ok)
    BY <1>6 DEF FetchPages, S3Page, off
  <2>2. PICK s \in Scans(q, TsCol, readers) :
          \E p \in Ascending(s.rows, TsCol) : r = Reply(Slice(p, off, BatchSize), s.ok)
    BY <2>1
  <2>3. PICK p \in Ascending(s.rows, TsCol) : r = Reply(Slice(p, off, BatchSize), s.ok)
    BY <2>2
  <2>4. s.rows \in SUBSET Keys /\ s.ok \in BOOLEAN
    BY ScanIn
  <2>5. p \in SetToSeqs(s.rows) /\ p \in PageOrders(s.rows)
    BY <1>6 DEF Ascending, PageOrders
  <2>6. r.rows = Slice(p, off, BatchSize) /\ r.ok = s.ok
    BY <2>3 DEF Reply
  <2>7. r.rows \in Seq(Rows)
    BY <1>1, <2>4, <2>5, <2>6, PartIs
  <2>8. r.rows = Kept(Slice(p, off, BatchSize))
    BY <1>6, <2>6 DEF Kept
  <2>9. ASSUME SmallBucket, s.ok
        PROVE  s.rows = Found(q) /\ (TsCol = "missing" => Found(q) = {})
    <3>1. readers = Glob(Readers)
      BY <1>6, <2>9, SampleIs
    <3>2. s.rows = Found(q) /\ (NoColumn(q, TsCol) => Found(q) = {})
      BY <1>6, <2>9, <3>1, GlobFinds
    <3>3. QED
      BY <3>2 DEF NoColumn
  <2>10. QED
    BY <2>4, <2>5, <2>6, <2>7, <2>8, <2>9 DEF off
<1>7. QED
  BY <1>3, <1>4, <1>5, <1>6, EngineIs

\* preview returns rows, and a reply that is what it was asked for is the start of an
\* order that has the newest rows first.
LEMMA PreviewIs ==
  ASSUME Given, NEW q, NEW by, ~MustRaise(q, by), NEW limit \in Nat, NEW r \in Preview(q, by, limit)
  PROVE  /\ r.rows \in Seq(Rows) /\ r.ok \in BOOLEAN
         /\ SmallBucket /\ r.ok =>
              /\ by = "missing" => engine = "langfuse" \/ Found(q) = {}
              /\ \E p \in Newest(Found(q), by) : r.rows = Kept(Slice(p, 0, limit))
         /\ engine # "s3" /\ r.ok => \E p \in Newest(Found(q), by) : r.rows = Kept(Slice(p, 0, limit))
<1> DEFINE S == Matching(q)
<1>1. S \in SUBSET Keys /\ IsFiniteSet(S)
  BY MatchingIn
<1>2. engine # "s3" => Found(q) = S
  BY DEF Found
<1> HIDE DEF S
<1>3. \A p \in Newest(S, by) : p \in SetToSeqs(S)
  BY <1>1, NewestIs
<1>4. CASE engine = "clickhouse"
  <2>1. PICK p \in Newest(S, by) : r = Reply(Parsed(Slice(p, 0, limit)), TRUE)
    BY <1>4 DEF Preview, ClickHousePreview, S
  <2>2. r.rows = Parsed(Slice(p, 0, limit)) /\ r.ok = TRUE
    BY <2>1 DEF Reply
  <2>3. r.rows \in Seq(Rows)
    BY <1>1, <1>3, <2>2, PartIs
  <2>4. by # "missing"
    BY <1>4 DEF MustRaise, NoColumn
  <2>5. r.rows = Kept(Slice(p, 0, limit))
    BY <1>4, <2>2 DEF Kept
  <2>6. QED
    BY <1>2, <1>4, <2>2, <2>3, <2>4, <2>5
<1>5. CASE engine = "trino"
  <2> DEFINE pages == {Slice(p, 0, limit) : p \in Newest(S, by)}
  <2>1. r \in Selected(q, by, pages)
    BY <1>5 DEF Preview, TrinoPreview, S
  <2>2. \A s \in pages : s \in Seq(Rows)
    BY <1>1, <1>3, PartIs
  <2> HIDE DEF pages
  <2>3. r.rows \in Seq(Rows) /\ r.ok \in BOOLEAN /\ (r.ok => r.rows \in pages /\ ~NoColumn(q, by))
    BY <2>1, <2>2, SelectedIs
  <2>4. ASSUME r.ok PROVE \E p \in Newest(S, by) : r.rows = Kept(Slice(p, 0, limit))
    <3>1. PICK p \in Newest(S, by) : r.rows = Slice(p, 0, limit)
      BY <2>3, <2>4 DEF pages
    <3>2. QED
      BY <1>5, <3>1 DEF Kept
  <2>5. r.ok => by # "missing"
    BY <2>3 DEF NoColumn
  <2>6. QED
    BY <1>2, <1>5, <2>3, <2>4, <2>5
<1>6. CASE engine = "langfuse"
  <2>1. PICK p \in Newest(S, by) : r = Reply(Slice(p, 0, limit), TRUE)
    BY <1>6 DEF Preview, LangfusePreview, Whole, S
  <2>2. r.rows = Slice(p, 0, limit) /\ r.ok = TRUE
    BY <2>1 DEF Reply
  <2>3. r.rows \in Seq(Rows)
    BY <1>1, <1>3, <2>2, PartIs
  <2>4. r.rows = Kept(Slice(p, 0, limit))
    BY <1>6, <2>2 DEF Kept
  <2>5. QED
    BY <1>2, <1>6, <2>2, <2>3, <2>4
<1>7. CASE engine = "s3"
  <2>1. PICK readers \in SampledReaders :
          \E s \in Scans(q, by, readers) :
            \E p \in Newest(s.rows, by) : r = Reply(Slice(p, 0, limit), s.ok)
    BY <1>7 DEF Preview, S3Preview
  <2>2. PICK s \in Scans(q, by, readers) :
          \E p \in Newest(s.rows, by) : r = Reply(Slice(p, 0, limit), s.ok)
    BY <2>1
  <2>3. PICK p \in Newest(s.rows, by) : r = Reply(Slice(p, 0, limit), s.ok)
    BY <2>2
  <2>4. s.rows \in SUBSET Keys /\ IsFiniteSet(s.rows) /\ s.ok \in BOOLEAN
    BY ScanIn
  <2>5. p \in SetToSeqs(s.rows)
    BY <2>4, NewestIs
  <2>6. r.rows = Slice(p, 0, limit) /\ r.ok = s.ok
    BY <2>3 DEF Reply
  <2>7. r.rows \in Seq(Rows)
    BY <2>4, <2>5, <2>6, PartIs
  <2>8. r.rows = Kept(Slice(p, 0, limit))
    BY <1>7, <2>6 DEF Kept
  <2>9. ASSUME SmallBucket, s.ok
        PROVE  s.rows = Found(q) /\ (by = "missing" => Found(q) = {})
    <3>1. readers = Glob(Readers)
      BY <1>7, <2>9, SampleIs
    <3>2. s.rows = Found(q) /\ (NoColumn(q, by) => Found(q) = {})
      BY <1>7, <2>9, <3>1, GlobFinds
    <3>3. QED
      BY <3>2 DEF NoColumn
  <2>10. QED
    BY <1>7, <2>4, <2>6, <2>7, <2>8, <2>9
<1>8. QED
  BY <1>4, <1>5, <1>6, <1>7, EngineIs

-----------------------------------------------------------------------------
(* The inductive invariant                                                 *)

\* The job has counted the rows there are. What it has read
\* is as many as the pages before have, broken lines aside; and, when the order of
\* the pages stays, the rows at the places before.
LoopInv ==
  pc \in {"fetching", "done"} /\ "export" \notin swallowed /\ SmallBucket =>
    /\ total = Cardinality(Found(Asked))
    /\ offset = 0 => got = <<>>
    /\ (engine = "clickhouse" => table.broken = {}) => Len(got) = Least(offset, total)
    /\ TsCol = "missing" /\ engine # "trino" => offset = 0
    /\ TsCol # "missing" /\ offset # 0 /\ Ordered =>
         \E p \in PageOrders(Found(Asked)) :
           IsInjective(got) /\ ToSet(got) = FirstOfSeq(p, Least(offset, total)) \ Lost

OffsetInv == \E k \in Nat : offset = k * BatchSize
EndInv == pc = "fetching" => offset < total
DoneInv == pc = "done" => total <= offset
StartInv == pc \in {"browsing", "listed", "counting"} => offset = 0 /\ got = <<>>

\* The preview has the newest rows and the number of all.
ShownInv ==
  shown # NULL /\ "preview" \notin swallowed /\ SmallBucket =>
    /\ told = Cardinality(Found(Asked))
    /\ SortCol = "missing" => Found(Asked) = {}
    /\ \E p \in Newest(Found(Asked), SortCol) : shown = Kept(Slice(p, 0, PreviewLimit))

Inv == TypeOK /\ LoopInv /\ OffsetInv /\ EndInv /\ DoneInv /\ StartInv /\ ShownInv /\ SchemaSeesFields

-----------------------------------------------------------------------------
(* The schema                                                              *)

\* The rows that schema looks at are rows of the source; and it looks at some, if the
\* source has any and the query without a window answers.
LEMMA FallbackIs ==
  ASSUME Given, NEW seen, seen \in SUBSET Rows,
         seen = {} => ~MustRaise(NoWindow, TsCol), NEW s \in Fallback(seen)
  PROVE  /\ s.rows \in SUBSET Rows /\ s.ok \in BOOLEAN
         /\ engine # "s3" /\ Readable = Keys /\ Keys # {} /\ s.ok => s.rows # {}
<1>1. CASE seen # {}
  <2>1. s = Reply(seen, TRUE)
    BY <1>1 DEF Fallback
  <2>2. s.rows = seen /\ s.ok = TRUE
    BY <2>1, Zenon DEF Reply
  <2>3. QED
    BY <1>1, <2>2
<1>2. CASE seen = {}
  <2>1. PICK p \in Preview(NoWindow, TsCol, SchemaLimit) : s = Reply(ToSet(p.rows), p.ok)
    BY <1>2 DEF Fallback, RowsShown
  <2>2. SchemaLimit \in Nat \ {0}
    BY SizesAssumption
  <2>3. /\ p.rows \in Seq(Rows) /\ p.ok \in BOOLEAN
        /\ engine # "s3" /\ p.ok =>
             \E o \in Newest(Found(NoWindow), TsCol) : p.rows = Kept(Slice(o, 0, SchemaLimit))
    BY <1>2, <2>2, PreviewIs
  <2>4. s.rows = ToSet(p.rows) /\ s.ok = p.ok
    BY <2>1 DEF Reply
  <2>5. s.rows \in SUBSET Rows
    BY <2>3, <2>4 DEF ToSet
  <2>6. ASSUME engine # "s3", Readable = Keys, Keys # {}, p.ok PROVE ToSet(p.rows) # {}
    <3>1. PICK o \in Newest(Found(NoWindow), TsCol) : p.rows = Kept(Slice(o, 0, SchemaLimit))
      BY <2>3, <2>6
    <3>2. Found(NoWindow) = Keys
      BY <2>6 DEF Found, Matching, NoWindow
    <3>3. o \in SetToSeqs(Keys)
      BY <3>1, <3>2, NewestIs, GivenIs
    <3>4. /\ Len(o) = Cardinality(Keys) /\ Len(o) \in Nat /\ o \in Seq(Keys) /\ IsInjective(o)
          /\ Cardinality(Keys) # 0
      BY <2>6, <3>3, SeqsAre, GivenIs, FS_EmptySet
    <3> DEFINE page == Slice(o, 0, SchemaLimit)
    <3>5. /\ page \in Seq(Keys) /\ IsInjective(page)
          /\ Len(page) = Least(0 + SchemaLimit, Len(o)) - Least(0, Len(o))
      BY <2>2, <3>4, SliceIs, SliceOf
    <3>6. Len(page) # 0
      BY <2>2, <3>4, <3>5 DEF Least
    <3> HIDE DEF page
    <3>7. ToSet(page) \cap Lost = {}
      <4>1. ToSet(page) \subseteq Keys
        BY <3>5 DEF ToSet
      <4>2. Keys \cap Lost = {}
        BY <2>6 DEF Readable, Lost
      <4>3. QED
        BY <4>1, <4>2
    <3>8. ToSet(p.rows) = ToSet(page)
      BY <3>1, <3>5, <3>7, KeptIs DEF page
    <3>9. 1 \in DOMAIN page
      BY <3>5, <3>6
    <3>10. QED
      BY <3>8, <3>9 DEF ToSet
  <2>7. QED
    BY <2>3, <2>4, <2>5, <2>6
<1>3. QED
  BY <1>1, <1>2

LEMMA PartsAre ==
  ASSUME Given, NEW a, NEW b, NEW s \in PartsOf(a, b)
  PROVE  s \in SUBSET Rows
<1> DEFINE Part(i) == Between(Cut(a, b, i), Cut(a, b, i + 1))
           Seen(i) == (IF MustRaise(Part(i), TsCol) THEN {} ELSE Preview(Part(i), TsCol, 1))
                        \cup (IF MayRaise \/ MustRaise(Part(i), TsCol) THEN {Reply(<<>>, FALSE)} ELSE {})
           parts == 0..(Windows - 1)
<1>1. PICK f \in [parts -> UNION {Seen(i) : i \in parts}] :
        /\ \A i \in parts : f[i] \in Seen(i)
        /\ s = UNION {ToSet(f[i].rows) : i \in parts}
  BY Zenon DEF PartsOf
<1>2. ASSUME NEW i \in parts PROVE f[i].rows \in Seq(Rows)
  <2>1. f[i] \in Seen(i)
    BY <1>1
  <2>2. CASE ~MustRaise(Part(i), TsCol) /\ f[i] \in Preview(Part(i), TsCol, 1)
    <3> HIDE DEF Part
    <3>1. QED
      BY <2>2, PreviewIs
  <2>3. CASE f[i] = Reply(<<>>, FALSE)
    BY <2>3 DEF Reply
  <2>4. QED
    BY <2>1, <2>2, <2>3
<1> HIDE DEF Seen, parts
<1>3. \A i \in parts : ToSet(f[i].rows) \subseteq Rows
  BY <1>2 DEF ToSet
<1>4. QED
  BY <1>1, <1>3

LEMMA SchemaIs ==
  ASSUME Given, NEW s \in SchemaRows
  PROVE  /\ s.rows \in SUBSET Rows /\ s.ok \in BOOLEAN
         /\ engine # "s3" /\ Readable = Keys /\ Keys # {} /\ s.ok => s.rows # {}
<1>1. CASE engine = "s3"
  <2>1. s \in S3Schema
    BY <1>1 DEF SchemaRows
  <2>2. PICK p \in Preview(Between(request.start, request.end), TsCol, SchemaLimit) :
          s = Reply(ToSet(p.rows), p.ok)
    BY <2>1 DEF S3Schema, RowsShown
  <2>3. SchemaLimit \in Nat /\ ~MustRaise(Between(request.start, request.end), TsCol)
    BY <1>1, SizesAssumption DEF MustRaise
  <2>4. p.rows \in Seq(Rows) /\ p.ok \in BOOLEAN
    BY <2>3, PreviewIs
  <2>5. QED
    BY <1>1, <2>2, <2>4 DEF ToSet, Reply
<1>2. CASE engine # "s3"
  <2> DEFINE a == IF request.start = NULL THEN Now - Day ELSE request.start
             b == IF request.start = NULL THEN Now ELSE request.end
  <2>1. s \in IF b = NULL THEN {}
              ELSE UNION {IF seen = {} /\ MustRaise(NoWindow, TsCol) THEN {} ELSE Fallback(seen) :
                            seen \in PartsOf(a, b)}
    BY <1>2, Zenon DEF SchemaRows
  <2> HIDE DEF a, b
  <2>2. PICK seen \in PartsOf(a, b) :
          s \in IF seen = {} /\ MustRaise(NoWindow, TsCol) THEN {} ELSE Fallback(seen)
    BY <2>1
  <2>3. s \in Fallback(seen) /\ (seen = {} => ~MustRaise(NoWindow, TsCol))
    BY <2>2
  <2>4. seen \in SUBSET Rows
    BY PartsAre
  <2>5. QED
    BY <2>3, <2>4, FallbackIs
<1>3. QED
  BY <1>1, <1>2

-----------------------------------------------------------------------------
(* The steps                                                               *)

\* Every step keeps the types, and the offset at a page boundary.
LEMMA TypeStep ==
  ASSUME TypeOK, OffsetInv, [Next]_vars
  PROVE  TypeOK' /\ OffsetInv'
<1>1. Given /\ BatchSize \in Nat \ {0} /\ PreviewLimit \in Nat
  BY SizesAssumption DEF TypeOK, Given
<1>2. ASSUME NEW call \in {"schema", "preview", "export"}, NEW ok, Note(call, ok)
      PROVE  swallowed' \subseteq {"schema", "preview", "export"}
  BY <1>2 DEF Note, TypeOK
<1>3. ASSUME UNCHANGED givenVars
      PROVE  engine' \in Engines /\ table' \in Tables /\ request' \in Requests
  BY <1>3 DEF givenVars, TypeOK
<1>4. CASE Schema
  <2>1. fields' \in {NULL} \cup SUBSET Rows
    BY <1>1, <1>4, SchemaIs DEF Schema
  <2>2. swallowed' \subseteq {"schema", "preview", "export"}
    BY <1>4, <1>2 DEF Schema, TypeOK
  <2>3. /\ UNCHANGED givenVars /\ pc' = "listed"
        /\ UNCHANGED <<shown, told, total, offset, got>>
    BY <1>4 DEF Schema
  <2>4. QED
    BY <1>3, <2>1, <2>2, <2>3 DEF TypeOK, OffsetInv
<1>5. CASE PreviewConnection
  <2>1. /\ ~MustRaise(Asked, SortCol)
        /\ UNCHANGED givenVars /\ pc' = "counting" /\ UNCHANGED <<fields, total, offset, got>>
    BY <1>5 DEF PreviewConnection
  <2>2. PICK p \in Preview(Asked, SortCol, PreviewLimit) :
          /\ shown' = p.rows
          /\ \/ \E c \in Counts(Asked) : told' = c.rows /\ Note("preview", p.ok /\ c.ok)
             \/ told' = 0 /\ Note("preview", FALSE)
    BY <1>5 DEF PreviewConnection
  <2>3. shown' \in Seq(Rows)
    BY <1>1, <2>1, <2>2, PreviewIs
  <2>4. told' \in Nat
    <3>1. CASE told' = 0
      BY <3>1
    <3>2. CASE \E c \in Counts(Asked) : told' = c.rows
      BY <1>1, <3>2, CountIs
    <3>3. QED
      BY <2>2, <3>1, <3>2
  <2>5. swallowed' \subseteq {"schema", "preview", "export"}
    BY <1>2, <2>2
  <2>6. QED
    BY <1>3, <2>1, <2>3, <2>4, <2>5 DEF TypeOK, OffsetInv
<1>6. CASE PreviewRaises
  <2>1. /\ UNCHANGED givenVars /\ pc' = "counting" /\ shown' = NULL
        /\ UNCHANGED <<fields, told, total, offset, got, swallowed>>
    BY <1>6 DEF PreviewRaises
  <2>2. QED
    BY <1>3, <2>1 DEF TypeOK, OffsetInv
<1>7. CASE CountTotal
  <2>1. /\ UNCHANGED givenVars /\ UNCHANGED <<fields, shown, told, offset, got>>
        /\ pc' = Loop(0, total')
    BY <1>7 DEF CountTotal
  <2>2. PICK c \in Counts(Asked) : total' = c.rows /\ Note("export", c.ok)
    BY <1>7 DEF CountTotal
  <2>3. total' \in Nat /\ swallowed' \subseteq {"schema", "preview", "export"}
    BY <1>1, <1>2, <2>2, CountIs
  <2>4. pc' \in {"fetching", "done"}
    BY <2>1 DEF Loop
  <2>5. QED
    BY <1>3, <2>1, <2>3, <2>4 DEF TypeOK, OffsetInv
<1>8. CASE FetchPage
  <2>1. /\ UNCHANGED givenVars /\ UNCHANGED <<fields, shown, told, total>>
        /\ offset' = offset + BatchSize /\ pc' = Loop(offset', total) /\ ~MustRaise(Asked, TsCol)
    BY <1>8 DEF FetchPage
  <2>2. PICK p \in FetchPages(Asked, offset) : got' = got \o p.rows /\ Note("export", p.ok)
    BY <1>8 DEF FetchPage
  <2>3. PICK k \in Nat : offset = k * BatchSize
    BY DEF OffsetInv
  <2>4. p.rows \in Seq(Rows)
    BY <1>1, <2>1, <2>3, PageIs
  <2>5. got' \in Seq(Rows)
    BY <2>2, <2>4 DEF TypeOK
  <2>6. swallowed' \subseteq {"schema", "preview", "export"}
    BY <1>2, <2>2
  <2>7. offset' = (k + 1) * BatchSize /\ k + 1 \in Nat
    BY <1>1, <2>1, <2>3
  <2>8. offset' \in Nat
    BY <1>1, <2>1 DEF TypeOK
  <2>9. pc' \in {"fetching", "done"}
    BY <2>1 DEF Loop
  <2>10. OffsetInv'
    BY <2>7 DEF OffsetInv
  <2>11. TypeOK'
    BY <1>3, <2>1, <2>5, <2>6, <2>8, <2>9 DEF TypeOK
  <2>12. QED
    BY <2>10, <2>11
<1>9. CASE CallRaises
  <2>1. /\ UNCHANGED givenVars /\ pc' = "failed"
        /\ UNCHANGED <<fields, shown, told, total, offset, got, swallowed>>
    BY <1>9 DEF CallRaises
  <2>2. QED
    BY <1>3, <2>1 DEF TypeOK, OffsetInv
<1>10. CASE UNCHANGED vars
  BY <1>10 DEF vars, givenVars, TypeOK, OffsetInv
<1>11. QED
  BY <1>4, <1>5, <1>6, <1>7, <1>8, <1>9, <1>10 DEF Next

\* The source and the request stay as they are, and with them what a statement finds.
LEMMA GivenStays ==
  ASSUME UNCHANGED givenVars
  PROVE  /\ Found(Asked)' = Found(Asked)
         /\ Newest(Found(Asked), SortCol)' = Newest(Found(Asked), SortCol)
         /\ PageOrders(Found(Asked))' = PageOrders(Found(Asked))
         /\ TsCol' = TsCol /\ SortCol' = SortCol /\ Lost' = Lost /\ Keys' = Keys
         /\ SmallBucket' = SmallBucket /\ Ordered' = Ordered
         /\ Readable' = Readable
<1>1. engine' = engine /\ table' = table /\ request' = request
  BY DEF givenVars
<1>2. TsCol' = TsCol
  BY <1>1 DEF TsCol
<1>3. SortCol' = SortCol
  BY <1>1, <1>2 DEF SortCol
<1>4. Keys' = Keys /\ Lost' = Lost
  BY <1>1 DEF Keys, Lost
<1>5. Readable' = Readable /\ SmallBucket' = SmallBucket
  BY <1>1, <1>4 DEF Readable, SmallBucket
<1>6. Ordered' = Ordered
  BY <1>1, <1>2, <1>4 DEF Ordered, Tied
<1>7. Matching(Asked)' = Matching(Asked)
  BY <1>1, <1>2, <1>4 DEF Matching, Asked, Sent, SecondOf
<1>8. Found(Asked)' = Found(Asked)
  BY <1>1, <1>4, <1>7 DEF Found, Used, OfFormat
<1>9. Newest(Found(Asked), SortCol)' = Newest(Found(Asked), SortCol)
  BY <1>1, <1>3, <1>8 DEF Newest, Descending, Ascending
<1>10. PageOrders(Found(Asked))' = PageOrders(Found(Asked))
  BY <1>1, <1>2, <1>8 DEF PageOrders, LangfuseOrder, Descending, Ascending
<1>11. QED
  BY <1>2, <1>3, <1>4, <1>5, <1>6, <1>8, <1>9, <1>10

\* What was swallowed stays swallowed.
LEMMA SwallowedGrows ==
  ASSUME [Next]_vars
  PROVE  swallowed \subseteq swallowed'
<1>1. \A call, ok : Note(call, ok) => swallowed \subseteq swallowed'
  BY DEF Note
<1>2. CASE Schema
  BY <1>1, <1>2 DEF Schema
<1>3. CASE PreviewConnection
  BY <1>1, <1>3 DEF PreviewConnection
<1>4. CASE CountTotal
  BY <1>1, <1>4 DEF CountTotal
<1>5. CASE FetchPage
  BY <1>1, <1>5 DEF FetchPage
<1>6. CASE PreviewRaises \/ CallRaises \/ UNCHANGED vars
  BY <1>6 DEF PreviewRaises, CallRaises, vars
<1>7. QED
  BY <1>2, <1>3, <1>4, <1>5, <1>6 DEF Next

\* No step changes the source or the request.
LEMMA GivenKept == ASSUME [Next]_vars PROVE UNCHANGED givenVars
BY DEF Next, Schema, PreviewConnection, PreviewRaises, CountTotal, FetchPage, CallRaises, vars

\* The schema is looked at once.
LEMMA SchemaStep ==
  ASSUME Given, SchemaSeesFields, [Next]_vars
  PROVE  SchemaSeesFields'
<1>1. /\ Keys' = Keys /\ Readable' = Readable /\ engine' = engine
  BY GivenKept, GivenStays DEF givenVars
<1>2. CASE fields' = fields
  BY <1>1, <1>2, SwallowedGrows DEF SchemaSeesFields
<1>3. CASE Schema
  <2>1. CASE fields' = NULL
    BY <2>1, NullAssumption DEF SchemaSeesFields
  <2>2. CASE \E s \in SchemaRows : fields' = s.rows /\ Note("schema", s.ok)
    <3>1. PICK s \in SchemaRows : fields' = s.rows /\ Note("schema", s.ok)
      BY <2>2
    <3>2. s.ok \in BOOLEAN /\ (engine # "s3" /\ Readable = Keys /\ Keys # {} /\ s.ok => s.rows # {})
      BY SchemaIs
    <3>3. ~s.ok => "schema" \in swallowed'
      BY <3>1 DEF Note
    <3>4. QED
      BY <1>1, <3>1, <3>2, <3>3 DEF SchemaSeesFields
  <2>3. QED
    BY <1>3, <2>1, <2>2 DEF Schema
<1>4. QED
  BY <1>2, <1>3
  DEF Next, PreviewConnection, PreviewRaises, CountTotal, FetchPage, CallRaises, vars

\* A preview is of what the statement finds.
LEMMA ShownStep ==
  ASSUME Given, ShownInv, [Next]_vars
  PROVE  ShownInv'
<1>1. /\ Found(Asked)' = Found(Asked)
      /\ Newest(Found(Asked), SortCol)' = Newest(Found(Asked), SortCol)
      /\ SortCol' = SortCol /\ SmallBucket' = SmallBucket
      /\ engine' = engine /\ table' = table
  BY GivenKept, GivenStays DEF givenVars
<1>2. SUFFICES ASSUME shown' # NULL, "preview" \notin swallowed', SmallBucket
               PROVE  /\ told' = Cardinality(Found(Asked))
                      /\ SortCol = "missing" => Found(Asked) = {}
                      /\ \E p \in Newest(Found(Asked), SortCol) : shown' = Kept(Slice(p, 0, PreviewLimit))
  BY <1>1 DEF ShownInv, Kept, Parsed
<1>3. CASE shown' = shown /\ told' = told
  BY <1>2, <1>3, SwallowedGrows DEF ShownInv
<1>4. CASE PreviewConnection
  <2>1. PICK p \in Preview(Asked, SortCol, PreviewLimit) :
          /\ shown' = p.rows
          /\ \/ \E c \in Counts(Asked) : told' = c.rows /\ Note("preview", p.ok /\ c.ok)
             \/ told' = 0 /\ Note("preview", FALSE)
    BY <1>4 DEF PreviewConnection
  <2>2. ~Note("preview", FALSE)
    BY <1>2 DEF Note
  <2>3. PICK c \in Counts(Asked) : told' = c.rows /\ Note("preview", p.ok /\ c.ok)
    BY <2>1, <2>2
  <2>4. p.ok /\ c.ok
    BY <1>2, <2>3 DEF Note
  <2>5. told' = Cardinality(Found(Asked))
    BY <1>2, <2>3, <2>4, CountIs
  <2>6. ~MustRaise(Asked, SortCol) /\ PreviewLimit \in Nat
    BY <1>4, SizesAssumption DEF PreviewConnection
  <2>7. /\ SortCol = "missing" => engine = "langfuse" \/ Found(Asked) = {}
        /\ \E o \in Newest(Found(Asked), SortCol) : p.rows = Kept(Slice(o, 0, PreviewLimit))
    BY <1>2, <2>4, <2>6, PreviewIs
  <2>8. SortCol = "missing" => Found(Asked) = {}
    BY <2>7, GivenIs
  <2>9. QED
    BY <2>1, <2>5, <2>7, <2>8
<1>5. CASE PreviewRaises
  BY <1>2, <1>5 DEF PreviewRaises
<1>6. QED
  BY <1>3, <1>4, <1>5 DEF Next, Schema, CountTotal, FetchPage, CallRaises, vars

\* A page more, of one order: no row twice, and all those at the places before.
LEMMA PageMore ==
  ASSUME NEW S, IsFiniteSet(S), NEW p \in SetToSeqs(S), NEW off \in Nat, NEW n \in Nat \ {0},
         Kept(Slice(p, off, n)) \in Seq(Rows), NEW old \in Seq(Rows)
  PROVE  /\ S \cap Lost = {} /\ Len(old) = Least(off, Cardinality(S)) =>
              Len(old \o Kept(Slice(p, off, n))) = Least(off + n, Cardinality(S))
         /\ IsInjective(old) /\ ToSet(old) = FirstOfSeq(p, Least(off, Cardinality(S))) \ Lost =>
              /\ IsInjective(old \o Kept(Slice(p, off, n)))
              /\ ToSet(old \o Kept(Slice(p, off, n))) = FirstOfSeq(p, Least(off + n, Cardinality(S))) \ Lost
<1> DEFINE N == Cardinality(S)
           s == Slice(p, off, n)
           page == Kept(s)
           new == old \o page
<1>1. N \in Nat /\ p \in Seq(S) /\ Len(p) = N /\ IsInjective(p)
  BY SeqsAre
<1>2. s \in Seq(S) /\ Len(s) = Least(off + n, N) - Least(off, N)
  BY <1>1, SliceIs
<1>3. /\ IsInjective(s)
      /\ FirstOfSeq(p, Least(off, N)) \cap ToSet(s) = {}
      /\ FirstOfSeq(p, Least(off + n, N)) = FirstOfSeq(p, Least(off, N)) \cup ToSet(s)
  BY <1>1, SliceOf
<1>4. /\ IsInjective(page) /\ ToSet(page) = ToSet(s) \ Lost
      /\ ToSet(s) \cap Lost = {} => Len(page) = Len(s)
  BY <1>2, <1>3, KeptIs
<1>5. ToSet(s) \subseteq S
  BY <1>2 DEF ToSet
<1>6. page \in Seq(Rows)
  OBVIOUS
<1> HIDE DEF s, page, N
<1>7. Least(off, N) \in Nat /\ Least(off + n, N) \in Nat
  BY <1>1 DEF Least
<1>8. /\ Len(new) = Len(old) + Len(page) /\ Len(old) \in Nat /\ Len(page) \in Nat
      /\ DOMAIN new = 1..(Len(old) + Len(page))
      /\ \A i \in 1..(Len(old) + Len(page)) :
           new[i] = IF i <= Len(old) THEN old[i] ELSE page[i - Len(old)]
      /\ DOMAIN old = 1..Len(old) /\ DOMAIN page = 1..Len(page)
  BY <1>6
<1> HIDE DEF new
<1>9. ASSUME S \cap Lost = {}, Len(old) = Least(off, N) PROVE Len(new) = Least(off + n, N)
  <2>1. Len(page) = Len(s)
    BY <1>4, <1>5, <1>9
  <2> DEFINE a == Least(off, N)
             b == Least(off + n, N)
  <2>2. a \in Nat /\ b \in Nat /\ Len(old) = a /\ Len(page) = b - a
    BY <1>2, <1>7, <1>9, <2>1
  <2> HIDE DEF a, b
  <2>3. Len(new) = b
    BY <1>8, <2>2
  <2>4. QED
    BY <2>3 DEF b
<1>10. ToSet(new) = ToSet(old) \cup ToSet(page)
  <2>1. ASSUME NEW i \in DOMAIN new PROVE new[i] \in ToSet(old) \cup ToSet(page)
    <3>1. CASE i <= Len(old)
      BY <1>8, <3>1 DEF ToSet
    <3>2. CASE ~(i <= Len(old))
      <4>1. i - Len(old) \in DOMAIN page /\ new[i] = page[i - Len(old)]
        BY <1>8, <3>2
      <4>2. QED
        BY <4>1 DEF ToSet
    <3>3. QED
      BY <3>1, <3>2
  <2>2. ASSUME NEW i \in DOMAIN old PROVE old[i] \in ToSet(new)
    <3>1. i \in DOMAIN new /\ new[i] = old[i]
      BY <1>8
    <3>2. QED
      BY <3>1 DEF ToSet
  <2>3. ASSUME NEW i \in DOMAIN page PROVE page[i] \in ToSet(new)
    <3> DEFINE k == i + Len(old)
    <3>1. k \in DOMAIN new /\ ~(k <= Len(old)) /\ k - Len(old) = i
      BY <1>8
    <3> HIDE DEF k
    <3>2. new[k] = page[i]
      BY <1>8, <3>1
    <3>3. QED
      BY <3>1, <3>2 DEF ToSet
  <2>4. QED
    BY <2>1, <2>2, <2>3 DEF ToSet
<1>11. ASSUME IsInjective(old), ToSet(old) = FirstOfSeq(p, Least(off, N)) \ Lost
       PROVE  IsInjective(new)
  <2>1. ToSet(old) \cap ToSet(page) = {}
    BY <1>3, <1>4, <1>11
  <2> SUFFICES ASSUME NEW i \in DOMAIN new, NEW j \in DOMAIN new, new[i] = new[j] PROVE i = j
    BY DEF IsInjective
  <2>2. i \in Int /\ j \in Int
    BY <1>8
  <2>3. CASE i <= Len(old) /\ j <= Len(old)
    <3>1. i \in DOMAIN old /\ j \in DOMAIN old /\ old[i] = old[j]
      BY <1>8, <2>3
    <3>2. QED
      BY <1>11, <3>1 DEF IsInjective
  <2>4. CASE ~(i <= Len(old)) /\ ~(j <= Len(old))
    <3> DEFINE a == i - Len(old)
               b == j - Len(old)
    <3>1. a \in DOMAIN page /\ b \in DOMAIN page /\ page[a] = page[b]
      BY <1>8, <2>4
    <3>2. a = b
      BY <1>4, <3>1 DEF IsInjective
    <3>3. QED
      BY <1>8, <2>2, <3>2
  <2>5. CASE i <= Len(old) /\ ~(j <= Len(old))
    <3>1. new[i] \in ToSet(old)
      BY <1>8, <2>5 DEF ToSet
    <3>2. j - Len(old) \in DOMAIN page /\ new[j] = page[j - Len(old)]
      BY <1>8, <2>5
    <3>3. new[j] \in ToSet(page)
      BY <3>2 DEF ToSet
    <3>4. QED
      BY <2>1, <3>1, <3>3
  <2>6. CASE ~(i <= Len(old)) /\ j <= Len(old)
    <3>1. new[j] \in ToSet(old)
      BY <1>8, <2>6 DEF ToSet
    <3>2. i - Len(old) \in DOMAIN page /\ new[i] = page[i - Len(old)]
      BY <1>8, <2>6
    <3>3. new[i] \in ToSet(page)
      BY <3>2 DEF ToSet
    <3>4. QED
      BY <2>1, <3>1, <3>3
  <2>7. QED
    BY <2>3, <2>4, <2>5, <2>6
<1>12. QED
  BY <1>3, <1>4, <1>9, <1>10, <1>11 DEF new, page, s, N

\* The control of the job.
LEMMA ControlStep ==
  ASSUME TypeOK, StartInv, EndInv, DoneInv, [Next]_vars
  PROVE  StartInv' /\ EndInv' /\ DoneInv'
<1>1. total \in Nat /\ offset \in Nat /\ BatchSize \in Nat
  BY SizesAssumption DEF TypeOK
<1>2. CASE Schema \/ PreviewConnection \/ PreviewRaises
  <2>1. /\ pc = "browsing" /\ pc' \in {"listed", "counting"} /\ offset' = offset /\ got' = got
    BY <1>2 DEF Schema, PreviewConnection, PreviewRaises
  <2>2. QED
    BY <2>1 DEF StartInv, EndInv, DoneInv
<1>3. CASE CountTotal
  <2>1. pc = "counting" /\ pc' = Loop(0, total') /\ offset' = offset
    BY <1>3 DEF CountTotal
  <2>2. total' \in Nat
    <3>1. PICK c \in Counts(Asked) : total' = c.rows
      BY <1>3 DEF CountTotal
    <3>2. QED
      BY <3>1, CountIs DEF TypeOK, Given
  <2>3. QED
    BY <2>1, <2>2 DEF StartInv, EndInv, DoneInv, Loop
<1>4. CASE FetchPage
  <2>1. pc' = Loop(offset', total) /\ offset' = offset + BatchSize /\ total' = total
    BY <1>4 DEF FetchPage
  <2>2. QED
    BY <1>1, <2>1 DEF StartInv, EndInv, DoneInv, Loop
<1>5. CASE CallRaises
  BY <1>5 DEF CallRaises, StartInv, EndInv, DoneInv
<1>6. CASE UNCHANGED vars
  BY <1>6 DEF vars, StartInv, EndInv, DoneInv
<1>7. QED
  BY <1>2, <1>3, <1>4, <1>5, <1>6 DEF Next

\* The loop of the job.
LEMMA LoopStep ==
  ASSUME TypeOK, LoopInv, OffsetInv, EndInv, StartInv, [Next]_vars
  PROVE  LoopInv'
<1>1. Given /\ BatchSize \in Nat \ {0} /\ offset \in Nat /\ total \in Nat /\ got \in Seq(Rows)
  BY SizesAssumption DEF TypeOK, Given
<1> DEFINE S == Found(Asked)
<1>2. /\ Found(Asked)' = S /\ PageOrders(Found(Asked))' = PageOrders(S)
      /\ TsCol' = TsCol /\ Lost' = Lost /\ SmallBucket' = SmallBucket /\ Ordered' = Ordered
      /\ engine' = engine /\ table' = table
  BY GivenKept, GivenStays DEF givenVars
<1>3. SUFFICES ASSUME pc' \in {"fetching", "done"}, "export" \notin swallowed', SmallBucket
               PROVE  /\ total' = Cardinality(S)
                      /\ offset' = 0 => got' = <<>>
                      /\ (engine = "clickhouse" => table.broken = {}) => Len(got') = Least(offset', total')
                      /\ TsCol = "missing" /\ engine # "trino" => offset' = 0
                      /\ TsCol # "missing" /\ offset' # 0 /\ Ordered =>
                           \E p \in PageOrders(S) :
                             IsInjective(got') /\ ToSet(got') = FirstOfSeq(p, Least(offset', total')) \ Lost
  BY <1>2 DEF LoopInv
<1>4. "export" \notin swallowed
  BY <1>3, SwallowedGrows
<1> HIDE DEF S
<1>5. CASE CountTotal
  <2>1. pc = "counting" /\ offset' = offset /\ got' = got
    BY <1>5 DEF CountTotal
  <2>2. offset' = 0 /\ got' = <<>>
    BY <2>1 DEF StartInv
  <2>3. PICK c \in Counts(Asked) : total' = c.rows /\ Note("export", c.ok)
    BY <1>5 DEF CountTotal
  <2>4. c.ok
    BY <1>3, <2>3 DEF Note
  <2>5. total' = Cardinality(S) /\ total' \in Nat
    BY <1>1, <1>3, <2>3, <2>4, CountIs DEF S
  <2>6. Len(got') = Least(offset', total')
    BY <2>2, <2>5 DEF Least
  <2>7. QED
    BY <2>2, <2>5, <2>6
<1>6. CASE FetchPage
  <2>1. /\ pc = "fetching" /\ ~MustRaise(Asked, TsCol)
        /\ total' = total /\ offset' = offset + BatchSize
    BY <1>6 DEF FetchPage
  <2>2. PICK r \in FetchPages(Asked, offset) : got' = got \o r.rows /\ Note("export", r.ok)
    BY <1>6 DEF FetchPage
  <2>3. PICK k \in Nat : offset = k * BatchSize
    BY DEF OffsetInv
  <2>4. r.ok
    BY <1>3, <2>2 DEF Note
  <2>5. r.rows \in Seq(Rows) /\ (TsCol = "missing" => engine = "trino" \/ S = {})
    BY <1>1, <1>3, <2>1, <2>3, <2>4, PageIs DEF S
  <2>6. PICK p \in PageOrders(S) : r.rows = Kept(Slice(p, offset, BatchSize))
    BY <1>1, <1>3, <2>1, <2>3, <2>4, PageIs DEF S
  <2>7. /\ total = Cardinality(S)
        /\ offset = 0 => got = <<>>
        /\ (engine = "clickhouse" => table.broken = {}) => Len(got) = Least(offset, total)
        /\ TsCol # "missing" /\ offset # 0 /\ Ordered =>
             \E o \in PageOrders(S) :
               IsInjective(got) /\ ToSet(got) = FirstOfSeq(o, Least(offset, total)) \ Lost
    BY <1>3, <1>4, <2>1 DEF LoopInv, S
  <2>8. offset < total /\ offset' # 0
    BY <1>1, <2>1 DEF EndInv
  <2>9. S # {}
    <3>1. S = {} => total = 0
      BY <2>7, FS_EmptySet
    <3>2. total # 0
      BY <1>1, <2>8
    <3>3. QED
      BY <3>1, <3>2
  <2>10. S \in SUBSET Keys /\ IsFiniteSet(S)
    BY <1>1, FoundIn DEF S
  <2>11. p \in SetToSeqs(S)
    BY <1>1, <2>6, <2>10, PageOrdersAre
  <2>12. /\ S \cap Lost = {} /\ Len(got) = Least(offset, total) =>
               Len(got') = Least(offset', total')
         /\ IsInjective(got) /\ ToSet(got) = FirstOfSeq(p, Least(offset, total)) \ Lost =>
               IsInjective(got') /\ ToSet(got') = FirstOfSeq(p, Least(offset', total')) \ Lost
    <3> DEFINE page == Kept(Slice(p, offset, BatchSize))
    <3>1. /\ page \in Seq(Rows) /\ IsFiniteSet(S) /\ p \in SetToSeqs(S)
          /\ offset \in Nat /\ BatchSize \in Nat \ {0} /\ got \in Seq(Rows)
      BY <1>1, <2>5, <2>6, <2>10, <2>11
    <3>2. /\ S \cap Lost = {} /\ Len(got) = Least(offset, Cardinality(S)) =>
               Len(got \o page) = Least(offset + BatchSize, Cardinality(S))
          /\ IsInjective(got) /\ ToSet(got) = FirstOfSeq(p, Least(offset, Cardinality(S))) \ Lost =>
               /\ IsInjective(got \o page)
               /\ ToSet(got \o page) = FirstOfSeq(p, Least(offset + BatchSize, Cardinality(S))) \ Lost
      BY <3>1, PageMore
    <3>3. got' = got \o page /\ offset' = offset + BatchSize /\ total' = total /\ total = Cardinality(S)
      BY <2>1, <2>2, <2>6, <2>7
    <3> HIDE DEF page
    <3>4. QED
      BY <3>2, <3>3
  <2>13. ASSUME engine = "clickhouse" => table.broken = {} PROVE Len(got') = Least(offset', total')
    <3>1. S \cap Lost = {}
      BY <2>13 DEF Lost
    <3>2. QED
      BY <2>7, <2>12, <2>13, <3>1
  <2>14. ASSUME TsCol # "missing", Ordered
         PROVE  IsInjective(got') /\ ToSet(got') = FirstOfSeq(p, Least(offset', total')) \ Lost
    <3>1. CASE offset = 0
      <4>1. got = <<>> /\ Least(offset, total) = 0
        BY <1>1, <2>7, <3>1 DEF Least
      <4>2. IsInjective(got) /\ ToSet(got) = {}
        BY <4>1 DEF IsInjective, ToSet
      <4>3. FirstOfSeq(p, Least(offset, total)) = {}
        BY <4>1 DEF FirstOfSeq
      <4>4. QED
        BY <2>12, <4>2, <4>3
    <3>2. CASE offset # 0
      <4>1. PICK o \in PageOrders(S) :
              IsInjective(got) /\ ToSet(got) = FirstOfSeq(o, Least(offset, total)) \ Lost
        BY <2>7, <2>14, <3>2
      <4>2. p = o
        BY <1>1, <2>6, <2>10, <2>14, PageOrdersAre
      <4>3. QED
        BY <2>12, <4>1, <4>2
    <3>3. QED
      BY <3>1, <3>2
  <2>15. TsCol = "missing" => engine = "trino"
    BY <2>5, <2>9
  <2>16. QED
    BY <2>1, <2>6, <2>7, <2>8, <2>13, <2>14, <2>15
<1>7. CASE Schema \/ PreviewConnection \/ PreviewRaises \/ CallRaises
  <2>1. pc' \in {"listed", "counting", "failed"}
    BY <1>7 DEF Schema, PreviewConnection, PreviewRaises, CallRaises
  <2>2. QED
    BY <1>3, <2>1
<1>8. CASE UNCHANGED vars
  <2>1. pc' = pc /\ total' = total /\ offset' = offset /\ got' = got
    BY <1>8 DEF vars
  <2>2. pc \in {"fetching", "done"}
    BY <1>3, <2>1
  <2>3. /\ total = Cardinality(S)
        /\ offset = 0 => got = <<>>
        /\ (engine = "clickhouse" => table.broken = {}) => Len(got) = Least(offset, total)
        /\ TsCol = "missing" /\ engine # "trino" => offset = 0
        /\ TsCol # "missing" /\ offset # 0 /\ Ordered =>
             \E o \in PageOrders(S) :
               IsInjective(got) /\ ToSet(got) = FirstOfSeq(o, Least(offset, total)) \ Lost
    BY <1>3, <1>4, <2>2 DEF LoopInv, S
  <2>4. QED
    BY <2>1, <2>3
<1>9. QED
  BY <1>5, <1>6, <1>7, <1>8 DEF Next

LEMMA Initially == Init => Inv
<1> SUFFICES ASSUME Init PROVE Inv
  OBVIOUS
<1>1. TypeOK
  BY DEF Init, TypeOK
<1>2. OffsetInv
  <2>1. offset = 0 * BatchSize /\ 0 \in Nat
    BY SizesAssumption DEF Init
  <2>2. QED
    BY <2>1 DEF OffsetInv
<1>3. LoopInv /\ EndInv /\ DoneInv /\ StartInv /\ ShownInv
  BY DEF Init, LoopInv, EndInv, DoneInv, StartInv, ShownInv
<1>4. SchemaSeesFields
  BY NullAssumption DEF Init, SchemaSeesFields
<1>5. QED
  BY <1>1, <1>2, <1>3, <1>4 DEF Inv

LEMMA Inductive == Inv /\ [Next]_vars => Inv'
<1> SUFFICES ASSUME Inv, [Next]_vars PROVE Inv'
  OBVIOUS
<1>1. /\ TypeOK /\ LoopInv /\ OffsetInv /\ EndInv /\ DoneInv /\ StartInv /\ ShownInv /\ SchemaSeesFields
      /\ Given
  BY DEF Inv, TypeOK, Given
<1>2. TypeOK' /\ OffsetInv'
  BY <1>1, TypeStep
<1>3. StartInv' /\ EndInv' /\ DoneInv'
  BY <1>1, ControlStep
<1>4. LoopInv'
  BY <1>1, LoopStep
<1>5. ShownInv' /\ SchemaSeesFields'
  BY <1>1, ShownStep, SchemaStep
<1>6. QED
  BY <1>2, <1>3, <1>4, <1>5 DEF Inv

LEMMA Invariance == Spec => []Inv
BY Initially, Inductive, PTL DEF Spec

-----------------------------------------------------------------------------
(* The theorems                                                            *)

\* What the user asked for is what the statements find, but for broken lines.
LEMMA WantedIs ==
  ASSUME Given, OneFormat, engine # "trino"
  PROVE  Found(Asked) \ Lost = Wanted
<1>1. /\ engine \in {"clickhouse", "langfuse", "s3"}
      /\ request \in RequestType /\ Saved \in Names
  BY EngineIs, GivenIs, DataAssumption
<1>2. TsCol = Column
  <2> DEFINE name == IF request.field = NULL THEN Saved ELSE request.field
  <2>1. name \in {"timestamp", "created", "not an identifier", "missing", ""}
    BY <1>1 DEF RequestType, Names, Columns
  <2>2. TsCol = (IF engine = "langfuse" THEN "timestamp" ELSE SafeTsCol(name))
    BY DEF TsCol
  <2>3. Column = (IF engine = "langfuse" \/ name = "not an identifier" THEN "timestamp" ELSE name)
    BY DEF Column
  <2> HIDE DEF name
  <2>4. QED
    BY <2>1, <2>2, <2>3 DEF SafeTsCol, SafeIdent, Columns
<1>3. \A t : Sent(t) = Bound(t)
  BY DEF Sent, Bound
<1>4. Matching(Asked) = {r \in Keys : InWindow(r) /\ (request.query /\ engine # "s3" => r \in table.hits)}
  <2>1. Asked.query = request.query /\ Asked.start = request.start /\ Asked.end = request.end
    BY DEF Asked
  <2>2. ASSUME NEW r \in Keys
        PROVE  InWindow(r) <=>
                 /\ Column # "" /\ request.start # NULL => table.time[Column][r] >= Bound(request.start)
                 /\ Column # "" /\ request.end # NULL => table.time[Column][r] < Bound(request.end)
    BY DEF InWindow
  <2>3. Matching(Asked) =
          {r \in Keys :
             /\ request.query /\ engine # "s3" => r \in table.hits
             /\ Column # "" /\ request.start # NULL => table.time[Column][r] >= Bound(request.start)
             /\ Column # "" /\ request.end # NULL => table.time[Column][r] < Bound(request.end)}
    BY <1>2, <1>3, <2>1 DEF Matching
  <2>4. QED
    BY <2>2, <2>3
<1>5. CASE engine = "clickhouse"
  BY <1>4, <1>5 DEF Found, Lost, Wanted, Readable
<1>6. CASE engine = "langfuse"
  BY <1>4, <1>6 DEF Found, Lost, Wanted, Readable
<1>7. CASE engine = "s3"
  <2>1. Found(Asked) = Matching(Asked) \ table.broken
    <3>1. Matching(Asked) \in SUBSET Keys /\ Found(Asked) \in SUBSET Keys
      BY MatchingIn, FoundIn
    <3>2. CASE Keys = {}
      BY <3>1, <3>2
    <3>3. CASE Keys # {}
      <4>1. /\ \A k \in Keys : table.format[k] \in ToSet(table.format)
            /\ \A f \in ToSet(table.format) : \E i \in DOMAIN Readers : Readers[i] = f
        BY <1>7 DEF Keys, ToSet, OneFormat
      <4>2. Used # {}
        BY <3>3, <4>1 DEF Used, OfFormat
      <4>3. Min(Used) \in Used
        <5>1. DOMAIN Readers \subseteq Nat
          BY DataAssumption
        <5>2. Used \subseteq Nat
          BY <5>1 DEF Used
        <5>3. QED
          BY <4>2, <5>2, MinOfSet
      <4>4. PICK k \in Keys : table.format[k] = Readers[Min(Used)]
        BY <4>3 DEF Used, OfFormat
      <4>5. \A m \in Keys : table.format[m] = table.format[k]
        <5>1. table.format \in Surjection(Keys, ToSet(table.format))
          <6>1. table.format \in [Keys -> ToSet(table.format)]
            <7>1. table.format \in Seq(STRING)
              BY DataAssumption DEF Given, TableType
            <7>2. table.format = [m \in Keys |-> table.format[m]]
              BY <7>1 DEF Keys
            <7>3. \A m \in Keys : table.format[m] \in ToSet(table.format)
              BY <4>1
            <7>4. QED
              BY <7>2, <7>3
          <6>2. QED
            BY <6>1 DEF Surjection, ToSet, Keys
        <5>2. IsFiniteSet(ToSet(table.format)) /\ Cardinality(ToSet(table.format)) \in Nat
          BY <5>1, GivenIs, FS_Surjection, FS_CardinalityType
        <5>3. Cardinality(ToSet(table.format)) <= 1
          BY <1>7 DEF OneFormat
        <5>4. Cardinality(ToSet(table.format)) # 0
          BY <4>1, <5>2, FS_EmptySet
        <5>5. Cardinality(ToSet(table.format)) = 1
          BY <5>2, <5>3, <5>4
        <5>6. PICK f : ToSet(table.format) = {f}
          BY <5>2, <5>5, FS_Singleton
        <5>7. QED
          BY <4>1, <5>6
      <4>6. OfFormat(Readers[Min(Used)], Keys) = Keys
        BY <4>4, <4>5 DEF OfFormat
      <4>7. QED
        BY <1>7, <3>1, <4>2, <4>6 DEF Found
    <3>4. QED
      BY <3>2, <3>3
  <2>2. QED
    BY <1>4, <1>7, <2>1 DEF Lost, Wanted, Readable
<1>8. QED
  BY <1>1, <1>5, <1>6, <1>7

\* What the job has read, in the end, of the orders that stay.
LEMMA ReadIs ==
  ASSUME Inv, Exported, SmallBucket, Ordered
  PROVE  IsInjective(got) /\ ToSet(got) = Found(Asked) \ Lost
<1> DEFINE S == Found(Asked)
<1>1. Given /\ total \in Nat /\ offset \in Nat /\ total <= offset /\ LoopInv /\ engine # "trino"
  BY DEF Inv, TypeOK, Given, DoneInv, Exported, Ordered
<1>2. /\ total = Cardinality(S)
      /\ offset = 0 => got = <<>>
      /\ TsCol = "missing" => offset = 0
      /\ TsCol # "missing" /\ offset # 0 =>
           \E p \in PageOrders(S) :
             IsInjective(got) /\ ToSet(got) = FirstOfSeq(p, Least(offset, total)) \ Lost
  BY <1>1 DEF LoopInv, Exported
<1>3. S \in SUBSET Keys /\ IsFiniteSet(S)
  BY <1>1, FoundIn
<1> HIDE DEF S
<1>4. CASE offset = 0
  <2>1. S = {}
    BY <1>1, <1>2, <1>3, <1>4, FS_EmptySet
  <2>2. got = <<>>
    BY <1>2, <1>4
  <2>3. IsInjective(got) /\ ToSet(got) = {}
    BY <2>2 DEF IsInjective, ToSet
  <2>4. QED
    BY <2>1, <2>3 DEF S
<1>5. CASE offset # 0
  <2>1. PICK p \in PageOrders(S) :
          IsInjective(got) /\ ToSet(got) = FirstOfSeq(p, Least(offset, total)) \ Lost
    BY <1>2, <1>5
  <2>2. Least(offset, total) = total
    BY <1>1 DEF Least
  <2>3. p \in SetToSeqs(S)
    BY <1>1, <1>3, PageOrdersAre
  <2>4. DOMAIN p = 1..total /\ ToSet(p) = S
    BY <1>2, <1>3, <2>3, SeqsAre
  <2>5. FirstOfSeq(p, total) = S
    BY <2>4 DEF FirstOfSeq, ToSet
  <2>6. QED
    BY <2>1, <2>2, <2>5 DEF S
<1>6. QED
  BY <1>4, <1>5

\* ExportIsWhole: a completed export of a source at rest has each row the user asked for
\* once, for every source, engine and page size, and over failing listings, when the
\* pages have an order that stays and a bucket is small and of one format; ClickHouse
\* takes the window in whole seconds.
THEOREM ExportHolds == Spec => []ExportIsWhole
<1>1. Inv => ExportIsWhole
  <2> SUFFICES ASSUME Inv, Exported, Ordered, SmallBucket, OneFormat
               PROVE  IsInjective(got) /\ ToSet(got) = Wanted
    BY DEF ExportIsWhole
  <2>1. IsInjective(got) /\ ToSet(got) = Found(Asked) \ Lost
    BY ReadIs
  <2>2. Given /\ engine # "trino"
    BY DEF Inv, TypeOK, Given, Ordered
  <2>3. QED
    BY <2>1, <2>2, WantedIs
<1>2. QED
  BY <1>1, Invariance, PTL

\* And as many rows as were counted, whatever the order.
THEOREM CountHolds == Spec => []AsManyAsCounted
<1>1. Inv => AsManyAsCounted
  <2> SUFFICES ASSUME Inv, Exported, SmallBucket, engine = "clickhouse" => table.broken = {}
               PROVE  Len(got) = total
    BY DEF AsManyAsCounted
  <2>1. Len(got) = Least(offset, total) /\ total <= offset /\ total \in Nat /\ offset \in Nat
    BY DEF Inv, TypeOK, LoopInv, DoneInv, Exported
  <2>2. QED
    BY <2>1 DEF Least
<1>2. QED
  BY <1>1, Invariance, PTL

\* The preview is of the export: the newest of the rows it has, and their number.
THEOREM PreviewHolds == Spec => []PreviewIsExported
<1>1. Inv => PreviewIsExported
  <2> SUFFICES ASSUME Inv, Exported, shown # NULL, "preview" \notin swallowed, Ordered, SmallBucket
               PROVE  /\ told = total
                      /\ ToSet(shown) \subseteq ToSet(got)
                      /\ Readable = Keys => Len(shown) = Min({PreviewLimit, total})
                      /\ Readable = Keys /\ SortCol # "" =>
                           \A r \in ToSet(shown), s \in ToSet(got) \ ToSet(shown) :
                             table.time[SortCol][s] <= table.time[SortCol][r]
    BY DEF PreviewIsExported
  <2> DEFINE S == Found(Asked)
             N == Cardinality(S)
             last == Least(PreviewLimit, N)
  <2>1. Given /\ ShownInv /\ LoopInv /\ pc = "done" /\ "export" \notin swallowed
    BY DEF Inv, TypeOK, Given, Exported
  <2>2. PICK p \in Newest(S, SortCol) : shown = Kept(Slice(p, 0, PreviewLimit))
    BY <2>1 DEF ShownInv
  <2>3. told = N /\ total = N
    BY <2>1 DEF ShownInv, LoopInv
  <2>4. ToSet(got) = S \ Lost
    BY ReadIs
  <2>5. S \in SUBSET Keys /\ IsFiniteSet(S) /\ PreviewLimit \in Nat
    BY <2>1, FoundIn, SizesAssumption
  <2>6. /\ p \in SetToSeqs(S)
        /\ SortCol # "" =>
             \A i, j \in 1..N : i < j => table.time[SortCol][p[j]] <= table.time[SortCol][p[i]]
    BY <2>5, NewestIs
  <2>7. p \in Seq(S) /\ Len(p) = N /\ N \in Nat /\ IsInjective(p) /\ DOMAIN p = 1..N /\ ToSet(p) = S
    BY <2>5, <2>6, SeqsAre
  <2> DEFINE page == Slice(p, 0, PreviewLimit)
  <2> HIDE DEF S, N
  <2>8. last \in Nat /\ last <= N /\ Least(0, N) = 0 /\ Least(0 + PreviewLimit, N) = last
    BY <2>5, <2>7 DEF Least
  <2>9. page \in Seq(S) /\ IsInjective(page) /\ Len(page) = last
    <3>1. page \in Seq(S) /\ IsInjective(page)
      BY <2>5, <2>7, SliceIs, SliceOf
    <3>2. Len(page) = Least(0 + PreviewLimit, Len(p)) - Least(0, Len(p))
      BY <2>5, <2>7, SliceIs
    <3>3. Len(page) = last - 0
      BY <2>7, <2>8, <3>2
    <3>4. QED
      BY <2>8, <3>1, <3>3
  <2>10. ToSet(page) = FirstOfSeq(p, last)
    <3>1. FirstOfSeq(p, Least(0 + PreviewLimit, Len(p))) = FirstOfSeq(p, Least(0, Len(p))) \cup ToSet(page)
      BY <2>5, <2>7, SliceOf
    <3>2. FirstOfSeq(p, 0) = {}
      BY DEF FirstOfSeq
    <3>3. QED
      BY <2>7, <2>8, <3>1, <3>2
  <2> HIDE DEF last, page
  <2>11. /\ ToSet(shown) = ToSet(page) \ Lost
         /\ ToSet(page) \cap Lost = {} => Len(shown) = Len(page)
    BY <2>2, <2>9, KeptIs DEF page
  <2>12. ToSet(page) \subseteq S
    BY <2>9 DEF ToSet
  <2>13. Readable = Keys => S \cap Lost = {}
    BY <2>5 DEF Readable, Lost
  <2>14. Readable = Keys => Len(shown) = Min({PreviewLimit, total})
    BY <2>3, <2>5, <2>7, <2>9, <2>11, <2>12, <2>13, MinOfTwo DEF last
  <2>15. ASSUME Readable = Keys, SortCol # "",
                NEW r \in ToSet(shown), NEW s \in ToSet(got) \ ToSet(shown)
         PROVE  table.time[SortCol][s] <= table.time[SortCol][r]
    <3>1. ToSet(shown) = FirstOfSeq(p, last) /\ ToSet(got) = S
      BY <2>4, <2>10, <2>11, <2>12, <2>13, <2>15
    <3>2. PICK i \in 1..last : p[i] = r
      BY <3>1 DEF FirstOfSeq
    <3>3. PICK j \in 1..N : p[j] = s
      BY <2>7, <3>1 DEF ToSet
    <3>4. j \notin 1..last
      BY <3>1, <3>3 DEF FirstOfSeq
    <3>5. i \in 1..N /\ i < j
      BY <2>7, <2>8, <3>4
    <3>6. QED
      BY <2>6, <2>15, <3>2, <3>3, <3>5
  <2>16. QED
    BY <2>3, <2>4, <2>11, <2>12, <2>14, <2>15
<1>2. QED
  BY <1>1, Invariance, PTL

\* SchemaSeesFields: the schema of a source with rows is not empty, whichever parts of
\* its window fail, unless the query without a window fails in silence.
THEOREM SchemaHolds == Spec => []SchemaSeesFields
<1>1. Inv => SchemaSeesFields
  BY DEF Inv
<1>2. QED
  BY <1>1, Invariance, PTL

\* Every variable has its type.
THEOREM TypeCorrect == Spec => []TypeOK
<1>1. Inv => TypeOK
  BY DEF Inv
<1>2. QED
  BY <1>1, Invariance, PTL
=============================================================================
