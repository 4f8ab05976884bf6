------------------------ MODULE RecordPipelineProofs ------------------------
(***************************************************************************)
(* The first part is about Sampling alone: a sample of a given size is the *)
(* first records of the source, and exact; one of a ratio is evenly        *)
(* spaced. The second is about RecordPipeline, for all jobs: what a run    *)
(* keeps is such a sample, and what it posts refers to files that are      *)
(* there.                                                                  *)
(***************************************************************************)
EXTENDS RecordPipeline, SequenceTheorems, NaturalsInduction, WellFoundedInduction, TLAPS

\* What integer division means, as a fact about one quotient.
LEMMA Quotient ==
  ASSUME NEW a \in Nat, NEW b \in Nat \ {0}
  PROVE  /\ a \div b \in Nat
         /\ b * (a \div b) <= a
         /\ a < b * ((a \div b) + 1)
  OBVIOUS

LEMMA OneQuotient ==
  ASSUME NEW a \in Nat, NEW b \in Nat \ {0}, b <= a, a < 2 * b
  PROVE  a \div b = 1
<1>1. /\ a \div b \in Nat
      /\ b * (a \div b) <= a
      /\ a < b * ((a \div b) + 1)
  BY Quotient
<1>2. a \div b < 2
  BY <1>1
<1>3. a \div b > 0
  BY <1>1
<1>4. QED
  BY <1>1, <1>2, <1>3

\* Until the size is reached the systematic step is one.
LEMMA StepIsOne ==
  ASSUME sampling \in Samplings, NEW n \in Nat \ {0}, n <= Size
  PROVE  SizeStep(n) = 1
<1> DEFINE num == sampling.num
           den == sampling.den
<1>1. num \in Nat \ {0} /\ den \in Nat \ {0}
  BY SamplingsAssumption
<1>2. Size \in Nat /\ den * Size <= num
  BY <1>1, Quotient DEF Size
<1>3. n * den <= den * Size
  BY <1>1, <1>2
<1>4. n * den \in Nat \ {0} /\ n * den <= num
  BY <1>1, <1>2, <1>3
<1>5. Ceil(n * den, num) = 1
  <2>1. n * den + num - 1 \in Nat /\ num <= n * den + num - 1 /\ n * den + num - 1 < 2 * num
    BY <1>1, <1>4
  <2>2. QED
    BY <2>1, <1>1, OneQuotient DEF Ceil
<1>6. QED
  BY <1>5 DEF SizeStep, AtLeastOne

-----------------------------------------------------------------------------
\* The inductive invariant: the counters, and the set of positions kept.
Inv == SamplingType /\ FirstOfSize /\ SizeIsExact

LEMMA SizeIsNat == ASSUME sampling \in Samplings PROVE Size \in Nat /\ (IsSize => Size > 0)
<1>1. sampling.num \in Nat \ {0} /\ sampling.den \in Nat \ {0}
  BY SamplingsAssumption
<1>2. /\ Size \in Nat
      /\ sampling.num < sampling.den * (Size + 1)
  BY <1>1, Quotient DEF Size
<1>3. CASE Size = 0
  BY <1>1, <1>2, <1>3 DEF IsSize
<1>4. QED
  BY <1>2, <1>3

LEMMA InvInit == SamplingInit => Inv
<1> SUFFICES ASSUME SamplingInit PROVE Inv
  OBVIOUS
<1>1. Size \in Nat
  BY SizeIsNat DEF SamplingInit
<1>2. SamplingType
  BY DEF SamplingInit, SamplingType
<1>3. FirstOfSize
  BY <1>1 DEF SamplingInit, FirstOfSize
<1>4. SizeIsExact
  BY <1>1 DEF SamplingInit, SizeIsExact, AtMost
<1>5. QED
  BY <1>2, <1>3, <1>4 DEF Inv

LEMMA InvFeed ==
  ASSUME Inv, NEW key \in Keys, NEW keep \in BOOLEAN, Feed(key, keep)
  PROVE  Inv'
<1> USE DEF Inv, SamplingType
<1>1. /\ Size \in Nat /\ Size' = Size /\ IsSize' = IsSize
      /\ sampling' = sampling /\ seen' = seen + 1 /\ seen \in Nat
  BY SizeIsNat DEF Feed, Size, IsSize
<1>2. SamplingType'
  <2>1. kept' \in Nat /\ groupSeen' \in [Keys -> Nat] /\ groupKept' \in [Keys -> Nat]
    BY DEF Feed
  <2>2. picked' \subseteq 1..seen'
    BY <1>1 DEF Feed
  <2>3. QED
    BY <1>1, <2>1, <2>2
<1>3. ASSUME IsSize, sampling.method # "stratified"
      PROVE  keep <=> kept < Size
  <2>1. CASE sampling.method = "random"
    BY <1>3, <2>1 DEF Feed, Answers, RandomKeeps
  <2>2. CASE sampling.method = "systematic"
    <3>1. keep <=> (seen' - 1) % SizeStep(seen') = 0 /\ kept < Size
      BY <1>3, <2>2 DEF Feed, Answers, SystematicKeeps
    <3>2. CASE seen < Size
      <4>1. SizeStep(seen') = 1
        BY <1>1, <3>2, StepIsOne
      <4>2. (seen' - 1) % 1 = 0
        BY <1>1
      <4>3. QED
        BY <3>1, <4>1, <4>2
    <3>3. CASE ~(seen < Size)
      BY <1>1, <1>3, <3>1, <3>3 DEF SizeIsExact, AtMost
    <3>4. QED
      BY <3>2, <3>3
  <2>3. QED
    BY <1>3, <2>1, <2>2, SamplingsAssumption DEF Methods
<1>4. FirstOfSize'
  <2> SUFFICES ASSUME IsSize, sampling.method # "stratified"
               PROVE  picked' = {n \in 1..seen' : n <= Size}
    BY <1>1 DEF FirstOfSize
  <2>1. picked = {n \in 1..seen : n <= Size} /\ kept = AtMost(seen)
    BY DEF FirstOfSize, SizeIsExact
  <2>2. CASE seen < Size
    <3>1. keep
      BY <1>1, <1>3, <2>1, <2>2 DEF AtMost
    <3>2. QED
      BY <1>1, <2>1, <2>2, <3>1 DEF Feed
  <2>3. CASE ~(seen < Size)
    <3>1. ~keep
      BY <1>1, <1>3, <2>1, <2>3 DEF AtMost
    <3>2. QED
      BY <1>1, <2>1, <2>3, <3>1 DEF Feed
  <2>4. QED
    BY <2>2, <2>3
<1>5. SizeIsExact'
  <2>1. CASE IsSize /\ sampling.method # "stratified"
    <3>1. (keep <=> kept < Size) /\ kept = AtMost(seen)
      BY <1>3, <2>1 DEF SizeIsExact
    <3>2. kept' = AtMost(seen')
      <4>1. CASE keep
        BY <1>1, <3>1, <4>1 DEF Feed, AtMost
      <4>2. CASE ~keep
        BY <1>1, <3>1, <4>2 DEF Feed, AtMost
      <4>3. QED
        BY <4>1, <4>2
    <3>3. QED
      BY <1>1, <2>1, <3>2 DEF SizeIsExact, AtMost
  <2>2. CASE IsSize /\ sampling.method = "stratified"
    <3>1. keep <=> groupKept[key] < Size
      BY <2>2 DEF Feed, Answers, StratifiedKeeps
    <3>2. /\ groupSeen' = [groupSeen EXCEPT ![key] = @ + 1]
          /\ groupKept' = IF keep THEN [groupKept EXCEPT ![key] = @ + 1] ELSE groupKept
      BY <2>2 DEF Feed
    <3>3. ASSUME NEW k \in Keys PROVE groupKept'[k] = AtMost(groupSeen'[k])
      <4>1. groupKept[k] = AtMost(groupSeen[k]) /\ groupSeen[k] \in Nat /\ groupKept[k] \in Nat
        BY <2>2 DEF SizeIsExact
      <4>2. CASE k # key
        BY <3>2, <4>1, <4>2
      <4>3. CASE k = key /\ keep
        BY <1>1, <3>1, <3>2, <4>1, <4>3 DEF AtMost
      <4>4. CASE k = key /\ ~keep
        BY <1>1, <3>1, <3>2, <4>1, <4>4 DEF AtMost
      <4>5. QED
        BY <4>2, <4>3, <4>4
    <3>4. QED
      BY <1>1, <2>2, <3>3 DEF SizeIsExact, AtMost
  <2>3. CASE ~IsSize
    BY <1>1, <2>3 DEF SizeIsExact
  <2>4. QED
    BY <2>1, <2>2, <2>3
<1>6. QED
  BY <1>2, <1>4, <1>5

LEMMA InvStep == Inv /\ [SamplingNext]_samplingVars => Inv'
<1> SUFFICES ASSUME Inv, [SamplingNext]_samplingVars PROVE Inv'
  OBVIOUS
<1>1. CASE SamplingNext
  BY <1>1, InvFeed DEF SamplingNext
<1>2. CASE UNCHANGED samplingVars
  BY <1>2 DEF Inv, samplingVars, bufferVars, SamplingType, FirstOfSize, SizeIsExact, AtMost, Size, IsSize
<1>3. QED
  BY <1>1, <1>2

\* A sample of a given size is the first records of the source, for every size,
\* method and length of the source.
THEOREM SampleIsPrefix == SamplingSpec => []FirstOfSize
<1>1. Inv => FirstOfSize
  BY DEF Inv
<1>2. QED
  BY <1>1, InvInit, InvStep, PTL DEF SamplingSpec

\* And it has that many records, or that many of each group.
THEOREM SampleIsExact == SamplingSpec => []SizeIsExact
<1>1. Inv => SizeIsExact
  BY DEF Inv
<1>2. QED
  BY <1>1, InvInit, InvStep, PTL DEF SamplingSpec
-----------------------------------------------------------------------------
(* Systematic ratios                                                       *)

\* A number by its quotient and its remainder.
LEMMA Remainder ==
  ASSUME NEW a \in Nat, NEW b \in Nat \ {0}
  PROVE  a \div b \in Nat /\ a % b \in 0..(b - 1) /\ a = b * (a \div b) + (a % b)
  OBVIOUS

LEMMA Multiple ==
  ASSUME NEW s \in Nat \ {0}, NEW q \in Nat, NEW p \in Nat, q < p
  PROVE  s * q + s <= s * p
<1>1. PICK d \in Nat : p = q + 1 + d
  <2> WITNESS p - q - 1 \in Nat
  <2> QED
    OBVIOUS
<1>2. s * p = s * q + s + s * d /\ s * d \in Nat
  BY <1>1
<1>3. s * q \in Nat
  OBVIOUS
<1>4. QED
  BY <1>2, <1>3

\* The places with remainder one follow each other at the step.
LEMMA NextPlace ==
  ASSUME NEW s \in Nat, s > 1, NEW m \in Nat, m % s = 1
  PROVE  /\ (m + s) % s = 1
         /\ \A n \in Nat : n % s = 1 /\ m < n => m + s <= n
<1>1. m \div s \in Nat /\ m = s * (m \div s) + 1
  BY Remainder
<1>2. (m + s) % s = 1
  <2> DEFINE p == (m + s) \div s
             r == (m + s) % s
             q == m \div s
  <2>1. p \in Nat /\ r \in 0..(s - 1) /\ m + s = s * p + r
    <3>1. m + s \in Nat /\ s \in Nat \ {0}
      OBVIOUS
    <3>2. QED
      BY <3>1, Remainder
  <2>2. q \in Nat /\ m = s * q + 1
    BY <1>1
  <2> HIDE DEF p, q, r
  <2>3. s * (q + 1) = s * q + s /\ s * (q + 1) \in Nat /\ s * p \in Nat
    BY <2>1, <2>2
  <2>4. s * p + r = s * (q + 1) + 1
    BY <2>1, <2>2, <2>3
  <2>5. ~(p < q + 1)
    BY <2>1, <2>2, <2>3, <2>4, Multiple
  <2>6. ~(q + 1 < p)
    BY <2>1, <2>2, <2>3, <2>4, Multiple
  <2>7. p = q + 1
    BY <2>1, <2>2, <2>5, <2>6
  <2>8. r = 1
    BY <2>1, <2>3, <2>4, <2>7
  <2>9. QED
    BY <2>8 DEF r
<1>3. ASSUME NEW n \in Nat, n % s = 1, m < n PROVE m + s <= n
  <2> DEFINE p == n \div s
             q == m \div s
  <2>1. p \in Nat /\ n = s * p + 1 /\ q \in Nat /\ m = s * q + 1
    BY <1>1, <1>3, Remainder
  <2> HIDE DEF p, q
  <2>2. s * p \in Nat /\ s * q \in Nat
    BY <2>1
  <2>3. q < p
    <3>1. CASE p < q
      BY <1>3, <2>1, <2>2, <3>1, Multiple
    <3>2. CASE p = q
      BY <1>3, <2>1, <3>2
    <3>3. QED
      BY <2>1, <3>1, <3>2
  <2>4. s * q + s <= s * p
    BY <2>1, <2>3, Multiple
  <2>5. QED
    BY <2>1, <2>2, <2>4
<1>4. QED
  BY <1>2, <1>3

\* round is within a half.
LEMMA Rounded ==
  ASSUME NEW a \in Nat, NEW b \in Nat \ {0}
  PROVE  /\ RoundEven(a, b) \in Nat
         /\ 2 * (b * RoundEven(a, b)) \in (2 * a - b)..(2 * a + b)
<1> DEFINE low == a \div b
           rest == a % b
           s == RoundEven(a, b)
<1>1. low \in Nat /\ rest \in 0..(b - 1) /\ a = b * low + rest
  BY Remainder
<1>2. \/ s = low + 1 /\ b <= 2 * rest
      \/ s = low /\ 2 * rest <= b
  <2>1. s = IF 2 * rest > b \/ (2 * rest = b /\ low % 2 = 1) THEN low + 1 ELSE low
    BY DEF RoundEven
  <2> HIDE DEF low, rest, s
  <2>2. QED
    BY <1>1, <2>1
<1> HIDE DEF low, rest, s
<1>3. b * low \in Nat /\ b * (low + 1) = b * low + b
  BY <1>1
<1>4. CASE s = low + 1 /\ b <= 2 * rest
  <2>1. b * s = b * low + b
    BY <1>3, <1>4
  <2>2. QED
    BY <1>1, <1>3, <1>4, <2>1 DEF s
<1>5. CASE s = low /\ 2 * rest <= b
  <2>1. b * s = b * low
    BY <1>5
  <2>2. QED
    BY <1>1, <1>3, <1>5, <2>1 DEF s
<1>6. QED
  BY <1>2, <1>4, <1>5

\* The step of a ratio that keeps a record in two or fewer is 1/ratio to the nearest half.
LEMMA StepIsRatio ==
  ASSUME sampling \in Samplings, RatioStep > 1
  PROVE  /\ RatioStep \in Nat
         /\ 2 * (sampling.num * RatioStep) \in
              (2 * sampling.den - sampling.num)..(2 * sampling.den + sampling.num)
         /\ sampling.num # sampling.den
<1> DEFINE num == sampling.num
           den == sampling.den
           s == RoundEven(den, num)
<1>1. num \in Nat \ {0} /\ den \in Nat \ {0}
  BY SamplingsAssumption
<1>2. s \in Nat /\ 2 * (num * s) \in (2 * den - num)..(2 * den + num)
  BY <1>1, Rounded
<1>3. RatioStep = s
  BY <1>2 DEF RatioStep, AtLeastOne
<1>4. num # den
  <2> SUFFICES ASSUME num = den PROVE FALSE
    OBVIOUS
  <2>1. den \div num = 1 /\ den % num = 0
    <3>1. den \div den = 1
      BY <1>1, OneQuotient
    <3>2. den = den * (den \div den) + (den % den) /\ den % den \in 0..(den - 1)
      BY <1>1, Remainder
    <3>3. QED
      BY <1>1, <3>1, <3>2
  <2>2. s = 1
    BY <1>1, <2>1 DEF RoundEven
  <2>3. QED
    BY <1>3, <2>2
<1>5. QED
  BY <1>2, <1>3, <1>4

\* A systematic ratio keeps the records whose position leaves one.
AtSteps ==
  sampling.method = "systematic" /\ ~IsSize /\ RatioStep > 1 =>
    picked = {n \in 1..seen : n % RatioStep = 1}

LEMMA StepsInit == SamplingInit => AtSteps
  BY DEF SamplingInit, AtSteps

LEMMA StepsKept ==
  ASSUME SamplingType, AtSteps, [SamplingNext]_samplingVars
  PROVE  AtSteps'
<1>1. CASE UNCHANGED samplingVars
  BY <1>1 DEF samplingVars, bufferVars, AtSteps, IsSize, RatioStep
<1>2. ASSUME NEW key \in Keys, NEW keep \in BOOLEAN, Feed(key, keep)
      PROVE  AtSteps'
  <2>1. sampling' = sampling /\ seen' = seen + 1 /\ seen \in Nat /\ sampling \in Samplings
    BY <1>2 DEF Feed, SamplingType
  <2>2. RatioStep' = RatioStep /\ (IsSize' <=> IsSize)
    BY <2>1 DEF RatioStep, IsSize
  <2> SUFFICES ASSUME sampling.method = "systematic", ~IsSize, RatioStep > 1
               PROVE  picked' = {n \in 1..seen' : n % RatioStep = 1}
    BY <2>1, <2>2 DEF AtSteps
  <2>3. keep <=> seen' % RatioStep = 1
    BY <1>2, <2>1, StepIsRatio DEF Feed, Answers, SystematicKeeps
  <2>4. picked = {n \in 1..seen : n % RatioStep = 1}
    BY DEF AtSteps
  <2>5. picked' = IF keep THEN picked \cup {seen'} ELSE picked
    BY <1>2 DEF Feed
  <2>6. 1..seen' = (1..seen) \cup {seen'}
    BY <2>1
  <2>7. QED
    BY <2>3, <2>4, <2>5, <2>6
<1>3. QED
  BY <1>1, <1>2 DEF SamplingNext

\* A systematic ratio takes the first record and then one in every 1/ratio, to the
\* nearest half, for every ratio whose step is above one and every length of the source.
THEOREM SampleIsEven == SamplingSpec => []EvenlySpaced
<1>1. SamplingType /\ AtSteps => EvenlySpaced
  <2> SUFFICES ASSUME SamplingType, AtSteps, sampling.method = "systematic", ~IsSize, RatioStep > 1
               PROVE  /\ seen > 0 => 1 \in picked
                      /\ \A m, n \in picked :
                           Neighbours(m, n) =>
                             2 * sampling.num * (n - m) \in
                               (2 * sampling.den - sampling.num)..(2 * sampling.den + sampling.num)
    BY DEF EvenlySpaced
  <2> DEFINE s == RatioStep
  <2>1. /\ s \in Nat /\ s > 1 /\ seen \in Nat
        /\ sampling.num \in Nat \ {0} /\ sampling.den \in Nat \ {0}
        /\ 2 * (sampling.num * s) \in
             (2 * sampling.den - sampling.num)..(2 * sampling.den + sampling.num)
    BY StepIsRatio, SamplingsAssumption DEF SamplingType
  <2>2. picked = {n \in 1..seen : n % s = 1}
    BY DEF AtSteps
  <2> HIDE DEF s
  <2>3. ASSUME seen > 0 PROVE 1 \in picked
    <3>1. 1 % s = 1
      BY <2>1
    <3>2. QED
      BY <2>1, <2>2, <2>3, <3>1
  <2>4. ASSUME NEW m \in picked, NEW n \in picked, Neighbours(m, n)
        PROVE  n - m = s
    <3>1. m \in 1..seen /\ n \in 1..seen /\ m % s = 1 /\ n % s = 1 /\ m < n
      BY <2>2, <2>4 DEF Neighbours
    <3>2. (m + s) % s = 1 /\ m + s <= n
      BY <2>1, <3>1, NextPlace
    <3>3. m + s \in picked
      BY <2>1, <2>2, <3>1, <3>2
    <3>4. ~(m + s < n)
      BY <2>1, <2>4, <3>1, <3>3 DEF Neighbours
    <3>5. QED
      BY <2>1, <3>1, <3>2, <3>4
  <2>5. ASSUME NEW m \in picked, NEW n \in picked, Neighbours(m, n)
        PROVE  2 * sampling.num * (n - m) \in
                 (2 * sampling.den - sampling.num)..(2 * sampling.den + sampling.num)
    <3>1. n - m = s
      BY <2>4, <2>5
    <3>2. 2 * sampling.num * s = 2 * (sampling.num * s)
      BY <2>1
    <3>3. QED
      BY <2>1, <3>1, <3>2
  <2>6. QED
    BY <2>3, <2>5
<1>2. Inv /\ AtSteps /\ [SamplingNext]_samplingVars => Inv' /\ AtSteps'
  BY InvStep, StepsKept DEF Inv
<1>3. Inv => SamplingType
  BY DEF Inv
<1>4. SamplingInit => Inv /\ AtSteps
  BY InvInit, StepsInit
<1>5. QED
  BY <1>1, <1>2, <1>3, <1>4, PTL DEF SamplingSpec

\* The configuration, the counters and the positions kept have their types.
THEOREM SamplerType == SamplingSpec => []SamplingType
<1>1. Inv => SamplingType
  BY DEF Inv
<1>2. QED
  BY <1>1, InvInit, InvStep, PTL DEF SamplingSpec

-----------------------------------------------------------------------------
\* The record pipeline.

\* A set of numbers up to n has a largest one.
LEMMA LargestOf ==
  ASSUME NEW n \in Nat, NEW S \in SUBSET (1..n), S # {}
  PROVE  (CHOOSE i \in S : \A k \in S : k <= i) \in S
<1> DEFINE T == {n - i : i \in S}
<1>1. T \subseteq Nat /\ T # {}
  <2>1. \A i \in S : n - i \in Nat
    OBVIOUS
  <2>2. QED
    BY <2>1
<1>2. PICK m \in T : \A q \in T : ~(<<q, m>> \in OpToRel(<, Nat))
  BY <1>1, NatLessThanWellFounded, WFMin
<1>3. \A q \in T : ~(q < m)
  BY <1>1, <1>2 DEF OpToRel
<1>4. PICK i \in S : m = n - i
  BY <1>2
<1>5. \A k \in S : k <= i
  <2>1. TAKE k \in S
  <2>2. ~(n - k < n - i)
    BY <1>3, <1>4
  <2>3. QED
    BY <2>2
<1>6. QED
  BY <1>5

\* A sequence with one element more.
LEMMA OneMore ==
  ASSUME NEW s, s \in Seq(ToSet(s)), NEW e
  PROVE  /\ Append(s, e) \in Seq(ToSet(Append(s, e)))
         /\ DOMAIN Append(s, e) = DOMAIN s \cup {Len(s) + 1}
         /\ \A i \in DOMAIN s : Append(s, e)[i] = s[i]
         /\ Append(s, e)[Len(s) + 1] = e
<1> DEFINE t == Append(s, e)
           S == ToSet(s) \cup {e}
<1>1. s \in Seq(S)
  OBVIOUS
<1>2. t \in Seq(S) /\ Len(t) = Len(s) + 1 /\ DOMAIN t = 1..(Len(s) + 1)
  BY <1>1
<1>3. /\ DOMAIN s = 1..Len(s) /\ Len(s) \in Nat
      /\ \A i \in DOMAIN s : t[i] = s[i]
      /\ t[Len(s) + 1] = e
  BY <1>1
<1>4. t \in Seq(ToSet(t))
  <2>1. t \in [1..Len(t) -> S] /\ Len(t) \in Nat
    BY <1>2, LenProperties
  <2>2. t \in [1..Len(t) -> ToSet(t)]
    BY <1>2, <2>1 DEF ToSet
  <2>3. QED
    BY <2>1, <2>2, SeqDef
<1>5. QED
  BY <1>2, <1>3, <1>4

-----------------------------------------------------------------------------
(* Assets                                                                  *)

\* A file that is stored has the content of one of the URLs with its name.
LEMMA StoredIs ==
  ASSUME TypeOK, NEW v, NEW done \in SUBSET UrlFields(v), \A k \in done : Fetchable(v, k)
  PROVE  /\ Stored(v, done) \in [FileNames -> DOMAIN NameOf \cup {NULL}]
         /\ \A f \in FileNames :
              \/ Stored(v, done)[f] = assets[f] /\ \A i \in done : NameOf[UrlAt(v, i).leaf] # f
              \/ \E i \in done : NameOf[UrlAt(v, i).leaf] = f /\ Stored(v, done)[f] = UrlAt(v, i).leaf
<1> DEFINE Of(f) == {i \in done : NameOf[UrlAt(v, i).leaf] = f}
           LastOf(f) == CHOOSE i \in Of(f) : \A k \in Of(f) : k <= i
<1>1. Stored(v, done) = [f \in FileNames |-> IF Of(f) = {} THEN assets[f] ELSE UrlAt(v, LastOf(f)).leaf]
  BY DEF Stored
<1>2. Len(job.urls) \in Nat /\ DOMAIN job.urls = 1..Len(job.urls)
  BY JobsAssumption DEF TypeOK
<1>3. ASSUME NEW f \in FileNames, Of(f) # {} PROVE LastOf(f) \in Of(f)
  <2>1. Of(f) \in SUBSET (1..Len(job.urls))
    BY <1>2 DEF UrlFields
  <2> HIDE DEF Of
  <2>2. QED
    BY <1>2, <1>3, <2>1, LargestOf
<1>4. \A i \in done : UrlAt(v, i).leaf \in DOMAIN NameOf
  BY DEF Fetchable
<1> HIDE DEF LastOf
<1>5. \A f \in FileNames :
        \/ Of(f) = {} /\ Stored(v, done)[f] = assets[f]
        \/ LastOf(f) \in Of(f) /\ Stored(v, done)[f] = UrlAt(v, LastOf(f)).leaf
  BY <1>1, <1>3
<1>6. \A f \in FileNames : Stored(v, done)[f] \in DOMAIN NameOf \cup {NULL}
  BY <1>4, <1>5 DEF TypeOK
<1>7. QED
  BY <1>1, <1>5, <1>6

\* What happens to the assets in one step: nothing, or they are those of a record too.
LEMMA DeliverIs ==
  ASSUME TypeOK, NEW r, NEW v, Deliver(r, v)
  PROVE  \/ assets' = assets
         \/ \E done \in SUBSET UrlFields(v) :
              (\A k \in done : Fetchable(v, k)) /\ assets' = Stored(v, done)
<1>1. CASE ~Resolves /\ UNCHANGED assets
  BY <1>1
<1>2. CASE AssetFails(r, v)
  BY <1>2 DEF AssetFails
<1>3. CASE (\A i \in UrlFields(v) : Fetchable(v, i)) /\ assets' = Stored(v, UrlFields(v))
  BY <1>3
<1>4. QED
  BY <1>1, <1>2, <1>3 DEF Deliver

\* A file keeps its content when names do not clash.
LEMMA FilesStay ==
  ASSUME TypeOK, NEW r, NEW v, Deliver(r, v), ~Clash,
         NEW u \in DOMAIN NameOf, assets[NameOf[u]] = u
  PROVE  assets'[NameOf[u]] = u
<1>1. CASE assets' = assets
  BY <1>1
<1>2. ASSUME NEW done \in SUBSET UrlFields(v), \A k \in done : Fetchable(v, k), assets' = Stored(v, done)
      PROVE  assets'[NameOf[u]] = u
  <2>1. NameOf[u] \in FileNames
    BY NamesAssumption
  <2>2. \A i \in done : UrlAt(v, i).leaf \in DOMAIN NameOf
    BY <1>2 DEF Fetchable
  <2>3. QED
    BY <1>2, <2>1, <2>2, StoredIs DEF Clash
<1>3. QED
  BY <1>1, <1>2, DeliverIs

-----------------------------------------------------------------------------
(* The inductive invariant                                                 *)

\* What is posted of a record with assets refers to files with their content.
Refers(post) ==
  LET v == Masked(post.from)
  IN  /\ post.value = Referring(v)
      /\ \A k \in UrlFields(v) :
           Fetchable(v, k) /\ assets[NameOf[UrlAt(v, k).leaf]] = UrlAt(v, k).leaf
PostedInv ==
  /\ posted \in Seq(ToSet(posted))
  /\ Resolves /\ ~Clash => \A i \in DOMAIN posted : Refers(posted[i])

PInv == Inv /\ TypeOK /\ PostedInv

\* The counters and what is posted after a record has been posted.
LEMMA PostIs ==
  ASSUME NEW r, NEW v, TypeOK, ~raised, Post(r, v)
  PROVE  /\ raised' \in BOOLEAN /\ processed' \in Nat
         /\ raised' => processed' = processed
         /\ ~raised' => processed' = processed + 1
         /\ posted' = posted \/ posted' = Append(posted, [from |-> r, value |-> v])
<1>1. processed \in Nat /\ ~raised /\ raised \in BOOLEAN
  BY DEF TypeOK
<1>2. CASE raised' = TRUE /\ UNCHANGED <<processed, posted>>
  BY <1>1, <1>2
<1>3. CASE /\ processed' = processed + 1 /\ raised' = raised
           /\ posted' = posted \/ posted' = Append(posted, [from |-> r, value |-> v])
  <2>1. raised' \in BOOLEAN /\ ~raised'
    BY <1>1, <1>3, Zenon
  <2>2. QED
    BY <1>1, <1>3, <2>1
<1>4. QED
  BY <1>2, <1>3 DEF Post

LEMMA DeliverCounts ==
  ASSUME NEW r, NEW v, TypeOK, ~raised, Deliver(r, v)
  PROVE  /\ raised' \in BOOLEAN /\ {processed', skipped', assetErrors'} \subseteq Nat
         /\ assetErrors' <= skipped'
         /\ raised' => processed' + skipped' = processed + skipped
         /\ ~raised' => processed' + skipped' = processed + skipped + 1
         /\ \/ posted' = posted
            \/ /\ Resolves => (\A i \in UrlFields(v) : Fetchable(v, i)) /\ assets' = Stored(v, UrlFields(v))
               /\ \E w : posted' = Append(posted, [from |-> r, value |-> w]) /\ (Resolves => w = Referring(v))
<1>0. {processed, skipped, assetErrors} \subseteq Nat /\ assetErrors <= skipped /\ ~raised /\ raised \in BOOLEAN
  BY DEF TypeOK
<1>1. CASE AssetFails(r, v)
  <2>1. /\ assetErrors' = assetErrors + 1 /\ skipped' = skipped + 1
        /\ UNCHANGED <<processed, raised, posted>>
    BY <1>1 DEF AssetFails, Skip
  <2>2. raised' \in BOOLEAN /\ ~raised'
    BY <1>0, <2>1, Zenon
  <2>3. QED
    BY <1>0, <2>1, <2>2
<1>2. CASE ~Resolves /\ Post(r, v) /\ UNCHANGED <<skipped, assetErrors, assets>>
  <2>1. /\ raised' \in BOOLEAN /\ processed' \in Nat
        /\ raised' => processed' = processed
        /\ ~raised' => processed' = processed + 1
        /\ posted' = posted \/ posted' = Append(posted, [from |-> r, value |-> v])
    BY <1>2, PostIs
  <2>2. /\ raised' => processed' + skipped' = processed + skipped
        /\ ~raised' => processed' + skipped' = processed + skipped + 1
    BY <1>0, <1>2, <2>1
  <2>3. QED
    BY <1>0, <1>2, <2>1, <2>2
<1>3. CASE /\ Resolves
           /\ \A i \in UrlFields(v) : Fetchable(v, i)
           /\ assets' = Stored(v, UrlFields(v))
           /\ Post(r, Referring(v))
           /\ UNCHANGED <<skipped, assetErrors>>
  <2>1. /\ raised' \in BOOLEAN /\ processed' \in Nat
        /\ raised' => processed' = processed
        /\ ~raised' => processed' = processed + 1
        /\ posted' = posted \/ posted' = Append(posted, [from |-> r, value |-> Referring(v)])
    BY <1>3, PostIs
  <2>2. /\ raised' => processed' + skipped' = processed + skipped
        /\ ~raised' => processed' + skipped' = processed + skipped + 1
    BY <1>0, <1>3, <2>1
  <2>3. QED
    BY <1>0, <1>3, <2>1, <2>2
<1>4. QED
  BY <1>1, <1>2, <1>3 DEF Deliver

\* Every step feeds the sampler one record.
LEMMA StepFeeds ==
  ASSUME TypeOK, ProcessRecord
  PROVE  /\ SamplingNext /\ job' = job /\ seen' = seen + 1 /\ seen < Len(job.records)
         /\ job.records[seen + 1] \in ToSet(job.records)
<1> DEFINE record == job.records[seen + 1]
<1>1. /\ job.records \in Seq(ToSet(job.records)) /\ seen \in Nat /\ seen < Len(job.records)
  BY JobsAssumption DEF TypeOK, SamplingType, ProcessRecord
<1>2. seen + 1 \in DOMAIN job.records
  BY <1>1
<1>3. KeyOf(record) \in Keys /\ record \in ToSet(job.records)
  BY <1>2, JobsAssumption DEF TypeOK, ToSet
<1>4. \E keep \in BOOLEAN : Feed(KeyOf(record), keep)
  BY DEF ProcessRecord
<1>5. QED
  BY <1>1, <1>3, <1>4 DEF SamplingNext, Feed, ProcessRecord

LEMMA PipelineInit == Init => PInv
<1> SUFFICES ASSUME Init PROVE PInv
  OBVIOUS
<1>1. TypeOK
  <2>1. SamplingType
    BY InvInit DEF Init, Inv
  <2>2. Len(job.records) \in Nat
    BY JobsAssumption DEF Init
  <2>3. QED
    <3>1. seen = 0 /\ seen <= Len(job.records)
      BY <2>2 DEF Init, SamplingInit
    <3>2. /\ {processed, skipped, assetErrors} \subseteq Nat /\ assetErrors <= skipped
          /\ raised \in BOOLEAN
          /\ raised => processed + skipped + 1 = seen
          /\ ~raised => processed + skipped = seen
      <4>1. processed = 0 /\ skipped = 0 /\ assetErrors = 0 /\ ~raised /\ raised \in BOOLEAN
        BY DEF Init
      <4>2. QED
        BY <3>1, <4>1
    <3>3. assets \in [FileNames -> DOMAIN NameOf \cup {NULL}] /\ DOMAIN posted = {}
      BY DEF Init
    <3>4. QED
      BY <2>1, <3>1, <3>2, <3>3 DEF Init, TypeOK
<1>2. PostedInv
  BY DEF Init, PostedInv, ToSet
<1>3. QED
  BY <1>1, <1>2, InvInit DEF PInv, Init

\* The operators on a record do not change while the job does not.
LEMMA SameJob ==
  ASSUME job' = job, NEW r, NEW v
  PROVE  /\ Masked(r)' = Masked(r) /\ UrlFields(v)' = UrlFields(v) /\ Referring(v)' = Referring(v)
         /\ \A k : Fetchable(v, k)' = Fetchable(v, k) /\ UrlAt(v, k)' = UrlAt(v, k)
         /\ Resolves' = Resolves
  BY DEF Masked, Content, UrlFields, Referring, Fetchable, UrlAt, Resolves

LEMMA PostedStep ==
  ASSUME TypeOK, PostedInv, ProcessRecord, job' = job
  PROVE  PostedInv'
<1> DEFINE r == job.records[seen + 1]
           v == Masked(r)
<1>1. CASE UNCHANGED <<posted, assets>>
  <2>1. ASSUME NEW i \in DOMAIN posted, Refers(posted[i]) PROVE Refers(posted[i])'
    BY <1>1, <2>1, SameJob DEF Refers
  <2>2. QED
    BY <1>1, <2>1, SameJob DEF PostedInv, Clash
<1>2. CASE ~raised /\ Deliver(r, v)
  <2>1. ASSUME Resolves, ~Clash, NEW i \in DOMAIN posted, NEW p, p = posted[i]
        PROVE  Refers(p)'
    <3> DEFINE w == Masked(p.from)
    <3>1. Refers(p)
      BY <2>1 DEF PostedInv
    <3>2. ASSUME NEW k \in UrlFields(w)
          PROVE  Fetchable(w, k) /\ assets'[NameOf[UrlAt(w, k).leaf]] = UrlAt(w, k).leaf
      <4>1. Fetchable(w, k) /\ assets[NameOf[UrlAt(w, k).leaf]] = UrlAt(w, k).leaf
        BY <3>1, <3>2 DEF Refers
      <4>2. UrlAt(w, k).leaf \in DOMAIN NameOf
        BY <4>1 DEF Fetchable
      <4>3. QED
        BY <1>2, <2>1, <4>1, <4>2, FilesStay
    <3>3. QED
      BY <3>1, <3>2, SameJob DEF Refers
  <2>2. CASE posted' = posted
    BY <2>1, <2>2, SameJob DEF PostedInv, Clash
  <2>3. ASSUME Resolves => (\A i \in UrlFields(v) : Fetchable(v, i)) /\ assets' = Stored(v, UrlFields(v)),
               NEW w, posted' = Append(posted, [from |-> r, value |-> w]), Resolves => w = Referring(v)
        PROVE  PostedInv'
    <3>0. PICK e : e = [from |-> r, value |-> w]
      OBVIOUS
    <3>1. /\ posted' \in Seq(ToSet(posted'))
          /\ DOMAIN posted' = DOMAIN posted \cup {Len(posted) + 1}
          /\ \A i \in DOMAIN posted : posted'[i] = posted[i]
          /\ posted'[Len(posted) + 1] = e
      BY <2>3, <3>0, OneMore DEF PostedInv
    <3>2. ASSUME Resolves, ~Clash PROVE Refers(e)'
      <4>1. ASSUME NEW k \in UrlFields(v) PROVE assets'[NameOf[UrlAt(v, k).leaf]] = UrlAt(v, k).leaf
        <5>1. \A i \in UrlFields(v) : UrlAt(v, i).leaf \in DOMAIN NameOf
          BY <2>3, <3>2 DEF Fetchable
        <5>2. NameOf[UrlAt(v, k).leaf] \in FileNames
          BY <4>1, <5>1, NamesAssumption
        <5>3. PICK i \in UrlFields(v) : /\ NameOf[UrlAt(v, i).leaf] = NameOf[UrlAt(v, k).leaf]
                                        /\ assets'[NameOf[UrlAt(v, k).leaf]] = UrlAt(v, i).leaf
          BY <2>3, <3>2, <4>1, <5>2, StoredIs
        <5>4. UrlAt(v, i).leaf = UrlAt(v, k).leaf
          BY <3>2, <4>1, <5>1, <5>3 DEF Clash
        <5>5. QED
          BY <5>3, <5>4
      <4>2. QED
        <5>1. e.from = r /\ e.value = w
          BY <3>0, SameJob
        <5>2. Masked(e.from)' = v
          BY <3>0, SameJob
        <5>3. e.value = Referring(v)
          BY <2>3, <3>2, <5>1
        <5>4. PICK x : x = v
          OBVIOUS
        <5>5. /\ UrlFields(x)' = UrlFields(x) /\ Referring(x)' = Referring(x)
              /\ \A k : Fetchable(x, k)' = Fetchable(x, k) /\ UrlAt(x, k)' = UrlAt(x, k)
          BY SameJob
        <5>6. \A k \in UrlFields(x) :
                Fetchable(x, k) /\ assets'[NameOf[UrlAt(x, k).leaf]] = UrlAt(x, k).leaf
          BY <2>3, <3>2, <4>1, <5>4
        <5>7. Masked(e.from)' = x /\ e.value = Referring(x)
          BY <5>2, <5>3, <5>4
        <5>8. QED
          BY <5>5, <5>6, <5>7 DEF Refers
    <3>3. ASSUME Resolves', ~Clash, NEW i \in DOMAIN posted' PROVE Refers(posted[i])'
      <4>1. Resolves
        BY <3>3, SameJob
      <4>2. CASE i \in DOMAIN posted
        BY <2>1, <3>1, <3>3, <4>1, <4>2 DEF Refers
      <4>3. CASE i = Len(posted) + 1
        <5>1. Refers(e)' /\ posted'[i] = e
          BY <3>1, <3>2, <3>3, <4>1, <4>3
        <5>2. QED
          BY <5>1 DEF Refers
      <4>4. QED
        BY <3>1, <3>3, <4>2, <4>3
    <3>4. QED
      BY <3>1, <3>3 DEF PostedInv, Clash
  <2>4. QED
    BY <1>2, <2>2, <2>3, DeliverCounts
<1>3. QED
  BY <1>1, <1>2 DEF ProcessRecord, Skip

LEMMA PipelineStep == PInv /\ [ProcessRecord]_vars => PInv'
<1> SUFFICES ASSUME PInv, [ProcessRecord]_vars PROVE PInv'
  OBVIOUS
<1> USE DEF PInv
<1>1. CASE ProcessRecord
  <2>1. /\ SamplingNext /\ job' = job /\ seen' = seen + 1 /\ seen < Len(job.records)
        /\ job.records[seen + 1] \in ToSet(job.records)
    BY <1>1, StepFeeds
  <2>2. Inv'
    BY <2>1, InvStep
  <2>3. PostedInv'
    BY <1>1, <2>1, PostedStep
  <2>4. TypeOK'
    <3> DEFINE r == job.records[seen + 1]
               v == Masked(r)
    <3>1. SamplingType' /\ job' \in Jobs /\ job'.sampling = sampling' /\ seen' <= Len(job'.records)
      <4>1. SamplingType'
        BY <2>2 DEF Inv
      <4>2. sampling' = sampling
        BY <2>1 DEF SamplingNext, Feed
      <4>3. Len(job.records) \in Nat
        BY JobsAssumption DEF TypeOK
      <4>4. QED
        BY <2>1, <4>1, <4>2, <4>3 DEF TypeOK, SamplingType
    <3>2. CASE Skip /\ UNCHANGED <<assetErrors, assets>> /\ ~raised
      <4>1. /\ skipped' = skipped + 1
            /\ UNCHANGED <<processed, assetErrors, raised, posted, assets>>
        BY <3>2 DEF Skip
      <4>2. /\ {processed', skipped', assetErrors'} \subseteq Nat
            /\ assetErrors' <= skipped'
            /\ processed' + skipped' = seen'
        BY <2>1, <3>2, <4>1 DEF TypeOK
      <4>3. raised' \in BOOLEAN /\ ~raised'
        BY <3>2, <4>1, Zenon DEF TypeOK
      <4>4. /\ assets' \in [FileNames -> DOMAIN NameOf \cup {NULL}]
            /\ \A i \in DOMAIN posted' : posted'[i].from \in ToSet(job'.records)
        BY <2>1, <4>1 DEF TypeOK
      <4>5. /\ raised' => processed' + skipped' + 1 = seen'
            /\ ~raised' => processed' + skipped' = seen'
        BY <4>2, <4>3
      <4>6. QED
        BY <3>1, <4>2, <4>3, <4>4, <4>5, Zenon DEF TypeOK
    <3>3. CASE ~raised /\ Deliver(r, v)
      <4>1. assets' \in [FileNames -> DOMAIN NameOf \cup {NULL}]
        <5>1. CASE assets' = assets
          BY <5>1 DEF TypeOK
        <5>2. ASSUME NEW done \in SUBSET UrlFields(v), \A k \in done : Fetchable(v, k), assets' = Stored(v, done)
              PROVE  assets' \in [FileNames -> DOMAIN NameOf \cup {NULL}]
          BY <5>2, StoredIs
        <5>3. QED
          BY <3>3, <5>1, <5>2, DeliverIs
      <4>2. \A i \in DOMAIN posted' : posted'[i].from \in ToSet(job.records)
        <5>1. CASE posted' = posted
          BY <5>1 DEF TypeOK
        <5>2. ASSUME NEW w, posted' = Append(posted, [from |-> r, value |-> w])
              PROVE  \A i \in DOMAIN posted' : posted'[i].from \in ToSet(job.records)
          BY <2>1, <5>2, OneMore DEF TypeOK, PostedInv
        <5>3. QED
          BY <3>3, <5>1, <5>2, DeliverCounts
      <4>3. /\ raised' \in BOOLEAN /\ {processed', skipped', assetErrors'} \subseteq Nat
            /\ assetErrors' <= skipped'
            /\ raised' => processed' + skipped' + 1 = seen'
            /\ ~raised' => processed' + skipped' = seen'
        <5>1. processed + skipped = seen
          BY <3>3 DEF TypeOK
        <5>2. QED
          BY <2>1, <3>3, <5>1, DeliverCounts
      <4>4. QED
        BY <2>1, <3>1, <4>1, <4>2, <4>3 DEF TypeOK
    <3>4. QED
      BY <1>1, <3>2, <3>3 DEF ProcessRecord
  <2>5. QED
    BY <2>2, <2>3, <2>4
<1>2. CASE UNCHANGED vars
  <2>1. Inv'
    BY <1>2, InvStep DEF vars, samplingVars
  <2>2. TypeOK'
    BY <1>2 DEF vars, samplingVars, bufferVars, countVars, sinkVars, TypeOK, SamplingType
  <2>3. PostedInv'
    <3>1. UNCHANGED <<posted, assets>> /\ job' = job
      BY <1>2 DEF vars, sinkVars
    <3>2. ASSUME NEW i \in DOMAIN posted, Refers(posted[i]) PROVE Refers(posted[i])'
      BY <3>1, <3>2, SameJob DEF Refers
    <3>3. QED
      BY <3>1, <3>2, SameJob DEF PostedInv, Clash
  <2>4. QED
    BY <2>1, <2>2, <2>3
<1>3. QED
  BY <1>1, <1>2

-----------------------------------------------------------------------------
\* The sampler inside a run is the sampler: every record read is fed to it once, in the
\* order of the source, and nothing else is (worker.py, the loop over a page).
THEOREM SamplesAlike == Spec => SamplingSpec
<1>1. Init => SamplingInit
  BY DEF Init
<1>2. PInv /\ [ProcessRecord]_vars => [SamplingNext]_samplingVars
  BY StepFeeds DEF PInv, vars
<1>3. QED
  BY <1>1, <1>2, PipelineInit, PipelineStep, PTL DEF Spec, SamplingSpec

\* The record a job exports is a sample in the sense of all three properties of samples,
\* whatever the steps behind the sampler do with the records (export/sampling.py).
THEOREM ExportsSample == Spec => []FirstOfSize /\ []SizeIsExact /\ []EvenlySpaced
  BY SamplesAlike, SampleIsPrefix, SampleIsExact, SampleIsEven, PTL

\* The assets a posted record refers to are stored, each with the content of its URL, after
\* any number of records and failures (export/asset.py, resolve_assets).
THEOREM AssetsHold == Spec => []AssetsResolved
<1>1. PInv => AssetsResolved
  <2> SUFFICES ASSUME PInv, Resolves, ~Clash, NEW i \in DOMAIN posted, NEW k \in UrlFields(Masked(posted[i].from))
        PROVE  LET file == UrlAt(posted[i].value, k).leaf
               IN  file \in FileNames /\ assets[file] = UrlAt(Masked(posted[i].from), k).leaf
    BY DEF AssetsResolved
  <2> DEFINE v == Masked(posted[i].from)
             u == UrlAt(v, k)
  <2>1. posted[i].value = Referring(v) /\ Fetchable(v, k) /\ assets[NameOf[u.leaf]] = u.leaf
    BY DEF PInv, PostedInv, Refers
  <2>2. u.leaf \in DOMAIN NameOf /\ NameOf[u.leaf] \in FileNames
    BY <2>1, NamesAssumption DEF Fetchable
  <2>3. UrlAt(Referring(v), k) = [leaf |-> NameOf[u.leaf]]
    BY DEF Referring, UrlAt, UrlFields
  <2>4. QED
    BY <2>1, <2>2, <2>3
<1>2. QED
  BY <1>1, PipelineInit, PipelineStep, PTL DEF Spec

\* Each record read is counted once, as processed or as skipped, unless it raised, and an
\* error with its assets skips it (worker.py, the counters of the loop).
THEOREM PipelineType == Spec => []TypeOK
<1>1. PInv => TypeOK
  BY DEF PInv
<1>2. QED
  BY <1>1, PipelineInit, PipelineStep, PTL DEF Spec
=============================================================================
