------------------------------ MODULE Sampling ------------------------------
(***************************************************************************)
(* SamplingBuffer of export/sampling.py: asked of each record in turn      *)
(* whether the export keeps it. ratio_or_size is a positive rational       *)
(* [num, den]: a ratio up to one, a number of records above. A draw of     *)
(* random.random() is a nondeterministic choice.                           *)
(*                                                                         *)
(* A definition introduced by "Mutant" is the next one with a plausible    *)
(* bug, substituted for it to show that a property would notice.           *)
(***************************************************************************)
EXTENDS Integers

CONSTANTS
  Samplings,  \* the configurations [method, num, den] a job may have
  Keys        \* values of the target column

Methods == {"random", "systematic", "stratified"}

ASSUME SamplingsAssumption ==
  Samplings \subseteq [method : Methods, num : Nat \ {0}, den : Nat \ {0}]

VARIABLES
  sampling,   \* the job's configuration
  seen, kept, \* counters of the buffer
  groupSeen, groupKept,  \* records seen and kept of each group
  picked      \* the positions kept so far; not stored by the code

bufferVars == <<seen, kept, groupSeen, groupKept>>
samplingVars == <<sampling, bufferVars, picked>>

SamplingType ==
  /\ sampling \in Samplings
  /\ seen \in Nat /\ kept \in Nat
  /\ groupSeen \in [Keys -> Nat] /\ groupKept \in [Keys -> Nat]
  /\ picked \subseteq 1..seen

SamplingInit ==
  /\ sampling \in Samplings
  /\ seen = 0 /\ kept = 0
  /\ groupSeen = [k \in Keys |-> 0] /\ groupKept = groupSeen
  /\ picked = {}

IsSize == sampling.num > sampling.den
Size == sampling.num \div sampling.den

Ceil(a, b) == (a + b - 1) \div b

\* Python's round: to the nearest, and a half to the even one.
RoundEven(a, b) ==
  LET low == a \div b
      rest == 2 * (a % b)
  IN  IF rest > b \/ (rest = b /\ low % 2 = 1) THEN low + 1 ELSE low

AtLeastOne(n) == IF n < 1 THEN 1 ELSE n

\* random.random() < ratio.
Draws == IF sampling.num = sampling.den THEN {TRUE} ELSE BOOLEAN

\* What feed may answer for the n-th record, n being _seen after its increment.
RandomKeeps == IF IsSize THEN {kept < Size} ELSE Draws

\* Every step-th record. For a size the step grows with the records seen.
SizeStep(n) == AtLeastOne(Ceil(n * sampling.den, sampling.num))

\* Mutant: the step is cut to an integer.
RatioStepCut == AtLeastOne(sampling.den \div sampling.num)

RatioStep == AtLeastOne(RoundEven(sampling.den, sampling.num))

SystematicKeeps(n) ==
  IF IsSize THEN {(n - 1) % SizeStep(n) = 0 /\ kept < Size}
  ELSE {sampling.num = sampling.den \/ n % RatioStep = 1}

\* Mutant: the quota is of the export, not of the group.
StratifiedKeepsOfAll(key) == IF IsSize THEN {kept < Size} ELSE Draws

StratifiedKeeps(key) == IF IsSize THEN {groupKept[key] < Size} ELSE Draws

Answers(key, n) ==
  CASE sampling.method = "random" -> RandomKeeps
    [] sampling.method = "systematic" -> SystematicKeeps(n)
    [] sampling.method = "stratified" -> StratifiedKeeps(key)

\* SamplingBuffer.feed answers keep for a record of group key.
Feed(key, keep) ==
  /\ seen' = seen + 1
  /\ keep \in Answers(key, seen')
  /\ kept' = IF keep THEN kept + 1 ELSE kept
  /\ IF sampling.method = "stratified"
     THEN /\ groupSeen' = [groupSeen EXCEPT ![key] = @ + 1]
          /\ groupKept' = IF keep THEN [groupKept EXCEPT ![key] = @ + 1] ELSE groupKept
     ELSE UNCHANGED <<groupSeen, groupKept>>
  /\ picked' = IF keep THEN picked \cup {seen'} ELSE picked
  /\ UNCHANGED sampling

SamplingNext == \E key \in Keys, keep \in BOOLEAN : Feed(key, keep)

SamplingSpec == SamplingInit /\ [][SamplingNext]_samplingVars

-----------------------------------------------------------------------------
\* A sample of a given size is the first records of the source: also the systematic
\* one, of which sampling.py:40 says "keep every N-th until we have enough". Its step
\* is 1 until the size is reached, so that nothing behind the first Size records is
\* ever kept (the branches for ratio_or_size > 1.0). What the code does, against what
\* its comment says.
FirstOfSize ==
  IsSize /\ sampling.method # "stratified" => picked = {n \in 1..seen : n <= Size}

\* The counters agree with the records let through, and a sample of a given size
\* has that many records, or that many of each group, unless there are fewer: the
\* quota is of the group, whatever the order in which the groups arrive.
AtMost(n) == IF n <= Size THEN n ELSE Size
SizeIsExact ==
  IsSize =>
    IF sampling.method = "stratified"
    THEN \A k \in Keys : groupKept[k] = AtMost(groupSeen[k])
    ELSE kept = AtMost(seen)

\* A systematic ratio takes the first record and then one in every 1/ratio, to the
\* nearest half, as long as 1/ratio rounds to two or more.
Neighbours(m, n) == m < n /\ \A k \in picked : k <= m \/ n <= k
EvenlySpaced ==
  sampling.method = "systematic" /\ ~IsSize /\ RatioStep > 1 =>
    /\ seen > 0 => 1 \in picked
    /\ \A m, n \in picked :
         Neighbours(m, n) =>
           2 * sampling.num * (n - m) \in
             (2 * sampling.den - sampling.num) .. (2 * sampling.den + sampling.num)
=============================================================================
