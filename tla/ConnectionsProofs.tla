-------------------------- MODULE ConnectionsProofs --------------------------
(***************************************************************************)
(* Theorems about Connections, for every set of requests, payloads and     *)
(* models of credentials.                                                  *)
(***************************************************************************)
EXTENDS Connections, FiniteSetTheorems, SequenceTheorems, WellFoundedInduction, TLAPS

-----------------------------------------------------------------------------
(* Types                                                                   *)

\* Each request has its record.
Records == DOMAIN req = Requests /\ \A q \in Requests : DOMAIN req[q] = DOMAIN Idle

\* A request goes to its next place and leaves the others where they are.
LEMMA ToStep ==
  ASSUME Records, NEW r \in Requests, NEW place, To(r, place)
  PROVE  /\ Records'
         /\ \A q \in Requests \ {r} : req'[q] = req[q]
         /\ req'[r].at = place /\ req'[r].label = NULL /\ req'[r].overtaken = FALSE
         /\ req'[r].sent = NULL
BY DEF Records, To, Idle

\* The statement that writes credentials overtakes those who have read.
LEMMA OvertakeStep ==
  ASSUME Records, NEW r \in Requests, Overtake(r)
  PROVE  /\ Records'
         /\ req'[r].at = "done" /\ req'[r].label = NULL /\ req'[r].overtaken = FALSE
         /\ \A q \in Requests \ {r} :
              /\ req'[q].at = req[q].at /\ req'[q].read = req[q].read
              /\ req'[q].label = req[q].label /\ req'[q].sent = req[q].sent
              /\ req'[q].overtaken = (req[q].overtaken \/ req[q].at \in {"patch", "ping"})
BY DEF Records, Overtake, Idle

\* A request that reads the row keeps what it read.
LEMMA ReadStep ==
  ASSUME Records, NEW r \in Requests, NEW request, DOMAIN request = DOMAIN Idle,
         req' = [req EXCEPT ![r] = request]
  PROVE  /\ Records'
         /\ \A q \in Requests \ {r} : req'[q] = req[q]
         /\ req'[r] = request
BY DEF Records

\* TypeOK, in parts.
RowOK ==
  row # NULL => /\ DOMAIN row = {"label", "creds", "status"}
                /\ row.label \in Labels
                /\ row.status \in {"untested", "reachable", "unreachable"}
RequestOK(r) ==
  /\ req[r].at \in Places
  /\ req[r].label \in Labels \cup {NULL} /\ req[r].overtaken \in BOOLEAN
  /\ req[r].at = "patch" => req[r].sent \in Payloads

\* These are its parts.
LEMMA TypeSplit ==
  TypeOK <=> RowOK /\ Records /\ (\A r \in Requests : RequestOK(r)) /\ log \in Seq(Entries)
BY DEF TypeOK, RowOK, Records, RequestOK

\* The requests that a step leaves alone stay right.
LEMMA OthersOK ==
  ASSUME \A q \in Requests : RequestOK(q), NEW r \in Requests, RequestOK(r)',
         \A q \in Requests \ {r} : req'[q] = req[q]
  PROVE  \A q \in Requests : RequestOK(q)'
BY DEF RequestOK

\* A request that goes on without keeping anything stays right, and so do the others.
LEMMA ToOK ==
  ASSUME Records, \A q \in Requests : RequestOK(q), NEW r \in Requests,
         NEW place \in {"done", "delete"}, To(r, place)
  PROVE  Records' /\ \A q \in Requests : RequestOK(q)'
<1>1. /\ Records'
      /\ \A q \in Requests \ {r} : req'[q] = req[q]
      /\ req'[r].at = place /\ req'[r].label = NULL /\ req'[r].overtaken = FALSE
  BY ToStep
<1>2. RequestOK(r)'
  BY <1>1 DEF RequestOK, Places
<1>3. QED
  BY <1>1, <1>2, OthersOK

\* What an entry of the log is made of.
LEMMA EntryOK ==
  ASSUME NEW payload \in Payloads \cup NewPayloads, NEW overtaken \in BOOLEAN
  PROVE  [given |-> Parsed(payload), overtaken |-> overtaken] \in Entries
BY DEF Entries

\* Every step keeps the types.
LEMMA TypeStep ==
  ASSUME TypeOK, [Next]_vars
  PROVE  TypeOK'
<1> DEFINE Goal == RowOK' /\ Records' /\ (\A q \in Requests : RequestOK(q)') /\ log' \in Seq(Entries)
<1> SUFFICES Goal
  BY DEF TypeOK, RowOK, Records, RequestOK, Entries
<1>0. RowOK /\ Records /\ (\A q \in Requests : RequestOK(q)) /\ log \in Seq(Entries)
  BY TypeSplit
<1>1. ASSUME NEW r \in Requests, NEW label \in Labels, NEW payload \in NewPayloads,
             Create(r, label, payload)
      PROVE  Goal
  <2>1. log' = <<[given |-> Parsed(payload), overtaken |-> FALSE]>>
    BY <1>1 DEF Create
  <2>2. log' \in Seq(Entries)
    <3>1. [given |-> Parsed(payload), overtaken |-> FALSE] \in Entries
      BY EntryOK
    <3>2. QED
      BY <2>1, <3>1
  <2>3. RowOK'
    BY <1>1 DEF Create, RowOK
  <2>4. Records' /\ \A q \in Requests : RequestOK(q)'
    BY <1>0, <1>1, ToOK DEF Create
  <2>5. QED
    BY <2>2, <2>3, <2>4
<1>2. ASSUME NEW r \in Requests, NEW label \in Labels \cup {NULL}, NEW payload \in Payloads,
             PatchRead(r, label, payload)
      PROVE  Goal
  <2>1. RowOK' /\ log' \in Seq(Entries)
    BY <1>0, <1>2 DEF PatchRead, RowOK
  <2>2. CASE row = NULL
    BY <1>0, <1>2, <2>1, <2>2, ToOK DEF PatchRead
  <2>3. CASE row # NULL
    <3> DEFINE request == [at |-> "patch", read |-> row.creds, label |-> label, sent |-> payload,
                           overtaken |-> FALSE]
    <3>1. req' = [req EXCEPT ![r] = request] /\ DOMAIN request = DOMAIN Idle
      BY <1>2, <2>3 DEF PatchRead, Idle
    <3>2. /\ Records' /\ req'[r] = request
          /\ \A q \in Requests \ {r} : req'[q] = req[q]
      BY <1>0, <3>1, ReadStep
    <3>3. RequestOK(r)'
      BY <3>2 DEF RequestOK, Places
    <3>4. QED
      BY <1>0, <2>1, <3>2, <3>3, OthersOK
  <2>4. QED
    BY <2>2, <2>3
<1>3. ASSUME NEW r \in Requests, PatchWrite(r)
      PROVE  Goal
  <2>1. CASE row = NULL
    BY <1>0, <1>3, <2>1, ToOK DEF PatchWrite, RowOK
  <2>2. CASE row # NULL
    <3>1. /\ row' = WithCreds(req[r].label, Merge(req[r].read, Given(r)))
          /\ log' = Append(log, [given |-> Given(r), overtaken |-> req[r].overtaken])
          /\ Overtake(r) /\ req[r].at = "patch"
      BY <1>3, <2>2 DEF PatchWrite
    <3>2. RowOK'
      BY <1>0, <2>2, <3>1 DEF WithCreds, Labelled, RowOK, RequestOK
    <3>3. log' \in Seq(Entries)
      BY <1>0, <3>1, EntryOK, AppendProperties DEF RequestOK, Given
    <3>4. Records' /\ \A q \in Requests : RequestOK(q)'
      <4>1. Records' /\ RequestOK(r)'
        BY <1>0, <3>1, OvertakeStep DEF RequestOK, Places
      <4>2. ASSUME NEW q \in Requests \ {r} PROVE RequestOK(q)'
        BY <1>0, <3>1, OvertakeStep DEF RequestOK
      <4>3. QED
        BY <4>1, <4>2
    <3>5. QED
      BY <3>2, <3>3, <3>4
  <2>3. QED
    BY <2>1, <2>2
<1>4. ASSUME NEW r \in Requests, NEW label \in Labels \cup {NULL}, PatchLabel(r, label)
      PROVE  Goal
  <2>1. RowOK'
    BY <1>0, <1>4 DEF PatchLabel, Labelled, RowOK
  <2>2. QED
    BY <1>0, <1>4, <2>1, ToOK DEF PatchLabel
<1>5. ASSUME NEW r \in Requests, PingRead(r)
      PROVE  Goal
  <2>1. RowOK' /\ log' \in Seq(Entries)
    BY <1>0, <1>5 DEF PingRead, RowOK
  <2>2. CASE row = NULL
    BY <1>0, <1>5, <2>1, <2>2, ToOK DEF PingRead
  <2>3. CASE row # NULL
    <3> DEFINE request == [at |-> "ping", read |-> row.creds, label |-> NULL, sent |-> NULL,
                           overtaken |-> FALSE]
    <3>1. req' = [req EXCEPT ![r] = request] /\ DOMAIN request = DOMAIN Idle
      BY <1>5, <2>3 DEF PingRead, Idle
    <3>2. /\ Records' /\ req'[r] = request
          /\ \A q \in Requests \ {r} : req'[q] = req[q]
      BY <1>0, <3>1, ReadStep
    <3>3. RequestOK(r)'
      BY <3>2 DEF RequestOK, Places
    <3>4. QED
      BY <1>0, <2>1, <3>2, <3>3, OthersOK
  <2>4. QED
    BY <2>2, <2>3
<1>6. ASSUME NEW r \in Requests, NEW status \in {"reachable", "unreachable"}, PingWrite(r, status)
      PROVE  Goal
  <2>1. RowOK'
    BY <1>0, <1>6 DEF PingWrite, RowOK
  <2>2. To(r, "done") /\ log' = log
    BY <1>6 DEF PingWrite
  <2>3. QED
    BY <1>0, <2>1, <2>2, ToOK
<1>7. ASSUME NEW r \in Requests, DeleteRead(r)
      PROVE  Goal
  <2> DEFINE place == IF row = NULL THEN "done" ELSE "delete"
  <2>1. To(r, place) /\ log' = log /\ RowOK'
    BY <1>0, <1>7 DEF DeleteRead, RowOK
  <2>2. QED
    BY <1>0, <2>1, ToOK
<1>8. ASSUME NEW r \in Requests, DeleteRow(r)
      PROVE  Goal
  BY <1>0, <1>8, ToOK DEF DeleteRow, RowOK
<1>9. CASE UNCHANGED vars
  BY <1>0, <1>9 DEF vars, RowOK, Records, RequestOK
<1>10. QED
  BY <1>1, <1>2, <1>3, <1>4, <1>5, <1>6, <1>7, <1>8, <1>9 DEF Next

\* And so does the first state.
LEMMA TypeInit ==
  ASSUME Init
  PROVE  TypeOK
BY EmptySeq DEF Init, TypeOK, Idle, Places

\* Every variable keeps its type, over every interleaving of the requests.
THEOREM TypeCorrect == Spec => []TypeOK
<1>1. Init => TypeOK
  BY TypeInit
<1>2. TypeOK /\ [Next]_vars => TypeOK'
  BY TypeStep
<1>3. QED
  BY <1>1, <1>2, PTL DEF Spec

-----------------------------------------------------------------------------
(* What the steps do to the credentials                                    *)

Written(r) == row # NULL /\ PatchWrite(r)

\* A step that writes no credentials: a request that has read has read those of the
\* row, a status found is that of a ping's credentials, and no PATCH finds its row and ends.
Quiet ==
  /\ log' = log
  /\ row' # NULL => row # NULL /\ row'.creds = row.creds
  /\ \A q \in Requests :
       req'[q].at \in {"patch", "ping"} =>
         req'[q] = req[q] \/ (row # NULL /\ req'[q].read = row.creds)
  /\ row' # NULL =>
       \/ row'.status = row.status /\ tested' = tested
       \/ \E q \in Requests :
            /\ req[q].at = "ping"
            /\ tested' = [creds |-> req[q].read, overtaken |-> req[q].overtaken]
  /\ row # NULL => \A q \in Requests : req[q].at = "patch" => req'[q].at = "patch"

\* Only the creation and the second statement of a PATCH write credentials.
LEMMA QuietSteps ==
  ASSUME TypeOK, [Next]_vars,
         \A r \in Requests : ~Written(r) /\ \A label \in Labels, p \in NewPayloads : ~Create(r, label, p)
  PROVE  Quiet
<1>0. RowOK /\ Records /\ (\A q \in Requests : RequestOK(q))
  BY TypeSplit
<1>1. ASSUME NEW r \in Requests, NEW label \in Labels \cup {NULL}, NEW payload \in Payloads,
             PatchRead(r, label, payload)
      PROVE  Quiet
  <2>1. CASE row = NULL
    BY <1>0, <1>1, <2>1, ToStep DEF PatchRead, Quiet
  <2>2. CASE row # NULL
    BY <1>0, <1>1, <2>2 DEF PatchRead, Quiet, Records
  <2>3. QED
    BY <2>1, <2>2
<1>2. ASSUME NEW r \in Requests, PatchWrite(r)
      PROVE  Quiet
  <2>1. row = NULL /\ To(r, "done") /\ UNCHANGED <<row, log, tested>>
    BY <1>2 DEF PatchWrite, Written
  <2>2. QED
    BY <1>0, <2>1, ToStep DEF Quiet
<1>3. ASSUME NEW r \in Requests, NEW label \in Labels \cup {NULL}, PatchLabel(r, label)
      PROVE  Quiet
  <2>1. row' # NULL => row # NULL /\ row'.creds = row.creds /\ row'.status = row.status
    BY <1>0, <1>3 DEF PatchLabel, Labelled, RowOK
  <2>2. QED
    BY <1>0, <1>3, <2>1, ToStep DEF PatchLabel, Quiet
<1>4. ASSUME NEW r \in Requests, PingRead(r)
      PROVE  Quiet
  <2>1. CASE row = NULL
    BY <1>0, <1>4, <2>1, ToStep DEF PingRead, Quiet
  <2>2. CASE row # NULL
    <3> DEFINE request == [at |-> "ping", read |-> row.creds, label |-> NULL, sent |-> NULL,
                           overtaken |-> FALSE]
    <3>1. req' = [req EXCEPT ![r] = request] /\ UNCHANGED <<row, log, tested>>
      BY <1>4, <2>2 DEF PingRead, Idle
    <3>2. \A q \in Requests : req[q].at = "patch" => req'[q] = req[q]
      BY <1>0, <1>4, <3>1 DEF PingRead, Records
    <3>3. QED
      BY <1>0, <2>2, <3>1, <3>2 DEF Quiet, Records
  <2>3. QED
    BY <2>1, <2>2
<1>5. ASSUME NEW r \in Requests, NEW status \in {"reachable", "unreachable"}, PingWrite(r, status)
      PROVE  Quiet
  <2>1. row' # NULL => row # NULL /\ row'.creds = row.creds
    BY <1>0, <1>5 DEF PingWrite, RowOK
  <2>2. row' # NULL => /\ req[r].at = "ping"
                       /\ tested' = [creds |-> req[r].read, overtaken |-> req[r].overtaken]
    BY <1>5 DEF PingWrite
  <2>3. log' = log /\ To(r, "done")
    BY <1>5 DEF PingWrite
  <2>4. \A q \in Requests : req'[q].at \in {"patch", "ping"} => req'[q] = req[q]
    BY <1>0, <2>3, ToStep
  <2>5. \A q \in Requests : req[q].at = "patch" => req'[q].at = "patch"
    BY <1>0, <1>5, <2>3, ToStep DEF PingWrite
  <2>6. QED
    BY <2>1, <2>2, <2>3, <2>4, <2>5 DEF Quiet
<1>6. ASSUME NEW r \in Requests, DeleteRead(r)
      PROVE  Quiet
  <2> DEFINE place == IF row = NULL THEN "done" ELSE "delete"
  <2>1. To(r, place) /\ UNCHANGED <<row, log, tested>>
    BY <1>6 DEF DeleteRead
  <2>2. \A q \in Requests : req'[q].at \in {"patch", "ping"} => req'[q] = req[q]
    BY <1>0, <2>1, ToStep
  <2>3. \A q \in Requests : req[q].at = "patch" => req'[q].at = "patch"
    BY <1>0, <1>6, <2>1, ToStep DEF DeleteRead
  <2>4. QED
    BY <2>1, <2>2, <2>3 DEF Quiet
<1>7. ASSUME NEW r \in Requests, DeleteRow(r)
      PROVE  Quiet
  BY <1>0, <1>7, ToStep DEF DeleteRow, Quiet
<1>8. CASE UNCHANGED vars
  BY <1>8 DEF vars, Quiet
<1>9. QED
  BY <1>1, <1>2, <1>3, <1>4, <1>5, <1>6, <1>7, <1>8 DEF Next

\* Before the creation nobody has read a row, and until it is overtaken a request
\* that has read one has read the credentials that are there.
FreshInv ==
  /\ log = <<>> => row = NULL /\ \A r \in Requests : req[r].at \notin {"patch", "ping"}
  /\ \A r \in Requests :
       req[r].at \in {"patch", "ping"} /\ ~req[r].overtaken /\ row # NULL => req[r].read = row.creds

\* Every step keeps that, and the status is that of the credentials.
LEMMA FreshStep ==
  ASSUME TypeOK, FreshInv, [Next]_vars
  PROVE  FreshInv' /\ (StatusIsCurrent => StatusIsCurrent')
<1>0. RowOK /\ Records /\ (\A q \in Requests : RequestOK(q)) /\ log \in Seq(Entries)
  BY TypeSplit
<1>1. ASSUME NEW r \in Requests, NEW label \in Labels, NEW p \in NewPayloads, Create(r, label, p)
      PROVE  FreshInv' /\ StatusIsCurrent'
  <2>1. /\ log = <<>> /\ log' # <<>> /\ row'.status = "untested" /\ To(r, "done")
    BY <1>1 DEF Create
  <2>2. \A q \in Requests : req'[q].at \notin {"patch", "ping"}
    BY <1>0, <2>1, ToStep DEF FreshInv
  <2>3. QED
    BY <2>1, <2>2 DEF FreshInv, StatusIsCurrent
<1>2. ASSUME NEW r \in Requests, Written(r)
      PROVE  FreshInv' /\ StatusIsCurrent'
  <2>1. /\ row' = WithCreds(req[r].label, Merge(req[r].read, Given(r)))
        /\ log' = Append(log, [given |-> Given(r), overtaken |-> req[r].overtaken])
        /\ Overtake(r) /\ row # NULL
    BY <1>2 DEF PatchWrite, Written
  <2>2. log' # <<>>
    BY <1>0, <2>1
  <2>3. row'.status = "untested"
    BY <1>0, <2>1 DEF WithCreds, Labelled, RowOK
  <2>4. \A q \in Requests : req'[q].at \in {"patch", "ping"} => req'[q].overtaken
    BY <1>0, <2>1, OvertakeStep
  <2>5. QED
    BY <2>2, <2>3, <2>4 DEF FreshInv, StatusIsCurrent
<1>3. CASE Quiet
  <2>1. ASSUME NEW q \in Requests, req'[q].at \in {"patch", "ping"}
        PROVE  /\ log' # <<>>
               /\ ~req'[q].overtaken /\ row' # NULL => req'[q].read = row'.creds
    BY <1>3, <2>1 DEF Quiet, FreshInv
  <2>2. FreshInv'
    BY <1>3, <2>1 DEF Quiet, FreshInv
  <2>3. StatusIsCurrent => StatusIsCurrent'
    BY <1>3 DEF Quiet, FreshInv, StatusIsCurrent
  <2>4. QED
    BY <2>2, <2>3
<1>4. QED
  BY <1>1, <1>2, <1>3, QuietSteps

\* A status other than untested was found with the credentials in the row, unless
\* they were written while that ping was waiting for the source.
THEOREM StatusHolds == Spec => []StatusIsCurrent
<1> DEFINE Fresh == TypeOK /\ FreshInv /\ StatusIsCurrent
<1>1. Init => Fresh
  BY TypeInit DEF Init, FreshInv, StatusIsCurrent, Idle
<1>2. Fresh /\ [Next]_vars => Fresh'
  BY TypeStep, FreshStep
<1>3. Fresh => StatusIsCurrent
  OBVIOUS
<1>4. QED
  BY <1>1, <1>2, <1>3, PTL DEF Spec

-----------------------------------------------------------------------------
(* What a PATCH leaves                                                     *)

\* A set of numbers has a smallest one.
LEMMA Smallest ==
  ASSUME NEW S, S \subseteq Nat, S # {}
  PROVE  \E n \in S : \A m \in S : n <= m
<1>1. PICK n \in S : \A m \in S : ~(<<m, n>> \in OpToRel(<, Nat))
  BY NatLessThanWellFounded, WFMin
<1>2. \A m \in S : ~(m < n)
  BY <1>1 DEF OpToRel
<1>3. QED
  BY <1>2

\* The union of models accepts every payload: there is a first one among those with
\* the most of the fields sent.
LEMMA ModelExists ==
  ASSUME NEW payload, IsFiniteSet(DOMAIN payload)
  PROVE  /\ ModelFor(payload) \in Accepting(payload)
         /\ \A k \in Accepting(payload) : FieldsSet(payload, k) <= FieldsSet(payload, ModelFor(payload))
<1> DEFINE A == Accepting(payload)
           size == Cardinality(DOMAIN payload)
           short(i) == size - FieldsSet(payload, i)
           gaps == {short(i) : i \in A}
<1>1. A # {} /\ A \subseteq Nat
  <2>1. PICK i \in DOMAIN Models : Models[i].required = {}
    BY ModelsAssumption
  <2>2. i \in A
    BY <2>1 DEF Accepting
  <2>3. A \subseteq Nat
    BY ModelsAssumption DEF Accepting
  <2>4. QED
    BY <2>2, <2>3
<1>2. size \in Nat
  BY FS_CardinalityType
<1>3. \A i \in A : FieldsSet(payload, i) \in Nat /\ FieldsSet(payload, i) <= size
  <2> TAKE i \in A
  <2>1. FieldsOf(i) \cap DOMAIN payload \in SUBSET DOMAIN payload
    OBVIOUS
  <2>2. QED
    BY <2>1, FS_Subset, FS_CardinalityType DEF FieldsSet
<1>4. gaps \subseteq Nat /\ gaps # {}
  BY <1>1, <1>2, <1>3
<1>5. PICK gap \in gaps : \A g \in gaps : gap <= g
  BY <1>4, Smallest
<1> DEFINE best == {i \in A : short(i) = gap}
<1>6. best # {} /\ best \subseteq Nat
  BY <1>1, <1>5
<1>7. PICK i \in best : \A k \in best : i <= k
  BY <1>6, Smallest
<1>8. \A k \in A : \/ FieldsSet(payload, k) < FieldsSet(payload, i)
                   \/ FieldsSet(payload, k) = FieldsSet(payload, i) /\ i <= k
  <2> TAKE k \in A
  <2>1. i \in A /\ short(i) = gap /\ short(k) \in gaps
    BY <1>7
  <2>2. FieldsSet(payload, k) <= FieldsSet(payload, i)
    BY <1>2, <1>3, <1>5, <2>1
  <2>3. FieldsSet(payload, k) = FieldsSet(payload, i) => k \in best
    BY <2>1
  <2>4. QED
    BY <1>3, <1>7, <2>1, <2>2, <2>3
<1> DEFINE chosen == ModelFor(payload)
<1>9. /\ chosen \in A
      /\ \A k \in A : \/ FieldsSet(payload, k) < FieldsSet(payload, chosen)
                      \/ FieldsSet(payload, k) = FieldsSet(payload, chosen) /\ chosen <= k
  BY <1>7, <1>8 DEF ModelFor
<1> HIDE DEF chosen
<1>10. \A k \in A : FieldsSet(payload, k) <= FieldsSet(payload, chosen)
  BY <1>3, <1>9
<1>11. QED
  BY <1>9, <1>10 DEF chosen

\* What a PATCH that nobody overtook writes over the credentials that are there.
LEMMA WrittenCreds ==
  ASSUME TypeOK, FreshInv, NEW r \in Requests, Written(r)
  PROVE  /\ row'.creds = Merge(req[r].read, Given(r))
         /\ ~req[r].overtaken => req[r].read = row.creds
         /\ req[r].overtaken => Overtaken
         /\ req[r].at = "patch" /\ req[r].sent \in Payloads
         /\ \A q \in Requests \ {r} : req'[q].at = req[q].at
<1>0. RowOK /\ Records /\ (\A q \in Requests : RequestOK(q)) /\ log \in Seq(Entries)
  BY TypeSplit
<1>1. /\ row' = WithCreds(req[r].label, Merge(req[r].read, Given(r)))
      /\ log' = Append(log, [given |-> Given(r), overtaken |-> req[r].overtaken])
      /\ Overtake(r) /\ row # NULL /\ req[r].at = "patch"
  BY DEF PatchWrite, Written
<1>2. row'.creds = Merge(req[r].read, Given(r))
  BY <1>0, <1>1 DEF WithCreds, Labelled, RowOK
<1>3. req[r].overtaken => Overtaken
  <2>1. Len(log) + 1 \in DOMAIN log' /\ log'[Len(log) + 1].overtaken = req[r].overtaken
    BY <1>0, <1>1
  <2>2. QED
    BY <2>1 DEF Overtaken
<1>4. QED
  BY <1>0, <1>1, <1>2, <1>3, OvertakeStep DEF FreshInv, RequestOK

\* An edit that leaves a secret blank keeps the saved one, unless it was overtaken.
THEOREM SecretsHold == Spec => SecretsKept
<1> DEFINE Fresh == TypeOK /\ FreshInv
           Kept == row # NULL /\ row' # NULL =>
                     \A f \in DOMAIN row.creds \ Clearable :
                       row.creds[f] # "" => Overtaken \/ row'.creds[f] # ""
<1>1. Init => Fresh
  BY TypeInit DEF Init, FreshInv, Idle
<1>2. Fresh /\ [Next]_vars => Fresh'
  BY TypeStep, FreshStep
<1>3. Fresh /\ [Next]_vars => [Kept]_vars
  <2> SUFFICES ASSUME Fresh, [Next]_vars, row # NULL, row' # NULL,
                      NEW f \in DOMAIN row.creds \ Clearable, row.creds[f] # "", ~Overtaken
               PROVE  row'.creds[f] # ""
    OBVIOUS
  <2>1. ASSUME NEW r \in Requests, Written(r) PROVE row'.creds[f] # ""
    <3>1. row'.creds = Merge(row.creds, Given(r))
      BY <2>1, WrittenCreds
    <3>2. QED
      BY <3>1 DEF Merge, Updated, Supplied, RestrictDomain, Restrict
  <2>2. ASSUME NEW r \in Requests, NEW label \in Labels, NEW p \in NewPayloads, Create(r, label, p)
        PROVE  FALSE
    BY <2>2 DEF Create, FreshInv
  <2>3. CASE Quiet
    BY <2>3 DEF Quiet
  <2>4. QED
    BY <2>1, <2>2, <2>3, QuietSteps
<1>4. QED
  BY <1>1, <1>2, <1>3, PTL DEF Spec, SecretsKept

\* A PATCH that nobody overtakes takes effect on the credentials in the row: the fields
\* sent that the chosen member has take their values, and of the others only those it
\* has defaults for change.
THEOREM EffectHolds == Spec => PatchesTakeEffect
<1> DEFINE Fresh == TypeOK /\ FreshInv
           Effect ==
             \A r \in Requests :
               req[r].at = "patch" /\ req'[r].at = "done" /\ row # NULL /\ row' # NULL /\ ~req[r].overtaken =>
                 \E i \in Accepting(req[r].sent) :
                   /\ \A k \in Accepting(req[r].sent) : FieldsSet(req[r].sent, k) <= FieldsSet(req[r].sent, i)
                   /\ TakesEffect(req[r].sent, i, row.creds, row'.creds)
<1>1. Init => Fresh
  BY TypeInit DEF Init, FreshInv, Idle
<1>2. Fresh /\ [Next]_vars => Fresh'
  BY TypeStep, FreshStep
<1>3. Fresh /\ [Next]_vars => [Effect]_vars
  <2> SUFFICES ASSUME Fresh, [Next]_vars, NEW r \in Requests, req[r].at = "patch", req'[r].at = "done",
                      row # NULL, row' # NULL, ~req[r].overtaken
               PROVE  \E i \in Accepting(req[r].sent) :
                        /\ \A k \in Accepting(req[r].sent) : FieldsSet(req[r].sent, k) <= FieldsSet(req[r].sent, i)
                        /\ TakesEffect(req[r].sent, i, row.creds, row'.creds)
    OBVIOUS
  <2>1. CASE Written(r)
    <3> DEFINE sent == req[r].sent
               i == ModelFor(sent)
               old == row.creds
               new == row'.creds
               supplied == Supplied(Given(r))
    <3>1. new = Updated(old, supplied) /\ sent \in Payloads
      BY <2>1, WrittenCreds DEF Merge
    <3>2. i \in Accepting(sent) /\ \A k \in Accepting(sent) : FieldsSet(sent, k) <= FieldsSet(sent, i)
      BY <3>1, ModelExists, PayloadsAssumption
    <3>3. FieldsOf(i) \ DOMAIN sent \subseteq DOMAIN Models[i].default /\ DOMAIN Models[i].default \subseteq FieldsOf(i)
      BY <3>2 DEF Accepting, FieldsOf
    <3>4. /\ DOMAIN Given(r) = FieldsOf(i)
          /\ \A f \in FieldsOf(i) : Given(r)[f] = IF f \in DOMAIN sent THEN sent[f] ELSE Models[i].default[f]
      <4>1. DOMAIN Restrict(sent, FieldsOf(i) \cap DOMAIN sent) = FieldsOf(i) \cap DOMAIN sent
        BY DEF Restrict
      <4>2. \A f \in FieldsOf(i) \cap DOMAIN sent : Restrict(sent, FieldsOf(i) \cap DOMAIN sent)[f] = sent[f]
        BY DEF Restrict
      <4>3. Given(r) = Updated(Models[i].default, Restrict(sent, FieldsOf(i) \cap DOMAIN sent))
        BY DEF Given, Parsed
      <4> HIDE DEF i, sent
      <4>4. QED
        BY <3>3, <4>1, <4>2, <4>3 DEF Updated
    <3>5. /\ DOMAIN supplied = {f \in FieldsOf(i) : Counts(f, Given(r)[f])}
          /\ \A f \in DOMAIN supplied : supplied[f] = Given(r)[f]
      BY <3>4 DEF Supplied, RestrictDomain, Restrict, Counts
    <3> HIDE DEF i, sent, supplied
    <3>6. \A f \in FieldsOf(i) \cap DOMAIN sent : Counts(f, sent[f]) => f \in DOMAIN new /\ new[f] = sent[f]
      BY <3>1, <3>4, <3>5 DEF Updated
    <3>7. ASSUME NEW f \in DOMAIN old
          PROVE  /\ f \in DOMAIN new
                 /\ \/ new[f] = old[f]
                    \/ f \in FieldsOf(i) \cap DOMAIN sent /\ Counts(f, sent[f])
                    \/ f \in DOMAIN Models[i].default \ DOMAIN sent /\ new[f] = Models[i].default[f]
      <4>1. CASE f \in DOMAIN supplied
        <5>1. f \in FieldsOf(i) /\ Counts(f, Given(r)[f]) /\ new[f] = Given(r)[f] /\ f \in DOMAIN new
          BY <3>1, <3>5, <4>1 DEF Updated
        <5>2. QED
          BY <3>3, <3>4, <5>1
      <4>2. CASE f \notin DOMAIN supplied
        BY <3>1, <4>2 DEF Updated
      <4>3. QED
        BY <4>1, <4>2
    <3>8. DOMAIN new \subseteq DOMAIN old \cup FieldsOf(i)
      BY <3>1, <3>5 DEF Updated
    <3> HIDE DEF old, new
    <3>9. TakesEffect(sent, i, old, new)
      BY <3>6, <3>7, <3>8 DEF TakesEffect
    <3>10. QED
      BY <3>2, <3>9 DEF sent, old, new
  <2>2. ASSUME NEW q \in Requests, Written(q), q # r PROVE FALSE
    BY <2>2, WrittenCreds
  <2>3. ASSUME NEW q \in Requests, NEW label \in Labels, NEW p \in NewPayloads, Create(q, label, p)
        PROVE  FALSE
    BY <2>3 DEF Create, FreshInv
  <2>4. CASE Quiet
    <3>1. req'[r].at = "patch"
      BY <2>4 DEF Quiet
    <3>2. QED
      BY <3>1
  <2>5. QED
    BY <2>1, <2>2, <2>3, <2>4, QuietSteps
<1>4. QED
  BY <1>1, <1>2, <1>3, PTL DEF Spec, PatchesTakeEffect

-----------------------------------------------------------------------------
(* Races                                                                   *)

\* The credentials after each write of a list, when only some of the patches count.
After(list, kept, after) ==
  after = [i \in 1..Len(list) |->
             IF i = 1 THEN list[1].given
             ELSE IF i \in kept THEN Merge(after[i - 1], list[i].given) ELSE after[i - 1]]
MadeOf(list, kept, creds) == \E after : After(list, kept, after) /\ creds = after[Len(list)]

\* There is one such function only, that Applied chooses.
LEMMA AppliedIs ==
  ASSUME log \in Seq(Entries), NEW kept, NEW creds, MadeOf(log, kept, creds)
  PROVE  Applied(kept) = creds
<1> DEFINE n == Len(log)
           at(h, i) == IF i = 1 THEN log[1].given
                       ELSE IF i \in kept THEN Merge(h[i - 1], log[i].given) ELSE h[i - 1]
<1>1. n \in Nat /\ DOMAIN log = 1..n
  BY LenProperties
<1>2. PICK g : g = [i \in 1..n |-> at(g, i)] /\ creds = g[n]
  BY DEF MadeOf, After
<1> DEFINE chosen == CHOOSE h : h = [i \in DOMAIN log |-> at(h, i)]
<1>3. chosen = [i \in 1..n |-> at(chosen, i)]
  <2>1. g = [i \in DOMAIN log |-> at(g, i)]
    BY <1>1, <1>2
  <2>2. \E h : h = [i \in DOMAIN log |-> at(h, i)]
    BY <2>1
  <2>3. chosen = [i \in DOMAIN log |-> at(chosen, i)]
    BY <2>2
  <2>4. QED
    BY <1>1, <2>3
<1>4. Applied(kept) = chosen[n]
  BY DEF Applied
<1> HIDE DEF chosen, n
<1>5. \A i \in 1..n : chosen[i] = g[i]
  <2> DEFINE differ == {i \in 1..n : chosen[i] # g[i]}
  <2> SUFFICES ASSUME differ # {} PROVE FALSE
    OBVIOUS
  <2>1. differ \subseteq Nat
    BY <1>1
  <2>2. PICK i \in differ : \A m \in differ : i <= m
    BY <2>1, Smallest
  <2>3. i \in 1..n /\ chosen[i] = at(chosen, i) /\ g[i] = at(g, i)
    BY <1>2, <1>3
  <2>4. i # 1
    BY <2>2, <2>3
  <2>5. i - 1 \in 1..n /\ ~(i <= i - 1)
    BY <1>1, <2>3, <2>4
  <2>6. chosen[i - 1] = g[i - 1]
    BY <2>2, <2>5
  <2>7. QED
    BY <2>2, <2>3, <2>4, <2>6
<1>6. n # 0 => chosen[n] = g[n]
  BY <1>1, <1>5
<1>7. n = 0 => chosen = g
  BY <1>2, <1>3
<1>8. QED
  BY <1>2, <1>4, <1>6, <1>7

\* A write more: what was made of the list before it is made of the list after it
\* without the write, and with the write it is merged.
LEMMA MadeMore ==
  ASSUME NEW list \in Seq(Entries), list # <<>>, NEW kept \in SUBSET (2..Len(list)), NEW creds,
         MadeOf(list, kept, creds), NEW entry \in Entries
  PROVE  /\ MadeOf(Append(list, entry), kept, creds)
         /\ MadeOf(Append(list, entry), kept \cup {Len(list) + 1}, Merge(creds, entry.given))
<1> DEFINE n == Len(list)
           more == Append(list, entry)
<1>1. /\ n \in Nat \ {0} /\ Len(more) = n + 1 /\ more[n + 1] = entry
      /\ \A i \in 1..n : more[i] = list[i]
  BY AppendProperties, LenProperties, EmptySeq
<1>2. PICK after : After(list, kept, after) /\ creds = after[n]
  BY DEF MadeOf
<1>3. \A i \in 1..n : after[i] = IF i = 1 THEN list[1].given
                                 ELSE IF i \in kept THEN Merge(after[i - 1], list[i].given)
                                 ELSE after[i - 1]
  BY <1>2 DEF After
<1>4. ASSUME NEW all, NEW last, all \in {kept, kept \cup {n + 1}},
             last = IF n + 1 \in all THEN Merge(creds, entry.given) ELSE creds
      PROVE  MadeOf(more, all, last)
  <2> DEFINE longer == [i \in 1..(n + 1) |-> IF i = n + 1 THEN last ELSE after[i]]
  <2>1. ASSUME NEW i \in 1..(n + 1)
        PROVE  longer[i] = IF i = 1 THEN more[1].given
                           ELSE IF i \in all THEN Merge(longer[i - 1], more[i].given)
                           ELSE longer[i - 1]
    <3>1. CASE i = n + 1
      <4>1. longer[i] = last /\ i # 1 /\ longer[i - 1] = creds /\ more[i] = entry
        BY <1>1, <1>2, <3>1
      <4>2. QED
        BY <1>4, <3>1, <4>1
    <3>2. CASE i # n + 1
      <4>1. i \in 1..n /\ longer[i] = after[i] /\ more[i] = list[i] /\ more[1] = list[1]
        BY <1>1, <3>2
      <4>2. i # 1 => longer[i - 1] = after[i - 1]
        BY <1>1, <4>1
      <4>3. i \in all <=> i \in kept
        BY <1>4, <3>2
      <4>4. QED
        BY <1>3, <4>1, <4>2, <4>3
    <3>3. QED
      BY <3>1, <3>2
  <2>2. longer[n + 1] = last
    BY <1>1
  <2>3. DOMAIN longer = 1..Len(more)
    BY <1>1
  <2>4. After(more, all, longer)
    <3> DEFINE next(i) == IF i = 1 THEN more[1].given
                          ELSE IF i \in all THEN Merge(longer[i - 1], more[i].given)
                          ELSE longer[i - 1]
    <3>1. \A i \in 1..Len(more) : longer[i] = next(i)
      BY <1>1, <2>1
    <3>2. longer = [i \in 1..Len(more) |-> longer[i]]
      BY <2>3
    <3> HIDE DEF longer
    <3>3. longer = [i \in 1..Len(more) |-> next(i)]
      BY <3>1, <3>2
    <3>4. QED
      BY <3>3 DEF After
  <2> HIDE DEF longer
  <2>5. QED
    BY <1>1, <2>2, <2>4 DEF MadeOf
<1>5. n + 1 \notin kept
  BY <1>1
<1>6. MadeOf(more, kept, creds)
  BY <1>4, <1>5
<1>7. MadeOf(more, kept \cup {n + 1}, Merge(creds, entry.given))
  BY <1>4
<1>8. QED
  BY <1>6, <1>7

\* The credentials in the row are made of the log, and so are those that a PATCH at
\* work has read.
RowMade(kept) ==
  /\ Patches # {} => Len(log) \in kept
  /\ (\A i \in Patches : ~log[i].overtaken) => kept = Patches
  /\ MadeOf(log, kept, row.creds)
ReadMade(r) == \E kept \in SUBSET Patches : MadeOf(log, kept, req[r].read)
RaceInv ==
  /\ row # NULL => \E kept \in SUBSET Patches : RowMade(kept)
  /\ \A r \in Requests : req[r].at = "patch" => ReadMade(r)

\* Every step keeps that.
LEMMA RaceStep ==
  ASSUME TypeOK, TypeOK', FreshInv, RaceInv, [Next]_vars
  PROVE  RaceInv'
<1>0. RowOK /\ Records /\ (\A q \in Requests : RequestOK(q)) /\ log \in Seq(Entries)
  BY TypeSplit
<1>1. ASSUME NEW r \in Requests, NEW label \in Labels, NEW p \in NewPayloads, Create(r, label, p)
      PROVE  RaceInv'
  <2> DEFINE entry == [given |-> Parsed(p), overtaken |-> FALSE]
  <2>1. log = <<>> /\ log' = <<entry>> /\ row'.creds = Parsed(p) /\ To(r, "done")
    BY <1>1 DEF Create
  <2>2. \A q \in Requests : req'[q].at # "patch"
    BY <1>0, <2>1, ToStep DEF FreshInv
  <2>3. Len(log') = 1 /\ log'[1] = entry /\ Patches' = {}
    BY <2>1 DEF Patches
  <2>4. MadeOf(log', {}, row'.creds)
    <3> DEFINE after == [i \in 1..1 |-> Parsed(p)]
    <3>1. After(log', {}, after)
      BY <2>3 DEF After
    <3>2. after[Len(log')] = row'.creds
      BY <2>1, <2>3
    <3>3. QED
      BY <3>1, <3>2 DEF MadeOf
  <2>5. RowMade({})'
    BY <2>3, <2>4 DEF RowMade
  <2>6. QED
    BY <2>2, <2>5 DEF RaceInv
<1>2. ASSUME NEW r \in Requests, Written(r)
      PROVE  RaceInv'
  <2> DEFINE n == Len(log)
             entry == [given |-> Given(r), overtaken |-> req[r].overtaken]
  <2>1. /\ log' = Append(log, entry) /\ Overtake(r) /\ row # NULL /\ req[r].at = "patch"
    BY <1>2 DEF PatchWrite, Written
  <2>2. /\ row'.creds = Merge(req[r].read, Given(r)) /\ req[r].sent \in Payloads
        /\ ~req[r].overtaken => req[r].read = row.creds
    BY <1>2, WrittenCreds
  <2>3. entry \in Entries /\ entry.given = Given(r) /\ entry.overtaken = req[r].overtaken
    BY <1>0, <2>2, EntryOK DEF Given, RequestOK
  <2>4. log # <<>> /\ n \in Nat \ {0}
    BY <1>0, <2>1, LenProperties, EmptySeq DEF FreshInv
  <2>5. /\ Len(log') = n + 1 /\ log'[n + 1] = entry
        /\ \A i \in 1..n : log'[i] = log[i]
        /\ Patches = 2..n /\ Patches' = 2..(n + 1) /\ Patches' = Patches \cup {n + 1}
    BY <1>0, <2>1, <2>3, <2>4, AppendProperties DEF Patches
  <2>6. PICK kept \in SUBSET Patches :
          /\ MadeOf(log, kept, req[r].read)
          /\ ~req[r].overtaken /\ (\A i \in Patches : ~log[i].overtaken) => kept = Patches
    <3>1. CASE req[r].overtaken
      BY <2>1, <3>1 DEF RaceInv, ReadMade
    <3>2. CASE ~req[r].overtaken
      BY <2>1, <2>2, <3>2 DEF RaceInv, RowMade
    <3>3. QED
      BY <3>1, <3>2
  <2>7. MadeOf(log', kept \cup {n + 1}, row'.creds)
    <3>1. kept \in SUBSET (2..Len(log))
      BY <2>5, <2>6
    <3>2. MadeOf(Append(log, entry), kept \cup {Len(log) + 1}, Merge(req[r].read, entry.given))
      BY <1>0, <2>3, <2>4, <2>6, <3>1, MadeMore
    <3>3. QED
      BY <2>1, <2>2, <2>3, <3>2
  <2>8. (\A i \in Patches' : ~log'[i].overtaken) => kept \cup {n + 1} = Patches'
    <3> SUFFICES ASSUME \A i \in Patches' : ~log'[i].overtaken PROVE kept = Patches
      BY <2>5
    <3>1. ~req[r].overtaken
      BY <2>3, <2>4, <2>5
    <3>2. ASSUME NEW i \in Patches PROVE ~log[i].overtaken
      <4>1. i \in 1..n /\ i \in Patches'
        BY <2>4, <2>5
      <4>2. QED
        BY <2>5, <4>1
    <3>3. QED
      BY <2>6, <3>1, <3>2
  <2>9. \E all \in SUBSET Patches' : RowMade(all)'
    <3>1. PICK all \in SUBSET Patches' : all = kept \cup {n + 1}
      BY <2>5
    <3>2. RowMade(all)'
      BY <2>5, <2>7, <2>8, <3>1 DEF RowMade
    <3>3. QED
      BY <3>2
  <2>10. ASSUME NEW q \in Requests, req'[q].at = "patch" PROVE ReadMade(q)'
    <3>1. q # r /\ req[q].at = "patch" /\ req'[q].read = req[q].read
      BY <1>0, <2>1, <2>10, OvertakeStep
    <3>2. PICK old \in SUBSET Patches : MadeOf(log, old, req[q].read)
      BY <3>1 DEF RaceInv, ReadMade
    <3>3. MadeOf(log', old, req'[q].read)
      BY <1>0, <2>1, <2>3, <2>4, <2>5, <3>1, <3>2, MadeMore
    <3>4. old \in SUBSET Patches'
      BY <2>5
    <3>5. QED
      BY <3>3, <3>4 DEF ReadMade
  <2>11. QED
    BY <2>9, <2>10 DEF RaceInv
<1>3. CASE Quiet
  <2>1. Patches' = Patches /\ log' = log
    BY <1>3 DEF Quiet, Patches
  <2>2. row' # NULL => \E kept \in SUBSET Patches' : RowMade(kept)'
    BY <1>3, <2>1 DEF Quiet, RaceInv, RowMade
  <2>3. ASSUME NEW q \in Requests, req'[q].at = "patch" PROVE ReadMade(q)'
    <3>1. req'[q] = req[q] \/ (row # NULL /\ req'[q].read = row.creds)
      BY <1>3, <2>3 DEF Quiet
    <3>2. \E kept \in SUBSET Patches : MadeOf(log, kept, req'[q].read)
      BY <2>3, <3>1 DEF RaceInv, RowMade, ReadMade
    <3>3. QED
      BY <2>1, <3>2 DEF ReadMade
  <2>4. QED
    BY <2>2, <2>3 DEF RaceInv
<1>4. QED
  BY <1>1, <1>2, <1>3, QuietSteps

\* A race of PATCH requests loses whole patches, never a part of one, and never the
\* last; without a race none is lost.
THEOREM RacesHold == Spec => []RacesLosePatchesWhole
<1> DEFINE Raced == TypeOK /\ FreshInv /\ RaceInv
<1>1. Init => Raced
  BY TypeInit DEF Init, FreshInv, RaceInv, Idle
<1>2. Raced /\ [Next]_vars => Raced'
  BY TypeStep, FreshStep, RaceStep
<1>3. Raced => RacesLosePatchesWhole
  <2> SUFFICES ASSUME Raced, row # NULL
               PROVE  \E kept \in SUBSET Patches :
                        /\ Patches # {} => Len(log) \in kept
                        /\ (\A i \in Patches : ~log[i].overtaken) => kept = Patches
                        /\ row.creds = Applied(kept)
    BY DEF RacesLosePatchesWhole
  <2>1. PICK kept \in SUBSET Patches : RowMade(kept)
    BY DEF RaceInv
  <2>2. log \in Seq(Entries)
    BY DEF TypeOK
  <2>3. Applied(kept) = row.creds
    BY <2>1, <2>2, AppliedIs DEF RowMade
  <2>4. QED
    BY <2>1, <2>3 DEF RowMade
<1>4. QED
  BY <1>1, <1>2, <1>3, PTL DEF Spec

=============================================================================
