----------------------------- MODULE RelayProofs -----------------------------
(***************************************************************************)
(* Theorems about Relay, for every set of runs.                            *)
(***************************************************************************)
EXTENDS Relay, FiniteSetTheorems, SequenceTheorems, TLAPS

-----------------------------------------------------------------------------
(* The session                                                             *)

Working == {"fetch", "relay", "upload", "flush", "complete"}

\* What the script knows of its session at each place.
SessionInv ==
  /\ at = "create" => session = NULL /\ ~aborted
  /\ at \in Working => session = "open" /\ ~aborted
  /\ at = "done" => session = "completed" /\ ~aborted
  /\ at = "abort" => ~aborted /\ (session = "open" \/ (session = "completed" /\ "complete" \in lost))
  /\ at = "failed" => /\ session = "open" => aborted \/ {"create", "abort"} \cap lost # {}
                      /\ session = "completed" => "complete" \in lost
  /\ at \in Places

\* It stays what the script knows.
LEMMA SessionStep ==
  ASSUME SessionInv, [Next]_vars
  PROVE  SessionInv'
<1>1. CASE CreateSession
  BY <1>1 DEF CreateSession, SessionInv, Working, Places, Ended
<1>2. CASE CreateFails
  BY <1>2, NullAssumption DEF CreateFails, SessionInv, Working, Places, Ended
<1>3. CASE FetchPage
  BY <1>3 DEF FetchPage, SessionInv, Working, Places, Ended, bridgeVars
<1>4. CASE TakeRecord
  BY <1>4 DEF TakeRecord, SessionInv, Working, Places, Ended, bridgeVars
<1>5. CASE Upload
  BY <1>5 DEF Upload, SessionInv, Working, Places, Ended
<1>6. CASE TurnPage
  BY <1>6 DEF TurnPage, SessionInv, Working, Places, Ended, bridgeVars
<1>7. CASE Flush
  BY <1>7 DEF Flush, SessionInv, Working, Places, Ended
<1>8. CASE Complete
  BY <1>8 DEF Complete, SessionInv, Working, Places, Ended
<1>9. CASE Raise
  <2>1. at \in Working /\ at' = "abort" /\ session = "open" /\ ~aborted
    BY <1>9 DEF Raise, SessionInv, Working
  <2>2. /\ aborted' = aborted
        /\ session' = session \/ (session' = "completed" /\ "complete" \in lost')
    BY <1>9 DEF Raise, bridgeVars
  <2>3. QED
    BY <2>1, <2>2 DEF SessionInv, Working, Places, Ended
<1>10. CASE Abort
  BY <1>10 DEF Abort, SessionInv, Working, Places, Ended
<1>11. CASE UNCHANGED vars
  BY <1>11 DEF vars, bridgeVars, SessionInv
<1>12. QED
  BY <1>1, <1>2, <1>3, <1>4, <1>5, <1>6, <1>7, <1>8, <1>9, <1>10, <1>11 DEF Next

\* A script that has ended leaves no session open, and aborts none that it completed,
\* unless the reply to that very call was lost.
THEOREM SessionHolds == Spec => []SessionIsClosed
<1>1. Init => SessionInv
  BY NullAssumption DEF Init, SessionInv, Working, Places
<1>2. SessionInv /\ [Next]_vars => SessionInv'
  BY SessionStep
<1>3. SessionInv => SessionIsClosed
  BY NullAssumption DEF SessionInv, SessionIsClosed, Working, Places, Ended
<1>4. QED
  BY <1>1, <1>2, <1>3, PTL DEF Spec

-----------------------------------------------------------------------------
(* Types                                                                   *)

\* What the constants of a run are.
RunOK ==
  /\ cfg \in Configs /\ cfg.type \in Paginations /\ cfg.end \in {NULL, EMPTY}
  /\ cfg.size \in Nat /\ cfg.chunk \in Nat /\ cfg.cap \in Nat /\ cfg.total \in Nat /\ cfg.base \in Nat
  /\ cfg.size > 0 /\ cfg.chunk > 0 /\ cfg.cap > 0
  /\ cfg.start \in Nat \cup {NULL} /\ cfg.maxPages \in Nat \cup {NULL} /\ cfg.limit \in Nat \cup {NULL}
  /\ cfg.type = "page" => cfg.base \in {0, 1} /\ (cfg.start = NULL \/ cfg.start >= cfg.base)

LEMMA RunIs ==
  ASSUME cfg \in Configs
  PROVE  RunOK
BY ConfigsAssumption DEF RunOK

\* A position that the source knows: pages are numbered from base on.
Known(p) == p \in Positions /\ (cfg.type = "page" /\ p \in Nat => p >= cfg.base)

\* What the records before the page asked for are, by the position.
BeforeAt(p) ==
  CASE cfg.type = "none" -> 0
    [] cfg.type = "page" -> (Given(p, cfg.base) - cfg.base) * Served
    [] OTHER -> Given(p, 0)

LEMMA BeforeIs ==
  ASSUME RunOK, NEW p, Known(p)
  PROVE  BeforeAt(p) \in Nat
<1>1. Served \in Nat
  BY DEF RunOK, Served, Least
<1>2. CASE cfg.type = "page"
  <2> DEFINE n == Given(p, cfg.base) - cfg.base
  <2>1. n \in Nat
    BY <1>2, NullAssumption DEF Known, Positions, Given, RunOK
  <2>2. n * Served \in Nat
    <3> HIDE DEF n
    <3>1. QED
      BY <1>1, <2>1
  <2>3. QED
    BY <1>2, <2>2 DEF BeforeAt
<1>3. CASE cfg.type # "page"
  BY <1>3, NullAssumption DEF Known, Positions, Given, BeforeAt
<1>4. QED
  BY <1>2, <1>3

\* The page that the source answers: the records from the position on.
LEMMA ReplyIs ==
  ASSUME RunOK, Known(position)
  PROVE  /\ Before \in Nat /\ Served \in Nat \ {0} /\ Reply \in Seq(Nat)
         /\ Len(Reply) = Least(Before + Served, cfg.total) - Least(Before, cfg.total)
         /\ \A p \in 1..Len(Reply) : Reply[p] = Before + p
<1>1. Before \in Nat
  BY BeforeIs DEF BeforeAt, Before
<1>2. Served \in Nat \ {0}
  BY DEF RunOK, Served, Least
<1> DEFINE first == Before + 1
           last == Least(Before + Served, cfg.total)
<1>3. Source \in Seq(Nat) /\ Len(Source) = cfg.total /\ \A i \in 1..cfg.total : Source[i] = i
  BY DEF Source, RunOK
<1>4. first \in Nat \ {0} /\ last \in Nat /\ last <= cfg.total /\ cfg.total \in Nat
  BY <1>1, <1>2 DEF RunOK, Least
<1>5. Reply = SubSeq(Source, first, last)
  BY DEF Reply
<1>6. SubSeq(Source, first, last) = [i \in 1..(1 + last - first) |-> Source[i + first - 1]]
  BY <1>3, <1>4 DEF Before
<1> HIDE DEF first, last
<1>7. \A i \in 1..(1 + last - first) : i + first - 1 \in 1..cfg.total
  BY <1>4
<1> DEFINE n == IF 1 + last - first >= 0 THEN 1 + last - first ELSE 0
<1>8. Reply = [i \in 1..n |-> i + first - 1]
  <2>1. 1..(1 + last - first) = 1..n
    BY <1>4
  <2>2. QED
    BY <1>3, <1>5, <1>6, <1>7, <2>1
<1>9. n \in Nat /\ \A i \in 1..n : i + first - 1 \in Nat
  BY <1>4
<1>10. Reply \in Seq(Nat) /\ Len(Reply) = n
  <2> HIDE DEF n
  <2>1. QED
    BY <1>8, <1>9
<1>11. Len(Reply) = Least(Before + Served, cfg.total) - Least(Before, cfg.total)
  BY <1>1, <1>2, <1>4, <1>10 DEF first, last, Least
<1>12. ASSUME NEW p \in 1..Len(Reply)
       PROVE  Reply[p] = Before + p
  <2>1. Reply[p] = p + first - 1
    BY <1>8, <1>10
  <2>2. QED
    BY <1>1, <1>9, <1>10, <2>1 DEF first
<1>13. QED
  BY <1>1, <1>2, <1>10, <1>11, <1>12

-----------------------------------------------------------------------------
(* The shape of what is uploaded                                           *)

\* The chunk that is not full has been received too.
Put == DOMAIN chunks = 0..index /\ chunks[index] = chunk /\ chunk # <<>>

\* All chunks before index are full, and the one at hand only when it is uploaded; the
\* bridge has those before index, and at the end the one at hand if it is not empty.
ShapeInv ==
  /\ at = "upload" => Len(chunk) = cfg.chunk
  /\ at \in {"create", "fetch", "relay", "flush"} => Len(chunk) < cfg.chunk
  /\ \A i \in 0..(index - 1) : Len(chunks[i]) = cfg.chunk
  /\ DOMAIN chunks = 0..(index - 1) \/ (at \in {"complete", "abort"} \cup Ended /\ Put)
  /\ at \in {"complete", "done"} \/ session = "completed" =>
       Put \/ (chunk = <<>> /\ DOMAIN chunks = 0..(index - 1))
  /\ session = "completed" => at \in {"abort"} \cup Ended /\ declared = uploaded

\* The positions are numbers the source knows.
TypeInv == TypeOK /\ Known(position) /\ Known(next)

\* What next_pagination_value returns is one of them.
LEMMA NextKnown ==
  ASSUME RunOK, Known(position)
  PROVE  Known(NextOf(Reply))
<1>1. Before \in Nat /\ Served \in Nat
  BY ReplyIs
<1>2. Cursor \in Positions
  BY <1>1 DEF Cursor, Positions, RunOK
<1>3. CASE cfg.type \in {"none", "cursor", "nextLink"}
  BY <1>2, <1>3, NullAssumption DEF NextOf, Known, Given, Positions
<1>4. CASE cfg.type = "offset"
  BY <1>4, NullAssumption DEF NextOf, NextOffset, Known, Given, Positions, RunOK
<1>5. CASE cfg.type = "page"
  BY <1>5, NullAssumption DEF NextOf, NextPage, Known, Given, Positions, RunOK
<1>6. QED
  BY <1>3, <1>4, <1>5 DEF RunOK, Paginations

\* Products, as the provers need them.
LEMMA Times ==
  ASSUME NEW i \in Nat, NEW c \in Nat
  PROVE  i * c \in Nat /\ (i + 1) * c = i * c + c
OBVIOUS

\* What the bridge has once it receives the chunk at hand.
LEMMA ReceivedIs ==
  ASSUME TypeOK, DOMAIN chunks = 0..(index - 1), chunks' = Received
  PROVE  /\ DOMAIN chunks' = 0..index /\ chunks'[index] = chunk
         /\ \A i \in 0..(index - 1) : chunks'[i] = chunks[i]
         /\ chunks' \in [DOMAIN chunks' -> Seq(Nat)]
<1>1. index \in Nat /\ chunk \in Seq(Nat) /\ \A i \in DOMAIN chunks : chunks[i] \in Seq(Nat)
  BY DEF TypeOK
<1>2. (0..(index - 1)) \cup {index} = 0..index
  BY <1>1
<1>3. chunks' = [i \in 0..index |-> IF i = index THEN chunk ELSE chunks[i]]
  BY <1>2 DEF Received
<1>4. \A i \in 0..(index - 1) : i \in 0..index /\ i # index
  BY <1>1
<1>5. \A i \in 0..index : i = index \/ i \in DOMAIN chunks
  BY <1>1
<1>6. DOMAIN chunks' = 0..index /\ chunks'[index] = chunk
  BY <1>1, <1>3
<1>7. \A i \in 0..(index - 1) : chunks'[i] = chunks[i]
  BY <1>3, <1>4
<1>8. \A i \in 0..index : chunks'[i] \in Seq(Nat)
  BY <1>1, <1>3, <1>5
<1>9. chunks' \in [0..index -> Seq(Nat)]
  <2>1. chunks' = [i \in 0..index |-> chunks'[i]]
    BY <1>3
  <2>2. QED
    BY <1>8, <2>1
<1>10. QED
  BY <1>6, <1>7, <1>9

\* The script's part of the types.
ScriptOK ==
  /\ cfg \in Configs
  /\ pages \in Nat /\ uploaded \in Nat /\ index \in Nat
  /\ Known(position) /\ Known(next)
  /\ page \in Seq(Nat) /\ chunk \in Seq(Nat) /\ Len(chunk) <= cfg.chunk
  /\ uploaded = index * cfg.chunk + Len(chunk)
\* The bridge's part.
BridgeOK ==
  /\ chunks \in [DOMAIN chunks -> Seq(Nat)]
  /\ session \in {NULL, "open", "completed"} /\ declared \in Nat \cup {NULL}
  /\ aborted \in BOOLEAN /\ lost \subseteq {"create", "complete", "abort"}

LEMMA TypeSplit == TypeInv <=> ScriptOK /\ BridgeOK /\ at \in Places
BY DEF TypeInv, TypeOK, ScriptOK, BridgeOK, Known

\* Types and shape, by the kinds of steps.
LEMMA ShapeStep ==
  ASSUME TypeInv, ShapeInv, [Next]_vars
  PROVE  TypeInv' /\ ShapeInv'
<1> USE DEF Places, Ended
<1>0. ScriptOK /\ BridgeOK /\ at \in Places /\ RunOK
  BY TypeSplit, RunIs DEF ScriptOK
<1> SUFFICES (ScriptOK /\ BridgeOK /\ at \in Places /\ ShapeInv)'
  BY DEF TypeInv, TypeOK, ScriptOK, BridgeOK, Known
<1>c. cfg' = cfg
  BY DEF Next, vars, CreateSession, CreateFails, FetchPage, TakeRecord, Upload, TurnPage, Flush,
         Complete, Raise, Abort
<1>1. CASE CreateSession \/ CreateFails
  <2>1. /\ UNCHANGED <<cfg, scriptVars, chunks, declared, aborted>>
        /\ session' \in {session, "open"} /\ lost' \subseteq {"create", "complete", "abort"}
        /\ at = "create" /\ at' \in {"fetch", "failed"}
    BY <1>0, <1>1 DEF CreateSession, CreateFails, BridgeOK
  <2>2. ScriptOK' /\ BridgeOK' /\ (at \in Places)'
    BY <1>0, <2>1 DEF ScriptOK, BridgeOK, Known, scriptVars
  <2>3. ShapeInv'
    BY <2>1, NullAssumption DEF ShapeInv, Put, scriptVars
  <2>4. QED
    BY <2>2, <2>3
<1>2. CASE FetchPage
  <2>1. Reply \in Seq(Nat) /\ Known(NextOf(Reply))
    BY <1>0, ReplyIs, NextKnown DEF ScriptOK
  <2>2. ScriptOK'
    BY <1>0, <1>2, <2>1 DEF FetchPage, ScriptOK, Known
  <2>3. BridgeOK' /\ (at \in Places)'
    BY <1>0, <1>2 DEF FetchPage, BridgeOK, bridgeVars
  <2>4. ShapeInv'
    BY <1>2 DEF FetchPage, ShapeInv, Put, bridgeVars
  <2>5. QED
    BY <2>2, <2>3, <2>4
<1>3. CASE TakeRecord
  <2>1. /\ Head(page) \in Nat /\ Tail(page) \in Seq(Nat)
        /\ chunk' \in Seq(Nat) /\ Len(chunk') = Len(chunk) + 1
    BY <1>0, <1>3, HeadTailProperties, AppendProperties DEF TakeRecord, ScriptOK
  <2>2. Len(chunk) \in Nat /\ Len(chunk) < cfg.chunk /\ index * cfg.chunk \in Nat
    <3>1. Len(chunk) \in Nat /\ Len(chunk) < cfg.chunk
      BY <1>0, <1>3, LenProperties DEF TakeRecord, ShapeInv, ScriptOK
    <3>2. QED
      BY <1>0, <3>1, Times DEF ScriptOK, RunOK
  <2>3. ScriptOK'
    <3>1. PICK full \in Nat : full = index * cfg.chunk
      BY <2>2
    <3>2. /\ uploaded' \in Nat /\ uploaded' = full + Len(chunk') /\ Len(chunk') <= cfg.chunk
          /\ cfg.chunk \in Nat
      <4>1. uploaded' = uploaded + 1 /\ uploaded = full + Len(chunk) /\ cfg.chunk \in Nat
        BY <1>0, <1>3, <3>1 DEF TakeRecord, ScriptOK, RunOK
      <4>2. QED
        BY <2>1, <2>2, <4>1
    <3>3. UNCHANGED <<cfg, position, pages, index, next>> /\ page' = Tail(page)
      BY <1>3 DEF TakeRecord
    <3>4. uploaded' = index' * cfg'.chunk + Len(chunk') /\ Len(chunk') <= cfg'.chunk
      BY <1>c, <3>1, <3>2, <3>3
    <3>5. QED
      BY <1>0, <2>1, <3>2, <3>3, <3>4 DEF ScriptOK, Known
  <2>4. BridgeOK' /\ (at \in Places)'
    BY <1>0, <1>3 DEF TakeRecord, BridgeOK, bridgeVars
  <2>5. ShapeInv'
    BY <1>0, <1>3, <2>1, <2>2 DEF TakeRecord, ShapeInv, Put, bridgeVars, RunOK
  <2>6. QED
    BY <2>3, <2>4, <2>5
<1>4. CASE Upload
  <2>1. DOMAIN chunks = 0..(index - 1) /\ Len(chunk) = cfg.chunk /\ index \in Nat
    BY <1>0, <1>4 DEF Upload, ShapeInv, ScriptOK
  <2>2. /\ DOMAIN chunks' = 0..index /\ chunks'[index] = chunk
        /\ \A i \in 0..(index - 1) : chunks'[i] = chunks[i]
        /\ chunks' \in [DOMAIN chunks' -> Seq(Nat)]
    BY <1>4, <2>1, ReceivedIs DEF Upload, TypeInv
  <2>3. (index + 1) * cfg.chunk = index * cfg.chunk + cfg.chunk
    BY <1>0, <2>1, Times DEF RunOK
  <2>4. ScriptOK'
    BY <1>0, <1>4, <2>1, <2>3, EmptySeq DEF Upload, ScriptOK, Known, RunOK
  <2>5. BridgeOK' /\ (at \in Places)'
    BY <1>0, <1>4, <2>2 DEF Upload, BridgeOK
  <2>6. index' - 1 = index /\ \A i \in 0..index : i = index \/ i \in 0..(index - 1)
    BY <1>4, <2>1 DEF Upload
  <2>7. ShapeInv'
    BY <1>0, <1>4, <2>1, <2>2, <2>6, EmptySeq DEF Upload, ShapeInv, RunOK
  <2>8. QED
    BY <2>4, <2>5, <2>7
<1>5. CASE TurnPage
  <2>1. ScriptOK'
    BY <1>0, <1>5 DEF TurnPage, ScriptOK, Known
  <2>2. BridgeOK' /\ (at \in Places)'
    BY <1>0, <1>5 DEF TurnPage, BridgeOK, bridgeVars
  <2>3. ShapeInv'
    BY <1>5 DEF TurnPage, ShapeInv, Put, bridgeVars
  <2>4. QED
    BY <2>1, <2>2, <2>3
<1>6. CASE Flush
  <2>1. DOMAIN chunks = 0..(index - 1) /\ index \in Nat /\ session # "completed"
    BY <1>0, <1>6 DEF Flush, ShapeInv, ScriptOK
  <2>2. ScriptOK' /\ (at \in Places)'
    BY <1>0, <1>6 DEF Flush, ScriptOK, Known, scriptVars
  <2>3. CASE chunk = <<>>
    BY <1>0, <1>6, <2>1, <2>2, <2>3 DEF Flush, BridgeOK, ShapeInv, scriptVars
  <2>4. CASE chunk # <<>>
    <3>1. /\ DOMAIN chunks' = 0..index /\ chunks'[index] = chunk
          /\ \A i \in 0..(index - 1) : chunks'[i] = chunks[i]
          /\ chunks' \in [DOMAIN chunks' -> Seq(Nat)]
      BY <1>6, <2>1, <2>4, ReceivedIs DEF Flush, TypeInv
    <3>2. BridgeOK'
      BY <1>0, <1>6, <3>1 DEF Flush, BridgeOK
    <3>3. ShapeInv'
      BY <1>6, <2>1, <2>4, <3>1 DEF Flush, ShapeInv, Put, scriptVars
    <3>4. QED
      BY <2>2, <3>2, <3>3
  <2>5. QED
    BY <2>3, <2>4
<1>7. CASE Complete
  BY <1>0, <1>7 DEF Complete, ScriptOK, BridgeOK, ShapeInv, Put, Known, scriptVars
<1>8. CASE Raise
  <2>1. ScriptOK' /\ (at \in Places)'
    BY <1>0, <1>8 DEF Raise, ScriptOK, Known, scriptVars
  <2>2. CASE UNCHANGED <<bridgeVars, lost>>
    BY <1>0, <1>8, <2>1, <2>2 DEF Raise, BridgeOK, ShapeInv, Put, scriptVars, bridgeVars
  <2>3. CASE /\ at \in {"upload", "flush"} /\ chunk # <<>>
             /\ chunks' = Received
             /\ UNCHANGED <<session, declared, aborted, lost>>
    <3>1. DOMAIN chunks = 0..(index - 1) /\ index \in Nat /\ session # "completed"
      BY <1>0, <2>3 DEF ShapeInv, ScriptOK
    <3>2. /\ DOMAIN chunks' = 0..index /\ chunks'[index] = chunk
          /\ \A i \in 0..(index - 1) : chunks'[i] = chunks[i]
          /\ chunks' \in [DOMAIN chunks' -> Seq(Nat)]
      BY <2>3, <3>1, ReceivedIs DEF TypeInv
    <3>3. BridgeOK'
      BY <1>0, <2>3, <3>2 DEF BridgeOK
    <3>4. ShapeInv'
      BY <1>8, <2>3, <3>1, <3>2 DEF Raise, ShapeInv, Put, scriptVars
    <3>5. QED
      BY <2>1, <3>3, <3>4
  <2>4. CASE /\ at = "complete"
             /\ session' = "completed" /\ declared' = uploaded
             /\ lost' = lost \cup {"complete"}
             /\ UNCHANGED <<chunks, aborted>>
    BY <1>0, <1>8, <2>1, <2>4 DEF Raise, ScriptOK, BridgeOK, ShapeInv, Put, scriptVars
  <2>5. QED
    BY <1>8, <2>2, <2>3, <2>4 DEF Raise
<1>9. CASE Abort
  BY <1>0, <1>9 DEF Abort, ScriptOK, BridgeOK, ShapeInv, Put, Known, scriptVars
<1>10. CASE UNCHANGED vars
  <2>1. ScriptOK' /\ BridgeOK' /\ (at \in Places)'
    BY <1>0, <1>10 DEF vars, ScriptOK, BridgeOK, Known, scriptVars, bridgeVars
  <2>2. ShapeInv'
    BY <1>10 DEF vars, ShapeInv, Put, scriptVars, bridgeVars
  <2>3. QED
    BY <2>1, <2>2
<1>11. QED
  BY <1>1, <1>2, <1>3, <1>4, <1>5, <1>6, <1>7, <1>8, <1>9, <1>10 DEF Next

LEMMA ShapeInit ==
  ASSUME Init
  PROVE  TypeInv /\ ShapeInv
<1>1. RunOK /\ cfg \in Configs
  BY RunIs DEF Init
<1>2. ScriptOK
  BY <1>1, EmptySeq, NullAssumption DEF Init, ScriptOK, Known, Positions, RunOK
<1>3. BridgeOK /\ at \in Places
  <2>1. <<>> \in [{} -> Seq(Nat)] /\ DOMAIN <<>> = {}
    OBVIOUS
  <2>2. QED
    BY <2>1 DEF Init, BridgeOK, Places
<1>4. ShapeInv
  BY <1>1, NullAssumption, EmptySeq DEF Init, ShapeInv, RunOK
<1>5. QED
  BY <1>2, <1>3, <1>4, TypeSplit

\* Every variable keeps its type, and the counter is of the records relayed.
THEOREM TypeCorrect == Spec => []TypeOK
<1>1. Init => TypeInv /\ ShapeInv
  BY ShapeInit
<1>2. TypeInv /\ ShapeInv /\ [Next]_vars => TypeInv' /\ ShapeInv'
  BY ShapeStep
<1>3. TypeInv => TypeOK
  BY DEF TypeInv
<1>4. QED
  BY <1>1, <1>2, <1>3, PTL DEF Spec

-----------------------------------------------------------------------------
(* The contents of what is uploaded                                        *)

\* The pages that may be fetched, and the records on the first n of them.
PagesWanted == AtLeastOne(cfg.maxPages)
OnPages(n) == Least(n * Served, cfg.total)

\* The records relayed when the page at hand is done.
Ahead == uploaded + Len(page)

\* Where the source goes on: before a page is asked for, all records before it have
\* been relayed; with a page at hand, all records before the next are relayed or on it.
\* With maxPages they are those of as many pages as have been fetched.
SourceInv ==
  /\ at \in {"create", "fetch"} =>
       /\ uploaded = Least(BeforeAt(position), cfg.total)
       /\ cfg.maxPages # NULL => pages < PagesWanted /\ BeforeAt(position) = pages * Served
       /\ cfg.type = "page" /\ position \notin Nat => cfg.base = 1
  /\ at \in {"relay", "upload"} =>
       /\ next = NULL => Ahead = cfg.total
       /\ next # NULL => /\ Ahead = Least(BeforeAt(next), cfg.total) /\ next \in Nat
                         /\ cfg.maxPages # NULL => BeforeAt(next) = pages * Served
       /\ cfg.maxPages # NULL => pages \in 1..PagesWanted /\ Ahead = OnPages(pages)

\* The record at each place of a chunk or of the rest of a page.
ContentInv ==
  /\ \A i \in DOMAIN chunks : \A p \in 1..Len(chunks[i]) : chunks[i][p] = i * cfg.chunk + p
  /\ \A p \in 1..Len(chunk) : chunk[p] = index * cfg.chunk + p
  /\ at \in {"relay", "upload"} => \A p \in 1..Len(page) : page[p] = uploaded + p

\* How many records are relayed: no more than the limit, nor than there are on the
\* pages; at the end as many as were wanted.
CountInv ==
  /\ uploaded <= cfg.total
  /\ cfg.limit # NULL =>
       /\ at \in {"create", "fetch", "relay"} => uploaded < AtLeastOne(cfg.limit)
       /\ at = "upload" => uploaded \in 1..AtLeastOne(cfg.limit)
  /\ at \in {"flush", "complete", "done"} \/ session = "completed" => uploaded = Wanted

RelayInv == Suits => SourceInv /\ ContentInv /\ CountInv

\* What holds for sources that do not suit, too. The chunks and the one at hand, by index.
Got(i) == IF i = index THEN chunk ELSE chunks[i]
InOrder ==
  \A i, k \in 0..index : \A p \in 1..Len(Got(i)), q \in 1..Len(Got(k)) :
    i < k \/ (i = k /\ p < q) => Got(i)[p] < Got(k)[q]
UpTo(n) == \A i \in 0..index : \A p \in 1..Len(Got(i)) : Got(i)[p] <= n
PageBehind ==
  \A q \in 1..Len(page) : \A i \in 0..index : \A p \in 1..Len(Got(i)) : Got(i)[p] < page[q]

\* Records come in the order of the source, if it goes on behind the pages it has served.
OrderInv ==
  /\ InOrder
  /\ at \in {"create", "fetch"} => UpTo(BeforeAt(position))
  /\ at \in {"relay", "upload"} =>
       /\ \A p, q \in 1..Len(page) : p < q => page[p] < page[q]
       /\ PageBehind
       /\ next # NULL => UpTo(BeforeAt(next)) /\ \A q \in 1..Len(page) : page[q] <= BeforeAt(next)

\* The limit holds.
LimitInv ==
  cfg.limit # NULL =>
    /\ uploaded <= AtLeastOne(cfg.limit)
    /\ at \in {"create", "fetch", "relay"} => uploaded < AtLeastOne(cfg.limit)

Inv == TypeInv /\ ShapeInv /\ SessionInv /\ RelayInv /\ LimitInv /\ (StartsOver \/ OrderInv)

\* A step leaves the run as it is, and so whether it suits and what is wanted.
LEMMA RunStays ==
  ASSUME [Next]_vars
  PROVE  /\ cfg' = cfg /\ Suits' = Suits /\ Wanted' = Wanted /\ Served' = Served
         /\ \A p : BeforeAt(p)' = BeforeAt(p)
<1>1. cfg' = cfg
  BY DEF Next, vars, CreateSession, CreateFails, FetchPage, TakeRecord, Upload, TurnPage, Flush,
         Complete, Raise, Abort
<1>2. QED
  BY <1>1 DEF Suits, Wanted, InPages, FromStart, Served, BeforeAt, Given, Least, AtLeastOne

\* A page that suits leads to the next, or is the last.
LEMMA NextSuits ==
  ASSUME RunOK, Suits, Known(position),
         cfg.type = "page" /\ position \notin Nat => cfg.base = 1
  PROVE  /\ NextOf(Reply) = NULL => Least(Before + Served, cfg.total) = cfg.total
         /\ NextOf(Reply) # NULL => /\ NextOf(Reply) \in Nat
                                    /\ BeforeAt(NextOf(Reply)) = Before + Served
<1>0. /\ Before \in Nat /\ Served \in Nat \ {0} /\ cfg.total \in Nat
      /\ Reply \in Seq(Nat)
      /\ Len(Reply) = Least(Before + Served, cfg.total) - Least(Before, cfg.total)
  BY ReplyIs DEF RunOK
<1>1. Reply = <<>> => Least(Before + Served, cfg.total) = cfg.total
  BY <1>0, EmptySeq DEF Least
<1>2. CASE cfg.type = "none"
  BY <1>0, <1>2 DEF NextOf, Suits, Least, Before
<1>3. CASE cfg.type \in {"cursor", "nextLink"}
  <2>1. NextOf(Reply) = IF Before + Served < cfg.total THEN Before + Served ELSE NULL
    <3>1. Before + Served \in Nat /\ Before + Served \notin {NULL, EMPTY} /\ cfg.end \in {NULL, EMPTY}
      BY <1>0, NullAssumption DEF RunOK
    <3>2. CASE cfg.type = "cursor"
      BY <3>2 DEF NextOf, Suits, Cursor
    <3>3. CASE cfg.type = "nextLink"
      <4>1. NextOf(Reply) = IF Cursor \in {NULL, EMPTY} THEN NULL ELSE Cursor
        BY <3>3 DEF NextOf, Given
      <4>2. QED
        BY <3>1, <4>1 DEF Cursor
    <3>4. QED
      BY <1>3, <3>2, <3>3
  <2>2. BeforeAt(Before + Served) = Before + Served
    BY <1>0, <1>3, NullAssumption DEF BeforeAt, Given
  <2>3. QED
    BY <1>0, <2>1, <2>2, NullAssumption DEF Least
<1>4. CASE cfg.type = "offset"
  <2>1. Served = cfg.size /\ Before = Given(position, 0)
    BY <1>4 DEF Served, Least, Suits, RunOK, Before
  <2>2. NextOf(Reply) = IF Reply = <<>> THEN NULL ELSE Before + Served
    BY <1>4, <2>1 DEF NextOf, NextOffset
  <2>3. BeforeAt(Before + Served) = Before + Served
    BY <1>0, <1>4, NullAssumption DEF BeforeAt, Given
  <2>4. QED
    BY <1>0, <1>1, <2>2, <2>3, NullAssumption
<1>5. CASE cfg.type = "page"
  <2> DEFINE n == Given(position, 1)
             k == n - cfg.base
  <2>1. n \in Nat /\ k \in Nat /\ n = Given(position, cfg.base)
    BY <1>5, NullAssumption DEF Known, Positions, Given, RunOK
  <2>2. NextOf(Reply) = IF Reply = <<>> THEN NULL ELSE n + 1
    BY <1>5 DEF NextOf, NextPage
  <2>3. Before = k * Served
    BY <1>5, <2>1 DEF Before
  <2>4. BeforeAt(n + 1) = (k + 1) * Served
    <3>1. PICK after \in Nat : after = n + 1 /\ k + 1 = after - cfg.base
      BY <2>1 DEF RunOK
    <3>2. Given(after, cfg.base) = after
      BY NullAssumption DEF Given
    <3>3. BeforeAt(after) = (after - cfg.base) * Served
      BY <1>5, <3>2 DEF BeforeAt
    <3>4. QED
      BY <3>1, <3>3
  <2> HIDE DEF n, k
  <2>5. BeforeAt(n + 1) = Before + Served
    BY <1>0, <2>1, <2>3, <2>4, Times
  <2>6. QED
    BY <1>0, <1>1, <2>1, <2>2, <2>5, NullAssumption
<1>6. QED
  BY <1>2, <1>3, <1>4, <1>5 DEF RunOK, Paginations

\* The page after n pages is after the records on them.
LEMMA PageMore ==
  ASSUME NEW i \in Nat, NEW k \in Nat, NEW s \in Nat, i <= k
  PROVE  i * s <= k * s
<1>1. PICK d \in Nat : k = i + d
  <2>1. k - i \in Nat /\ k = i + (k - i)
    OBVIOUS
  <2>2. QED
    BY <2>1
<1>2. (i + d) * s = i * s + d * s /\ i * s \in Nat /\ d * s \in Nat
  OBVIOUS
<1>3. QED
  BY <1>1, <1>2

\* What is relayed with the page at hand is among the pages wanted; and all of it when
\* no page is to follow.
LEMMA AheadIs ==
  ASSUME RunOK, SourceInv, at \in {"relay", "upload"}, uploaded \in Nat, page \in Seq(Nat),
         next = NULL \/ BeforeAt(next) \in Nat, pages \in Nat
  PROVE  /\ Ahead \in Nat /\ InPages \in Nat /\ Ahead <= InPages /\ InPages <= cfg.total
         /\ next = NULL \/ (cfg.maxPages # NULL /\ pages >= cfg.maxPages) => Ahead = InPages
<1>1. Ahead \in Nat /\ cfg.total \in Nat /\ Served \in Nat
  BY LenProperties DEF Ahead, RunOK, Served, Least
<1>2. CASE cfg.maxPages = NULL
  BY <1>1, <1>2 DEF SourceInv, InPages, Least
<1>3. CASE cfg.maxPages # NULL
  <2>1. PagesWanted \in Nat /\ cfg.maxPages \in Nat
    BY <1>3 DEF RunOK, PagesWanted, AtLeastOne
  <2>2. pages \in 1..PagesWanted /\ Ahead = Least(pages * Served, cfg.total)
    BY <1>3 DEF SourceInv, OnPages
  <2>3. InPages = Least(cfg.total, PagesWanted * Served)
    BY <1>3 DEF InPages, PagesWanted
  <2>4. pages * Served \in Nat /\ PagesWanted * Served \in Nat /\ pages * Served <= PagesWanted * Served
    BY <1>1, <2>1, <2>2, PageMore, Times
  <2>5. Ahead <= InPages /\ InPages \in Nat /\ InPages <= cfg.total
    <3> DEFINE a == pages * Served
               b == PagesWanted * Served
    <3> HIDE DEF a, b
    <3>1. a \in Nat /\ b \in Nat /\ a <= b
      BY <2>4 DEF a, b
    <3>2. Ahead = Least(a, cfg.total) /\ InPages = Least(cfg.total, b)
      BY <2>2, <2>3 DEF a, b
    <3>3. QED
      BY <1>1, <3>1, <3>2 DEF Least
  <2>6. ASSUME pages >= cfg.maxPages PROVE Ahead = InPages
    <3>1. pages = PagesWanted
      BY <2>1, <2>2, <2>6 DEF PagesWanted, AtLeastOne
    <3>2. Ahead = Least(PagesWanted * Served, cfg.total)
      BY <2>2, <3>1
    <3>3. QED
      BY <1>1, <2>3, <2>4, <3>2 DEF Least
  <2>7. ASSUME next = NULL PROVE Ahead = InPages
    <3>1. Ahead = cfg.total
      BY <2>7 DEF SourceInv
    <3>2. QED
      BY <1>1, <2>5, <3>1
  <2>8. QED
    BY <1>1, <2>5, <2>6, <2>7
<1>4. QED
  BY <1>2, <1>3

\* The steps that fetch and relay are the only ones that touch what the places before
\* the end rest on.
LEMMA Quiet ==
  ASSUME [Next]_vars, ~FetchPage, ~TakeRecord, ~TurnPage, ~Upload
  PROVE  /\ UNCHANGED <<cfg, scriptVars>>
         /\ at' \in {"fetch", "complete", "done", "abort", "failed"} \/ at' = at
         /\ at' = "fetch" => at \in {"create", "fetch"}
BY DEF Next, vars, CreateSession, CreateFails, Flush, Complete, Raise, Abort

\* The source goes on where the records relayed end.
LEMMA SourceStep ==
  ASSUME TypeInv, Suits, SourceInv, [Next]_vars
  PROVE  SourceInv'
<1>0. ScriptOK /\ RunOK
  BY TypeSplit, RunIs DEF ScriptOK
<1>c. /\ cfg' = cfg /\ Served' = Served /\ PagesWanted' = PagesWanted
      /\ \A p : BeforeAt(p)' = BeforeAt(p)
  BY RunStays DEF PagesWanted, AtLeastOne
<1>1. CASE FetchPage
  <2>1. /\ at = "fetch" /\ at' = "relay" /\ page' = Reply /\ next' = NextOf(Reply)
        /\ uploaded' = uploaded
        /\ pages' = IF cfg.maxPages = NULL THEN pages ELSE pages + 1
    BY <1>1 DEF FetchPage
  <2>2. /\ uploaded = Least(Before, cfg.total)
        /\ cfg.maxPages # NULL => pages < PagesWanted /\ Before = pages * Served
        /\ cfg.type = "page" /\ position \notin Nat => cfg.base = 1
    BY <2>1 DEF SourceInv, Before, BeforeAt
  <2>3. /\ Before \in Nat /\ Served \in Nat \ {0} /\ Reply \in Seq(Nat) /\ cfg.total \in Nat
        /\ Len(Reply) = Least(Before + Served, cfg.total) - Least(Before, cfg.total)
    BY <1>0, ReplyIs DEF ScriptOK, RunOK
  <2>4. Ahead' = Least(Before + Served, cfg.total)
    <3>1. Ahead' = uploaded + Len(Reply)
      BY <2>1 DEF Ahead
    <3>2. QED
      BY <2>2, <2>3, <3>1 DEF Least
  <2>5. /\ NextOf(Reply) = NULL => Ahead' = cfg.total
        /\ NextOf(Reply) # NULL => /\ NextOf(Reply) \in Nat
                                   /\ BeforeAt(NextOf(Reply)) = Before + Served
    BY <1>0, <2>2, <2>4, NextSuits DEF ScriptOK
  <2>6. ASSUME cfg.maxPages # NULL
        PROVE  /\ pages' \in 1..PagesWanted /\ Before + Served = pages' * Served
    <3>1. PagesWanted \in Nat /\ pages \in Nat /\ pages' = pages + 1 /\ pages < PagesWanted
      BY <1>0, <2>1, <2>2, <2>6 DEF PagesWanted, AtLeastOne, RunOK, ScriptOK
    <3>2. (pages + 1) * Served = pages * Served + Served
      BY <2>3, <3>1, Times
    <3>3. QED
      BY <2>2, <2>6, <3>1, <3>2
  <2>7. BeforeAt(next') = BeforeAt(next)'
    BY <2>1, <1>c DEF BeforeAt, Served
  <2>8. QED
    BY <1>c, <2>1, <2>4, <2>5, <2>6, <2>7 DEF SourceInv, OnPages, Least
<1>2. CASE TakeRecord
  <2>1. /\ at = "relay" /\ at' \in {"relay", "upload", "flush"} /\ page # <<>>
        /\ page' = Tail(page) /\ uploaded' = uploaded + 1 /\ pages' = pages /\ next' = next
    BY <1>2 DEF TakeRecord
  <2>2. Len(page') = Len(page) - 1 /\ Len(page) \in Nat
    BY <1>0, <2>1, HeadTailProperties, LenProperties DEF ScriptOK
  <2>3. Ahead' = Ahead
    BY <1>0, <2>1, <2>2 DEF Ahead, ScriptOK
  <2>4. QED
    BY <1>c, <2>1, <2>3 DEF SourceInv, OnPages, Least, BeforeAt, Served
<1>3. CASE Upload
  <2>1. /\ at = "upload" /\ at' \in {"relay", "flush"}
        /\ UNCHANGED <<page, next, uploaded, pages>>
    BY <1>3 DEF Upload
  <2>2. Ahead' = Ahead
    BY <2>1 DEF Ahead
  <2>3. QED
    BY <1>c, <2>1, <2>2 DEF SourceInv, OnPages, Least, BeforeAt, Served
<1>4. CASE TurnPage
  <2>1. at = "relay" /\ page = <<>> /\ UNCHANGED <<uploaded, pages>>
    BY <1>4 DEF TurnPage
  <2>2. CASE at' = "flush"
    BY <2>2 DEF SourceInv
  <2>3. CASE at' # "flush"
    <3>1. /\ next # NULL /\ at' = "fetch" /\ position' = next
          /\ ~(cfg.maxPages # NULL /\ pages >= cfg.maxPages)
      BY <1>4, <2>3 DEF TurnPage
    <3>2. Ahead = uploaded
      BY <1>0, <2>1, EmptySeq DEF Ahead, ScriptOK
    <3>3. /\ uploaded = Least(BeforeAt(next), cfg.total) /\ next \in Nat
          /\ cfg.maxPages # NULL => pages \in 1..PagesWanted /\ BeforeAt(next) = pages * Served
      BY <2>1, <3>1, <3>2 DEF SourceInv
    <3>4. cfg.maxPages # NULL => pages < PagesWanted
      BY <1>0, <3>1, <3>3 DEF PagesWanted, AtLeastOne, RunOK, ScriptOK
    <3>5. BeforeAt(position)' = BeforeAt(next)
      BY <1>c, <3>1 DEF BeforeAt, Served
    <3>6. position' \in Nat
      BY <3>1, <3>3
    <3>7. QED
      BY <1>c, <2>1, <3>1, <3>3, <3>4, <3>5, <3>6 DEF SourceInv, Least
  <2>4. QED
    BY <2>2, <2>3
<1>5. CASE ~FetchPage /\ ~TakeRecord /\ ~TurnPage /\ ~Upload
  <2>1. /\ UNCHANGED <<cfg, scriptVars>>
        /\ at' \in {"fetch", "complete", "done", "abort", "failed"} \/ at' = at
        /\ at' = "fetch" => at \in {"create", "fetch"}
    BY <1>5, Quiet
  <2>2. /\ UNCHANGED <<position, pages, uploaded, page, next>>
        /\ BeforeAt(position)' = BeforeAt(position) /\ BeforeAt(next)' = BeforeAt(next)
        /\ Ahead' = Ahead /\ OnPages(pages)' = OnPages(pages)
    BY <1>c, <2>1 DEF scriptVars, BeforeAt, Served, Ahead, OnPages, Least
  <2>3. QED
    BY <1>c, <2>1, <2>2 DEF SourceInv, Least
<1>6. QED
  BY <1>1, <1>2, <1>3, <1>4, <1>5

\* The chunks continue the source.
LEMMA ContentStep ==
  ASSUME TypeInv, ShapeInv, Suits, SourceInv, ContentInv, [Next]_vars
  PROVE  ContentInv'
<1>0. ScriptOK /\ RunOK
  BY TypeSplit, RunIs DEF ScriptOK
<1>c. cfg' = cfg
  BY RunStays
<1>r. ASSUME chunks' = Received, DOMAIN chunks = 0..(index - 1)
      PROVE  \A i \in DOMAIN chunks' : \A p \in 1..Len(chunks'[i]) : chunks'[i][p] = i * cfg.chunk + p
  <2>1. /\ DOMAIN chunks' = 0..index /\ chunks'[index] = chunk
        /\ \A i \in 0..(index - 1) : chunks'[i] = chunks[i]
    BY <1>r, ReceivedIs DEF TypeInv
  <2>2. ASSUME NEW i \in 0..index, NEW p \in 1..Len(chunks'[i])
        PROVE  chunks'[i][p] = i * cfg.chunk + p
    <3>1. CASE i = index
      BY <2>1, <2>2, <3>1 DEF ContentInv
    <3>2. CASE i # index
      <4>1. i \in 0..(index - 1)
        BY <1>0, <3>2 DEF ScriptOK
      <4>2. QED
        BY <1>r, <2>1, <2>2, <4>1 DEF ContentInv
    <3>3. QED
      BY <3>1, <3>2
  <2>3. QED
    BY <2>1, <2>2
<1>1. CASE FetchPage
  <2>1. /\ at = "fetch" /\ page' = Reply /\ UNCHANGED <<uploaded, index, chunk, chunks>>
    BY <1>1 DEF FetchPage, bridgeVars
  <2>2. uploaded = Least(Before, cfg.total)
    BY <2>1 DEF SourceInv, Before, BeforeAt
  <2>3. /\ Before \in Nat /\ Served \in Nat /\ cfg.total \in Nat /\ Reply \in Seq(Nat)
        /\ Len(Reply) = Least(Before + Served, cfg.total) - Least(Before, cfg.total)
        /\ \A p \in 1..Len(Reply) : Reply[p] = Before + p
    BY <1>0, ReplyIs DEF ScriptOK, RunOK
  <2>4. Len(Reply) \in Nat /\ (Len(Reply) > 0 => Before = uploaded)
    BY <2>2, <2>3, LenProperties DEF Least
  <2>5. \A p \in 1..Len(Reply) : Reply[p] = uploaded + p
    BY <2>3, <2>4
  <2>6. QED
    BY <1>c, <2>1, <2>5 DEF ContentInv
<1>2. CASE TakeRecord
  <2>1. /\ at = "relay" /\ page # <<>> /\ page' = Tail(page) /\ chunk' = Append(chunk, Head(page))
        /\ uploaded' = uploaded + 1 /\ UNCHANGED <<index, chunks>>
    BY <1>2 DEF TakeRecord, bridgeVars
  <2>2. /\ Len(page) \in Nat \ {0} /\ Len(page') = Len(page) - 1 /\ Head(page) = page[1]
        /\ \A p \in 1..Len(page') : page'[p] = page[p + 1]
    BY <1>0, <2>1, HeadTailProperties, LenProperties, EmptySeq DEF ScriptOK
  <2>3. \A p \in 1..Len(page) : page[p] = uploaded + p
    BY <2>1 DEF ContentInv
  <2>4. /\ Len(chunk) \in Nat /\ Len(chunk') = Len(chunk) + 1 /\ chunk'[Len(chunk) + 1] = Head(page)
        /\ \A p \in 1..Len(chunk) : chunk'[p] = chunk[p]
    BY <1>0, <2>1, <2>2, <2>3, AppendProperties, LenProperties DEF ScriptOK
  <2>5. Head(page) = index * cfg.chunk + (Len(chunk) + 1)
    <3>1. Head(page) = uploaded + 1
      BY <2>2, <2>3
    <3>2. uploaded = index * cfg.chunk + Len(chunk) /\ index * cfg.chunk \in Nat
      BY <1>0, Times DEF ScriptOK, RunOK
    <3>3. QED
      BY <2>4, <3>1, <3>2
  <2>6. \A p \in 1..Len(chunk') : chunk'[p] = index * cfg.chunk + p
    <3>1. \A p \in 1..Len(chunk') : p \in 1..Len(chunk) \/ p = Len(chunk) + 1
      BY <2>4
    <3>2. \A p \in 1..Len(chunk) : chunk[p] = index * cfg.chunk + p
      BY DEF ContentInv
    <3>3. QED
      BY <2>4, <2>5, <3>1, <3>2
  <2>7. ASSUME NEW p \in 1..Len(page')
        PROVE  page'[p] = uploaded' + p
    <3>1. p \in Nat /\ p + 1 \in 1..Len(page)
      BY <2>2
    <3>2. page'[p] = uploaded + (p + 1)
      BY <2>2, <2>3, <2>7, <3>1
    <3>3. uploaded \in Nat /\ uploaded' = uploaded + 1
      BY <1>0, <2>1 DEF ScriptOK
    <3>4. QED
      BY <3>1, <3>2, <3>3
  <2>8. QED
    BY <1>c, <2>1, <2>6, <2>7 DEF ContentInv
<1>3. CASE Upload
  <2>1. /\ at = "upload" /\ chunks' = Received /\ chunk' = <<>> /\ index' = index + 1
        /\ UNCHANGED <<page, uploaded>>
    BY <1>3 DEF Upload
  <2>2. DOMAIN chunks = 0..(index - 1)
    BY <2>1 DEF ShapeInv, Ended
  <2>3. \A p \in 1..Len(chunk') : chunk'[p] = index' * cfg.chunk + p
    BY <2>1, EmptySeq
  <2>4. QED
    BY <1>c, <1>r, <2>1, <2>2, <2>3 DEF ContentInv
<1>4. CASE TurnPage
  BY <1>c, <1>4 DEF TurnPage, ContentInv, bridgeVars
<1>5. CASE Flush
  <2>1. /\ at = "flush" /\ at' = "complete" /\ UNCHANGED <<index, chunk>>
        /\ chunks' = chunks \/ chunks' = Received
    BY <1>5 DEF Flush, scriptVars
  <2>2. DOMAIN chunks = 0..(index - 1)
    BY <2>1 DEF ShapeInv, Ended
  <2>3. QED
    BY <1>c, <1>r, <2>1, <2>2 DEF ContentInv
<1>6. CASE Raise
  <2>1. /\ at' = "abort" /\ UNCHANGED <<index, chunk>>
        /\ chunks' = chunks \/ (chunks' = Received /\ at \in {"upload", "flush"})
    BY <1>6 DEF Raise, scriptVars, bridgeVars
  <2>2. at \in {"upload", "flush"} => DOMAIN chunks = 0..(index - 1)
    BY DEF ShapeInv, Ended
  <2>3. QED
    BY <1>c, <1>r, <2>1, <2>2 DEF ContentInv
<1>7. CASE CreateSession \/ CreateFails \/ Complete \/ Abort \/ UNCHANGED vars
  <2>1. /\ at' \in {"fetch", "failed", "done"} \/ at' = at
        /\ UNCHANGED <<index, chunk, chunks, page, uploaded>>
    BY <1>7 DEF CreateSession, CreateFails, Complete, Abort, vars, scriptVars, bridgeVars
  <2>2. QED
    BY <1>c, <2>1 DEF ContentInv
<1>8. QED
  BY <1>1, <1>2, <1>3, <1>4, <1>5, <1>6, <1>7 DEF Next

\* What is relayed stays within what is wanted, and is all of it in the end.
LEMMA CountStep ==
  ASSUME TypeInv, SessionInv, Suits, SourceInv, CountInv, [Next]_vars
  PROVE  CountInv'
<1>0. ScriptOK /\ RunOK
  BY TypeSplit, RunIs DEF ScriptOK
<1>c. cfg' = cfg /\ Wanted' = Wanted
  BY RunStays
<1>n. /\ uploaded \in Nat /\ pages \in Nat /\ page \in Seq(Nat) /\ cfg.total \in Nat
      /\ cfg.limit # NULL => cfg.limit \in Nat /\ AtLeastOne(cfg.limit) \in Nat \ {0}
  BY <1>0 DEF ScriptOK, RunOK, AtLeastOne
<1>a. ASSUME at \in {"relay", "upload"}
      PROVE  /\ Ahead \in Nat /\ InPages \in Nat /\ Ahead <= InPages /\ InPages <= cfg.total
             /\ next = NULL \/ (cfg.maxPages # NULL /\ pages >= cfg.maxPages) => Ahead = InPages
  <2>1. next = NULL \/ BeforeAt(next) \in Nat
    BY <1>0, BeforeIs DEF ScriptOK
  <2>2. QED
    BY <1>0, <1>n, <1>a, <2>1, AheadIs
<1>b. ASSUME cfg.limit # NULL
      PROVE  Wanted = Least(InPages, AtLeastOne(cfg.limit))
  BY <1>b DEF Wanted
<1>1. CASE FetchPage
  <2>1. at = "fetch" /\ at' = "relay" /\ uploaded' = uploaded /\ session' = session
    BY <1>1 DEF FetchPage, bridgeVars
  <2>2. session # "completed"
    BY <2>1, NullAssumption DEF SessionInv, Working
  <2>3. QED
    BY <1>c, <2>1, <2>2 DEF CountInv, AtLeastOne
<1>2. CASE TakeRecord
  <2>1. /\ at = "relay" /\ page # <<>> /\ uploaded' = uploaded + 1 /\ session' = session
        /\ at' \in {"relay", "upload", "flush"}
        /\ at' = "relay" => ~LimitHit(uploaded + 1)
        /\ at' = "flush" => LimitHit(uploaded + 1)
    BY <1>2 DEF TakeRecord, bridgeVars
  <2>2. session # "completed"
    BY <2>1, NullAssumption DEF SessionInv, Working
  <2>3. uploaded + 1 <= Ahead
    BY <1>n, <2>1, LenProperties, EmptySeq DEF Ahead
  <2>4. /\ Ahead \in Nat /\ InPages \in Nat /\ Ahead <= InPages /\ InPages <= cfg.total
    BY <1>a, <2>1
  <2>5. uploaded' <= cfg.total
    BY <1>n, <2>1, <2>3, <2>4
  <2>6. CASE cfg.limit = NULL
    BY <1>c, <2>1, <2>2, <2>5, <2>6 DEF CountInv, LimitHit
  <2>7. CASE cfg.limit # NULL
    <3>1. uploaded < AtLeastOne(cfg.limit)
      BY <2>1, <2>7 DEF CountInv
    <3>2. at' = "relay" => uploaded' < AtLeastOne(cfg.limit)
      BY <1>n, <2>1, <2>7 DEF LimitHit, AtLeastOne
    <3>3. uploaded' \in 1..AtLeastOne(cfg.limit)
      BY <1>n, <2>1, <2>7, <3>1
    <3>4. at' = "flush" => uploaded' = AtLeastOne(cfg.limit)
      BY <1>n, <2>1, <2>7, <3>3 DEF LimitHit, AtLeastOne
    <3>5. at' = "flush" => uploaded' = Wanted
      BY <1>b, <1>n, <2>1, <2>3, <2>4, <2>7, <3>4 DEF Least
    <3>6. (AtLeastOne(cfg.limit))' = AtLeastOne(cfg.limit)
      BY <1>c DEF AtLeastOne
    <3>7. QED
      BY <1>c, <2>1, <2>2, <2>5, <3>2, <3>3, <3>5, <3>6 DEF CountInv
  <2>8. QED
    BY <2>6, <2>7
<1>3. CASE Upload
  <2>1. /\ at = "upload" /\ uploaded' = uploaded /\ session' = session
        /\ at' = IF LimitHit(uploaded) THEN "flush" ELSE "relay"
    BY <1>3 DEF Upload
  <2>2. session # "completed"
    BY <2>1, NullAssumption DEF SessionInv, Working
  <2>3. uploaded <= Ahead /\ Ahead \in Nat /\ InPages \in Nat /\ Ahead <= InPages
    <3>1. Len(page) \in Nat
      BY <1>n, LenProperties
    <3>2. QED
      BY <1>a, <1>n, <2>1, <3>1 DEF Ahead
  <2>4. CASE cfg.limit = NULL
    BY <1>c, <2>1, <2>2, <2>4 DEF CountInv, LimitHit
  <2>5. CASE cfg.limit # NULL
    <3>1. uploaded \in 1..AtLeastOne(cfg.limit)
      BY <2>1, <2>5 DEF CountInv
    <3>2. LimitHit(uploaded) => uploaded = AtLeastOne(cfg.limit)
      BY <1>n, <2>5, <3>1 DEF LimitHit, AtLeastOne
    <3>3. LimitHit(uploaded) => uploaded = Wanted
      BY <1>b, <1>n, <2>3, <2>5, <3>2 DEF Least
    <3>4. ~LimitHit(uploaded) => uploaded < AtLeastOne(cfg.limit)
      BY <1>n, <2>5 DEF LimitHit, AtLeastOne
    <3>5. (AtLeastOne(cfg.limit))' = AtLeastOne(cfg.limit)
      BY <1>c DEF AtLeastOne
    <3>6. QED
      BY <1>c, <2>1, <2>2, <3>3, <3>4, <3>5 DEF CountInv
  <2>6. QED
    BY <2>4, <2>5
<1>4. CASE TurnPage
  <2>1. /\ at = "relay" /\ page = <<>> /\ uploaded' = uploaded /\ session' = session
        /\ at' \in {"flush", "fetch"}
        /\ at' = "flush" => next = NULL \/ (cfg.maxPages # NULL /\ pages >= cfg.maxPages)
    BY <1>4 DEF TurnPage, bridgeVars
  <2>2. session # "completed"
    BY <2>1, NullAssumption DEF SessionInv, Working
  <2>3. Ahead = uploaded
    BY <1>n, <2>1, EmptySeq DEF Ahead
  <2>4. at' = "flush" => uploaded = InPages
    BY <1>a, <2>1, <2>3
  <2>5. at' = "flush" => uploaded = Wanted
    <3>1. CASE cfg.limit = NULL
      BY <2>4, <3>1 DEF Wanted
    <3>2. CASE cfg.limit # NULL
      <4>1. uploaded < AtLeastOne(cfg.limit)
        BY <2>1, <3>2 DEF CountInv
      <4>2. QED
        BY <1>b, <1>n, <2>4, <3>2, <4>1 DEF Least
    <3>3. QED
      BY <3>1, <3>2
  <2>6. (AtLeastOne(cfg.limit))' = AtLeastOne(cfg.limit)
    BY <1>c DEF AtLeastOne
  <2>7. QED
    BY <1>c, <2>1, <2>2, <2>5, <2>6 DEF CountInv
<1>5. CASE ~FetchPage /\ ~TakeRecord /\ ~TurnPage /\ ~Upload
  <2>1. /\ uploaded' = uploaded
        /\ at' \in {"fetch", "complete", "done", "abort", "failed"} \/ at' = at
        /\ at' = "fetch" => at \in {"create", "fetch"}
    BY <1>5, Quiet DEF scriptVars
  <2>2. at' \in {"flush", "complete", "done"} \/ session' = "completed" =>
          at \in {"flush", "complete", "done"} \/ session = "completed"
    BY <1>5, NullAssumption
       DEF Next, vars, bridgeVars, CreateSession, CreateFails, Flush, Complete, Raise, Abort
  <2>3. (AtLeastOne(cfg.limit))' = AtLeastOne(cfg.limit)
    BY <1>c DEF AtLeastOne
  <2>4. QED
    BY <1>c, <2>1, <2>2, <2>3 DEF CountInv
<1>6. QED
  BY <1>1, <1>2, <1>3, <1>4, <1>5

\* Whatever the source, the next page is behind this one.
LEMMA NextBehind ==
  ASSUME RunOK, ~StartsOver, Known(position), NextOf(Reply) # NULL
  PROVE  BeforeAt(NextOf(Reply)) \in Nat /\ Before + Served <= BeforeAt(NextOf(Reply))
<1>0. Before \in Nat /\ Served \in Nat \ {0} /\ cfg.size \in Nat /\ Served <= cfg.size
  BY ReplyIs DEF RunOK, Served, Least
<1>1. BeforeAt(NextOf(Reply)) \in Nat
  BY NextKnown, BeforeIs
<1>2. CASE cfg.type = "none"
  BY <1>2 DEF NextOf
<1>3. CASE cfg.type \in {"cursor", "nextLink"}
  <2>1. NextOf(Reply) = Before + Served
    <3>1. Before + Served \notin {NULL, EMPTY} /\ cfg.end \in {NULL, EMPTY}
      BY <1>0, NullAssumption DEF RunOK
    <3>2. CASE cfg.type = "cursor"
      BY <3>1, <3>2 DEF NextOf, Cursor, StartsOver
    <3>3. CASE cfg.type = "nextLink"
      <4>1. NextOf(Reply) = IF Cursor \in {NULL, EMPTY} THEN NULL ELSE Cursor
        BY <3>3 DEF NextOf, Given
      <4>2. QED
        BY <3>1, <4>1 DEF Cursor
    <3>4. QED
      BY <1>3, <3>2, <3>3
  <2>2. BeforeAt(Before + Served) = Before + Served
    BY <1>0, <1>3, NullAssumption DEF BeforeAt, Given
  <2>3. QED
    BY <1>0, <2>1, <2>2
<1>4. CASE cfg.type = "offset"
  <2>1. Before = Given(position, 0)
    BY <1>4 DEF Before
  <2>2. NextOf(Reply) = Before + cfg.size
    BY <1>4, <2>1 DEF NextOf, NextOffset
  <2>3. BeforeAt(Before + cfg.size) = Before + cfg.size
    BY <1>0, <1>4, NullAssumption DEF BeforeAt, Given
  <2>4. QED
    BY <1>0, <2>2, <2>3
<1>5. CASE cfg.type = "page"
  <2> DEFINE n == Given(position, 1)
             k == Given(position, cfg.base) - cfg.base
             after == (n + 1) - cfg.base
  <2>1. n \in Nat /\ k \in Nat /\ after \in Nat /\ k + 1 <= after
    BY <1>5, NullAssumption DEF Known, Positions, Given, RunOK
  <2>2. NextOf(Reply) = n + 1
    BY <1>5 DEF NextOf, NextPage
  <2>3. Before = k * Served
    BY <1>5 DEF Before
  <2>4. BeforeAt(n + 1) = after * Served
    <3>1. Given(n + 1, cfg.base) = n + 1
      BY <2>1, NullAssumption DEF Given
    <3>2. QED
      BY <1>5, <3>1 DEF BeforeAt
  <2> HIDE DEF n, k, after
  <2>5. (k + 1) * Served <= after * Served
    BY <1>0, <2>1, PageMore
  <2>6. (k + 1) * Served = k * Served + Served
    BY <1>0, <2>1, Times
  <2>7. Before + Served <= BeforeAt(n + 1)
    BY <2>3, <2>4, <2>5, <2>6
  <2>8. QED
    BY <1>1, <2>2, <2>7
<1>6. QED
  BY <1>1, <1>2, <1>3, <1>4, <1>5 DEF RunOK, Paginations

\* Records are numbers.
LEMMA GotNat ==
  ASSUME TypeInv, ShapeInv
  PROVE  \A i \in 0..index : Got(i) \in Seq(Nat) /\ \A p \in 1..Len(Got(i)) : Got(i)[p] \in Nat
<1>1. /\ index \in Nat /\ chunk \in Seq(Nat) /\ \A i \in DOMAIN chunks : chunks[i] \in Seq(Nat)
      /\ 0..(index - 1) \subseteq DOMAIN chunks
  BY DEF TypeInv, TypeOK, ShapeInv, Put
<1>2. \A i \in 0..index : i = index \/ i \in 0..(index - 1)
  BY <1>1
<1>3. \A i \in 0..index : Got(i) \in Seq(Nat)
  BY <1>1, <1>2 DEF Got
<1>4. QED
  BY <1>3, ElementOfSeq, LenProperties

\* What the bridge receives is what the script has got.
LEMMA GotSame ==
  ASSUME TypeInv, index' = index, chunk' = chunk,
         chunks' = chunks \/ (chunks' = Received /\ DOMAIN chunks = 0..(index - 1))
  PROVE  /\ index \in Nat /\ \A i \in 0..index : Got(i)' = Got(i)
         /\ InOrder => InOrder'
         /\ \A n : UpTo(n) => UpTo(n)'
<1>1. index \in Nat
  BY DEF TypeInv, TypeOK
<1>2. \A i \in 0..index : i = index \/ i \in 0..(index - 1)
  BY <1>1
<1>3. \A i \in 0..index : i # index => chunks'[i] = chunks[i]
  BY <1>2, ReceivedIs DEF TypeInv
<1>4. \A i \in 0..index : Got(i)' = Got(i)
  BY <1>3 DEF Got
<1> USE DEF InOrder, UpTo
<1>5. InOrder => InOrder'
  BY <1>4
<1>6. \A n : UpTo(n) => UpTo(n)'
  BY <1>4
<1>7. QED
  BY <1>1, <1>4, <1>5, <1>6

\* The order stays.
LEMMA OrderStep ==
  ASSUME TypeInv, ShapeInv, ~StartsOver, OrderInv, [Next]_vars
  PROVE  OrderInv'
<1>0. /\ ScriptOK /\ RunOK /\ index \in Nat /\ chunk \in Seq(Nat) /\ page \in Seq(Nat)
      /\ \A i \in DOMAIN chunks : chunks[i] \in Seq(Nat)
  BY TypeSplit, RunIs DEF ScriptOK, TypeInv, TypeOK
<1>c. \A p : BeforeAt(p)' = BeforeAt(p)
  BY RunStays
<1>1. CASE FetchPage
  <2>1. /\ at = "fetch" /\ at' = "relay" /\ page' = Reply /\ next' = NextOf(Reply)
        /\ UNCHANGED <<index, chunk, chunks>>
    BY <1>1 DEF FetchPage, bridgeVars
  <2>2. UpTo(Before) /\ InOrder
    BY <2>1 DEF OrderInv, Before, BeforeAt
  <2>3. /\ Before \in Nat /\ Served \in Nat /\ Len(Reply) \in Nat /\ Len(Reply) <= Served
        /\ \A p \in 1..Len(Reply) : Reply[p] = Before + p
    <3>1. Reply \in Seq(Nat) /\ Before \in Nat /\ Served \in Nat /\ cfg.total \in Nat
      BY <1>0, ReplyIs DEF ScriptOK, RunOK
    <3>2. Len(Reply) = Least(Before + Served, cfg.total) - Least(Before, cfg.total)
      BY <1>0, ReplyIs DEF ScriptOK
    <3>3. Len(Reply) <= Served
      BY <3>1, <3>2 DEF Least
    <3>4. QED
      BY <1>0, <3>1, <3>3, ReplyIs, LenProperties DEF ScriptOK
  <2>4. InOrder' /\ \A n : UpTo(n) => UpTo(n)'
    BY <2>1, <2>2, GotSame
  <2>5. \A n \in Nat : Before <= n => UpTo(n)
    <3>1. \A i \in 0..index : \A p \in 1..Len(Got(i)) : Got(i)[p] \in Nat
      BY <1>0, GotNat
    <3>2. QED
      BY <2>2, <2>3, <3>1 DEF UpTo
  <2>6. \A q \in 1..Len(Reply) : \A i \in 0..index : \A p \in 1..Len(Got(i)) : Got(i)[p] < Reply[q]
    <3>1. \A i \in 0..index : \A p \in 1..Len(Got(i)) : Got(i)[p] \in Nat /\ Got(i)[p] <= Before
      BY <2>2, GotNat DEF UpTo
    <3>2. QED
      BY <2>3, <3>1
  <2>7. ASSUME NextOf(Reply) # NULL
        PROVE  UpTo(BeforeAt(NextOf(Reply))) /\ \A q \in 1..Len(Reply) : Reply[q] <= BeforeAt(NextOf(Reply))
    <3>1. BeforeAt(NextOf(Reply)) \in Nat /\ Before + Served <= BeforeAt(NextOf(Reply))
      BY <1>0, <2>7, NextBehind DEF ScriptOK
    <3>2. QED
      BY <2>3, <2>5, <3>1
  <2>8. \A p, q \in 1..Len(Reply) : p < q => Reply[p] < Reply[q]
    BY <2>3
  <2>9. PageBehind'
    <3>1. \A i \in 0..index : Got(i)' = Got(i)
      BY <2>1, GotSame
    <3>2. QED
      BY <2>1, <2>6, <3>1 DEF PageBehind
  <2>10. BeforeAt(next)' = BeforeAt(NextOf(Reply))
    BY <2>1, <1>c DEF BeforeAt, Served
  <2>11. next' # NULL => UpTo(BeforeAt(next))' /\ \A q \in 1..Len(page') : page'[q] <= BeforeAt(next)'
    BY <2>1, <2>4, <2>7, <2>10 DEF UpTo
  <2>12. \A p, q \in 1..Len(page') : p < q => page'[p] < page'[q]
    BY <2>1, <2>8
  <2>13. QED
    BY <2>1, <2>4, <2>9, <2>11, <2>12 DEF OrderInv
<1>2. CASE TakeRecord
  <2> DEFINE v == Head(page)
  <2>1. /\ at = "relay" /\ page # <<>> /\ page' = Tail(page) /\ chunk' = Append(chunk, v)
        /\ UNCHANGED <<index, chunks, next>> /\ at' \in {"relay", "upload", "flush"}
    BY <1>2 DEF TakeRecord, bridgeVars
  <2>2. /\ Len(page) \in Nat \ {0} /\ Len(page') = Len(page) - 1 /\ v = page[1] /\ v \in Nat
        /\ \A p \in 1..Len(page') : page'[p] = page[p + 1] /\ page'[p] \in Nat
    BY <1>0, <2>1, HeadTailProperties, LenProperties, EmptySeq DEF ScriptOK
  <2>3. /\ Len(chunk) \in Nat /\ Len(chunk') = Len(chunk) + 1 /\ chunk'[Len(chunk) + 1] = v
        /\ \A p \in 1..Len(chunk) : chunk'[p] = chunk[p]
    BY <1>0, <2>1, <2>2, AppendProperties, LenProperties DEF ScriptOK
  <2> HIDE DEF v
  <2>4. /\ \A p, q \in 1..Len(page) : p < q => page[p] < page[q]
        /\ PageBehind
        /\ next # NULL => UpTo(BeforeAt(next)) /\ \A q \in 1..Len(page) : page[q] <= BeforeAt(next)
        /\ InOrder
    BY <2>1 DEF OrderInv
  <2>5. \A i \in 0..index : \A p \in 1..Len(Got(i)) : Got(i)[p] \in Nat /\ Got(i)[p] < v
    <3>1. \A i \in 0..index : \A p \in 1..Len(Got(i)) : Got(i)[p] \in Nat
      BY <1>0, GotNat
    <3>2. QED
      BY <2>2, <2>4, <3>1 DEF PageBehind
  <2>6. /\ \A i \in 0..index : i # index => Got(i)' = Got(i)
        /\ Got(index) = chunk /\ Got(index)' = chunk'
    BY <2>1 DEF Got
  <2>7. \A i \in 0..index : \A p \in 1..Len(Got(i)') :
           \/ p \in 1..Len(Got(i)) /\ Got(i)'[p] = Got(i)[p]
           \/ i = index /\ p = Len(chunk) + 1 /\ Got(i)'[p] = v
    <3> SUFFICES ASSUME NEW i \in 0..index, NEW p \in 1..Len(Got(i)')
                 PROVE  \/ p \in 1..Len(Got(i)) /\ Got(i)'[p] = Got(i)[p]
                        \/ i = index /\ p = Len(chunk) + 1 /\ Got(i)'[p] = v
      OBVIOUS
    <3>1. CASE i = index
      <4>1. p \in 1..Len(chunk') /\ Got(i)' = chunk' /\ Got(i) = chunk
        BY <2>1, <3>1 DEF Got
      <4>2. QED
        BY <2>3, <3>1, <4>1
    <3>2. CASE i # index
      BY <2>6, <3>2
    <3>3. QED
      BY <3>1, <3>2
  <2>8. InOrder'
    <3> SUFFICES ASSUME NEW i \in 0..index, NEW k \in 0..index,
                        NEW p \in 1..Len(Got(i)'), NEW q \in 1..Len(Got(k)'),
                        i < k \/ (i = k /\ p < q)
                 PROVE  Got(i)'[p] < Got(k)'[q]
      BY <2>1 DEF InOrder
    <3>1. CASE q \in 1..Len(Got(k)) /\ Got(k)'[q] = Got(k)[q]
      <4>1. p \in 1..Len(Got(i)) /\ Got(i)'[p] = Got(i)[p]
        <5>1. ~(i = index /\ p = Len(chunk) + 1)
          BY <1>0, <2>3, <2>6, <3>1
        <5>2. QED
          BY <2>7, <5>1
      <4>2. QED
        BY <2>4, <3>1, <4>1 DEF InOrder
    <3>2. CASE k = index /\ q = Len(chunk) + 1 /\ Got(k)'[q] = v
      <4>1. p \in 1..Len(Got(i)) /\ Got(i)'[p] = Got(i)[p]
        <5>1. ~(i = index /\ p = Len(chunk) + 1)
          BY <1>0, <2>3, <3>2
        <5>2. QED
          BY <2>7, <5>1
      <4>2. QED
        BY <2>5, <3>2, <4>1
    <3>3. QED
      BY <2>7, <3>1, <3>2
  <2>9. ASSUME NEW n \in Nat, v <= n PROVE UpTo(n)'
    <3>1. \A i \in 0..index : \A p \in 1..Len(Got(i)') : Got(i)'[p] <= n
      BY <2>2, <2>5, <2>7, <2>9
    <3>2. QED
      BY <2>1, <3>1 DEF UpTo
  <2>10. PageBehind'
    <3> SUFFICES ASSUME NEW q \in 1..Len(page'), NEW i \in 0..index, NEW p \in 1..Len(Got(i)')
                 PROVE  Got(i)'[p] < page'[q]
      BY <2>1 DEF PageBehind
    <3>1. q + 1 \in 1..Len(page) /\ 1 \in 1..Len(page) /\ 1 < q + 1
      BY <2>2
    <3>2. v < page'[q] /\ page'[q] \in Nat
      BY <2>2, <2>4, <3>1
    <3>3. Got(i)'[p] = v \/ (Got(i)'[p] \in Nat /\ Got(i)'[p] < v)
      BY <2>5, <2>7
    <3>4. QED
      BY <2>2, <3>2, <3>3
  <2>11. \A p, q \in 1..Len(page') : p < q => page'[p] < page'[q]
    <3> SUFFICES ASSUME NEW p \in 1..Len(page'), NEW q \in 1..Len(page'), p < q
                 PROVE  page'[p] < page'[q]
      OBVIOUS
    <3>1. p + 1 \in 1..Len(page) /\ q + 1 \in 1..Len(page) /\ p + 1 < q + 1
      BY <2>2
    <3>2. QED
      BY <2>2, <2>4, <3>1
  <2>12. ASSUME next # NULL
         PROVE  UpTo(BeforeAt(next))' /\ \A q \in 1..Len(page') : page'[q] <= BeforeAt(next)'
    <3>1. BeforeAt(next)' = BeforeAt(next)
      BY <1>c, <2>1 DEF BeforeAt, Served
    <3>2. \A q \in 1..Len(page) : page[q] <= BeforeAt(next)
      BY <2>4, <2>12
    <3>3. BeforeAt(next) \in Nat /\ v <= BeforeAt(next)
      BY <1>0, <2>2, <3>2, BeforeIs DEF ScriptOK
    <3>4. \A i \in 0..index : \A p \in 1..Len(Got(i)') : Got(i)'[p] <= BeforeAt(next)
      BY <2>2, <2>5, <2>7, <3>3
    <3>5. UpTo(BeforeAt(next))'
      BY <2>1, <3>1, <3>4 DEF UpTo
    <3>6. \A q \in 1..Len(page') : page'[q] <= BeforeAt(next)
      BY <2>2, <3>2
    <3>7. QED
      BY <3>1, <3>5, <3>6
  <2>13. QED
    BY <2>1, <2>8, <2>10, <2>11, <2>12 DEF OrderInv
<1>3. CASE Upload
  <2>1. /\ at = "upload" /\ chunks' = Received /\ chunk' = <<>> /\ index' = index + 1
        /\ UNCHANGED <<page, next>> /\ at' \in {"relay", "flush"}
    BY <1>3 DEF Upload
  <2>2. DOMAIN chunks = 0..(index - 1)
    BY <2>1 DEF ShapeInv, Ended
  <2>3. chunks'[index] = chunk /\ \A i \in 0..(index - 1) : chunks'[i] = chunks[i]
    BY <2>1, <2>2, ReceivedIs DEF TypeInv
  <2>4. \A i \in 0..index' : (i \in 0..index /\ Got(i)' = Got(i)) \/ (i = index + 1 /\ Len(Got(i)') = 0)
    <3>1. \A i \in 0..index' : i \in 0..(index - 1) \/ i = index \/ i = index + 1
      BY <1>0, <2>1
    <3>2. \A i \in 0..(index - 1) : i \in 0..index /\ i # index /\ i # index + 1
      BY <1>0
    <3>3. index \in 0..index /\ index # index + 1
      BY <1>0
    <3>4. QED
      BY <2>1, <2>3, <3>1, <3>2, <3>3 DEF Got
  <2>5. \A i \in 0..index' : Len(Got(i)') = 0 => ~\E p \in 1..Len(Got(i)') : TRUE
    OBVIOUS
  <2>6. InOrder'
    <3> SUFFICES ASSUME InOrder PROVE InOrder'
      BY DEF OrderInv
    <3>1. QED
      BY <2>4, <2>5 DEF InOrder
  <2>7. \A n : UpTo(n) => UpTo(n)'
    BY <2>4, <2>5 DEF UpTo
  <2>8. BeforeAt(next)' = BeforeAt(next)
    BY <1>c, <2>1 DEF BeforeAt, Served
  <2>9. PageBehind'
    BY <2>1, <2>4, <2>5 DEF OrderInv, PageBehind
  <2>10. QED
    BY <2>1, <2>6, <2>7, <2>8, <2>9 DEF OrderInv, UpTo
<1>4. CASE TurnPage
  <2>1. /\ at = "relay" /\ UNCHANGED <<index, chunk, chunks>>
        /\ at' = "flush" \/ (at' = "fetch" /\ position' = next /\ next # NULL)
    BY <1>4 DEF TurnPage, bridgeVars
  <2>2. InOrder' /\ \A n : UpTo(n) => UpTo(n)'
    BY <2>1, GotSame DEF OrderInv
  <2>3. at' = "fetch" => BeforeAt(position)' = BeforeAt(next) /\ UpTo(BeforeAt(next))
    BY <1>c, <2>1 DEF BeforeAt, Served, OrderInv
  <2>4. QED
    BY <2>1, <2>2, <2>3 DEF OrderInv, UpTo
<1>5. CASE ~FetchPage /\ ~TakeRecord /\ ~TurnPage /\ ~Upload
  <2>1. /\ UNCHANGED <<cfg, scriptVars>>
        /\ at' \in {"fetch", "complete", "done", "abort", "failed"} \/ at' = at
        /\ at' = "fetch" => at \in {"create", "fetch"}
    BY <1>5, Quiet
  <2>2. UNCHANGED <<position, index, chunk, page, next>>
    BY <2>1 DEF scriptVars
  <2>3. chunks' = chunks \/ (chunks' = Received /\ at \in {"upload", "flush"})
    BY <1>5 DEF Next, vars, bridgeVars, CreateSession, CreateFails, Flush, Complete, Raise, Abort
  <2>4. at \in {"upload", "flush"} => DOMAIN chunks = 0..(index - 1)
    BY DEF ShapeInv, Ended
  <2>5. InOrder' /\ \A n : UpTo(n) => UpTo(n)'
    BY <2>2, <2>3, <2>4, GotSame DEF OrderInv
  <2>6. BeforeAt(position)' = BeforeAt(position) /\ BeforeAt(next)' = BeforeAt(next)
    BY <1>c, <2>2 DEF BeforeAt, Served
  <2>7. PageBehind => PageBehind'
    <3>1. \A i \in 0..index : Got(i)' = Got(i)
      BY <2>2, <2>3, <2>4, GotSame
    <3>2. QED
      BY <2>2, <3>1 DEF PageBehind
  <2>8. QED
    BY <2>1, <2>2, <2>5, <2>6, <2>7 DEF OrderInv, UpTo
<1>6. QED
  BY <1>1, <1>2, <1>3, <1>4, <1>5

\* The limit stays.
LEMMA LimitStep ==
  ASSUME TypeInv, LimitInv, [Next]_vars
  PROVE  LimitInv'
<1>0. ScriptOK /\ RunOK
  BY TypeSplit, RunIs DEF ScriptOK
<1>c. cfg' = cfg
  BY RunStays
<1>1. SUFFICES ASSUME cfg.limit # NULL
               PROVE  /\ uploaded' <= AtLeastOne(cfg.limit)
                      /\ at' \in {"create", "fetch", "relay"} => uploaded' < AtLeastOne(cfg.limit)
  BY <1>c DEF LimitInv, AtLeastOne
<1>2. /\ uploaded \in Nat /\ cfg.limit \in Nat /\ uploaded <= AtLeastOne(cfg.limit)
      /\ at \in {"create", "fetch", "relay"} => uploaded < AtLeastOne(cfg.limit)
  BY <1>0, <1>1 DEF ScriptOK, RunOK, LimitInv
<1>3. CASE TakeRecord
  <2>1. /\ at = "relay" /\ uploaded' = uploaded + 1
        /\ at' \in {"relay", "upload", "flush"} /\ (at' = "relay" => ~LimitHit(uploaded + 1))
    BY <1>3 DEF TakeRecord
  <2>2. QED
    BY <1>1, <1>2, <2>1 DEF LimitHit, AtLeastOne
<1>4. CASE Upload
  <2>1. uploaded' = uploaded /\ at' = IF LimitHit(uploaded) THEN "flush" ELSE "relay"
    BY <1>4 DEF Upload
  <2>2. ~LimitHit(uploaded) => uploaded < AtLeastOne(cfg.limit)
    BY <1>1, <1>2 DEF LimitHit, AtLeastOne
  <2>3. QED
    BY <1>2, <2>1, <2>2
<1>5. CASE ~TakeRecord /\ ~Upload
  <2>1. uploaded' = uploaded /\ (at' \in {"create", "fetch", "relay"} => at \in {"create", "fetch", "relay"})
    BY <1>5 DEF Next, vars, scriptVars, CreateSession, CreateFails, FetchPage, TurnPage, Flush, Complete, Raise, Abort
  <2>2. QED
    BY <1>2, <2>1
<1>6. QED
  BY <1>3, <1>4, <1>5

\* All of it holds at the beginning and after every step.
LEMMA InvInit == Init => Inv
<1> SUFFICES ASSUME Init PROVE Inv
  OBVIOUS
<1>1. TypeInv /\ ShapeInv /\ RunOK
  BY ShapeInit, RunIs DEF TypeInv, TypeOK
<1>2. SessionInv
  BY NullAssumption DEF Init, SessionInv, Working, Places
<1>3. ASSUME Suits PROVE BeforeAt(cfg.start) = 0
  <2>1. Served \in Nat
    BY <1>1 DEF RunOK, Served, Least
  <2>2. CASE cfg.type = "page"
    <3>1. Given(cfg.start, cfg.base) = cfg.base
      BY <1>1, <1>3, <2>2, NullAssumption DEF Suits, Given, RunOK
    <3>2. QED
      BY <1>1, <2>1, <2>2, <3>1 DEF BeforeAt, RunOK
  <2>3. CASE cfg.type # "page"
    BY <1>1, <1>3, <2>3 DEF BeforeAt, Suits, FromStart, RunOK, Paginations
  <2>4. QED
    BY <2>2, <2>3
<1>4. ASSUME Suits PROVE SourceInv
  <2>1. Served \in Nat /\ 0 * Served = 0
    <3>1. Served \in Nat
      BY <1>1 DEF RunOK, Served, Least
    <3>2. QED
      BY <3>1
  <2>2. cfg.maxPages # NULL => 0 < PagesWanted
    BY <1>1 DEF RunOK, PagesWanted, AtLeastOne
  <2>3. cfg.type = "page" /\ cfg.start \notin Nat => cfg.base = 1
    BY <1>1, <1>4 DEF Suits, Given, RunOK
  <2>4. QED
    BY <1>1, <1>3, <1>4, <2>1, <2>2, <2>3 DEF Init, SourceInv, Least, RunOK
<1>5. ContentInv
  BY EmptySeq DEF Init, ContentInv
<1>6. CountInv
  BY <1>1, NullAssumption DEF Init, CountInv, AtLeastOne, RunOK
<1>7. LimitInv
  BY <1>1 DEF Init, LimitInv, AtLeastOne, RunOK
<1>8. OrderInv
  <2>1. \A i \in 0..index : Got(i) = <<>>
    BY DEF Init, Got
  <2>2. QED
    BY <2>1, EmptySeq DEF Init, OrderInv, InOrder, UpTo
<1>9. QED
  BY <1>1, <1>2, <1>4, <1>5, <1>6, <1>7, <1>8 DEF Inv, RelayInv

LEMMA InvStep == Inv /\ [Next]_vars => Inv'
<1> SUFFICES ASSUME Inv, [Next]_vars PROVE Inv'
  OBVIOUS
<1>1. TypeInv' /\ ShapeInv' /\ SessionInv'
  BY ShapeStep, SessionStep DEF Inv
<1>2. ASSUME Suits' PROVE (SourceInv /\ ContentInv /\ CountInv)'
  <2>1. Suits /\ SourceInv /\ ContentInv /\ CountInv
    BY <1>2, RunStays DEF Inv, RelayInv
  <2>2. QED
    BY <2>1, SourceStep, ContentStep, CountStep DEF Inv
<1>3. LimitInv' /\ (StartsOver' \/ OrderInv')
  <2>1. StartsOver' = StartsOver
    BY RunStays DEF StartsOver
  <2>2. QED
    BY <2>1, LimitStep, OrderStep DEF Inv
<1>4. QED
  BY <1>1, <1>2, <1>3 DEF Inv, RelayInv

-----------------------------------------------------------------------------
(* The theorems about what is uploaded                                     *)

\* Quotient and remainder.
LEMMA DivIs ==
  ASSUME NEW n \in Nat, NEW c \in Nat \ {0}
  PROVE  n \div c \in Nat /\ n % c \in 0..(c - 1) /\ n = (n \div c) * c + (n % c)
<1>1. n \div c \in Int /\ n % c \in 0..(c - 1)
  OBVIOUS
<1>2. n = (n \div c) * c + (n % c)
  OBVIOUS
<1>3. n \div c \in Nat
  BY <1>1, <1>2
<1>4. QED
  BY <1>1, <1>2, <1>3

\* How many chunks the bridge has, and that they are one after the other.
LEMMA ChunksAre ==
  ASSUME Inv
  PROVE  /\ Contiguous
         /\ \/ DOMAIN chunks = 0..(index - 1) /\ Last = index - 1
            \/ DOMAIN chunks = 0..index /\ Last = index /\ chunks[index] = chunk
         /\ Sent \in Nat /\ Sent <= uploaded
         /\ session = "completed" => Sent = uploaded
<1>0. ScriptOK /\ RunOK /\ ShapeInv
  BY TypeSplit, RunIs DEF ScriptOK, Inv
<1>1. /\ index \in Nat /\ cfg.chunk \in Nat \ {0} /\ chunk \in Seq(Nat) /\ Len(chunk) \in Nat
      /\ Len(chunk) <= cfg.chunk /\ uploaded = index * cfg.chunk + Len(chunk)
      /\ index * cfg.chunk \in Nat
  <2>1. /\ index \in Nat /\ cfg.chunk \in Nat \ {0} /\ chunk \in Seq(Nat)
        /\ Len(chunk) <= cfg.chunk /\ uploaded = index * cfg.chunk + Len(chunk)
    BY <1>0 DEF ScriptOK, RunOK
  <2>2. QED
    BY <2>1, LenProperties, Times
<1>2. CASE DOMAIN chunks = 0..(index - 1)
  <2>1. Last = index - 1
    <3>1. Cardinality(0..(index - 1)) = index
      BY <1>1, FS_Interval
    <3>2. QED
      BY <1>1, <1>2, <3>1 DEF Last
  <2>2. \A i \in 0..(index - 1) : Len(chunks[i]) = cfg.chunk
    BY <1>0 DEF ShapeInv
  <2>3. Contiguous
    BY <1>1, <1>2, <2>1, <2>2 DEF Contiguous
  <2>4. Sent = index * cfg.chunk
    <3>1. CASE index = 0
      BY <1>1, <1>2, <3>1 DEF Sent
    <3>2. CASE index # 0
      <4>1. index - 1 \in Nat /\ index - 1 \in 0..(index - 1) /\ (index - 1) + 1 = index
        BY <1>1, <3>2
      <4>2. Sent = (index - 1) * cfg.chunk + cfg.chunk
        BY <1>2, <2>1, <2>2, <4>1 DEF Sent
      <4>3. ((index - 1) + 1) * cfg.chunk = (index - 1) * cfg.chunk + cfg.chunk
        BY <1>1, <4>1, Times
      <4>4. QED
        BY <4>1, <4>2, <4>3
    <3>3. QED
      BY <3>1, <3>2
  <2>5. Sent \in Nat /\ Sent <= uploaded
    <3> DEFINE full == index * cfg.chunk
    <3>1. full \in Nat /\ uploaded = full + Len(chunk) /\ Sent = full
      BY <1>1, <2>4
    <3> HIDE DEF full
    <3>2. QED
      BY <1>1, <3>1
  <2>6. ASSUME session = "completed" PROVE Sent = uploaded
    <3>1. chunk = <<>>
      <4>1. Put \/ chunk = <<>>
        BY <1>0, <2>6 DEF ShapeInv
      <4>2. ~Put
        <5>1. index \in 0..index /\ index \notin 0..(index - 1)
          BY <1>1
        <5>2. QED
          BY <1>2, <5>1 DEF Put
      <4>3. QED
        BY <4>1, <4>2
    <3>2. QED
      BY <1>1, <2>4, <3>1, EmptySeq
  <2>7. QED
    BY <1>2, <2>1, <2>3, <2>5, <2>6
<1>3. CASE Put
  <2>1. DOMAIN chunks = 0..index /\ chunks[index] = chunk /\ chunk # <<>>
    BY <1>3 DEF Put
  <2>2. Last = index
    BY <1>1, <2>1, FS_Interval DEF Last
  <2>3. Len(chunk) \in 1..cfg.chunk
    BY <1>1, <2>1, EmptySeq
  <2>4. \A i \in 0..index : i = index \/ Len(chunks[i]) = cfg.chunk
    <3>1. \A i \in 0..index : i = index \/ i \in 0..(index - 1)
      BY <1>1
    <3>2. QED
      BY <1>0, <3>1 DEF ShapeInv
  <2>5. Contiguous
    BY <2>1, <2>2, <2>3, <2>4 DEF Contiguous
  <2>6. Sent = uploaded
    <3>1. DOMAIN chunks # {}
      <4>1. index \in 0..index
        BY <1>1
      <4>2. QED
        BY <2>1, <4>1
    <3>2. QED
      BY <1>1, <2>1, <2>2, <3>1 DEF Sent
  <2>7. Sent \in Nat
    BY <1>1, <2>6
  <2>8. QED
    BY <2>1, <2>2, <2>5, <2>6, <2>7
<1>4. QED
  BY <1>0, <1>2, <1>3 DEF ShapeInv

\* Where the bridge has each record that is relayed.
PlaceOf(k) == (k - 1) \div cfg.chunk
WithinOf(k) == (k - 1) % cfg.chunk

LEMMA PlaceIs ==
  ASSUME Inv, NEW k \in 1..Sent
  PROVE  /\ PlaceOf(k) \in DOMAIN chunks /\ PlaceOf(k) \in Nat
         /\ WithinOf(k) \in 0..(cfg.chunk - 1) /\ WithinOf(k) + 1 \in 1..Len(chunks[PlaceOf(k)])
         /\ k - 1 = PlaceOf(k) * cfg.chunk + WithinOf(k)
<1>0. /\ ScriptOK /\ RunOK /\ ShapeInv
  BY TypeSplit, RunIs DEF ScriptOK, Inv
<1>1. /\ Contiguous /\ Sent \in Nat
  BY ChunksAre
<1>2. cfg.chunk \in Nat \ {0}
  BY <1>0 DEF RunOK
<1>3. QED
  <2> DEFINE i == (k - 1) \div cfg.chunk
             r == (k - 1) % cfg.chunk
  <2>1. i \in Nat /\ r \in 0..(cfg.chunk - 1) /\ k - 1 = i * cfg.chunk + r
    <3>1. k - 1 \in Nat
      BY <1>1
    <3>2. QED
      BY <1>2, <3>1, DivIs
  <2> HIDE DEF i, r
  <2>2. k \in Nat /\ k <= Sent
    BY <1>1
  <2>3. DOMAIN chunks = 0..Last /\ Last \in Nat
        /\ Sent = Last * cfg.chunk + Len(chunks[Last])
        /\ Len(chunks[Last]) \in 1..cfg.chunk
        /\ \A n \in 0..Last : n = Last \/ Len(chunks[n]) = cfg.chunk
    <3>1. DOMAIN chunks # {}
      <4>1. Sent # 0
        BY <1>1, <2>2
      <4>2. QED
        BY <4>1 DEF Sent
    <3>2. Last \in Int
      BY <1>0, ChunksAre DEF ScriptOK
    <3>3. DOMAIN chunks = 0..Last
      BY <1>1 DEF Contiguous
    <3>4. Last \in Nat
      BY <3>1, <3>2, <3>3
    <3>5. Sent = Last * cfg.chunk + Len(chunks[Last])
      BY <3>1 DEF Sent
    <3>6. \A n \in 0..Last :
            IF n = Last THEN Len(chunks[n]) \in 1..cfg.chunk ELSE Len(chunks[n]) = cfg.chunk
      BY <1>1, <3>3 DEF Contiguous
    <3>7. Last \in 0..Last
      BY <3>4
    <3>8. QED
      BY <3>3, <3>4, <3>5, <3>6, <3>7
  <2>4. i <= Last
    <3> SUFFICES ASSUME Last + 1 <= i PROVE FALSE
      BY <2>1, <2>3
    <3>1. (Last + 1) * cfg.chunk <= i * cfg.chunk
      <4>1. Last + 1 \in Nat /\ i \in Nat /\ cfg.chunk \in Nat
        BY <1>2, <2>1, <2>3
      <4>2. QED
        BY <4>1, PageMore
    <3>2. (Last + 1) * cfg.chunk = Last * cfg.chunk + cfg.chunk /\ Last * cfg.chunk \in Nat
      BY <1>2, <2>3, Times
    <3>3. i * cfg.chunk \in Nat
      BY <1>2, <2>1, Times
    <3> DEFINE a == Last * cfg.chunk
               b == i * cfg.chunk
    <3>4. /\ a \in Nat /\ b \in Nat /\ a + cfg.chunk <= b /\ k - 1 = b + r
          /\ Sent = a + Len(chunks[Last])
      BY <2>1, <2>3, <3>1, <3>2, <3>3
    <3> HIDE DEF a, b
    <3>5. QED
      <4>1. Len(chunks[Last]) <= cfg.chunk /\ Len(chunks[Last]) \in Nat /\ r \in Nat
        BY <1>2, <2>1, <2>3
      <4>2. Sent <= b
        BY <1>2, <3>4, <4>1
      <4>3. QED
        BY <1>1, <2>2, <3>4, <4>1, <4>2
  <2>5. r + 1 \in 1..Len(chunks[i])
    <3>1. CASE i = Last
      <4> DEFINE a == Last * cfg.chunk
      <4>1. a \in Nat /\ k - 1 = a + r /\ Sent = a + Len(chunks[i])
        BY <1>2, <2>1, <2>3, <3>1, Times
      <4> HIDE DEF a
      <4>2. QED
        BY <1>2, <2>1, <2>2, <2>3, <3>1, <4>1
    <3>2. CASE i # Last
      BY <1>2, <2>1, <2>3, <2>4, <3>2
    <3>3. QED
      BY <3>1, <3>2
  <2>6. i \in DOMAIN chunks
    BY <2>1, <2>3, <2>4
  <2>7. QED
    BY <2>1, <2>5, <2>6 DEF i, r, PlaceOf, WithinOf

\* The record at each place of what is relayed.
LEMMA RelayedIs ==
  ASSUME Inv, Suits
  PROVE  Relayed = SubSeq(Source, 1, Sent)
<1>0. /\ ScriptOK /\ RunOK /\ ContentInv /\ CountInv /\ ShapeInv
  BY TypeSplit, RunIs DEF ScriptOK, Inv, RelayInv
<1>1. /\ Contiguous /\ Sent \in Nat /\ Sent <= cfg.total
  BY <1>0, ChunksAre DEF CountInv, ScriptOK, RunOK
<1>2. /\ cfg.chunk \in Nat \ {0} /\ cfg.total \in Nat
  BY <1>0 DEF RunOK
<1>3. SubSeq(Source, 1, Sent) = [k \in 1..Sent |-> k]
  <2>1. Source \in Seq(Nat) /\ Len(Source) = cfg.total /\ \A i \in 1..cfg.total : Source[i] = i
    BY <1>2 DEF Source
  <2>2. SubSeq(Source, 1, Sent) = [k \in 1..(1 + Sent - 1) |-> Source[k + 1 - 1]]
    BY <1>1, <2>1
  <2>3. 1 + Sent - 1 = Sent /\ \A k \in 1..Sent : k + 1 - 1 = k /\ k \in 1..cfg.total
    BY <1>1, <1>2
  <2>4. QED
    BY <2>1, <2>2, <2>3
<1>4. ASSUME NEW k \in 1..Sent
      PROVE  chunks[PlaceOf(k)][WithinOf(k) + 1] = k
  <2> DEFINE i == PlaceOf(k)
             r == WithinOf(k)
  <2>1. /\ i \in Nat /\ r \in 0..(cfg.chunk - 1) /\ k - 1 = i * cfg.chunk + r
        /\ i \in DOMAIN chunks /\ r + 1 \in 1..Len(chunks[i])
    BY PlaceIs
  <2> HIDE DEF i, r
  <2>2. chunks[i][r + 1] = i * cfg.chunk + (r + 1)
    BY <1>0, <2>1 DEF ContentInv
  <2>3. i * cfg.chunk \in Nat
    BY <1>2, <2>1, Times
  <2>4. chunks[i][r + 1] = k
    <3> DEFINE a == i * cfg.chunk
    <3>1. a \in Nat /\ k - 1 = a + r /\ chunks[i][r + 1] = a + (r + 1) /\ r \in Nat
      BY <1>2, <2>1, <2>2, <2>3
    <3> HIDE DEF a
    <3>2. QED
      BY <1>1, <3>1
  <2>5. QED
    BY <2>4 DEF i, r
<1>5. QED
  BY <1>3, <1>4 DEF Relayed, PlaceOf, WithinOf

\* Relayed records are in the order of the source, whatever the source.
LEMMA RelayedInOrder ==
  ASSUME Inv, ~StartsOver, NEW k \in 1..Sent, NEW l \in 1..Sent, k < l
  PROVE  Relayed[k] < Relayed[l]
<1>0. /\ cfg.chunk \in Nat \ {0} /\ index \in Nat /\ InOrder /\ Sent \in Nat
      /\ DOMAIN chunks = 0..(index - 1) \/ (DOMAIN chunks = 0..index /\ chunks[index] = chunk)
  <2>1. ScriptOK /\ RunOK
    BY TypeSplit, RunIs DEF ScriptOK, Inv
  <2>2. QED
    BY <2>1, ChunksAre DEF ScriptOK, RunOK, Inv, OrderInv
<1>1. \A n \in 1..Sent : Relayed[n] = chunks[PlaceOf(n)][WithinOf(n) + 1]
  BY DEF Relayed, PlaceOf, WithinOf
<1> DEFINE i == PlaceOf(k)
           r == WithinOf(k)
           j == PlaceOf(l)
           t == WithinOf(l)
<1>2. /\ i \in Nat /\ r \in 0..(cfg.chunk - 1) /\ k - 1 = i * cfg.chunk + r
      /\ i \in DOMAIN chunks /\ r + 1 \in 1..Len(chunks[i])
  BY PlaceIs
<1>3. /\ j \in Nat /\ t \in 0..(cfg.chunk - 1) /\ l - 1 = j * cfg.chunk + t
      /\ j \in DOMAIN chunks /\ t + 1 \in 1..Len(chunks[j])
  BY PlaceIs
<1>4. Relayed[k] = chunks[i][r + 1] /\ Relayed[l] = chunks[j][t + 1]
  BY <1>1
<1> HIDE DEF i, j, r, t
<1>5. i < j \/ (i = j /\ r < t)
  <2> DEFINE a == i * cfg.chunk
             b == j * cfg.chunk
  <2>1. a \in Nat /\ b \in Nat
    BY <1>0, <1>2, <1>3, Times
  <2>2. CASE j + 1 <= i
    <3>1. (j + 1) * cfg.chunk <= i * cfg.chunk /\ (j + 1) * cfg.chunk = j * cfg.chunk + cfg.chunk
      <4>1. j + 1 \in Nat /\ i \in Nat /\ cfg.chunk \in Nat
        BY <1>0, <1>2, <1>3
      <4>2. (j + 1) * cfg.chunk <= i * cfg.chunk
        BY <2>2, <4>1, PageMore
      <4>3. QED
        BY <1>3, <4>1, <4>2, Times
    <3>2. b + cfg.chunk <= a /\ k - 1 = a + r /\ l - 1 = b + t
      BY <1>2, <1>3, <3>1
    <3> HIDE DEF a, b
    <3>3. /\ k \in Nat /\ l \in Nat /\ r \in Nat /\ t \in Nat /\ t < cfg.chunk /\ k < l
          /\ cfg.chunk \in Nat
      BY <1>0, <1>2, <1>3
    <3>4. l - 1 < a /\ a <= k - 1
      BY <2>1, <3>2, <3>3
    <3>5. QED
      BY <2>1, <3>3, <3>4
  <2>3. CASE i = j
    <3>1. k - 1 = a + r /\ l - 1 = a + t
      BY <1>2, <1>3, <2>3
    <3> HIDE DEF a, b
    <3>2. QED
      BY <1>0, <1>2, <1>3, <2>1, <2>3, <3>1
  <2>4. QED
    BY <1>2, <1>3, <2>2, <2>3
<1>6. \A n \in DOMAIN chunks : n \in 0..index /\ Got(n) = chunks[n]
  BY <1>0 DEF Got
<1>7. /\ i \in 0..index /\ Got(i) = chunks[i]
      /\ j \in 0..index /\ Got(j) = chunks[j]
  BY <1>2, <1>3, <1>6
<1>8. i < j \/ (i = j /\ r + 1 < t + 1)
  BY <1>0, <1>2, <1>3, <1>5
<1>9. Got(i)[r + 1] < Got(j)[t + 1]
  BY <1>0, <1>2, <1>3, <1>7, <1>8 DEF InOrder
<1>10. QED
  BY <1>4, <1>7, <1>9

\* Whatever the bridge has, of a run that goes on, failed or completed, are full chunks
\* but for the last, with no record twice and none out of order; only a cursor that ends
\* as an empty string starts over. Of a source that suits they are its first records.
THEOREM PrefixHolds == Spec => []ChunksArePrefix
<1>1. Inv => ChunksArePrefix
  <2> SUFFICES ASSUME Inv PROVE ChunksArePrefix
    OBVIOUS
  <2>1. Contiguous /\ Sent \in Nat
    BY ChunksAre
  <2>2. Len(Relayed) = Sent
    BY <2>1 DEF Relayed
  <2>3. DOMAIN Relayed = 1..Sent
    BY DEF Relayed
  <2>4. StartsOver \/ \A i, k \in DOMAIN Relayed : i < k => Relayed[i] < Relayed[k]
    BY <2>3, RelayedInOrder
  <2>5. QED
    BY <2>1, <2>2, <2>4, RelayedIs DEF ChunksArePrefix
<1>2. QED
  BY <1>1, InvInit, InvStep, PTL DEF Spec

\* A completed session of a source that suits has exactly the records that were wanted;
\* of every source it has as many as were declared, and no more than the limit.
THEOREM WholeHolds == Spec => []CompletedIsWhole
<1>1. Inv => CompletedIsWhole
  <2> SUFFICES ASSUME Inv, session = "completed"
               PROVE  /\ declared = Len(Relayed)
                      /\ cfg.limit # NULL => declared <= AtLeastOne(cfg.limit)
                      /\ Suits => Relayed = SubSeq(Source, 1, Wanted)
    BY DEF CompletedIsWhole
  <2>1. Sent = uploaded /\ Sent \in Nat /\ declared = uploaded
    BY ChunksAre DEF Inv, ShapeInv
  <2>2. Len(Relayed) = Sent
    BY <2>1 DEF Relayed
  <2>3. Suits => uploaded = Wanted
    BY DEF Inv, RelayInv, CountInv
  <2>4. cfg.limit # NULL => uploaded <= AtLeastOne(cfg.limit)
    BY DEF Inv, LimitInv
  <2>5. QED
    BY <2>1, <2>2, <2>3, <2>4, RelayedIs
<1>2. QED
  BY <1>1, InvInit, InvStep, PTL DEF Spec
=============================================================================
