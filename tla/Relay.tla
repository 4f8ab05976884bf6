-------------------------------- MODULE Relay --------------------------------
(***************************************************************************)
(* One run of client-side-relay/databridge-relay.py: the pages of an API   *)
(* are fetched and their records uploaded in chunks to a relay session.    *)
(*                                                                         *)
(* The source has the records 1..total and answers each request with a     *)
(* page of them. The bridge is the session API the script is written for   *)
(* (docs/client-relay-mode.md); the repository has no implementation of it,*)
(* so that it is modelled as what it has been told.                        *)
(***************************************************************************)
EXTENDS Integers, Sequences, FiniteSets

CONSTANTS
  NULL,
  EMPTY,    \* the empty string, as some sources end with
  Configs   \* the runs: see ConfigsAssumption

Paginations == {"none", "cursor", "offset", "page", "nextLink"}

\* pagination: its type, the page size asked for, the page number the user starts
\* with, maxPages; the relay: --limit and chunkRecords; the source: its records, the
\* most it puts on a page, its first page number, its last cursor or link. Pages are
\* numbered from zero or from one, and a user does not ask for one before the first.
ASSUME ConfigsAssumption ==
  \A c \in Configs :
    /\ c.type \in Paginations /\ c.end \in {NULL, EMPTY}
    /\ {c.size, c.chunk, c.cap} \subseteq Nat \ {0}
    /\ {c.total, c.base} \subseteq Nat
    /\ {c.start, c.maxPages, c.limit} \subseteq Nat \cup {NULL}
    /\ c.type = "page" => c.base \in {0, 1} /\ (c.start = NULL \/ c.start >= c.base)

ASSUME NullAssumption ==
  /\ NULL \notin {"open", "completed"}
  /\ NULL \notin Nat /\ EMPTY \notin Nat

VARIABLES
  cfg,      \* the run
  at,       \* where the script is
  position, \* the parameter that is advanced: an offset, a page, a cursor, a link
  pages, uploaded, index,  \* page_count, uploaded, chunk_index
  page,     \* the records of the page that are still to be relayed
  next,     \* what next_pagination_value makes of the page: NULL to stop
  chunk,    \* the records collected for the next chunk
  session, chunks, declared,  \* the session, as the bridge knows it
  aborted,  \* the bridge was told to abort
  lost      \* calls to the bridge whose reply did not arrive; not stored

scriptVars == <<position, pages, uploaded, index, page, next, chunk>>
bridgeVars == <<session, chunks, declared, aborted>>
vars == <<cfg, at, scriptVars, bridgeVars, lost>>

Init ==
  /\ cfg \in Configs
  /\ at = "create"
  /\ position = cfg.start
  /\ pages = 0 /\ uploaded = 0 /\ index = 0
  /\ page = <<>> /\ next = NULL /\ chunk = <<>>
  /\ session = NULL /\ chunks = <<>> /\ declared = NULL
  /\ aborted = FALSE
  /\ lost = {}

Ended == {"done", "failed"}

-----------------------------------------------------------------------------
(* The source                                                              *)

Least(a, b) == IF a < b THEN a ELSE b
Given(value, default) == IF value \in {NULL, EMPTY} THEN default ELSE value

Served == Least(cfg.size, cfg.cap)
Before ==
  CASE cfg.type = "none" -> 0
    [] cfg.type = "page" -> (Given(position, cfg.base) - cfg.base) * Served
    [] OTHER -> Given(position, 0)
Source == [i \in 1..cfg.total |-> i]
Reply == SubSeq(Source, Before + 1, Least(Before + Served, cfg.total))
Cursor == IF Before + Served < cfg.total THEN Before + Served ELSE cfg.end

-----------------------------------------------------------------------------
(* The script                                                              *)

\* next_pagination_value: what the next request is to send, or NULL to stop.
\*
\* Mutant: a page without records is not the last.
NextOffsetAlways(reply) == Least(Given(position, 0) + cfg.size, cfg.total)

NextOffset(reply) == IF reply = <<>> THEN NULL ELSE Given(position, 0) + cfg.size

\* Mutant: a page number that was not sent is taken for zero.
NextPageFromZero(reply) == IF reply = <<>> THEN NULL ELSE Given(position, 0) + 1

NextPage(reply) == IF reply = <<>> THEN NULL ELSE Given(position, 1) + 1

NextOf(reply) ==
  CASE cfg.type = "none" -> NULL
    [] cfg.type = "cursor" -> Cursor
    [] cfg.type = "nextLink" -> Given(Cursor, NULL)
    [] cfg.type = "offset" -> NextOffset(reply)
    [] cfg.type = "page" -> NextPage(reply)

LimitHit(n) == cfg.limit # NULL /\ n >= cfg.limit

\* POST sessions. When it raises there is no session id, and nothing is aborted.
CreateSession ==
  /\ at = "create" /\ at' = "fetch"
  /\ session' = "open"
  /\ UNCHANGED <<cfg, scriptVars, chunks, declared, aborted, lost>>

CreateFails ==
  /\ at = "create" /\ at' = "failed"
  /\ \/ UNCHANGED <<session, lost>>
     \/ session' = "open" /\ lost' = lost \cup {"create"}
  /\ UNCHANGED <<cfg, scriptVars, chunks, declared, aborted>>

\* page_count is only compared with maxPages.
FetchPage ==
  /\ at = "fetch" /\ at' = "relay"
  /\ pages' = IF cfg.maxPages = NULL THEN pages ELSE pages + 1
  /\ page' = Reply
  /\ next' = NextOf(Reply)
  /\ UNCHANGED <<cfg, position, uploaded, index, chunk, bridgeVars, lost>>

\* The body of the loop over the records, up to the upload of a full chunk.
TakeRecord ==
  /\ at = "relay" /\ page # <<>>
  /\ page' = Tail(page)
  /\ chunk' = Append(chunk, Head(page))
  /\ uploaded' = uploaded + 1
  /\ at' = IF Len(chunk') >= cfg.chunk THEN "upload"
           ELSE IF LimitHit(uploaded') THEN "flush" ELSE "relay"
  /\ UNCHANGED <<cfg, position, pages, index, next, bridgeVars, lost>>

Received == [i \in DOMAIN chunks \cup {index} |-> IF i = index THEN chunk ELSE chunks[i]]

\* PUT chunks/{index}.
\*
Upload ==
  /\ at = "upload"
  /\ chunks' = Received
  /\ index' = index + 1
  /\ chunk' = <<>>
  /\ at' = IF LimitHit(uploaded) THEN "flush" ELSE "relay"
  /\ UNCHANGED <<cfg, position, pages, uploaded, page, next, session, declared, aborted, lost>>

\* The page is done: maxPages is looked at before what the source says is next.
TurnPage ==
  /\ at = "relay" /\ page = <<>>
  /\ IF next = NULL \/ (cfg.maxPages # NULL /\ pages >= cfg.maxPages)
     THEN at' = "flush" /\ UNCHANGED position
     ELSE at' = "fetch" /\ position' = next
  /\ UNCHANGED <<cfg, pages, uploaded, index, page, next, chunk, bridgeVars, lost>>

\* The last chunk, if it is not empty.
\*
\* Mutant: a last chunk that is not full is forgotten.
FlushFull ==
  /\ at = "flush" /\ at' = "complete"
  /\ UNCHANGED <<cfg, scriptVars, bridgeVars, lost>>

Flush ==
  /\ at = "flush" /\ at' = "complete"
  /\ chunks' = IF chunk = <<>> THEN chunks ELSE Received
  /\ UNCHANGED <<cfg, scriptVars, session, declared, aborted, lost>>

Complete ==
  /\ at = "complete" /\ at' = "done"
  /\ session' = "completed" /\ declared' = uploaded
  /\ UNCHANGED <<cfg, scriptVars, chunks, aborted, lost>>

\* Mutant: completed is set before the call.
RaiseCompleted ==
  /\ at \in {"fetch", "relay", "upload", "flush", "complete"}
  /\ at' = IF at = "complete" THEN "failed" ELSE "abort"
  /\ UNCHANGED <<cfg, scriptVars, bridgeVars, lost>>

\* Anything raises: the source, the bridge, an interrupt. A call to the bridge may
\* have been received all the same.
Raise ==
  /\ at \in {"fetch", "relay", "upload", "flush", "complete"}
  /\ at' = "abort"
  /\ \/ UNCHANGED <<bridgeVars, lost>>
     \/ /\ at \in {"upload", "flush"} /\ chunk # <<>>
        /\ chunks' = Received
        /\ UNCHANGED <<session, declared, aborted, lost>>
     \/ /\ at = "complete"
        /\ session' = "completed" /\ declared' = uploaded
        /\ lost' = lost \cup {"complete"}
        /\ UNCHANGED <<chunks, aborted>>
  /\ UNCHANGED <<cfg, scriptVars>>

\* The finally clause; its own failure is swallowed.
Abort ==
  /\ at = "abort" /\ at' = "failed"
  /\ \/ aborted' = TRUE /\ UNCHANGED lost
     \/ lost' = lost \cup {"abort"} /\ UNCHANGED aborted
  /\ UNCHANGED <<cfg, scriptVars, session, chunks, declared>>

Next ==
  \/ CreateSession
  \/ CreateFails
  \/ FetchPage
  \/ TakeRecord
  \/ Upload
  \/ TurnPage
  \/ Flush
  \/ Complete
  \/ Raise
  \/ Abort

\* The script is one thread, and each of its calls has a timeout.
Spec == Init /\ [][Next]_vars /\ WF_vars(Next)

-----------------------------------------------------------------------------
(* Properties                                                              *)

\* Every variable has its type, and the counter is of the records relayed.
Positions == Nat \cup {NULL, EMPTY}
Places == {"create", "fetch", "relay", "upload", "flush", "complete", "abort"} \cup Ended
TypeOK ==
  /\ cfg \in Configs /\ at \in Places
  /\ {pages, uploaded, index} \subseteq Nat /\ {position, next} \subseteq Positions
  /\ {page, chunk} \subseteq Seq(Nat) /\ chunks \in [DOMAIN chunks -> Seq(Nat)]
  /\ session \in {NULL, "open", "completed"} /\ declared \in Nat \cup {NULL}
  /\ aborted \in BOOLEAN /\ lost \subseteq {"create", "complete", "abort"}
  /\ Len(chunk) <= cfg.chunk
  /\ uploaded = index * cfg.chunk + Len(chunk)

\* Source and pagination suit each other, and the run starts at the beginning. An
\* offset source that puts less on a page than it is asked for, a page source that
\* starts at zero without the user saying so, and a cursor that ends as an empty string
\* do not suit.
FromStart == Given(cfg.start, 0) = 0
Suits ==
  CASE cfg.type = "none" -> cfg.total <= Served
    [] cfg.type = "cursor" -> FromStart /\ cfg.end = NULL
    [] cfg.type = "nextLink" -> FromStart
    [] cfg.type = "offset" -> FromStart /\ cfg.cap >= cfg.size
    [] cfg.type = "page" -> Given(cfg.start, 1) = cfg.base

\* Then the first page is asked for again.
StartsOver == cfg.type = "cursor" /\ cfg.end = EMPTY

\* The records the user asked for. A limit of zero is one, and so is a maxPages.
AtLeastOne(n) == IF n < 1 THEN 1 ELSE n
InPages ==
  IF cfg.maxPages = NULL THEN cfg.total
  ELSE Least(cfg.total, AtLeastOne(cfg.maxPages) * Served)
Wanted == IF cfg.limit = NULL THEN InPages ELSE Least(InPages, AtLeastOne(cfg.limit))

\* The bridge puts the chunks together by their indices: all are full but the last,
\* which is not empty.
Last == Cardinality(DOMAIN chunks) - 1
Contiguous ==
  /\ DOMAIN chunks = 0..Last
  /\ \A i \in DOMAIN chunks :
       IF i = Last THEN Len(chunks[i]) \in 1..cfg.chunk ELSE Len(chunks[i]) = cfg.chunk
Sent == IF DOMAIN chunks = {} THEN 0 ELSE Last * cfg.chunk + Len(chunks[Last])
Relayed == [k \in 1..Sent |-> chunks[(k - 1) \div cfg.chunk][((k - 1) % cfg.chunk) + 1]]

\* Whatever has been uploaded at any time, of a run that went on or failed, are full
\* chunks but for the last. No source makes the script repeat a record or change the
\* order of two, but one whose last cursor is an empty string; one that suits leaves
\* no gap either: what is uploaded is a beginning of it.
ChunksArePrefix ==
  /\ Contiguous
  /\ StartsOver \/ \A i, k \in DOMAIN Relayed : i < k => Relayed[i] < Relayed[k]
  /\ Suits => Relayed = SubSeq(Source, 1, Len(Relayed))

\* A completed session of a source that suits has exactly the records that were
\* wanted, whichever way it paginates and wherever chunks, pages and limit end; and
\* for every source the number declared is the number sent, within the limit.
CompletedIsWhole ==
  session = "completed" =>
    /\ declared = Len(Relayed)
    /\ cfg.limit # NULL => declared <= AtLeastOne(cfg.limit)
    /\ Suits => Relayed = SubSeq(Source, 1, Wanted)

\* A script that has ended leaves no session open, and does not abort one it
\* completed, unless the reply to just that call was lost.
SessionIsClosed ==
  /\ at \in Ended /\ session = "open" => aborted \/ {"create", "abort"} \cap lost # {}
  /\ session = "completed" /\ aborted => "complete" \in lost
  /\ at = "done" => session = "completed" /\ ~aborted

\* The loop over the pages ends.
RelayEnds == <>(at \in Ended)
=============================================================================
