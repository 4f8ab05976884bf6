------------------------------ MODULE MCRelay ------------------------------
(* Runs of the relay script that TLC checks: up to five records in pages of *)
(* up to three and chunks of up to two.                                     *)
EXTENDS Relay

Runs ==
  [type : Paginations, size : {2, 3}, cap : {2, 3}, start : {NULL, 0, 1}, base : {0, 1},
   end : {NULL, EMPTY}, maxPages : {NULL, 0, 2}, limit : {NULL, 0, 3, 4}, chunk : {1, 2},
   total : {0, 3, 5}]

\* Only pages and offsets have a first number; a page's is at least that of the
\* source. A cursor that ends as an empty string starts over: only maxPages ends such a run.
SomeRuns ==
  {r \in Runs :
     /\ CASE r.type = "page" -> r.start # NULL => r.start >= r.base
          [] r.type = "offset" -> r.base = 0
          [] OTHER -> r.start = NULL /\ r.base = 0
     /\ r.end = EMPTY => r.type = "nextLink" \/ (r.type = "cursor" /\ r.maxPages # NULL)}
=============================================================================
