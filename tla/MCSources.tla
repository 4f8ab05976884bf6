------------------------------ MODULE MCSources ------------------------------
(* Sources and requests of the instances that TLC checks: up to four rows,  *)
(* with times that differ, tie and share a second, in buckets of one or two *)
(* formats.                                                                 *)
EXTENDS Sources

Stored(times, hits, broken, format) ==
  [time |-> [c \in Columns |-> IF c = "timestamp" THEN times ELSE Reverse(times)],
   hits |-> hits, broken |-> broken, format |-> format]

SomeTables ==
  {Stored(<<>>, {}, {}, <<>>),
   Stored(<<1, 4, 2>>, {1, 2}, {}, <<"jsonl", "jsonl", "jsonl">>),
   Stored(<<2, 2, 3>>, {1, 2, 3}, {}, <<"parquet", "parquet", "parquet">>),
   Stored(<<3, 1, 5>>, {2, 3}, {2}, <<"jsonl", "jsonl", "jsonl">>),
   Stored(<<0, 1, 2>>, {1, 3}, {1}, <<"parquet", "csv", "csv">>),
   Stored(<<5, 4, 1>>, {1, 2, 3}, {}, <<"csv", "txt", "parquet">>),
   Stored(<<1, 3, 3, 0>>, {1, 2, 4}, {}, <<"csv", "csv", "csv", "parquet">>)}

SomeRequests ==
  {r \in [query : BOOLEAN, start : {NULL, 1}, end : {NULL, 3, 4},
          field : {NULL, "created", "", "missing", "not an identifier"}, sort : {NULL, "created"}] :
     r.sort # NULL => r.field = NULL}

SomeReaders == <<"parquet", "jsonl", "csv">>
=============================================================================
