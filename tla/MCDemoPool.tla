----------------------------- MODULE MCDemoPool -----------------------------
(***************************************************************************)
(* A user of an org and the super admin of another; a job with a system     *)
(* source and assets in a data sink of their own, and one with a           *)
(* connection as its source, assets in the default places and field        *)
(* extraction.                                                             *)
(***************************************************************************)
EXTENDS DemoPool

Caller(org, user, role) == [org |-> org, user |-> user, role |-> role]
SomeCallers == {Caller("o", "u", "user"), Caller("demo", "demo", "super_admin")}

Data(source, asink, adest, extract) ==
  [source |-> source, sink |-> "zip", dest |-> "set", resolve |-> TRUE, asink |-> asink, adest |-> adest,
   hook |-> "url", extract |-> extract]
SomeSubmissions == {Data(NULL, "jsonl", NULL, FALSE), Data(1, NULL, NULL, TRUE)}
=============================================================================
