------------------------------- MODULE MCSinks -------------------------------
(* The instances that TLC checks: two jobs of up to two records, alone or to *)
(* the same destination, with and without assets.                           *)
EXTENDS Sinks, TLC

Plain == [data |-> "none", name |-> "x.json", url |-> NULL]
Twin == [Plain EXCEPT !.url = "a.png"]
Other == [Plain EXCEPT !.url = "b.png"]
Hex == [Plain EXCEPT !.data = "hex"]
Text == [Plain EXCEPT !.data = "text"]

To(type, dest, asset, adest, records, notify) ==
  [type |-> type, dest |-> dest, asset |-> asset, adest |-> adest, records |-> records, hook |-> notify]
Alone(type, dest, records) == To(type, dest, NULL, dest, records, FALSE)

\* Pairs that share a service or a directory, and jobs on their own.
SomeScenarios ==
  {<<Alone("tagme-dataset", "set", <<Plain>>), Alone("tagme-dataset", "set", <<>>)>>,
   <<Alone("dataset-mock", "set", <<Plain>>), Alone("dataset-mock", "set", <<Plain>>)>>}
  \cup {<<Alone(t, "new", <<Plain>>), Alone(t, "new", <<>>)>> : t \in {"local-jsonl", "s3-zip"}}
  \cup {1 :> Alone(t, d, <<Plain, Plain>>) :
          t \in DatasetTypes \cup Annotators, d \in {"set", "setting", "new", "uuid1", "uuid9"}}
  \cup {1 :> Alone(t, "set", <<Plain, r>>) : t \in Files, r \in {Hex, Text}}
  \cup {1 :> To(t, "set", a, d, <<Twin>>, TRUE) : t \in {"s3-jsonl", "local-zip"}, a \in Types, d \in {"set", "uuid9"}}
  \cup {1 :> To("tagme-dataset", "set", "tagme-dataset", "new", <<Twin, Plain>>, FALSE)}
  \cup {1 :> To("dataset-mock", "set", a, "new", <<Twin, r>>, FALSE) : a \in Jsonls, r \in {Twin, Other}}

UuidOf == [n \in {"set", "setting", "new", "uuid1", "uuid9"} |->
             IF n = "uuid1" THEN 1 ELSE IF n = "uuid9" THEN 9 ELSE 0]
SimilarTo == [n \in DOMAIN UuidOf |-> IF n = "set" THEN {"set", "setting"} ELSE {n}]
ThePresent == [datasets |-> <<"setting">>, projects |-> <<"set">>]
=============================================================================
