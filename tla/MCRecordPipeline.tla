-------------------------- MODULE MCRecordPipeline --------------------------
(* Jobs of the small instances of RecordPipeline that TLC checks.          *)
EXTENDS MaskedRecords

leaf(x) == [leaf |-> x]
obj(f) == [obj |-> f]
list(s) == [list |-> s]
text(v) == [text |-> v]

Digits == [d \in {"0", "1", "2"} |-> CASE d = "0" -> 0 [] d = "1" -> 1 [] d = "2" -> 2]
Splits == [k \in {"user.email"} |-> <<"user", "email">>]

All == [method |-> "random", num |-> 1, den |-> 1]

-----------------------------------------------------------------------------
(* Sampling: seven records of two groups.                                  *)

Ratios == {<<1, 1>>, <<1, 2>>, <<2, 5>>, <<1, 3>>, <<3, 8>>, <<4, 5>>, <<3, 2>>, <<5, 2>>, <<3, 1>>, <<9, 1>>}
SomeSamplings == {[method |-> m, num |-> r[1], den |-> r[2]] : m \in Methods, r \in Ratios}

InGroup(g) == obj([group |-> leaf(g)])
Stream == [i \in 1..7 |-> IF i \in {2, 6, 7} THEN InGroup("b") ELSE IF i = 4 THEN obj([n |-> leaf("n")]) ELSE InGroup("a")]
Groups == {"a", "b", "_unknown"}

Plain(records, s) == [records |-> records, sampling |-> s, path |-> NULL, rules |-> <<>>, urls |-> <<>>]
SamplingJobs == {Plain(Stream, s) : s \in SomeSamplings}

-----------------------------------------------------------------------------
(* Extraction and masking: one record, up to two rules.                    *)

Items == list(<<obj([email |-> leaf("e1")]), obj([email |-> leaf("e2"), n |-> leaf("n1")])>>)
Native == obj([event |-> obj([items |-> Items, data |-> leaf("n2")]), plain |-> leaf("p")])
InText == obj([event |-> text(obj([items |-> text(Items), plain |-> leaf("s")])), plain |-> leaf("p")])
Lost == obj([event |-> text(text(Items)), plain |-> leaf("p")])

Extractions == {NULL, <<"event">>, <<"event", "items">>, <<"event", "items", "1">>, <<"plain">>}
RulePaths == {<<"event">>, <<"event", "items", "0">>, <<"event", "items", "0", "email">>,
              <<"event", "items", "1", "email">>, <<"items", "1">>, <<"items", "1", "email">>, <<"email">>,
              <<"data">>, <<"plain">>}
Rules == [path : RulePaths, action : {"mask", "drop"}] \cup [path : {<<"items", "1">>, <<"data">>}, action : Actions]
RuleLists == {<<>>} \cup {<<r>> : r \in Rules} \cup {<<q, r>> : q, r \in Rules}

MaskingJobs ==
  {[records |-> <<r>>, sampling |-> All, path |-> p, rules |-> m, urls |-> <<>>] :
     r \in {Native, InText, Lost}, p \in Extractions, m \in RuleLists}

-----------------------------------------------------------------------------
(* Assets: two records with two URL fields, one field perhaps masked.      *)

LastSegments == [u \in {"http://h/1/x.png", "http://h/2/y.png"} |-> IF u = "http://h/1/x.png" THEN "x.png" ELSE "y.png"]
Links == {obj([url |-> leaf("http://h/1/x.png"), thumb |-> leaf("http://h/2/y.png")]),
          obj([url |-> leaf("http://h/2/y.png"), data |-> leaf("ab")]),
          obj([url |-> leaf(""), thumb |-> leaf("not a url")]),
          obj([url |-> leaf("http://h/2/y.png"), data |-> leaf("s")]),
          obj([sub |-> list(<<leaf("s")>>)])}
AssetJobs ==
  {[records |-> rs, sampling |-> All, path |-> p, rules |-> m, urls |-> <<"url", "thumb">>] :
     rs \in [1..2 -> Links], p \in {NULL, <<"sub">>}, m \in {<<>>, <<[path |-> <<"thumb">>, action |-> "redact"]>>, <<[path |-> <<"data">>, action |-> "hash"]>>}}

-----------------------------------------------------------------------------
(* Candidates for masking: records whose envelopes disagree.               *)

Envelopes ==
  {obj([user |-> leaf("u")]),
   obj([user |-> obj([email |-> leaf("e1"), _id |-> obj([email |-> leaf("e2")])])]),
   obj([user |-> text(obj([email |-> text(list(<<leaf("e3")>>)), n |-> leaf("n")]))]),
   obj([user |-> text(text(obj([email |-> leaf("e4")])))]),
   obj([email |-> obj([a |-> obj([b |-> obj([email |-> leaf("e5")])])]), user |-> list(<<obj([email |-> leaf("e6")])>>)]),
   obj([k \in {"user.email"} |-> leaf("e7")])}
CandidateJobs == {Plain(rs, All) : rs \in [1..2 -> Envelopes]}

AllJobs == SamplingJobs \cup MaskingJobs \cup AssetJobs \cup CandidateJobs

Empty == {""}
Numbers == {"n", "n1", "n2"}
HexDigits == {"ab", ""}
Underscored == {"_id"}
Emails == {"email", "user.email"}
AnyFile == {"x.png", "y.png"}
=============================================================================
