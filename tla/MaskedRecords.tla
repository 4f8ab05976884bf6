---------------------------- MODULE MaskedRecords ----------------------------
(***************************************************************************)
(* What the masking rules of RecordPipeline are meant to do, without       *)
(* applying them, and what that says of the records posted and of the      *)
(* fields offered for masking.                                             *)
(***************************************************************************)
EXTENDS RecordPipeline

\* The scalars of a value. Those of the records are all different.
RECURSIVE Leaves(_)
Leaves(v) ==
  IF Is("leaf", v) THEN {v.leaf}
  ELSE IF Is("text", v) THEN Leaves(v.text)
  ELSE IF Is("obj", v) THEN UNION {Leaves(v.obj[k]) : k \in DOMAIN v.obj}
  ELSE IF Is("list", v) THEN UNION {Leaves(v.list[i]) : i \in DOMAIN v.list}
  ELSE {}

\* A rule that drops an element of a list renames the elements behind it for the
\* rules that follow: where a path led before the drop.
KeyFor(n) == CHOOSE k \in DOMAIN IndexOf : IndexOf[k] = n
BeforeDrop(record, drop, path) ==
  LET at == Len(drop.path)
      within == Decode(Resolve(record, Front(drop.path)))
  IN  IF /\ drop.action = "drop"
         /\ Is("list", within) /\ Last(drop.path) \in KeysIn(within)
         /\ at <= Len(path) /\ SubSeq(path, 1, at - 1) = Front(drop.path)
         /\ path[at] \in DOMAIN IndexOf /\ IndexOf[path[at]] >= IndexOf[Last(drop.path)]
      THEN [path EXCEPT ![at] = KeyFor(IndexOf[path[at]] + 1)]
      ELSE path

\* Where the path of rule i leads in the record as it was.
Original(record, rules, i) ==
  FoldRight(LAMBDA k, path : BeforeDrop(ApplyMasking(record, SubSeq(rules, 1, k - 1)), rules[k], path),
            [k \in 1..(i - 1) |-> k], rules[i].path)

\* The scalars the paths of the rules name in the record as it was.
Named(record, rules) ==
  UNION {Leaves(Resolve(record, Original(record, rules, i))) : i \in DOMAIN rules}

\* Every value a rule names is gone, and no other value is touched.
MasksExactly(record, rules, masked) ==
  Leaves(masked) \ Marks = Leaves(record) \ Named(record, rules)

-----------------------------------------------------------------------------
\* What is posted is the content the job asks for, in a container, with every
\* value its rules name gone and no other touched: masking sees the record that
\* reaches the sink, whatever extraction did to it. Rules that follow one that drops
\* a list element name the elements by their new places: none is masked for another.
\* Asset references take the place of URLs, so the URL fields are not compared.
MaskedAsConfigured ==
  \A i \in DOMAIN posted :
    LET content == Content(posted[i].from)
        value == posted[i].value
    IN  /\ IsContainer(value) /\ content # NoValue
        /\ ~Resolves => MasksExactly(content, job.rules, value)

\* What the page offers for masking can be masked: each candidate field of a record is
\* found in it, and redacting the candidates of all records leaves no value at any of
\* them and touches no other, though the walk of the schema and the one of the masking
\* have each their own idea of JSON in text. (A key with a dot in it is offered and not found: see the README.)
CandidatesMaskable ==
  LET offered == SetToSeq(Candidates(job.records))
      rules == [i \in DOMAIN offered |-> [path |-> offered[i], action |-> "redact"]]
      Plain(r) == \A p \in Walk(r) : ToSet(p) \cap DOMAIN SplitOf = {}
  IN  \A r \in ToSet(job.records) :
        Plain(r) => /\ MasksExactly(r, rules, ApplyMasking(r, rules))
                    /\ \A p \in Candidates(<<r>>) : Resolve(r, p) # Missing
=============================================================================
