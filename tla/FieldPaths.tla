----------------------------- MODULE FieldPaths -----------------------------
(***************************************************************************)
(* Dotted paths into JSON values: field extraction (export/extraction.py)  *)
(* and masking (export/masking.py).                                        *)
(*                                                                         *)
(* A value is an object [obj |-> function from keys], a list               *)
(* [list |-> sequence], a string that holds the JSON of another value      *)
(* [text |-> value], or anything else [leaf |-> name]: a number, null, a   *)
(* string that is not JSON. A path is a sequence of keys.                  *)
(***************************************************************************)
EXTENDS Naturals, Sequences, FiniteSets, SequencesExt

CONSTANTS
  IndexOf,   \* the keys that are digit strings, and the indices they stand for
  SplitOf,   \* the keys with dots in them, and the keys between the dots
  Hidden,    \* the keys that begin with an underscore
  Personal   \* the keys that match a pattern of _PII_NAME_PATTERNS

Missing == [missing |-> TRUE]
NoValue == [none |-> TRUE]

Is(kind, v) == kind \in DOMAIN v
IsContainer(v) == Is("obj", v) \/ Is("list", v)

\* json.loads of a string: text gives the value it holds.
Decode(v) == IF Is("text", v) THEN v.text ELSE v

\* The keys a decoded container has; "items.0" indexes a list.
KeysIn(v) ==
  IF Is("obj", v) THEN DOMAIN v.obj
  ELSE IF Is("list", v) THEN {k \in DOMAIN IndexOf : IndexOf[k] < Len(v.list)}
  ELSE {}

Child(v, key) == IF Is("obj", v) THEN v.obj[key] ELSE v.list[IndexOf[key] + 1]

\* _decode_and_index: the decoded container, and whether it has the key.
Found(v, key) == key \in KeysIn(Decode(v))

\* resolve_field_path. Nothing is found in what is missing.
Resolve(v, path) ==
  FoldLeft(LAMBDA node, key : IF Found(node, key) THEN Child(Decode(node), key) ELSE Missing, v, path)

\* extract_field_value: a container, native or as text, or nothing.
Extract(record, path) ==
  LET value == Decode(Resolve(record, path))
  IN  IF IsContainer(value) THEN value ELSE NoValue

-----------------------------------------------------------------------------
(* Masking                                                                 *)

Actions == {"mask", "hash", "drop", "redact"}
\* "***", a digest, "[REDACTED]": strings no path goes through.
Marks == {"***", "digest", "[REDACTED]"}
MarkOf(action) ==
  CASE action = "mask" -> [leaf |-> "***"]
    [] action = "hash" -> [leaf |-> "digest"]
    [] action = "redact" -> [leaf |-> "[REDACTED]"]

Put(v, key, child) ==
  IF Is("obj", v) THEN [obj |-> [v.obj EXCEPT ![key] = child]]
  ELSE [list |-> [v.list EXCEPT ![IndexOf[key] + 1] = child]]

\* del node[key]: the elements behind a deleted one move up.
Without(v, key) ==
  IF Is("obj", v) THEN [obj |-> [k \in DOMAIN v.obj \ {key} |-> v.obj[k]]]
  ELSE [list |-> RemoveAt(v.list, IndexOf[key] + 1)]

\* _apply_action.
Apply(v, key, action) ==
  IF action = "drop" THEN Without(v, key) ELSE Put(v, key, MarkOf(action))

\* A container that was text is text again after the change.
Encode(like, v) == IF Is("text", like) THEN [text |-> v] ELSE v

\* _apply_at_path: a path that does not resolve changes nothing. Otherwise the action is
\* done in the innermost container, and each one around it gets the new one inside.
ApplyAtPath(v, path, action) ==
  LET last == Len(path) - 1
      At(n) == Resolve(v, SubSeq(path, 1, n))
      Changed == Encode(At(last), Apply(Decode(At(last)), path[last + 1], action))
      Around(n, child) == Encode(At(n), Put(Decode(At(n)), path[n + 1], child))
  IN  IF Resolve(v, path) = Missing THEN v
      ELSE FoldRight(LAMBDA n, child : Around(n - 1, child), [n \in 1..last |-> n], Changed)

\* apply_masking: the rules [path, action] in order, on a copy of the record.
ApplyMasking(record, rules) ==
  FoldLeft(LAMBDA v, rule : ApplyAtPath(v, rule.path, rule.action), record, rules)

-----------------------------------------------------------------------------
(* The paths offered for masking: _infer_schema_nested (adapters.py)       *)

\* A text that holds an object or a list is looked into; one that holds a text is not.
\*
\* Mutant: text in text is looked into as well.
LookInDeep(v) == Decode(Decode(v))

LookIn(v) == IF Is("text", v) /\ IsContainer(v.text) THEN v.text ELSE v

\* The values one key below, with the paths to them.
Below(place) ==
  LET seen == LookIn(place.value)
  IN  IF Is("obj", seen) THEN {[value |-> seen.obj[k], path |-> Append(place.path, k)] : k \in DOMAIN seen.obj \ Hidden}
      ELSE {}

\* A list ends a path. One with more than three keys is dropped.
Walk(record) ==
  LET Places[depth \in 0..3] ==
        IF depth = 0 THEN {[value |-> record, path |-> <<>>]} ELSE UNION {Below(q) : q \in Places[depth - 1]}
  IN  {q.path : q \in {q \in UNION {Places[depth] : depth \in 1..3} : ~Is("obj", LookIn(q.value))}}

\* A path is offered with dots between its keys, and split at its dots by apply_masking.
Dotted(path) == FlattenSeq([i \in DOMAIN path |-> IF path[i] \in DOMAIN SplitOf THEN SplitOf[path[i]] ELSE <<path[i]>>])

\* pii_candidate_fields: the paths of all records with a name that looks personal.
Candidates(records) ==
  {Dotted(p) : p \in {p \in UNION {Walk(r) : r \in ToSet(records)} :
                        ToSet(p) \cap Personal # {}}}

=============================================================================
