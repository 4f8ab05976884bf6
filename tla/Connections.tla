----------------------------- MODULE Connections -----------------------------
(***************************************************************************)
(* One saved connection and the concurrent requests on it                  *)
(* (routes/connections.py, db/connections.py): POST, PATCH, DELETE, ping.  *)
(* Each request is a coroutine of the API; its calls to the database are   *)
(* single statements, and between two of them every other request may run. *)
(* A request that fails or whose process dies takes no further step.       *)
(*                                                                         *)
(* Every statement has the owner's key in its WHERE: a caller who is not   *)
(* the owner finds no row, so that only the owner's requests are here. The *)
(* table sync_jobs, which DELETE counts, is filled by nothing.             *)
(***************************************************************************)
EXTENDS Naturals, Sequences, FiniteSets, SequencesExt

CONSTANTS
  NULL,
  Requests,   \* the requests that are made, each once
  Labels,     \* what a connection may be called
  Payloads,   \* the credentials clients send: functions from some fields to strings
  NewPayloads,  \* those that connections are created with
  Models,     \* the members of AnyCredentials in their order: [required, default]
  Clearable   \* _CLEARABLE of patch_connection

\* DatasetSinkCredentials requires nothing, so that every payload is accepted.
ASSUME ModelsAssumption ==
  /\ Len(Models) \in Nat /\ DOMAIN Models = 1..Len(Models)
  /\ \E i \in DOMAIN Models : Models[i].required = {}
ASSUME PayloadsAssumption == \A p \in Payloads \cup NewPayloads : IsFiniteSet(DOMAIN p)

VARIABLES
  row,      \* the row of connections, or NULL
  req,      \* where each request is, what it read and what it is to write
  log,      \* the credentials written so far, as the requests gave them
  tested    \* what the status was found with; log and tested are not stored

vars == <<row, req, log, tested>>

Idle == [at |-> "idle", read |-> NULL, label |-> NULL, sent |-> NULL, overtaken |-> FALSE]

Init ==
  /\ row = NULL
  /\ req = [r \in Requests |-> Idle]
  /\ log = <<>>
  /\ tested = NULL

-----------------------------------------------------------------------------
(* Credentials                                                             *)

FieldsOf(i) == Models[i].required \cup DOMAIN Models[i].default
Accepting(payload) == {i \in DOMAIN Models : Models[i].required \subseteq DOMAIN payload}
FieldsSet(payload, i) == Cardinality(FieldsOf(i) \cap DOMAIN payload)

\* The union takes the member with the most of the fields sent, then the first.
ModelFor(payload) ==
  CHOOSE i \in Accepting(payload) :
    \A k \in Accepting(payload) :
      \/ FieldsSet(payload, k) < FieldsSet(payload, i)
      \/ FieldsSet(payload, k) = FieldsSet(payload, i) /\ i <= k

\* {**old, **new}.
Updated(old, new) ==
  [f \in DOMAIN old \cup DOMAIN new |-> IF f \in DOMAIN new THEN new[f] ELSE old[f]]

\* model_dump(): the fields of the member, those not sent with their defaults.
Parsed(payload) ==
  LET i == ModelFor(payload)
  IN  Updated(Models[i].default, Restrict(payload, FieldsOf(i) \cap DOMAIN payload))

\* The fields of a PATCH that count: an empty one only if it may be cleared.
\*
\* Mutant: an empty field is taken for a value.
SuppliedBlank(given) == given

Supplied(given) == RestrictDomain(given, LAMBDA f : given[f] # "" \/ f \in Clearable)

Merge(existing, given) == Updated(existing, Supplied(given))

-----------------------------------------------------------------------------
(* Requests                                                                *)

To(r, place) == req' = [req EXCEPT ![r] = [Idle EXCEPT !.at = place]]

\* Statements that write credentials overtake what the other requests have read.
Overtake(r) ==
  req' = [q \in Requests |->
            IF q = r THEN [Idle EXCEPT !.at = "done"]
            ELSE [req[q] EXCEPT !.overtaken = @ \/ req[q].at \in {"patch", "ping"}]]

\* POST /connections.
Create(r, label, payload) ==
  /\ req[r].at = "idle"
  /\ log = <<>>
  /\ row' = [label |-> label, creds |-> Parsed(payload), status |-> "untested"]
  /\ log' = <<[given |-> Parsed(payload), overtaken |-> FALSE]>>
  /\ To(r, "done")
  /\ UNCHANGED tested

\* PATCH with credentials reads the row first.
PatchRead(r, label, payload) ==
  /\ req[r].at = "idle"
  /\ IF row = NULL THEN To(r, "done")
     ELSE req' = [req EXCEPT ![r] =
                    [at |-> "patch", read |-> row.creds, label |-> label,
                     sent |-> payload, overtaken |-> FALSE]]
  /\ UNCHANGED <<row, log, tested>>

Labelled(label) == IF label = NULL THEN row ELSE [row EXCEPT !.label = label]

\* update_connection with new credentials.
\*
\* Mutant: the status is left as it was.
WithCredsOnly(label, creds) == [Labelled(label) EXCEPT !.creds = creds]

WithCreds(label, creds) ==
  [Labelled(label) EXCEPT !.creds = creds, !.status = "untested"]

Given(r) == Parsed(req[r].sent)

\* The second statement of PATCH: no row, no change.
\*
\* Mutant: the credentials are replaced by the ones sent.
PatchReplaces(r) ==
  /\ req[r].at = "patch"
  /\ IF row = NULL THEN To(r, "done") /\ UNCHANGED <<row, log>>
     ELSE /\ row' = WithCreds(req[r].label, Given(r))
          /\ log' = Append(log, [given |-> Given(r), overtaken |-> req[r].overtaken])
          /\ Overtake(r)
  /\ UNCHANGED tested

PatchWrite(r) ==
  /\ req[r].at = "patch"
  /\ IF row = NULL THEN To(r, "done") /\ UNCHANGED <<row, log>>
     ELSE /\ row' = WithCreds(req[r].label, Merge(req[r].read, Given(r)))
          /\ log' = Append(log, [given |-> Given(r), overtaken |-> req[r].overtaken])
          /\ Overtake(r)
  /\ UNCHANGED tested

\* PATCH without credentials is one statement.
PatchLabel(r, label) ==
  /\ req[r].at = "idle"
  /\ row' = IF row = NULL THEN NULL ELSE Labelled(label)
  /\ To(r, "done")
  /\ UNCHANGED <<log, tested>>

\* POST /connections/{id}/ping: the row is read, the source is called, and the
\* status is written whatever the row has become.
PingRead(r) ==
  /\ req[r].at = "idle"
  /\ IF row = NULL THEN To(r, "done")
     ELSE req' = [req EXCEPT ![r] = [Idle EXCEPT !.at = "ping", !.read = row.creds]]
  /\ UNCHANGED <<row, log, tested>>

PingWrite(r, status) ==
  /\ req[r].at = "ping"
  /\ IF row = NULL THEN UNCHANGED <<row, tested>>
     ELSE /\ row' = [row EXCEPT !.status = status]
          /\ tested' = [creds |-> req[r].read, overtaken |-> req[r].overtaken]
  /\ To(r, "done")
  /\ UNCHANGED log

\* DELETE: 404 without a row; otherwise the jobs that refer to it are counted, of
\* which there are none, and the row is deleted.
DeleteRead(r) ==
  /\ req[r].at = "idle"
  /\ To(r, IF row = NULL THEN "done" ELSE "delete")
  /\ UNCHANGED <<row, log, tested>>

DeleteRow(r) ==
  /\ req[r].at = "delete"
  /\ row' = NULL
  /\ To(r, "done")
  /\ UNCHANGED <<log, tested>>

Next ==
  \E r \in Requests :
    \/ \E label \in Labels, payload \in NewPayloads : Create(r, label, payload)
    \/ \E label \in Labels \cup {NULL}, payload \in Payloads : PatchRead(r, label, payload)
    \/ PatchWrite(r)
    \/ \E label \in Labels \cup {NULL} : PatchLabel(r, label)
    \/ PingRead(r)
    \/ \E status \in {"reachable", "unreachable"} : PingWrite(r, status)
    \/ DeleteRead(r)
    \/ DeleteRow(r)

Spec == Init /\ [][Next]_vars

-----------------------------------------------------------------------------
(* Properties                                                              *)

\* Every variable has its type.
Places == {"idle", "patch", "ping", "delete", "done"}
Entries == [given : {Parsed(p) : p \in Payloads \cup NewPayloads}, overtaken : BOOLEAN]
TypeOK ==
  /\ row # NULL => /\ DOMAIN row = {"label", "creds", "status"}
                   /\ row.label \in Labels
                   /\ row.status \in {"untested", "reachable", "unreachable"}
  /\ DOMAIN req = Requests
  /\ \A r \in Requests :
       /\ DOMAIN req[r] = DOMAIN Idle /\ req[r].at \in Places
       /\ req[r].label \in Labels \cup {NULL} /\ req[r].overtaken \in BOOLEAN
       /\ req[r].at = "patch" => req[r].sent \in Payloads
  /\ log \in Seq(Entries)

\* The credentials in the row are what some of the patches make of the created
\* ones, applied whole and in the order of their writes, the last write among them:
\* a race of two PATCH requests (routes/connections.py reads, merges and writes in
\* separate statements) loses whole patches, never a part of one. Without a race
\* none is lost.
Applied(kept) ==
  LET after[i \in DOMAIN log] ==
        IF i = 1 THEN log[1].given
        ELSE IF i \in kept THEN Merge(after[i - 1], log[i].given) ELSE after[i - 1]
  IN  after[Len(log)]
Patches == 2..Len(log)
RacesLosePatchesWhole ==
  row # NULL =>
    \E kept \in SUBSET Patches :
      /\ Patches # {} => Len(log) \in kept
      /\ (\A i \in Patches : ~log[i].overtaken) => kept = Patches
      /\ row.creds = Applied(kept)

\* A status other than untested was found with the credentials in the row, unless
\* they were written while that ping was waiting for the source.
StatusIsCurrent ==
  row # NULL /\ row.status # "untested" =>
    tested.creds = row.creds \/ tested.overtaken

\* An edit that leaves a secret blank, as the dialog does for every secret it was
\* not shown, keeps the saved one. Only a PATCH that was overtaken can blank it.
Overtaken == \E i \in DOMAIN log' : log'[i].overtaken
SecretsKept ==
  [][row # NULL /\ row' # NULL =>
       \A f \in DOMAIN row.creds \ Clearable :
         row.creds[f] # "" => Overtaken \/ row'.creds[f] # ""]_vars

\* What a PATCH that is read as member i makes of the old credentials.
Counts(f, value) == value # "" \/ f \in Clearable
TakesEffect(sent, i, old, new) ==
  /\ \A f \in FieldsOf(i) \cap DOMAIN sent : Counts(f, sent[f]) => f \in DOMAIN new /\ new[f] = sent[f]
  /\ \A f \in DOMAIN old :
       /\ f \in DOMAIN new
       /\ \/ new[f] = old[f]
          \/ f \in FieldsOf(i) \cap DOMAIN sent /\ Counts(f, sent[f])
          \/ f \in DOMAIN Models[i].default \ DOMAIN sent /\ new[f] = Models[i].default[f]
  /\ DOMAIN new \subseteq DOMAIN old \cup FieldsOf(i)

\* A PATCH that nobody overtakes is read as one of the members of the union that
\* accept its payload, with the most of the fields sent. Of the credentials that are in
\* the row when it writes, the fields of that member take the values sent for them,
\* blank secrets apart; and no other field changes but those that were not sent and
\* have a default in the member: these are reset. A field of another member is dropped,
\* whatever its value. (The documentation says that omitted fields are unchanged: see
\* the README.)
PatchesTakeEffect ==
  [][\A r \in Requests :
       req[r].at = "patch" /\ req'[r].at = "done" /\ row # NULL /\ row' # NULL /\ ~req[r].overtaken =>
         \E i \in Accepting(req[r].sent) :
           /\ \A k \in Accepting(req[r].sent) : FieldsSet(req[r].sent, k) <= FieldsSet(req[r].sent, i)
           /\ TakesEffect(req[r].sent, i, row.creds, row'.creds)]_vars
=============================================================================
