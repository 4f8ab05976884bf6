-------------------------------- MODULE Sinks --------------------------------
(***************************************************************************)
(* The data sinks as run_export_job drives them: two sinks of a job, one   *)
(* for its records and one for its assets, and several jobs at a time, all *)
(* in the same service, directory or bucket. One step is what happens      *)
(* between two requests.                                                   *)
(*                                                                         *)
(* There is one datasink of each type. A name is a plain one, or the uuid  *)
(* of a dataset or project of the service, which is its place in the list  *)
(* of them. Time is the part of its life a token has left, in ticks. A     *)
(* definition introduced by "Mutant" is the next one with a plausible bug. *)
(***************************************************************************)
EXTENDS Naturals, FiniteSets, Sequences, SequencesExt

CONSTANTS
  NULL,
  Jobs,
  Scenarios,    \* what some or all of the jobs ask for: functions to PlanType
  Present,      \* the datasets and the projects that are there, by their names
  Uuid,         \* for a name: the place a uuid names, 0 for a plain name
  Similar,      \* for a name: the names a query for it finds
  ListPage,     \* _LIST_PAGE_SIZE
  Lifetimes,    \* expires_in of a token
  Leeway,       \* _EXPIRY_LEEWAY_SECONDS
  ExchangeTimes, UploadTimes,  \* how long the exchange and the payload take
  MaxTries,     \* arq's max_tries
  Faults        \* the faults that may happen

Zips == {"local-zip", "s3-zip"}
Jsonls == {"local-jsonl", "s3-jsonl"}
Files == Zips \cup Jsonls
DatasetTypes == {"tagme-dataset", "dataset-mock"}
Annotators == {"tagme-annotator", "annotator-mock"}
Types == Files \cup DatasetTypes \cup Annotators
Roles == {"main", "asset"}
\* "call": a request raises. "asset": one to an asset. "crash": the worker dies.
AllFaults == {"call", "asset", "crash", "hook"}

\* A record: its data field, the name a filename_template gives it, and the last
\* segment of its asset's URL. url is NULL when it has none.
RecordType == [data : {"none", "hex", "text"}, name : STRING, url : STRING \cup {NULL}]
\* The names given, and the sinks' own.
Names == STRING \cup {"asset", "record.json", "of this job"}
\* asset is NULL without asset resolution.
PlanType ==
  [type : Types, dest : DOMAIN Uuid, asset : Types \cup {NULL}, adest : DOMAIN Uuid,
   records : Seq(RecordType), hook : BOOLEAN]

ASSUME NullAssumption == NULL \notin Nat \cup STRING \cup Types
ASSUME ScenariosAssumption ==
  \A s \in Scenarios : DOMAIN s \subseteq Jobs /\ \A j \in DOMAIN s : s[j] \in PlanType
ASSUME PresentAssumption == {Present.datasets, Present.projects} \subseteq Seq(Names)
ASSUME NamesAssumption ==
  /\ DOMAIN Uuid \subseteq STRING
  /\ Uuid \in [DOMAIN Uuid -> Nat]
  /\ Similar \in [DOMAIN Uuid -> SUBSET DOMAIN Uuid]
  /\ \A n \in DOMAIN Uuid : n \in Similar[n]
ASSUME TimesAssumption ==
  /\ Lifetimes \cup ExchangeTimes \cup UploadTimes \subseteq Nat
  /\ {Leeway, ListPage} \subseteq Nat
  \* The exchange of a token is given up before its leeway has passed.
  /\ \A d \in ExchangeTimes : d < Leeway /\ \A l \in Lifetimes : d < l
ASSUME FaultsAssumption == Faults \subseteq AllFaults /\ MaxTries \in Nat \ {0}

VARIABLES
  plan,
  datasets, projects, tasks,  \* the service: TagMe, or the mocks
  objects,   \* the files and objects: a function of their paths
  status, extId, assetId,     \* columns of export_jobs
  pc, role, tries,
  sink,      \* the job's sinks, by role
  header,    \* the life left to the token in the headers at hand, NULL without headers
  at, sent,  \* the record at work, and the records posted
  hook,      \* the webhook task: the status it tells, or NULL
  told,      \* the statuses the receiver of the webhook was told
  refused,   \* the steps at which the service refused an expired token
  cut        \* the jobs a user has cancelled

service == <<datasets, projects, tasks>>
row     == <<status, extId, assetId>>
local   == <<sink, header, at, sent>>
history == <<told, refused, cut>>
vars    == <<plan, service, objects, row, pc, role, tries, local, hook, history>>

TypeOf(j, r) == IF r = "main" THEN plan[j].type ELSE plan[j].asset
DestOf(j, r) == IF r = "main" THEN plan[j].dest ELSE plan[j].adest
Type(j) == TypeOf(j, role[j])
Dest(j) == DestOf(j, role[j])
Mine(j) == sink[j][role[j]]

\* A token whose time is up is exchanged at the next use, as if there were none.
NoToken == [left |-> 0, ttl |-> 0]

\* A new sink: get_sink, and set_actor. dataset, project and task are places in the
\* service, 0 when not known; ext is external_id; mem is what it will put.
NewSink == [dataset |-> 0, project |-> 0, task |-> 0, ext |-> 0, buf |-> <<>>, mem |-> <<>>,
            token |-> NoToken]

Calls == {"pinging", "looking", "making", "opening", "linking", "resolving", "sending",
          "checking", "finalising", "starting", "closing", "deciding", "completing"}
Busy == Calls \cup {"failing", "failing early", "returned"}

\* Every variable has its type.
TypeOK ==
  /\ plan \in Scenarios
  /\ \A d \in ToSet(datasets) : d.name \in Names /\ d.files \in Seq([name : Names, of : Jobs \X Nat])
  /\ \A t \in ToSet(tasks) : t.project \in 1..Len(projects) /\ t.dataset \in 0..Len(datasets)
  /\ \A j \in DOMAIN plan :
       /\ status[j] \in {"pending", "running", "completed", "failed", "cancelled"}
       /\ {extId[j], assetId[j]} \subseteq Nat
       /\ pc[j] \in Busy \cup {"queued", "ended"}
       /\ role[j] \in Roles /\ tries[j] \in 0..MaxTries
       /\ header[j] \in Nat \cup {NULL}
       /\ at[j] \in 1..(Len(plan[j].records) + 1)
       /\ ToSet(sent[j]) \subseteq 1..Len(plan[j].records)
       /\ hook[j] \in {NULL, "completed", "failed"}
       /\ refused[j] \subseteq Calls
       /\ \A r \in Roles :
            /\ sink[j][r].dataset \in Nat
            /\ sink[j][r].project \in 0..Len(projects)
            /\ sink[j][r].task \in 0..Len(tasks)

Init ==
  /\ plan \in Scenarios
  /\ datasets = [n \in 1..Len(Present.datasets) |-> [name |-> Present.datasets[n], files |-> <<>>]]
  /\ projects = Present.projects
  /\ tasks = <<>>
  /\ objects = <<>>
  /\ status = [j \in Jobs |-> IF j \in DOMAIN plan THEN "pending" ELSE "none"]
  /\ extId = [j \in Jobs |-> 0] /\ assetId = [j \in Jobs |-> 0]
  /\ pc = [j \in Jobs |-> IF j \in DOMAIN plan THEN "queued" ELSE "ended"]
  /\ role = [j \in Jobs |-> "main"]
  /\ tries = [j \in Jobs |-> 0]
  /\ sink = [j \in Jobs |-> [r \in Roles |-> NewSink]]
  /\ header = [j \in Jobs |-> NULL]
  /\ at = [j \in Jobs |-> 1] /\ sent = [j \in Jobs |-> <<>>]
  /\ hook = [j \in Jobs |-> NULL] /\ told = [j \in Jobs |-> <<>>]
  /\ refused = [j \in Jobs |-> {}]
  /\ cut = {}

Goto(j, p) == pc' = [pc EXCEPT ![j] = p]
Stay == UNCHANGED <<plan, role, tries, at, sent, hook, history>>

\* The sink at work becomes s.
SetSink(j, s) == sink' = [sink EXCEPT ![j][role[j]] = s]

-----------------------------------------------------------------------------
(* Tokens                                                                  *)

Less(a, b) == IF a > b THEN a - b ELSE 0
Kept(t) == IF t.ttl = 0 THEN NoToken ELSE t
Aged(s, d) == [s EXCEPT !.token = Kept([left |-> Less(@.left, d), ttl |-> Less(@.ttl, d)])]

\* The requests of the two TagMe sinks that carry headers. The dataset mock, a stand-in
\* that accepts any client, is not said to let its token expire: it keeps the first one.
Authenticated(j) ==
  \/ pc[j] \in {"making", "resolving", "sending"} /\ Type(j) = "tagme-dataset"
  \/ pc[j] = "looking" /\ Type(j) = "tagme-dataset" /\ Uuid[Dest(j)] = 0
  \/ pc[j] \in {"looking", "opening", "finalising"} /\ Type(j) = "tagme-annotator"

\* What _auth_headers caches of a token of life l whose answer took d.
\*
\* Mutant: the leeway is forgotten.
CachedToEnd(l, d) == [left |-> l - d, ttl |-> l]

Cached(l, d) == [left |-> l - d, ttl |-> Less(l, Leeway)]

\* The token of the sink is used, or exchanged while the other one's grows older.
AuthHeaders(j) ==
  /\ Authenticated(j) /\ header[j] = NULL
  /\ IF Mine(j).token.ttl > 0
     THEN header' = [header EXCEPT ![j] = Mine(j).token.left] /\ UNCHANGED sink
     ELSE \E l \in Lifetimes, d \in ExchangeTimes :
            /\ header' = [header EXCEPT ![j] = Cached(l, d).left]
            /\ sink' = [sink EXCEPT ![j] = [r \in Roles |->
                 IF r = role[j] THEN [@[r] EXCEPT !.token = Kept(Cached(l, d))] ELSE Aged(@[r], d)]]
  /\ UNCHANGED <<service, objects, row, pc>> /\ Stay

\* Time goes by before headers are needed: pages are fetched, requests are answered.
Elapse(j) ==
  /\ Authenticated(j) /\ header[j] = NULL
  /\ \E r \in Roles : sink[j][r].token.ttl > 0
  /\ sink' = [sink EXCEPT ![j] = [r \in Roles |-> Aged(@[r], 1)]]
  /\ UNCHANGED <<service, objects, row, pc, header>> /\ Stay

\* A request can be sent, and is not refused. Its headers are of no further use.
Sends(j, p) ==
  /\ pc[j] = p
  /\ Authenticated(j) => header[j] \notin {NULL, 0}
  /\ header' = [header EXCEPT ![j] = NULL]

-----------------------------------------------------------------------------
(* create_dataset                                                          *)

\* ping asks for no dataset: /health, a file that is touched, head_bucket.
Ping(j) ==
  /\ pc[j] = "pinging"
  /\ Goto(j, "looking")
  /\ UNCHANGED <<service, objects, row, sink, header>> /\ Stay

\* The path of the file for a dataset, and of an asset next to a JSONL file.
Path(t, name, j) == <<t, name, j, IF t \in Zips THEN ".zip" ELSE ".jsonl">>
AssetPath(t, name, j, file) == <<t, name, j, file>>

\* A file, and files that are written over others.
File(path, content) == [p \in {path} |-> content]
Over(new, old) ==
  [p \in DOMAIN new \cup DOMAIN old |-> IF p \in DOMAIN new THEN new[p] ELSE old[p]]

\* A zip file and an object grow in memory, a local JSONL file is truncated.
OpenFile(j) ==
  /\ pc[j] = "looking" /\ Type(j) \in Files
  /\ LET new == File(Path(Type(j), Dest(j), j), <<>>)
     IN  IF Type(j) = "local-jsonl"
         THEN objects' = Over(new, objects) /\ UNCHANGED sink
         ELSE SetSink(j, [Mine(j) EXCEPT !.mem = new]) /\ UNCHANGED objects
  /\ Goto(j, "linking")
  /\ UNCHANGED <<service, row, header>> /\ Stay

Named(n) == {d \in DOMAIN datasets : datasets[d].name = n}
Found(n) == {d \in DOMAIN datasets : datasets[d].name \in Similar[n]}

\* What list_datasets returns for a query: one page of what the service finds.
Listed(n) == IF Cardinality(Found(n)) <= ListPage THEN {Found(n)} ELSE kSubset(ListPage, Found(n))

UseDataset(j, d) ==
  /\ SetSink(j, [Mine(j) EXCEPT !.dataset = d, !.ext = d])
  /\ Goto(j, "linking")

\* Mutant: the first dataset the query finds is taken.
FindDatasetSimilar(j) ==
  /\ Sends(j, "looking") /\ Type(j) = "tagme-dataset"
  /\ \/ /\ Uuid[Dest(j)] # 0
        /\ UseDataset(j, Uuid[Dest(j)])
     \/ /\ Uuid[Dest(j)] = 0
        /\ \E page \in Listed(Dest(j)) :
             IF page = {} THEN Goto(j, "making") /\ UNCHANGED sink
             ELSE \E d \in page : UseDataset(j, d)
  /\ UNCHANGED <<service, objects, row>> /\ Stay

\* TagmeDatasetSink takes a uuid as it is, and else looks the name up.
FindDataset(j) ==
  /\ Sends(j, "looking") /\ Type(j) = "tagme-dataset"
  /\ \/ /\ Uuid[Dest(j)] # 0
        /\ UseDataset(j, Uuid[Dest(j)])
     \/ /\ Uuid[Dest(j)] = 0
        /\ \E page \in Listed(Dest(j)) :
             IF page \cap Named(Dest(j)) = {} THEN Goto(j, "making") /\ UNCHANGED sink
             ELSE \E d \in page \cap Named(Dest(j)) : UseDataset(j, d)
  /\ UNCHANGED <<service, objects, row>> /\ Stay

PostedDataset(name) == datasets' = Append(datasets, [name |-> name, files |-> <<>>])

\* TagMe is asked for a dataset, whatever others have made of the name by now.
PostDataset(j) ==
  /\ Sends(j, "making") /\ Type(j) = "tagme-dataset"
  /\ PostedDataset(Dest(j))
  /\ UseDataset(j, Len(datasets'))
  /\ UNCHANGED <<projects, tasks, objects, row>> /\ Stay

\* DatasetMockSink posts first, and looks the name up after a 409. Nobody deletes
\* a dataset in between.
PostOrFindDataset(j) ==
  /\ pc[j] = "looking" /\ Type(j) = "dataset-mock"
  /\ IF Uuid[Dest(j)] # 0 THEN UseDataset(j, Uuid[Dest(j)]) /\ UNCHANGED datasets
     ELSE IF Named(Dest(j)) # {} THEN (\E d \in Named(Dest(j)) : UseDataset(j, d)) /\ UNCHANGED datasets
     ELSE PostedDataset(Dest(j)) /\ UseDataset(j, Len(datasets'))
  /\ UNCHANGED <<projects, tasks, objects, row, header>> /\ Stay

\* The project a name or a uuid stands for, if it is there.
ProjectFor(name) ==
  {p \in DOMAIN projects : IF Uuid[name] # 0 THEN p = Uuid[name] ELSE projects[p] = name}

\* The sinks for annotation look up their project. Only the mock's makes one.
FindProject(j) ==
  /\ Sends(j, "looking") /\ Type(j) \in Annotators
  /\ IF ProjectFor(Dest(j)) # {}
     THEN /\ \E p \in ProjectFor(Dest(j)) : SetSink(j, [Mine(j) EXCEPT !.project = p])
          /\ Goto(j, "opening")
     ELSE /\ Goto(j, IF Type(j) = "annotator-mock" /\ Uuid[Dest(j)] = 0 THEN "making" ELSE "failing early")
          /\ UNCHANGED sink
  /\ UNCHANGED <<service, objects, row>> /\ Stay

PostProject(j) ==
  /\ pc[j] = "making" /\ Type(j) = "annotator-mock"
  /\ projects' = Append(projects, Dest(j))
  /\ SetSink(j, [Mine(j) EXCEPT !.project = Len(projects')])
  /\ Goto(j, "opening")
  /\ UNCHANGED <<datasets, tasks, objects, row, header>> /\ Stay

\* TagmeAnnotatorSink opens its task at the start, the mock's a dataset whose name
\* has the job's id; a service that refuses to make it a second time raises.
Open(j) ==
  /\ Sends(j, "opening")
  /\ IF Type(j) = "tagme-annotator"
     THEN /\ tasks' = Append(tasks, [project |-> Mine(j).project, dataset |-> 0, payload |-> <<>>,
                                     started |-> FALSE, job |-> j, role |-> role[j]])
          /\ SetSink(j, [Mine(j) EXCEPT !.task = Len(tasks'), !.ext = Len(tasks')])
          /\ UNCHANGED datasets
     ELSE /\ PostedDataset("of this job")
          /\ SetSink(j, [Mine(j) EXCEPT !.dataset = Len(datasets')])
          /\ UNCHANGED tasks
  /\ Goto(j, "linking")
  /\ UNCHANGED <<projects, objects, row>> /\ Stay

\* The loop stands before record n, whose asset is resolved first.
Loop(j, n) ==
  LET asset == plan[j].asset # NULL /\ plan[j].records[n].url # NULL
      over  == n > Len(plan[j].records)
  IN  /\ role' = [role EXCEPT ![j] = IF ~over /\ asset THEN "asset" ELSE "main"]
      /\ Goto(j, IF over THEN "finalising" ELSE IF asset THEN "resolving" ELSE "sending")
      /\ at' = [at EXCEPT ![j] = n]

\* The id goes to the row, where there is one yet; then it is the asset sink's turn.
Link(j) ==
  /\ pc[j] = "linking"
  /\ IF role[j] = "main"
     THEN /\ extId' = IF Mine(j).ext = 0 THEN extId ELSE [extId EXCEPT ![j] = Mine(j).ext]
          /\ UNCHANGED assetId
     ELSE /\ assetId' = IF Type(j) \in DatasetTypes THEN [assetId EXCEPT ![j] = Mine(j).dataset] ELSE assetId
          /\ UNCHANGED extId
  /\ IF role[j] = "main" /\ plan[j].asset # NULL
     THEN /\ role' = [role EXCEPT ![j] = "asset"]
          /\ Goto(j, "pinging")
          /\ UNCHANGED at
     ELSE Loop(j, 1)
  /\ UNCHANGED <<plan, service, objects, status, tries, sink, header, sent, hook, history>>

-----------------------------------------------------------------------------
(* post_file                                                               *)

Main(j) == Path(Type(j), Dest(j), j)
InMemory(j, path, content) == SetSink(j, [Mine(j) EXCEPT !.mem = Over(File(path, content), @)])

\* post_file of content of, under a name, with data in its field of that name. A
\* zip file and a dataset have an entry per name given, a JSONL file has the
\* records without data, and data goes to a file beside it.
PostFile(j, name, data, of) ==
  \/ /\ Type(j) \in Zips
     /\ InMemory(j, Main(j), Append(Mine(j).mem[Main(j)], [name |-> name, of |-> of]))
     /\ UNCHANGED <<service, objects>>
  \/ /\ Type(j) = "local-jsonl"
     /\ objects' = Over(IF data = "hex"
                        THEN File(AssetPath(Type(j), Dest(j), j, name), <<[name |-> name, of |-> of]>>)
                        ELSE File(Main(j), Append(objects[Main(j)], [name |-> name, of |-> of])), objects)
     /\ UNCHANGED <<service, sink>>
  \/ /\ Type(j) = "s3-jsonl"
     /\ IF data = "hex" THEN InMemory(j, AssetPath(Type(j), Dest(j), j, name), <<[name |-> name, of |-> of]>>)
        ELSE InMemory(j, Main(j), Append(Mine(j).mem[Main(j)], [name |-> name, of |-> of]))
     /\ UNCHANGED <<service, objects>>
  \/ /\ Type(j) = "tagme-annotator"
     /\ SetSink(j, [Mine(j) EXCEPT !.buf = Append(@, [name |-> name, of |-> of])])
     /\ UNCHANGED <<service, objects>>
  \/ /\ Type(j) \in DatasetTypes \cup {"annotator-mock"}
     /\ Mine(j).dataset \in DOMAIN datasets
     /\ datasets' = [datasets EXCEPT ![Mine(j).dataset].files = Append(@, [name |-> name, of |-> of])]
     /\ UNCHANGED <<projects, tasks, sink, objects>>

\* The name of a record: its template's, "asset" or "record.json".
RecordName(j, r) ==
  IF Type(j) \in Zips THEN r.name ELSE IF Type(j) \in Jsonls /\ r.data = "hex" THEN "asset" ELSE "record.json"

Record(j) == plan[j].records[at[j]]

\* resolve_assets hands the content of the URL to the asset sink.
ResolveAsset(j) ==
  /\ Sends(j, "resolving")
  /\ PostFile(j, Record(j).url, "hex", <<j, at[j]>>)
  /\ role' = [role EXCEPT ![j] = "main"]
  /\ Goto(j, "sending")
  /\ UNCHANGED <<plan, row, tries, at, sent, hook, history>>

\* bytes.fromhex refuses other strings, and the service a uuid it does not know.
CannotPost(j) ==
  \/ Type(j) \in Files /\ role[j] = "main" /\ Record(j).data = "text"
  \/ Type(j) \in DatasetTypes /\ Mine(j).dataset \notin DOMAIN datasets

SendRecord(j) ==
  /\ Sends(j, "sending") /\ ~CannotPost(j)
  /\ PostFile(j, RecordName(j, Record(j)), Record(j).data, <<j, at[j]>>)
  /\ sent' = [sent EXCEPT ![j] = Append(@, at[j])]
  /\ Goto(j, "checking")
  /\ UNCHANGED <<plan, row, role, tries, at, hook, history>>

\* is_job_cancelled, after each batch of one record. A cancel breaks the loop.
CheckCancelled(j) ==
  /\ pc[j] = "checking"
  /\ IF status[j] = "cancelled" THEN Loop(j, Len(plan[j].records) + 1) ELSE Loop(j, at[j] + 1)
  /\ UNCHANGED <<plan, service, objects, row, tries, sink, header, sent, hook, history>>

-----------------------------------------------------------------------------
(* finalise                                                                *)

\* What is put next: the file of the sink, then the assets beside it.
NextPut(j) == IF Main(j) \in DOMAIN Mine(j).mem THEN {Main(j)} ELSE DOMAIN Mine(j).mem
Unput(j, p) == [Mine(j) EXCEPT !.mem = Restrict(@, DOMAIN @ \ {p})]

\* Mutant: an object that is there already is kept.
PutFilesOnce(j) ==
  /\ pc[j] = "finalising" /\ Type(j) \in Files \cup DatasetTypes
  /\ \/ /\ DOMAIN Mine(j).mem = {}
        /\ Goto(j, "closing")
        /\ UNCHANGED <<objects, sink>>
     \/ \E p \in NextPut(j) :
          /\ objects' = Over(objects, File(p, Mine(j).mem[p]))
          /\ SetSink(j, Unput(j, p))
          /\ UNCHANGED pc
  /\ UNCHANGED <<service, row, header>> /\ Stay

\* What is in memory replaces the objects that are there, one put_object at a time.
PutFiles(j) ==
  /\ pc[j] = "finalising" /\ Type(j) \in Files \cup DatasetTypes
  /\ \/ /\ DOMAIN Mine(j).mem = {}
        /\ Goto(j, "closing")
        /\ UNCHANGED <<objects, sink>>
     \/ \E p \in NextPut(j) :
          /\ objects' = Over(File(p, Mine(j).mem[p]), objects)
          /\ SetSink(j, Unput(j, p))
          /\ UNCHANGED pc
  /\ UNCHANGED <<service, row, header>> /\ Stay

\* The payload takes a while, and the headers are used once more, for the start.
PutPayload(j) ==
  /\ pc[j] = "finalising" /\ Type(j) = "tagme-annotator"
  /\ header[j] \notin {NULL, 0}
  /\ tasks' = [tasks EXCEPT ![Mine(j).task].payload = Mine(j).buf]
  /\ \E d \in UploadTimes :
       /\ header' = [header EXCEPT ![j] = Less(@, d)]
       /\ sink' = [sink EXCEPT ![j] = [r \in Roles |-> Aged(@[r], d)]]
  /\ Goto(j, "starting")
  /\ UNCHANGED <<datasets, projects, objects, row>> /\ Stay

\* The mock's pool is linked to the project, and its task to the dataset.
PostTask(j) ==
  /\ pc[j] = "finalising" /\ Type(j) = "annotator-mock"
  /\ tasks' = Append(tasks, [project |-> Mine(j).project, dataset |-> Mine(j).dataset, payload |-> <<>>,
                             started |-> FALSE, job |-> j, role |-> role[j]])
  /\ SetSink(j, [Mine(j) EXCEPT !.task = Len(tasks')])
  /\ Goto(j, "starting")
  /\ UNCHANGED <<datasets, projects, objects, row, header>> /\ Stay

StartTask(j) ==
  /\ pc[j] = "starting" /\ header[j] # 0
  /\ tasks' = [tasks EXCEPT ![Mine(j).task].started = TRUE]
  /\ SetSink(j, [Mine(j) EXCEPT !.ext = Mine(j).task])
  /\ header' = [header EXCEPT ![j] = NULL]
  /\ Goto(j, "closing")
  /\ UNCHANGED <<datasets, projects, objects, row>> /\ Stay

\* The id goes to the row once more, and the asset sink follows.
Close(j) ==
  /\ pc[j] = "closing"
  /\ IF Mine(j).ext = 0 THEN UNCHANGED <<extId, assetId>>
     ELSE IF role[j] = "main" THEN extId' = [extId EXCEPT ![j] = Mine(j).ext] /\ UNCHANGED assetId
     ELSE assetId' = [assetId EXCEPT ![j] = Mine(j).ext] /\ UNCHANGED extId
  /\ IF role[j] = "main" /\ plan[j].asset # NULL
     THEN role' = [role EXCEPT ![j] = "asset"] /\ Goto(j, "finalising")
     ELSE UNCHANGED role /\ Goto(j, "deciding")
  /\ UNCHANGED <<plan, service, objects, status, tries, local, hook, history>>

-----------------------------------------------------------------------------
(* The job                                                                 *)

\* arq delivers the job.
Deliver(j) ==
  /\ pc[j] = "queued" /\ tries[j] < MaxTries
  /\ tries' = [tries EXCEPT ![j] = @ + 1]
  /\ IF status[j] = "cancelled" THEN Goto(j, "ended") /\ UNCHANGED status
     ELSE Goto(j, "pinging") /\ status' = [status EXCEPT ![j] = "running"]
  /\ role' = [role EXCEPT ![j] = "main"]
  /\ at' = [at EXCEPT ![j] = 1] /\ sent' = [sent EXCEPT ![j] = <<>>]
  /\ UNCHANGED <<plan, service, objects, extId, assetId, sink, header, hook, told, refused, cut>>

Decide(j) ==
  /\ pc[j] = "deciding"
  /\ Goto(j, IF status[j] = "cancelled" THEN "returned" ELSE "completing")
  /\ UNCHANGED <<service, objects, row, sink, header>> /\ Stay

\* The row is written, and a task that posts the webhook is left behind.
End(j, s, telling) ==
  /\ status' = [status EXCEPT ![j] = s]
  /\ hook' = IF plan[j].hook THEN [hook EXCEPT ![j] = telling] ELSE hook
  /\ Goto(j, "returned")
  /\ UNCHANGED <<plan, service, objects, extId, assetId, role, tries, local, history>>

Complete(j) == pc[j] = "completing" /\ End(j, "completed", "completed")

\* Mutant: the webhook of an export that failed says it completed.
FailTold(j) ==
  \/ pc[j] = "failing" /\ End(j, "failed", "completed")
  \/ pc[j] = "failing early" /\ End(j, "failed", NULL)

\* webhook_url and webhook_enabled are read once the sinks are set up: an export
\* that fails before is not told of.
Fail(j) ==
  \/ pc[j] = "failing" /\ End(j, "failed", "failed")
  \/ pc[j] = "failing early" /\ End(j, "failed", NULL)

\* The coroutine is gone, and its sinks with it.
Forget(j) ==
  /\ sink' = [sink EXCEPT ![j] = [r \in Roles |-> NewSink]]
  /\ header' = [header EXCEPT ![j] = NULL]

Return(j) ==
  /\ pc[j] = "returned"
  /\ Goto(j, "ended")
  /\ Forget(j)
  /\ UNCHANGED <<service, objects, row>> /\ Stay

\* deliver_webhook swallows what goes wrong, and is not tried again.
DeliverWebhook(j) ==
  /\ hook[j] # NULL
  /\ hook' = [hook EXCEPT ![j] = NULL]
  /\ \/ told' = [told EXCEPT ![j] = Append(@, hook[j])]
     \/ "hook" \in Faults /\ UNCHANGED told
  /\ UNCHANGED <<plan, service, objects, row, pc, role, tries, local, refused, cut>>

\* Mutant: a record that cannot be posted is left out.
RaiseSkipping(j) ==
  Goto(j, CASE pc[j] \in {"pinging", "looking", "making", "opening", "linking"} -> "failing early"
            [] pc[j] = "sending" -> "checking"
            [] OTHER -> "failing")

Raise(j) ==
  Goto(j, IF pc[j] \in {"pinging", "looking", "making", "opening", "linking"} THEN "failing early" ELSE "failing")

\* A request raises, or the next one does when it was done and its answer is lost.
CallRaises(j) ==
  /\ \/ "call" \in Faults /\ pc[j] \in Calls \ {"resolving"}
     \/ pc[j] = "sending" /\ CannotPost(j)
  /\ Raise(j)
  /\ header' = [header EXCEPT ![j] = NULL]
  /\ UNCHANGED <<service, objects, row, sink>> /\ Stay

\* The service answers an expired token with an error.
Refuse(j) ==
  /\ header[j] = 0 /\ pc[j] # "resolving"
  /\ refused' = [refused EXCEPT ![j] = @ \cup {pc[j]}]
  /\ Raise(j)
  /\ header' = [header EXCEPT ![j] = NULL]
  /\ UNCHANGED <<plan, service, objects, row, role, tries, sink, at, sent, hook, told, cut>>

\* Any error of an asset skips the record, also when the asset was stored.
AssetFails(j) ==
  /\ pc[j] = "resolving"
  /\ \/ "asset" \in Faults /\ UNCHANGED <<service, objects, sink>>
     \/ "asset" \in Faults /\ PostFile(j, Record(j).url, "hex", <<j, at[j]>>)
     \/ CannotPost(j) /\ UNCHANGED <<service, objects, sink>>
  /\ role' = [role EXCEPT ![j] = "main"]
  /\ header' = [header EXCEPT ![j] = NULL]
  /\ Goto(j, "checking")
  /\ UNCHANGED <<plan, row, tries, at, sent, hook, history>>

\* The worker dies, with the tasks it had left behind.
Crash(j) ==
  /\ "crash" \in Faults /\ pc[j] \in Busy
  /\ Goto(j, IF tries[j] < MaxTries THEN "queued" ELSE "ended")
  /\ hook' = [hook EXCEPT ![j] = NULL]
  /\ Forget(j)
  /\ UNCHANGED <<plan, service, objects, row, role, tries, at, sent, history>>

Cancel(j) ==
  /\ status[j] \in {"pending", "running"}
  /\ status' = [status EXCEPT ![j] = "cancelled"]
  /\ cut' = cut \cup {j}
  /\ UNCHANGED <<plan, service, objects, extId, assetId, pc, role, tries, local, hook, told, refused>>

CreateDataset(j) ==
  \/ OpenFile(j) \/ FindDataset(j) \/ PostDataset(j) \/ PostOrFindDataset(j)
  \/ FindProject(j) \/ PostProject(j) \/ Open(j)
Finalise(j) == PutFiles(j) \/ PutPayload(j) \/ PostTask(j) \/ StartTask(j)
Step(j) ==
  \/ Deliver(j) \/ Ping(j) \/ CreateDataset(j) \/ Link(j)
  \/ ResolveAsset(j) \/ SendRecord(j) \/ CheckCancelled(j)
  \/ Finalise(j) \/ Close(j) \/ Decide(j) \/ Complete(j) \/ Fail(j) \/ Return(j)

Next ==
  \E j \in Jobs :
    \/ Step(j) \/ AuthHeaders(j) \/ Elapse(j) \/ DeliverWebhook(j)
    \/ CallRaises(j) \/ Refuse(j) \/ AssetFails(j) \/ Crash(j) \/ Cancel(j)

Spec == Init /\ [][Next]_vars

-----------------------------------------------------------------------------
(* Properties                                                              *)

Completed(j) == status[j] = "completed" /\ pc[j] \in {"returned", "ended"}

\* download_export finds the file of a job by the name its sink gave it.
Download(j, r) == objects[Path(TypeOf(j, r), DestOf(j, r), j)]

\* What the ids in the row, or the download, lead to.
Output(j, r) ==
  LET id == IF r = "main" THEN extId[j] ELSE assetId[j]
  IN  CASE TypeOf(j, r) \in Files -> ToSet(Download(j, r))
        [] TypeOf(j, r) \in DatasetTypes -> ToSet(datasets[id].files)
        [] TypeOf(j, r) = "tagme-annotator" -> ToSet(tasks[id].payload)
        [] TypeOf(j, r) = "annotator-mock" -> ToSet(datasets[tasks[id].dataset].files)
Contents(j, r) == {e.of : e \in Output(j, r)}

\* The records that were posted, but for those a JSONL sink takes for assets.
Posted(j) ==
  {<<j, n>> : n \in {n \in ToSet(sent[j]) : plan[j].type \in Jsonls => plan[j].records[n].data = "none"}}

\* Did the user give records and assets the same file?
Clash(j) == plan[j].type \in Files /\ plan[j].asset = plan[j].type /\ plan[j].adest = plan[j].dest

\* The id in the row of a completed job, or its download, leads to every record the
\* job posted, over crashes, deliveries again and jobs to the same destination. What
\* does not belong to the service's other users has nothing else: a file, a payload.
\* A dataset has the name asked for, a task is in the project asked for and started.
OutputIsWhole ==
  \A j \in DOMAIN plan : Completed(j) /\ ~Clash(j) =>
    /\ Posted(j) \subseteq Contents(j, "main")
    /\ plan[j].type \in Files \cup {"tagme-annotator"} => Contents(j, "main") = Posted(j)
    /\ plan[j].type \in DatasetTypes =>
         extId[j] \in {Uuid[plan[j].dest]} \cup Named(plan[j].dest)
    /\ plan[j].type \in Annotators =>
         tasks[extId[j]].started /\ tasks[extId[j]].project \in ProjectFor(plan[j].dest)

\* The asset of a record, as it is stored, and whether another record of the export,
\* posted or not, has one of the same name.
Asset(j, n) == [name |-> plan[j].records[n].url, of |-> <<j, n>>]
Shared(j, n) == \E m \in DOMAIN plan[j].records : m # n /\ Asset(j, m).name = Asset(j, n).name

\* Each record of a completed job that has an asset has its own one where the asset
\* sink of the job keeps them: an entry of the archive, the dataset or the task its row
\* leads to, or the content of the file of that name in the directory beside the JSONL
\* file. A directory has only the last of those that share a name. Other jobs, records
\* that were skipped after their asset was stored, and deliveries before do not take
\* its place; which delivery stored it is not told.
AssetsKept ==
  \A j \in DOMAIN plan : Completed(j) /\ ~Clash(j) /\ plan[j].asset # NULL =>
    \A n \in ToSet(sent[j]) : LET path == AssetPath(plan[j].asset, plan[j].adest, j, Asset(j, n).name) IN
      Asset(j, n).name # NULL =>
        IF plan[j].asset \in Jsonls
        THEN path \in DOMAIN objects /\ (objects[path] = <<Asset(j, n)>> \/ Shared(j, n))
        ELSE Asset(j, n) \in Output(j, "asset")

\* A task that annotators can see has all records of its export, whatever was lost
\* or delivered again. Two kinds of export are not spoken of: one the user cancelled
\* starts its task with what it has, and one that resolves assets leaves out each
\* record whose asset it could not get.
StartedIsWhole ==
  \A t \in ToSet(tasks) :
    t.started /\ t.role = "main" /\ plan[t.job].asset = NULL /\ t.job \notin cut =>
      LET has == {e.of : e \in ToSet(IF t.dataset = 0 THEN t.payload ELSE datasets[t.dataset].files)}
      IN  \A n \in DOMAIN plan[t.job].records : <<t.job, n>> \in has

\* However long a page or a request takes, no request but the start of a task, whose
\* headers are older than the payload, carries a token that has expired.
TokenIsLive == \A j \in DOMAIN plan : refused[j] \subseteq {"starting"} /\ (pc[j] = "resolving" => header[j] # 0)

\* What the receiver of the webhook was told of a job that was delivered once is what
\* the row says, and it was told at most once. It was never told of a cancelled one.
WebhookTellsRow ==
  \A j \in DOMAIN plan :
    /\ Len(told[j]) <= tries[j]
    /\ tries[j] = 1 /\ told[j] # <<>> => told[j] = <<status[j]>> /\ plan[j].hook

=============================================================================
