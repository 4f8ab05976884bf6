----------------------------- MODULE SinksProofs -----------------------------
(***************************************************************************)
(* Theorems about Sinks, for every set of jobs, scenarios and faults.      *)
(***************************************************************************)
EXTENDS Sinks, SequenceTheorems, TLAPS

-----------------------------------------------------------------------------
(* The invariant                                                           *)

Statuses == {"none", "pending", "running", "completed", "failed", "cancelled"}
SetUp == {"pinging", "looking", "making", "opening", "linking"}
AtRecord == {"resolving", "sending", "checking"}
Entry == [name : Names, of : Jobs \X Nat]
Dataset == [name : Names, files : Seq(Entry)]
Task == [project : Nat, dataset : Nat, payload : Seq(Entry), started : BOOLEAN, job : Jobs, role : Roles]

\* The variables of the jobs that hold plain values.
PlainInv ==
  /\ plan \in Scenarios
  /\ pc \in [Jobs -> Busy \cup {"queued", "ended"}]
  /\ role \in [Jobs -> Roles]
  /\ tries \in [Jobs -> Nat]
  /\ status \in [Jobs -> Statuses]
  /\ header \in [Jobs -> Nat \cup {NULL}]
  /\ at \in [Jobs -> Nat \ {0}]
  /\ hook \in [Jobs -> {NULL, "completed", "failed"}]
  /\ refused \in [Jobs -> SUBSET Calls]
  /\ cut \subseteq Jobs
  /\ told \in [Jobs -> Seq({"completed", "failed"})]
  /\ sent \in [Jobs -> Seq(Nat)]

IdsInv == extId \in [Jobs -> Nat] /\ assetId \in [Jobs -> Nat]

\* A cached token outlives the time for which it is used.
TokenOK(t) == t.left \in Nat /\ t.ttl \in Nat /\ (t.ttl > 0 => t.left >= t.ttl)

SinkOK(s) ==
  /\ DOMAIN s = DOMAIN NewSink
  /\ s.dataset \in Nat /\ s.project \in Nat /\ s.task \in Nat /\ s.ext \in Nat
  /\ s.buf \in Seq(Entry)
  /\ TokenOK(s.token)

SinksInv ==
  /\ DOMAIN sink = Jobs
  /\ \A j \in Jobs : DOMAIN sink[j] = Roles /\ \A r \in Roles : SinkOK(sink[j][r])

ServiceInv ==
  /\ datasets \in Seq(Dataset)
  /\ projects \in Seq(Names)
  /\ tasks \in Seq(Task)

\* Where a job is, and what it has in hand there.
Control(j) ==
  /\ j \notin DOMAIN plan => pc[j] = "ended" /\ status[j] = "none"
  /\ j \in DOMAIN plan =>
       /\ status[j] # "none"
       /\ at[j] <= Len(plan[j].records) + 1
       /\ pc[j] \in AtRecord => at[j] <= Len(plan[j].records)
       /\ pc[j] = "resolving" => plan[j].records[at[j]].url # NULL
       /\ role[j] = "asset" => plan[j].asset # NULL
       /\ pc[j] = "resolving" => role[j] = "asset"
       /\ tries[j] <= MaxTries
  /\ status[j] = "cancelled" => j \in cut
  /\ header[j] = 0 => pc[j] = "starting"

\* What the receiver of the webhook was told, and is to be told.
Notified(j) ==
  /\ Len(told[j]) <= tries[j]
  /\ hook[j] # NULL => Len(told[j]) < tries[j]
  /\ pc[j] \in Calls \cup {"failing", "failing early"} => hook[j] = NULL /\ Len(told[j]) < tries[j]
  /\ pc[j] = "queued" => hook[j] = NULL
  /\ tries[j] = 1 /\ hook[j] # NULL => hook[j] = status[j] /\ plan[j].hook
  /\ tries[j] = 1 /\ told[j] # <<>> => told[j] = <<status[j]>> /\ plan[j].hook

\* A sink s for annotation that is set up has its project, and the mock's its dataset.
Placed(type, s, ps, ds) ==
  type \in Annotators =>
    /\ s.project \in 1..Len(ps)
    /\ type = "annotator-mock" => s.dataset \in 1..Len(ds)
PlacedAt(j, r) == Placed(TypeOf(j, r), sink[j][r], projects, datasets)

Late == AtRecord \cup {"finalising", "starting", "closing"}
ReadyInv(j) ==
  /\ pc[j] = "opening" => Type(j) \in Annotators /\ Mine(j).project \in 1..Len(projects)
  /\ pc[j] = "linking" => PlacedAt(j, role[j])
  /\ pc[j] \in SetUp /\ role[j] = "asset" => PlacedAt(j, "main")
  /\ pc[j] \in Late => PlacedAt(j, "main") /\ (plan[j].asset # NULL => PlacedAt(j, "asset"))

\* The project and the task a sink s of job j knows are there, and the task is its own.
Owns(j, r, s, ps, ts) ==
  /\ s.project \in 0..Len(ps)
  /\ s.task \in 0..Len(ts)
  /\ s.task # 0 => ts[s.task].job = j /\ ts[s.task].role = r
OwnInv(j) == \A r \in Roles : Owns(j, r, sink[j][r], projects, tasks)

TasksInv ==
  \A n \in 1..Len(tasks) :
    /\ tasks[n].job \in DOMAIN plan
    /\ tasks[n].project \in 1..Len(projects) /\ tasks[n].dataset \in 0..Len(datasets)
    /\ tasks[n].role = "main" => plan[tasks[n].job].type \in Annotators
    /\ tasks[n].role = "main" /\ plan[tasks[n].job].type = "tagme-annotator" => tasks[n].dataset = 0

\* The records that entries are of.
Of(s) == {e.of : e \in ToSet(s)}

\* What a task shows, and what a job gathers for its own.
Content(t) == IF t.dataset = 0 THEN t.payload ELSE datasets[t.dataset].files
Gathered(j) ==
  IF plan[j].type = "tagme-annotator" THEN sink[j]["main"].buf ELSE datasets[sink[j]["main"].dataset].files

\* The jobs of whose tasks StartedIsWhole speaks.
Uncut(j) == j \in DOMAIN plan /\ plan[j].asset = NULL /\ plan[j].type \in Annotators /\ j \notin cut
Has(s, j, n) == \A m \in 1..n : <<j, m>> \in Of(s)

\* Such a job has gathered every record it is past.
WholeInv(j) ==
  Uncut(j) =>
    /\ pc[j] = "sending" => Has(Gathered(j), j, at[j] - 1)
    /\ pc[j] = "checking" => Has(Gathered(j), j, at[j])
    /\ pc[j] = "finalising" => Has(Gathered(j), j, Len(plan[j].records))
    /\ pc[j] = "starting" /\ sink[j]["main"].task # 0 =>
         Has(Content(tasks[sink[j]["main"].task]), j, Len(plan[j].records))

StartedInv ==
  \A n \in 1..Len(tasks) :
    tasks[n].started /\ tasks[n].role = "main" /\ Uncut(tasks[n].job) =>
      Has(Content(tasks[n]), tasks[n].job, Len(plan[tasks[n].job].records))

RefusedInv == \A j \in Jobs : refused[j] \subseteq {"starting"}
SentInv(j) == j \in DOMAIN plan => ToSet(sent[j]) \subseteq 1..Len(plan[j].records)

-----------------------------------------------------------------------------
(* The output                                                              *)

\* The assets of the records posted, and of the one to be posted.
Past(j) == ToSet(sent[j]) \cup (IF pc[j] = "sending" THEN {at[j]} ELSE {})
Owed(j) == {Asset(j, n) : n \in {n \in Past(j) : plan[j].records[n].url # NULL}}

\* What entries s in a place of type t have to show: of records, those posted, and no
\* other where the place is the job's own; of assets, each that is owed.
Private(t) == t \in Files \cup {"tagme-annotator"}
Full(t, r, posted, owed, s) ==
  IF r = "main"
  THEN posted \subseteq Of(s) /\ (Private(t) => Of(s) = posted)
  ELSE t \notin Jsonls => owed \subseteq ToSet(s)
Fills(j, r, s) == Full(TypeOf(j, r), r, Posted(j), Owed(j), s)

\* Nothing was posted: a dataset that is not there shows this much.
Bare(j, r) == IF r = "main" THEN Posted(j) = {} ELSE Owed(j) = {}

\* The place of the sink's file, and the directory beside a JSONL file, which
\* has the assets: the last by each name.
Place(j, r) == Path(TypeOf(j, r), DestOf(j, r), j)
Sole(j, rs, e) == \A n \in DOMAIN rs : rs[n].url = e.name => e.of = <<j, n>>
Beside(t, r, d, j, rs, owed, files) ==
  r = "asset" /\ t \in Jsonls =>
    \A e \in owed :
      LET p == AssetPath(t, d, j, e.name) IN p \in DOMAIN files /\ (Sole(j, rs, e) => files[p] = <<e>>)
Holds(j, r, files) ==
  /\ Place(j, r) \in DOMAIN files /\ files[Place(j, r)] \in Seq(Entry)
  /\ Beside(TypeOf(j, r), r, DestOf(j, r), j, plan[j].records, Owed(j), files)
  /\ Fills(j, r, files[Place(j, r)])

IsSet(j, r, d) ==
  /\ d # 0
  /\ d \in {Uuid[DestOf(j, r)]} \cup Named(DestOf(j, r))
  /\ d \notin DOMAIN datasets => Bare(j, r)
IsProject(j, r, p) == p \in ProjectFor(DestOf(j, r))

\* What a sink gathers in memory, in its file, or at the service is full; also when
\* some of what it had in memory was put.
InMem == Zips \cup {"s3-jsonl"}
Putting(j, r) == pc[j] = "finalising" /\ role[j] = r
Gathering(j, r) ==
  LET t == TypeOf(j, r)
      s == sink[j][r]
  IN
    /\ t \in InMem => Holds(j, r, IF Putting(j, r) THEN Over(s.mem, objects) ELSE s.mem)
    /\ t = "local-jsonl" => Holds(j, r, objects)
    /\ t \in DatasetTypes =>
         /\ s.ext = s.dataset /\ IsSet(j, r, s.dataset)
         /\ s.dataset \in DOMAIN datasets => Fills(j, r, datasets[s.dataset].files)
    /\ t \in Annotators => IsProject(j, r, s.project)
    /\ t = "tagme-annotator" =>
         s.task # 0 /\ tasks[s.task].project = s.project /\ Fills(j, r, s.buf)
    /\ t = "annotator-mock" => s.dataset \in DOMAIN datasets /\ Fills(j, r, datasets[s.dataset].files)

\* How far the sink of role r is: it knows its project, it gathers, its task is filled, it
\* is closed, and its id is in the row.
Placing(j, r) == pc[j] = "opening" /\ role[j] = r
Opened(j, r) ==
  \/ pc[j] \in AtRecord
  \/ pc[j] = "linking" /\ role[j] = r
  \/ r = "main" /\ pc[j] \in SetUp /\ role[j] = "asset"
  \/ pc[j] = "finalising" /\ (role[j] = "main" \/ r = "asset")
  \/ r = "asset" /\ pc[j] \in {"starting", "closing"} /\ role[j] = "main"
Filled(j, r) == pc[j] = "starting" /\ role[j] = r
Closed(j, r) == pc[j] = "closing" /\ role[j] = r
Sealed(j, r) ==
  \/ pc[j] \in {"deciding", "completing"}
  \/ Completed(j)
  \/ r = "main" /\ pc[j] \in {"finalising", "starting", "closing"} /\ role[j] = "asset"

\* The id that is known of it then.
Known(j, r) ==
  CASE Filled(j, r) -> sink[j][r].task
    [] Closed(j, r) -> sink[j][r].ext
    [] OTHER -> IF r = "main" THEN extId[j] ELSE assetId[j]

\* What the id leads to is full.
Shows(j, r) ==
  LET t == TypeOf(j, r)
      id == Known(j, r)
  IN
    /\ t \in Files => Holds(j, r, objects)
    /\ t \in DatasetTypes =>
         IsSet(j, r, id) /\ (id \in DOMAIN datasets => Fills(j, r, datasets[id].files))
    /\ t \in Annotators =>
         /\ id \in 1..Len(tasks) /\ tasks[id].job = j /\ tasks[id].role = r
         /\ IsProject(j, r, tasks[id].project)
    /\ t = "tagme-annotator" => Fills(j, r, tasks[id].payload)
    /\ t = "annotator-mock" =>
         tasks[id].dataset \in DOMAIN datasets /\ Fills(j, r, datasets[tasks[id].dataset].files)

Lone(j, r) == j \in DOMAIN plan /\ ~Clash(j) /\ TypeOf(j, r) # NULL
OutputInv(j, r) ==
  Lone(j, r) =>
    /\ Placing(j, r) => IsProject(j, r, sink[j][r].project)
    /\ Opened(j, r) => Gathering(j, r)
    /\ Filled(j, r) \/ Closed(j, r) \/ Sealed(j, r) => Shows(j, r)
    /\ Filled(j, r) => TypeOf(j, r) \in Annotators
    /\ Closed(j, r) /\ TypeOf(j, r) \notin Files => sink[j][r].ext # 0
    /\ Closed(j, r) \/ Sealed(j, r) => (TypeOf(j, r) \in Annotators => tasks[Known(j, r)].started)

\* A sink holds in memory only files of its own.
Own(t, d, j, p) == \E x : p = <<t, d, j, x>>
MemOK(t, d, j, mem) == \A p \in DOMAIN mem : t \in InMem /\ Own(t, d, j, p)
MemInv(j) == \A r \in Roles : MemOK(TypeOf(j, r), DestOf(j, r), j, sink[j][r].mem)

\* What the places of a job say besides.
PlacesInv(j) ==
  j \in DOMAIN plan =>
    /\ pc[j] = "making" /\ Type(j) \in Annotators => Uuid[Dest(j)] = 0
    /\ pc[j] \in SetUp => sent[j] = <<>>
    /\ pc[j] \in SetUp \cup {"queued"} => \A r \in Roles : sink[j][r].buf = <<>>
    /\ pc[j] \in {"sending", "checking"} => role[j] = "main"
    /\ status[j] = "completed" => pc[j] \in {"returned", "ended", "queued"}

\* How a step keeps what the sink of role r of job j shows, or gathers, when it is not this
\* sink's: lists grow, its own tasks and its file are left alone.
ListsKept ==
  /\ \A d \in DOMAIN datasets :
       /\ d \in DOMAIN datasets' /\ datasets'[d].name = datasets[d].name
       /\ ToSet(datasets[d].files) \subseteq ToSet(datasets'[d].files)
  /\ \A p \in DOMAIN projects : p \in DOMAIN projects' /\ projects'[p] = projects[p]
TasksKept(j, r) ==
  \A n \in 1..Len(tasks) :
    tasks[n].job = j /\ tasks[n].role = r => n \in 1..Len(tasks') /\ tasks'[n] = tasks[n]
FilesKept(j, r) ==
  /\ DOMAIN objects \subseteq DOMAIN objects'
  /\ TypeOf(j, r) \in Files =>
       \A p \in DOMAIN objects : Own(TypeOf(j, r), DestOf(j, r), j, p) => objects'[p] = objects[p]
Keeps(j, r) == ListsKept /\ TasksKept(j, r) /\ FilesKept(j, r)

\* It has no more to show, and a sink t knows and holds what s did.
NoMore(j, r) ==
  /\ r = "main" => Posted(j)' = Posted(j)
  /\ r = "asset" => Owed(j)' \subseteq Owed(j)
Alike(s, t) ==
  /\ s.dataset = t.dataset /\ s.project = t.project /\ s.task = t.task /\ s.ext = t.ext
  /\ s.buf = t.buf /\ s.mem = t.mem

\* The sink of role r does not get further in this step.
AtWork(j, r) == Placing(j, r) \/ Opened(j, r) \/ Filled(j, r) \/ Closed(j, r)
Onward(j, r) ==
  /\ Placing(j, r)' => Placing(j, r)
  /\ Opened(j, r)' => Opened(j, r) /\ (Putting(j, r) => Putting(j, r)')
  /\ Filled(j, r)' => Filled(j, r)
  /\ Closed(j, r)' => Closed(j, r)
  /\ Sealed(j, r)' => Sealed(j, r)
  /\ (Filled(j, r) \/ Closed(j, r) \/ Sealed(j, r))' => Known(j, r)' = Known(j, r)
  /\ AtWork(j, r)' => Alike(sink'[j][r], sink[j][r])
  /\ (AtWork(j, r) \/ Sealed(j, r))' => NoMore(j, r)

-----------------------------------------------------------------------------
(* What is proved to be inductive                                          *)

Inv ==
  /\ PlainInv /\ IdsInv /\ SinksInv /\ ServiceInv /\ RefusedInv /\ TasksInv /\ StartedInv
  /\ \A j \in Jobs : Control(j) /\ Notified(j) /\ ReadyInv(j) /\ OwnInv(j) /\ WholeInv(j) /\ SentInv(j)
  /\ \A j \in Jobs : MemInv(j) /\ PlacesInv(j) /\ \A r \in Roles : OutputInv(j, r)

\* How a step of job k changes the service: lists grow, and it fills no one else's task.
Grown(k) ==
  /\ Len(datasets) <= Len(datasets') /\ Len(projects) <= Len(projects') /\ Len(tasks) <= Len(tasks')
  /\ \A d \in 1..Len(datasets) : Of(datasets[d].files) \subseteq Of(datasets'[d].files)
  /\ \A n \in 1..Len(tasks) :
       /\ tasks'[n].job = tasks[n].job /\ tasks'[n].role = tasks[n].role
       /\ tasks'[n].project = tasks[n].project /\ tasks'[n].dataset = tasks[n].dataset
       /\ tasks[n].job # k => tasks'[n] = tasks[n]

\* A step of job k that leaves its sinks what they know and what they hold.
Same(s, t) == s.dataset = t.dataset /\ s.project = t.project /\ s.task = t.task /\ s.buf = t.buf
Steady(k) == \A r \in Roles : Same(sink'[k][r], sink[k][r])

\* What one job can do.
Acts(j) ==
  \/ Step(j) \/ AuthHeaders(j) \/ Elapse(j) \/ DeliverWebhook(j)
  \/ CallRaises(j) \/ Refuse(j) \/ AssetFails(j) \/ Crash(j) \/ Cancel(j)

-----------------------------------------------------------------------------
(* Lemmas                                                                  *)

\* What the jobs ask for has its type.
LEMMA PlanOK ==
  ASSUME plan \in Scenarios, NEW j \in DOMAIN plan
  PROVE  /\ j \in Jobs /\ plan[j] \in PlanType
         /\ plan[j].records \in Seq(RecordType) /\ Len(plan[j].records) \in Nat
         /\ plan[j].type \in Types /\ plan[j].asset \in Types \cup {NULL}
         /\ plan[j].dest \in DOMAIN Uuid /\ plan[j].adest \in DOMAIN Uuid
<1>1. j \in Jobs /\ plan[j] \in PlanType
  BY ScenariosAssumption
<1>2. plan[j].records \in Seq(RecordType)
  BY <1>1 DEF PlanType
<1>3. Len(plan[j].records) \in Nat
  BY <1>2, LenProperties
<1>4. QED
  BY <1>1, <1>2, <1>3 DEF PlanType

\* A step of one job leaves the others alone.
LEMMA Others ==
  ASSUME NEW k \in Jobs, Acts(k), PlainInv, SinksInv, NEW j \in Jobs, j # k
  PROVE  /\ pc'[j] = pc[j] /\ role'[j] = role[j] /\ tries'[j] = tries[j] /\ status'[j] = status[j]
         /\ header'[j] = header[j] /\ at'[j] = at[j] /\ hook'[j] = hook[j] /\ refused'[j] = refused[j]
         /\ sink'[j] = sink[j] /\ told'[j] = told[j] /\ sent'[j] = sent[j]
         /\ j \in cut' <=> j \in cut
         /\ plan' = plan
<1>1. CASE Deliver(k)
  BY <1>1 DEF PlainInv, SinksInv, Deliver, Goto
<1>2. CASE Ping(k)
  BY <1>2 DEF PlainInv, SinksInv, Ping, Goto, Stay, service, row, history
<1>3. CASE OpenFile(k)
  BY <1>3 DEF PlainInv, SinksInv, OpenFile, SetSink, Goto, Stay, service, row, history
<1>4. CASE FindDataset(k)
  BY <1>4 DEF PlainInv, SinksInv, FindDataset, Sends, UseDataset, SetSink, Goto, Stay, service,
     row, history
<1>5. CASE PostDataset(k)
  BY <1>5 DEF PlainInv, SinksInv, PostDataset, Sends, UseDataset, SetSink, Goto, Stay, row,
     history
<1>6. CASE PostOrFindDataset(k)
  BY <1>6 DEF PlainInv, SinksInv, PostOrFindDataset, UseDataset, SetSink, Goto, Stay, row,
     history
<1>7. CASE FindProject(k)
  BY <1>7 DEF PlainInv, SinksInv, FindProject, Sends, SetSink, Goto, Stay, service, row, history
<1>8. CASE PostProject(k)
  BY <1>8 DEF PlainInv, SinksInv, PostProject, SetSink, Goto, Stay, row, history
<1>9. CASE Open(k)
  BY <1>9 DEF PlainInv, SinksInv, Open, Sends, SetSink, Goto, Stay, row, history
<1>10. CASE Link(k)
  BY <1>10 DEF PlainInv, SinksInv, Link, Loop, Goto, service, history
<1>11. CASE ResolveAsset(k)
  BY <1>11 DEF PlainInv, SinksInv, ResolveAsset, Sends, PostFile, InMemory, SetSink, Goto,
     service, row, history
<1>12. CASE SendRecord(k)
  BY <1>12 DEF PlainInv, SinksInv, SendRecord, Sends, PostFile, InMemory, SetSink, Goto,
     service, row, history
<1>13. CASE CheckCancelled(k)
  BY <1>13 DEF PlainInv, SinksInv, CheckCancelled, Loop, Goto, service, row, history
<1>14. CASE PutFiles(k)
  BY <1>14 DEF PlainInv, SinksInv, PutFiles, SetSink, Goto, Stay, service, row, history
<1>15. CASE PutPayload(k)
  BY <1>15 DEF PlainInv, SinksInv, PutPayload, Goto, Stay, row, history
<1>16. CASE PostTask(k)
  BY <1>16 DEF PlainInv, SinksInv, PostTask, SetSink, Goto, Stay, row, history
<1>17. CASE StartTask(k)
  BY <1>17 DEF PlainInv, SinksInv, StartTask, SetSink, Goto, Stay, row, history
<1>18. CASE Close(k)
  BY <1>18 DEF PlainInv, SinksInv, Close, Goto, service, local, history
<1>19. CASE Decide(k)
  BY <1>19 DEF PlainInv, SinksInv, Decide, Goto, Stay, service, row, history
<1>20. CASE Complete(k)
  BY <1>20 DEF PlainInv, SinksInv, Complete, End, Goto, service, local, history
<1>21. CASE Fail(k)
  <2>1. PICK t : End(k, "failed", t)
    BY <1>21 DEF Fail
  <2>2. QED
    BY <2>1 DEF PlainInv, SinksInv, End, Goto, service, local, history
<1>22. CASE Return(k)
  BY <1>22 DEF PlainInv, SinksInv, Return, Forget, Goto, Stay, service, row, history
<1>23. CASE AuthHeaders(k)
  BY <1>23 DEF PlainInv, SinksInv, AuthHeaders, Stay, service, row, history
<1>24. CASE Elapse(k)
  BY <1>24 DEF PlainInv, SinksInv, Elapse, Stay, service, row, history
<1>25. CASE DeliverWebhook(k)
  BY <1>25 DEF PlainInv, SinksInv, DeliverWebhook, service, row, local
<1>26. CASE CallRaises(k)
  BY <1>26 DEF PlainInv, SinksInv, CallRaises, Raise, Goto, Stay, service, row, history
<1>27. CASE Refuse(k)
  BY <1>27 DEF PlainInv, SinksInv, Refuse, Raise, Goto, service, row
<1>28. CASE AssetFails(k)
  BY <1>28 DEF PlainInv, SinksInv, AssetFails, PostFile, InMemory, SetSink, Goto, service, row,
     history
<1>29. CASE Crash(k)
  BY <1>29 DEF PlainInv, SinksInv, Crash, Forget, Goto, service, row, history
<1>30. CASE Cancel(k)
  BY <1>30 DEF PlainInv, SinksInv, Cancel, service, local
<1>31. QED
  BY <1>1, <1>2, <1>3, <1>4, <1>5, <1>6, <1>7, <1>8, <1>9, <1>10, <1>11, <1>12, <1>13, <1>14,
     <1>15, <1>16, <1>17, <1>18, <1>19, <1>20, <1>21, <1>22, <1>23, <1>24, <1>25, <1>26, <1>27,
     <1>28, <1>29, <1>30 DEF Acts, Step, CreateDataset, Finalise

\* The sink at work is a sink, and the ids of its destination are numbers.
LEMMA MineOK ==
  ASSUME NEW k \in Jobs, PlainInv, SinksInv
  PROVE  /\ role[k] \in Roles
         /\ SinkOK(Mine(k))
         /\ sink[k][role[k]] = Mine(k)
         /\ k \in DOMAIN plan => Uuid[Dest(k)] \in Nat
<1>1. role[k] \in Roles /\ SinkOK(Mine(k))
  BY DEF PlainInv, SinksInv, Mine
<1>2. ASSUME k \in DOMAIN plan PROVE Uuid[Dest(k)] \in Nat
  BY <1>2, PlanOK, NamesAssumption DEF PlainInv, Dest, DestOf
<1>3. QED
  BY <1>1, <1>2 DEF Mine

\* A sink that takes the place of the one at work.
LEMMA Replaced ==
  ASSUME NEW k \in Jobs, PlainInv, SinksInv, NEW s, SinkOK(s), SetSink(k, s)
  PROVE  SinksInv'
<1>1. sink' = [sink EXCEPT ![k][role[k]] = s]
  BY DEF SetSink
<1>2. role[k] \in Roles
  BY DEF PlainInv
<1>3. DOMAIN sink' = Jobs /\ \A j \in Jobs : DOMAIN sink'[j] = Roles
  BY <1>1 DEF SinksInv
<1>4. ASSUME NEW j \in Jobs, NEW r \in Roles PROVE SinkOK(sink'[j][r])
  <2>1. sink'[j][r] = s \/ sink'[j][r] = sink[j][r]
    BY <1>1, <1>2 DEF SinksInv
  <2>2. QED
    BY <2>1 DEF SinksInv
<1>5. QED
  BY <1>3, <1>4 DEF SinksInv

\* A token that grows older, and one that is new, may be cached.
LEMMA AgedOK ==
  ASSUME NEW s, SinkOK(s), NEW d \in Nat
  PROVE  SinkOK(Aged(s, d))
<1>1. /\ Less(s.token.left, d) \in Nat /\ Less(s.token.ttl, d) \in Nat
      /\ s.token.ttl > 0 => Less(s.token.left, d) >= Less(s.token.ttl, d)
  <2>1. s.token.left \in Nat /\ s.token.ttl \in Nat /\ (s.token.ttl > 0 => s.token.left >= s.token.ttl)
    BY DEF SinkOK, TokenOK
  <2>2. QED
    BY <2>1 DEF Less
<1> DEFINE t == Kept([left |-> Less(s.token.left, d), ttl |-> Less(s.token.ttl, d)])
<1>2. TokenOK(t)
  <2>1. CASE s.token.ttl > 0
    BY <1>1, <2>1 DEF Kept, TokenOK, NoToken
  <2>2. CASE ~(s.token.ttl > 0)
    <3>1. Less(s.token.ttl, d) = 0
      BY <2>2 DEF SinkOK, TokenOK, Less
    <3>2. t = NoToken
      BY <3>1 DEF Kept
    <3>3. QED
      BY <3>2 DEF TokenOK, NoToken
  <2>3. QED
    BY <2>1, <2>2
<1>3. Aged(s, d) = [s EXCEPT !.token = t]
  BY DEF Aged, SinkOK, NewSink
<1> HIDE DEF t
<1>4. QED
  BY <1>2, <1>3 DEF SinkOK, NewSink

LEMMA CachedOK ==
  ASSUME NEW l \in Lifetimes, NEW d \in ExchangeTimes
  PROVE  /\ Cached(l, d).left \in Nat \ {0}
         /\ TokenOK(Kept(Cached(l, d)))
<1>1. l \in Nat /\ d \in Nat /\ Leeway \in Nat /\ d < Leeway /\ d < l
  BY TimesAssumption
<1>2. l - d \in Nat \ {0} /\ Less(l, Leeway) \in Nat /\ l - d >= Less(l, Leeway)
  BY <1>1 DEF Less
<1>3. QED
  BY <1>2 DEF Cached, Kept, TokenOK, NoToken

\* The record at work is one of the plan, and an entry of it an entry.
LEMMA RecordOK ==
  ASSUME NEW k \in Jobs, PlainInv, Control(k), pc[k] \in AtRecord
  PROVE  /\ k \in DOMAIN plan
         /\ [name |-> RecordName(k, Record(k)), of |-> <<k, at[k]>>] \in Entry
         /\ pc[k] = "resolving" => [name |-> Record(k).url, of |-> <<k, at[k]>>] \in Entry
<1>1. k \in DOMAIN plan
  BY DEF Control, AtRecord
<1>2. at[k] \in Nat \ {0} /\ at[k] <= Len(plan[k].records)
  BY <1>1 DEF PlainInv, Control
<1>3. Record(k) \in RecordType
  <2>1. plan[k].records \in Seq(RecordType)
    BY <1>1, PlanOK DEF PlainInv
  <2>2. at[k] \in 1..Len(plan[k].records)
    BY <1>2, <2>1, LenProperties
  <2>3. QED
    BY <2>1, <2>2, ElementOfSeq DEF Record
<1>4. RecordName(k, Record(k)) \in Names
  BY <1>3 DEF RecordName, RecordType, Names
<1>5. pc[k] = "resolving" => Record(k).url \in Names
  BY <1>1, <1>3 DEF RecordType, Record, Control, Names
<1>6. QED
  BY <1>1, <1>2, <1>4, <1>5 DEF Entry

\* A new place at the end of a list.
LEMMA Appended ==
  ASSUME NEW S, NEW s \in Seq(S), NEW x \in S
  PROVE  /\ Append(s, x) \in Seq(S)
         /\ Len(s) \in Nat /\ Len(Append(s, x)) = Len(s) + 1
         /\ DOMAIN s = 1..Len(s) /\ DOMAIN Append(s, x) = 1..(Len(s) + 1)
         /\ \A i \in 1..Len(s) : Append(s, x)[i] = s[i] /\ s[i] \in S
         /\ Append(s, x)[Len(s) + 1] = x
  BY AppendProperties, LenProperties, ElementOfSeq

\* A dataset, a project and a task that are posted have their types.
LEMMA DatasetPosted ==
  ASSUME ServiceInv, NEW n \in Names, PostedDataset(n)
  PROVE  datasets' \in Seq(Dataset) /\ Len(datasets') = Len(datasets) + 1 /\ Len(datasets) \in Nat
<1>1. [name |-> n, files |-> <<>>] \in Dataset
  BY EmptySeq DEF Dataset
<1>2. QED
  BY <1>1, Appended DEF ServiceInv, PostedDataset

\* post_file leaves lists and sinks of their types.
LEMMA Posts ==
  ASSUME NEW k \in Jobs, PlainInv, SinksInv, ServiceInv, NEW name, NEW data, NEW of,
         [name |-> name, of |-> of] \in Entry, PostFile(k, name, data, of)
  PROVE  SinksInv' /\ ServiceInv'
<1> DEFINE e == [name |-> name, of |-> of]
<1>1. SinkOK(Mine(k)) /\ role[k] \in Roles
  BY MineOK
<1>2. ASSUME NEW path, NEW content, InMemory(k, path, content) PROVE SinksInv'
  <2>1. PICK m : SetSink(k, [Mine(k) EXCEPT !.mem = m])
    BY <1>2 DEF InMemory, SinkOK, NewSink
  <2>2. SinkOK([Mine(k) EXCEPT !.mem = m])
    BY <1>1 DEF SinkOK, NewSink
  <2>3. QED
    BY <2>1, <2>2, Replaced
<1>3. CASE UNCHANGED <<service, objects>> /\ \E path, content : InMemory(k, path, content)
  BY <1>2, <1>3 DEF ServiceInv, service
<1>4. CASE UNCHANGED <<service, sink>>
  BY <1>4 DEF ServiceInv, SinksInv, service
<1>5. CASE UNCHANGED service /\ SetSink(k, [Mine(k) EXCEPT !.buf = Append(@, e)])
  <2>1. Append(Mine(k).buf, e) \in Seq(Entry)
    BY <1>1, Appended DEF SinkOK
  <2>2. SinkOK([Mine(k) EXCEPT !.buf = Append(Mine(k).buf, e)])
    BY <1>1, <2>1 DEF SinkOK, NewSink
  <2>3. [Mine(k) EXCEPT !.buf = Append(@, e)] = [Mine(k) EXCEPT !.buf = Append(Mine(k).buf, e)]
    BY <1>1 DEF SinkOK, NewSink
  <2>4. QED
    BY <1>5, <2>2, <2>3, Replaced DEF ServiceInv, service
<1>6. CASE /\ Mine(k).dataset \in DOMAIN datasets
           /\ datasets' = [datasets EXCEPT ![Mine(k).dataset].files = Append(@, e)]
           /\ UNCHANGED <<projects, tasks, sink>>
  <2> DEFINE d == Mine(k).dataset
  <2>1. datasets[d] \in Dataset
    BY <1>6, ElementOfSeq, LenProperties DEF ServiceInv
  <2>2. Append(datasets[d].files, e) \in Seq(Entry)
    BY <2>1, Appended DEF Dataset
  <2>3. [datasets[d] EXCEPT !.files = Append(datasets[d].files, e)] \in Dataset
    BY <2>1, <2>2 DEF Dataset
  <2>4. datasets' \in Seq(Dataset)
    BY <1>6, <2>3, ExceptSeq, LenProperties DEF ServiceInv
  <2>5. QED
    BY <1>6, <2>4 DEF ServiceInv, SinksInv
<1>7. QED
  BY <1>3, <1>4, <1>5, <1>6 DEF PostFile, service

\* Every step leaves the service and the sinks of their types.
LEMMA ServiceStep ==
  ASSUME NEW k \in Jobs, Acts(k), PlainInv, SinksInv, ServiceInv, Control(k)
  PROVE  SinksInv' /\ ServiceInv'
<1>1. SinkOK(Mine(k)) /\ role[k] \in Roles /\ (k \in DOMAIN plan => Uuid[Dest(k)] \in Nat)
  BY MineOK
<1>2. ASSUME NEW d \in Nat, UseDataset(k, d) PROVE SinksInv'
  <2>1. SinkOK([Mine(k) EXCEPT !.dataset = d, !.ext = d])
    BY <1>1 DEF SinkOK, NewSink
  <2>2. QED
    BY <1>2, <2>1, Replaced DEF UseDataset
<1>3. ASSUME NEW p \in Nat, SetSink(k, [Mine(k) EXCEPT !.project = p]) PROVE SinksInv'
  <2>1. SinkOK([Mine(k) EXCEPT !.project = p])
    BY <1>1 DEF SinkOK, NewSink
  <2>2. QED
    BY <1>3, <2>1, Replaced
<1>4. k \in DOMAIN plan => Dest(k) \in Names
  BY PlanOK, NamesAssumption DEF PlainInv, Dest, DestOf, Names
<1>5. SinkOK(NewSink)
  BY EmptySeq DEF SinkOK, NewSink, TokenOK, NoToken
<1>6. CASE Deliver(k)
  BY <1>6 DEF Deliver, Stay, End, service, local, SinksInv, ServiceInv
<1>7. CASE Ping(k)
  BY <1>7 DEF Ping, Stay, End, service, local, SinksInv, ServiceInv
<1>8. CASE OpenFile(k)
  <2>1. CASE UNCHANGED sink
    BY <1>8, <2>1 DEF OpenFile, SinksInv, ServiceInv, service
  <2>2. ASSUME NEW m, SetSink(k, [Mine(k) EXCEPT !.mem = m]) PROVE SinksInv'
    <3>1. SinkOK([Mine(k) EXCEPT !.mem = m])
      BY <1>1 DEF SinkOK, NewSink
    <3>2. QED
      BY <2>2, <3>1, Replaced
  <2>3. QED
    BY <1>8, <2>1, <2>2 DEF OpenFile, ServiceInv, service
<1>9. CASE FindDataset(k)
  <2>1. \A d \in Nat : UseDataset(k, d) => SinksInv'
    BY <1>2
  <2>2. k \in DOMAIN plan
    BY <1>9 DEF FindDataset, Sends, Control
  <2>3. \A d \in Named(Dest(k)) : d \in Nat
    BY LenProperties DEF Named, ServiceInv
  <2>4. QED
    BY <1>9, <1>1, <2>1, <2>2, <2>3 DEF FindDataset, ServiceInv, SinksInv, service
<1>10. CASE PostDataset(k)
  <2>1. k \in DOMAIN plan
    BY <1>10 DEF PostDataset, Sends, Control
  <2>2. Dest(k) \in Names
    BY <2>1, <1>4
  <2>3. datasets' \in Seq(Dataset) /\ Len(datasets') \in Nat
    BY <1>10, <2>2, DatasetPosted DEF PostDataset
  <2>4. QED
    BY <1>10, <1>2, <2>3 DEF PostDataset, ServiceInv
<1>11. CASE PostOrFindDataset(k)
  <2>1. k \in DOMAIN plan
    BY <1>11 DEF PostOrFindDataset, Control
  <2>2. Dest(k) \in Names /\ Uuid[Dest(k)] \in Nat
    BY <1>1, <1>4, <2>1
  <2>3. \A d \in Named(Dest(k)) : d \in Nat
    BY LenProperties DEF Named, ServiceInv
  <2>4. CASE UNCHANGED datasets
    BY <1>11, <1>2, <2>2, <2>3, <2>4 DEF PostOrFindDataset, ServiceInv
  <2>5. CASE PostedDataset(Dest(k)) /\ UseDataset(k, Len(datasets'))
    <3>1. datasets' \in Seq(Dataset) /\ Len(datasets') \in Nat
      BY <2>2, <2>5, DatasetPosted
    <3>2. QED
      BY <1>11, <1>2, <2>5, <3>1 DEF PostOrFindDataset, ServiceInv
  <2>6. QED
    BY <1>11, <2>4, <2>5 DEF PostOrFindDataset
<1>12. CASE FindProject(k)
  <2>1. \A p \in ProjectFor(Dest(k)) : p \in Nat
    BY LenProperties DEF ProjectFor, ServiceInv
  <2>2. QED
    BY <1>12, <1>3, <2>1 DEF FindProject, ServiceInv, SinksInv, service
<1>13. CASE PostProject(k)
  <2>1. k \in DOMAIN plan
    BY <1>13 DEF PostProject, Control
  <2>2. projects' \in Seq(Names) /\ Len(projects') \in Nat
    BY <1>13, <1>4, <2>1, Appended DEF PostProject, ServiceInv
  <2>3. QED
    BY <1>13, <1>3, <2>2 DEF PostProject, ServiceInv
<1>14. CASE Open(k)
  <2>1. CASE Type(k) = "tagme-annotator"
    <3> DEFINE t == [project |-> Mine(k).project, dataset |-> 0, payload |-> <<>>,
                     started |-> FALSE, job |-> k, role |-> role[k]]
    <3>1. t \in Task
      BY <1>1, EmptySeq DEF Task, SinkOK
    <3>2. tasks' = Append(tasks, t)
      BY <1>14, <2>1 DEF Open
    <3>3. tasks' \in Seq(Task) /\ Len(tasks') \in Nat
      <4> HIDE DEF t
      <4> QED
        BY <3>1, <3>2, Appended DEF ServiceInv
    <3>4. SetSink(k, [Mine(k) EXCEPT !.task = Len(tasks'), !.ext = Len(tasks')])
      BY <1>14, <2>1 DEF Open
    <3>5. SinkOK([Mine(k) EXCEPT !.task = Len(tasks'), !.ext = Len(tasks')])
      BY <1>1, <3>3 DEF SinkOK, NewSink
    <3>6. QED
      BY <1>14, <2>1, <3>3, <3>4, <3>5, Replaced DEF Open, ServiceInv
  <2>2. CASE Type(k) # "tagme-annotator"
    <3>1. PostedDataset("of this job") /\ SetSink(k, [Mine(k) EXCEPT !.dataset = Len(datasets')])
      BY <1>14, <2>2 DEF Open
    <3>2. datasets' \in Seq(Dataset) /\ Len(datasets') \in Nat
      <4>1. PICK n \in Names : PostedDataset(n)
        BY <3>1 DEF Names
      <4>2. QED
        BY <4>1, DatasetPosted
    <3>3. SinkOK([Mine(k) EXCEPT !.dataset = Len(datasets')])
      BY <1>1, <3>2 DEF SinkOK, NewSink
    <3>4. QED
      BY <1>14, <2>2, <3>1, <3>2, <3>3, Replaced DEF Open, ServiceInv
  <2>3. QED
    BY <2>1, <2>2
<1>15. CASE Link(k)
  BY <1>15 DEF Link, Stay, End, service, local, SinksInv, ServiceInv
<1>16. CASE ResolveAsset(k)
  <2>1. [name |-> Record(k).url, of |-> <<k, at[k]>>] \in Entry
    BY <1>16, RecordOK DEF ResolveAsset, Sends, AtRecord
  <2>2. QED
    BY <1>16, <2>1, Posts DEF ResolveAsset
<1>17. CASE SendRecord(k)
  <2>1. [name |-> RecordName(k, Record(k)), of |-> <<k, at[k]>>] \in Entry
    BY <1>17, RecordOK DEF SendRecord, Sends, AtRecord
  <2>2. QED
    BY <1>17, <2>1, Posts DEF SendRecord
<1>18. CASE CheckCancelled(k)
  BY <1>18 DEF CheckCancelled, Stay, End, service, local, SinksInv, ServiceInv
<1>19. CASE PutFiles(k)
  <2>1. CASE UNCHANGED sink
    BY <1>19, <2>1 DEF PutFiles, SinksInv, ServiceInv, service
  <2>2. ASSUME NEW p, SetSink(k, Unput(k, p)) PROVE SinksInv'
    <3>1. SinkOK(Unput(k, p))
      BY <1>1 DEF Unput, SinkOK, NewSink
    <3>2. QED
      BY <2>2, <3>1, Replaced
  <2>3. QED
    BY <1>19, <2>1, <2>2 DEF PutFiles, ServiceInv, service
<1>20. CASE PutPayload(k)
  <2>1. SinksInv'
    <3>1. PICK d \in Nat : sink' = [sink EXCEPT ![k] = [r \in Roles |-> Aged(@[r], d)]]
      BY <1>20, TimesAssumption DEF PutPayload
    <3>2. \A r \in Roles : SinkOK(Aged(sink[k][r], d))
      BY AgedOK DEF SinksInv
    <3>3. QED
      BY <3>1, <3>2 DEF SinksInv
  <2>2. CASE Mine(k).task \in 1..Len(tasks)
    <3>1. tasks[Mine(k).task] \in Task /\ Mine(k).buf \in Seq(Entry)
      BY <1>1, <2>2, ElementOfSeq DEF ServiceInv, SinkOK
    <3>2. [tasks[Mine(k).task] EXCEPT !.payload = Mine(k).buf] \in Task
      BY <3>1 DEF Task
    <3>3. QED
      BY <1>20, <2>1, <2>2, <3>2, ExceptSeq DEF PutPayload, ServiceInv
  <2>3. CASE Mine(k).task \notin 1..Len(tasks)
    <3>1. tasks' = tasks
      BY <1>20, <2>3, LenProperties DEF PutPayload, ServiceInv
    <3>2. QED
      BY <1>20, <2>1, <3>1 DEF PutPayload, ServiceInv
  <2>4. QED
    BY <2>2, <2>3
<1>21. CASE PostTask(k)
  <2> DEFINE t == [project |-> Mine(k).project, dataset |-> Mine(k).dataset, payload |-> <<>>,
                   started |-> FALSE, job |-> k, role |-> role[k]]
  <2>1. t \in Task
    BY <1>1, EmptySeq DEF Task, SinkOK
  <2>2. tasks' = Append(tasks, t)
    BY <1>21 DEF PostTask
  <2>3. tasks' \in Seq(Task) /\ Len(tasks') \in Nat
    <3> HIDE DEF t
    <3> QED
      BY <2>1, <2>2, Appended DEF ServiceInv
  <2>4. SinkOK([Mine(k) EXCEPT !.task = Len(tasks')])
    BY <1>1, <2>3 DEF SinkOK, NewSink
  <2>5. QED
    BY <1>21, <2>3, <2>4, Replaced DEF PostTask, ServiceInv
<1>22. CASE StartTask(k)
  <2>1. SinksInv'
    <3>1. SinkOK([Mine(k) EXCEPT !.ext = Mine(k).task])
      BY <1>1 DEF SinkOK, NewSink
    <3>2. QED
      BY <1>22, <3>1, Replaced DEF StartTask
  <2>2. CASE Mine(k).task \in 1..Len(tasks)
    <3>1. tasks[Mine(k).task] \in Task
      BY <2>2, ElementOfSeq DEF ServiceInv
    <3>2. [tasks[Mine(k).task] EXCEPT !.started = TRUE] \in Task
      BY <3>1 DEF Task
    <3>3. QED
      BY <1>22, <2>1, <2>2, <3>2, ExceptSeq DEF StartTask, ServiceInv
  <2>3. CASE Mine(k).task \notin 1..Len(tasks)
    <3>1. tasks' = tasks
      BY <1>22, <2>3, LenProperties DEF StartTask, ServiceInv
    <3>2. QED
      BY <1>22, <2>1, <3>1 DEF StartTask, ServiceInv
  <2>4. QED
    BY <2>2, <2>3
<1>23. CASE Close(k)
  BY <1>23 DEF Close, Stay, End, service, local, SinksInv, ServiceInv
<1>24. CASE Decide(k)
  BY <1>24 DEF Decide, Stay, End, service, local, SinksInv, ServiceInv
<1>25. CASE Complete(k)
  BY <1>25 DEF Complete, Stay, End, service, local, SinksInv, ServiceInv
<1>26. CASE Fail(k)
  BY <1>26 DEF Fail, Stay, End, service, local, SinksInv, ServiceInv
<1>27. CASE Return(k)
  BY <1>27, <1>5 DEF Return, Forget, SinksInv, ServiceInv, service
<1>28. CASE AuthHeaders(k)
  <2>1. CASE UNCHANGED sink
    BY <1>28, <2>1 DEF AuthHeaders, SinksInv, ServiceInv, service
  <2>2. CASE sink' # sink
    <3>1. PICK l \in Lifetimes, d \in ExchangeTimes :
            sink' = [sink EXCEPT ![k] = [r \in Roles |->
              IF r = role[k] THEN [@[r] EXCEPT !.token = Kept(Cached(l, d))] ELSE Aged(@[r], d)]]
      BY <1>28, <2>2 DEF AuthHeaders
    <3>2. TokenOK(Kept(Cached(l, d))) /\ d \in Nat
      BY CachedOK, TimesAssumption
    <3>3. \A r \in Roles : /\ SinkOK([sink[k][r] EXCEPT !.token = Kept(Cached(l, d))])
                          /\ SinkOK(Aged(sink[k][r], d))
      <4>1. \A r \in Roles : SinkOK(Aged(sink[k][r], d))
        BY <3>2, AgedOK DEF SinksInv
      <4>2. ASSUME NEW r \in Roles PROVE SinkOK([sink[k][r] EXCEPT !.token = Kept(Cached(l, d))])
        <5>1. SinkOK(sink[k][r])
          BY DEF SinksInv
        <5>2. QED
          BY <3>2, <5>1 DEF SinkOK, NewSink
      <4>3. QED
        BY <4>1, <4>2
    <3>4. DOMAIN sink' = Jobs /\ \A j \in Jobs : DOMAIN sink'[j] = Roles
      BY <3>1 DEF SinksInv
    <3>5. ASSUME NEW j \in Jobs, NEW r \in Roles PROVE SinkOK(sink'[j][r])
      BY <3>1, <3>3 DEF SinksInv
    <3>6. QED
      BY <1>28, <3>4, <3>5 DEF AuthHeaders, SinksInv, ServiceInv, service
  <2>3. QED
    BY <2>1, <2>2
<1>29. CASE Elapse(k)
  <2>1. \A r \in Roles : SinkOK(Aged(sink[k][r], 1))
    BY AgedOK DEF SinksInv
  <2>2. QED
    BY <1>29, <2>1 DEF Elapse, SinksInv, ServiceInv, service
<1>30. CASE DeliverWebhook(k)
  BY <1>30 DEF DeliverWebhook, Stay, End, service, local, SinksInv, ServiceInv
<1>31. CASE CallRaises(k)
  BY <1>31 DEF CallRaises, Stay, End, service, local, SinksInv, ServiceInv
<1>32. CASE Refuse(k)
  BY <1>32 DEF Refuse, Stay, End, service, local, SinksInv, ServiceInv
<1>33. CASE AssetFails(k)
  <2>1. CASE UNCHANGED <<service, objects, sink>>
    BY <2>1 DEF SinksInv, ServiceInv, service
  <2>2. CASE PostFile(k, Record(k).url, "hex", <<k, at[k]>>)
    <3>1. [name |-> Record(k).url, of |-> <<k, at[k]>>] \in Entry
      BY <1>33, RecordOK DEF AssetFails, AtRecord
    <3>2. QED
      BY <2>2, <3>1, Posts
  <2>3. QED
    BY <1>33, <2>1, <2>2 DEF AssetFails
<1>34. CASE Crash(k)
  BY <1>34, <1>5 DEF Crash, Forget, SinksInv, ServiceInv, service
<1>35. CASE Cancel(k)
  BY <1>35 DEF Cancel, Stay, End, service, local, SinksInv, ServiceInv
<1>36. QED
  BY <1>6, <1>7, <1>8, <1>9, <1>10, <1>11, <1>12, <1>13, <1>14, <1>15, <1>16, <1>17, <1>18,
     <1>19, <1>20, <1>21, <1>22, <1>23, <1>24, <1>25, <1>26, <1>27, <1>28, <1>29, <1>30, <1>31,
     <1>32, <1>33, <1>34, <1>35 DEF Acts, Step, CreateDataset, Finalise

\* So it does the plain values.
LEMMA PlainStep ==
  ASSUME NEW k \in Jobs, Acts(k), PlainInv, SinksInv, Control(k)
  PROVE  PlainInv'
<1>1. \A j \in Jobs : told[j] \in Seq({"completed", "failed"}) /\ sent[j] \in Seq(Nat)
  BY DEF PlainInv
<1>2. ASSUME NEW n \in Nat \ {0}, Loop(k, n)
      PROVE  /\ role' \in [Jobs -> Roles] /\ at' \in [Jobs -> Nat \ {0}]
             /\ pc' \in [Jobs -> Busy \cup {"queued", "ended"}]
  BY <1>2 DEF Loop, Goto, PlainInv, Busy, Calls, Roles
<1>3. CASE Deliver(k)
  <2>1. sent' \in [Jobs -> Seq(Nat)]
    BY <1>3, EmptySeq DEF Deliver, PlainInv
  <2>2. status' \in [Jobs -> Statuses] /\ pc' \in [Jobs -> Busy \cup {"queued", "ended"}]
    BY <1>3 DEF Deliver, Goto, PlainInv, Busy, Calls, Statuses
  <2>3. role' \in [Jobs -> Roles]
    BY <1>3 DEF Deliver, PlainInv, Roles
  <2>4. tries' \in [Jobs -> Nat] /\ at' \in [Jobs -> Nat \ {0}]
    BY <1>3 DEF Deliver, PlainInv
  <2>5. QED
    BY <1>3, <2>1, <2>2, <2>3, <2>4 DEF Deliver, PlainInv
<1>4. CASE Ping(k)
  BY <1>4 DEF Ping, Goto, Stay, service, row, history, PlainInv, Busy, Calls, Statuses, Roles
<1>5. CASE OpenFile(k)
  BY <1>5 DEF OpenFile, SetSink, Goto, Stay, service, row, history, PlainInv, Busy, Calls,
     Statuses, Roles
<1>6. CASE FindDataset(k)
  BY <1>6 DEF FindDataset, Sends, UseDataset, SetSink, Goto, Stay, service, row, history,
     PlainInv, Busy, Calls, Statuses, Roles
<1>7. CASE PostDataset(k)
  BY <1>7 DEF PostDataset, Sends, UseDataset, SetSink, Goto, Stay, row, history, PlainInv, Busy,
     Calls, Statuses, Roles
<1>8. CASE PostOrFindDataset(k)
  BY <1>8 DEF PostOrFindDataset, UseDataset, SetSink, Goto, Stay, row, history, PlainInv, Busy,
     Calls, Statuses, Roles
<1>9. CASE FindProject(k)
  BY <1>9 DEF FindProject, Sends, SetSink, Goto, Stay, service, row, history, PlainInv, Busy,
     Calls, Statuses, Roles
<1>10. CASE PostProject(k)
  BY <1>10 DEF PostProject, SetSink, Goto, Stay, row, history, PlainInv, Busy, Calls, Statuses,
     Roles
<1>11. CASE Open(k)
  BY <1>11 DEF Open, Sends, SetSink, Goto, Stay, row, history, PlainInv, Busy, Calls, Statuses,
     Roles
<1>12. CASE Link(k)
  <2>1. CASE Loop(k, 1)
    BY <1>12, <1>2, <2>1 DEF Link, PlainInv, service, history
  <2>2. CASE role' = [role EXCEPT ![k] = "asset"] /\ Goto(k, "pinging") /\ UNCHANGED at
    BY <1>12, <2>2 DEF Link, PlainInv, Goto, service, history, Busy, Calls, Roles
  <2>3. QED
    BY <1>12, <2>1, <2>2 DEF Link
<1>13. CASE ResolveAsset(k)
  BY <1>13 DEF ResolveAsset, Sends, PostFile, InMemory, SetSink, Goto, service, row, history,
     PlainInv, Busy, Calls, Statuses, Roles
<1>14. CASE SendRecord(k)
  <2>1. Append(sent[k], at[k]) \in Seq(Nat)
    BY <1>1, Appended DEF PlainInv
  <2>2. QED
    BY <1>14, <2>1 DEF SendRecord, Sends, PostFile, InMemory, SetSink, Goto, service, row,
       history, PlainInv, Busy, Calls
<1>15. CASE CheckCancelled(k)
  <2>1. k \in DOMAIN plan
    BY <1>15 DEF CheckCancelled, Control
  <2>2. {Len(plan[k].records) + 1, at[k] + 1} \subseteq Nat \ {0}
    BY <2>1, PlanOK DEF PlainInv
  <2>3. QED
    BY <1>15, <1>2, <2>2 DEF CheckCancelled, PlainInv, service, row, history
<1>16. CASE PutFiles(k)
  BY <1>16 DEF PutFiles, SetSink, Goto, Stay, service, row, history, PlainInv, Busy, Calls,
     Statuses, Roles
<1>17. CASE PutPayload(k)
  <2>1. header[k] \in Nat /\ \A d \in UploadTimes : d \in Nat
    BY <1>17, TimesAssumption DEF PutPayload, PlainInv
  <2>2. PICK d \in UploadTimes : header' = [header EXCEPT ![k] = Less(header[k], d)]
    BY <1>17 DEF PutPayload
  <2>3. Less(header[k], d) \in Nat
    BY <2>1 DEF Less
  <2>4. header' \in [Jobs -> Nat \cup {NULL}]
    BY <2>2, <2>3 DEF PlainInv
  <2>5. QED
    BY <1>17, <2>4 DEF PutPayload, Goto, Stay, row, history, PlainInv, Busy, Calls
<1>18. CASE PostTask(k)
  BY <1>18 DEF PostTask, SetSink, Goto, Stay, row, history, PlainInv, Busy, Calls, Statuses,
     Roles
<1>19. CASE StartTask(k)
  BY <1>19 DEF StartTask, SetSink, Goto, Stay, row, history, PlainInv, Busy, Calls, Statuses,
     Roles
<1>20. CASE Close(k)
  BY <1>20 DEF Close, Goto, service, local, history, PlainInv, Busy, Calls, Statuses, Roles
<1>21. CASE Decide(k)
  BY <1>21 DEF Decide, Goto, Stay, service, row, history, PlainInv, Busy, Calls, Statuses, Roles
<1>22. CASE Complete(k)
  BY <1>22 DEF Complete, End, Goto, service, local, history, PlainInv, Busy, Calls, Statuses,
     Roles
<1>23. CASE Fail(k)
  <2>1. PICK t \in {NULL, "failed"} : End(k, "failed", t)
    BY <1>23 DEF Fail
  <2>2. hook' \in [Jobs -> {NULL, "completed", "failed"}]
    BY <2>1 DEF End, PlainInv
  <2>3. QED
    BY <2>1, <2>2 DEF End, Goto, local, history, PlainInv, Statuses, Busy
<1>24. CASE Return(k)
  BY <1>24 DEF Return, Forget, Goto, Stay, service, row, history, PlainInv, Busy, Calls,
     Statuses, Roles
<1>25. CASE AuthHeaders(k)
  <2>1. header'[k] \in Nat /\ header' = [header EXCEPT ![k] = header'[k]]
    <3>1. Mine(k).token.left \in Nat
      BY MineOK DEF SinkOK, TokenOK
    <3>2. QED
      BY <1>25, <3>1, CachedOK DEF AuthHeaders, PlainInv
  <2>2. QED
    BY <1>25, <2>1 DEF AuthHeaders, Stay, service, row, history, PlainInv
<1>26. CASE Elapse(k)
  BY <1>26 DEF Elapse, Stay, service, row, history, PlainInv, Busy, Calls, Statuses, Roles
<1>27. CASE DeliverWebhook(k)
  <2>1. hook[k] # NULL => Append(told[k], hook[k]) \in Seq({"completed", "failed"})
    BY <1>1, Appended DEF PlainInv
  <2>2. QED
    BY <1>27, <2>1 DEF DeliverWebhook, service, row, local, PlainInv
<1>28. CASE CallRaises(k)
  BY <1>28 DEF CallRaises, Raise, Goto, Stay, service, row, history, PlainInv, Busy
<1>29. CASE Refuse(k)
  <2>1. pc[k] \in Calls
    BY <1>29 DEF Refuse, Control, Calls
  <2>2. QED
    BY <1>29, <2>1 DEF Refuse, Raise, Goto, service, row, PlainInv, Busy
<1>30. CASE AssetFails(k)
  BY <1>30 DEF AssetFails, PostFile, InMemory, SetSink, Goto, service, row, history, PlainInv,
     Busy, Calls, Statuses, Roles
<1>31. CASE Crash(k)
  BY <1>31 DEF Crash, Forget, Goto, service, row, history, PlainInv, Busy, Calls, Statuses,
     Roles
<1>32. CASE Cancel(k)
  BY <1>32 DEF Cancel, service, local, PlainInv, Busy, Calls, Statuses, Roles
<1>33. QED
  BY <1>3, <1>4, <1>5, <1>6, <1>7, <1>8, <1>9, <1>10, <1>11, <1>12, <1>13, <1>14, <1>15, <1>16,
     <1>17, <1>18, <1>19, <1>20, <1>21, <1>22, <1>23, <1>24, <1>25, <1>26, <1>27, <1>28, <1>29,
     <1>30, <1>31, <1>32 DEF Acts, Step, CreateDataset, Finalise

\* Control moves as it should, for the job that takes the step and for the others.
LEMMA ControlStep ==
  ASSUME NEW k \in Jobs, Acts(k), PlainInv, SinksInv, \A j \in Jobs : Control(j)
  PROVE  \A j \in Jobs : Control(j)'
<1>1. ASSUME NEW j \in Jobs, j # k PROVE Control(j)'
  BY <1>1, Others DEF Control
<1>2. k \in DOMAIN plan => Len(plan[k].records) \in Nat
  BY PlanOK DEF PlainInv
<1>3. Control(k)
  OBVIOUS
<1>4. /\ at[k] \in Nat \ {0} /\ tries[k] \in Nat /\ header[k] \in Nat \cup {NULL}
      /\ role[k] \in Roles /\ NULL \notin Nat /\ MaxTries \in Nat
  BY NullAssumption, FaultsAssumption DEF PlainInv
<1>5. ASSUME NEW p, p \notin AtRecord, Goto(k, p), pc[k] # "ended",
             UNCHANGED <<plan, status, role, at, tries, cut>>, header' = [header EXCEPT ![k] = NULL]
      PROVE  Control(k)'
  <2>1. pc'[k] = p /\ header'[k] = NULL /\ header'[k] # 0 /\ k \in DOMAIN plan
    BY <1>3, <1>4, <1>5 DEF Goto, PlainInv, Control
  <2>2. p # "resolving"
    BY <1>5 DEF AtRecord
  <2>3. UNCHANGED <<plan, status, role, at, tries, cut>>
    BY <1>5
  <2>4. QED
    BY <1>3, <1>5, <2>1, <2>2, <2>3 DEF Control
<1>6. ASSUME Deliver(k) PROVE Control(k)'
  BY <1>6, <1>2, <1>3, <1>4 DEF Deliver, Goto, PlainInv, Control, AtRecord, Roles
<1>7. ASSUME Ping(k) PROVE Control(k)'
  BY <1>7, <1>2, <1>3, <1>4 DEF Ping, Goto, Stay, service, row, history, PlainInv, Control,
     AtRecord, Roles
<1>8. ASSUME OpenFile(k) PROVE Control(k)'
  BY <1>8, <1>2, <1>3, <1>4 DEF OpenFile, SetSink, Goto, Stay, service, row, history, PlainInv,
     Control, AtRecord, Roles
<1>9. ASSUME FindDataset(k) PROVE Control(k)'
  <2>1. PICK p \in {"linking", "making"} : Goto(k, p)
    BY <1>9 DEF FindDataset, UseDataset
  <2>2. pc[k] # "ended"
    BY <1>9 DEF FindDataset, Sends, Calls, Busy
  <2>3. QED
    BY <1>9, <1>5, <2>1, <2>2 DEF FindDataset, Stay, row, history, Sends, Forget, AtRecord
<1>10. ASSUME PostDataset(k) PROVE Control(k)'
  BY <1>10, <1>2, <1>3, <1>4 DEF PostDataset, Sends, UseDataset, SetSink, Goto, Stay, row,
     history, PlainInv, Control, AtRecord, Roles
<1>11. ASSUME PostOrFindDataset(k) PROVE Control(k)'
  BY <1>11, <1>2, <1>3, <1>4 DEF PostOrFindDataset, UseDataset, SetSink, Goto, Stay, row,
     history, PlainInv, Control, AtRecord, Roles
<1>12. ASSUME FindProject(k) PROVE Control(k)'
  <2>1. PICK p \in {"opening", "making", "failing early"} : Goto(k, p)
    BY <1>12 DEF FindProject
  <2>2. pc[k] # "ended"
    BY <1>12 DEF FindProject, Sends, Calls, Busy
  <2>3. QED
    BY <1>12, <1>5, <2>1, <2>2 DEF FindProject, Stay, row, history, Sends, Forget, AtRecord
<1>13. ASSUME PostProject(k) PROVE Control(k)'
  BY <1>13, <1>2, <1>3, <1>4 DEF PostProject, SetSink, Goto, Stay, row, history, PlainInv,
     Control, AtRecord, Roles
<1>14. ASSUME Open(k) PROVE Control(k)'
  <2>1. PICK p \in {"linking"} : Goto(k, p)
    BY <1>14 DEF Open
  <2>2. pc[k] # "ended"
    BY <1>14 DEF Open, Sends, Calls, Busy
  <2>3. QED
    BY <1>14, <1>5, <2>1, <2>2 DEF Open, Stay, row, history, Sends, Forget, AtRecord
<1>15. ASSUME Link(k) PROVE Control(k)'
  BY <1>15, <1>2, <1>3, <1>4 DEF Link, Loop, Goto, service, history, PlainInv, Control,
     AtRecord, Roles
<1>16. ASSUME ResolveAsset(k) PROVE Control(k)'
  BY <1>16, <1>2, <1>3, <1>4 DEF ResolveAsset, Sends, PostFile, InMemory, SetSink, Goto,
     service, row, history, PlainInv, Control, AtRecord, Roles
<1>17. ASSUME SendRecord(k) PROVE Control(k)'
  BY <1>17, <1>2, <1>3, <1>4 DEF SendRecord, Sends, PostFile, InMemory, SetSink, Goto, service,
     row, history, PlainInv, Control, AtRecord, Roles
<1>18. ASSUME CheckCancelled(k) PROVE Control(k)'
  BY <1>18, <1>2, <1>3, <1>4 DEF CheckCancelled, Loop, Goto, service, row, history, PlainInv,
     Control, AtRecord, Roles
<1>19. ASSUME PutFiles(k) PROVE Control(k)'
  BY <1>19, <1>2, <1>3, <1>4 DEF PutFiles, SetSink, Goto, Stay, service, row, history, PlainInv,
     Control, AtRecord, Roles
<1>20. ASSUME PutPayload(k) PROVE Control(k)'
  BY <1>20, <1>2, <1>3, <1>4 DEF PutPayload, Goto, Stay, row, history, PlainInv, Control,
     AtRecord, Roles
<1>21. ASSUME PostTask(k) PROVE Control(k)'
  BY <1>21, <1>2, <1>3, <1>4 DEF PostTask, SetSink, Goto, Stay, row, history, PlainInv, Control,
     AtRecord, Roles
<1>22. ASSUME StartTask(k) PROVE Control(k)'
  BY <1>22, <1>2, <1>3, <1>4 DEF StartTask, SetSink, Goto, Stay, row, history, PlainInv,
     Control, AtRecord, Roles
<1>23. ASSUME Close(k) PROVE Control(k)'
  BY <1>23, <1>2, <1>3, <1>4 DEF Close, Goto, service, local, history, PlainInv, Control,
     AtRecord, Roles
<1>24. ASSUME Decide(k) PROVE Control(k)'
  BY <1>24, <1>2, <1>3, <1>4 DEF Decide, Goto, Stay, service, row, history, PlainInv, Control,
     AtRecord, Roles
<1>25. ASSUME Complete(k) PROVE Control(k)'
  BY <1>25, <1>2, <1>3, <1>4 DEF Complete, End, Goto, service, local, history, PlainInv,
     Control, AtRecord, Roles
<1>26. ASSUME Fail(k) PROVE Control(k)'
  BY <1>26, <1>2, <1>3, <1>4 DEF Fail, End, Goto, service, local, history, PlainInv, Control,
     AtRecord, Roles
<1>27. ASSUME Return(k) PROVE Control(k)'
  BY <1>27, <1>2, <1>3, <1>4 DEF Return, Forget, Goto, Stay, service, row, history, PlainInv,
     Control, AtRecord, Roles
<1>28. ASSUME AuthHeaders(k) PROVE Control(k)'
  <2>1. header'[k] # 0
    <3>1. TokenOK(Mine(k).token)
      BY MineOK DEF SinkOK
    <3>2. Mine(k).token.ttl > 0 => Mine(k).token.left # 0
      BY <3>1 DEF TokenOK
    <3>3. QED
      BY <1>28, <3>2, CachedOK DEF AuthHeaders, PlainInv
  <2>2. UNCHANGED <<plan, status, pc, role, at, tries, cut>>
    BY <1>28 DEF AuthHeaders, Stay, row, history
  <2>3. QED
    BY <1>3, <2>1, <2>2 DEF Control
<1>29. ASSUME Elapse(k) PROVE Control(k)'
  BY <1>29, <1>2, <1>3, <1>4 DEF Elapse, Stay, service, row, history, PlainInv, Control,
     AtRecord, Roles
<1>30. ASSUME DeliverWebhook(k) PROVE Control(k)'
  BY <1>30, <1>2, <1>3, <1>4 DEF DeliverWebhook, service, row, local, PlainInv, Control,
     AtRecord, Roles
<1>31. ASSUME CallRaises(k) PROVE Control(k)'
  <2>1. PICK p \in {"failing", "failing early"} : Goto(k, p)
    BY <1>31 DEF CallRaises, Raise
  <2>2. pc[k] # "ended"
    BY <1>31 DEF CallRaises, Sends, Calls, Busy
  <2>3. QED
    BY <1>31, <1>5, <2>1, <2>2 DEF CallRaises, Stay, row, history, Sends, Forget, AtRecord
<1>32. ASSUME Refuse(k) PROVE Control(k)'
  BY <1>32, <1>2, <1>3, <1>4 DEF Refuse, Raise, Goto, service, row, PlainInv, Control, AtRecord,
     Roles
<1>33. ASSUME AssetFails(k) PROVE Control(k)'
  BY <1>33, <1>2, <1>3, <1>4 DEF AssetFails, PostFile, InMemory, SetSink, Goto, service, row,
     history, PlainInv, Control, AtRecord, Roles
<1>34. ASSUME Crash(k) PROVE Control(k)'
  <2>1. PICK p \in {"queued", "ended"} : Goto(k, p)
    BY <1>34 DEF Crash
  <2>2. pc[k] # "ended"
    BY <1>34 DEF Crash, Sends, Calls, Busy
  <2>3. QED
    BY <1>34, <1>5, <2>1, <2>2 DEF Crash, Stay, row, history, Sends, Forget, AtRecord
<1>35. ASSUME Cancel(k) PROVE Control(k)'
  BY <1>35, <1>2, <1>3, <1>4 DEF Cancel, service, local, PlainInv, Control, AtRecord, Roles
<1>36. Control(k)'
  BY <1>6, <1>7, <1>8, <1>9, <1>10, <1>11, <1>12, <1>13, <1>14, <1>15, <1>16, <1>17, <1>18,
     <1>19, <1>20, <1>21, <1>22, <1>23, <1>24, <1>25, <1>26, <1>27, <1>28, <1>29, <1>30, <1>31,
     <1>32, <1>33, <1>34, <1>35 DEF Acts, Step, CreateDataset, Finalise
<1>37. QED
  BY <1>1, <1>36

\* No request carries a token that has expired, but the start of a task.
LEMMA RefusedStep ==
  ASSUME NEW k \in Jobs, Acts(k), PlainInv, Control(k),
         \A j \in Jobs : refused[j] \subseteq {"starting"}
  PROVE  \A j \in Jobs : refused'[j] \subseteq {"starting"}
<1>1. CASE UNCHANGED refused
  BY <1>1
<1>2. CASE Refuse(k)
  BY <1>2 DEF Refuse, Control, PlainInv
<1>3. QED
  BY <1>1, <1>2 DEF Acts, Step, CreateDataset, Finalise, Deliver, Ping, OpenFile, FindDataset,
     PostDataset, PostOrFindDataset, FindProject, PostProject, Open, Link, ResolveAsset,
     SendRecord, CheckCancelled, PutFiles, PutPayload, PostTask, StartTask, Close, Decide,
     Complete, Fail, Return, AuthHeaders, Elapse, DeliverWebhook, CallRaises, AssetFails, Crash,
     Cancel, End, Stay, history

\* The receiver of the webhook is told what the row says.
LEMMA NotifiedStep ==
  ASSUME NEW k \in Jobs, Acts(k), PlainInv, SinksInv, Control(k), \A j \in Jobs : Notified(j)
  PROVE  \A j \in Jobs : Notified(j)'
<1>1. ASSUME NEW j \in Jobs, j # k PROVE Notified(j)'
  <2>1. /\ told'[j] = told[j] /\ tries'[j] = tries[j] /\ hook'[j] = hook[j] /\ pc'[j] = pc[j]
        /\ status'[j] = status[j] /\ plan' = plan
    BY <1>1, Others
  <2>2. Notified(j)
    OBVIOUS
  <2>3. QED
    BY <2>1, <2>2 DEF Notified
<1>2. /\ told[k] \in Seq({"completed", "failed"}) /\ Len(told[k]) \in Nat /\ tries[k] \in Nat
      /\ Len(told[k]) < 1 => told[k] = <<>>
      /\ hook[k] \in {NULL, "completed", "failed"}
      /\ {"completed", "failed"} \cap {NULL, "pending", "running"} = {}
  <2>1. /\ told[k] \in Seq({"completed", "failed"}) /\ tries[k] \in Nat
        /\ hook[k] \in {NULL, "completed", "failed"}
    BY DEF PlainInv
  <2>2. QED
    BY <2>1, LenProperties, EmptySeq, NullAssumption
<1>3. Notified(k)
  OBVIOUS
<1>4. ASSUME UNCHANGED <<plan, tries, status, hook, told>>,
             pc'[k] = pc[k] \/ (pc[k] \in Calls /\ pc'[k] # "queued") \/ pc'[k] = "ended"
      PROVE  Notified(k)'
  BY <1>3, <1>4 DEF Notified, Calls
<1>5. ASSUME Deliver(k) PROVE Notified(k)'
  <2>1. /\ pc[k] = "queued" /\ tries'[k] = tries[k] + 1 /\ UNCHANGED <<plan, hook, told>>
        /\ pc'[k] # "queued"
    BY <1>5 DEF Deliver, Goto, PlainInv
  <2>2. Len(told[k]) <= tries[k] /\ hook[k] = NULL
    BY <1>3, <2>1 DEF Notified
  <2>3. Len(told[k]) < tries[k] + 1 /\ Len(told[k]) <= tries[k] + 1
    BY <1>2, <2>2
  <2>4. tries[k] + 1 = 1 => told[k] = <<>>
    BY <1>2, <2>2
  <2>5. QED
    BY <2>1, <2>2, <2>3, <2>4 DEF Notified
<1>6. ASSUME Ping(k) PROVE Notified(k)'
  BY <1>6, <1>4 DEF Ping, Goto, Stay, service, row, history, PlainInv, Calls
<1>7. ASSUME OpenFile(k) PROVE Notified(k)'
  BY <1>7, <1>4 DEF OpenFile, SetSink, Goto, Stay, service, row, history, PlainInv, Calls
<1>8. ASSUME FindDataset(k) PROVE Notified(k)'
  BY <1>8, <1>4 DEF FindDataset, Sends, UseDataset, SetSink, Goto, Stay, service, row, history,
     PlainInv, Calls
<1>9. ASSUME PostDataset(k) PROVE Notified(k)'
  BY <1>9, <1>4 DEF PostDataset, Sends, UseDataset, SetSink, Goto, Stay, row, history, PlainInv,
     Calls
<1>10. ASSUME PostOrFindDataset(k) PROVE Notified(k)'
  BY <1>10, <1>4 DEF PostOrFindDataset, UseDataset, SetSink, Goto, Stay, row, history, PlainInv,
     Calls
<1>11. ASSUME FindProject(k) PROVE Notified(k)'
  BY <1>11, <1>4 DEF FindProject, Sends, SetSink, Goto, Stay, service, row, history, PlainInv,
     Calls
<1>12. ASSUME PostProject(k) PROVE Notified(k)'
  BY <1>12, <1>4 DEF PostProject, SetSink, Goto, Stay, row, history, PlainInv, Calls
<1>13. ASSUME Open(k) PROVE Notified(k)'
  BY <1>13, <1>4 DEF Open, Sends, SetSink, Goto, Stay, row, history, PlainInv, Calls
<1>14. ASSUME Link(k) PROVE Notified(k)'
  BY <1>14, <1>4 DEF Link, Loop, Goto, service, history, PlainInv, Calls
<1>15. ASSUME ResolveAsset(k) PROVE Notified(k)'
  BY <1>15, <1>4 DEF ResolveAsset, Sends, PostFile, InMemory, SetSink, Goto, service, row,
     history, PlainInv, Calls
<1>16. ASSUME SendRecord(k) PROVE Notified(k)'
  BY <1>16, <1>4 DEF SendRecord, Sends, PostFile, InMemory, SetSink, Goto, service, row,
     history, PlainInv, Calls
<1>17. ASSUME CheckCancelled(k) PROVE Notified(k)'
  BY <1>17, <1>4 DEF CheckCancelled, Loop, Goto, service, row, history, PlainInv, Calls
<1>18. ASSUME PutFiles(k) PROVE Notified(k)'
  BY <1>18, <1>4 DEF PutFiles, SetSink, Goto, Stay, service, row, history, PlainInv, Calls
<1>19. ASSUME PutPayload(k) PROVE Notified(k)'
  BY <1>19, <1>4 DEF PutPayload, Goto, Stay, row, history, PlainInv, Calls
<1>20. ASSUME PostTask(k) PROVE Notified(k)'
  BY <1>20, <1>4 DEF PostTask, SetSink, Goto, Stay, row, history, PlainInv, Calls
<1>21. ASSUME StartTask(k) PROVE Notified(k)'
  BY <1>21, <1>4 DEF StartTask, SetSink, Goto, Stay, row, history, PlainInv, Calls
<1>22. ASSUME Close(k) PROVE Notified(k)'
  BY <1>22, <1>4 DEF Close, Goto, service, local, history, PlainInv, Calls
<1>23. ASSUME Decide(k) PROVE Notified(k)'
  BY <1>23, <1>4 DEF Decide, Goto, Stay, service, row, history, PlainInv, Calls
<1>24. ASSUME Complete(k) PROVE Notified(k)'
  <2>1. hook[k] = NULL /\ Len(told[k]) < tries[k]
    BY <1>24, <1>3 DEF Complete, Notified, Calls
  <2>2. /\ status'[k] = "completed" /\ pc'[k] = "returned" /\ UNCHANGED <<plan, tries, told>>
        /\ hook'[k] = IF plan[k].hook THEN "completed" ELSE NULL
    BY <1>24, <2>1 DEF Complete, End, Goto, local, history, PlainInv
  <2>3. tries[k] = 1 => told[k] = <<>>
    BY <1>2, <2>1
  <2>4. QED
    BY <1>2, <2>1, <2>2, <2>3 DEF Notified, Calls
<1>25. ASSUME Fail(k) PROVE Notified(k)'
  <2>1. PICK t \in {NULL, "failed"} : End(k, "failed", t)
    BY <1>25 DEF Fail
  <2>2. hook[k] = NULL /\ Len(told[k]) < tries[k]
    BY <1>25, <1>3 DEF Fail, Notified
  <2>3. /\ status'[k] = "failed" /\ pc'[k] = "returned" /\ UNCHANGED <<plan, tries, told>>
        /\ hook'[k] = IF plan[k].hook THEN t ELSE NULL
    BY <2>1, <2>2 DEF End, Goto, local, history, PlainInv
  <2>4. tries[k] = 1 => told[k] = <<>>
    BY <1>2, <2>2
  <2>5. QED
    BY <1>2, <2>2, <2>3, <2>4 DEF Notified, Calls
<1>26. ASSUME Return(k) PROVE Notified(k)'
  BY <1>26, <1>4 DEF Return, Forget, Goto, Stay, service, row, history, PlainInv, Calls
<1>27. ASSUME AuthHeaders(k) PROVE Notified(k)'
  BY <1>27, <1>4 DEF AuthHeaders, Stay, service, row, history, PlainInv, Calls
<1>28. ASSUME Elapse(k) PROVE Notified(k)'
  BY <1>28, <1>4 DEF Elapse, Stay, service, row, history, PlainInv, Calls
<1>29. ASSUME DeliverWebhook(k) PROVE Notified(k)'
  <2>1. /\ hook[k] # NULL /\ hook'[k] = NULL /\ UNCHANGED <<plan, pc, tries, status>>
        /\ told'[k] = told[k] \/ told'[k] = Append(told[k], hook[k])
    BY <1>29 DEF DeliverWebhook, row, PlainInv
  <2>2. Len(Append(told[k], hook[k])) = Len(told[k]) + 1 /\ Len(told[k]) < tries[k]
    <3>1. hook[k] \in {"completed", "failed"}
      BY <1>2, <2>1
    <3>2. Len(Append(told[k], hook[k])) = Len(told[k]) + 1
      BY <1>2, <3>1, Appended
    <3>3. QED
      BY <1>3, <2>1, <3>2 DEF Notified
  <2>3. ASSUME tries[k] = 1 PROVE /\ told[k] = <<>> /\ plan[k].hook
                                 /\ Append(told[k], hook[k]) = <<status[k]>>
    <3>1. told[k] = <<>>
      BY <1>2, <2>2, <2>3
    <3>2. hook[k] = status[k] /\ plan[k].hook
      BY <1>3, <2>1, <2>3 DEF Notified
    <3>3. QED
      BY <3>1, <3>2
  <2>4. /\ Len(told'[k]) <= tries[k]
        /\ pc[k] \notin Calls \cup {"failing", "failing early"}
    <3>1. Len(told[k]) <= tries[k] /\ Len(told[k]) + 1 <= tries[k]
      BY <1>2, <2>2
    <3>2. QED
      BY <1>3, <2>1, <2>2, <3>1 DEF Notified
  <2>5. QED
    BY <2>1, <2>3, <2>4 DEF Notified
<1>30. ASSUME CallRaises(k) PROVE Notified(k)'
  BY <1>30, <1>4 DEF CallRaises, Raise, Goto, Stay, service, row, history, PlainInv, Calls
<1>31. ASSUME Refuse(k) PROVE Notified(k)'
  BY <1>31, <1>4 DEF Refuse, Raise, Goto, service, row, PlainInv, Control, Calls
<1>32. ASSUME AssetFails(k) PROVE Notified(k)'
  BY <1>32, <1>4 DEF AssetFails, PostFile, InMemory, SetSink, Goto, service, row, history,
     PlainInv, Calls
<1>33. ASSUME Crash(k) PROVE Notified(k)'
  <2>1. hook'[k] = NULL /\ UNCHANGED <<plan, tries, status, told>> /\ pc'[k] \in {"queued", "ended"}
    BY <1>33 DEF Crash, Goto, row, history, PlainInv
  <2>2. QED
    BY <1>3, <2>1 DEF Notified, Calls
<1>34. ASSUME Cancel(k) PROVE Notified(k)'
  <2>1. UNCHANGED <<plan, pc, tries, hook, told>> /\ status[k] \in {"pending", "running"}
    BY <1>34 DEF Cancel
  <2>2. told[k] # <<status[k]>>
    <3>1. SUFFICES ASSUME told[k] = <<status[k]>> PROVE FALSE
      OBVIOUS
    <3>2. status[k] \in {"completed", "failed"}
      BY <1>2, <3>1, ElementOfSeq
    <3>3. QED
      BY <2>1, <3>2
  <2>3. tries[k] = 1 => told[k] = <<>>
    BY <1>3, <2>2 DEF Notified
  <2>4. tries[k] = 1 => hook[k] = NULL
    BY <1>2, <1>3, <2>1 DEF Notified
  <2>5. QED
    BY <1>3, <2>1, <2>3, <2>4 DEF Notified
<1>35. Notified(k)'
  BY <1>5, <1>6, <1>7, <1>8, <1>9, <1>10, <1>11, <1>12, <1>13, <1>14, <1>15, <1>16, <1>17,
     <1>18, <1>19, <1>20, <1>21, <1>22, <1>23, <1>24, <1>25, <1>26, <1>27, <1>28, <1>29, <1>30,
     <1>31, <1>32, <1>33, <1>34 DEF Acts, Step, CreateDataset, Finalise
<1>36. QED
  BY <1>1, <1>35

\* A list that gets one entry more.
LEMMA AppendOf ==
  ASSUME NEW s \in Seq(Entry), NEW e \in Entry
  PROVE  Of(s) \subseteq Of(Append(s, e)) /\ e.of \in Of(Append(s, e))
<1> DEFINE t == Append(s, e)
<1>1. /\ DOMAIN s = 1..Len(s) /\ DOMAIN t = 1..(Len(s) + 1) /\ Len(s) \in Nat
      /\ \A i \in 1..Len(s) : t[i] = s[i]
      /\ t[Len(s) + 1] = e
  BY Appended
<1> HIDE DEF t
<1>2. \A i \in DOMAIN s : i \in DOMAIN t /\ t[i] = s[i]
  BY <1>1
<1>3. Len(s) + 1 \in DOMAIN t
  BY <1>1
<1>4. ToSet(s) \subseteq ToSet(t) /\ e \in ToSet(t)
  BY <1>1, <1>2, <1>3 DEF ToSet
<1>5. Of(s) \subseteq Of(t) /\ e.of \in Of(t)
  BY <1>4 DEF Of
<1>6. QED
  BY <1>5 DEF t

\* A file that is posted to a dataset.
LEMMA PostGrows ==
  ASSUME NEW k \in Jobs, ServiceInv, NEW name, NEW data, NEW of,
         [name |-> name, of |-> of] \in Entry, PostFile(k, name, data, of)
  PROVE  /\ projects' = projects /\ tasks' = tasks /\ Len(datasets') = Len(datasets)
         /\ \A d \in 1..Len(datasets) : Of(datasets[d].files) \subseteq Of(datasets'[d].files)
         /\ Type(k) = "annotator-mock" => of \in Of(datasets'[Mine(k).dataset].files)
<1> DEFINE e == [name |-> name, of |-> of]
<1>1. CASE UNCHANGED service /\ Type(k) # "annotator-mock"
  BY <1>1 DEF service
<1>2. CASE /\ Mine(k).dataset \in DOMAIN datasets
           /\ datasets' = [datasets EXCEPT ![Mine(k).dataset].files = Append(@, e)]
           /\ UNCHANGED <<projects, tasks, sink, objects>>
  <2> DEFINE m == Mine(k).dataset
  <2>1. m \in 1..Len(datasets) /\ Len(datasets) \in Nat /\ DOMAIN datasets = 1..Len(datasets)
    BY <1>2, LenProperties DEF ServiceInv
  <2>2. \A d \in 1..Len(datasets) : datasets[d] \in Dataset
    BY ElementOfSeq DEF ServiceInv
  <2>3. DOMAIN datasets' = 1..Len(datasets) /\ \A d \in 1..Len(datasets) : d # m => datasets'[d] = datasets[d]
    BY <1>2, <2>1
  <2>4. [datasets[m] EXCEPT !.files = Append(datasets[m].files, e)] \in Dataset
    <3>1. Append(datasets[m].files, e) \in Seq(Entry)
      BY <2>1, <2>2, Appended DEF Dataset
    <3>2. QED
      BY <2>1, <2>2, <3>1 DEF Dataset
  <2>5. datasets'[m].files = Append(datasets[m].files, e)
    BY <1>2, <2>1, <2>2 DEF Dataset
  <2>6. Len(datasets') = Len(datasets)
    BY <1>2, <2>1, <2>4, ExceptSeq DEF ServiceInv
  <2>7. Of(datasets[m].files) \subseteq Of(datasets'[m].files) /\ e.of \in Of(datasets'[m].files)
    BY <2>1, <2>2, <2>5, AppendOf DEF Dataset
  <2>8. QED
    BY <1>2, <2>3, <2>6, <2>7
<1>3. QED
  BY <1>1, <1>2 DEF PostFile, service, Zips, DatasetTypes

\* A task that is changed.
LEMMA TaskChanged ==
  ASSUME NEW k \in Jobs, PlainInv, SinksInv, ServiceInv, OwnInv(k),
         NEW t, tasks' = [tasks EXCEPT ![Mine(k).task] = t],
         Mine(k).task # 0 =>
           LET old == tasks[Mine(k).task] IN
             /\ t \in Task /\ t.job = old.job /\ t.role = old.role
             /\ t.project = old.project /\ t.dataset = old.dataset
  PROVE  /\ Len(tasks') = Len(tasks)
         /\ \A n \in 1..Len(tasks) :
              /\ tasks'[n].job = tasks[n].job /\ tasks'[n].role = tasks[n].role
              /\ tasks'[n].project = tasks[n].project /\ tasks'[n].dataset = tasks[n].dataset
              /\ n # Mine(k).task => tasks'[n] = tasks[n]
              /\ tasks[n].job # k => tasks'[n] = tasks[n]
<1>1. Mine(k).task \in 0..Len(tasks) /\ Len(tasks) \in Nat /\ DOMAIN tasks = 1..Len(tasks)
  BY LenProperties DEF OwnInv, Owns, Mine, PlainInv, ServiceInv
<1>2. CASE Mine(k).task = 0
  <2>1. tasks' = tasks
    BY <1>1, <1>2 DEF ServiceInv
  <2>2. QED
    BY <2>1
<1>3. CASE Mine(k).task # 0
  <2>1. Mine(k).task \in 1..Len(tasks) /\ tasks[Mine(k).task].job = k
    BY <1>1, <1>3 DEF OwnInv, Owns, Mine, PlainInv
  <2>2. QED
    BY <1>3, <2>1, ExceptSeq DEF ServiceInv
<1>4. QED
  BY <1>2, <1>3

\* The service grows.
LEMMA Grows ==
  ASSUME NEW k \in Jobs, Acts(k), PlainInv, SinksInv, ServiceInv, Control(k), OwnInv(k)
  PROVE  Grown(k)
<1>1. ASSUME tasks' = tasks, projects' = projects, Len(datasets) <= Len(datasets'),
             \A d \in 1..Len(datasets) : Of(datasets[d].files) \subseteq Of(datasets'[d].files)
      PROVE  Grown(k)
  BY <1>1, LenProperties DEF Grown, ServiceInv
<1>2. /\ Len(datasets) \in Nat /\ Len(projects) \in Nat /\ Len(tasks) \in Nat
  BY LenProperties DEF ServiceInv
<1>3. ASSUME NEW n \in Names, PostedDataset(n)
      PROVE  /\ Len(datasets) <= Len(datasets')
             /\ \A d \in 1..Len(datasets) : Of(datasets[d].files) \subseteq Of(datasets'[d].files)
  <2>1. [name |-> n, files |-> <<>>] \in Dataset
    BY EmptySeq DEF Dataset
  <2>2. QED
    BY <1>3, <2>1, Appended DEF PostedDataset, ServiceInv
<1>4. ASSUME NEW t \in Task, tasks' = Append(tasks, t), datasets' = datasets, projects' = projects
      PROVE  Grown(k)
  BY <1>2, <1>4, Appended DEF Grown, ServiceInv
<1>5. k \in DOMAIN plan => Dest(k) \in Names
  BY PlanOK, NamesAssumption DEF PlainInv, Dest, DestOf, Names
<1>6. SinkOK(Mine(k)) /\ role[k] \in Roles
  BY MineOK
<1>7. CASE UNCHANGED service
  BY <1>1, <1>2, <1>7 DEF service
<1>8. CASE PostDataset(k)
  <2>1. Dest(k) \in Names
    BY <1>8, <1>5 DEF PostDataset, Sends, Control
  <2>2. QED
    BY <1>8, <1>1, <1>3, <2>1 DEF PostDataset
<1>9. CASE PostOrFindDataset(k)
  <2>1. Dest(k) \in Names
    BY <1>9, <1>5 DEF PostOrFindDataset, Control
  <2>2. CASE UNCHANGED datasets
    BY <1>9, <1>1, <1>2, <2>2 DEF PostOrFindDataset
  <2>3. CASE PostedDataset(Dest(k))
    BY <1>9, <1>1, <1>3, <2>1, <2>3 DEF PostOrFindDataset
  <2>4. QED
    BY <1>9, <2>2, <2>3 DEF PostOrFindDataset
<1>10. CASE PostProject(k)
  <2>1. Dest(k) \in Names
    BY <1>10, <1>5 DEF PostProject, Control
  <2>2. Len(projects') = Len(projects) + 1
    BY <1>10, <2>1, Appended DEF PostProject, ServiceInv
  <2>3. QED
    BY <1>10, <1>2, <2>2 DEF PostProject, Grown
<1>11. CASE Open(k)
  <2>1. CASE Type(k) = "tagme-annotator"
    <3> DEFINE t == [project |-> Mine(k).project, dataset |-> 0, payload |-> <<>>,
                     started |-> FALSE, job |-> k, role |-> role[k]]
    <3>1. t \in Task
      BY <1>6, EmptySeq DEF Task, SinkOK
    <3>2. tasks' = Append(tasks, t) /\ datasets' = datasets /\ projects' = projects
      BY <1>11, <2>1 DEF Open
    <3> HIDE DEF t
    <3>3. QED
      BY <1>4, <3>1, <3>2
  <2>2. CASE Type(k) # "tagme-annotator"
    <3>1. PICK n \in Names : PostedDataset(n)
      BY <1>11, <2>2 DEF Open, Names
    <3>2. tasks' = tasks /\ projects' = projects
      BY <1>11, <2>2 DEF Open
    <3>3. QED
      BY <1>1, <1>3, <3>1, <3>2
  <2>3. QED
    BY <2>1, <2>2
<1>12. CASE ResolveAsset(k)
  <2>1. [name |-> Record(k).url, of |-> <<k, at[k]>>] \in Entry
    BY <1>12, RecordOK DEF ResolveAsset, Sends, AtRecord
  <2>2. PostFile(k, Record(k).url, "hex", <<k, at[k]>>)
    BY <1>12 DEF ResolveAsset
  <2>3. QED
    BY <1>1, <1>2, <2>1, <2>2, PostGrows
<1>13. CASE SendRecord(k)
  <2>1. PICK name, data : /\ PostFile(k, name, data, <<k, at[k]>>)
                          /\ [name |-> name, of |-> <<k, at[k]>>] \in Entry
    BY <1>13, RecordOK DEF SendRecord, Sends, AtRecord
  <2>2. /\ projects' = projects /\ tasks' = tasks /\ Len(datasets') = Len(datasets)
        /\ \A d \in 1..Len(datasets) : Of(datasets[d].files) \subseteq Of(datasets'[d].files)
    BY <2>1, PostGrows
  <2>3. QED
    BY <1>1, <1>2, <2>2
<1>14. CASE AssetFails(k)
  <2>1. CASE UNCHANGED service
    BY <1>1, <1>2, <2>1 DEF service
  <2>2. CASE PostFile(k, Record(k).url, "hex", <<k, at[k]>>)
    <3>1. [name |-> Record(k).url, of |-> <<k, at[k]>>] \in Entry
      BY <1>14, RecordOK DEF AssetFails, AtRecord
    <3>2. /\ projects' = projects /\ tasks' = tasks /\ Len(datasets') = Len(datasets)
          /\ \A d \in 1..Len(datasets) : Of(datasets[d].files) \subseteq Of(datasets'[d].files)
      BY <2>2, <3>1, PostGrows
    <3>3. QED
      BY <1>1, <1>2, <3>2
  <2>3. QED
    BY <1>14, <2>1, <2>2 DEF AssetFails
<1>15. CASE PutPayload(k)
  <2> DEFINE t == [tasks[Mine(k).task] EXCEPT !.payload = Mine(k).buf]
  <2>1. tasks' = [tasks EXCEPT ![Mine(k).task] = t] /\ datasets' = datasets /\ projects' = projects
    BY <1>15 DEF PutPayload
  <2>2. ASSUME Mine(k).task # 0
        PROVE  /\ t \in Task /\ t.job = tasks[Mine(k).task].job /\ t.role = tasks[Mine(k).task].role
               /\ t.project = tasks[Mine(k).task].project /\ t.dataset = tasks[Mine(k).task].dataset
    <3>1. tasks[Mine(k).task] \in Task /\ Mine(k).buf \in Seq(Entry)
      BY <1>2, <1>6, <2>2, ElementOfSeq DEF ServiceInv, SinkOK, OwnInv, Owns, Mine
    <3>2. QED
      BY <3>1 DEF Task
  <2> HIDE DEF t
  <2>3. /\ Len(tasks') = Len(tasks)
        /\ \A n \in 1..Len(tasks) :
             /\ tasks'[n].job = tasks[n].job /\ tasks'[n].role = tasks[n].role
             /\ tasks'[n].project = tasks[n].project /\ tasks'[n].dataset = tasks[n].dataset
             /\ tasks[n].job # k => tasks'[n] = tasks[n]
    BY <2>1, <2>2, TaskChanged
  <2>4. QED
    BY <1>2, <2>1, <2>3 DEF Grown
<1>16. CASE PostTask(k)
  <2> DEFINE t == [project |-> Mine(k).project, dataset |-> Mine(k).dataset, payload |-> <<>>,
                   started |-> FALSE, job |-> k, role |-> role[k]]
  <2>1. t \in Task
    BY <1>6, EmptySeq DEF Task, SinkOK
  <2>2. tasks' = Append(tasks, t) /\ datasets' = datasets /\ projects' = projects
    BY <1>16 DEF PostTask
  <2> HIDE DEF t
  <2>3. QED
    BY <1>4, <2>1, <2>2
<1>17. CASE StartTask(k)
  <2> DEFINE t == [tasks[Mine(k).task] EXCEPT !.started = TRUE]
  <2>1. tasks' = [tasks EXCEPT ![Mine(k).task] = t] /\ datasets' = datasets /\ projects' = projects
    BY <1>17 DEF StartTask
  <2>2. ASSUME Mine(k).task # 0
        PROVE  /\ t \in Task /\ t.job = tasks[Mine(k).task].job /\ t.role = tasks[Mine(k).task].role
               /\ t.project = tasks[Mine(k).task].project /\ t.dataset = tasks[Mine(k).task].dataset
    <3>1. tasks[Mine(k).task] \in Task
      BY <1>2, <1>6, <2>2, ElementOfSeq DEF ServiceInv, OwnInv, Owns, Mine
    <3>2. QED
      BY <3>1 DEF Task
  <2> HIDE DEF t
  <2>3. /\ Len(tasks') = Len(tasks)
        /\ \A n \in 1..Len(tasks) :
             /\ tasks'[n].job = tasks[n].job /\ tasks'[n].role = tasks[n].role
             /\ tasks'[n].project = tasks[n].project /\ tasks'[n].dataset = tasks[n].dataset
             /\ tasks[n].job # k => tasks'[n] = tasks[n]
    BY <2>1, <2>2, TaskChanged
  <2>4. QED
    BY <1>2, <2>1, <2>3 DEF Grown
<1>18. QED
  BY <1>7, <1>8, <1>9, <1>10, <1>11, <1>12, <1>13, <1>14, <1>15, <1>16, <1>17 DEF Acts, Step,
     CreateDataset, Finalise, Deliver, Ping, OpenFile, FindDataset, FindProject, Link,
     CheckCancelled, PutFiles, Close, Decide, Complete, Fail, Return, AuthHeaders, Elapse,
     DeliverWebhook, CallRaises, Refuse, Crash, Cancel, Stay, End

\* SetSink replaces the sink at work.
LEMMA SetSinkMeans ==
  ASSUME NEW k \in Jobs, PlainInv, SinksInv, NEW s, SetSink(k, s)
  PROVE  \A r \in Roles : sink'[k][r] = IF r = role[k] THEN s ELSE sink[k][r]
  BY DEF SetSink, SinksInv, PlainInv

\* The steps that change neither the places a sink knows nor what it has gathered.
LEMMA Steadies ==
  ASSUME NEW k \in Jobs, PlainInv, SinksInv,
         \/ Deliver(k) \/ Ping(k) \/ OpenFile(k) \/ Link(k) \/ CheckCancelled(k) \/ PutFiles(k)
         \/ PutPayload(k) \/ StartTask(k) \/ Close(k) \/ Decide(k) \/ Complete(k) \/ Fail(k)
         \/ AuthHeaders(k) \/ Elapse(k) \/ DeliverWebhook(k) \/ CallRaises(k) \/ Refuse(k) \/ Cancel(k)
  PROVE  Steady(k)
<1>1. SinkOK(Mine(k)) /\ \A r \in Roles : SinkOK(sink[k][r])
  BY MineOK DEF SinksInv
<1>2. CASE UNCHANGED sink
  BY <1>2 DEF Steady, Same
<1>3. ASSUME NEW m, SetSink(k, [Mine(k) EXCEPT !.mem = m]) PROVE Steady(k)
  <2>1. Same([Mine(k) EXCEPT !.mem = m], Mine(k))
    BY <1>1 DEF SinkOK, NewSink, Same
  <2>2. PICK s : SetSink(k, s) /\ Same(s, Mine(k))
    BY <1>3, <2>1
  <2>3. QED
    BY <2>2, SetSinkMeans, MineOK DEF Steady, Same
<1>4. ASSUME NEW d, \A r \in Roles : sink'[k][r] = Aged(sink[k][r], d) PROVE Steady(k)
  <2>1. \A r \in Roles : Same(Aged(sink[k][r], d), sink[k][r])
    BY <1>1 DEF SinkOK, NewSink, Same, Aged
  <2>2. QED
    BY <1>4, <2>1 DEF Steady
<1>5. CASE OpenFile(k)
  BY <1>2, <1>3, <1>5 DEF OpenFile
<1>6. CASE PutFiles(k)
  <2>1. \A p : Unput(k, p) = [Mine(k) EXCEPT !.mem = Restrict(Mine(k).mem, DOMAIN Mine(k).mem \ {p})]
    BY <1>1 DEF Unput, SinkOK, NewSink
  <2>2. QED
    BY <1>2, <1>3, <1>6, <2>1 DEF PutFiles
<1>7. CASE PutPayload(k)
  <2>1. PICK d : sink' = [sink EXCEPT ![k] = [r \in Roles |-> Aged(@[r], d)]]
    BY <1>7 DEF PutPayload
  <2>2. QED
    BY <1>4, <2>1 DEF SinksInv
<1>8. CASE Elapse(k)
  <2>1. sink' = [sink EXCEPT ![k] = [r \in Roles |-> Aged(@[r], 1)]]
    BY <1>8 DEF Elapse
  <2>2. QED
    BY <1>4, <2>1 DEF SinksInv
<1>9. CASE StartTask(k)
  <2>1. Same([Mine(k) EXCEPT !.ext = Mine(k).task], Mine(k))
    BY <1>1 DEF SinkOK, NewSink, Same
  <2>2. SetSink(k, [Mine(k) EXCEPT !.ext = Mine(k).task])
    BY <1>9 DEF StartTask
  <2>3. \A r \in Roles :
          sink'[k][r] = IF r = role[k] THEN [Mine(k) EXCEPT !.ext = Mine(k).task] ELSE sink[k][r]
    BY <2>2, SetSinkMeans
  <2>4. ASSUME NEW r \in Roles PROVE Same(sink'[k][r], sink[k][r])
    BY <2>1, <2>3, MineOK DEF Same
  <2>5. QED
    BY <2>4 DEF Steady
<1>10. CASE AuthHeaders(k) /\ sink' # sink
  <2>1. PICK l, d :
          sink' = [sink EXCEPT ![k] = [r \in Roles |->
            IF r = role[k] THEN [@[r] EXCEPT !.token = Kept(Cached(l, d))] ELSE Aged(@[r], d)]]
    BY <1>10 DEF AuthHeaders
  <2>2. \A r \in Roles : /\ Same(Aged(sink[k][r], d), sink[k][r])
                        /\ Same([sink[k][r] EXCEPT !.token = Kept(Cached(l, d))], sink[k][r])
    BY <1>1 DEF SinkOK, NewSink, Same, Aged
  <2>3. \A r \in Roles : sink'[k][r] = IF r = role[k] THEN [sink[k][r] EXCEPT !.token = Kept(Cached(l, d))]
                                      ELSE Aged(sink[k][r], d)
    BY <2>1 DEF SinksInv
  <2>4. QED
    BY <2>2, <2>3 DEF Steady
<1>11. QED
  BY <1>2, <1>5, <1>6, <1>7, <1>8, <1>9, <1>10
     DEF Deliver, Ping, Link, CheckCancelled, Close, Decide, Complete, Fail, End, DeliverWebhook,
         CallRaises, Refuse, Cancel, local

\* What post_file does to the sinks.
LEMMA PostMoves ==
  ASSUME NEW k \in Jobs, PlainInv, SinksInv, NEW name, NEW data, NEW of, PostFile(k, name, data, of)
  PROVE  \A r \in Roles :
           /\ sink'[k][r].project = sink[k][r].project /\ sink'[k][r].task = sink[k][r].task
           /\ sink'[k][r].dataset = sink[k][r].dataset
           /\ sink'[k][r].buf = IF r = role[k] /\ Type(k) = "tagme-annotator"
                                THEN Append(sink[k][r].buf, [name |-> name, of |-> of])
                                ELSE sink[k][r].buf
<1> DEFINE e == [name |-> name, of |-> of]
<1>1. SinkOK(Mine(k)) /\ role[k] \in Roles /\ Mine(k) = sink[k][role[k]]
  BY MineOK
<1>2. CASE UNCHANGED sink /\ Type(k) # "tagme-annotator"
  BY <1>2
<1>3. ASSUME NEW path, NEW content, InMemory(k, path, content), Type(k) # "tagme-annotator"
      PROVE  \A r \in Roles : Same(sink'[k][r], sink[k][r])
  <2>1. PICK m : SetSink(k, [Mine(k) EXCEPT !.mem = m])
    BY <1>3 DEF InMemory, SinkOK, NewSink
  <2>2. Same([Mine(k) EXCEPT !.mem = m], Mine(k))
    BY <1>1 DEF SinkOK, NewSink, Same
  <2>3. PICK s : SetSink(k, s) /\ Same(s, Mine(k))
    BY <2>1, <2>2
  <2>4. QED
    BY <1>1, <2>3, SetSinkMeans DEF Same
<1>4. CASE Type(k) \in {"local-zip", "s3-zip", "s3-jsonl"} /\ \E path, content : InMemory(k, path, content)
  BY <1>3, <1>4 DEF Same
<1>5. CASE Type(k) = "tagme-annotator" /\ SetSink(k, [Mine(k) EXCEPT !.buf = Append(@, e)])
  <2> DEFINE new == [Mine(k) EXCEPT !.buf = Append(@, e)]
  <2>1. /\ new.project = Mine(k).project /\ new.task = Mine(k).task /\ new.dataset = Mine(k).dataset
        /\ new.buf = Append(Mine(k).buf, e)
    BY <1>1 DEF SinkOK, NewSink
  <2>2. SetSink(k, new)
    BY <1>5
  <2> HIDE DEF new, e
  <2>3. PICK s : /\ SetSink(k, s)
                 /\ s.project = Mine(k).project /\ s.task = Mine(k).task /\ s.dataset = Mine(k).dataset
                 /\ s.buf = Append(Mine(k).buf, e)
    BY <2>1, <2>2
  <2>4. \A r \in Roles : sink'[k][r] = IF r = role[k] THEN s ELSE sink[k][r]
    BY <2>3, SetSinkMeans
  <2>5. \A r \in Roles :
          /\ sink'[k][r].project = sink[k][r].project /\ sink'[k][r].task = sink[k][r].task
          /\ sink'[k][r].dataset = sink[k][r].dataset
          /\ sink'[k][r].buf = IF r = role[k] THEN Append(sink[k][r].buf, e) ELSE sink[k][r].buf
    BY <1>1, <2>3, <2>4
  <2>6. QED
    BY <1>5, <2>5 DEF e
<1>6. QED
  BY <1>2, <1>4, <1>5 DEF PostFile, Zips, DatasetTypes

\* The tasks and projects of the sinks stay their own.
LEMMA OwnStep ==
  ASSUME NEW k \in Jobs, Acts(k), PlainInv, SinksInv, ServiceInv, TasksInv,
         \A j \in Jobs : Control(j) /\ OwnInv(j)
  PROVE  \A j \in Jobs : OwnInv(j)'
<1>1. Grown(k)
  BY Grows
<1>2. /\ Len(projects) \in Nat /\ Len(projects') \in Nat /\ Len(tasks) \in Nat /\ Len(tasks') \in Nat
      /\ DOMAIN projects = 1..Len(projects)
  BY ServiceStep, LenProperties DEF ServiceInv
<1>3. /\ Len(projects) <= Len(projects') /\ Len(tasks) <= Len(tasks')
      /\ \A n \in 1..Len(tasks) : tasks'[n].job = tasks[n].job /\ tasks'[n].role = tasks[n].role
  BY <1>1 DEF Grown
<1>4. ASSUME NEW j \in Jobs, NEW r \in Roles PROVE Owns(j, r, sink[j][r], projects', tasks')
  <2>1. Owns(j, r, sink[j][r], projects, tasks)
    BY DEF OwnInv
  <2>2. sink[j][r].project \in 0..Len(projects') /\ sink[j][r].task \in 0..Len(tasks')
    BY <1>2, <1>3, <2>1 DEF Owns
  <2>3. sink[j][r].task # 0 => sink[j][r].task \in 1..Len(tasks)
    BY <1>2, <2>1 DEF Owns
  <2>4. QED
    BY <1>3, <2>1, <2>2, <2>3 DEF Owns
<1>5. ASSUME NEW j \in Jobs, j # k PROVE OwnInv(j)'
  <2>1. sink'[j] = sink[j]
    BY <1>5, Others
  <2>2. QED
    BY <1>4, <2>1 DEF OwnInv
<1>6. SinkOK(Mine(k)) /\ role[k] \in Roles /\ Mine(k) = sink[k][role[k]]
  BY MineOK
\* A sink that is replaced by one with a project and a task of its own.
<1>7. ASSUME NEW s, SetSink(k, s), Owns(k, role[k], s, projects', tasks')
      PROVE  OwnInv(k)'
  <2>1. \A r \in Roles : sink'[k][r] = IF r = role[k] THEN s ELSE sink[k][r]
    BY <1>7, SetSinkMeans
  <2>2. QED
    BY <1>4, <1>7, <2>1 DEF OwnInv
<1>8. ASSUME NEW s, SetSink(k, s), s.project = Mine(k).project, s.task = Mine(k).task
      PROVE  OwnInv(k)'
  <2>1. Owns(k, role[k], Mine(k), projects', tasks')
    BY <1>4, <1>6
  <2>2. Owns(k, role[k], s, projects', tasks')
    BY <1>8, <2>1 DEF Owns
  <2>3. QED
    BY <1>7, <1>8, <2>2
<1>9. ASSUME Steady(k) PROVE OwnInv(k)'
  <2>1. ASSUME NEW r \in Roles PROVE Owns(k, r, sink'[k][r], projects', tasks')
    BY <1>4, <1>9 DEF Owns, Steady, Same
  <2>2. QED
    BY <2>1 DEF OwnInv
<1>10. ASSUME NEW d, UseDataset(k, d) PROVE OwnInv(k)'
  <2>1. /\ [Mine(k) EXCEPT !.dataset = d, !.ext = d].project = Mine(k).project
        /\ [Mine(k) EXCEPT !.dataset = d, !.ext = d].task = Mine(k).task
    BY <1>6 DEF SinkOK, NewSink
  <2>2. QED
    BY <1>8, <1>10, <2>1 DEF UseDataset
<1>11. ASSUME NEW p \in 1..Len(projects'), SetSink(k, [Mine(k) EXCEPT !.project = p]) PROVE OwnInv(k)'
  <2>1. /\ [Mine(k) EXCEPT !.project = p].project \in 0..Len(projects')
        /\ [Mine(k) EXCEPT !.project = p].task = Mine(k).task
    BY <1>2, <1>6 DEF SinkOK, NewSink
  <2>2. Owns(k, role[k], Mine(k), projects', tasks')
    BY <1>4, <1>6
  <2>3. Owns(k, role[k], [Mine(k) EXCEPT !.project = p], projects', tasks')
    BY <2>1, <2>2 DEF Owns
  <2>4. QED
    BY <1>7, <1>11, <2>3
<1>12. ASSUME NEW name, NEW data, NEW of, PostFile(k, name, data, of) PROVE OwnInv(k)'
  <2>1. \A r \in Roles : sink'[k][r].project = sink[k][r].project /\ sink'[k][r].task = sink[k][r].task
    BY <1>12, PostMoves
  <2>2. \A r \in Roles : Owns(k, r, sink'[k][r], projects', tasks')
    BY <1>4, <2>1 DEF Owns
  <2>3. QED
    BY <2>2 DEF OwnInv
<1>13. ASSUME NEW t, t.job = k, t.role = role[k], tasks' = Append(tasks, t)
       PROVE  /\ Len(tasks') \in 1..Len(tasks') /\ tasks'[Len(tasks')].job = k
              /\ tasks'[Len(tasks')].role = role[k]
  BY <1>2, <1>13 DEF ServiceInv
<1>14. ASSUME FindDataset(k) PROVE OwnInv(k)'
  BY <1>14, <1>4, <1>10 DEF FindDataset, OwnInv
<1>15. ASSUME PostDataset(k) PROVE OwnInv(k)'
  BY <1>15, <1>10 DEF PostDataset
<1>16. ASSUME PostOrFindDataset(k) PROVE OwnInv(k)'
  BY <1>16, <1>10 DEF PostOrFindDataset
<1>17. ASSUME FindProject(k) PROVE OwnInv(k)'
  <2>1. \A p \in ProjectFor(Dest(k)) : p \in 1..Len(projects')
    BY <1>2, <1>3 DEF ProjectFor
  <2>2. QED
    BY <1>17, <1>4, <1>11, <2>1 DEF FindProject, OwnInv, Sends
<1>18. ASSUME PostProject(k) PROVE OwnInv(k)'
  <2>1. Len(projects') \in 1..Len(projects')
    <3>1. k \in DOMAIN plan
      BY <1>18 DEF PostProject, Control
    <3>2. Dest(k) \in Names
      BY <3>1, PlanOK, NamesAssumption DEF PlainInv, Dest, DestOf, Names
    <3>3. Len(projects') = Len(projects) + 1
      BY <1>18, <3>2, Appended DEF PostProject, ServiceInv
    <3>4. QED
      BY <1>2, <3>3
  <2>2. QED
    BY <1>18, <1>11, <2>1 DEF PostProject
<1>19. ASSUME Open(k) PROVE OwnInv(k)'
  <2>1. CASE Type(k) = "tagme-annotator"
    <3>1. PICK n \in Nat : /\ n \in 1..Len(tasks') /\ tasks'[n].job = k /\ tasks'[n].role = role[k]
                           /\ SetSink(k, [Mine(k) EXCEPT !.task = n, !.ext = n])
      BY <1>19, <1>2, <1>13, <2>1 DEF Open
    <3>2. /\ [Mine(k) EXCEPT !.task = n, !.ext = n].project = Mine(k).project
          /\ [Mine(k) EXCEPT !.task = n, !.ext = n].task = n
      BY <1>6 DEF SinkOK, NewSink
    <3>3. Owns(k, role[k], Mine(k), projects', tasks')
      BY <1>4, <1>6
    <3>4. Owns(k, role[k], [Mine(k) EXCEPT !.task = n, !.ext = n], projects', tasks')
      BY <1>2, <3>1, <3>2, <3>3 DEF Owns
    <3>5. QED
      BY <1>7, <3>1, <3>4
  <2>2. CASE Type(k) # "tagme-annotator"
    <3>1. PICK d : SetSink(k, [Mine(k) EXCEPT !.dataset = d])
      BY <1>19, <2>2 DEF Open
    <3>2. /\ [Mine(k) EXCEPT !.dataset = d].project = Mine(k).project
          /\ [Mine(k) EXCEPT !.dataset = d].task = Mine(k).task
      BY <1>6 DEF SinkOK, NewSink
    <3>3. QED
      BY <1>8, <3>1, <3>2
  <2>3. QED
    BY <2>1, <2>2
<1>20. ASSUME ResolveAsset(k) PROVE OwnInv(k)'
  BY <1>20, <1>12 DEF ResolveAsset
<1>21. ASSUME SendRecord(k) PROVE OwnInv(k)'
  BY <1>21, <1>12 DEF SendRecord
<1>22. ASSUME PostTask(k) PROVE OwnInv(k)'
  <2>1. PICK n \in Nat : /\ n \in 1..Len(tasks') /\ tasks'[n].job = k /\ tasks'[n].role = role[k]
                         /\ SetSink(k, [Mine(k) EXCEPT !.task = n])
    BY <1>22, <1>2, <1>13 DEF PostTask
  <2>2. [Mine(k) EXCEPT !.task = n].project = Mine(k).project /\ [Mine(k) EXCEPT !.task = n].task = n
    BY <1>6 DEF SinkOK, NewSink
  <2>3. Owns(k, role[k], Mine(k), projects', tasks')
    BY <1>4, <1>6
  <2>4. Owns(k, role[k], [Mine(k) EXCEPT !.task = n], projects', tasks')
    BY <1>2, <2>1, <2>2, <2>3 DEF Owns
  <2>5. QED
    BY <1>7, <2>1, <2>4
<1>23. ASSUME AssetFails(k) PROVE OwnInv(k)'
  BY <1>23, <1>4, <1>12 DEF AssetFails, OwnInv
<1>24. ASSUME Return(k) PROVE OwnInv(k)'
  BY <1>24, <1>2 DEF Return, Forget, SinksInv, OwnInv, Owns, NewSink
<1>25. ASSUME Crash(k) PROVE OwnInv(k)'
  BY <1>25, <1>2 DEF Crash, Forget, SinksInv, OwnInv, Owns, NewSink
<1>26. OwnInv(k)'
  BY <1>9, <1>14, <1>15, <1>16, <1>17, <1>18, <1>19, <1>20, <1>21, <1>22, <1>23, <1>24, <1>25,
     Steadies DEF Acts, Step, CreateDataset, Finalise
<1>27. QED
  BY <1>5, <1>26

\* A sink that is set up stays so, until the job forgets its sinks.
LEMMA ReadyStep ==
  ASSUME NEW k \in Jobs, Acts(k), PlainInv, SinksInv, ServiceInv,
         \A j \in Jobs : Control(j) /\ OwnInv(j) /\ ReadyInv(j)
  PROVE  \A j \in Jobs : ReadyInv(j)'
<1>1. /\ Len(projects) \in Nat /\ Len(projects') \in Nat /\ Len(projects) <= Len(projects')
      /\ Len(datasets) \in Nat /\ Len(datasets') \in Nat /\ Len(datasets) <= Len(datasets')
  BY Grows, ServiceStep, LenProperties DEF Grown, ServiceInv
<1>2. DOMAIN projects = 1..Len(projects) /\ DOMAIN datasets = 1..Len(datasets)
  BY LenProperties DEF ServiceInv
<1>3. \A type, s, t : /\ Placed(type, s, projects, datasets)
                      /\ t.project = s.project /\ t.dataset = s.dataset
                      => Placed(type, t, projects', datasets')
  BY <1>1 DEF Placed
<1>4. ASSUME NEW j \in Jobs, j # k PROVE ReadyInv(j)'
  <2>1. UNCHANGED <<pc[j], role[j], sink[j], plan>>
    BY <1>4, Others
  <2>2. \A r \in Roles : PlacedAt(j, r) => PlacedAt(j, r)'
    BY <1>3, <2>1 DEF PlacedAt, TypeOf
  <2>3. role[j] \in Roles /\ {"main", "asset"} = Roles
    BY DEF PlainInv, Roles
  <2>4. pc[j] = "opening" => Type(j)' \in Annotators /\ Mine(j)'.project \in 1..Len(projects')
    BY <1>1, <2>1 DEF ReadyInv, Type, TypeOf, Mine
  <2>5. ReadyInv(j)
    OBVIOUS
  <2>6. QED
    BY <2>1, <2>2, <2>3, <2>4, <2>5 DEF ReadyInv
<1>5. ReadyInv(k) /\ Control(k) /\ role[k] \in Roles /\ {"main", "asset"} = Roles
  BY DEF PlainInv, Roles
<1>6. SinkOK(Mine(k)) /\ Mine(k) = sink[k][role[k]]
  BY MineOK
\* The steps that leave the sinks' places alone.
<1> DEFINE Unmoved == \A r \in Roles : /\ sink'[k][r].project = sink[k][r].project
                                      /\ sink'[k][r].dataset = sink[k][r].dataset
<1>7. ASSUME Unmoved, plan' = plan PROVE \A r \in Roles : PlacedAt(k, r) => PlacedAt(k, r)'
  BY <1>3, <1>7 DEF PlacedAt, TypeOf
<1>8. ASSUME Unmoved, plan' = plan, pc'[k] = pc[k], role'[k] = role[k] PROVE ReadyInv(k)'
  <2>1. \A r \in Roles : PlacedAt(k, r) => PlacedAt(k, r)'
    BY <1>7, <1>8
  <2>2. pc[k] = "opening" => Type(k)' \in Annotators /\ Mine(k)'.project \in 1..Len(projects')
    BY <1>1, <1>5, <1>8 DEF ReadyInv, Type, TypeOf, Mine
  <2>3. QED
    BY <1>5, <1>8, <2>1, <2>2 DEF ReadyInv
<1>9. ASSUME Unmoved, plan' = plan, pc[k] \in Late, pc'[k] \in Late PROVE ReadyInv(k)'
  <2>1. \A r \in Roles : PlacedAt(k, r) => PlacedAt(k, r)'
    BY <1>7, <1>9
  <2>2. pc'[k] \notin SetUp
    BY <1>9 DEF Late, AtRecord, SetUp
  <2>3. QED
    BY <1>5, <1>9, <2>1, <2>2 DEF ReadyInv, SetUp
<1>10. ASSUME plan' = plan, pc'[k] \notin Late \cup SetUp PROVE ReadyInv(k)'
  BY <1>10 DEF ReadyInv, SetUp
<1>11. ASSUME Unmoved, plan' = plan, role' = role, pc[k] \in SetUp, pc'[k] \in {"looking", "making"}
       PROVE  ReadyInv(k)'
  <2>1. \A r \in Roles : PlacedAt(k, r) => PlacedAt(k, r)'
    BY <1>7, <1>11
  <2>2. QED
    BY <1>5, <1>11, <2>1 DEF ReadyInv, Late, AtRecord
\* The steps that end at the link to the row, or at the opening, with what that takes.
<1>12. ASSUME plan' = plan, role' = role, pc[k] \in SetUp, pc'[k] = "linking",
              \A r \in Roles \ {role[k]} : /\ sink'[k][r].project = sink[k][r].project
                                           /\ sink'[k][r].dataset = sink[k][r].dataset,
              Placed(Type(k), sink'[k][role[k]], projects', datasets')
       PROVE  ReadyInv(k)'
  <2>1. PlacedAt(k, role[k])'
    BY <1>12 DEF PlacedAt, Type, TypeOf
  <2>2. role[k] = "asset" => PlacedAt(k, "main")
    BY <1>5, <1>12 DEF ReadyInv
  <2>3. role[k] = "asset" => PlacedAt(k, "main")'
    BY <1>3, <1>5, <1>12, <2>2 DEF PlacedAt, TypeOf
  <2>4. QED
    BY <1>5, <1>12, <2>1, <2>3 DEF ReadyInv, Late, AtRecord
<1>13. ASSUME plan' = plan, role' = role, pc[k] \in SetUp, pc'[k] = "opening", Type(k) \in Annotators,
              NEW p \in 1..Len(projects'), SetSink(k, [Mine(k) EXCEPT !.project = p])
       PROVE  ReadyInv(k)'
  <2>1. \A r \in Roles : sink'[k][r] = IF r = role[k] THEN [Mine(k) EXCEPT !.project = p] ELSE sink[k][r]
    BY <1>13, SetSinkMeans
  <2>2. [Mine(k) EXCEPT !.project = p].project = p
    BY <1>6 DEF SinkOK, NewSink
  <2>3. Mine(k)'.project = p /\ Type(k)' \in Annotators
    BY <1>5, <1>13, <2>1, <2>2 DEF Mine, Type, TypeOf
  <2>4. role[k] = "asset" => PlacedAt(k, "main")
    BY <1>5, <1>13 DEF ReadyInv
  <2>5. role[k] = "asset" => PlacedAt(k, "main")'
    BY <1>3, <1>5, <1>13, <2>1, <2>4 DEF PlacedAt, TypeOf
  <2>6. QED
    BY <1>5, <1>13, <2>3, <2>5 DEF ReadyInv, Late, AtRecord
<1>14. \/ Deliver(k) \/ Ping(k) \/ OpenFile(k) \/ Link(k) \/ CheckCancelled(k) \/ PutFiles(k)
       \/ PutPayload(k) \/ StartTask(k) \/ Close(k) \/ Decide(k) \/ Complete(k) \/ Fail(k)
       \/ AuthHeaders(k) \/ Elapse(k) \/ DeliverWebhook(k) \/ CallRaises(k) \/ Refuse(k) \/ Cancel(k)
       => Unmoved
  BY Steadies DEF Steady, Same
<1>15. ASSUME NEW d, UseDataset(k, d) PROVE \A r \in Roles \ {role[k]} : sink'[k][r] = sink[k][r]
  BY <1>15, SetSinkMeans DEF UseDataset
<1>16. ASSUME NEW s, SetSink(k, s) PROVE \A r \in Roles : sink'[k][r] = IF r = role[k] THEN s ELSE sink[k][r]
  BY <1>16, SetSinkMeans
<1> HIDE DEF Unmoved
<1>17. ASSUME Deliver(k) PROVE ReadyInv(k)'
  <2>1. pc'[k] \in {"ended", "pinging"} /\ role'[k] = "main" /\ plan' = plan
    BY <1>17 DEF Deliver, Goto, PlainInv
  <2>2. QED
    BY <2>1 DEF ReadyInv, SetUp, Late, AtRecord
<1>18. ASSUME Ping(k) PROVE ReadyInv(k)'
  BY <1>18, <1>11, <1>14 DEF Ping, Goto, Stay, PlainInv, SetUp
<1>19. ASSUME OpenFile(k) PROVE ReadyInv(k)'
  <2>1. pc'[k] = "linking" /\ pc[k] \in SetUp /\ role' = role /\ plan' = plan
    BY <1>19 DEF OpenFile, Goto, Stay, PlainInv, SetUp
  <2>2. \A s : Placed(Type(k), s, projects', datasets')
    BY <1>19 DEF OpenFile, Placed, Files, Zips, Jsonls, Annotators
  <2>3. Unmoved
    BY <1>19, <1>14
  <2>4. QED
    BY <1>5, <1>12, <2>1, <2>2, <2>3 DEF Unmoved
<1>20. ASSUME FindDataset(k) PROVE ReadyInv(k)'
  <2>1. pc[k] \in SetUp /\ role' = role /\ plan' = plan
    BY <1>20 DEF FindDataset, Sends, Stay, SetUp
  <2>2. \A s : Placed(Type(k), s, projects', datasets')
    BY <1>20 DEF FindDataset, Placed, Annotators
  <2>3. CASE pc'[k] = "making" /\ UNCHANGED sink
    BY <1>11, <2>1, <2>3 DEF Unmoved
  <2>4. CASE pc'[k] = "linking" /\ \E d : UseDataset(k, d)
    BY <1>12, <1>15, <2>1, <2>2, <2>4
  <2>5. QED
    BY <1>20, <2>3, <2>4 DEF FindDataset, UseDataset, Goto, PlainInv
<1>21. ASSUME PostDataset(k) PROVE ReadyInv(k)'
  <2>1. pc'[k] = "linking" /\ pc[k] \in SetUp /\ role' = role /\ plan' = plan
    BY <1>21 DEF PostDataset, UseDataset, Goto, Sends, Stay, SetUp, PlainInv
  <2>2. \A s : Placed(Type(k), s, projects', datasets')
    BY <1>21 DEF PostDataset, Placed, Annotators
  <2>3. QED
    BY <1>21, <1>12, <1>15, <2>1, <2>2 DEF PostDataset
<1>22. ASSUME PostOrFindDataset(k) PROVE ReadyInv(k)'
  <2>1. pc'[k] = "linking" /\ pc[k] \in SetUp /\ role' = role /\ plan' = plan
    BY <1>22 DEF PostOrFindDataset, UseDataset, Goto, Stay, SetUp, PlainInv
  <2>2. \A s : Placed(Type(k), s, projects', datasets')
    BY <1>22 DEF PostOrFindDataset, Placed, Annotators
  <2>3. \E d : UseDataset(k, d)
    BY <1>22 DEF PostOrFindDataset
  <2>4. QED
    BY <1>12, <1>15, <2>1, <2>2, <2>3
<1>23. ASSUME FindProject(k) PROVE ReadyInv(k)'
  <2>1. pc[k] \in SetUp /\ role' = role /\ plan' = plan /\ Type(k) \in Annotators
    BY <1>23 DEF FindProject, Sends, Stay, SetUp
  <2>2. CASE pc'[k] = "making" /\ UNCHANGED sink
    BY <1>11, <2>1, <2>2 DEF Unmoved
  <2>3. CASE pc'[k] = "failing early"
    BY <1>10, <2>1, <2>3 DEF SetUp, Late, AtRecord
  <2>4. CASE pc'[k] = "opening" /\ \E p \in ProjectFor(Dest(k)) : SetSink(k, [Mine(k) EXCEPT !.project = p])
    <3>1. \A p \in ProjectFor(Dest(k)) : p \in 1..Len(projects')
      BY <1>1, <1>2 DEF ProjectFor
    <3>2. QED
      BY <1>13, <2>1, <2>4, <3>1
  <2>5. QED
    BY <1>23, <2>2, <2>3, <2>4 DEF FindProject, Goto, PlainInv
<1>24. ASSUME PostProject(k) PROVE ReadyInv(k)'
  <2>1. /\ pc'[k] = "opening" /\ pc[k] \in SetUp /\ role' = role /\ plan' = plan
        /\ Type(k) \in Annotators
    BY <1>24 DEF PostProject, Goto, Stay, SetUp, PlainInv, Annotators
  <2>2. Len(projects') \in 1..Len(projects')
    <3>1. Len(projects') = Len(projects) + 1
      <4>1. k \in DOMAIN plan
        BY <1>24 DEF PostProject, Control
      <4>2. Dest(k) \in Names
        BY <4>1, PlanOK, NamesAssumption DEF PlainInv, Dest, DestOf, Names
      <4>3. QED
        BY <1>24, <4>2, Appended DEF PostProject, ServiceInv
    <3>2. QED
      BY <1>1, <3>1
  <2>3. QED
    BY <1>24, <1>13, <2>1, <2>2 DEF PostProject
<1>25. ASSUME Open(k) PROVE ReadyInv(k)'
  <2>1. /\ pc'[k] = "linking" /\ pc[k] \in SetUp /\ role' = role /\ plan' = plan
        /\ Mine(k).project \in 1..Len(projects') /\ Type(k) \in Annotators
    BY <1>25, <1>1, <1>5 DEF Open, Goto, Sends, Stay, SetUp, PlainInv, ReadyInv
  <2>2. CASE Type(k) = "tagme-annotator"
    <3>1. PICK n : SetSink(k, [Mine(k) EXCEPT !.task = n, !.ext = n])
      BY <1>25, <2>2 DEF Open
    <3>2. [Mine(k) EXCEPT !.task = n, !.ext = n].project = Mine(k).project
      BY <1>6 DEF SinkOK, NewSink
    <3>3. PICK s : SetSink(k, s) /\ s.project = Mine(k).project
      BY <3>1, <3>2
    <3>4. Placed(Type(k), s, projects', datasets')
      BY <2>1, <2>2, <3>3 DEF Placed
    <3>5. sink'[k][role[k]] = s /\ \A r \in Roles \ {role[k]} : sink'[k][r] = sink[k][r]
      BY <1>5, <1>16, <3>3
    <3>6. QED
      BY <1>12, <2>1, <3>4, <3>5
  <2>3. CASE Type(k) # "tagme-annotator"
    <3>1. SetSink(k, [Mine(k) EXCEPT !.dataset = Len(datasets')]) /\ PostedDataset("of this job")
      BY <1>25, <2>3 DEF Open
    <3>2. PICK s : SetSink(k, s) /\ s.project = Mine(k).project /\ s.dataset = Len(datasets')
      <4> DEFINE u == [Mine(k) EXCEPT !.dataset = Len(datasets')]
      <4>1. u.project = Mine(k).project /\ u.dataset = Len(datasets')
        BY <1>6 DEF SinkOK, NewSink
      <4>2. SetSink(k, u)
        BY <3>1
      <4> HIDE DEF u
      <4>3. QED
        BY <4>1, <4>2
    <3>3. Len(datasets') \in 1..Len(datasets')
      <4>1. PICK n \in Names : PostedDataset(n)
        BY <3>1 DEF Names
      <4>2. QED
        BY <1>1, <4>1, DatasetPosted
    <3>4. Placed(Type(k), s, projects', datasets')
      BY <2>1, <3>2, <3>3 DEF Placed
    <3>5. sink'[k][role[k]] = s /\ \A r \in Roles \ {role[k]} : sink'[k][r] = sink[k][r]
      BY <1>5, <1>16, <3>2
    <3>6. QED
      BY <1>12, <2>1, <3>4, <3>5
  <2>4. QED
    BY <2>2, <2>3
<1>26. ASSUME Link(k) PROVE ReadyInv(k)'
  <2>1. Unmoved /\ plan' = plan /\ PlacedAt(k, role[k]) /\ pc[k] = "linking"
    BY <1>26, <1>5, <1>14 DEF Link, ReadyInv
  <2>2. \A r \in Roles : PlacedAt(k, r) => PlacedAt(k, r)'
    BY <1>7, <2>1
  <2>3. k \in DOMAIN plan
    BY <1>5, <2>1 DEF Control
  <2>4. CASE role[k] = "main" /\ plan[k].asset # NULL
    <3>1. pc'[k] = "pinging" /\ role'[k] = "asset"
      BY <1>26, <2>4 DEF Link, Goto, PlainInv
    <3>2. PlacedAt(k, "main")'
      BY <1>5, <2>1, <2>2, <2>4
    <3>3. QED
      BY <2>1, <3>1, <3>2 DEF ReadyInv, Late, AtRecord
  <2>5. CASE ~(role[k] = "main" /\ plan[k].asset # NULL)
    <3>1. pc'[k] \in {"finalising", "resolving", "sending"}
      BY <1>26, <2>5 DEF Link, Loop, Goto, PlainInv
    <3>2. PlacedAt(k, "main") /\ (plan[k].asset # NULL => PlacedAt(k, "asset"))
      BY <1>5, <2>1, <2>3, <2>5 DEF ReadyInv, SetUp, Control
    <3>3. PlacedAt(k, "main")' /\ (plan[k].asset # NULL => PlacedAt(k, "asset")')
      BY <1>5, <2>2, <3>2
    <3>4. QED
      BY <2>1, <3>1, <3>3 DEF ReadyInv, SetUp
  <2>6. QED
    BY <2>4, <2>5
<1>27. ASSUME ResolveAsset(k) PROVE ReadyInv(k)'
  <2>1. Unmoved
    BY <1>27, PostMoves DEF ResolveAsset, Unmoved
  <2>2. plan' = plan /\ {pc[k], pc'[k]} \subseteq Late
    BY <1>27 DEF ResolveAsset, Sends, Loop, Goto, Stay, PlainInv, Late, AtRecord
  <2>3. QED
    BY <1>9, <2>1, <2>2
<1>28. ASSUME SendRecord(k) PROVE ReadyInv(k)'
  <2>1. Unmoved
    BY <1>28, PostMoves DEF SendRecord, Unmoved
  <2>2. plan' = plan /\ {pc[k], pc'[k]} \subseteq Late
    BY <1>28 DEF SendRecord, Sends, Loop, Goto, Stay, PlainInv, Late, AtRecord
  <2>3. QED
    BY <1>9, <2>1, <2>2
<1>29. ASSUME CheckCancelled(k) PROVE ReadyInv(k)'
  <2>1. Unmoved
    BY <1>29, <1>14
  <2>2. plan' = plan /\ {pc[k], pc'[k]} \subseteq Late
    BY <1>29 DEF CheckCancelled, Sends, Loop, Goto, Stay, PlainInv, Late, AtRecord
  <2>3. QED
    BY <1>9, <2>1, <2>2
<1>30. ASSUME PutFiles(k) PROVE ReadyInv(k)'
  <2>1. Unmoved
    BY <1>30, <1>14
  <2>2. plan' = plan /\ {pc[k], pc'[k]} \subseteq Late
    BY <1>30 DEF PutFiles, Sends, Loop, Goto, Stay, PlainInv, Late, AtRecord
  <2>3. QED
    BY <1>9, <2>1, <2>2
<1>31. ASSUME PutPayload(k) PROVE ReadyInv(k)'
  <2>1. Unmoved
    BY <1>31, <1>14
  <2>2. plan' = plan /\ {pc[k], pc'[k]} \subseteq Late
    BY <1>31 DEF PutPayload, Sends, Loop, Goto, Stay, PlainInv, Late, AtRecord
  <2>3. QED
    BY <1>9, <2>1, <2>2
<1>32. ASSUME PostTask(k) PROVE ReadyInv(k)'
  <2>1. Unmoved
    <3>1. PICK n : SetSink(k, [Mine(k) EXCEPT !.task = n])
      BY <1>32 DEF PostTask
    <3>2. PICK s : SetSink(k, s) /\ s.project = Mine(k).project /\ s.dataset = Mine(k).dataset
      BY <1>6, <3>1 DEF SinkOK, NewSink
    <3>3. QED
      BY <1>6, <1>16, <3>2 DEF Unmoved
  <2>2. plan' = plan /\ {pc[k], pc'[k]} \subseteq Late
    BY <1>32 DEF PostTask, Sends, Loop, Goto, Stay, PlainInv, Late, AtRecord
  <2>3. QED
    BY <1>9, <2>1, <2>2
<1>33. ASSUME StartTask(k) PROVE ReadyInv(k)'
  <2>1. Unmoved
    BY <1>33, <1>14
  <2>2. plan' = plan /\ {pc[k], pc'[k]} \subseteq Late
    BY <1>33 DEF StartTask, Sends, Loop, Goto, Stay, PlainInv, Late, AtRecord
  <2>3. QED
    BY <1>9, <2>1, <2>2
<1>34. ASSUME Close(k) PROVE ReadyInv(k)'
  <2>1. Unmoved /\ plan' = plan /\ pc[k] = "closing" /\ pc'[k] \in {"finalising", "deciding"}
    BY <1>34, <1>14 DEF Close, Goto, PlainInv
  <2>2. QED
    BY <1>9, <1>10, <2>1 DEF SetUp, Late, AtRecord
<1>35. ASSUME Decide(k) PROVE ReadyInv(k)'
  <2>1. plan' = plan /\ pc'[k] \notin Late \cup SetUp
    BY <1>35 DEF Decide, Goto, Stay, service, row, history, PlainInv, Late, AtRecord, SetUp
  <2>2. QED
    BY <1>10, <2>1
<1>36. ASSUME Complete(k) PROVE ReadyInv(k)'
  <2>1. plan' = plan /\ pc'[k] \notin Late \cup SetUp
    BY <1>36 DEF Complete, End, Goto, service, local, history, PlainInv, Late, AtRecord, SetUp
  <2>2. QED
    BY <1>10, <2>1
<1>37. ASSUME Fail(k) PROVE ReadyInv(k)'
  <2>1. plan' = plan /\ pc'[k] \notin Late \cup SetUp
    BY <1>37 DEF Fail, End, Goto, service, local, history, PlainInv, Late, AtRecord, SetUp
  <2>2. QED
    BY <1>10, <2>1
<1>38. ASSUME Return(k) PROVE ReadyInv(k)'
  <2>1. plan' = plan /\ pc'[k] \notin Late \cup SetUp
    BY <1>38 DEF Return, Forget, Goto, Stay, service, row, history, PlainInv, Late, AtRecord,
       SetUp
  <2>2. QED
    BY <1>10, <2>1
<1>39. ASSUME AuthHeaders(k) PROVE ReadyInv(k)'
  <2>1. plan' = plan /\ pc'[k] = pc[k] /\ role'[k] = role[k]
    BY <1>39 DEF AuthHeaders, Stay, service, row, history
  <2>2. QED
    BY <1>39, <1>8, <1>14, <2>1
<1>40. ASSUME Elapse(k) PROVE ReadyInv(k)'
  <2>1. plan' = plan /\ pc'[k] = pc[k] /\ role'[k] = role[k]
    BY <1>40 DEF Elapse, Stay, service, row, history
  <2>2. QED
    BY <1>40, <1>8, <1>14, <2>1
<1>41. ASSUME DeliverWebhook(k) PROVE ReadyInv(k)'
  <2>1. plan' = plan /\ pc'[k] = pc[k] /\ role'[k] = role[k]
    BY <1>41 DEF DeliverWebhook, service, row, local
  <2>2. QED
    BY <1>41, <1>8, <1>14, <2>1
<1>42. ASSUME CallRaises(k) PROVE ReadyInv(k)'
  <2>1. plan' = plan /\ pc'[k] \notin Late \cup SetUp
    BY <1>42 DEF CallRaises, Raise, Goto, Stay, service, row, history, PlainInv, Late, AtRecord,
       SetUp
  <2>2. QED
    BY <1>10, <2>1
<1>43. ASSUME Refuse(k) PROVE ReadyInv(k)'
  <2>1. plan' = plan /\ pc'[k] \notin Late \cup SetUp
    BY <1>43 DEF Refuse, Raise, Goto, service, row, PlainInv, Late, AtRecord, SetUp
  <2>2. QED
    BY <1>10, <2>1
<1>44. ASSUME AssetFails(k) PROVE ReadyInv(k)'
  <2>1. Unmoved
    BY <1>44, PostMoves DEF AssetFails, Unmoved
  <2>2. plan' = plan /\ {pc[k], pc'[k]} \subseteq Late
    BY <1>44 DEF AssetFails, Sends, Loop, Goto, Stay, PlainInv, Late, AtRecord
  <2>3. QED
    BY <1>9, <2>1, <2>2
<1>45. ASSUME Crash(k) PROVE ReadyInv(k)'
  <2>1. plan' = plan /\ pc'[k] \notin Late \cup SetUp
    BY <1>45 DEF Crash, Forget, Goto, service, row, history, PlainInv, Late, AtRecord, SetUp
  <2>2. QED
    BY <1>10, <2>1
<1>46. ASSUME Cancel(k) PROVE ReadyInv(k)'
  <2>1. plan' = plan /\ pc'[k] = pc[k] /\ role'[k] = role[k]
    BY <1>46 DEF Cancel, service, local
  <2>2. QED
    BY <1>46, <1>8, <1>14, <2>1
<1>47. ReadyInv(k)'
  BY <1>17, <1>18, <1>19, <1>20, <1>21, <1>22, <1>23, <1>24, <1>25, <1>26, <1>27, <1>28, <1>29,
     <1>30, <1>31, <1>32, <1>33, <1>34, <1>35, <1>36, <1>37, <1>38, <1>39, <1>40, <1>41, <1>42,
     <1>43, <1>44, <1>45, <1>46 DEF Acts, Step, CreateDataset, Finalise
<1>48. QED
  BY <1>4, <1>47

\* What the jobs ask for stays.
LEMMA PlanStays ==
  ASSUME NEW k \in Jobs, Acts(k)
  PROVE  plan' = plan
  BY DEF Acts, Step, CreateDataset, Finalise, Deliver, Ping, OpenFile, FindDataset, PostDataset,
         PostOrFindDataset, FindProject, PostProject, Open, Link, ResolveAsset, SendRecord,
         CheckCancelled, PutFiles, PutPayload, PostTask, StartTask, Close, Decide, Complete, Fail, End,
         Return, AuthHeaders, Elapse, DeliverWebhook, CallRaises, Refuse, AssetFails, Crash, Cancel, Stay

\* The steps that change the list of tasks.
LEMMA TaskSteps ==
  ASSUME NEW k \in Jobs, Acts(k)
  PROVE  \/ tasks' = tasks
         \/ Open(k) /\ Type(k) = "tagme-annotator"
         \/ PostTask(k) \/ PutPayload(k) \/ StartTask(k)
<1>1. ASSUME NEW name, NEW data, NEW of, PostFile(k, name, data, of) PROVE tasks' = tasks
  BY <1>1 DEF PostFile, service
<1>2. CASE ResolveAsset(k) \/ SendRecord(k) \/ AssetFails(k)
  BY <1>1, <1>2 DEF ResolveAsset, SendRecord, AssetFails, service
<1>3. CASE PostDataset(k) \/ PostOrFindDataset(k) \/ PostProject(k) \/ Open(k)
  BY <1>3 DEF PostDataset, PostOrFindDataset, PostProject, Open
<1>4. CASE UNCHANGED service
  BY <1>4 DEF service
<1>5. QED
  BY <1>2, <1>3, <1>4
     DEF Acts, Step, CreateDataset, Finalise, Deliver, Ping, OpenFile, FindDataset, FindProject, Link,
         CheckCancelled, PutFiles, Close, Decide, Complete, Fail, End, Return, AuthHeaders, Elapse,
         DeliverWebhook, CallRaises, Refuse, Crash, Cancel

\* A task that is made is not started yet.
LEMMA NewTask ==
  ASSUME NEW k \in Jobs, PlainInv, SinksInv, ServiceInv,
         (Open(k) /\ Type(k) = "tagme-annotator") \/ PostTask(k)
  PROVE  /\ Len(tasks) \in Nat /\ Len(tasks') = Len(tasks) + 1
         /\ \A n \in 1..Len(tasks) : tasks'[n] = tasks[n]
         /\ sink'[k][role[k]].task = Len(tasks) + 1
         /\ \E t : /\ tasks'[Len(tasks) + 1] = t
                   /\ t.job = k /\ t.role = role[k] /\ t.project = Mine(k).project /\ ~t.started
                   /\ t.dataset = IF pc[k] = "opening" THEN 0 ELSE Mine(k).dataset
<1>1. SinkOK(Mine(k)) /\ role[k] \in Roles
  BY MineOK
<1>2. PICK d \in Nat :
        /\ d = IF pc[k] = "opening" THEN 0 ELSE Mine(k).dataset
        /\ tasks' = Append(tasks, [project |-> Mine(k).project, dataset |-> d, payload |-> <<>>,
                                   started |-> FALSE, job |-> k, role |-> role[k]])
  BY <1>1 DEF Open, Sends, PostTask, SinkOK
<1> DEFINE t == [project |-> Mine(k).project, dataset |-> d, payload |-> <<>>,
                 started |-> FALSE, job |-> k, role |-> role[k]]
<1>3. t \in Task
  BY <1>1, EmptySeq DEF Task, SinkOK
<1>4. /\ t.job = k /\ t.role = role[k] /\ t.project = Mine(k).project /\ ~t.started
      /\ t.dataset = IF pc[k] = "opening" THEN 0 ELSE Mine(k).dataset
  BY <1>2
<1>5. tasks' = Append(tasks, t)
  BY <1>2
<1> HIDE DEF t
<1>6. /\ Len(tasks) \in Nat /\ Len(tasks') = Len(tasks) + 1
      /\ \A n \in 1..Len(tasks) : tasks'[n] = tasks[n]
      /\ tasks'[Len(tasks) + 1] = t
  BY <1>3, <1>5, Appended DEF ServiceInv
<1>7. sink'[k][role[k]].task = Len(tasks')
  <2>1. ASSUME NEW n, SetSink(k, [Mine(k) EXCEPT !.task = n]) PROVE sink'[k][role[k]].task = n
    <3>1. [Mine(k) EXCEPT !.task = n].task = n
      BY <1>1 DEF SinkOK, NewSink
    <3>2. sink'[k][role[k]] = [Mine(k) EXCEPT !.task = n]
      BY <1>1, <2>1, SetSinkMeans
    <3>3. QED
      BY <3>1, <3>2
  <2>2. ASSUME NEW n, SetSink(k, [Mine(k) EXCEPT !.task = n, !.ext = n]) PROVE sink'[k][role[k]].task = n
    <3>1. [Mine(k) EXCEPT !.task = n, !.ext = n].task = n
      BY <1>1 DEF SinkOK, NewSink
    <3>2. sink'[k][role[k]] = [Mine(k) EXCEPT !.task = n, !.ext = n]
      BY <1>1, <2>2, SetSinkMeans
    <3>3. QED
      BY <3>1, <3>2
  <2>3. QED
    BY <2>1, <2>2 DEF Open, PostTask
<1>8. QED
  BY <1>4, <1>6, <1>7

\* The task at work is changed by its payload, or by its start.
LEMMA OldTask ==
  ASSUME NEW k \in Jobs, PlainInv, SinksInv, ServiceInv, OwnInv(k), PutPayload(k) \/ StartTask(k)
  PROVE  /\ Len(tasks') = Len(tasks) /\ datasets' = datasets
         /\ \A n \in 1..Len(tasks) : n # Mine(k).task => tasks'[n] = tasks[n]
         /\ Mine(k).task # 0 =>
              LET t == tasks[Mine(k).task]
                  u == tasks'[Mine(k).task]
              IN  /\ Mine(k).task \in 1..Len(tasks) /\ t.job = k /\ t.role = role[k]
                  /\ u.dataset = t.dataset
                  /\ u.payload = IF PutPayload(k) THEN Mine(k).buf ELSE t.payload
<1>1. role[k] \in Roles /\ Mine(k) = sink[k][role[k]] /\ Mine(k).buf \in Seq(Entry)
  BY MineOK DEF SinkOK
<1>2. /\ Mine(k).task \in 0..Len(tasks) /\ Len(tasks) \in Nat /\ DOMAIN tasks = 1..Len(tasks)
      /\ Mine(k).task # 0 => tasks[Mine(k).task].job = k /\ tasks[Mine(k).task].role = role[k]
  BY <1>1, LenProperties DEF OwnInv, Owns, ServiceInv
<1>3. datasets' = datasets
  BY DEF PutPayload, StartTask
<1>4. CASE Mine(k).task = 0
  <2>1. tasks' = tasks
    <3>1. CASE PutPayload(k)
      BY <1>2, <1>4, <3>1 DEF PutPayload, ServiceInv
    <3>2. CASE StartTask(k)
      BY <1>2, <1>4, <3>2 DEF StartTask, ServiceInv
    <3>3. QED
      BY <3>1, <3>2
  <2>2. QED
    BY <1>3, <1>4, <2>1
<1>5. CASE Mine(k).task # 0
  <2>1. Mine(k).task \in 1..Len(tasks) /\ tasks[Mine(k).task] \in Task
    BY <1>2, <1>5, ElementOfSeq DEF ServiceInv
  <2>2. PICK u \in Task :
          /\ tasks' = [tasks EXCEPT ![Mine(k).task] = u]
          /\ u.dataset = tasks[Mine(k).task].dataset
          /\ u.payload = IF PutPayload(k) THEN Mine(k).buf ELSE tasks[Mine(k).task].payload
    <3>1. CASE PutPayload(k)
      <4> DEFINE v == [tasks[Mine(k).task] EXCEPT !.payload = Mine(k).buf]
      <4>1. v \in Task /\ v.dataset = tasks[Mine(k).task].dataset /\ v.payload = Mine(k).buf
        BY <1>1, <2>1 DEF Task
      <4>2. tasks' = [tasks EXCEPT ![Mine(k).task] = v]
        BY <3>1 DEF PutPayload
      <4> HIDE DEF v
      <4>3. QED
        BY <3>1, <4>1, <4>2
    <3>2. CASE StartTask(k)
      <4> DEFINE v == [tasks[Mine(k).task] EXCEPT !.started = TRUE]
      <4>1. v \in Task /\ v.dataset = tasks[Mine(k).task].dataset /\ v.payload = tasks[Mine(k).task].payload
        BY <2>1 DEF Task
      <4>2. tasks' = [tasks EXCEPT ![Mine(k).task] = v] /\ ~PutPayload(k)
        BY <3>2 DEF PutPayload, StartTask
      <4> HIDE DEF v
      <4>3. QED
        BY <4>1, <4>2
    <3>3. QED
      BY <3>1, <3>2
  <2>3. /\ Len(tasks') = Len(tasks) /\ tasks'[Mine(k).task] = u
        /\ \A n \in 1..Len(tasks) : n # Mine(k).task => tasks'[n] = tasks[n]
    BY <2>1, <2>2, ExceptSeq DEF ServiceInv
  <2>4. QED
    BY <1>2, <1>3, <1>5, <2>1, <2>2, <2>3
<1>6. QED
  BY <1>4, <1>5

\* A task has its project, its dataset, and a job that asked for it.
LEMMA TasksStep ==
  ASSUME NEW k \in Jobs, Acts(k), PlainInv, SinksInv, ServiceInv, TasksInv,
         Control(k), OwnInv(k), ReadyInv(k)
  PROVE  TasksInv'
<1>1. /\ Len(projects) \in Nat /\ Len(projects') \in Nat /\ Len(projects) <= Len(projects')
      /\ Len(datasets) \in Nat /\ Len(datasets') \in Nat /\ Len(datasets) <= Len(datasets')
      /\ Len(tasks) \in Nat
      /\ \A n \in 1..Len(tasks) :
           /\ tasks'[n].job = tasks[n].job /\ tasks'[n].role = tasks[n].role
           /\ tasks'[n].project = tasks[n].project /\ tasks'[n].dataset = tasks[n].dataset
  BY Grows, ServiceStep, LenProperties DEF Grown, ServiceInv
<1>2. plan' = plan
  BY PlanStays
\* Longer lists keep the places of what a task names.
<1>3. \A n \in 1..Len(tasks) :
        /\ tasks'[n].job \in DOMAIN plan'
        /\ tasks'[n].project \in 1..Len(projects') /\ tasks'[n].dataset \in 0..Len(datasets')
        /\ tasks'[n].role = "main" => plan'[tasks'[n].job].type \in Annotators
        /\ tasks'[n].role = "main" /\ plan'[tasks'[n].job].type = "tagme-annotator" => tasks'[n].dataset = 0
  <2>1. ASSUME NEW n \in 1..Len(tasks)
        PROVE  /\ tasks[n].job \in DOMAIN plan
               /\ tasks[n].project \in 1..Len(projects') /\ tasks[n].dataset \in 0..Len(datasets')
               /\ tasks[n].role = "main" => plan[tasks[n].job].type \in Annotators
               /\ tasks[n].role = "main" /\ plan[tasks[n].job].type = "tagme-annotator" => tasks[n].dataset = 0
    BY <1>1 DEF TasksInv
  <2>2. QED
    BY <1>1, <1>2, <2>1
<1>4. CASE Len(tasks') = Len(tasks)
  BY <1>4, <1>3 DEF TasksInv
<1>5. CASE (Open(k) /\ Type(k) = "tagme-annotator") \/ PostTask(k)
  <2>1. PICK t : /\ \A n \in 1..Len(tasks) : tasks'[n] = tasks[n]
                 /\ Len(tasks') = Len(tasks) + 1 /\ tasks'[Len(tasks) + 1] = t
                 /\ t.job = k /\ t.role = role[k] /\ t.project = Mine(k).project
                 /\ t.dataset = IF pc[k] = "opening" THEN 0 ELSE Mine(k).dataset
    BY <1>5, NewTask
  <2>2. k \in DOMAIN plan /\ role[k] \in Roles /\ Mine(k) = sink[k][role[k]]
    BY <1>5 DEF Open, Sends, PostTask, Control, PlainInv, Mine
  <2>3. t.project \in 1..Len(projects) /\ t.dataset \in 0..Len(datasets)
    <3>1. CASE pc[k] = "opening"
      BY <1>1, <2>1, <3>1 DEF ReadyInv
    <3>2. CASE PostTask(k)
      <4>1. PlacedAt(k, role[k]) /\ pc[k] = "finalising" /\ Type(k) = "annotator-mock"
        BY <2>2, <3>2 DEF PostTask, ReadyInv, Late, Control, Roles
      <4>2. Mine(k).project \in 1..Len(projects) /\ Mine(k).dataset \in 1..Len(datasets)
        BY <2>2, <4>1 DEF PlacedAt, Placed, Type, Annotators
      <4>3. QED
        BY <1>1, <2>1, <4>1, <4>2
    <3>3. QED
      BY <1>5, <3>1, <3>2 DEF Open, Sends
  <2>4. t.role = "main" => /\ plan[k].type \in Annotators
                           /\ plan[k].type = "tagme-annotator" => t.dataset = 0
    BY <1>5, <2>1 DEF Open, Sends, PostTask, Type, TypeOf, Annotators
  <2>5. ASSUME NEW n \in 1..Len(tasks')
        PROVE  /\ tasks'[n].job \in DOMAIN plan
               /\ tasks'[n].project \in 1..Len(projects') /\ tasks'[n].dataset \in 0..Len(datasets')
               /\ tasks'[n].role = "main" => plan[tasks'[n].job].type \in Annotators
               /\ tasks'[n].role = "main" /\ plan[tasks'[n].job].type = "tagme-annotator" => tasks'[n].dataset = 0
    <3>1. CASE n \in 1..Len(tasks)
      BY <1>1, <3>1 DEF TasksInv
    <3>2. CASE n = Len(tasks) + 1
      BY <1>1, <2>1, <2>2, <2>3, <2>4, <3>2
    <3>3. QED
      BY <1>1, <2>1, <3>1, <3>2
  <2>6. QED
    BY <1>2, <2>5 DEF TasksInv
<1>6. QED
  BY <1>4, <1>5, TaskSteps, OldTask

\* The records that were posted are records of the plan.
LEMMA SentStep ==
  ASSUME NEW k \in Jobs, Acts(k), PlainInv, SinksInv, \A j \in Jobs : Control(j) /\ SentInv(j)
  PROVE  \A j \in Jobs : SentInv(j)'
<1>1. plan' = plan
  BY PlanStays
<1>2. ASSUME NEW j \in Jobs, j # k PROVE SentInv(j)'
  BY <1>1, <1>2, Others DEF SentInv
<1>3. CASE sent' = sent
  BY <1>1, <1>3 DEF SentInv
<1>4. ASSUME Deliver(k) PROVE SentInv(k)'
  BY <1>1, <1>4 DEF Deliver, SentInv, ToSet, PlainInv
<1>5. ASSUME SendRecord(k) PROVE SentInv(k)'
  <2>1. sent'[k] = Append(sent[k], at[k]) /\ sent[k] \in Seq(Nat) /\ at[k] \in Nat \ {0}
    BY <1>5 DEF SendRecord, PlainInv
  <2>2. k \in DOMAIN plan /\ at[k] <= Len(plan[k].records) /\ Len(plan[k].records) \in Nat
    BY <1>5, PlanOK DEF SendRecord, Sends, Control, AtRecord, PlainInv
  <2>3. ToSet(sent[k]) \subseteq 1..Len(plan[k].records)
    BY <2>2 DEF SentInv
  <2>4. \A i \in DOMAIN sent'[k] : sent'[k][i] \in 1..Len(plan[k].records)
    <3>1. /\ DOMAIN sent'[k] = 1..(Len(sent[k]) + 1) /\ DOMAIN sent[k] = 1..Len(sent[k]) /\ Len(sent[k]) \in Nat
          /\ \A i \in 1..Len(sent[k]) : sent'[k][i] = sent[k][i]
          /\ sent'[k][Len(sent[k]) + 1] = at[k]
      BY <2>1, Appended
    <3>2. \A i \in DOMAIN sent[k] : sent[k][i] \in 1..Len(plan[k].records)
      BY <2>3 DEF ToSet
    <3>3. QED
      BY <2>1, <2>2, <3>1, <3>2
  <2>5. QED
    BY <1>1, <2>4 DEF SentInv, ToSet
<1>6. SentInv(k)'
  <2>1. Deliver(k) \/ SendRecord(k) \/ sent' = sent
    BY DEF Acts, Step, CreateDataset, Finalise, Ping, OpenFile, FindDataset, PostDataset,
           PostOrFindDataset, FindProject, PostProject, Open, Link, ResolveAsset, CheckCancelled,
           PutFiles, PutPayload, PostTask, StartTask, Close, Decide, Complete, Fail, End, Return,
           AuthHeaders, Elapse, DeliverWebhook, CallRaises, Refuse, AssetFails, Crash, Cancel, Stay, local
  <2>2. QED
    BY <1>3, <1>4, <1>5, <2>1
<1>7. QED
  BY <1>2, <1>6

\* No cancel is taken back.
LEMMA CutGrows ==
  ASSUME NEW k \in Jobs, Acts(k)
  PROVE  cut \subseteq cut'
  BY DEF Acts, Step, CreateDataset, Finalise, Deliver, Ping, OpenFile, FindDataset, PostDataset,
         PostOrFindDataset, FindProject, PostProject, Open, Link, ResolveAsset, SendRecord,
         CheckCancelled, PutFiles, PutPayload, PostTask, StartTask, Close, Decide, Complete, Fail, End,
         Return, AuthHeaders, Elapse, DeliverWebhook, CallRaises, Refuse, AssetFails, Crash, Cancel,
         Stay, history

\* What has more entries has the records, too.
LEMMA HasMore ==
  ASSUME NEW s, NEW t, NEW j, NEW n, Has(s, j, n), Of(s) \subseteq Of(t)
  PROVE  Has(t, j, n)
  BY DEF Has

\* What a task shows, and what a job has gathered, only grows.
LEMMA ContentGrows ==
  ASSUME NEW k \in Jobs, Grown(k), TasksInv, NEW n \in 1..Len(tasks), tasks'[n] = tasks[n],
         ServiceInv, ServiceInv'
  PROVE  Of(Content(tasks[n])) \subseteq Of(Content(tasks[n])')
<1>1. Len(datasets) \in Nat /\ tasks[n].dataset \in 0..Len(datasets)
  BY LenProperties DEF TasksInv, ServiceInv
<1>2. CASE tasks[n].dataset = 0
  BY <1>2 DEF Content
<1>3. CASE tasks[n].dataset # 0
  <2>1. tasks[n].dataset \in 1..Len(datasets)
    BY <1>1, <1>3
  <2>2. QED
    BY <1>3, <2>1 DEF Grown, Content
<1>4. QED
  BY <1>2, <1>3

LEMMA GatheredGrows ==
  ASSUME NEW k \in Jobs, Grown(k), plan' = plan, NEW j \in Jobs, Uncut(j), pc[j] \in Late, ReadyInv(j),
         sink'[j]["main"].dataset = sink[j]["main"].dataset,
         Of(sink[j]["main"].buf) \subseteq Of(sink'[j]["main"].buf)
  PROVE  Of(Gathered(j)) \subseteq Of(Gathered(j)')
<1>1. CASE plan[j].type = "tagme-annotator"
  BY <1>1 DEF Gathered
<1>2. CASE plan[j].type # "tagme-annotator"
  <2>1. sink[j]["main"].dataset \in 1..Len(datasets)
    BY <1>2 DEF ReadyInv, PlacedAt, Placed, TypeOf, Uncut, Annotators
  <2>2. QED
    BY <1>2, <2>1 DEF Gathered, Grown
<1>3. QED
  BY <1>1, <1>2

\* A job has gathered every record it is past.
LEMMA WholeStep ==
  ASSUME NEW k \in Jobs, Acts(k), PlainInv, SinksInv, ServiceInv, TasksInv,
         \A j \in Jobs : Control(j) /\ OwnInv(j) /\ ReadyInv(j) /\ WholeInv(j)
  PROVE  \A j \in Jobs : WholeInv(j)'
<1>1. Grown(k) /\ ServiceInv' /\ plan' = plan
  BY Grows, ServiceStep, PlanStays
<1>2. /\ Len(tasks) \in Nat /\ Len(tasks') \in Nat /\ Len(tasks) <= Len(tasks')
  BY <1>1, LenProperties DEF Grown, ServiceInv
<1>3. ASSUME NEW j \in Jobs, j # k PROVE WholeInv(j)'
  <2>1. SUFFICES ASSUME Uncut(j)' PROVE WholeInv(j)'
    BY DEF WholeInv
  <2>2. /\ pc'[j] = pc[j] /\ at'[j] = at[j] /\ sink'[j] = sink[j]
        /\ j \in cut' <=> j \in cut
    BY <1>3, Others
  <2>3. Uncut(j)
    BY <1>1, <2>1, <2>2 DEF Uncut
  <2>4. ASSUME pc[j] \in Late PROVE Of(Gathered(j)) \subseteq Of(Gathered(j)')
    <3>1. /\ sink'[j]["main"].dataset = sink[j]["main"].dataset
          /\ Of(sink[j]["main"].buf) \subseteq Of(sink'[j]["main"].buf)
      BY <2>2
    <3>2. ReadyInv(j)
      OBVIOUS
    <3>3. QED
      BY <1>1, <2>3, <2>4, <3>1, <3>2, GatheredGrows
  <2>5. ASSUME pc[j] = "starting", sink[j]["main"].task # 0
        PROVE  Has(Content(tasks[sink[j]["main"].task])', j, Len(plan[j].records))
    <3>1. PICK n \in 1..Len(tasks) : n = sink[j]["main"].task /\ tasks[n].job = j
      BY <1>2, <2>5 DEF OwnInv, Owns, Roles
    <3>2. tasks'[n] = tasks[n]
      BY <1>1, <1>3, <3>1 DEF Grown
    <3>3. Has(Content(tasks[n]), j, Len(plan[j].records))
      BY <2>3, <2>5, <3>1 DEF WholeInv
    <3>4. Of(Content(tasks[n])) \subseteq Of(Content(tasks[n])')
      BY <1>1, <3>2, ContentGrows
    <3>5. Has(Content(tasks[n])', j, Len(plan[j].records))
      BY <3>3, <3>4, HasMore
    <3>6. sink'[j]["main"].task = n
      BY <2>2, <3>1
    <3>7. QED
      BY <3>5, <3>6 DEF Content
  <2>6. /\ pc[j] = "sending" => Has(Gathered(j)', j, at[j] - 1)
        /\ pc[j] = "checking" => Has(Gathered(j)', j, at[j])
        /\ pc[j] = "finalising" => Has(Gathered(j)', j, Len(plan[j].records))
    <3>1. /\ pc[j] = "sending" => Has(Gathered(j), j, at[j] - 1)
          /\ pc[j] = "checking" => Has(Gathered(j), j, at[j])
          /\ pc[j] = "finalising" => Has(Gathered(j), j, Len(plan[j].records))
      BY <2>3 DEF WholeInv
    <3>2. {"sending", "checking", "finalising"} \subseteq Late
      BY DEF Late, AtRecord
    <3>3. QED
      BY <2>4, <3>1, <3>2 DEF Has
  <2>7. QED
    BY <1>1, <2>2, <2>5, <2>6 DEF WholeInv
<1>4. ASSUME pc'[k] \notin {"sending", "checking", "finalising", "starting"} PROVE WholeInv(k)'
  BY <1>4 DEF WholeInv
<1>5. ASSUME WholeInv(k), Uncut(k), Steady(k), UNCHANGED <<service, pc[k], at[k]>> PROVE WholeInv(k)'
  <2>1. Gathered(k)' = Gathered(k)
    BY <1>1, <1>5 DEF Gathered, Steady, Same, service, Roles
  <2>2. Content(tasks[sink[k]["main"].task])' = Content(tasks[sink[k]["main"].task])
    BY <1>5 DEF Content, Steady, Same, service, Roles
  <2>3. sink'[k]["main"].task = sink[k]["main"].task
    BY <1>5 DEF Steady, Same, Roles
  <2>4. QED
    BY <1>1, <1>5, <2>1, <2>2, <2>3 DEF WholeInv
\* Of the job that takes the step, when it is one of whose task the property speaks.
<1>6. ASSUME Uncut(k) PROVE /\ k \in DOMAIN plan /\ Len(plan[k].records) \in Nat
                           /\ plan[k].asset = NULL /\ role[k] = "main" /\ Type(k) = plan[k].type
                           /\ pc[k] # "resolving" /\ WholeInv(k) /\ Control(k) /\ Uncut(k)
  <2>1. k \in DOMAIN plan /\ plan[k].asset = NULL /\ Control(k) /\ role[k] \in {"main", "asset"}
    BY <1>6 DEF Uncut, PlainInv, Roles
  <2>2. role[k] = "main" /\ pc[k] # "resolving"
    BY <2>1 DEF Control
  <2>3. Len(plan[k].records) \in Nat
    BY <2>1, PlanOK DEF PlainInv
  <2>4. QED
    BY <1>6, <2>1, <2>2, <2>3 DEF Type, TypeOf
<1>7. Uncut(k)' => Uncut(k)
  BY <1>1, CutGrows DEF Uncut
<1>8. ASSUME Deliver(k), Uncut(k) PROVE WholeInv(k)'
  BY <1>8, <1>4, <1>6 DEF Deliver, Goto, PlainInv
<1>9. ASSUME Ping(k), Uncut(k) PROVE WholeInv(k)'
  BY <1>9, <1>4, <1>6 DEF Ping, Goto, Stay, service, row, history, PlainInv
<1>10. ASSUME OpenFile(k), Uncut(k) PROVE WholeInv(k)'
  BY <1>10, <1>4, <1>6 DEF OpenFile, SetSink, Goto, Stay, service, row, history, PlainInv
<1>11. ASSUME FindDataset(k), Uncut(k) PROVE WholeInv(k)'
  BY <1>11, <1>4, <1>6 DEF FindDataset, Sends, UseDataset, SetSink, Goto, Stay, service, row,
     history, PlainInv
<1>12. ASSUME PostDataset(k), Uncut(k) PROVE WholeInv(k)'
  BY <1>12, <1>4, <1>6 DEF PostDataset, Sends, UseDataset, SetSink, Goto, Stay, row, history,
     PlainInv
<1>13. ASSUME PostOrFindDataset(k), Uncut(k) PROVE WholeInv(k)'
  BY <1>13, <1>4, <1>6 DEF PostOrFindDataset, UseDataset, SetSink, Goto, Stay, row, history,
     PlainInv
<1>14. ASSUME FindProject(k), Uncut(k) PROVE WholeInv(k)'
  BY <1>14, <1>4, <1>6 DEF FindProject, Sends, SetSink, Goto, Stay, service, row, history,
     PlainInv
<1>15. ASSUME PostProject(k), Uncut(k) PROVE WholeInv(k)'
  BY <1>15, <1>4, <1>6 DEF PostProject, SetSink, Goto, Stay, row, history, PlainInv
<1>16. ASSUME Open(k), Uncut(k) PROVE WholeInv(k)'
  BY <1>16, <1>4, <1>6 DEF Open, Sends, SetSink, Goto, Stay, row, history, PlainInv
<1>17. ASSUME Link(k), Uncut(k) PROVE WholeInv(k)'
  <2>1. role[k] = "main" /\ Loop(k, 1)
    BY <1>17, <1>6 DEF Link, Uncut
  <2>2. pc'[k] = (IF 1 > Len(plan[k].records) THEN "finalising" ELSE "sending") /\ at'[k] = 1
    BY <1>17, <1>6, <2>1 DEF Loop, Goto, PlainInv, Uncut
  <2>3. \A s : Has(s, k, 0)
    BY DEF Has
  <2>4. Len(plan[k].records) \in Nat
    BY <1>17, <1>6
  <2>5. CASE 1 > Len(plan[k].records)
    <3>1. Len(plan[k].records) = 0 /\ pc'[k] = "finalising"
      BY <2>2, <2>4, <2>5
    <3>2. QED
      BY <1>1, <2>3, <3>1 DEF WholeInv
  <2>6. CASE ~(1 > Len(plan[k].records))
    <3>1. pc'[k] = "sending" /\ at'[k] - 1 = 0
      BY <2>2, <2>6
    <3>2. QED
      BY <1>1, <2>3, <3>1 DEF WholeInv
  <2>7. QED
    BY <2>5, <2>6
<1>18. ASSUME ResolveAsset(k), Uncut(k) PROVE WholeInv(k)'
  BY <1>18, <1>4, <1>6 DEF ResolveAsset, Sends, PostFile, InMemory, SetSink, Goto, service, row,
     history, PlainInv
<1>19. ASSUME SendRecord(k), Uncut(k) PROVE WholeInv(k)'
  <2>1. /\ pc[k] = "sending" /\ pc'[k] = "checking" /\ at' = at /\ role[k] = "main"
        /\ at[k] \in Nat \ {0}
    BY <1>19, <1>6 DEF SendRecord, Sends, Goto, PlainInv
  <2>2. PICK name, data : /\ PostFile(k, name, data, <<k, at[k]>>)
                          /\ [name |-> name, of |-> <<k, at[k]>>] \in Entry
    BY <1>19, RecordOK DEF SendRecord, Sends, AtRecord
  <2>3. CASE plan[k].type = "tagme-annotator"
    <3>1. sink'[k]["main"].buf = Append(sink[k]["main"].buf, [name |-> name, of |-> <<k, at[k]>>])
      <4>1. "main" \in Roles /\ Type(k) = "tagme-annotator"
        BY <2>1, <2>3 DEF Type, TypeOf, Roles
      <4>2. sink'[k]["main"].buf = IF "main" = role[k] /\ Type(k) = "tagme-annotator"
                                   THEN Append(sink[k]["main"].buf, [name |-> name, of |-> <<k, at[k]>>])
                                   ELSE sink[k]["main"].buf
        BY <2>2, <4>1, PostMoves
      <4>3. QED
        BY <2>1, <4>1, <4>2
    <3>2. sink[k]["main"].buf \in Seq(Entry)
      BY DEF SinksInv, SinkOK, Roles
    <3>3. Of(sink[k]["main"].buf) \subseteq Of(sink'[k]["main"].buf) /\ <<k, at[k]>> \in Of(sink'[k]["main"].buf)
      <4> DEFINE e == [name |-> name, of |-> <<k, at[k]>>]
      <4>1. e \in Entry /\ e.of = <<k, at[k]>>
        BY <2>2
      <4> HIDE DEF e
      <4>2. sink'[k]["main"].buf = Append(sink[k]["main"].buf, e)
        BY <3>1 DEF e
      <4>3. QED
        BY <3>2, <4>1, <4>2, AppendOf
    <3>4. Has(sink[k]["main"].buf, k, at[k] - 1)
      BY <1>19, <1>6, <2>1, <2>3 DEF WholeInv, Gathered
    <3>5. Has(sink'[k]["main"].buf, k, at[k])
      BY <2>1, <3>3, <3>4 DEF Has
    <3>6. QED
      BY <1>1, <2>1, <2>3, <3>5 DEF WholeInv, Gathered
  <2>4. CASE plan[k].type # "tagme-annotator"
    <3>1. Type(k) = "annotator-mock" /\ Mine(k) = sink[k]["main"]
      BY <1>19, <1>6, <2>1, <2>4 DEF Type, TypeOf, Uncut, Annotators, Mine
    <3>2. sink'[k]["main"].dataset = sink[k]["main"].dataset
      BY <2>2, PostMoves DEF Roles
    <3>3. sink[k]["main"].dataset \in 1..Len(datasets)
      BY <2>1, <3>1 DEF ReadyInv, PlacedAt, Placed, Type, Late, AtRecord, Annotators
    <3>4. PICK d \in 1..Len(datasets) : d = sink[k]["main"].dataset
      BY <3>3
    <3>5. Of(datasets[d].files) \subseteq Of(datasets'[d].files) /\ <<k, at[k]>> \in Of(datasets'[d].files)
      BY <2>2, <3>1, <3>4, PostGrows
    <3>6. Has(datasets[d].files, k, at[k] - 1)
      BY <1>19, <1>6, <2>1, <2>4, <3>4 DEF WholeInv, Gathered
    <3>7. Has(datasets'[d].files, k, at[k])
      BY <2>1, <3>5, <3>6 DEF Has
    <3>8. QED
      BY <1>1, <2>1, <2>4, <3>2, <3>4, <3>7 DEF WholeInv, Gathered
  <2>5. QED
    BY <2>3, <2>4
<1>20. ASSUME CheckCancelled(k), Uncut(k) PROVE WholeInv(k)'
  <2>1. status[k] # "cancelled" /\ pc[k] = "checking"
    BY <1>20, <1>6 DEF CheckCancelled, Control, Uncut
  <2>2. Loop(k, at[k] + 1)
    BY <1>20, <2>1 DEF CheckCancelled
  <2>3. at[k] \in Nat \ {0} /\ at[k] <= Len(plan[k].records) /\ Len(plan[k].records) \in Nat
    BY <1>20, <1>6, <2>1 DEF PlainInv, Control, AtRecord, Uncut
  <2>4. /\ at'[k] = at[k] + 1
        /\ pc'[k] = IF at[k] + 1 > Len(plan[k].records) THEN "finalising" ELSE "sending"
    BY <1>20, <1>6, <2>2 DEF Loop, Goto, PlainInv, Uncut
  <2>5. Has(Gathered(k)', k, at[k])
    <3>1. Has(Gathered(k), k, at[k])
      BY <1>20, <1>6, <2>1 DEF WholeInv
    <3>2. UNCHANGED <<plan, sink, datasets>>
      BY <1>20 DEF CheckCancelled, service
    <3>3. Gathered(k)' = Gathered(k)
      BY <3>2 DEF Gathered
    <3>4. QED
      BY <3>1, <3>3
  <2>6. CASE at[k] + 1 > Len(plan[k].records)
    <3>1. at[k] = Len(plan[k].records) /\ pc'[k] = "finalising"
      BY <2>3, <2>4, <2>6
    <3>2. QED
      BY <1>1, <2>5, <3>1 DEF WholeInv
  <2>7. CASE ~(at[k] + 1 > Len(plan[k].records))
    <3>1. at'[k] - 1 = at[k] /\ pc'[k] = "sending"
      BY <2>3, <2>4, <2>7
    <3>2. QED
      BY <1>1, <2>5, <3>1 DEF WholeInv
  <2>8. QED
    BY <2>6, <2>7
<1>21. ASSUME PutFiles(k), Uncut(k) PROVE WholeInv(k)'
  BY <1>21, <1>4, <1>6 DEF PutFiles, SetSink, Goto, Stay, service, row, history, PlainInv,
     Files, Zips, Jsonls, DatasetTypes, Annotators, Uncut
<1>22. ASSUME PutPayload(k), Uncut(k) PROVE WholeInv(k)'
  <2>1. /\ pc[k] = "finalising" /\ pc'[k] = "starting" /\ Type(k) = "tagme-annotator"
        /\ role[k] = "main" /\ role' = role
    BY <1>22, <1>6 DEF PutPayload, Goto, Stay, PlainInv
  <2>2. Mine(k) = sink[k]["main"] /\ plan[k].type = "tagme-annotator"
    BY <2>1 DEF Mine, Type, TypeOf
  <2>3. sink'[k]["main"].task = sink[k]["main"].task
    BY <1>22, Steadies DEF Steady, Same, Roles
  <2>4. Has(sink[k]["main"].buf, k, Len(plan[k].records))
    BY <1>22, <1>6, <2>1, <2>2 DEF WholeInv, Gathered
  <2>5. ASSUME sink[k]["main"].task # 0
        PROVE  Has(Content(tasks[sink[k]["main"].task])', k, Len(plan[k].records))
    <3>1. PICK n : n = sink[k]["main"].task
      OBVIOUS
    <3>2. /\ n \in 1..Len(tasks) /\ tasks[n].job = k /\ tasks[n].role = "main"
          /\ tasks'[n].dataset = tasks[n].dataset /\ tasks'[n].payload = sink[k]["main"].buf
      BY <1>22, <2>1, <2>2, <2>5, <3>1, OldTask
    <3>3. tasks[n].dataset = 0
      BY <2>2, <3>2 DEF TasksInv
    <3>4. Content(tasks[n])' = sink[k]["main"].buf
      BY <3>2, <3>3 DEF Content
    <3>5. Content(tasks[sink[k]["main"].task])' = Content(tasks[n])'
      BY <2>3, <3>1 DEF Content
    <3>6. QED
      BY <2>4, <3>4, <3>5
  <2>6. QED
    BY <1>1, <2>1, <2>3, <2>5 DEF WholeInv
<1>23. ASSUME PostTask(k), Uncut(k) PROVE WholeInv(k)'
  <2>1. /\ pc[k] = "finalising" /\ pc'[k] = "starting" /\ Type(k) = "annotator-mock"
        /\ role[k] = "main" /\ datasets' = datasets
    BY <1>23, <1>6 DEF PostTask, Goto, Stay, PlainInv
  <2>2. Mine(k) = sink[k]["main"] /\ plan[k].type = "annotator-mock"
    BY <2>1 DEF Mine, Type, TypeOf
  <2>3. PICK n : /\ sink'[k]["main"].task = n
                 /\ tasks'[n].dataset = sink[k]["main"].dataset
    BY <1>23, <2>1, <2>2, NewTask
  <2>4. sink[k]["main"].dataset \in 1..Len(datasets)
    BY <2>1, <2>2 DEF ReadyInv, PlacedAt, Placed, TypeOf, Late, Annotators
  <2>5. Has(Gathered(k), k, Len(plan[k].records)) /\ Gathered(k) = datasets[sink[k]["main"].dataset].files
    BY <1>23, <1>6, <2>1, <2>2 DEF WholeInv, Gathered
  <2>6. Content(tasks[n])' = datasets[sink[k]["main"].dataset].files
    BY <2>1, <2>3, <2>4 DEF Content
  <2>7. Content(tasks[sink[k]["main"].task])' = Content(tasks[n])'
    BY <2>3 DEF Content
  <2>8. QED
    BY <1>1, <2>1, <2>5, <2>6, <2>7 DEF WholeInv
<1>24. ASSUME StartTask(k), Uncut(k) PROVE WholeInv(k)'
  BY <1>24, <1>4, <1>6 DEF StartTask, SetSink, Goto, Stay, row, history, PlainInv
<1>25. ASSUME Close(k), Uncut(k) PROVE WholeInv(k)'
  BY <1>25, <1>4, <1>6 DEF Close, Goto, service, local, history, PlainInv
<1>26. ASSUME Decide(k), Uncut(k) PROVE WholeInv(k)'
  BY <1>26, <1>4, <1>6 DEF Decide, Goto, Stay, service, row, history, PlainInv
<1>27. ASSUME Complete(k), Uncut(k) PROVE WholeInv(k)'
  BY <1>27, <1>4, <1>6 DEF Complete, End, Goto, service, local, history, PlainInv
<1>28. ASSUME Fail(k), Uncut(k) PROVE WholeInv(k)'
  BY <1>28, <1>4, <1>6 DEF Fail, End, Goto, service, local, history, PlainInv
<1>29. ASSUME Return(k), Uncut(k) PROVE WholeInv(k)'
  BY <1>29, <1>4, <1>6 DEF Return, Forget, Goto, Stay, service, row, history, PlainInv
<1>30. ASSUME AuthHeaders(k), Uncut(k) PROVE WholeInv(k)'
  <2>1. UNCHANGED <<service, pc[k], at[k]>>
    BY <1>30 DEF AuthHeaders, Stay, service, row, history
  <2>2. Steady(k)
    BY <1>30, Steadies
  <2>3. QED
    BY <1>30, <1>5, <1>6, <2>1, <2>2
<1>31. ASSUME Elapse(k), Uncut(k) PROVE WholeInv(k)'
  <2>1. UNCHANGED <<service, pc[k], at[k]>>
    BY <1>31 DEF Elapse, Stay, service, row, history
  <2>2. Steady(k)
    BY <1>31, Steadies
  <2>3. QED
    BY <1>31, <1>5, <1>6, <2>1, <2>2
<1>32. ASSUME DeliverWebhook(k), Uncut(k) PROVE WholeInv(k)'
  <2>1. UNCHANGED <<service, pc[k], at[k]>>
    BY <1>32 DEF DeliverWebhook, service, row, local
  <2>2. Steady(k)
    BY <1>32, Steadies
  <2>3. QED
    BY <1>32, <1>5, <1>6, <2>1, <2>2
<1>33. ASSUME CallRaises(k), Uncut(k) PROVE WholeInv(k)'
  BY <1>33, <1>4, <1>6 DEF CallRaises, Raise, Goto, Stay, service, row, history, PlainInv
<1>34. ASSUME Refuse(k), Uncut(k) PROVE WholeInv(k)'
  BY <1>34, <1>4, <1>6 DEF Refuse, Raise, Goto, service, row, PlainInv
<1>35. ASSUME AssetFails(k), Uncut(k) PROVE WholeInv(k)'
  BY <1>35, <1>4, <1>6 DEF AssetFails, PostFile, InMemory, SetSink, Goto, service, row, history,
     PlainInv
<1>36. ASSUME Crash(k), Uncut(k) PROVE WholeInv(k)'
  BY <1>36, <1>4, <1>6 DEF Crash, Forget, Goto, service, row, history, PlainInv
<1>37. ASSUME Cancel(k), Uncut(k) PROVE WholeInv(k)'
  <2>1. UNCHANGED <<service, pc[k], at[k]>>
    BY <1>37 DEF Cancel, service, local
  <2>2. Steady(k)
    BY <1>37, Steadies
  <2>3. QED
    BY <1>37, <1>5, <1>6, <2>1, <2>2
<1>38. WholeInv(k)'
  <2>1. CASE Uncut(k)
    BY <2>1, <1>8, <1>9, <1>10, <1>11, <1>12, <1>13, <1>14, <1>15, <1>16, <1>17, <1>18, <1>19,
       <1>20, <1>21, <1>22, <1>23, <1>24, <1>25, <1>26, <1>27, <1>28, <1>29, <1>30, <1>31,
       <1>32, <1>33, <1>34, <1>35, <1>36, <1>37 DEF Acts, Step, CreateDataset, Finalise
  <2>2. CASE ~Uncut(k)
    BY <1>7, <2>2 DEF WholeInv
  <2>3. QED
    BY <2>1, <2>2
<1>39. QED
  BY <1>3, <1>38

\* A task that annotators can see has all records of its export.
LEMMA StartedStep ==
  ASSUME NEW k \in Jobs, Acts(k), PlainInv, SinksInv, ServiceInv, TasksInv, StartedInv,
         \A j \in Jobs : Control(j) /\ OwnInv(j) /\ ReadyInv(j) /\ WholeInv(j),
         WholeInv(k)'
  PROVE  StartedInv'
<1>1. Grown(k) /\ ServiceInv' /\ plan' = plan
  BY Grows, ServiceStep, PlanStays
<1>2. Len(tasks) \in Nat /\ Len(tasks') \in Nat
  BY <1>1, LenProperties DEF ServiceInv
<1>3. SUFFICES ASSUME NEW n \in 1..Len(tasks'), NEW j, j = tasks'[n].job, tasks'[n].started,
                      tasks'[n].role = "main", Uncut(j)'
               PROVE  Has(Content(tasks[n])', j, Len(plan[j].records))
  BY <1>1 DEF StartedInv, Uncut, Has
<1>4. CASE n \in 1..Len(tasks) /\ tasks'[n] = tasks[n]
  <2>1. tasks[n].started /\ tasks[n].role = "main" /\ tasks[n].job = j
    BY <1>3, <1>4
  <2>2. Uncut(j)
    BY <1>1, <1>3, CutGrows DEF Uncut
  <2>3. Has(Content(tasks[n]), j, Len(plan[j].records))
    BY <1>4, <2>1, <2>2 DEF StartedInv
  <2>4. Of(Content(tasks[n])) \subseteq Of(Content(tasks[n])')
    BY <1>1, <1>4, ContentGrows
  <2>5. QED
    BY <2>1, <2>3, <2>4, HasMore
<1>5. CASE (PutPayload(k) \/ StartTask(k)) /\ tasks'[n] # tasks[n]
  <2>1. /\ n = Mine(k).task /\ n # 0 /\ n \in 1..Len(tasks) /\ datasets' = datasets
        /\ tasks[n].job = k /\ tasks[n].role = role[k] /\ tasks'[n].dataset = tasks[n].dataset
        /\ tasks'[n].payload = IF PutPayload(k) THEN Mine(k).buf ELSE tasks[n].payload
    BY <1>2, <1>5, OldTask
  <2>2. j = k /\ tasks'[n].role = role[k]
    BY <1>1, <1>3, <2>1 DEF Grown
  <2>3. role[k] = "main" /\ n = sink[k]["main"].task
    BY <1>3, <2>1, <2>2 DEF Mine
  <2>4. Uncut(k)' /\ Uncut(k)
    BY <1>1, <1>3, <2>2, CutGrows DEF Uncut
  <2>5. CASE PutPayload(k)
    <3>1. sink'[k]["main"].task = n /\ pc'[k] = "starting"
      BY <2>3, <2>5, Steadies DEF Steady, Same, Roles, PutPayload, Goto, PlainInv
    <3>2. Has(Content(tasks[sink[k]["main"].task])', k, Len(plan[k].records))
      BY <1>1, <2>1, <2>4, <3>1 DEF WholeInv
    <3>3. Content(tasks[sink[k]["main"].task])' = Content(tasks[n])'
      BY <3>1 DEF Content
    <3>4. QED
      BY <2>2, <3>2, <3>3
  <2>6. CASE StartTask(k)
    <3>1. pc[k] = "starting" /\ ~PutPayload(k)
      BY <2>6 DEF StartTask, PutPayload
    <3>2. Has(Content(tasks[n]), k, Len(plan[k].records))
      BY <2>1, <2>3, <2>4, <3>1 DEF WholeInv
    <3>3. Content(tasks[n])' = Content(tasks[n])
      BY <2>1, <3>1 DEF Content
    <3>4. QED
      BY <2>2, <3>2, <3>3
  <2>7. QED
    BY <1>5, <2>5, <2>6
<1>6. CASE (Open(k) /\ Type(k) = "tagme-annotator") \/ PostTask(k)
  <2>1. n \in 1..Len(tasks) => tasks'[n] = tasks[n]
    BY <1>6, NewTask
  <2>2. n = Len(tasks) + 1 => ~tasks'[n].started
    BY <1>6, NewTask
  <2>3. n \in 1..(Len(tasks) + 1)
    BY <1>6, NewTask
  <2>4. n \in 1..Len(tasks)
    BY <1>2, <1>3, <2>2, <2>3
  <2>5. QED
    BY <1>4, <2>1, <2>4
<1>7. QED
  <2>1. CASE tasks' = tasks
    BY <1>4, <2>1
  <2>2. CASE PutPayload(k) \/ StartTask(k)
    <3>1. n \in 1..Len(tasks)
      BY <2>2, OldTask
    <3>2. QED
      BY <1>4, <1>5, <2>2, <3>1
  <2>3. QED
    BY <1>6, <2>1, <2>2, TaskSteps

-----------------------------------------------------------------------------
(* What the other steps leave alone                                        *)

\* The destinations are those of the plan.
LEMMA SamePlan ==
  ASSUME plan' = plan, NEW j, NEW r
  PROVE  /\ TypeOf(j, r)' = TypeOf(j, r) /\ DestOf(j, r)' = DestOf(j, r) /\ Place(j, r)' = Place(j, r)
         /\ Lone(j, r)' = Lone(j, r)
  BY DEF TypeOf, DestOf, Place, Path, Clash, Lone

\* Entries s that are full stay so as long as there is no more to show.
LEMMA FullStays ==
  ASSUME NEW j, NEW r \in Roles, NoMore(j, r), NEW s, NEW u, Fills(j, r, s), ToSet(s) \subseteq ToSet(u),
         TypeOf(j, r) \in Files \cup {"tagme-annotator"} => u = s
  PROVE  Full(TypeOf(j, r), r, Posted(j)', Owed(j)', u)
<1>1. Of(s) \subseteq Of(u)
  BY DEF Of
<1>2. Private(TypeOf(j, r)) => Of(u) = Of(s)
  BY DEF Private
<1>3. CASE r = "main"
  <2>1. Posted(j)' = Posted(j)
    BY <1>3 DEF NoMore
  <2>2. Posted(j) \subseteq Of(s) /\ (Private(TypeOf(j, r)) => Of(s) = Posted(j))
    BY <1>3 DEF Fills, Full
  <2>3. QED
    BY <1>1, <1>2, <1>3, <2>1, <2>2 DEF Full
<1>4. CASE r = "asset"
  <2>1. Owed(j)' \subseteq Owed(j)
    BY <1>4 DEF NoMore
  <2>2. TypeOf(j, r) \notin Jsonls => Owed(j) \subseteq ToSet(s)
    BY <1>4 DEF Fills, Full
  <2>3. QED
    BY <1>1, <1>4, <2>1, <2>2 DEF Full
<1>5. QED
  BY <1>3, <1>4 DEF Roles

LEMMA PathsOwn ==
  ASSUME NEW t, NEW d, NEW j
  PROVE  /\ Own(t, d, j, Path(t, d, j))
         /\ \A u : Own(t, d, j, AssetPath(t, d, j, u))
  BY DEF Own, Path, AssetPath

\* Files that keep those of the sink hold what they did.
LEMMA HoldsStays ==
  ASSUME NEW j, NEW r \in Roles, NoMore(j, r), NEW f, NEW g, Holds(j, r, f),
         DOMAIN f \subseteq DOMAIN g,
         \A p \in DOMAIN f : Own(TypeOf(j, r), DestOf(j, r), j, p) => g[p] = f[p]
  PROVE  /\ Place(j, r) \in DOMAIN g /\ g[Place(j, r)] \in Seq(Entry)
         /\ Beside(TypeOf(j, r), r, DestOf(j, r), j, plan[j].records, Owed(j)', g)
         /\ Full(TypeOf(j, r), r, Posted(j)', Owed(j)', g[Place(j, r)])
<1>1. g[Place(j, r)] = f[Place(j, r)]
  BY PathsOwn DEF Holds, Place
<1>2. Place(j, r) \in DOMAIN g /\ g[Place(j, r)] \in Seq(Entry)
  BY <1>1 DEF Holds
<1>3. ASSUME r = "asset", TypeOf(j, r) \in Jsonls, NEW e \in Owed(j)'
      PROVE  LET p == AssetPath(TypeOf(j, r), DestOf(j, r), j, e.name)
             IN  p \in DOMAIN g /\ (Sole(j, plan[j].records, e) => g[p] = <<e>>)
  <2>1. e \in Owed(j)
    BY <1>3 DEF NoMore
  <2>2. PICK p : p = AssetPath(TypeOf(j, r), DestOf(j, r), j, e.name)
    OBVIOUS
  <2>3. p \in DOMAIN f /\ (Sole(j, plan[j].records, e) => f[p] = <<e>>)
    BY <1>3, <2>1, <2>2 DEF Holds, Beside
  <2>4. g[p] = f[p]
    BY <2>2, <2>3, PathsOwn
  <2>5. QED
    BY <2>2, <2>3, <2>4
<1>4. Beside(TypeOf(j, r), r, DestOf(j, r), j, plan[j].records, Owed(j)', g)
  BY <1>3 DEF Beside
<1>5. Full(TypeOf(j, r), r, Posted(j)', Owed(j)', g[Place(j, r)])
  BY <1>1, FullStays DEF Holds
<1>6. QED
  BY <1>2, <1>4, <1>5

LEMMA SetStays ==
  ASSUME NEW j, NEW r \in Roles, plan' = plan, NoMore(j, r), ListsKept, NEW d, IsSet(j, r, d)
  PROVE  /\ d # 0 /\ d \in {Uuid[DestOf(j, r)']} \cup Named(DestOf(j, r))'
         /\ d \notin DOMAIN datasets' => Bare(j, r)'
<1>1. d \notin DOMAIN datasets' => Bare(j, r)'
  BY DEF IsSet, ListsKept, Bare, NoMore, Roles
<1>2. d \in Named(DestOf(j, r)) => d \in Named(DestOf(j, r))'
  BY SamePlan DEF Named, ListsKept
<1>3. QED
  BY <1>1, <1>2, SamePlan DEF IsSet

\* A dataset that is full, or makes up for nothing, stays so.
LEMMA FilesStay ==
  ASSUME NEW j, NEW r \in Roles, plan' = plan, NoMore(j, r), ListsKept, NEW d,
         TypeOf(j, r) \in DatasetTypes, IsSet(j, r, d), d \in DOMAIN datasets => Fills(j, r, datasets[d].files),
         d \in DOMAIN datasets'
  PROVE  Full(TypeOf(j, r), r, Posted(j)', Owed(j)', datasets'[d].files)
<1>1. TypeOf(j, r) \notin Files \cup {"tagme-annotator"}
  BY DEF DatasetTypes, Files, Zips, Jsonls
<1>2. CASE d \in DOMAIN datasets
  BY <1>1, <1>2, FullStays DEF ListsKept
<1>3. CASE d \notin DOMAIN datasets
  <2>1. Bare(j, r)
    BY <1>3 DEF IsSet
  <2>2. CASE r = "main"
    BY <1>1, <2>1, <2>2 DEF Bare, NoMore, Full, Private
  <2>3. CASE r = "asset"
    BY <1>1, <2>1, <2>3 DEF Bare, NoMore, Full
  <2>4. QED
    BY <2>2, <2>3 DEF Roles
<1>4. QED
  BY <1>2, <1>3

LEMMA ProjectStays ==
  ASSUME NEW j, NEW r \in Roles, plan' = plan, ListsKept, NEW p, IsProject(j, r, p)
  PROVE  p \in ProjectFor(DestOf(j, r))'
  BY SamePlan DEF IsProject, ProjectFor, ListsKept

\* What a sink gathers, and what an id leads to, stays full.
LEMMA GatheringStays ==
  ASSUME NEW j, NEW r \in Roles, plan' = plan, NoMore(j, r), Keeps(j, r), Alike(sink'[j][r], sink[j][r]),
         Putting(j, r) => Putting(j, r)',
         Owns(j, r, sink[j][r], projects, tasks), Len(tasks) \in Nat, Gathering(j, r)
  PROVE  Gathering(j, r)'
<1> DEFINE t == TypeOf(j, r)
           s == sink[j][r]
           u == sink'[j][r]
<1>1. t' = t /\ Place(j, r)' = Place(j, r) /\ DestOf(j, r)' = DestOf(j, r)
  BY SamePlan
<1>2. t \in InMem => Holds(j, r, IF Putting(j, r) THEN Over(s.mem, objects) ELSE s.mem)'
  <2> DEFINE f == IF Putting(j, r) THEN Over(s.mem, objects) ELSE s.mem
             g == IF Putting(j, r)' THEN Over(s.mem, objects') ELSE s.mem
  <2>1. SUFFICES ASSUME t \in InMem
                 PROVE  Holds(j, r, IF Putting(j, r) THEN Over(s.mem, objects) ELSE s.mem)'
    OBVIOUS
  <2>2. Holds(j, r, f) /\ u.mem = s.mem /\ t \in Files
    BY <2>1 DEF Gathering, Alike, InMem, Files, Jsonls
  <2>3. DOMAIN f \subseteq DOMAIN g /\ \A p \in DOMAIN f : Own(t, DestOf(j, r), j, p) => g[p] = f[p]
    BY <2>2 DEF Keeps, FilesKept, Over
  <2> HIDE DEF f, g
  <2>4. /\ Place(j, r) \in DOMAIN g /\ g[Place(j, r)] \in Seq(Entry)
        /\ Beside(t, r, DestOf(j, r), j, plan[j].records, Owed(j)', g)
        /\ Full(t, r, Posted(j)', Owed(j)', g[Place(j, r)])
    BY <2>2, <2>3, HoldsStays
  <2>5. g = IF Putting(j, r)' THEN Over(sink'[j][r].mem, objects') ELSE sink'[j][r].mem
    BY <2>2 DEF g
  <2>6. QED
    BY <1>1, <2>4, <2>5 DEF Holds, Fills
<1>3. t = "local-jsonl" => Holds(j, r, objects)'
  <2>1. SUFFICES ASSUME t = "local-jsonl" PROVE Holds(j, r, objects)'
    OBVIOUS
  <2>2. Holds(j, r, objects) /\ t \in Files
    BY <2>1 DEF Gathering, Files, Jsonls
  <2>3. /\ DOMAIN objects \subseteq DOMAIN objects'
        /\ \A p \in DOMAIN objects : Own(t, DestOf(j, r), j, p) => objects'[p] = objects[p]
    BY <2>2 DEF Keeps, FilesKept
  <2>4. /\ Place(j, r) \in DOMAIN objects' /\ objects'[Place(j, r)] \in Seq(Entry)
        /\ Beside(t, r, DestOf(j, r), j, plan[j].records, Owed(j)', objects')
        /\ Full(t, r, Posted(j)', Owed(j)', objects'[Place(j, r)])
    BY <2>2, <2>3, HoldsStays
  <2>5. QED
    BY <1>1, <2>4 DEF Holds, Fills
<1>4. t \in DatasetTypes => /\ u.ext = u.dataset /\ IsSet(j, r, s.dataset)'
                            /\ u.dataset \in DOMAIN datasets' => Fills(j, r, datasets[s.dataset].files)'
  <2>1. SUFFICES ASSUME t \in DatasetTypes
                 PROVE  /\ u.ext = u.dataset /\ IsSet(j, r, s.dataset)'
                        /\ u.dataset \in DOMAIN datasets' => Fills(j, r, datasets[s.dataset].files)'
    OBVIOUS
  <2>2. PICK d : d = s.dataset /\ d = u.dataset /\ u.ext = d
    BY <2>1 DEF Alike, Gathering
  <2>3. IsSet(j, r, d) /\ (d \in DOMAIN datasets => Fills(j, r, datasets[d].files)) /\ ListsKept
    BY <2>1, <2>2 DEF Gathering, Keeps
  <2>4. IsSet(j, r, s.dataset)'
    BY <2>2, <2>3, SetStays DEF IsSet
  <2>5. d \in DOMAIN datasets' => Full(t, r, Posted(j)', Owed(j)', datasets'[d].files)
    BY <2>1, <2>3, FilesStay
  <2>6. QED
    BY <1>1, <2>2, <2>4, <2>5 DEF Fills
<1>5. t \in Annotators => IsProject(j, r, s.project)'
  <2>1. t \in Annotators => u.project \in ProjectFor(DestOf(j, r))'
    BY ProjectStays DEF Gathering, Alike, Keeps
  <2>2. QED
    BY <2>1 DEF IsProject
<1>6. t = "tagme-annotator" =>
        u.task # 0 /\ tasks'[u.task].project = u.project /\ Fills(j, r, s.buf)'
  <2>1. SUFFICES ASSUME t = "tagme-annotator"
                 PROVE  u.task # 0 /\ tasks'[u.task].project = u.project /\ Fills(j, r, s.buf)'
    OBVIOUS
  <2>2. s.task # 0 /\ tasks[s.task].project = s.project /\ Fills(j, r, s.buf)
    BY <2>1 DEF Gathering
  <2>3. s.task \in 1..Len(tasks) /\ tasks[s.task].job = j /\ tasks[s.task].role = r
    BY <2>2 DEF Owns
  <2>4. u.task # 0 /\ tasks'[u.task].project = u.project
    BY <2>2, <2>3 DEF Keeps, TasksKept, Alike
  <2>5. Full(t, r, Posted(j)', Owed(j)', u.buf)
    BY <2>2, FullStays DEF Alike
  <2>6. QED
    BY <1>1, <2>4, <2>5 DEF Fills
<1>7. t = "annotator-mock" => u.dataset \in DOMAIN datasets' /\ Fills(j, r, datasets[s.dataset].files)'
  <2>1. SUFFICES ASSUME t = "annotator-mock"
                 PROVE  u.dataset \in DOMAIN datasets' /\ Fills(j, r, datasets[s.dataset].files)'
    OBVIOUS
  <2>2. PICK d : d = s.dataset /\ d = u.dataset
    BY DEF Alike
  <2>3. /\ d \in DOMAIN datasets /\ Fills(j, r, datasets[d].files) /\ d \in DOMAIN datasets'
        /\ ToSet(datasets[d].files) \subseteq ToSet(datasets'[d].files)
    BY <2>1, <2>2 DEF Gathering, Keeps, ListsKept
  <2>4. t \notin Files \cup {"tagme-annotator"}
    BY <2>1 DEF Files, Zips, Jsonls
  <2>5. Full(t, r, Posted(j)', Owed(j)', datasets'[d].files)
    BY <2>3, <2>4, FullStays
  <2>6. QED
    BY <1>1, <2>2, <2>3, <2>5 DEF Fills
<1>8. QED
  BY <1>1, <1>2, <1>3, <1>4, <1>5, <1>6, <1>7 DEF Gathering

LEMMA ShowsStays ==
  ASSUME NEW j, NEW r \in Roles, plan' = plan, NoMore(j, r), Keeps(j, r), Known(j, r)' = Known(j, r),
         Shows(j, r)
  PROVE  /\ Shows(j, r)'
         /\ TypeOf(j, r) \in Annotators => tasks'[Known(j, r)'] = tasks[Known(j, r)]
<1> DEFINE t == TypeOf(j, r)
<1>1. t' = t /\ Place(j, r)' = Place(j, r) /\ DestOf(j, r)' = DestOf(j, r)
  BY SamePlan
<1>2. PICK id : id = Known(j, r) /\ id = Known(j, r)'
  OBVIOUS
<1>3. t \in Files => Holds(j, r, objects)'
  <2>1. t \in Files => /\ Holds(j, r, objects)
                       /\ DOMAIN objects \subseteq DOMAIN objects'
                       /\ \A p \in DOMAIN objects : Own(t, DestOf(j, r), j, p) => objects'[p] = objects[p]
    BY DEF Shows, Keeps, FilesKept
  <2>2. QED
    BY <1>1, <2>1, HoldsStays DEF Holds, Fills
<1>4. t \in DatasetTypes =>
        IsSet(j, r, Known(j, r))' /\ (id \in DOMAIN datasets' => Fills(j, r, datasets[Known(j, r)].files)')
  <2>1. SUFFICES ASSUME t \in DatasetTypes
                 PROVE  /\ IsSet(j, r, Known(j, r))'
                        /\ id \in DOMAIN datasets' => Fills(j, r, datasets[Known(j, r)].files)'
    OBVIOUS
  <2>2. IsSet(j, r, id) /\ (id \in DOMAIN datasets => Fills(j, r, datasets[id].files)) /\ ListsKept
    BY <1>2, <2>1 DEF Shows, Keeps
  <2>3. IsSet(j, r, Known(j, r))'
    BY <1>2, <2>2, SetStays DEF IsSet
  <2>4. id \in DOMAIN datasets' => Full(t, r, Posted(j)', Owed(j)', datasets'[id].files)
    BY <2>1, <2>2, FilesStay
  <2>5. QED
    BY <1>1, <1>2, <2>3, <2>4 DEF Fills
<1>5. t \in Annotators => /\ id \in 1..Len(tasks') /\ tasks'[id] = tasks[id]
                          /\ tasks'[id].job = j /\ tasks'[id].role = r
  BY <1>2 DEF Shows, Keeps, TasksKept
<1>6. t \in Annotators => IsProject(j, r, tasks[Known(j, r)].project)'
  <2>1. t \in Annotators => tasks'[id].project \in ProjectFor(DestOf(j, r))'
    BY <1>2, <1>5, ProjectStays DEF Shows, Keeps
  <2>2. QED
    BY <1>2, <2>1 DEF IsProject
<1>7. t = "tagme-annotator" => Fills(j, r, tasks[Known(j, r)].payload)'
  <2>1. t = "tagme-annotator" => tasks'[id] = tasks[id] /\ Fills(j, r, tasks[id].payload)
    BY <1>2, <1>5 DEF Shows, Annotators
  <2>2. t = "tagme-annotator" => Full(t, r, Posted(j)', Owed(j)', tasks'[id].payload)
    BY <2>1, FullStays
  <2>3. QED
    BY <1>1, <1>2, <2>2 DEF Fills
<1>8. t = "annotator-mock" =>
        tasks'[id].dataset \in DOMAIN datasets' /\ Fills(j, r, datasets[tasks[Known(j, r)].dataset].files)'
  <2>1. SUFFICES ASSUME t = "annotator-mock"
                 PROVE  /\ tasks'[id].dataset \in DOMAIN datasets'
                        /\ Fills(j, r, datasets[tasks[Known(j, r)].dataset].files)'
    OBVIOUS
  <2>2. PICK d : d = tasks[id].dataset /\ d = tasks'[id].dataset
    BY <1>5, <2>1 DEF Annotators
  <2>3. /\ d \in DOMAIN datasets /\ Fills(j, r, datasets[d].files) /\ d \in DOMAIN datasets'
        /\ ToSet(datasets[d].files) \subseteq ToSet(datasets'[d].files)
    BY <1>2, <2>1, <2>2 DEF Shows, Keeps, ListsKept
  <2>4. t \notin Files \cup {"tagme-annotator"}
    BY <2>1 DEF Files, Zips, Jsonls
  <2>5. Full(t, r, Posted(j)', Owed(j)', datasets'[d].files)
    BY <2>3, <2>4, FullStays
  <2>6. QED
    BY <1>1, <1>2, <2>2, <2>3, <2>5 DEF Fills
<1>9. Shows(j, r)'
  BY <1>1, <1>2, <1>3, <1>4, <1>5, <1>6, <1>7, <1>8 DEF Shows
<1>10. QED
  BY <1>2, <1>5, <1>9

\* A sink that does not get further shows what it showed.
LEMMA OutputStays ==
  ASSUME NEW j, NEW r \in Roles, plan' = plan, Lone(j, r) => Keeps(j, r) /\ Onward(j, r),
         Owns(j, r, sink[j][r], projects, tasks), Len(tasks) \in Nat, OutputInv(j, r)
  PROVE  OutputInv(j, r)'
<1>1. SUFFICES ASSUME Lone(j, r)
               PROVE  /\ Placing(j, r)' => IsProject(j, r, sink[j][r].project)'
                      /\ Opened(j, r)' => Gathering(j, r)'
                      /\ (Filled(j, r) \/ Closed(j, r) \/ Sealed(j, r))' => Shows(j, r)'
                      /\ Filled(j, r)' => TypeOf(j, r)' \in Annotators
                      /\ Closed(j, r)' /\ TypeOf(j, r)' \notin Files => sink'[j][r].ext # 0
                      /\ (Closed(j, r) \/ Sealed(j, r))' =>
                           (TypeOf(j, r)' \in Annotators => tasks'[Known(j, r)'].started)
  BY SamePlan DEF OutputInv
<1>2. Keeps(j, r) /\ Onward(j, r) /\ TypeOf(j, r)' = TypeOf(j, r)
  BY <1>1, SamePlan
<1>3. /\ Placing(j, r) => IsProject(j, r, sink[j][r].project)
      /\ Opened(j, r) => Gathering(j, r)
      /\ Filled(j, r) \/ Closed(j, r) \/ Sealed(j, r) => Shows(j, r)
      /\ Filled(j, r) => TypeOf(j, r) \in Annotators
      /\ Closed(j, r) /\ TypeOf(j, r) \notin Files => sink[j][r].ext # 0
      /\ Closed(j, r) \/ Sealed(j, r) => (TypeOf(j, r) \in Annotators => tasks[Known(j, r)].started)
  BY <1>1 DEF OutputInv
<1>4. ASSUME Placing(j, r)' PROVE IsProject(j, r, sink[j][r].project)'
  <2>1. IsProject(j, r, sink[j][r].project) /\ sink'[j][r].project = sink[j][r].project
    BY <1>2, <1>3, <1>4 DEF Onward, AtWork, Alike
  <2>2. sink'[j][r].project \in ProjectFor(DestOf(j, r))'
    BY <1>2, <2>1, ProjectStays DEF Keeps
  <2>3. QED
    BY <2>2 DEF IsProject
<1>5. ASSUME Opened(j, r)' PROVE Gathering(j, r)'
  BY <1>2, <1>3, <1>5, GatheringStays DEF Onward, AtWork
<1>6. ASSUME (Filled(j, r) \/ Closed(j, r) \/ Sealed(j, r))'
      PROVE  /\ Shows(j, r)'
             /\ TypeOf(j, r) \in Annotators => tasks'[Known(j, r)'] = tasks[Known(j, r)]
  BY <1>2, <1>3, <1>6, ShowsStays DEF Onward, AtWork
<1>7. Closed(j, r)' => sink'[j][r].ext = sink[j][r].ext
  BY <1>2 DEF Onward, AtWork, Alike
<1>8. QED
  BY <1>2, <1>3, <1>4, <1>5, <1>6, <1>7 DEF Onward

\* A list that gets one entry more shows that entry, too.
LEMMA AppendShows ==
  ASSUME NEW S, NEW s \in Seq(S), NEW e \in S
  PROVE  Append(s, e) \in Seq(S) /\ ToSet(Append(s, e)) = ToSet(s) \cup {e}
<1>1. /\ Append(s, e) \in Seq(S)
      /\ Len(s) \in Nat /\ DOMAIN s = 1..Len(s) /\ DOMAIN Append(s, e) = 1..(Len(s) + 1)
      /\ \A i \in 1..Len(s) : Append(s, e)[i] = s[i]
      /\ Append(s, e)[Len(s) + 1] = e
  BY Appended
<1> DEFINE u == Append(s, e)
<1> HIDE DEF u
<1>2. /\ DOMAIN u = DOMAIN s \cup {Len(s) + 1}
      /\ \A i \in DOMAIN s : u[i] = s[i]
      /\ u[Len(s) + 1] = e
  BY <1>1 DEF u
<1>3. ToSet(u) = ToSet(s) \cup {e}
  BY <1>2 DEF ToSet
<1>4. QED
  BY <1>1, <1>3 DEF u

\* What post_file does to the datasets.
LEMMA PostLists ==
  ASSUME NEW k \in Jobs, ServiceInv, NEW name, NEW data, NEW of,
         [name |-> name, of |-> of] \in Entry, PostFile(k, name, data, of)
  PROVE  /\ ListsKept
         /\ Type(k) \in DatasetTypes \cup {"annotator-mock"} =>
              /\ Mine(k).dataset \in DOMAIN datasets /\ sink' = sink
              /\ ToSet(datasets'[Mine(k).dataset].files) =
                   ToSet(datasets[Mine(k).dataset].files) \cup {[name |-> name, of |-> of]}
<1> DEFINE e == [name |-> name, of |-> of]
           m == Mine(k).dataset
<1>1. CASE UNCHANGED service /\ Type(k) \notin DatasetTypes \cup {"annotator-mock"}
  BY <1>1 DEF service, ListsKept
<1>2. CASE /\ m \in DOMAIN datasets
           /\ datasets' = [datasets EXCEPT ![m].files = Append(@, e)]
           /\ UNCHANGED <<projects, tasks, sink, objects>>
  <2>1. datasets[m] \in Dataset /\ datasets[m].files \in Seq(Entry)
    <3>1. m \in 1..Len(datasets)
      BY <1>2, LenProperties DEF ServiceInv
    <3>2. datasets[m] \in Dataset
      BY <3>1, ElementOfSeq DEF ServiceInv
    <3>3. QED
      BY <3>2 DEF Dataset
  <2>2. datasets' = [datasets EXCEPT ![m] = [datasets[m] EXCEPT !.files = Append(datasets[m].files, e)]]
    BY <1>2
  <2>3. /\ datasets'[m].files = Append(datasets[m].files, e) /\ datasets'[m].name = datasets[m].name
        /\ DOMAIN datasets' = DOMAIN datasets
        /\ \A d \in DOMAIN datasets : d # m => datasets'[d] = datasets[d]
    BY <1>2, <2>1, <2>2 DEF Dataset
  <2>4. ToSet(datasets'[m].files) = ToSet(datasets[m].files) \cup {e}
    BY <2>1, <2>3, AppendShows
  <2>5. ListsKept
    BY <1>2, <2>3, <2>4 DEF ListsKept
  <2>6. QED
    BY <1>2, <2>4, <2>5
<1>3. QED
  BY <1>1, <1>2 DEF PostFile, service, Zips, DatasetTypes

\* Datasets and projects stay, and datasets have what they had.
LEMMA ListsGrow ==
  ASSUME NEW k \in Jobs, Acts(k), PlainInv, SinksInv, ServiceInv, Control(k)
  PROVE  ListsKept
<1>1. ASSUME NEW n \in Names, PostedDataset(n)
      PROVE  \A d \in DOMAIN datasets : d \in DOMAIN datasets' /\ datasets'[d] = datasets[d]
  <2>1. [name |-> n, files |-> <<>>] \in Dataset
    BY EmptySeq DEF Dataset
  <2>2. QED
    BY <1>1, <2>1, Appended DEF PostedDataset, ServiceInv
<1>2. k \in DOMAIN plan => Dest(k) \in Names
  BY PlanOK, NamesAssumption DEF PlainInv, Dest, DestOf, Names
<1>3. CASE UNCHANGED <<datasets, projects>>
  BY <1>3 DEF ListsKept
<1>4. CASE PostDataset(k) \/ PostOrFindDataset(k)
  <2>1. Dest(k) \in Names /\ projects' = projects
    BY <1>2, <1>4 DEF PostDataset, PostOrFindDataset, Sends, Control
  <2>2. PostedDataset(Dest(k)) \/ datasets' = datasets
    BY <1>4 DEF PostDataset, PostOrFindDataset
  <2>3. QED
    BY <1>1, <2>1, <2>2 DEF ListsKept
<1>5. CASE PostProject(k)
  <2>1. Dest(k) \in Names
    BY <1>2, <1>5 DEF PostProject, Control
  <2>2. datasets' = datasets /\ projects' = Append(projects, Dest(k))
    BY <1>5 DEF PostProject
  <2>3. QED
    BY <2>1, <2>2, Appended DEF ListsKept, ServiceInv
<1>6. CASE Open(k)
  <2>1. projects' = projects /\ (PostedDataset("of this job") \/ datasets' = datasets)
    BY <1>6 DEF Open
  <2>2. CASE datasets' = datasets
    BY <1>3, <2>1, <2>2
  <2>3. CASE PostedDataset("of this job")
    <3>1. PICK n \in Names : PostedDataset(n)
      BY <2>3 DEF Names
    <3>2. QED
      BY <1>1, <2>1, <3>1 DEF ListsKept
  <2>4. QED
    BY <2>1, <2>2, <2>3
<1>7. CASE ResolveAsset(k) \/ SendRecord(k) \/ AssetFails(k)
  <2>1. ASSUME NEW name, NEW of, NEW data, PostFile(k, name, data, of), [name |-> name, of |-> of] \in Entry
        PROVE  ListsKept
    BY <2>1, PostLists
  <2>2. CASE SendRecord(k)
    <3>1. [name |-> RecordName(k, Record(k)), of |-> <<k, at[k]>>] \in Entry
      BY <2>2, RecordOK DEF SendRecord, Sends, AtRecord
    <3>2. QED
      BY <2>1, <2>2, <3>1 DEF SendRecord
  <2>3. CASE ResolveAsset(k) \/ AssetFails(k)
    <3>1. [name |-> Record(k).url, of |-> <<k, at[k]>>] \in Entry
      BY <2>3, RecordOK DEF ResolveAsset, AssetFails, Sends, AtRecord
    <3>2. CASE UNCHANGED service
      BY <1>3, <3>2 DEF service
    <3>3. QED
      BY <2>1, <2>3, <3>1, <3>2 DEF ResolveAsset, AssetFails, service
  <2>4. QED
    BY <1>7, <2>2, <2>3
<1>8. QED
  BY <1>3, <1>4, <1>5, <1>6, <1>7
     DEF Acts, Step, CreateDataset, Finalise, Deliver, Ping, OpenFile, FindDataset, FindProject, Link,
         CheckCancelled, PutFiles, PutPayload, PostTask, StartTask, Close, Decide, Complete, Fail, End,
         Return, AuthHeaders, Elapse, DeliverWebhook, CallRaises, Refuse, Crash, Cancel, service

\* A step leaves the tasks of other jobs, and of the other sink, alone.
LEMMA TasksApart ==
  ASSUME NEW k \in Jobs, Acts(k), PlainInv, SinksInv, ServiceInv, OwnInv(k),
         NEW j, NEW r, j # k \/ r # role[k]
  PROVE  TasksKept(j, r)
<1>1. Len(tasks) \in Nat
  BY LenProperties DEF ServiceInv
<1>2. CASE tasks' = tasks
  BY <1>2 DEF TasksKept
<1>3. CASE (Open(k) /\ Type(k) = "tagme-annotator") \/ PostTask(k)
  <2>1. Len(tasks') = Len(tasks) + 1 /\ \A n \in 1..Len(tasks) : tasks'[n] = tasks[n]
    BY <1>3, NewTask
  <2>2. QED
    BY <1>1, <2>1 DEF TasksKept
<1>4. CASE PutPayload(k) \/ StartTask(k)
  <2>1. /\ Len(tasks') = Len(tasks)
        /\ \A n \in 1..Len(tasks) : n # Mine(k).task => tasks'[n] = tasks[n]
        /\ Mine(k).task # 0 => tasks[Mine(k).task].job = k /\ tasks[Mine(k).task].role = role[k]
    BY <1>4, OldTask
  <2>2. QED
    BY <1>1, <2>1 DEF TasksKept
<1>5. QED
  BY <1>2, <1>3, <1>4, TaskSteps

\* How files that one sink writes differ from those that were there.
Wrote(t, d, j, old, new) ==
  /\ DOMAIN old \subseteq DOMAIN new
  /\ \A p \in DOMAIN new : (p \in DOMAIN old /\ new[p] = old[p]) \/ Own(t, d, j, p)

LEMMA OverWrote ==
  ASSUME NEW t, NEW d, NEW j, NEW f, NEW g, \A p \in DOMAIN f : Own(t, d, j, p)
  PROVE  Wrote(t, d, j, g, Over(f, g))
  BY DEF Over, Wrote

LEMMA FileWrote ==
  ASSUME NEW t, NEW d, NEW j, NEW p, NEW c, NEW g, Own(t, d, j, p)
  PROVE  Wrote(t, d, j, g, Over(File(p, c), g))
  BY OverWrote DEF File

\* A sink that takes the place of the one at work, and its files.
LEMMA MemReplaced ==
  ASSUME NEW k \in Jobs, PlainInv, SinksInv, plan' = plan, MemInv(k), NEW s, SetSink(k, s),
         MemOK(Type(k), Dest(k), k, s.mem)
  PROVE  MemInv(k)'
<1>1. \A r \in Roles : sink'[k][r] = IF r = role[k] THEN s ELSE sink[k][r]
  BY SetSinkMeans
<1>2. \A r \in Roles : MemOK(TypeOf(k, r), DestOf(k, r), k, sink'[k][r].mem)
  BY <1>1 DEF MemInv, Type, Dest
<1>3. QED
  BY <1>2, SamePlan DEF MemInv

\* post_file writes, in memory or on disk, files of the sink.
LEMMA PostMem ==
  ASSUME NEW k \in Jobs, PlainInv, SinksInv, plan' = plan, MemInv(k),
         NEW name, NEW data, NEW of, PostFile(k, name, data, of)
  PROVE  MemInv(k)' /\ Wrote(Type(k), Dest(k), k, objects, objects')
<1>1. /\ SinkOK(Mine(k)) /\ role[k] \in Roles /\ Mine(k) = sink[k][role[k]]
      /\ MemOK(Type(k), Dest(k), k, Mine(k).mem)
  BY MineOK DEF MemInv, Type, Dest
<1>2. ASSUME NEW u PROVE Own(Type(k), Dest(k), k, Main(k)) /\ Own(Type(k), Dest(k), k, AssetPath(Type(k), Dest(k), k, u))
  BY PathsOwn DEF Main
<1>3. CASE objects' = objects /\ sink' = sink
  BY <1>3, SamePlan DEF MemInv, Wrote
<1>4. ASSUME NEW p, NEW c, Type(k) \in InMem, objects' = objects, InMemory(k, p, c), Own(Type(k), Dest(k), k, p)
      PROVE  MemInv(k)' /\ Wrote(Type(k), Dest(k), k, objects, objects')
  <2> DEFINE new == [Mine(k) EXCEPT !.mem = Over(File(p, c), Mine(k).mem)]
  <2>1. new.mem = Over(File(p, c), Mine(k).mem)
    BY <1>1 DEF SinkOK, NewSink
  <2>2. MemOK(Type(k), Dest(k), k, new.mem)
    BY <1>1, <1>4, <2>1 DEF MemOK, Over, File
  <2>3. SetSink(k, new)
    BY <1>1, <1>4 DEF InMemory, SinkOK, NewSink
  <2> HIDE DEF new
  <2>4. QED
    BY <1>4, <2>2, <2>3, MemReplaced DEF Wrote
<1>5. ASSUME NEW p, NEW c, sink' = sink, objects' = Over(File(p, c), objects), Own(Type(k), Dest(k), k, p)
      PROVE  MemInv(k)' /\ Wrote(Type(k), Dest(k), k, objects, objects')
  BY <1>5, FileWrote, SamePlan DEF MemInv
<1>6. CASE objects' = objects /\ \E b : SetSink(k, [Mine(k) EXCEPT !.buf = b])
  <2>1. PICK b : SetSink(k, [Mine(k) EXCEPT !.buf = b])
    BY <1>6
  <2>2. [Mine(k) EXCEPT !.buf = b].mem = Mine(k).mem
    BY <1>1 DEF SinkOK, NewSink
  <2>3. QED
    BY <1>1, <1>6, <2>1, <2>2, MemReplaced DEF Wrote
<1>7. CASE Type(k) \in Zips
  BY <1>2, <1>4, <1>7 DEF PostFile, InMem, Zips, DatasetTypes, service
<1>8. CASE Type(k) = "local-jsonl"
  BY <1>2, <1>5, <1>8 DEF PostFile, Zips, DatasetTypes, service
<1>9. CASE Type(k) = "s3-jsonl"
  BY <1>2, <1>4, <1>9 DEF PostFile, InMem, Zips, DatasetTypes, service
<1>10. CASE Type(k) = "tagme-annotator"
  <2>1. \E b : [Mine(k) EXCEPT !.buf = Append(@, [name |-> name, of |-> of])] = [Mine(k) EXCEPT !.buf = b]
    BY <1>1 DEF SinkOK, NewSink
  <2>2. QED
    BY <1>6, <1>10, <2>1 DEF PostFile, Zips, DatasetTypes, service
<1>11. CASE Type(k) \in DatasetTypes \cup {"annotator-mock"}
  BY <1>3, <1>11 DEF PostFile, Zips, DatasetTypes, service
<1>12. QED
  BY <1>7, <1>8, <1>9, <1>10, <1>11 DEF PostFile

\* A step writes files of the sink at work only.
LEMMA MemStep ==
  ASSUME NEW k \in Jobs, Acts(k), PlainInv, SinksInv, plan' = plan, MemInv(k)
  PROVE  MemInv(k)' /\ Wrote(Type(k), Dest(k), k, objects, objects')
<1>1. /\ SinkOK(Mine(k)) /\ role[k] \in Roles /\ Mine(k) = sink[k][role[k]]
      /\ MemOK(Type(k), Dest(k), k, Mine(k).mem)
  BY MineOK DEF MemInv, Type, Dest
<1>2. CASE objects' = objects /\ sink' = sink
  BY <1>2, SamePlan DEF MemInv, Wrote
<1>3. ASSUME objects' = objects, NEW s, SetSink(k, s), s.mem = Mine(k).mem
      PROVE  MemInv(k)' /\ Wrote(Type(k), Dest(k), k, objects, objects')
  BY <1>1, <1>3, MemReplaced DEF Wrote
<1>4. ASSUME objects' = objects, \A r \in Roles : sink'[k][r].mem \in {<<>>, sink[k][r].mem}
      PROVE  MemInv(k)' /\ Wrote(Type(k), Dest(k), k, objects, objects')
  <2>1. ASSUME NEW r \in Roles PROVE MemOK(TypeOf(k, r), DestOf(k, r), k, sink'[k][r].mem)
    BY <1>4 DEF MemInv, MemOK
  <2>2. QED
    BY <1>4, <2>1, SamePlan DEF MemInv, Wrote
<1>5. CASE OpenFile(k)
  <2> DEFINE new == File(Path(Type(k), Dest(k), k), <<>>)
  <2>1. DOMAIN new = {Path(Type(k), Dest(k), k)} /\ Own(Type(k), Dest(k), k, Path(Type(k), Dest(k), k))
    BY PathsOwn DEF File
  <2>2. CASE Type(k) = "local-jsonl"
    <3>1. objects' = Over(new, objects) /\ sink' = sink
      BY <1>5, <2>2 DEF OpenFile
    <3>2. QED
      BY <2>1, <3>1, OverWrote, SamePlan DEF MemInv
  <2>3. CASE Type(k) # "local-jsonl"
    <3>1. SetSink(k, [Mine(k) EXCEPT !.mem = new]) /\ objects' = objects /\ Type(k) \in InMem
      BY <1>5, <2>3 DEF OpenFile, InMem, Files, Jsonls
    <3>2. [Mine(k) EXCEPT !.mem = new].mem = new
      BY <1>1 DEF SinkOK, NewSink
    <3>3. MemOK(Type(k), Dest(k), k, new)
      BY <2>1, <3>1 DEF MemOK
    <3> HIDE DEF new
    <3>4. QED
      BY <3>1, <3>2, <3>3, MemReplaced DEF Wrote
  <2>4. QED
    BY <2>2, <2>3
<1>6. CASE PutFiles(k)
  <2>1. CASE UNCHANGED <<objects, sink>>
    BY <1>2, <2>1
  <2>2. ASSUME NEW p \in NextPut(k), objects' = Over(File(p, Mine(k).mem[p]), objects), SetSink(k, Unput(k, p))
        PROVE  MemInv(k)' /\ Wrote(Type(k), Dest(k), k, objects, objects')
    <3>1. p \in DOMAIN Mine(k).mem
      BY DEF NextPut
    <3>2. Own(Type(k), Dest(k), k, p)
      BY <1>1, <3>1 DEF MemOK
    <3>3. DOMAIN Unput(k, p).mem \subseteq DOMAIN Mine(k).mem
      BY <1>1 DEF Unput, Restrict, SinkOK, NewSink
    <3>4. MemOK(Type(k), Dest(k), k, Unput(k, p).mem)
      BY <1>1, <3>3 DEF MemOK
    <3>5. QED
      BY <2>2, <3>2, <3>4, MemReplaced, FileWrote
  <2>3. QED
    BY <1>6, <2>1, <2>2 DEF PutFiles
<1>7. ASSUME NEW d, NEW e, SetSink(k, [Mine(k) EXCEPT !.dataset = d, !.ext = e]), objects' = objects
      PROVE  MemInv(k)' /\ Wrote(Type(k), Dest(k), k, objects, objects')
  <2>1. [Mine(k) EXCEPT !.dataset = d, !.ext = e].mem = Mine(k).mem
    BY <1>1 DEF SinkOK, NewSink
  <2>2. QED
    BY <1>3, <1>7, <2>1
<1>8. CASE FindDataset(k) \/ PostDataset(k) \/ PostOrFindDataset(k)
  BY <1>2, <1>7, <1>8 DEF FindDataset, PostDataset, PostOrFindDataset, UseDataset
<1>9. ASSUME NEW p, SetSink(k, [Mine(k) EXCEPT !.project = p]), objects' = objects
      PROVE  MemInv(k)' /\ Wrote(Type(k), Dest(k), k, objects, objects')
  <2>1. [Mine(k) EXCEPT !.project = p].mem = Mine(k).mem
    BY <1>1 DEF SinkOK, NewSink
  <2>2. QED
    BY <1>3, <1>9, <2>1
<1>10. CASE FindProject(k) \/ PostProject(k)
  BY <1>2, <1>9, <1>10 DEF FindProject, PostProject
<1>11. CASE Open(k)
  <2>1. \A n : /\ [Mine(k) EXCEPT !.task = n, !.ext = n].mem = Mine(k).mem
               /\ [Mine(k) EXCEPT !.dataset = n].mem = Mine(k).mem
    BY <1>1 DEF SinkOK, NewSink
  <2>2. QED
    BY <1>3, <1>11, <2>1 DEF Open
<1>12. CASE PostTask(k) \/ StartTask(k)
  <2>1. \A n : /\ [Mine(k) EXCEPT !.task = n].mem = Mine(k).mem
               /\ [Mine(k) EXCEPT !.ext = n].mem = Mine(k).mem
    BY <1>1 DEF SinkOK, NewSink
  <2>2. QED
    BY <1>3, <1>12, <2>1 DEF PostTask, StartTask
<1>13. CASE ResolveAsset(k) \/ SendRecord(k) \/ AssetFails(k)
  <2>1. \/ objects' = objects /\ sink' = sink
        \/ \E name, data, of : PostFile(k, name, data, of)
    BY <1>13 DEF ResolveAsset, SendRecord, AssetFails
  <2>2. QED
    BY <1>2, <2>1, PostMem
<1>14. ASSUME NEW s, SinkOK(s), NEW d PROVE Aged(s, d).mem = s.mem
  BY <1>14 DEF Aged, SinkOK, NewSink
<1>15. \A r \in Roles : SinkOK(sink[k][r])
  BY DEF SinksInv
<1>16. CASE PutPayload(k) \/ Elapse(k)
  <2>1. PICK d : sink' = [sink EXCEPT ![k] = [r \in Roles |-> Aged(@[r], d)]]
    BY <1>16 DEF PutPayload, Elapse
  <2>2. \A r \in Roles : sink'[k][r] = Aged(sink[k][r], d)
    BY <2>1 DEF SinksInv
  <2>3. \A r \in Roles : sink'[k][r].mem = sink[k][r].mem
    BY <1>14, <1>15, <2>2
  <2>4. objects' = objects
    BY <1>16 DEF PutPayload, Elapse
  <2>5. QED
    BY <1>4, <2>3, <2>4
<1>17. CASE AuthHeaders(k) /\ sink' # sink
  <2>1. PICK l, d :
          sink' = [sink EXCEPT ![k] = [r \in Roles |->
            IF r = role[k] THEN [@[r] EXCEPT !.token = Kept(Cached(l, d))] ELSE Aged(@[r], d)]]
    BY <1>17 DEF AuthHeaders
  <2>2. \A r \in Roles : sink'[k][r] = IF r = role[k] THEN [sink[k][r] EXCEPT !.token = Kept(Cached(l, d))]
                                      ELSE Aged(sink[k][r], d)
    BY <2>1 DEF SinksInv
  <2>3. \A r \in Roles : [sink[k][r] EXCEPT !.token = Kept(Cached(l, d))].mem = sink[k][r].mem
    BY <1>15 DEF SinkOK, NewSink
  <2>4. ASSUME NEW r \in Roles PROVE sink'[k][r].mem = sink[k][r].mem
    <3>1. CASE r = role[k]
      BY <2>2, <2>3, <3>1
    <3>2. CASE r # role[k]
      <4>1. sink'[k][r] = Aged(sink[k][r], d)
        BY <2>2, <3>2
      <4>2. QED
        BY <1>14, <1>15, <4>1
    <3>3. QED
      BY <3>1, <3>2
  <2>5. objects' = objects
    BY <1>17 DEF AuthHeaders
  <2>6. QED
    BY <1>4, <2>4, <2>5
<1>18. CASE Return(k) \/ Crash(k)
  <2>1. objects' = objects /\ \A r \in Roles : sink'[k][r] = NewSink
    BY <1>18 DEF Return, Crash, Forget, SinksInv
  <2>2. \A r \in Roles : sink'[k][r].mem = <<>>
    BY <2>1 DEF NewSink
  <2>3. QED
    BY <1>4, <2>1, <2>2
<1>19. QED
  BY <1>2, <1>5, <1>6, <1>8, <1>10, <1>11, <1>12, <1>13, <1>16, <1>17, <1>18
     DEF Acts, Step, CreateDataset, Finalise, Deliver, Ping, Link, CheckCancelled, Close, Decide, Complete,
         Fail, End, AuthHeaders, DeliverWebhook, CallRaises, Refuse, Cancel, local

\* What a step writes is none of another sink's, unless both were given the same file.
LEMMA FilesApart ==
  ASSUME NEW k \in Jobs, PlainInv, Wrote(Type(k), Dest(k), k, objects, objects'),
         NEW j, NEW r \in Roles, Lone(j, r), j # k \/ r # role[k]
  PROVE  FilesKept(j, r)
<1>1. SUFFICES ASSUME TypeOf(j, r) \in Files, NEW p \in DOMAIN objects, Own(TypeOf(j, r), DestOf(j, r), j, p)
               PROVE  objects'[p] = objects[p]
  BY DEF FilesKept, Wrote
<1>2. ASSUME Own(Type(k), Dest(k), k, p) PROVE FALSE
  <2>1. j = k /\ TypeOf(j, r) = Type(k) /\ DestOf(j, r) = Dest(k)
    BY <1>1, <1>2 DEF Own
  <2>2. role[k] \in Roles /\ r # role[k]
    BY <2>1 DEF PlainInv
  <2>3. Clash(j)
    BY <1>1, <2>1, <2>2 DEF Clash, TypeOf, DestOf, Type, Dest, Roles
  <2>4. QED
    BY <2>3 DEF Lone
<1>3. QED
  BY <1>1, <1>2 DEF Wrote

-----------------------------------------------------------------------------
(* The steps that do not get a sink further                                *)

\* A step of one job leaves the ids in the rows of the others alone.
LEMMA OthersIds ==
  ASSUME NEW k \in Jobs, Acts(k), IdsInv, NEW j \in Jobs, j # k
  PROVE  extId'[j] = extId[j] /\ assetId'[j] = assetId[j]
<1>1. CASE UNCHANGED <<extId, assetId>>
  BY <1>1
<1>2. CASE Link(k)
  BY <1>2 DEF Link, IdsInv
<1>3. CASE Close(k)
  BY <1>3 DEF Close, IdsInv
<1>4. QED
  BY <1>1, <1>2, <1>3
     DEF Acts, Step, CreateDataset, Finalise, Deliver, Ping, OpenFile, FindDataset, PostDataset,
         PostOrFindDataset, FindProject, PostProject, Open, ResolveAsset, SendRecord, CheckCancelled,
         PutFiles, PutPayload, PostTask, StartTask, Decide, Complete, Fail, End, Return, AuthHeaders,
         Elapse, DeliverWebhook, CallRaises, Refuse, AssetFails, Crash, Cancel, row

LEMMA OthersOnward ==
  ASSUME NEW k \in Jobs, Acts(k), PlainInv, SinksInv, IdsInv, NEW j \in Jobs, NEW r \in Roles, j # k
  PROVE  Onward(j, r)
<1>1. /\ pc'[j] = pc[j] /\ role'[j] = role[j] /\ status'[j] = status[j] /\ at'[j] = at[j]
      /\ sink'[j] = sink[j] /\ sent'[j] = sent[j] /\ plan' = plan
      /\ extId'[j] = extId[j] /\ assetId'[j] = assetId[j]
  BY Others, OthersIds
<1>2. /\ Placing(j, r)' = Placing(j, r) /\ Opened(j, r)' = Opened(j, r) /\ Filled(j, r)' = Filled(j, r)
      /\ Closed(j, r)' = Closed(j, r) /\ Sealed(j, r)' = Sealed(j, r) /\ Known(j, r)' = Known(j, r)
  BY <1>1 DEF Placing, Opened, Filled, Closed, Sealed, Completed, Known
<1>3. NoMore(j, r) /\ Alike(sink'[j][r], sink[j][r])
  BY <1>1 DEF NoMore, Posted, Owed, Asset, Past, Alike
<1>4. QED
  BY <1>1, <1>2, <1>3 DEF Onward, Putting

\* The place of a sink that is not at work.
Idle(p) == p \in {"queued", "ended", "pinging", "looking", "making", "failing", "failing early"}
LEMMA IdleOnward ==
  ASSUME NEW k, NEW r \in Roles, Idle(pc'[k]), status'[k] # "completed" \/ pc'[k] # "ended",
         ~(r = "main" /\ role'[k] = "asset" /\ pc'[k] \in SetUp)
  PROVE  Onward(k, r)
<1>1. ~(Placing(k, r)' \/ Opened(k, r)' \/ Filled(k, r)' \/ Closed(k, r)' \/ Sealed(k, r)')
  BY DEF Idle, Placing, Opened, Filled, Closed, Sealed, Completed, AtRecord, SetUp
<1>2. QED
  BY <1>1 DEF Onward, AtWork

\* The sinks know and hold what they did, unless the job ends or its sink is at work.
Quiet(k) ==
  \/ Deliver(k) \/ Ping(k) \/ Link(k) \/ CheckCancelled(k) \/ Decide(k) \/ Complete(k) \/ Fail(k)
  \/ Return(k) \/ AuthHeaders(k) \/ Elapse(k) \/ DeliverWebhook(k) \/ CallRaises(k) \/ Refuse(k)
  \/ (AssetFails(k) /\ UNCHANGED <<service, objects, sink>>) \/ Crash(k) \/ Cancel(k)
LEMMA AlikeStep ==
  ASSUME NEW k \in Jobs, Acts(k), PlainInv, SinksInv, NEW r \in Roles, r # role[k] \/ Quiet(k)
  PROVE  Alike(sink'[k][r], sink[k][r]) \/ pc'[k] \in {"queued", "ended"}
<1>1. CASE sink' = sink
  BY <1>1 DEF Alike
<1>2. ASSUME NEW s, SetSink(k, s), r # role[k] PROVE Alike(sink'[k][r], sink[k][r])
  BY <1>2, SetSinkMeans DEF Alike
<1>3. /\ SinkOK(sink[k][r])
      /\ \A d : Alike(Aged(sink[k][r], d), sink[k][r])
      /\ \A t : Alike([sink[k][r] EXCEPT !.token = t], sink[k][r])
  BY DEF SinksInv, SinkOK, NewSink, Alike, Aged
<1>4. CASE PutPayload(k) \/ Elapse(k)
  <2>1. PICK d : sink' = [sink EXCEPT ![k] = [q \in Roles |-> Aged(@[q], d)]]
    BY <1>4 DEF PutPayload, Elapse
  <2>2. sink'[k][r] = Aged(sink[k][r], d)
    BY <2>1 DEF SinksInv
  <2>3. QED
    BY <1>3, <2>2
<1>5. CASE AuthHeaders(k) /\ sink' # sink
  <2>1. PICK l, d :
          sink' = [sink EXCEPT ![k] = [q \in Roles |->
            IF q = role[k] THEN [@[q] EXCEPT !.token = Kept(Cached(l, d))] ELSE Aged(@[q], d)]]
    BY <1>5 DEF AuthHeaders
  <2>2. sink'[k][r] = IF r = role[k] THEN [sink[k][r] EXCEPT !.token = Kept(Cached(l, d))]
                      ELSE Aged(sink[k][r], d)
    BY <2>1 DEF SinksInv
  <2>3. QED
    BY <1>3, <2>2
<1>6. CASE Return(k) \/ Crash(k)
  BY <1>6 DEF Return, Crash, Goto, PlainInv
<1>7. CASE Quiet(k)
  BY <1>1, <1>4, <1>5, <1>6, <1>7
     DEF Quiet, Deliver, Ping, Link, CheckCancelled, Decide, Complete, Fail, End, AuthHeaders,
         DeliverWebhook, CallRaises, Refuse, Cancel, local
<1>8. ASSUME ~Quiet(k), ~PutPayload(k) PROVE \E s : SetSink(k, s) \/ sink' = sink
  <2>1. ASSUME NEW name, NEW data, NEW of, PostFile(k, name, data, of) PROVE \E s : SetSink(k, s) \/ sink' = sink
    BY <2>1 DEF PostFile, InMemory
  <2>2. CASE ResolveAsset(k) \/ SendRecord(k) \/ AssetFails(k)
    BY <2>1, <2>2 DEF ResolveAsset, SendRecord, AssetFails
  <2>3. QED
    BY <1>8, <2>2
       DEF Acts, Step, CreateDataset, Finalise, Quiet, OpenFile, FindDataset, PostDataset, PostOrFindDataset,
           UseDataset, FindProject, PostProject, Open, PutFiles, PostTask, StartTask, Close, local
<1>9. QED
  BY <1>1, <1>2, <1>4, <1>7, <1>8

\* Only a record that is posted, or an asset that is stored, is more to show.
LEMMA NoMoreStep ==
  ASSUME NEW k \in Jobs, Acts(k), PlainInv, Control(k), PlacesInv(k), plan' = plan,
         NEW r \in Roles, Lone(k, r), ~Deliver(k), r # role[k] \/ Quiet(k)
  PROVE  NoMore(k, r)
<1>1. CASE SendRecord(k) /\ r # role[k]
  <2>1. /\ pc[k] = "sending" /\ pc'[k] = "checking" /\ sent'[k] = Append(sent[k], at[k])
        /\ sent[k] \in Seq(Nat) /\ at[k] \in Nat
    BY <1>1 DEF SendRecord, Sends, Goto, PlainInv
  <2>2. ToSet(sent'[k]) = ToSet(sent[k]) \cup {at[k]}
    BY <2>1, AppendShows
  <2>3. Past(k)' = Past(k)
    BY <2>1, <2>2 DEF Past
  <2>4. Owed(k)' = Owed(k)
    BY <2>3 DEF Owed, Asset
  <2>5. r = "asset"
    BY <1>1, <2>1 DEF PlacesInv, Lone, Roles
  <2>6. QED
    BY <2>4, <2>5 DEF NoMore
<1>2. CASE Quiet(k) \/ ~SendRecord(k)
  <2>1. sent'[k] = sent[k]
    BY <1>2 DEF Acts, Quiet, Step, CreateDataset, Finalise, Ping, OpenFile, FindDataset, PostDataset,
           PostOrFindDataset, FindProject, PostProject, Open, Link, ResolveAsset, CheckCancelled,
           PutFiles, PutPayload, PostTask, StartTask, Close, Decide, Complete, Fail, End, Return,
           AuthHeaders, Elapse, DeliverWebhook, CallRaises, Refuse, AssetFails, Crash, Cancel, Stay, local
  <2>2. Posted(k)' = Posted(k)
    BY <2>1 DEF Posted
  <2>3. CASE pc'[k] # "sending" \/ (pc[k] = "sending" /\ at'[k] = at[k])
    <3>1. Past(k)' \subseteq Past(k)
      BY <2>1, <2>3 DEF Past
    <3>2. Owed(k)' \subseteq Owed(k)
      BY <3>1 DEF Owed, Asset
    <3>3. QED
      BY <2>2, <3>2 DEF NoMore
  <2>4. CASE r = "asset" /\ \E n : Loop(k, n)
    <3>1. PICK n : Loop(k, n)
      BY <2>4
    <3>2. plan[k].asset # NULL
      BY <2>4 DEF Lone, TypeOf
    <3>3. pc'[k] = "sending" => plan[k].records[n].url = NULL /\ at'[k] = n
      BY <3>1, <3>2 DEF Loop, Goto, PlainInv
    <3>4. Owed(k)' \subseteq Owed(k)
      BY <2>1, <3>3 DEF Owed, Asset, Past
    <3>5. QED
      BY <2>4, <3>4 DEF NoMore
  <2>5. CASE r = "main"
    BY <2>2, <2>5 DEF NoMore
  <2>6. ASSUME pc'[k] = "sending", r = "asset"
        PROVE  (pc[k] = "sending" /\ at'[k] = at[k]) \/ \E n : Loop(k, n)
    <3>1. CASE pc' = pc /\ at' = at
      BY <2>6, <3>1
    <3>2. CASE Link(k) \/ CheckCancelled(k)
      BY <2>6, <3>2 DEF Link, CheckCancelled, Goto, PlainInv
    <3>3. CASE Quiet(k)
      BY <2>6, <3>1, <3>2, <3>3
         DEF Quiet, Goto, PlainInv, Ping, Decide, Complete, Fail, End, Return, AuthHeaders, Elapse,
             DeliverWebhook, CallRaises, Raise, Refuse, AssetFails, Crash, Cancel, Stay, local
    <3>4. CASE ~Quiet(k)
      <4>1. ~ResolveAsset(k)
        BY <2>6, <3>4 DEF ResolveAsset, Sends, Control, Lone
      <4>2. QED
        BY <1>2, <2>6, <3>1, <3>4, <4>1
           DEF Quiet, Acts, Step, CreateDataset, Finalise, Goto, PlainInv, OpenFile, FindDataset, PostDataset,
               PostOrFindDataset, UseDataset, FindProject, PostProject, Open, PutFiles, PutPayload, PostTask,
               StartTask, Close, AssetFails, Stay, local
    <3>5. QED
      BY <3>3, <3>4
  <2>7. QED
    BY <2>3, <2>4, <2>5, <2>6 DEF Roles
<1>3. QED
  BY <1>1, <1>2

\* How far a sink is, of where the job is.
LEMMA OnwardStep ==
  ASSUME NEW k \in Jobs, Acts(k), PlainInv, SinksInv, IdsInv, Control(k), PlacesInv(k), plan' = plan,
         NEW r \in Roles, Lone(k, r), r # role[k] \/ Quiet(k)
  PROVE  Onward(k, r)
<1>1. Alike(sink'[k][r], sink[k][r]) \/ pc'[k] \in {"queued", "ended"}
  BY AlikeStep
<1>2. /\ pc[k] \in Busy \cup {"queued", "ended"} /\ role[k] \in Roles /\ k \in DOMAIN plan
      /\ pc[k] = "resolving" => role[k] = "asset"
      /\ pc[k] \in {"sending", "checking"} => role[k] = "main"
      /\ status[k] = "completed" => pc[k] \in {"returned", "ended", "queued"}
      /\ r = "asset" => plan[k].asset # NULL
  BY DEF PlainInv, Control, PlacesInv, Lone, TypeOf
\* It is enough to look at the places, the roles and the ids.
<1> DEFINE Further ==
      /\ Placing(k, r)' => Placing(k, r)
      /\ Opened(k, r)' => Opened(k, r) /\ (Putting(k, r) => Putting(k, r)')
      /\ Filled(k, r)' => Filled(k, r)
      /\ Closed(k, r)' => Closed(k, r)
      /\ Sealed(k, r)' => Sealed(k, r) /\ IF r = "main" THEN extId'[k] = extId[k] ELSE assetId'[k] = assetId[k]
<1>3. ASSUME ~Deliver(k), Further PROVE Onward(k, r)
  <2>1. NoMore(k, r)
    BY <1>3, NoMoreStep
  <2>2. AtWork(k, r)' => Alike(sink'[k][r], sink[k][r])
    BY <1>1 DEF AtWork, Placing, Opened, Filled, Closed, AtRecord, SetUp
  <2>3. Filled(k, r)' => Known(k, r)' = Known(k, r)
    BY <1>3, <2>2 DEF AtWork, Alike, Known, Filled, Closed
  <2>4. Closed(k, r)' => Known(k, r)' = Known(k, r)
    BY <1>3, <2>2 DEF AtWork, Alike, Known, Filled, Closed
  <2>5. Sealed(k, r)' => Known(k, r)' = Known(k, r)
    BY <1>3 DEF Known, Filled, Closed, Sealed, Completed
  <2>6. QED
    BY <1>3, <2>1, <2>2, <2>3, <2>4, <2>5 DEF Onward
<1> HIDE DEF Further
<1>4. CASE Deliver(k)
  <2>1. Idle(pc'[k]) /\ role'[k] = "main" /\ status'[k] # "completed"
    BY <1>4 DEF Deliver, Goto, PlainInv, Idle
  <2>2. QED
    BY <2>1, IdleOnward
<1>5. CASE Ping(k)
  BY <1>2, <1>3, <1>5
     DEF Further, Putting, Placing, Opened, Filled, Closed, Sealed, Completed, AtRecord, SetUp, Roles, PlainInv, Goto,
         Ping, Deliver, Stay, row
<1>6. CASE Link(k)
  <2>1. ~Deliver(k) /\ pc[k] = "linking" /\ status' = status
    BY <1>6 DEF Link, Deliver
  <2>2. CASE role[k] = "main" /\ plan[k].asset # NULL
    BY <1>2, <1>3, <1>6, <2>1, <2>2
       DEF Further, Putting, Placing, Opened, Filled, Closed, Sealed, Completed, AtRecord, SetUp, Roles, PlainInv, Goto, Link
  <2>3. CASE Loop(k, 1) /\ (role[k] = "main" => r = "main")
    <3>1. /\ pc'[k] \in {"finalising", "resolving", "sending"} /\ role'[k] \in Roles
          /\ pc'[k] = "finalising" => role'[k] = "main"
      BY <2>3, <1>2 DEF Loop, Goto, PlainInv, Roles
    <3>2. QED
      BY <1>2, <1>3, <2>1, <2>3, <3>1
         DEF Further, Putting, Placing, Opened, Filled, Closed, Sealed, Completed, AtRecord, SetUp, Roles
  <2>4. QED
    BY <1>2, <1>6, <2>2, <2>3 DEF Link, Roles
<1>7. CASE CheckCancelled(k)
  <2>1. /\ ~Deliver(k) /\ pc[k] = "checking" /\ status' = status
        /\ pc'[k] \in {"finalising", "resolving", "sending"} /\ role'[k] \in Roles
        /\ pc'[k] = "finalising" => role'[k] = "main"
    BY <1>7 DEF CheckCancelled, Deliver, Loop, Goto, PlainInv, Roles, row
  <2>2. QED
    BY <1>2, <1>3, <2>1
       DEF Further, Putting, Placing, Opened, Filled, Closed, Sealed, Completed, AtRecord, SetUp, Roles
<1>8. CASE Decide(k) \/ Complete(k)
  BY <1>2, <1>3, <1>8
     DEF Further, Putting, Placing, Opened, Filled, Closed, Sealed, Completed, AtRecord, SetUp, Roles, PlainInv, Goto,
         Decide, Complete, End, Deliver, Stay, row
<1>9. CASE Fail(k)
  <2>1. ~Deliver(k) /\ pc'[k] = "returned" /\ status'[k] = "failed"
    BY <1>9 DEF Fail, End, Goto, Deliver, PlainInv
  <2>2. QED
    BY <1>3, <2>1 DEF Further, Putting, Placing, Opened, Filled, Closed, Sealed, Completed, AtRecord, SetUp
<1>10. CASE Return(k) \/ DeliverWebhook(k) \/ Cancel(k) \/ AuthHeaders(k) \/ Elapse(k)
  BY <1>2, <1>3, <1>10
     DEF Further, Putting, Placing, Opened, Filled, Closed, Sealed, Completed, AtRecord, SetUp, Roles, PlainInv, Goto,
         Return, DeliverWebhook, Cancel, AuthHeaders, Elapse, Deliver, Stay, row
<1>11. CASE CallRaises(k) \/ Refuse(k)
  <2>1. Idle(pc'[k]) /\ pc'[k] \notin {"ended"} \cup SetUp
    BY <1>11 DEF CallRaises, Refuse, Raise, Goto, PlainInv, Idle, SetUp
  <2>2. QED
    BY <2>1, IdleOnward
<1>12. CASE AssetFails(k)
  <2>1. /\ ~Deliver(k) /\ pc[k] = "resolving" /\ pc'[k] = "checking" /\ role'[k] = "main" /\ status' = status
    BY <1>12 DEF AssetFails, Deliver, Goto, PlainInv, row
  <2>2. QED
    BY <1>2, <1>3, <2>1
       DEF Further, Putting, Placing, Opened, Filled, Closed, Sealed, Completed, AtRecord, SetUp, Roles
<1>13. CASE Crash(k)
  <2>1. /\ ~Deliver(k) /\ pc[k] \in Busy /\ pc'[k] \in {"queued", "ended"} /\ status' = status
        /\ extId' = extId /\ assetId' = assetId
    BY <1>13 DEF Crash, Deliver, Goto, PlainInv, row, Busy, Calls
  <2>2. QED
    BY <1>2, <1>3, <2>1
       DEF Further, Putting, Placing, Opened, Filled, Closed, Sealed, Completed, AtRecord, SetUp, Busy, Calls
<1>14. CASE Quiet(k)
  BY <1>4, <1>5, <1>6, <1>7, <1>8, <1>9, <1>10, <1>11, <1>12, <1>13, <1>14 DEF Quiet
<1>15. CASE r # role[k] /\ ~Quiet(k)
  <2>1. /\ (r = "main" /\ role[k] = "asset") \/ (r = "asset" /\ role[k] = "main")
        /\ ~Deliver(k)
    BY <1>2, <1>15 DEF Roles, Quiet
  <2>2. CASE OpenFile(k) \/ FindDataset(k) \/ PostDataset(k) \/ PostOrFindDataset(k)
             \/ FindProject(k) \/ PostProject(k) \/ Open(k)
    <3>1. /\ pc[k] \in SetUp /\ pc'[k] \in {"opening", "linking", "making", "failing early"}
          /\ role' = role /\ status' = status
      BY <2>2 DEF OpenFile, FindDataset, PostDataset, PostOrFindDataset, UseDataset, FindProject, PostProject,
           Open, Sends, Goto, PlainInv, Stay, row, SetUp
    <3>2. QED
      BY <1>2, <1>3, <2>1, <3>1
         DEF Further, Putting, Placing, Opened, Filled, Closed, Sealed, Completed, AtRecord, SetUp
  <2>3. CASE ResolveAsset(k) \/ SendRecord(k)
    <3>1. /\ pc[k] \in AtRecord /\ pc'[k] \in AtRecord /\ status' = status
      BY <2>3 DEF ResolveAsset, SendRecord, Sends, Goto, PlainInv, row, AtRecord
    <3>2. QED
      BY <1>2, <1>3, <2>1, <3>1
         DEF Further, Putting, Placing, Opened, Filled, Closed, Sealed, Completed, AtRecord, SetUp
  <2>4. CASE PutFiles(k) \/ PutPayload(k) \/ PostTask(k) \/ StartTask(k)
    <3>1. /\ pc[k] \in {"finalising", "starting"} /\ pc'[k] \in {pc[k], "starting", "closing"}
          /\ role' = role /\ status' = status /\ extId' = extId /\ assetId' = assetId
      BY <2>4 DEF PutFiles, PutPayload, PostTask, StartTask, Goto, PlainInv, Stay, row
    <3>2. QED
      BY <1>2, <1>3, <2>1, <3>1
         DEF Further, Putting, Placing, Opened, Filled, Closed, Sealed, Completed, AtRecord, SetUp
  <2>5. CASE Close(k)
    BY <1>2, <1>3, <2>1, <2>5
       DEF Further, Putting, Placing, Opened, Filled, Closed, Sealed, Completed, AtRecord, SetUp, Close, Goto, PlainInv
  <2>6. QED
    BY <1>12, <1>15, <2>2, <2>3, <2>4, <2>5 DEF Acts, Step, CreateDataset, Finalise, Quiet
<1>16. QED
  BY <1>14, <1>15

-----------------------------------------------------------------------------
(* The steps of the sink at work                                           *)

\* What the next state has to satisfy, by the place of the job.
LEMMA NothingNow ==
  ASSUME NEW k, NEW r \in Roles, Idle(pc'[k]), pc'[k] \notin {"queued", "ended"}, role'[k] = r
  PROVE  OutputInv(k, r)'
  BY DEF Idle, OutputInv, Placing, Opened, Filled, Closed, Sealed, Completed, AtRecord, SetUp, Roles

LEMMA PlacesNow ==
  ASSUME NEW k, NEW r \in Roles, pc'[k] = "opening", role'[k] = r,
         sink'[k][r].project \in ProjectFor(DestOf(k, r))'
  PROVE  OutputInv(k, r)'
<1>1. IsProject(k, r, sink[k][r].project)'
  BY DEF IsProject
<1>2. QED
  BY <1>1 DEF OutputInv, Placing, Opened, Filled, Closed, Sealed, Completed, AtRecord, SetUp, Roles

LEMMA GathersNow ==
  ASSUME NEW k, NEW r \in Roles, pc'[k] \in AtRecord \cup {"linking"}, Gathering(k, r)'
  PROVE  OutputInv(k, r)'
  BY DEF OutputInv, Placing, Opened, Filled, Closed, Sealed, Completed, AtRecord, SetUp, Roles

LEMMA FilledNow ==
  ASSUME NEW k, NEW r \in Roles, pc'[k] = "starting", role'[k] = r, Shows(k, r)', TypeOf(k, r)' \in Annotators
  PROVE  OutputInv(k, r)'
  BY DEF OutputInv, Placing, Opened, Filled, Closed, Sealed, Completed, AtRecord, SetUp, Roles

LEMMA ClosedNow ==
  ASSUME NEW k, NEW r \in Roles, pc'[k] = "closing", role'[k] = r, Shows(k, r)',
         TypeOf(k, r)' \notin Files => sink'[k][r].ext # 0,
         TypeOf(k, r)' \in Annotators => tasks'[sink'[k][r].ext].started
  PROVE  OutputInv(k, r)'
<1>1. Known(k, r)' = sink'[k][r].ext
  BY DEF Known, Filled, Closed
<1>2. QED
  BY <1>1 DEF OutputInv, Placing, Opened, Filled, Closed, Sealed, Completed, AtRecord, SetUp, Roles

\* Before the first record there is nothing to show.
LEMMA BlankNow ==
  ASSUME NEW k, NEW r \in Roles, sent'[k] = <<>>, pc'[k] # "sending"
  PROVE  /\ Posted(k)' = {} /\ Owed(k)' = {} /\ Bare(k, r)'
         /\ \A t, s : ~Private(t) \/ s = <<>> => Full(t, r, Posted(k)', Owed(k)', s)
<1>1. ToSet(sent'[k]) = {}
  BY DEF ToSet
<1>2. Posted(k)' = {} /\ Owed(k)' = {}
  BY <1>1 DEF Posted, Owed, Past
<1>3. Of(<<>>) = {}
  BY DEF Of, ToSet
<1>4. ASSUME NEW t, NEW s, ~Private(t) \/ s = <<>> PROVE Full(t, r, Posted(k)', Owed(k)', s)
  BY <1>2, <1>3, <1>4 DEF Full
<1>5. QED
  BY <1>2, <1>4 DEF Bare

\* A file is opened.
LEMMA OpenFileShows ==
  ASSUME NEW k \in Jobs, PlainInv, SinksInv, plan' = plan, PlacesInv(k), k \in DOMAIN plan, OpenFile(k),
         NEW r \in Roles, r = role[k]
  PROVE  OutputInv(k, r)'
<1> DEFINE place == Path(Type(k), Dest(k), k)
           new == File(place, <<>>)
<1>1. /\ r \in Roles /\ pc'[k] = "linking" /\ role'[k] = r /\ sent'[k] = <<>>
      /\ SinkOK(Mine(k)) /\ Mine(k) = sink[k][r]
  BY MineOK DEF OpenFile, Goto, Stay, PlainInv, PlacesInv, SetUp
<1>2. /\ TypeOf(k, r)' = Type(k) /\ DestOf(k, r)' = Dest(k) /\ Place(k, r)' = place
      /\ Type(k) \in Files
  BY SamePlan DEF Type, Dest, Place, OpenFile
<1>3. place \in DOMAIN new /\ new[place] = <<>> /\ <<>> \in Seq(Entry)
  BY EmptySeq DEF File
<1>4. /\ Beside(Type(k), r, Dest(k), k, plan[k].records, Owed(k)', new)
      /\ Full(Type(k), r, Posted(k)', Owed(k)', <<>>) /\ Owed(k)' = {}
  <2>1. Owed(k)' = {} /\ \A t, s : ~Private(t) \/ s = <<>> => Full(t, r, Posted(k)', Owed(k)', s)
    BY <1>1, BlankNow
  <2>2. QED
    BY <2>1 DEF Beside
<1>5. CASE Type(k) = "local-jsonl"
  <2>1. objects' = Over(new, objects)
    BY <1>5 DEF OpenFile
  <2>2. place \in DOMAIN objects' /\ objects'[place] = <<>>
    BY <1>3, <2>1 DEF Over
  <2>3. Beside(Type(k), r, Dest(k), k, plan[k].records, Owed(k)', objects')
    BY <1>4 DEF Beside
  <2>4. Holds(k, r, objects)'
    BY <1>2, <1>3, <1>4, <2>2, <2>3 DEF Holds, Fills
  <2>5. Gathering(k, r)'
    BY <1>2, <1>5, <2>4 DEF Gathering, InMem, Zips, DatasetTypes, Annotators
  <2>6. QED
    BY <1>1, <2>5, GathersNow
<1>6. CASE Type(k) # "local-jsonl"
  <2> DEFINE s == [Mine(k) EXCEPT !.mem = new]
  <2>1. SetSink(k, s) /\ Type(k) \in InMem
    BY <1>2, <1>6 DEF OpenFile, InMem, Files, Jsonls
  <2>2. s.mem = new
    BY <1>1 DEF SinkOK, NewSink
  <2> HIDE DEF new, s
  <2>3. sink'[k][r].mem = new
    BY <1>1, <2>1, <2>2, SetSinkMeans
  <2>4. Holds(k, r, sink[k][r].mem)'
    BY <1>2, <1>3, <1>4, <2>3 DEF Holds, Fills
  <2>5. Gathering(k, r)'
    BY <1>1, <1>2, <1>6, <2>1, <2>4 DEF Gathering, Putting, InMem, Zips, DatasetTypes, Annotators
  <2>6. QED
    BY <1>1, <2>5, GathersNow
<1>7. QED
  BY <1>5, <1>6

\* A dataset is found, or posted.
LEMMA UseDatasetShows ==
  ASSUME NEW k \in Jobs, PlainInv, SinksInv, plan' = plan, NEW d \in Nat \ {0}, UseDataset(k, d),
         Type(k) \in DatasetTypes, role' = role, sent'[k] = <<>>,
         d \in {Uuid[Dest(k)]} \cup Named(Dest(k))', NEW r \in Roles, r = role[k]
  PROVE  OutputInv(k, r)'
<1> DEFINE new == [Mine(k) EXCEPT !.dataset = d, !.ext = d]
<1>1. /\ r \in Roles /\ pc'[k] = "linking" /\ SinkOK(Mine(k)) /\ Mine(k) = sink[k][r]
      /\ TypeOf(k, r)' = Type(k) /\ DestOf(k, r)' = Dest(k)
  BY MineOK, SamePlan DEF UseDataset, Goto, PlainInv, Type, Dest
<1>2. new.dataset = d /\ new.ext = d /\ SetSink(k, new)
  BY <1>1 DEF SinkOK, NewSink, UseDataset
<1> HIDE DEF new
<1>3. sink'[k][r].dataset = d /\ sink'[k][r].ext = d
  BY <1>1, <1>2, SetSinkMeans
<1>4. Bare(k, r)' /\ \A t, s : ~Private(t) \/ s = <<>> => Full(t, r, Posted(k)', Owed(k)', s)
  BY <1>1, BlankNow
<1>5. ~Private(Type(k)) /\ Type(k) \notin InMem \cup {"local-jsonl"} \cup Annotators
  BY DEF Private, Files, Zips, Jsonls, DatasetTypes, Annotators, InMem
<1>6. IsSet(k, r, sink[k][r].dataset)'
  BY <1>1, <1>3, <1>4 DEF IsSet, Named, Dest
<1>7. Fills(k, r, datasets[sink[k][r].dataset].files)'
  BY <1>1, <1>4, <1>5 DEF Fills
<1>8. Gathering(k, r)'
  BY <1>1, <1>3, <1>5, <1>6, <1>7 DEF Gathering, Annotators
<1>9. QED
  BY <1>1, <1>8, GathersNow

LEMMA DatasetShows ==
  ASSUME NEW k \in Jobs, PlainInv, SinksInv, ServiceInv, plan' = plan, PlacesInv(k), k \in DOMAIN plan,
         FindDataset(k) \/ PostDataset(k) \/ PostOrFindDataset(k), NEW r \in Roles, r = role[k]
  PROVE  OutputInv(k, r)'
<1>1. /\ role' = role /\ Type(k) \in DatasetTypes /\ sent'[k] = <<>> /\ role[k] \in Roles
      /\ pc[k] \in {"looking", "making"}
  BY DEF FindDataset, PostDataset, PostOrFindDataset, Sends, Stay, PlacesInv, SetUp, DatasetTypes, PlainInv
<1>2. Uuid[Dest(k)] \in Nat /\ Dest(k) \in Names
  BY MineOK, PlanOK, NamesAssumption DEF PlainInv, Dest, DestOf, Names
<1>3. ASSUME NEW d \in Nat \ {0}, UseDataset(k, d), d \in {Uuid[Dest(k)]} \cup Named(Dest(k))'
      PROVE  OutputInv(k, r)'
  BY <1>1, <1>3, UseDatasetShows
<1>4. \A d \in Named(Dest(k)) : d \in Nat \ {0}
  BY LenProperties DEF Named, ServiceInv
<1>5. CASE datasets' = datasets /\ \E d \in Nat \ {0} : UseDataset(k, d) /\ d \in {Uuid[Dest(k)]} \cup Named(Dest(k))
  <2>1. Named(Dest(k))' = Named(Dest(k))
    BY <1>5, <1>1 DEF Named, Dest, DestOf
  <2>2. QED
    BY <1>3, <1>5, <2>1
<1>6. CASE PostedDataset(Dest(k)) /\ UseDataset(k, Len(datasets'))
  <2>1. [name |-> Dest(k), files |-> <<>>] \in Dataset
    BY <1>2, EmptySeq DEF Dataset
  <2>2. PICK x \in Dataset : x.name = Dest(k) /\ datasets' = Append(datasets, x)
    BY <1>6, <2>1 DEF PostedDataset
  <2>3. /\ Len(datasets') \in Nat \ {0} /\ Len(datasets') \in DOMAIN datasets'
        /\ datasets'[Len(datasets')] = x
    BY <2>2, Appended DEF ServiceInv
  <2>4. Dest(k)' = Dest(k)
    BY <1>1 DEF Dest, DestOf
  <2>5. Len(datasets') \in Named(Dest(k))'
    BY <2>2, <2>3, <2>4 DEF Named
  <2>6. QED
    BY <1>3, <1>6, <2>3, <2>5
<1>7. CASE pc'[k] = "making"
  BY <1>1, <1>7, NothingNow DEF Idle
<1>8. CASE FindDataset(k)
  BY <1>2, <1>4, <1>5, <1>7, <1>8 DEF FindDataset, Goto, PlainInv, service
<1>9. CASE PostDataset(k)
  BY <1>6, <1>9 DEF PostDataset
<1>10. CASE PostOrFindDataset(k)
  BY <1>2, <1>4, <1>5, <1>6, <1>10 DEF PostOrFindDataset
<1>11. QED
  BY <1>8, <1>9, <1>10

\* A project is found, or made.
LEMMA ProjectFound ==
  ASSUME NEW k \in Jobs, PlainInv, SinksInv, ServiceInv, plan' = plan, PlacesInv(k), k \in DOMAIN plan,
         FindProject(k) \/ PostProject(k), NEW r \in Roles, r = role[k]
  PROVE  OutputInv(k, r)'
<1>1. /\ role'[k] = r /\ SinkOK(Mine(k)) /\ Mine(k) = sink[k][r] /\ DestOf(k, r)' = Dest(k)
      /\ DestOf(k, r) = Dest(k)
  BY MineOK, SamePlan DEF FindProject, PostProject, Stay, Dest
<1>2. ASSUME NEW p, SetSink(k, [Mine(k) EXCEPT !.project = p]) PROVE sink'[k][r].project = p
  <2> DEFINE s == [Mine(k) EXCEPT !.project = p]
  <2>1. s.project = p /\ SetSink(k, s)
    BY <1>1, <1>2 DEF SinkOK, NewSink
  <2> HIDE DEF s
  <2>2. QED
    BY <2>1, SetSinkMeans
<1>3. CASE PostProject(k)
  <2>1. /\ pc'[k] = "opening" /\ projects' = Append(projects, Dest(k)) /\ Uuid[Dest(k)] = 0
        /\ sink'[k][r].project = Len(projects')
    BY <1>2, <1>3 DEF PostProject, Goto, PlainInv, PlacesInv, Annotators
  <2>2. Dest(k) \in Names
    BY PlanOK, NamesAssumption DEF PlainInv, Dest, DestOf, Names
  <2>3. Len(projects') \in DOMAIN projects' /\ projects'[Len(projects')] = Dest(k)
    BY <2>1, <2>2, Appended DEF ServiceInv
  <2>4. sink'[k][r].project \in ProjectFor(DestOf(k, r))'
    BY <1>1, <2>1, <2>3 DEF ProjectFor
  <2>5. QED
    BY <1>1, <2>1, <2>4, PlacesNow
<1>4. CASE FindProject(k) /\ pc'[k] = "opening"
  <2>1. PICK p \in ProjectFor(Dest(k)) : SetSink(k, [Mine(k) EXCEPT !.project = p])
    BY <1>4 DEF FindProject, Goto, PlainInv
  <2>2. sink'[k][r].project = p
    BY <1>2, <2>1
  <2>3. ProjectFor(DestOf(k, r))' = ProjectFor(DestOf(k, r))
    BY <1>1, <1>4 DEF FindProject, ProjectFor, service
  <2>4. QED
    BY <1>1, <1>4, <2>1, <2>2, <2>3, PlacesNow
<1>5. CASE FindProject(k) /\ pc'[k] # "opening"
  <2>1. pc'[k] \in {"making", "failing early"}
    BY <1>5 DEF FindProject, Goto, PlainInv
  <2>2. QED
    BY <1>1, <2>1, NothingNow DEF Idle
<1>6. QED
  BY <1>3, <1>4, <1>5

\* A task is opened, or a dataset for one.
LEMMA OpenShows ==
  ASSUME NEW k \in Jobs, Acts(k), PlainInv, SinksInv, ServiceInv, Control(k), ReadyInv(k), plan' = plan, PlacesInv(k),
         k \in DOMAIN plan, Open(k), NEW r \in Roles, r = role[k], Lone(k, r), OutputInv(k, r)
  PROVE  OutputInv(k, r)'
<1>1. /\ role'[k] = r /\ SinkOK(Mine(k)) /\ Mine(k) = sink[k][r] /\ DestOf(k, r)' = Dest(k)
      /\ TypeOf(k, r)' = Type(k) /\ TypeOf(k, r) = Type(k)
      /\ pc[k] = "opening" /\ pc'[k] = "linking" /\ sent'[k] = <<>> /\ Mine(k).buf = <<>>
      /\ Type(k) \in Annotators
  BY MineOK, SamePlan DEF Open, Sends, Goto, Stay, PlainInv, PlacesInv, SetUp, ReadyInv, Dest, Type
<1>2. \A t, s : ~Private(t) \/ s = <<>> => Full(t, r, Posted(k)', Owed(k)', s)
  BY <1>1, BlankNow
<1>3. IsProject(k, r, Mine(k).project)
  BY <1>1 DEF OutputInv, Placing
<1>4. Mine(k).project \in ProjectFor(DestOf(k, r))'
  BY <1>3, ListsGrow, ProjectStays
<1>5. Type(k) \notin Files \cup DatasetTypes \cup InMem /\ Type(k) # "local-jsonl"
  BY <1>1 DEF Annotators, Files, Zips, Jsonls, DatasetTypes, InMem
<1>6. CASE Type(k) = "tagme-annotator"
  <2> DEFINE s == [Mine(k) EXCEPT !.task = Len(tasks'), !.ext = Len(tasks')]
  <2>1. /\ s.project = Mine(k).project /\ s.buf = <<>> /\ SetSink(k, s)
    BY <1>1, <1>6 DEF SinkOK, NewSink, Open
  <2> HIDE DEF s
  <2>2. sink'[k][r].project = Mine(k).project /\ sink'[k][r].buf = <<>>
    BY <1>1, <2>1, SetSinkMeans
  <2>3. /\ sink'[k][r].task = Len(tasks) + 1 /\ Len(tasks) \in Nat
        /\ tasks'[Len(tasks) + 1].project = Mine(k).project
    BY <1>6, NewTask
  <2>4. IsProject(k, r, sink[k][r].project)'
    BY <1>4, <2>2 DEF IsProject
  <2>5. Fills(k, r, sink[k][r].buf)'
    BY <1>2, <2>2 DEF Fills
  <2>6. Gathering(k, r)'
    BY <1>1, <1>5, <1>6, <2>2, <2>3, <2>4, <2>5 DEF Gathering
  <2>7. QED
    BY <1>1, <2>6, GathersNow
<1>7. CASE Type(k) # "tagme-annotator"
  <2> DEFINE s == [Mine(k) EXCEPT !.dataset = Len(datasets')]
  <2>1. /\ s.project = Mine(k).project /\ s.dataset = Len(datasets') /\ SetSink(k, s)
    BY <1>1, <1>7 DEF SinkOK, NewSink, Open
  <2> HIDE DEF s
  <2>2. sink'[k][r].project = Mine(k).project /\ sink'[k][r].dataset = Len(datasets')
    BY <1>1, <2>1, SetSinkMeans
  <2>3. Len(datasets') \in DOMAIN datasets'
    <3>1. "of this job" \in Names
      BY DEF Names
    <3>2. PostedDataset("of this job")
      BY <1>7 DEF Open
    <3>3. /\ datasets' \in Seq(Dataset) /\ Len(datasets') = Len(datasets) + 1 /\ Len(datasets) \in Nat
      BY <3>1, <3>2, DatasetPosted
    <3>4. DOMAIN datasets' = 1..Len(datasets')
      BY <3>3, LenProperties
    <3>5. QED
      BY <3>3, <3>4
  <2>4. IsProject(k, r, sink[k][r].project)'
    BY <1>4, <2>2 DEF IsProject
  <2>5. ~Private(Type(k))
    BY <1>5, <1>7 DEF Private
  <2>6. Fills(k, r, datasets[sink[k][r].dataset].files)'
    BY <1>1, <1>2, <2>5 DEF Fills
  <2>7. Gathering(k, r)'
    BY <1>1, <1>5, <1>7, <2>2, <2>3, <2>4, <2>6 DEF Gathering
  <2>8. QED
    BY <1>1, <2>7, GathersNow
<1>8. QED
  BY <1>6, <1>7

\* An entry more shows its record, or its asset.
LEMMA FullGrows ==
  ASSUME NEW t, NEW r \in Roles, NEW posted, NEW owed, NEW more, NEW further, NEW s, NEW u, NEW e,
         Full(t, r, posted, owed, s), ToSet(u) = ToSet(s) \cup {e},
         r = "main" => more = posted \cup {e.of},
         r = "asset" => further \subseteq owed \cup {e}
  PROVE  Full(t, r, more, further, u)
<1>1. Of(u) = Of(s) \cup {e.of}
  BY DEF Of
<1>2. CASE r = "main"
  BY <1>1, <1>2 DEF Full
<1>3. CASE r = "asset"
  BY <1>1, <1>3 DEF Full
<1>4. QED
  BY <1>2, <1>3 DEF Roles

\* The file of a sink with an entry appended.
LEMMA HoldsAppended ==
  ASSUME NEW j, NEW r \in Roles, NEW f, NEW e \in Entry, Holds(j, r, f),
         r = "main" => Posted(j)' = Posted(j) \cup {e.of},
         r = "asset" => TypeOf(j, r) \notin Jsonls /\ Owed(j)' \subseteq Owed(j) \cup {e},
         NEW g, g = Over(File(Place(j, r), Append(f[Place(j, r)], e)), f)
  PROVE  /\ Place(j, r) \in DOMAIN g /\ g[Place(j, r)] \in Seq(Entry)
         /\ Beside(TypeOf(j, r), r, DestOf(j, r), j, plan[j].records, Owed(j)', g)
         /\ Full(TypeOf(j, r), r, Posted(j)', Owed(j)', g[Place(j, r)])
<1> DEFINE s == f[Place(j, r)]
           u == g[Place(j, r)]
<1>1. s \in Seq(Entry) /\ Full(TypeOf(j, r), r, Posted(j), Owed(j), s)
  BY DEF Holds, Fills
<1>2. Place(j, r) \in DOMAIN g /\ u = Append(s, e)
  BY DEF Over, File
<1>3. u \in Seq(Entry) /\ ToSet(u) = ToSet(s) \cup {e}
  BY <1>1, <1>2, AppendShows
<1>4. Full(TypeOf(j, r), r, Posted(j)', Owed(j)', u)
  <2> HIDE DEF s, u
  <2> QED
    BY <1>1, <1>3, FullGrows
<1>5. Beside(TypeOf(j, r), r, DestOf(j, r), j, plan[j].records, Owed(j)', g)
  BY DEF Beside, Roles
<1>6. QED
  BY <1>2, <1>3, <1>4, <1>5

\* The files of a JSONL sink with one more beside.
LEMMA HoldsBeside ==
  ASSUME NEW j, NEW r \in Roles, NEW f, NEW e \in Entry, Holds(j, r, f), TypeOf(j, r) \in Jsonls,
         r = "main" => Posted(j)' = Posted(j) /\ e.name = "asset",
         r = "asset" => /\ Owed(j)' \subseteq Owed(j) \cup {e}
                        /\ \E n \in DOMAIN plan[j].records : e = Asset(j, n),
         NEW g, g = Over(File(AssetPath(TypeOf(j, r), DestOf(j, r), j, e.name), <<e>>), f)
  PROVE  /\ Place(j, r) \in DOMAIN g /\ g[Place(j, r)] \in Seq(Entry)
         /\ Beside(TypeOf(j, r), r, DestOf(j, r), j, plan[j].records, Owed(j)', g)
         /\ Full(TypeOf(j, r), r, Posted(j)', Owed(j)', g[Place(j, r)])
<1> DEFINE p == AssetPath(TypeOf(j, r), DestOf(j, r), j, e.name)
<1>1. <<e>> \in Seq(Entry)
  OBVIOUS
<1>2. /\ DOMAIN g = DOMAIN f \cup {p} /\ g[p] = <<e>>
      /\ \A q \in DOMAIN f : q # p => g[q] = f[q]
  BY DEF Over, File
<1>3. Place(j, r) \in DOMAIN f /\ f[Place(j, r)] \in Seq(Entry)
  BY DEF Holds
<1>4. Place(j, r) \in DOMAIN g /\ g[Place(j, r)] \in Seq(Entry)
  <2> HIDE DEF p
  <2> QED
    BY <1>1, <1>2, <1>3
<1>5. CASE r = "main"
  <2>1. Place(j, r) # p
    BY <1>5 DEF Place, Path, AssetPath, Jsonls, Zips
  <2>2. g[Place(j, r)] = f[Place(j, r)]
    BY <1>2, <1>3, <2>1
  <2>3. Full(TypeOf(j, r), r, Posted(j)', Owed(j)', g[Place(j, r)])
    BY <1>5, <2>2 DEF Full, Holds, Fills
  <2>4. QED
    BY <1>4, <1>5, <2>3 DEF Beside
<1>6. CASE r = "asset"
  <2>1. Full(TypeOf(j, r), r, Posted(j)', Owed(j)', g[Place(j, r)])
    BY <1>6 DEF Full
  <2>2. ASSUME NEW a \in Owed(j)'
        PROVE  LET q == AssetPath(TypeOf(j, r), DestOf(j, r), j, a.name)
               IN  q \in DOMAIN g /\ (Sole(j, plan[j].records, a) => g[q] = <<a>>)
    <3>1. PICK q : q = AssetPath(TypeOf(j, r), DestOf(j, r), j, a.name)
      OBVIOUS
    <3>2. CASE a = e
      BY <1>2, <3>1, <3>2
    <3>3. CASE a # e
      <4>1. a \in Owed(j)
        BY <1>6, <3>3
      <4>2. q \in DOMAIN f /\ (Sole(j, plan[j].records, a) => f[q] = <<a>>)
        BY <1>6, <3>1, <4>1 DEF Holds, Beside
      <4>3. PICK n \in DOMAIN plan[j].records : e = Asset(j, n)
        BY <1>6
      <4>4. PICK m : a = Asset(j, m)
        BY <4>1 DEF Owed
      <4>5. Sole(j, plan[j].records, a) => a.name # e.name
        <5>1. ASSUME Sole(j, plan[j].records, a), a.name = e.name PROVE FALSE
          <6>1. a.of = <<j, n>>
            BY <4>3, <5>1 DEF Sole, Asset
          <6>2. a = Asset(j, n)
            BY <4>3, <4>4, <5>1, <6>1 DEF Asset
          <6>3. QED
            BY <3>3, <4>3, <6>2
        <5>2. QED
          BY <5>1
      <4>6. a.name # e.name => q # p
        BY <3>1 DEF AssetPath
      <4>7. QED
        BY <1>2, <3>1, <4>2, <4>5, <4>6
    <3>4. QED
      BY <3>2, <3>3
  <2>4. Beside(TypeOf(j, r), r, DestOf(j, r), j, plan[j].records, Owed(j)', g)
    BY <1>6, <2>2 DEF Beside
  <2>5. QED
    BY <1>4, <2>1, <2>4
<1>7. QED
  BY <1>5, <1>6 DEF Roles

\* What was posted is gathered.
LEMMA PostGathers ==
  ASSUME NEW k \in Jobs, PlainInv, SinksInv, ServiceInv, plan' = plan, OwnInv(k),
         NEW name, NEW data, NEW of, [name |-> name, of |-> of] \in Entry, PostFile(k, name, data, of),
         NEW r \in Roles, r = role[k], Lone(k, r), Gathering(k, r),
         r = "main" => Posted(k)' = Posted(k) \cup (IF Type(k) \in Jsonls /\ data # "none" THEN {} ELSE {of}),
         r = "main" /\ Type(k) \in Jsonls => data = "none" \/ (data = "hex" /\ name = "asset"),
         r = "asset" =>
           /\ data = "hex" /\ Owed(k)' \subseteq Owed(k) \cup {[name |-> name, of |-> of]}
           /\ \E n \in DOMAIN plan[k].records : [name |-> name, of |-> of] = Asset(k, n),
         pc[k] # "finalising", pc'[k] # "finalising"
  PROVE  Gathering(k, r)'
<1> DEFINE e0 == [name |-> name, of |-> of]
<1>1. PICK e \in Entry : e = e0 /\ e.name = name /\ e.of = of
  OBVIOUS
<1> HIDE DEF e0
<1>2. /\ SinkOK(Mine(k)) /\ Mine(k) = sink[k][r] /\ DestOf(k, r)' = DestOf(k, r) /\ TypeOf(k, r)' = TypeOf(k, r)
      /\ TypeOf(k, r) = Type(k) /\ DestOf(k, r) = Dest(k) /\ Place(k, r)' = Place(k, r) /\ Main(k) = Place(k, r)
  BY MineOK, SamePlan DEF Dest, Type, Main, Place
<1>3. ListsKept
  BY PostLists
\* What a file has then.
<1>4. ASSUME NEW f, NEW g, Holds(k, r, f), Type(k) \in InMem \cup {"local-jsonl"},
             g = Over(IF Type(k) \in Jsonls /\ data = "hex"
                      THEN File(AssetPath(Type(k), Dest(k), k, name), <<e>>)
                      ELSE File(Place(k, r), Append(f[Place(k, r)], e)), f)
      PROVE  /\ Place(k, r) \in DOMAIN g /\ g[Place(k, r)] \in Seq(Entry)
             /\ Beside(TypeOf(k, r), r, DestOf(k, r), k, plan[k].records, Owed(k)', g)
             /\ Full(TypeOf(k, r), r, Posted(k)', Owed(k)', g[Place(k, r)])
  <2>1. CASE Type(k) \in Jsonls /\ data = "hex"
    <3>1. g = Over(File(AssetPath(TypeOf(k, r), DestOf(k, r), k, e.name), <<e>>), f)
      BY <1>1, <1>2, <1>4, <2>1
    <3>2. r = "main" => Posted(k)' = Posted(k) /\ e.name = "asset"
      BY <1>1, <2>1
    <3>3. r = "asset" => /\ Owed(k)' \subseteq Owed(k) \cup {e}
                         /\ \E n \in DOMAIN plan[k].records : e = Asset(k, n)
      BY <1>1 DEF e0
    <3>4. QED
      BY <1>2, <1>4, <2>1, <3>1, <3>2, <3>3, HoldsBeside
  <2>2. CASE ~(Type(k) \in Jsonls /\ data = "hex")
    <3>1. g = Over(File(Place(k, r), Append(f[Place(k, r)], e)), f)
      BY <1>4, <2>2
    <3>2. r = "main" => Posted(k)' = Posted(k) \cup {e.of}
      BY <1>1, <2>2
    <3>3. r = "asset" => TypeOf(k, r) \notin Jsonls /\ Owed(k)' \subseteq Owed(k) \cup {e}
      BY <1>1, <1>2, <2>2 DEF e0
    <3>4. QED
      BY <1>4, <3>1, <3>2, <3>3, HoldsAppended
  <2>3. QED
    BY <2>1, <2>2
<1>5. CASE Type(k) \in InMem
  <2> DEFINE f == Mine(k).mem
             new == IF Type(k) \in Jsonls /\ data = "hex"
                    THEN File(AssetPath(Type(k), Dest(k), k, name), <<e>>)
                    ELSE File(Place(k, r), Append(f[Place(k, r)], e))
             g == Over(new, f)
             s == [Mine(k) EXCEPT !.mem = g]
  <2>1. [Mine(k) EXCEPT !.mem = Over(new, @)] = s
    BY <1>2 DEF SinkOK, NewSink
  <2>2. SetSink(k, [Mine(k) EXCEPT !.mem = Over(new, @)])
    BY <1>1, <1>2, <1>5 DEF PostFile, InMemory, InMem, Zips, Jsonls, DatasetTypes, e0
  <2>3. SetSink(k, s) /\ s.mem = g
    BY <1>2, <2>1, <2>2 DEF SinkOK, NewSink
  <2>4. Holds(k, r, f)
    BY <1>2, <1>5 DEF Gathering, Putting
  <2> HIDE DEF s
  <2>5. sink'[k][r].mem = g
    BY <2>3, SetSinkMeans
  <2>6. /\ Place(k, r) \in DOMAIN g /\ g[Place(k, r)] \in Seq(Entry)
        /\ Beside(TypeOf(k, r), r, DestOf(k, r), k, plan[k].records, Owed(k)', g)
        /\ Full(TypeOf(k, r), r, Posted(k)', Owed(k)', g[Place(k, r)])
    BY <1>4, <1>5, <2>4
  <2> HIDE DEF g
  <2>7. Holds(k, r, sink[k][r].mem)'
    BY <1>2, <2>5, <2>6 DEF Holds, Fills
  <2>8. QED
    BY <1>2, <1>5, <2>7 DEF Gathering, Putting, InMem, Zips, DatasetTypes, Annotators
<1>6. CASE Type(k) = "local-jsonl"
  <2> DEFINE new == IF Type(k) \in Jsonls /\ data = "hex"
                    THEN File(AssetPath(Type(k), Dest(k), k, name), <<e>>)
                    ELSE File(Place(k, r), Append(objects[Place(k, r)], e))
  <2>1. objects' = Over(new, objects)
    BY <1>1, <1>2, <1>6 DEF PostFile, InMem, Zips, Jsonls, DatasetTypes, e0
  <2>2. Holds(k, r, objects)
    BY <1>2, <1>6 DEF Gathering
  <2>3. /\ Place(k, r) \in DOMAIN objects' /\ objects'[Place(k, r)] \in Seq(Entry)
        /\ Beside(TypeOf(k, r), r, DestOf(k, r), k, plan[k].records, Owed(k)', objects')
        /\ Full(TypeOf(k, r), r, Posted(k)', Owed(k)', objects'[Place(k, r)])
    BY <1>4, <1>6, <2>1, <2>2
  <2>4. Holds(k, r, objects)'
    BY <1>2, <2>3 DEF Holds, Fills
  <2>5. QED
    BY <1>2, <1>6, <2>4 DEF Gathering, InMem, Zips, DatasetTypes, Annotators
<1>7. CASE Type(k) = "tagme-annotator"
  <2> DEFINE s == [Mine(k) EXCEPT !.buf = Append(Mine(k).buf, e)]
  <2>1. [Mine(k) EXCEPT !.buf = Append(@, e0)] = s
    BY <1>1, <1>2 DEF SinkOK, NewSink
  <2>2. SetSink(k, [Mine(k) EXCEPT !.buf = Append(@, e0)]) /\ service' = service
    BY <1>7 DEF PostFile, Zips, DatasetTypes, e0
  <2>3. SetSink(k, s) /\ s.buf = Append(Mine(k).buf, e) /\ s.task = Mine(k).task /\ s.project = Mine(k).project
    BY <1>2, <2>1, <2>2 DEF SinkOK, NewSink
  <2> HIDE DEF s
  <2>4. /\ sink'[k][r].buf = Append(Mine(k).buf, e) /\ sink'[k][r].task = Mine(k).task
        /\ sink'[k][r].project = Mine(k).project
    BY <2>3, SetSinkMeans
  <2>5. ToSet(Append(Mine(k).buf, e)) = ToSet(Mine(k).buf) \cup {e}
    BY <1>2, AppendShows DEF SinkOK
  <2>6. /\ Full(Type(k), r, Posted(k), Owed(k), Mine(k).buf) /\ IsProject(k, r, Mine(k).project)
        /\ Mine(k).task # 0 /\ tasks[Mine(k).task].project = Mine(k).project
    BY <1>2, <1>7 DEF Gathering, Fills, Annotators
  <2>7. r = "main" => Posted(k)' = Posted(k) \cup {e.of}
    BY <1>1, <1>7 DEF Jsonls
  <2>8. r = "asset" => Owed(k)' \subseteq Owed(k) \cup {e}
    BY <1>1 DEF e0
  <2>9. Full(Type(k), r, Posted(k)', Owed(k)', Append(Mine(k).buf, e))
    <3> DEFINE b == Mine(k).buf
               u == Append(b, e)
    <3>1. ToSet(u) = ToSet(b) \cup {e} /\ Full(Type(k), r, Posted(k), Owed(k), b)
      BY <2>5, <2>6
    <3> HIDE DEF b, u
    <3>2. Full(Type(k), r, Posted(k)', Owed(k)', u)
      BY <2>7, <2>8, <3>1, FullGrows
    <3>3. QED
      BY <3>2 DEF b, u
  <2>10. Mine(k).project \in ProjectFor(DestOf(k, r))'
    BY <1>3, <2>6, ProjectStays
  <2>11. Fills(k, r, sink[k][r].buf)' /\ IsProject(k, r, sink[k][r].project)'
    BY <1>2, <2>4, <2>9, <2>10 DEF Fills, IsProject
  <2>12. QED
    BY <1>2, <1>7, <2>2, <2>4, <2>6, <2>11 DEF service, Gathering, InMem, Zips, DatasetTypes, Annotators
<1>8. CASE Type(k) \in DatasetTypes \cup {"annotator-mock"}
  <2> DEFINE d0 == Mine(k).dataset
  <2>1. PICK d : d = d0 /\ d = sink[k][r].dataset
    BY <1>2
  <2>2. /\ d \in DOMAIN datasets /\ sink' = sink
        /\ ToSet(datasets'[d].files) = ToSet(datasets[d].files) \cup {e}
        /\ d \in DOMAIN datasets' /\ datasets'[d].name = datasets[d].name
    <3>1. /\ d0 \in DOMAIN datasets /\ sink' = sink
          /\ ToSet(datasets'[d0].files) = ToSet(datasets[d0].files) \cup {e0}
      <4>1. e0 \in Entry
        BY <1>1
      <4>2. QED
        BY <1>8, <4>1, PostLists DEF e0
    <3>2. QED
      BY <1>1, <1>3, <2>1, <3>1 DEF ListsKept
  <2>3. sink'[k][r] = sink[k][r] /\ tasks' = tasks
    BY <1>8, <2>2 DEF PostFile, Zips, Jsonls, DatasetTypes
  <2>4. Full(Type(k), r, Posted(k), Owed(k), datasets[d].files)
    BY <1>2, <1>8, <2>1, <2>2 DEF Gathering, Fills
  <2>5. r = "main" => Posted(k)' = Posted(k) \cup {e.of}
    BY <1>1, <1>8 DEF Jsonls, DatasetTypes
  <2>6. r = "asset" => Owed(k)' \subseteq Owed(k) \cup {e}
    BY <1>1 DEF e0
  <2>7. Full(Type(k), r, Posted(k)', Owed(k)', datasets'[d].files)
    <3> DEFINE b == datasets[d].files
               u == datasets'[d].files
    <3>1. ToSet(u) = ToSet(b) \cup {e} /\ Full(Type(k), r, Posted(k), Owed(k), b)
      BY <2>2, <2>4
    <3> HIDE DEF b, u
    <3>2. Full(Type(k), r, Posted(k)', Owed(k)', u)
      BY <2>5, <2>6, <3>1, FullGrows
    <3>3. QED
      BY <3>2 DEF b, u
  <2>8. Fills(k, r, datasets[sink[k][r].dataset].files)'
    BY <1>2, <2>1, <2>3, <2>7 DEF Fills
  <2>9. CASE Type(k) \in DatasetTypes
    <3>1. sink[k][r].ext = d /\ IsSet(k, r, d)
      BY <1>2, <2>1, <2>9 DEF Gathering
    <3>2. d # 0 /\ d \in {Uuid[DestOf(k, r)]} \cup Named(DestOf(k, r))
      BY <3>1 DEF IsSet
    <3>3. d \in {Uuid[DestOf(k, r)']} \cup Named(DestOf(k, r))'
      BY <1>2, <2>2, <3>2 DEF Named
    <3>4. IsSet(k, r, sink[k][r].dataset)'
      BY <1>2, <2>1, <2>2, <2>3, <3>2, <3>3 DEF IsSet
    <3>5. QED
      BY <1>2, <2>1, <2>3, <2>8, <2>9, <3>1, <3>4
         DEF Gathering, InMem, Zips, DatasetTypes, Annotators
  <2>10. CASE Type(k) = "annotator-mock"
    <3>1. IsProject(k, r, sink[k][r].project)
      BY <1>2, <2>10 DEF Gathering, Annotators
    <3>2. PICK p : p = sink[k][r].project
      OBVIOUS
    <3>3. p \in ProjectFor(DestOf(k, r))'
      BY <1>3, <3>1, <3>2, ProjectStays
    <3>4. IsProject(k, r, sink[k][r].project)'
      BY <2>3, <3>2, <3>3 DEF IsProject
    <3>5. QED
      BY <1>2, <2>1, <2>2, <2>3, <2>8, <2>10, <3>4
         DEF Gathering, InMem, Zips, DatasetTypes, Annotators
  <2>11. QED
    BY <1>8, <2>9, <2>10
<1>9. QED
  BY <1>5, <1>6, <1>7, <1>8 DEF PostFile, InMem, Zips, Jsonls, DatasetTypes

\* A record is posted, or an asset of one.
LEMMA SendGathers ==
  ASSUME NEW k \in Jobs, PlainInv, SinksInv, ServiceInv, plan' = plan, OwnInv(k), Control(k), PlacesInv(k),
         SendRecord(k), NEW r \in Roles, r = role[k], Lone(k, r), OutputInv(k, r)
  PROVE  OutputInv(k, r)'
<1> DEFINE data == Record(k).data
           name == RecordName(k, Record(k))
           of == <<k, at[k]>>
<1>1. /\ pc[k] = "sending" /\ pc'[k] = "checking" /\ sent'[k] = Append(sent[k], at[k])
      /\ sent[k] \in Seq(Nat) /\ at[k] \in Nat /\ k \in DOMAIN plan
      /\ PostFile(k, name, data, of)
  BY DEF SendRecord, Sends, Goto, PlainInv, Lone
<1>2. r = "main" /\ Gathering(k, r)
  BY <1>1 DEF PlacesInv, OutputInv, Opened, AtRecord
<1>3. [name |-> name, of |-> of] \in Entry
  BY <1>1, RecordOK DEF AtRecord
<1>4. ToSet(sent'[k]) = ToSet(sent[k]) \cup {at[k]}
  <2>1. sent[k] \in Seq(Nat) /\ at[k] \in Nat
    BY <1>1
  <2>2. ToSet(Append(sent[k], at[k])) = ToSet(sent[k]) \cup {at[k]}
    BY <2>1, AppendShows
  <2>3. QED
    BY <1>1, <2>2
<1>5. Type(k) = plan[k].type /\ data = plan[k].records[at[k]].data
  BY <1>2 DEF Type, TypeOf, Record
<1>6. Posted(k)' = Posted(k) \cup (IF Type(k) \in Jsonls /\ data # "none" THEN {} ELSE {of})
  BY <1>4, <1>5 DEF Posted
<1>7. Type(k) \in Jsonls => data = "none" \/ (data = "hex" /\ name = "asset")
  <2>1. plan[k].records[at[k]] \in RecordType
    BY <1>1, PlanOK, ElementOfSeq DEF PlainInv, Control, AtRecord
  <2>2. data \in {"none", "hex", "text"}
    BY <1>5, <2>1 DEF RecordType
  <2>3. Type(k) \in Files => data # "text"
    BY <1>2 DEF SendRecord, CannotPost
  <2>4. QED
    BY <2>2, <2>3 DEF RecordName, Files, Jsonls, Zips
<1> HIDE DEF data, name, of
<1>8. Gathering(k, r)'
  BY <1>1, <1>2, <1>3, <1>6, <1>7, PostGathers
<1>9. QED
  BY <1>1, <1>8, GathersNow DEF AtRecord

LEMMA ResolveGathers ==
  ASSUME NEW k \in Jobs, PlainInv, SinksInv, ServiceInv, plan' = plan, OwnInv(k), Control(k), PlacesInv(k),
         ResolveAsset(k) \/ AssetFails(k), PostFile(k, Record(k).url, "hex", <<k, at[k]>>),
         NEW r \in Roles, r = role[k], Lone(k, r), OutputInv(k, r)
  PROVE  OutputInv(k, r)'
<1>1. /\ pc[k] = "resolving" /\ pc'[k] \in {"sending", "checking"} /\ sent' = sent /\ at' = at
      /\ k \in DOMAIN plan
  BY DEF ResolveAsset, AssetFails, Sends, Goto, PlainInv, Lone
<1>2. r = "asset" /\ Gathering(k, r)
  BY <1>1 DEF Control, OutputInv, Opened, AtRecord
<1>3. PICK name : name = Record(k).url
  OBVIOUS
<1>4. [name |-> name, of |-> <<k, at[k]>>] \in Entry
  BY <1>1, <1>3, RecordOK DEF AtRecord
<1>5. Past(k)' \subseteq Past(k) \cup {at[k]}
  BY <1>1 DEF Past
<1>6. /\ Owed(k)' \subseteq Owed(k) \cup {Asset(k, at[k])}
      /\ Asset(k, at[k]) = [name |-> name, of |-> <<k, at[k]>>]
      /\ at[k] \in DOMAIN plan[k].records
  <2>1. Owed(k)' \subseteq Owed(k) \cup {Asset(k, at[k])}
    BY <1>5 DEF Owed, Asset
  <2>2. at[k] \in DOMAIN plan[k].records
    BY <1>1, PlanOK, LenProperties DEF PlainInv, Control, AtRecord
  <2>3. QED
    BY <1>3, <2>1, <2>2 DEF Asset, Record
<1>7. Gathering(k, r)'
  <2> DEFINE of == <<k, at[k]>>
             e == [name |-> name, of |-> of]
  <2>1. /\ e \in Entry /\ PostFile(k, name, "hex", of)
        /\ Owed(k)' \subseteq Owed(k) \cup {e}
        /\ \E n \in DOMAIN plan[k].records : e = Asset(k, n)
    BY <1>3, <1>4, <1>6
  <2>2. pc[k] # "finalising" /\ pc'[k] # "finalising"
    BY <1>1
  <2> HIDE DEF of
  <2>3. QED
    BY <1>2, <2>1, <2>2, PostGathers
<1>8. QED
  BY <1>1, <1>7, GathersNow DEF AtRecord

\* What goes to the service, or to the files, at the end has no more records.
LEMMA NoMoreAtEnd ==
  ASSUME NEW k, plan' = plan, sent' = sent, pc'[k] # "sending", NEW r
  PROVE  NoMore(k, r)
<1>1. Posted(k)' = Posted(k)
  BY DEF Posted
<1>2. Past(k)' \subseteq Past(k)
  BY DEF Past
<1>3. Owed(k)' \subseteq Owed(k)
  BY <1>2 DEF Owed, Asset
<1>4. QED
  BY <1>1, <1>3 DEF NoMore

\* The files are put.
LEMMA PutShows ==
  ASSUME NEW k \in Jobs, Acts(k), PlainInv, SinksInv, ServiceInv, Control(k), MemInv(k), plan' = plan,
         PutFiles(k), NEW r \in Roles, r = role[k], Lone(k, r), OutputInv(k, r)
  PROVE  OutputInv(k, r)'
<1>1. /\ pc[k] = "finalising" /\ role'[k] = r /\ sent' = sent
      /\ Type(k) \in Files \cup DatasetTypes /\ datasets' = datasets
  BY DEF PutFiles, Stay, service
<1>2. /\ SinkOK(Mine(k)) /\ Mine(k) = sink[k][r] /\ DestOf(k, r)' = DestOf(k, r) /\ TypeOf(k, r)' = TypeOf(k, r)
      /\ TypeOf(k, r) = Type(k) /\ DestOf(k, r) = Dest(k) /\ Place(k, r)' = Place(k, r)
      /\ MemOK(Type(k), Dest(k), k, Mine(k).mem)
  BY MineOK, SamePlan DEF Dest, Type, MemInv
<1>3. pc'[k] # "sending"
  BY <1>1 DEF PutFiles, Goto, PlainInv
<1>4. Putting(k, r)
  BY <1>1 DEF Putting
<1>5. Gathering(k, r) /\ NoMore(k, r)
  BY <1>1, <1>3, NoMoreAtEnd DEF OutputInv, Opened, Roles
\* An object is put: what is in memory and what is there stay the same together.
<1>6. ASSUME NEW p \in NextPut(k), objects' = Over(File(p, Mine(k).mem[p]), objects), SetSink(k, Unput(k, p)), pc' = pc
      PROVE  OutputInv(k, r)'
  <2>1. p \in DOMAIN Mine(k).mem /\ Type(k) \in InMem
    BY <1>2 DEF NextPut, MemOK
  <2> DEFINE f == Over(Mine(k).mem, objects)
             g == Over(sink'[k][r].mem, objects')
  <2>2. Holds(k, r, f)
    BY <1>2, <1>4, <1>5, <2>1 DEF Gathering
  <2>3. sink'[k][r].mem = Restrict(Mine(k).mem, DOMAIN Mine(k).mem \ {p})
    <3>1. Unput(k, p).mem = Restrict(Mine(k).mem, DOMAIN Mine(k).mem \ {p})
      BY <1>2 DEF Unput, SinkOK, NewSink
    <3>2. QED
      BY <1>2, <1>6, <3>1, SetSinkMeans
  <2>4. DOMAIN f \subseteq DOMAIN g /\ \A q \in DOMAIN f : g[q] = f[q]
    BY <1>6, <2>1, <2>3 DEF Over, File, Restrict
  <2> HIDE DEF f, g
  <2>5. /\ Place(k, r) \in DOMAIN g /\ g[Place(k, r)] \in Seq(Entry)
        /\ Beside(TypeOf(k, r), r, DestOf(k, r), k, plan[k].records, Owed(k)', g)
        /\ Full(TypeOf(k, r), r, Posted(k)', Owed(k)', g[Place(k, r)])
    BY <1>5, <2>2, <2>4, HoldsStays
  <2>6. Holds(k, r, Over(sink[k][r].mem, objects))'
    BY <1>2, <2>5 DEF Holds, Fills, g
  <2>7. Putting(k, r)'
    BY <1>1, <1>6 DEF Putting
  <2>8. Gathering(k, r)'
    BY <1>2, <2>1, <2>6, <2>7 DEF Gathering, InMem, Zips, DatasetTypes, Annotators
  <2>9. QED
    BY <1>1, <1>6, <2>8 DEF OutputInv, Placing, Opened, Filled, Closed, Sealed, Completed, AtRecord, SetUp, Roles,
         PlainInv, Control, PutFiles, Stay, row
<1>7. SUFFICES ASSUME DOMAIN Mine(k).mem = {}, pc'[k] = "closing", objects' = objects, sink' = sink
               PROVE  OutputInv(k, r)'
  <2>1. \/ DOMAIN Mine(k).mem = {} /\ Goto(k, "closing") /\ UNCHANGED <<objects, sink>>
        \/ \E p \in NextPut(k) :
             /\ objects' = Over(File(p, Mine(k).mem[p]), objects)
             /\ SetSink(k, Unput(k, p)) /\ UNCHANGED pc
    BY DEF PutFiles
  <2>2. QED
    BY <1>6, <1>7, <2>1 DEF Goto, PlainInv
<1>8. sink'[k][r].ext = Mine(k).ext
  BY <1>2, <1>7
<1>9. CASE Type(k) \in Files
  <2>1. \E f : /\ Holds(k, r, f) /\ DOMAIN f \subseteq DOMAIN objects'
               /\ \A p \in DOMAIN f : objects'[p] = f[p]
    <3>1. CASE Type(k) \in InMem
      <4>1. Holds(k, r, Over(Mine(k).mem, objects))
        BY <1>2, <1>4, <1>5, <3>1 DEF Gathering
      <4>2. /\ DOMAIN Over(Mine(k).mem, objects) \subseteq DOMAIN objects'
            /\ \A p \in DOMAIN Over(Mine(k).mem, objects) : objects'[p] = Over(Mine(k).mem, objects)[p]
        BY <1>7 DEF Over
      <4>3. QED
        BY <4>1, <4>2
    <3>2. CASE Type(k) = "local-jsonl"
      BY <1>2, <1>5, <1>7, <3>2 DEF Gathering
    <3>3. QED
      BY <1>9, <3>1, <3>2 DEF Files, Jsonls, InMem
  <2>2. /\ Place(k, r) \in DOMAIN objects' /\ objects'[Place(k, r)] \in Seq(Entry)
        /\ Beside(TypeOf(k, r), r, DestOf(k, r), k, plan[k].records, Owed(k)', objects')
        /\ Full(TypeOf(k, r), r, Posted(k)', Owed(k)', objects'[Place(k, r)])
    BY <1>5, <2>1, HoldsStays
  <2>3. Holds(k, r, objects)'
    BY <1>2, <2>2 DEF Holds, Fills
  <2>4. Shows(k, r)'
    BY <1>2, <1>9, <2>3 DEF Shows, Files, Zips, Jsonls, DatasetTypes, Annotators
  <2>5. QED
    BY <1>1, <1>2, <1>9, <1>7, <2>4, ClosedNow DEF Files, Zips, Jsonls, Annotators
<1>10. CASE Type(k) \in DatasetTypes
  <2>1. PICK d : d = Mine(k).ext
    OBVIOUS
  <2>2. /\ IsSet(k, r, d)
        /\ d \in DOMAIN datasets => Fills(k, r, datasets[d].files)
    BY <1>2, <1>5, <1>10, <2>1 DEF Gathering
  <2>3. ListsKept
    BY ListsGrow
  <2>4. /\ d # 0 /\ d \in {Uuid[DestOf(k, r)']} \cup Named(DestOf(k, r))'
        /\ d \notin DOMAIN datasets' => Bare(k, r)'
    BY <1>5, <2>2, <2>3, SetStays
  <2>5. d \in DOMAIN datasets' => Full(TypeOf(k, r), r, Posted(k)', Owed(k)', datasets'[d].files)
    BY <1>2, <1>5, <1>10, <2>2, <2>3, FilesStay
  <2>6. Known(k, r)' = d
    BY <1>1, <1>7, <1>8, <2>1 DEF Known, Filled, Closed
  <2>7. IsSet(k, r, Known(k, r))' /\ (Known(k, r)' \in DOMAIN datasets' => Fills(k, r, datasets[Known(k, r)].files)')
    BY <1>2, <2>4, <2>5, <2>6 DEF IsSet, Fills
  <2>8. Shows(k, r)'
    BY <1>2, <1>10, <2>7 DEF Shows, Files, Zips, Jsonls, DatasetTypes, Annotators
  <2>9. QED
    BY <1>1, <1>2, <1>7, <1>8, <1>10, <2>1, <2>4, <2>8, ClosedNow DEF DatasetTypes, Annotators
<1>11. QED
  BY <1>1, <1>9, <1>10

\* A task gets the payload.
LEMMA PayloadShows ==
  ASSUME NEW k \in Jobs, Acts(k), PlainInv, SinksInv, ServiceInv, OwnInv(k), Control(k), plan' = plan,
         PutPayload(k), NEW r \in Roles, r = role[k], Lone(k, r), OutputInv(k, r)
  PROVE  OutputInv(k, r)'
<1>1. /\ pc[k] = "finalising" /\ pc'[k] = "starting" /\ role'[k] = r /\ sent' = sent
      /\ Type(k) = "tagme-annotator" /\ sink'[k][r].task = Mine(k).task
  <2>1. Steady(k)
    BY Steadies
  <2>2. QED
    BY <2>1 DEF Steady, Same, Mine, PutPayload, Stay, Goto, PlainInv
<1>2. /\ SinkOK(Mine(k)) /\ Mine(k) = sink[k][r] /\ DestOf(k, r)' = DestOf(k, r) /\ TypeOf(k, r)' = TypeOf(k, r)
      /\ TypeOf(k, r) = Type(k) /\ DestOf(k, r) = Dest(k)
  BY MineOK, SamePlan DEF Dest, Type
<1>3. Gathering(k, r) /\ NoMore(k, r)
  BY <1>1, NoMoreAtEnd DEF OutputInv, Opened, Roles
<1>4. PICK n : n = Mine(k).task
  OBVIOUS
<1>5. /\ n # 0 /\ tasks[n].project = Mine(k).project /\ IsProject(k, r, Mine(k).project)
      /\ Fills(k, r, Mine(k).buf)
  BY <1>1, <1>2, <1>3, <1>4 DEF Gathering, Annotators
<1>6. /\ Len(tasks') = Len(tasks) /\ n \in 1..Len(tasks) /\ tasks'[n].payload = Mine(k).buf
      /\ tasks[n].job = k /\ tasks[n].role = r
  BY <1>4, <1>5, OldTask
<1>7. tasks'[n].job = k /\ tasks'[n].role = r /\ tasks'[n].project = Mine(k).project
  <2>1. Grown(k)
    BY Grows
  <2>2. QED
    BY <1>5, <1>6, <2>1 DEF Grown
<1>8. Mine(k).project \in ProjectFor(DestOf(k, r))'
  BY <1>5, ListsGrow, ProjectStays
<1>9. Full(TypeOf(k, r), r, Posted(k)', Owed(k)', Mine(k).buf)
  BY <1>3, <1>5, FullStays
<1>10. Known(k, r)' = n
  BY <1>1, <1>4 DEF Known, Filled, Closed
<1>11. /\ IsProject(k, r, tasks[Known(k, r)].project)'
       /\ Fills(k, r, tasks[Known(k, r)].payload)'
  BY <1>2, <1>6, <1>7, <1>8, <1>9, <1>10 DEF IsProject, Fills
<1>12. Shows(k, r)'
  BY <1>1, <1>2, <1>6, <1>7, <1>10, <1>11 DEF Shows, Files, Zips, Jsonls, DatasetTypes, Annotators
<1>13. QED
  BY <1>1, <1>2, <1>12, FilledNow DEF Annotators

\* A task is made for the dataset.
LEMMA TaskShows ==
  ASSUME NEW k \in Jobs, Acts(k), PlainInv, SinksInv, ServiceInv, OwnInv(k), Control(k), plan' = plan,
         PostTask(k), NEW r \in Roles, r = role[k], Lone(k, r), OutputInv(k, r)
  PROVE  OutputInv(k, r)'
<1>1. /\ pc[k] = "finalising" /\ pc'[k] = "starting" /\ role'[k] = r /\ sent' = sent
      /\ Type(k) = "annotator-mock" /\ datasets' = datasets
  BY DEF PostTask, Stay, Goto, PlainInv
<1>2. /\ SinkOK(Mine(k)) /\ Mine(k) = sink[k][r] /\ DestOf(k, r)' = DestOf(k, r) /\ TypeOf(k, r)' = TypeOf(k, r)
      /\ TypeOf(k, r) = Type(k) /\ DestOf(k, r) = Dest(k)
  BY MineOK, SamePlan DEF Dest, Type
<1>3. Gathering(k, r) /\ NoMore(k, r)
  BY <1>1, NoMoreAtEnd DEF OutputInv, Opened, Roles
<1>4. PICK d : d = Mine(k).dataset
  OBVIOUS
<1>5. d \in DOMAIN datasets /\ Fills(k, r, datasets[d].files) /\ IsProject(k, r, Mine(k).project)
  BY <1>1, <1>2, <1>3, <1>4 DEF Gathering, Annotators
<1>6. PICK n : n = sink'[k][r].task
  OBVIOUS
<1>7. /\ n \in 1..Len(tasks') /\ tasks'[n].job = k /\ tasks'[n].role = r /\ tasks'[n].project = Mine(k).project
      /\ tasks'[n].dataset = d
  BY <1>1, <1>4, <1>6, NewTask
<1>8. Mine(k).project \in ProjectFor(DestOf(k, r))'
  BY <1>5, ListsGrow, ProjectStays
<1>9. Full(TypeOf(k, r), r, Posted(k)', Owed(k)', datasets'[d].files)
  BY <1>1, <1>3, <1>5, FullStays
<1>10. Known(k, r)' = n
  BY <1>1, <1>6 DEF Known, Filled, Closed
<1>11. /\ IsProject(k, r, tasks[Known(k, r)].project)'
       /\ Fills(k, r, datasets[tasks[Known(k, r)].dataset].files)'
  BY <1>2, <1>7, <1>8, <1>9, <1>10 DEF IsProject, Fills
<1>12. Shows(k, r)'
  BY <1>1, <1>2, <1>5, <1>7, <1>10, <1>11 DEF Shows, Files, Zips, Jsonls, DatasetTypes, Annotators
<1>13. QED
  BY <1>1, <1>2, <1>12, FilledNow DEF Annotators

\* The task is started.
LEMMA StartShows ==
  ASSUME NEW k \in Jobs, Acts(k), PlainInv, SinksInv, ServiceInv, OwnInv(k), Control(k), plan' = plan,
         StartTask(k), NEW r \in Roles, r = role[k], Lone(k, r), OutputInv(k, r)
  PROVE  OutputInv(k, r)'
<1> DEFINE s == [Mine(k) EXCEPT !.ext = Mine(k).task]
<1>1. /\ pc[k] = "starting" /\ pc'[k] = "closing" /\ role'[k] = r /\ sent' = sent
      /\ datasets' = datasets /\ SetSink(k, s)
  BY DEF StartTask, Stay, Goto, PlainInv
<1>2. /\ SinkOK(Mine(k)) /\ Mine(k) = sink[k][r] /\ DestOf(k, r)' = DestOf(k, r) /\ TypeOf(k, r)' = TypeOf(k, r)
      /\ TypeOf(k, r) = Type(k) /\ DestOf(k, r) = Dest(k)
  BY MineOK, SamePlan DEF Dest, Type
<1>3. s.ext = Mine(k).task
  BY <1>2 DEF SinkOK, NewSink
<1> HIDE DEF s
<1>4. PICK n : n = Mine(k).task /\ n = sink'[k][r].ext
  BY <1>1, <1>3, SetSinkMeans
<1>5. Shows(k, r) /\ TypeOf(k, r) \in Annotators /\ NoMore(k, r)
  BY <1>1, NoMoreAtEnd DEF OutputInv, Filled
<1>6. Known(k, r) = n /\ Known(k, r)' = n
  BY <1>1, <1>2, <1>4 DEF Known, Filled, Closed
<1>7. n \in 1..Len(tasks) /\ tasks[n].job = k /\ tasks[n].role = r /\ IsProject(k, r, tasks[n].project)
  BY <1>5, <1>6 DEF Shows
<1>8. /\ Len(tasks') = Len(tasks) /\ n # 0 /\ Len(tasks) \in Nat
      /\ tasks'[n].dataset = tasks[n].dataset /\ tasks'[n].payload = tasks[n].payload
  <2>1. ~PutPayload(k)
    BY <1>1 DEF PutPayload
  <2>2. Len(tasks) \in Nat
    BY LenProperties DEF ServiceInv
  <2>3. n # 0
    BY <1>7, <2>2
  <2>4. /\ Len(tasks') = Len(tasks)
        /\ tasks'[n].dataset = tasks[n].dataset /\ tasks'[n].payload = tasks[n].payload
    BY <1>4, <2>1, <2>3, OldTask
  <2>5. QED
    BY <2>2, <2>3, <2>4
<1>9. tasks'[n].started /\ tasks'[n].job = k /\ tasks'[n].role = r /\ tasks'[n].project = tasks[n].project
  <2>1. tasks' = [tasks EXCEPT ![n].started = TRUE] /\ n \in DOMAIN tasks
    BY <1>4, <1>7, LenProperties DEF StartTask, ServiceInv
  <2>2. tasks[n] \in Task
    BY <1>7, ElementOfSeq DEF ServiceInv
  <2>3. QED
    BY <1>7, <2>1, <2>2 DEF Task
<1>10. PICK p : p = tasks[n].project
  OBVIOUS
<1>11. p \in ProjectFor(DestOf(k, r))'
  BY <1>7, <1>10, ListsGrow, ProjectStays
<1>12. IsProject(k, r, tasks[Known(k, r)].project)'
  BY <1>2, <1>6, <1>9, <1>10, <1>11 DEF IsProject
<1>13. CASE TypeOf(k, r) = "tagme-annotator"
  <2>1. PICK b : b = tasks[n].payload /\ Fills(k, r, b)
    BY <1>5, <1>6, <1>13 DEF Shows
  <2>2. Full(TypeOf(k, r), r, Posted(k)', Owed(k)', b)
    BY <1>5, <2>1, FullStays
  <2>3. Fills(k, r, tasks[Known(k, r)].payload)'
    BY <1>2, <1>6, <1>8, <2>1, <2>2 DEF Fills
  <2>4. Shows(k, r)'
    BY <1>2, <1>6, <1>7, <1>8, <1>9, <1>12, <1>13, <2>3 DEF Shows, Files, Zips, Jsonls, DatasetTypes, Annotators
  <2>5. QED
    BY <1>1, <1>4, <1>8, <1>9, <2>4, ClosedNow
<1>14. CASE TypeOf(k, r) = "annotator-mock"
  <2>1. PICK d : d = tasks[n].dataset /\ d \in DOMAIN datasets /\ Fills(k, r, datasets[d].files)
    BY <1>5, <1>6, <1>14 DEF Shows
  <2>2. Full(TypeOf(k, r), r, Posted(k)', Owed(k)', datasets'[d].files)
    BY <1>1, <1>5, <2>1, FullStays
  <2>3. Fills(k, r, datasets[tasks[Known(k, r)].dataset].files)'
    BY <1>2, <1>6, <1>8, <2>1, <2>2 DEF Fills
  <2>4. Shows(k, r)'
    BY <1>1, <1>2, <1>6, <1>7, <1>8, <1>9, <1>12, <1>14, <2>1, <2>3
       DEF Shows, Files, Zips, Jsonls, DatasetTypes, Annotators
  <2>5. QED
    BY <1>1, <1>4, <1>8, <1>9, <2>4, ClosedNow
<1>15. QED
  BY <1>5, <1>13, <1>14 DEF Annotators

\* The sink is closed, and its id goes to the row.
LEMMA CloseShows ==
  ASSUME NEW k \in Jobs, PlainInv, SinksInv, IdsInv, plan' = plan,
         Close(k), NEW r \in Roles, r = role[k], Lone(k, r), OutputInv(k, r)
  PROVE  OutputInv(k, r)'
<1>1. /\ pc[k] = "closing" /\ sent' = sent /\ status' = status
      /\ datasets' = datasets /\ projects' = projects /\ tasks' = tasks /\ objects' = objects
      /\ \/ r = "main" /\ role'[k] = "asset" /\ pc'[k] = "finalising"
         \/ role'[k] = r /\ pc'[k] = "deciding"
  BY DEF Close, Goto, PlainInv, service, local
<1>2. /\ DestOf(k, r)' = DestOf(k, r) /\ TypeOf(k, r)' = TypeOf(k, r)
      /\ Place(k, r)' = Place(k, r) /\ Mine(k) = sink[k][r]
  BY MineOK, SamePlan
<1>3. /\ Shows(k, r) /\ NoMore(k, r)
      /\ TypeOf(k, r) \notin Files => Mine(k).ext # 0
      /\ TypeOf(k, r) \in Annotators => tasks[Known(k, r)].started
  BY <1>1, <1>2, NoMoreAtEnd DEF OutputInv, Closed
<1>4. Shows(k, r)' /\ (TypeOf(k, r) \in Annotators => tasks'[Known(k, r)'].started)
  <2>1. CASE Mine(k).ext # 0
    <3>1. Known(k, r) = Mine(k).ext
      BY <1>1, <1>2 DEF Known, Filled, Closed
    <3>2. Known(k, r)' = IF r = "main" THEN extId'[k] ELSE assetId'[k]
      BY <1>1 DEF Known, Filled, Closed
    <3>3. (IF r = "main" THEN extId'[k] ELSE assetId'[k]) = Mine(k).ext
      BY <2>1 DEF Close, IdsInv
    <3>4. Known(k, r)' = Known(k, r)
      BY <3>1, <3>2, <3>3
    <3>5. Keeps(k, r)
      BY <1>1 DEF Keeps, ListsKept, TasksKept, FilesKept
    <3>6. QED
      BY <1>3, <3>4, <3>5, ShowsStays
  <2>2. CASE TypeOf(k, r) \in Files
    <3>1. Holds(k, r, objects)
      BY <1>3, <2>2 DEF Shows
    <3>2. /\ Place(k, r) \in DOMAIN objects' /\ objects'[Place(k, r)] \in Seq(Entry)
          /\ Beside(TypeOf(k, r), r, DestOf(k, r), k, plan[k].records, Owed(k)', objects')
          /\ Full(TypeOf(k, r), r, Posted(k)', Owed(k)', objects'[Place(k, r)])
      BY <1>1, <1>3, <3>1, HoldsStays
    <3>3. Holds(k, r, objects)'
      BY <1>2, <3>2 DEF Holds, Fills
    <3>4. QED
      BY <1>2, <2>2, <3>3 DEF Shows, Files, Zips, Jsonls, DatasetTypes, Annotators
  <2>3. QED
    BY <1>3, <2>1, <2>2
<1>5. /\ ~Placing(k, r)' /\ ~Opened(k, r)' /\ ~Filled(k, r)' /\ ~Closed(k, r)'
  BY <1>1 DEF Placing, Opened, Filled, Closed, AtRecord, SetUp
<1>6. QED
  BY <1>2, <1>4, <1>5 DEF OutputInv

-----------------------------------------------------------------------------
(* Every step                                                              *)

\* Nothing is held before there are records.
LEMMA BufStep ==
  ASSUME NEW k \in Jobs, Acts(k), PlainInv, SinksInv, PlacesInv(k), k \in DOMAIN plan,
         pc'[k] \in SetUp \cup {"queued"}, NEW r \in Roles
  PROVE  sink'[k][r].buf = <<>>
<1>1. pc[k] \in SetUp \cup {"queued"} => sink[k][r].buf = <<>>
  BY DEF PlacesInv
<1>2. CASE Crash(k)
  BY <1>2 DEF Crash, Forget, NewSink, SinksInv
<1>3. ASSUME NEW s, SetSink(k, s), s.buf = Mine(k).buf, pc[k] \in SetUp PROVE sink'[k][r].buf = <<>>
  BY <1>1, <1>3, SetSinkMeans, MineOK
<1>4. SinkOK(Mine(k))
  BY MineOK
<1>5. CASE FindDataset(k) \/ PostDataset(k) \/ PostOrFindDataset(k)
  <2>1. pc[k] \in SetUp
    BY <1>5 DEF FindDataset, PostDataset, PostOrFindDataset, Sends, SetUp
  <2>2. ASSUME NEW d, UseDataset(k, d) PROVE sink'[k][r].buf = <<>>
    <3> DEFINE s == [Mine(k) EXCEPT !.dataset = d, !.ext = d]
    <3>1. SetSink(k, s) /\ s.buf = Mine(k).buf
      BY <1>4, <2>2 DEF UseDataset, SinkOK, NewSink
    <3> HIDE DEF s
    <3>2. QED
      BY <1>3, <2>1, <3>1
  <2>3. QED
    BY <1>1, <1>5, <2>1, <2>2 DEF FindDataset, PostDataset, PostOrFindDataset
<1>6. CASE FindProject(k) \/ PostProject(k) \/ Open(k)
  <2>1. pc[k] \in SetUp
    BY <1>6 DEF FindProject, PostProject, Open, Sends, SetUp
  <2>2. CASE sink' = sink
    BY <1>1, <2>1, <2>2
  <2>3. ASSUME NEW p PROVE /\ [Mine(k) EXCEPT !.project = p].buf = Mine(k).buf
                           /\ [Mine(k) EXCEPT !.dataset = p].buf = Mine(k).buf
                           /\ [Mine(k) EXCEPT !.task = p, !.ext = p].buf = Mine(k).buf
    BY <1>4 DEF SinkOK, NewSink
  <2>4. QED
    BY <1>3, <1>6, <2>1, <2>2, <2>3 DEF FindProject, PostProject, Open
<1>7. CASE Steady(k) /\ pc[k] \in SetUp \cup {"queued"}
  BY <1>1, <1>7 DEF Steady, Same
<1>8. CASE \/ Deliver(k) \/ Ping(k) \/ Link(k) \/ AuthHeaders(k) \/ Elapse(k) \/ DeliverWebhook(k) \/ Cancel(k)
           \/ OpenFile(k)
  <2>1. pc[k] \in SetUp \cup {"queued"}
    BY <1>8 DEF Deliver, Ping, Link, AuthHeaders, Elapse, DeliverWebhook, Cancel, OpenFile, SetUp
  <2>2. QED
    BY <1>7, <1>8, <2>1, Steadies
<1>9. CASE \/ ResolveAsset(k) \/ SendRecord(k) \/ CheckCancelled(k) \/ Finalise(k) \/ Close(k) \/ Decide(k)
           \/ Complete(k) \/ Fail(k) \/ Return(k) \/ CallRaises(k) \/ Refuse(k) \/ AssetFails(k)
  BY <1>9 DEF ResolveAsset, SendRecord, CheckCancelled, Loop, Finalise, PutFiles, PutPayload, PostTask, StartTask,
       Close, Decide, Complete, Fail, End, Return, CallRaises, Raise, Refuse, AssetFails, Goto, PlainInv, SetUp
<1>10. QED
  BY <1>2, <1>5, <1>6, <1>8, <1>9 DEF Acts, Step, CreateDataset

\* The places of a job, after its own step.
LEMMA PlacesOwn ==
  ASSUME NEW k \in Jobs, Acts(k), PlainInv, SinksInv, Control(k), PlacesInv(k), plan' = plan
  PROVE  PlacesInv(k)'
<1>1. SUFFICES ASSUME k \in DOMAIN plan PROVE PlacesInv(k)'
  BY DEF PlacesInv
<1>2. /\ pc[k] = "making" /\ Type(k) \in Annotators => Uuid[Dest(k)] = 0
      /\ pc[k] \in SetUp => sent[k] = <<>>
      /\ pc[k] \in {"sending", "checking"} => role[k] = "main"
      /\ status[k] = "completed" => pc[k] \in {"returned", "ended", "queued"}
      /\ pc[k] \in Busy \cup {"queued", "ended"}
  BY <1>1 DEF PlacesInv, PlainInv
<1>3. pc'[k] \in SetUp \cup {"queued"} => \A r \in Roles : sink'[k][r].buf = <<>>
  BY <1>1, BufStep
<1> DEFINE Rest ==
      /\ pc'[k] = "making" /\ Type(k)' \in Annotators => Uuid[Dest(k)'] = 0
      /\ pc'[k] \in SetUp => sent'[k] = <<>>
      /\ pc'[k] \in {"sending", "checking"} => role'[k] = "main"
      /\ status'[k] = "completed" => pc'[k] \in {"returned", "ended", "queued"}
<1>4. ASSUME role'[k] = role[k] PROVE Type(k)' = Type(k) /\ Dest(k)' = Dest(k)
  BY <1>4 DEF Type, TypeOf, Dest, DestOf
<1>5. CASE AuthHeaders(k) \/ Elapse(k) \/ DeliverWebhook(k) \/ Cancel(k)
  <2>1. /\ pc' = pc /\ role' = role /\ sent' = sent
        /\ status'[k] = "completed" => status[k] = "completed"
    BY <1>5 DEF AuthHeaders, Elapse, DeliverWebhook, Cancel, Stay, row, local, PlainInv
  <2>2. Rest
    BY <1>2, <1>4, <2>1
  <2>3. QED
    BY <1>3, <2>2 DEF PlacesInv
<1>6. CASE Deliver(k)
  <2>1. /\ pc'[k] \in {"pinging", "ended"} /\ sent'[k] = <<>>
    BY <1>6 DEF Deliver, Goto, PlainInv
  <2>2. status'[k] = "completed" => pc'[k] = "ended"
    BY <1>6 DEF Deliver, Goto, PlainInv
  <2>3. Rest
    BY <2>1, <2>2 DEF SetUp
  <2>4. QED
    BY <1>3, <2>3 DEF PlacesInv
<1>7. CASE Ping(k) \/ CreateDataset(k)
  <2>1. /\ pc[k] \in SetUp /\ role' = role /\ sent' = sent /\ status' = status
        /\ pc'[k] \in {"looking", "making", "opening", "linking", "failing early"}
    BY <1>7 DEF Ping, CreateDataset, OpenFile, FindDataset, PostDataset, PostOrFindDataset, UseDataset, FindProject,
         PostProject, Open, Sends, Goto, PlainInv, Stay, row, SetUp
  <2>2. pc'[k] = "making" /\ Type(k) \in Annotators => Uuid[Dest(k)] = 0
    BY <1>7 DEF Ping, CreateDataset, OpenFile, FindDataset, PostDataset, PostOrFindDataset, UseDataset, FindProject,
         PostProject, Open, Goto, PlainInv, DatasetTypes, Annotators
  <2>3. Rest
    BY <1>2, <1>4, <2>1, <2>2 DEF SetUp
  <2>4. QED
    BY <1>3, <2>3 DEF PlacesInv
<1>8. CASE Link(k) \/ CheckCancelled(k)
  <2>1. /\ pc[k] \in {"linking", "checking"} /\ sent' = sent /\ status' = status
        /\ pc'[k] \in {"pinging", "resolving", "sending", "finalising"}
        /\ pc'[k] = "pinging" => pc[k] = "linking"
        /\ pc'[k] = "sending" => role'[k] = "main"
    BY <1>8 DEF Link, CheckCancelled, Loop, Goto, PlainInv, row, local
  <2>2. Rest
    BY <1>2, <2>1 DEF SetUp
  <2>3. QED
    BY <1>3, <2>2 DEF PlacesInv
<1>9. CASE ResolveAsset(k) \/ SendRecord(k) \/ AssetFails(k)
  <2>1. /\ pc[k] \in {"resolving", "sending"} /\ pc'[k] \in {"sending", "checking"} /\ status' = status
        /\ role'[k] = "main"
    BY <1>2, <1>9 DEF ResolveAsset, SendRecord, AssetFails, Sends, Goto, PlainInv, row
  <2>2. Rest
    BY <1>2, <2>1 DEF SetUp
  <2>3. QED
    BY <1>3, <2>2 DEF PlacesInv
<1>10. CASE Finalise(k) \/ Close(k) \/ Decide(k) \/ CallRaises(k) \/ Refuse(k)
  <2>1. /\ status' = status /\ pc[k] \in Calls
        /\ pc'[k] \in {"finalising", "starting", "closing", "deciding", "returned", "completing", "failing", "failing early"}
    BY <1>2, <1>10 DEF Finalise, PutFiles, PutPayload, PostTask, StartTask, Close, Decide, CallRaises, Raise, Refuse,
         Goto, PlainInv, row, Calls, Control
  <2>2. Rest
    BY <1>2, <2>1 DEF SetUp, Calls
  <2>3. QED
    BY <1>3, <2>2 DEF PlacesInv
<1>11. CASE Complete(k) \/ Fail(k) \/ Return(k) \/ Crash(k)
  <2>1. pc'[k] \in {"returned", "ended", "queued"}
    BY <1>11 DEF Complete, Fail, End, Return, Crash, Goto, PlainInv
  <2>2. Rest
    BY <2>1 DEF SetUp
  <2>3. QED
    BY <1>3, <2>2 DEF PlacesInv
<1>12. QED
  BY <1>5, <1>6, <1>7, <1>8, <1>9, <1>10, <1>11 DEF Acts, Step

LEMMA PlacesStep ==
  ASSUME NEW k \in Jobs, Acts(k), PlainInv, SinksInv, Control(k), PlacesInv(k), NEW j \in Jobs, PlacesInv(j)
  PROVE  PlacesInv(j)'
<1>1. plan' = plan
  BY PlanStays
<1>2. CASE j = k
  BY <1>1, <1>2, PlacesOwn
<1>3. CASE j # k
  <2>1. /\ pc'[j] = pc[j] /\ role'[j] = role[j] /\ status'[j] = status[j] /\ sink'[j] = sink[j] /\ sent'[j] = sent[j]
    BY <1>3, Others
  <2>2. Type(j)' = Type(j) /\ Dest(j)' = Dest(j)
    BY <1>1, <2>1 DEF Type, TypeOf, Dest, DestOf
  <2>3. QED
    BY <1>1, <2>1, <2>2 DEF PlacesInv
<1>4. QED
  BY <1>2, <1>3

\* A sink holds in memory only files of its own.
LEMMA MemStays ==
  ASSUME NEW k \in Jobs, Acts(k), PlainInv, SinksInv, MemInv(k), NEW j \in Jobs, MemInv(j)
  PROVE  MemInv(j)'
<1>1. plan' = plan
  BY PlanStays
<1>2. CASE j = k
  BY <1>1, <1>2, MemStep
<1>3. CASE j # k
  <2>1. sink'[j] = sink[j]
    BY <1>3, Others
  <2>2. \A r \in Roles : MemOK(TypeOf(j, r), DestOf(j, r), j, sink'[j][r].mem)
    BY <2>1 DEF MemInv
  <2>3. QED
    BY <1>1, <2>2, SamePlan DEF MemInv
<1>4. QED
  BY <1>2, <1>3

\* A sink at work gets further with what it has to show.
LEMMA WorkShows ==
  ASSUME NEW k \in Jobs, Acts(k), PlainInv, IdsInv, SinksInv, ServiceInv, plan' = plan,
         Control(k), ReadyInv(k), OwnInv(k), MemInv(k), PlacesInv(k),
         NEW r \in Roles, r = role[k], Lone(k, r), OutputInv(k, r), ~Quiet(k)
  PROVE  OutputInv(k, r)'
<1>1. k \in DOMAIN plan
  BY DEF Lone
<1>2. CASE CreateDataset(k)
  BY <1>1, <1>2, OpenFileShows, DatasetShows, ProjectFound, OpenShows DEF CreateDataset
<1>3. CASE SendRecord(k)
  BY <1>3, SendGathers
<1>4. CASE ResolveAsset(k) \/ AssetFails(k)
  <2>1. PostFile(k, Record(k).url, "hex", <<k, at[k]>>)
    BY <1>4 DEF ResolveAsset, AssetFails, Quiet
  <2>2. QED
    BY <1>4, <2>1, ResolveGathers
<1>5. CASE Finalise(k)
  BY <1>5, PutShows, PayloadShows, TaskShows, StartShows DEF Finalise
<1>6. CASE Close(k)
  BY <1>6, CloseShows
<1>7. QED
  BY <1>2, <1>3, <1>4, <1>5, <1>6 DEF Acts, Step, Quiet

\* Every step leaves every sink with what it has to show.
LEMMA OutputStep ==
  ASSUME NEW k \in Jobs, Acts(k), PlainInv, IdsInv, SinksInv, ServiceInv,
         Control(k), ReadyInv(k), OwnInv(k), MemInv(k), PlacesInv(k),
         NEW j \in Jobs, OwnInv(j), NEW r \in Roles, OutputInv(j, r)
  PROVE  OutputInv(j, r)'
<1>1. plan' = plan /\ Len(tasks) \in Nat /\ Owns(j, r, sink[j][r], projects, tasks)
  BY PlanStays, LenProperties DEF ServiceInv, OwnInv
<1>2. CASE ~Lone(j, r)
  BY <1>1, <1>2, OutputStays
<1>3. CASE Lone(j, r) /\ (j # k \/ r # role[k])
  <2>1. Keeps(j, r)
    BY <1>1, <1>3, ListsGrow, TasksApart, MemStep, FilesApart DEF Keeps
  <2>2. Onward(j, r)
    BY <1>1, <1>3, OthersOnward, OnwardStep
  <2>3. QED
    BY <1>1, <2>1, <2>2, OutputStays
<1>4. CASE Lone(j, r) /\ j = k /\ r = role[k] /\ Quiet(k)
  <2>1. datasets' = datasets /\ projects' = projects /\ tasks' = tasks /\ objects' = objects
    BY <1>4 DEF Quiet, Deliver, Ping, Link, CheckCancelled, Decide, Complete, Fail, End, Return, AuthHeaders,
         Elapse, DeliverWebhook, CallRaises, Refuse, AssetFails, Crash, Cancel, service
  <2>2. Keeps(j, r)
    BY <2>1 DEF Keeps, ListsKept, TasksKept, FilesKept
  <2>3. Onward(j, r)
    BY <1>1, <1>4, OnwardStep
  <2>4. QED
    BY <1>1, <2>2, <2>3, OutputStays
<1>5. CASE Lone(j, r) /\ j = k /\ r = role[k] /\ ~Quiet(k)
  BY <1>1, <1>5, WorkShows
<1>6. QED
  BY <1>2, <1>3, <1>4, <1>5

-----------------------------------------------------------------------------
(* The theorems                                                            *)

\* The ids in the rows are numbers.
LEMMA IdsStep ==
  ASSUME NEW k \in Jobs, Acts(k), PlainInv, SinksInv, IdsInv
  PROVE  IdsInv'
<1>1. Mine(k).ext \in Nat /\ Mine(k).dataset \in Nat
  BY MineOK DEF SinkOK
<1>2. CASE UNCHANGED <<extId, assetId>>
  BY <1>2 DEF IdsInv
<1>3. CASE Link(k)
  <2>1. extId' \in [Jobs -> Nat]
    BY <1>1, <1>3 DEF Link, IdsInv
  <2>2. assetId' \in [Jobs -> Nat]
    BY <1>1, <1>3 DEF Link, IdsInv
  <2>3. QED
    BY <2>1, <2>2 DEF IdsInv
<1>4. CASE Close(k)
  <2>1. extId' \in [Jobs -> Nat]
    BY <1>1, <1>4 DEF Close, IdsInv
  <2>2. assetId' \in [Jobs -> Nat]
    BY <1>1, <1>4 DEF Close, IdsInv
  <2>3. QED
    BY <2>1, <2>2 DEF IdsInv
<1>5. QED
  BY <1>2, <1>3, <1>4
     DEF Acts, Step, CreateDataset, Finalise, Deliver, Ping, OpenFile, FindDataset, PostDataset,
         PostOrFindDataset, FindProject, PostProject, Open, ResolveAsset, SendRecord, CheckCancelled,
         PutFiles, PutPayload, PostTask, StartTask, Decide, Complete, Fail, End, Return, AuthHeaders,
         Elapse, DeliverWebhook, CallRaises, Refuse, AssetFails, Crash, Cancel, row

LEMMA Initially == Init => Inv
<1>1. SUFFICES ASSUME Init PROVE Inv
  OBVIOUS
<1>2. \A j \in DOMAIN plan : /\ j \in Jobs /\ Len(plan[j].records) \in Nat
  BY <1>1, PlanOK DEF Init
<1>3. PlainInv
  <2>1. plan \in Scenarios /\ cut \subseteq Jobs
    BY <1>1 DEF Init
  <2>2. pc \in [Jobs -> Busy \cup {"queued", "ended"}] /\ status \in [Jobs -> Statuses]
    BY <1>1 DEF Init, Statuses
  <2>3. /\ role \in [Jobs -> Roles] /\ tries \in [Jobs -> Nat] /\ header \in [Jobs -> Nat \cup {NULL}]
        /\ at \in [Jobs -> Nat \ {0}] /\ hook \in [Jobs -> {NULL, "completed", "failed"}]
        /\ refused \in [Jobs -> SUBSET Calls]
    BY <1>1 DEF Init, Roles
  <2>4. told \in [Jobs -> Seq({"completed", "failed"})] /\ sent \in [Jobs -> Seq(Nat)]
    BY <1>1, EmptySeq DEF Init
  <2>5. QED
    BY <2>1, <2>2, <2>3, <2>4 DEF PlainInv
<1>4. IdsInv
  BY <1>1 DEF Init, IdsInv
<1>5. SinksInv
  <2>1. SinkOK(NewSink)
    BY EmptySeq DEF SinkOK, NewSink, TokenOK, NoToken
  <2>2. QED
    BY <1>1, <2>1 DEF Init, SinksInv
<1>6. ServiceInv /\ Len(tasks) = 0 /\ Len(projects) \in Nat
  <2>1. Present.datasets \in Seq(Names) /\ Present.projects \in Seq(Names)
    BY PresentAssumption
  <2>2. \A n \in 1..Len(Present.datasets) : [name |-> Present.datasets[n], files |-> <<>>] \in Dataset
    BY <2>1, EmptySeq, ElementOfSeq DEF Dataset
  <2>3. datasets \in Seq(Dataset)
    BY <1>1, <2>1, <2>2, LenProperties, IsASeq DEF Init
  <2>4. QED
    BY <1>1, <2>1, <2>3, EmptySeq, LenProperties DEF Init, ServiceInv
<1>7. RefusedInv /\ TasksInv /\ StartedInv
  BY <1>1, <1>6 DEF Init, RefusedInv, TasksInv, StartedInv
<1>8. ASSUME NEW j \in Jobs
      PROVE  Control(j) /\ Notified(j) /\ ReadyInv(j) /\ OwnInv(j) /\ WholeInv(j) /\ SentInv(j)
  <2>1. /\ pc[j] = IF j \in DOMAIN plan THEN "queued" ELSE "ended"
        /\ status[j] = IF j \in DOMAIN plan THEN "pending" ELSE "none"
        /\ role[j] = "main" /\ tries[j] = 0 /\ header[j] = NULL /\ at[j] = 1 /\ sent[j] = <<>>
        /\ hook[j] = NULL /\ told[j] = <<>>
        /\ \A r \in Roles : sink[j][r] = NewSink
    BY <1>1 DEF Init
  <2>2. Control(j)
    BY <1>2, <2>1, NullAssumption, FaultsAssumption DEF Control, AtRecord
  <2>3. Notified(j)
    BY <2>1, EmptySeq DEF Notified, Calls
  <2>4. ReadyInv(j)
    BY <2>1 DEF ReadyInv, SetUp, Late, AtRecord
  <2>5. OwnInv(j)
    BY <1>6, <2>1 DEF OwnInv, Owns, NewSink
  <2>6. WholeInv(j) /\ SentInv(j)
    BY <2>1 DEF WholeInv, SentInv, ToSet
  <2>7. QED
    BY <2>2, <2>3, <2>4, <2>5, <2>6
<1>9. ASSUME NEW j \in Jobs PROVE MemInv(j) /\ PlacesInv(j) /\ \A r \in Roles : OutputInv(j, r)
  <2>1. /\ pc[j] \in {"queued", "ended"} /\ status[j] \in {"pending", "none"} /\ sent[j] = <<>>
        /\ \A r \in Roles : sink[j][r] = NewSink
    BY <1>1 DEF Init
  <2>2. MemInv(j)
    BY <2>1 DEF MemInv, MemOK, NewSink
  <2>3. PlacesInv(j)
    BY <2>1 DEF PlacesInv, SetUp, NewSink
  <2>4. \A r \in Roles : OutputInv(j, r)
    BY <2>1 DEF OutputInv, Placing, Opened, Filled, Closed, Sealed, Completed, AtRecord, SetUp
  <2>5. QED
    BY <2>2, <2>3, <2>4
<1>10. QED
  BY <1>3, <1>4, <1>5, <1>6, <1>7, <1>8, <1>9 DEF Inv

LEMMA Inductive == Inv /\ [Next]_vars => Inv'
<1>1. SUFFICES ASSUME Inv, [Next]_vars PROVE Inv'
  OBVIOUS
<1>2. CASE UNCHANGED vars
  <2>1. PlainInv' /\ IdsInv' /\ SinksInv' /\ ServiceInv' /\ RefusedInv' /\ TasksInv'
    BY <1>1, <1>2
       DEF vars, service, row, local, history, Inv, PlainInv, IdsInv, SinksInv, ServiceInv, RefusedInv,
           TasksInv
  <2>2. StartedInv'
    BY <1>1, <1>2 DEF vars, service, history, Inv, StartedInv, Uncut, Content
  <2>3. ASSUME NEW j \in Jobs
        PROVE  Control(j)' /\ Notified(j)' /\ ReadyInv(j)' /\ OwnInv(j)' /\ WholeInv(j)' /\ SentInv(j)'
    <3>1. Control(j) /\ Notified(j) /\ ReadyInv(j) /\ OwnInv(j) /\ WholeInv(j) /\ SentInv(j)
      BY <1>1 DEF Inv
    <3>2. Control(j)' /\ Notified(j)' /\ OwnInv(j)' /\ SentInv(j)'
      BY <1>2, <3>1 DEF vars, service, row, local, history, Control, Notified, OwnInv, SentInv
    <3>3. ReadyInv(j)'
      BY <1>2, <3>1 DEF vars, service, local, ReadyInv, PlacedAt, TypeOf, Type, Mine
    <3>4. WholeInv(j)'
      BY <1>2, <3>1 DEF vars, service, local, history, WholeInv, Uncut, Gathered, Content
    <3>5. QED
      BY <3>2, <3>3, <3>4
  <2>4. ASSUME NEW j \in Jobs PROVE MemInv(j)' /\ PlacesInv(j)' /\ \A r \in Roles : OutputInv(j, r)'
    <3>1. MemInv(j) /\ PlacesInv(j) /\ OwnInv(j) /\ \A r \in Roles : OutputInv(j, r)
      BY <1>1 DEF Inv
    <3>2. /\ plan' = plan /\ pc' = pc /\ role' = role /\ status' = status /\ sink' = sink /\ at' = at /\ sent' = sent
          /\ extId' = extId /\ assetId' = assetId
          /\ datasets' = datasets /\ projects' = projects /\ tasks' = tasks /\ objects' = objects
      BY <1>2 DEF vars, service, row, local
    <3>3. MemInv(j)' /\ PlacesInv(j)'
      BY <3>1, <3>2 DEF MemInv, PlacesInv, TypeOf, DestOf, Type, Dest
    <3>4. ASSUME NEW r \in Roles PROVE OutputInv(j, r)'
      <4>1. Keeps(j, r)
        BY <3>2 DEF Keeps, ListsKept, TasksKept, FilesKept
      <4>2. Onward(j, r)
        <5>1. /\ Placing(j, r)' = Placing(j, r) /\ Opened(j, r)' = Opened(j, r) /\ Filled(j, r)' = Filled(j, r)
              /\ Closed(j, r)' = Closed(j, r) /\ Sealed(j, r)' = Sealed(j, r) /\ Known(j, r)' = Known(j, r)
          BY <3>2 DEF Placing, Opened, Filled, Closed, Sealed, Completed, Known
        <5>2. NoMore(j, r) /\ Alike(sink'[j][r], sink[j][r])
          BY <3>2 DEF NoMore, Posted, Owed, Asset, Past, Alike
        <5>3. QED
          BY <3>2, <5>1, <5>2 DEF Onward, Putting
      <4>3. Owns(j, r, sink[j][r], projects, tasks) /\ Len(tasks) \in Nat
        BY <1>1, <3>1, LenProperties DEF OwnInv, Inv, ServiceInv
      <4>4. QED
        BY <3>1, <3>2, <4>1, <4>2, <4>3, OutputStays
    <3>5. QED
      BY <3>3, <3>4
  <2>5. QED
    BY <2>1, <2>2, <2>3, <2>4 DEF Inv
<1>3. CASE Next
  <2>1. PICK k \in Jobs : Acts(k)
    BY <1>3 DEF Next, Acts
  <2>2. /\ PlainInv /\ IdsInv /\ SinksInv /\ ServiceInv /\ RefusedInv /\ TasksInv /\ StartedInv
        /\ \A j \in Jobs : Control(j) /\ Notified(j) /\ ReadyInv(j) /\ OwnInv(j) /\ WholeInv(j) /\ SentInv(j)
        /\ \A j \in Jobs : MemInv(j) /\ PlacesInv(j) /\ \A r \in Roles : OutputInv(j, r)
    BY <1>1 DEF Inv
  <2>3. PlainInv' /\ IdsInv' /\ SinksInv' /\ ServiceInv'
    BY <2>1, <2>2, PlainStep, IdsStep, ServiceStep
  <2>4. RefusedInv'
    BY <2>1, <2>2, RefusedStep DEF RefusedInv
  <2>5. TasksInv'
    BY <2>1, <2>2, TasksStep
  <2>6. \A j \in Jobs : Control(j)'
    BY <2>1, <2>2, ControlStep
  <2>7. \A j \in Jobs : Notified(j)'
    BY <2>1, <2>2, NotifiedStep
  <2>8. \A j \in Jobs : ReadyInv(j)'
    BY <2>1, <2>2, ReadyStep
  <2>9. \A j \in Jobs : OwnInv(j)'
    BY <2>1, <2>2, OwnStep
  <2>10. \A j \in Jobs : WholeInv(j)'
    BY <2>1, <2>2, WholeStep
  <2>11. \A j \in Jobs : SentInv(j)'
    BY <2>1, <2>2, SentStep
  <2>12. StartedInv'
    BY <2>1, <2>2, <2>10, StartedStep
  <2>13. \A j \in Jobs : MemInv(j)'
    BY <2>1, <2>2, MemStays
  <2>14. \A j \in Jobs : PlacesInv(j)'
    BY <2>1, <2>2, PlacesStep
  <2>15. \A j \in Jobs : \A r \in Roles : OutputInv(j, r)'
    BY <2>1, <2>2, OutputStep
  <2>16. QED
    BY <2>3, <2>4, <2>5, <2>6, <2>7, <2>8, <2>9, <2>10, <2>11, <2>12, <2>13, <2>14, <2>15 DEF Inv
<1>4. QED
  BY <1>1, <1>2, <1>3

LEMMA Invariance == Spec => []Inv
  BY Initially, Inductive, PTL DEF Spec

\* A task that annotators can see has all records of its export, over crashes and
\* deliveries again, unless the user cancelled the export or the export resolves assets.
THEOREM StartedHolds == Spec => []StartedIsWhole
<1>1. Inv => StartedIsWhole
  <2>1. SUFFICES ASSUME Inv, NEW t \in ToSet(tasks), t.started, t.role = "main", plan[t.job].asset = NULL,
                        t.job \notin cut, NEW m \in DOMAIN plan[t.job].records
                 PROVE  <<t.job, m>> \in Of(Content(t))
    BY DEF StartedIsWhole, Of, Content
  <2>2. PICK n \in 1..Len(tasks) : t = tasks[n]
    BY <2>1, LenProperties DEF Inv, ServiceInv, ToSet
  <2>3. Uncut(t.job)
    BY <2>1, <2>2 DEF Inv, TasksInv, Uncut
  <2>4. Has(Content(t), t.job, Len(plan[t.job].records))
    BY <2>1, <2>2, <2>3 DEF Inv, StartedInv
  <2>5. m \in 1..Len(plan[t.job].records)
    BY <2>1, <2>3, PlanOK, LenProperties DEF Inv, PlainInv, Uncut
  <2>6. QED
    BY <2>4, <2>5 DEF Has
<1>2. QED
  BY <1>1, Invariance, PTL

\* No request but the start of a task, whose headers are older than the payload,
\* carries a token that has expired.
THEOREM TokenHolds == Spec => []TokenIsLive
<1>1. Inv => TokenIsLive
  <2>1. SUFFICES ASSUME Inv, NEW j \in DOMAIN plan
                 PROVE  refused[j] \subseteq {"starting"} /\ (pc[j] = "resolving" => header[j] # 0)
    BY DEF TokenIsLive
  <2>2. j \in Jobs
    BY <2>1, PlanOK DEF Inv, PlainInv
  <2>3. QED
    BY <2>1, <2>2 DEF Inv, RefusedInv, Control
<1>2. QED
  BY <1>1, Invariance, PTL

\* The receiver of the webhook is told at most once per delivery, and of a job that was
\* delivered once, what its row says.
THEOREM WebhookHolds == Spec => []WebhookTellsRow
<1>1. Inv => WebhookTellsRow
  <2>1. SUFFICES ASSUME Inv, NEW j \in DOMAIN plan
                 PROVE  /\ Len(told[j]) <= tries[j]
                        /\ tries[j] = 1 /\ told[j] # <<>> => told[j] = <<status[j]>> /\ plan[j].hook
    BY DEF WebhookTellsRow
  <2>2. j \in Jobs
    BY <2>1, PlanOK DEF Inv, PlainInv
  <2>3. QED
    BY <2>1, <2>2 DEF Inv, Notified
<1>2. QED
  BY <1>1, Invariance, PTL

\* What the id of a job leads to, when its row has it.
LEMMA OutputShows ==
  ASSUME PlainInv, NEW j, NEW r \in Roles, Lone(j, r), Completed(j), OutputInv(j, r)
  PROVE  /\ Shows(j, r) /\ TypeOf(j, r) \in Types
         /\ Known(j, r) = IF r = "main" THEN extId[j] ELSE assetId[j]
         /\ TypeOf(j, r) \in Annotators => tasks[Known(j, r)].started
         /\ \E s : Output(j, r) = ToSet(s) /\ (Fills(j, r, s) \/ Bare(j, r))
<1>1. TypeOf(j, r) \in Types
  BY PlanOK DEF PlainInv, Lone, TypeOf
<1>2. Shows(j, r) /\ (TypeOf(j, r) \in Annotators => tasks[Known(j, r)].started)
  BY DEF OutputInv, Sealed
<1>3. Known(j, r) = IF r = "main" THEN extId[j] ELSE assetId[j]
  BY DEF Completed, Known, Filled, Closed
<1>4. CASE TypeOf(j, r) \in Files
  <2>1. Output(j, r) = ToSet(objects[Place(j, r)])
    BY <1>4 DEF Output, Download, Place, Files, Zips, Jsonls, DatasetTypes
  <2>2. Fills(j, r, objects[Place(j, r)])
    BY <1>2, <1>4 DEF Shows, Holds
  <2>3. QED
    BY <1>1, <1>2, <1>3, <2>1, <2>2
<1>5. CASE TypeOf(j, r) \in DatasetTypes
  <2>1. Output(j, r) = ToSet(datasets[Known(j, r)].files)
    BY <1>3, <1>5 DEF Output, Files, Zips, Jsonls, DatasetTypes
  <2>2. Fills(j, r, datasets[Known(j, r)].files) \/ Bare(j, r)
    BY <1>2, <1>5 DEF Shows, IsSet
  <2>3. QED
    BY <1>1, <1>2, <1>3, <2>1, <2>2
<1>6. CASE TypeOf(j, r) = "tagme-annotator"
  <2>1. Output(j, r) = ToSet(tasks[Known(j, r)].payload)
    BY <1>3, <1>6 DEF Output, Files, Zips, Jsonls, DatasetTypes
  <2>2. Fills(j, r, tasks[Known(j, r)].payload)
    BY <1>2, <1>6 DEF Shows
  <2>3. QED
    BY <1>1, <1>2, <1>3, <2>1, <2>2
<1>7. CASE TypeOf(j, r) = "annotator-mock"
  <2>1. Output(j, r) = ToSet(datasets[tasks[Known(j, r)].dataset].files)
    BY <1>3, <1>7 DEF Output, Files, Zips, Jsonls, DatasetTypes
  <2>2. Fills(j, r, datasets[tasks[Known(j, r)].dataset].files)
    BY <1>2, <1>7 DEF Shows
  <2>3. QED
    BY <1>1, <1>2, <1>3, <2>1, <2>2
<1>8. QED
  BY <1>1, <1>4, <1>5, <1>6, <1>7 DEF Types, Annotators

\* The id in the row of a completed job leads to every record the job posted, over crashes,
\* deliveries again and jobs to the same destination, and a place of its own to nothing else.
THEOREM OutputHolds == Spec => []OutputIsWhole
<1>1. Inv => OutputIsWhole
  <2>1. SUFFICES ASSUME Inv, NEW j \in DOMAIN plan, Completed(j), ~Clash(j)
                 PROVE  /\ Posted(j) \subseteq Contents(j, "main")
                        /\ plan[j].type \in Files \cup {"tagme-annotator"} => Contents(j, "main") = Posted(j)
                        /\ plan[j].type \in DatasetTypes => extId[j] \in {Uuid[plan[j].dest]} \cup Named(plan[j].dest)
                        /\ plan[j].type \in Annotators =>
                             tasks[extId[j]].started /\ tasks[extId[j]].project \in ProjectFor(plan[j].dest)
    BY DEF OutputIsWhole
  <2>2. PlainInv /\ j \in Jobs /\ OutputInv(j, "main")
    BY <2>1, PlanOK DEF Inv, PlainInv, Roles
  <2>3. /\ TypeOf(j, "main") = plan[j].type /\ DestOf(j, "main") = plan[j].dest
        /\ plan[j].type \in Types
    BY <2>2, PlanOK DEF TypeOf, DestOf, PlainInv
  <2>4. Lone(j, "main")
    BY <2>1, <2>3, NullAssumption DEF Lone
  <2>5. /\ Shows(j, "main") /\ Known(j, "main") = extId[j]
        /\ plan[j].type \in Annotators => tasks[extId[j]].started
    BY <2>1, <2>2, <2>3, <2>4, OutputShows DEF Roles
  <2>6. PICK s : Output(j, "main") = ToSet(s) /\ (Fills(j, "main", s) \/ Bare(j, "main"))
    BY <2>1, <2>2, <2>4, OutputShows DEF Roles
  <2>7. Contents(j, "main") = Of(s)
    BY <2>6 DEF Contents, Of
  <2>8. Posted(j) \subseteq Contents(j, "main")
    BY <2>6, <2>7 DEF Fills, Full, Bare
  <2>9. ASSUME plan[j].type \in Files \cup {"tagme-annotator"} PROVE Contents(j, "main") = Posted(j)
    <3>1. CASE plan[j].type \in Files
      <4>1. Fills(j, "main", objects[Place(j, "main")])
        BY <2>3, <2>5, <3>1 DEF Shows, Holds
      <4>2. Contents(j, "main") = Of(objects[Place(j, "main")])
        BY <2>3, <3>1 DEF Contents, Output, Download, Place, Of, Files, Zips, Jsonls, DatasetTypes
      <4>3. QED
        BY <2>3, <2>9, <4>1, <4>2 DEF Fills, Full, Private
    <3>2. CASE plan[j].type = "tagme-annotator"
      <4>1. Fills(j, "main", tasks[extId[j]].payload)
        BY <2>3, <2>5, <3>2 DEF Shows
      <4>2. Contents(j, "main") = Of(tasks[extId[j]].payload)
        BY <2>3, <3>2 DEF Contents, Output, Of, Files, Zips, Jsonls, DatasetTypes
      <4>3. QED
        BY <2>3, <2>9, <4>1, <4>2 DEF Fills, Full, Private
    <3>3. QED
      BY <2>9, <3>1, <3>2
  <2>10. plan[j].type \in DatasetTypes => extId[j] \in {Uuid[plan[j].dest]} \cup Named(plan[j].dest)
    BY <2>3, <2>5 DEF Shows, IsSet
  <2>11. plan[j].type \in Annotators => tasks[extId[j]].project \in ProjectFor(plan[j].dest)
    BY <2>3, <2>5 DEF Shows, IsProject
  <2>12. QED
    BY <2>5, <2>8, <2>9, <2>10, <2>11
<1>2. QED
  BY <1>1, Invariance, PTL

\* Each record of a completed job that has an asset has its own one in the place of
\* the asset sink, or, by a shared name beside a JSONL file, the last of the name.
THEOREM AssetsHold == Spec => []AssetsKept
<1>1. Inv => AssetsKept
  <2> DEFINE path(j, n) == AssetPath(plan[j].asset, plan[j].adest, j, Asset(j, n).name)
  <2>1. SUFFICES ASSUME Inv, NEW j \in DOMAIN plan, Completed(j), ~Clash(j), plan[j].asset # NULL,
                        NEW n \in ToSet(sent[j]), Asset(j, n).name # NULL
                 PROVE  IF plan[j].asset \in Jsonls
                        THEN path(j, n) \in DOMAIN objects /\ (objects[path(j, n)] = <<Asset(j, n)>> \/ Shared(j, n))
                        ELSE Asset(j, n) \in Output(j, "asset")
    BY DEF AssetsKept
  <2>2. PlainInv /\ j \in Jobs /\ OutputInv(j, "asset")
    BY <2>1, PlanOK DEF Inv, PlainInv, Roles
  <2>3. TypeOf(j, "asset") = plan[j].asset /\ DestOf(j, "asset") = plan[j].adest
    BY DEF TypeOf, DestOf
  <2>4. Lone(j, "asset")
    BY <2>1, <2>3 DEF Lone
  <2>5. Asset(j, n) \in Owed(j) /\ Asset(j, n).of = <<j, n>>
    BY <2>1 DEF Owed, Past, Asset
  <2>6. Shows(j, "asset")
    BY <2>1, <2>2, <2>4, OutputShows DEF Roles
  <2>7. PICK s : Output(j, "asset") = ToSet(s) /\ (Fills(j, "asset", s) \/ Bare(j, "asset"))
    BY <2>1, <2>2, <2>4, OutputShows DEF Roles
  <2>8. CASE plan[j].asset \in Jsonls
    <3>1. Holds(j, "asset", objects)
      BY <2>3, <2>6, <2>8 DEF Shows, Files
    <3>2. path(j, n) \in DOMAIN objects /\ (Sole(j, plan[j].records, Asset(j, n)) => objects[path(j, n)] = <<Asset(j, n)>>)
      BY <2>3, <2>5, <2>8, <3>1 DEF Holds, Beside
    <3>3. ~Shared(j, n) => Sole(j, plan[j].records, Asset(j, n))
      BY <2>5 DEF Shared, Sole, Asset
    <3>4. QED
      BY <2>8, <3>2, <3>3
  <2>9. CASE plan[j].asset \notin Jsonls
    <3>1. Fills(j, "asset", s)
      BY <2>5, <2>7 DEF Bare
    <3>2. QED
      BY <2>3, <2>5, <2>7, <2>9, <3>1 DEF Fills, Full
  <2>10. QED
    BY <2>8, <2>9
<1>2. QED
  BY <1>1, Invariance, PTL

\* Every variable has its type, and the ids that sinks and tasks keep lead somewhere.
THEOREM TypeCorrect == Spec => []TypeOK
<1>1. Inv => TypeOK
  <2>1. SUFFICES ASSUME Inv PROVE TypeOK
    OBVIOUS
  <2>2. \A d \in ToSet(datasets) : d.name \in Names /\ d.files \in Seq([name : Names, of : Jobs \X Nat])
    <3>1. ASSUME NEW i \in DOMAIN datasets PROVE datasets[i] \in Dataset
      BY <2>1, LenProperties, ElementOfSeq DEF Inv, ServiceInv
    <3>2. QED
      BY <3>1 DEF ToSet, Dataset, Entry
  <2>3. \A t \in ToSet(tasks) : t.project \in 1..Len(projects) /\ t.dataset \in 0..Len(datasets)
    <3>1. DOMAIN tasks = 1..Len(tasks)
      BY <2>1, LenProperties DEF Inv, ServiceInv
    <3>2. QED
      BY <2>1, <3>1 DEF Inv, TasksInv, ToSet
  <2>4. ASSUME NEW j \in DOMAIN plan
        PROVE  /\ status[j] \in {"pending", "running", "completed", "failed", "cancelled"}
               /\ {extId[j], assetId[j]} \subseteq Nat
               /\ pc[j] \in Busy \cup {"queued", "ended"}
               /\ role[j] \in Roles /\ tries[j] \in 0..MaxTries
               /\ header[j] \in Nat \cup {NULL}
               /\ at[j] \in 1..(Len(plan[j].records) + 1)
               /\ ToSet(sent[j]) \subseteq 1..Len(plan[j].records)
               /\ hook[j] \in {NULL, "completed", "failed"}
               /\ refused[j] \subseteq Calls
    <3>1. j \in Jobs /\ Len(plan[j].records) \in Nat
      BY <2>1, PlanOK DEF Inv, PlainInv
    <3>2. Control(j) /\ SentInv(j)
      BY <2>1, <3>1 DEF Inv
    <3>3. status[j] \in Statuses \ {"none"} /\ tries[j] \in 0..MaxTries
      BY <2>1, <3>1, <3>2, FaultsAssumption DEF Inv, PlainInv, Control
    <3>4. at[j] \in 1..(Len(plan[j].records) + 1) /\ ToSet(sent[j]) \subseteq 1..Len(plan[j].records)
      BY <2>1, <3>1, <3>2 DEF Inv, PlainInv, Control, SentInv
    <3>5. {extId[j], assetId[j]} \subseteq Nat
      BY <2>1, <3>1 DEF Inv, IdsInv
    <3>6. /\ pc[j] \in Busy \cup {"queued", "ended"} /\ role[j] \in Roles /\ header[j] \in Nat \cup {NULL}
          /\ hook[j] \in {NULL, "completed", "failed"} /\ refused[j] \subseteq Calls
      BY <2>1, <3>1 DEF Inv, PlainInv
    <3>7. QED
      BY <3>3, <3>4, <3>5, <3>6 DEF Statuses
  <2>5. ASSUME NEW j \in DOMAIN plan, NEW r \in Roles
        PROVE  /\ sink[j][r].dataset \in Nat
               /\ sink[j][r].project \in 0..Len(projects)
               /\ sink[j][r].task \in 0..Len(tasks)
    <3>1. j \in Jobs
      BY <2>1, PlanOK DEF Inv, PlainInv
    <3>2. QED
      BY <2>1, <3>1 DEF Inv, SinksInv, SinkOK, OwnInv, Owns
  <2>6. plan \in Scenarios
    BY <2>1 DEF Inv, PlainInv
  <2>7. QED
    BY <2>2, <2>3, <2>4, <2>5, <2>6 DEF TypeOK
<1>2. QED
  BY <1>1, Invariance, PTL
==============================================================================
