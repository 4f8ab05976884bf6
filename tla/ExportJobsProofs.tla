-------------------------- MODULE ExportJobsProofs --------------------------
(***************************************************************************)
(* Theorems about ExportJobs, for every set of jobs, clients and slots,    *)
(* every timeout and every choice of faults.                               *)
(***************************************************************************)
EXTENDS ExportQuota, FiniteSetTheorems, TLAPS

\* The saturation point of the ages is a number: the largest of three timeouts
\* plus one.
LEMMA AgeCapType == AgeCap \in Nat
<1>1. \E m \in Horizon : \A t \in Horizon : t <= m
  BY BoundsAssumption DEF Horizon
<1>2. Horizon \subseteq Nat
  BY BoundsAssumption DEF Horizon
<1>3. (CHOOSE m \in Horizon : \A t \in Horizon : t <= m) \in Nat
  BY <1>1, <1>2
<1>4. QED
  BY <1>3 DEF AgeCap

\* Ageing a timestamp keeps it a timestamp (Tick, for created_at, last_heartbeat_at
\* and completed_at).
LEMMA LaterType ==
  ASSUME NEW a \in Age \cup {NULL}
  PROVE  Later(a) \in Age \cup {NULL} /\ Unread(a) \in Age \cup {NULL}
BY AgeCapType, AgeAssumption DEF Later, Unread, Age

LEMMA ZeroAge == 0 \in Age
BY AgeCapType DEF Age

-----------------------------------------------------------------------------
(* Type correctness                                                        *)

RowType ==
  /\ status \in [Jobs -> Status]
  /\ owner \in [Jobs -> Clients \cup {NULL}]
  /\ created \in [Jobs -> Age \cup {NULL}]
  /\ beat \in [Jobs -> Age \cup {NULL}]
  /\ done \in [Jobs -> Age \cup {NULL}]

\* The unconditional updates of a row keep the table well typed, whatever id they
\* are given.
LEMMA RowWrites ==
  ASSUME RowType, NEW j
  PROVE  /\ SetRunning(j) => RowType'
         /\ \A s \in {"completed", "failed"} : SetFinished(j, s) => RowType'
         /\ Heartbeat(j) => RowType'
         /\ UNCHANGED rowVars => RowType'
<1>1. SetRunning(j) => RowType'
  BY ZeroAge DEF RowType, SetRunning, rowVars, stampVars, Status, Active, Terminal
<1>2. ASSUME NEW s \in {"completed", "failed"}, SetFinished(j, s) PROVE RowType'
  BY <1>2, ZeroAge DEF RowType, SetFinished, rowVars, stampVars, Status, Active, Terminal
<1>3. Heartbeat(j) => RowType'
  BY ZeroAge DEF RowType, Heartbeat
<1>4. UNCHANGED rowVars => RowType'
  BY DEF RowType, rowVars, stampVars
<1>5. QED
  BY <1>1, <1>2, <1>3, <1>4

\* The requests keep every variable in its type.
LEMMA RequestType ==
  ASSUME TypeOK, NEW c \in Clients, Request(c)
  PROVE  TypeOK'
<1> USE DEF rowVars, stampVars, arqVars, apiVars, slotVars
<1>1. ASSUME Admit(c), hpc[c] # "inserted" PROVE TypeOK'
  BY <1>1 DEF TypeOK, Admit, CountActive, Status, Active, Terminal, HandlerPc
<1>2. ASSUME NEW j \in Jobs, RetryRead(c, j) PROVE TypeOK'
  BY <1>2 DEF TypeOK, RetryRead, HandlerPc
<1>3. CASE QueueUnreachable(c)
  BY <1>3 DEF TypeOK, QueueUnreachable, HandlerPc
<1>4. ASSUME NEW j \in Jobs, Insert(c, j) PROVE TypeOK'
  <2>1. j # NULL
    BY IdsAssumption
  <2>2. QED
    BY <1>4, <2>1, ZeroAge DEF TypeOK, Insert, HandlerPc, Status, Active, Terminal
<1>5. CASE Enqueue(c) \/ EnqueueFails(c)
  <2>1. hjob[c] \in Jobs
    BY <1>5 DEF TypeOK, Enqueue, EnqueueFails
  <2>2. QED
    BY <1>5, <2>1 DEF TypeOK, Enqueue, EnqueueFails, EndRequest, HandlerPc
<1>6. ASSUME NEW j \in Jobs, Cancel(c, j) PROVE TypeOK'
  BY <1>6 DEF TypeOK, Cancel, Status, Active, Terminal
<1>7. QED
  BY <1>1, <1>2, <1>3, <1>4, <1>5, <1>6 DEF Request, CreateCheck, RetryCheck

\* The steps of a slot keep every variable in its type.
LEMMA RunType ==
  ASSUME TypeOK, NEW w \in Slots, Run(w)
  PROVE  TypeOK'
<1> USE DEF rowVars, arqVars, apiVars, slotVars
<1>0. RowType
  BY DEF TypeOK, RowType
<1>1. ASSUME NEW j \in Jobs, Pickup(w, j) PROVE TypeOK'
  BY <1>1, IdsAssumption, BoundsAssumption
     DEF TypeOK, Pickup, Goto, SlotPc, stampVars
<1>2. CASE NoDatasink(w) \/ Complete(w) \/ Fail(w) \/ FailRaises(w)
  <2>1. RowType'
    BY <1>0, <1>2, RowWrites DEF NoDatasink, Complete, Fail, FailRaises
  <2>2. QED
    BY <1>2, <2>1 DEF TypeOK, RowType, NoDatasink, Complete, Fail, FailRaises, Goto, SlotPc, InTry
<1>3. CASE MarkRunning(w)
  <2>1. RowType'
    BY <1>0, <1>3, RowWrites DEF MarkRunning
  <2>2. QED
    BY <1>3, <2>1 DEF TypeOK, RowType, MarkRunning, Goto, SlotPc, InTry
<1>4. ASSUME NEW n \in 0..MaxBatches, Setup(w, n) PROVE TypeOK'
  BY <1>4 DEF TypeOK, Setup, Goto, SlotPc, InTry, Output, stampVars
<1>5. CASE Batch(w)
  <2>1. RowType'
    BY <1>0, <1>5, RowWrites DEF Batch
  <2>2. left' \in [Slots -> 0..MaxBatches]
    BY <1>5, BoundsAssumption DEF TypeOK, Batch
  <2>3. QED
    BY <1>5, <2>1, <2>2 DEF TypeOK, RowType, Batch, Goto, SlotPc, InTry
<1>6. CASE CheckCancelled(w) \/ Decide(w)
  <2>1. CASE CheckCancelled(w)
    BY <2>1 DEF TypeOK, CheckCancelled, Goto, SlotPc, InTry, stampVars
  <2>2. CASE Decide(w)
    BY <2>2 DEF TypeOK, Decide, Goto, SlotPc, InTry, stampVars
  <2>3. QED
    BY <1>6, <2>1, <2>2
<1>10. CASE Finalise(w) \/ SinkRaises(w)
  <2>1. out' \in [Jobs -> Output]
    BY <1>10 DEF TypeOK, Finalise, SinkRaises, Output
  <2>2. wpc[w] # "idle"
    BY <1>10 DEF Finalise, SinkRaises, LoopLeft
  <2>3. QED
    BY <1>10, <2>1, <2>2
       DEF TypeOK, Finalise, SinkRaises, Goto, SlotPc, InTry, stampVars
<1>7. CASE DbRaises(w)
  <2>1. RowType'
    BY <1>0, <1>7, RowWrites DEF DbRaises
  <2>2. QED
    BY <1>7, <2>1 DEF TypeOK, RowType, DbRaises, Goto, SlotPc, InTry
<1>8. CASE Release(w) \/ JobTimeout(w)
  <2>1. Free(w) /\ queue' \subseteq queue /\ UNCHANGED <<rowVars, out, tries, apiVars, gauge>>
    BY <1>8 DEF Release, JobTimeout
  <2>2. left' \in [Slots -> 0..MaxBatches]
    BY <2>1, BoundsAssumption DEF TypeOK, Free
  <2>3. QED
    BY <2>1, <2>2 DEF TypeOK, Free, Goto, SlotPc, stampVars
<1>9. QED
  BY <1>1, <1>2, <1>3, <1>4, <1>5, <1>6, <1>7, <1>8, <1>10 DEF Run

\* Every step of the system keeps every variable in its type.
LEMMA NextType ==
  ASSUME TypeOK, [Next]_vars
  PROVE  TypeOK'
<1> USE DEF rowVars, stampVars, arqVars, apiVars, slotVars
<1>1. ASSUME NEW c \in Clients, Request(c) PROVE TypeOK'
  BY <1>1, RequestType
<1>2. ASSUME NEW w \in Slots, Run(w) PROVE TypeOK'
  BY <1>2, RunType
<1>3. ASSUME NEW j \in Jobs, GiveUp(j) PROVE TypeOK'
  BY <1>3 DEF TypeOK, GiveUp
<1>4. CASE Crash
  BY <1>4, BoundsAssumption DEF TypeOK, Crash, SlotPc
<1>5. CASE SweepMark
  BY <1>5, ZeroAge DEF TypeOK, SweepMark, Status, Active, Terminal
<1>6. CASE SweepPurge
  BY <1>6 DEF TypeOK, SweepPurge, Status, Active, Terminal
<1>7. CASE Tick
  BY <1>7, LaterType DEF TypeOK, Tick
<1>8. CASE UNCHANGED vars
  BY <1>8 DEF TypeOK, vars
<1>9. QED
  BY <1>1, <1>2, <1>3, <1>4, <1>5, <1>6, <1>7, <1>8 DEF Next

LEMMA TypeInit == Init => TypeOK
BY AgeCapType, BoundsAssumption
   DEF Init, TypeOK, Status, Active, Terminal, Output, HandlerPc, SlotPc

\* The state of the system always has its type: no id, status or timestamp outside
\* its range is ever written, by any interleaving of handlers, slots and sweep.
THEOREM TypeCorrect == Spec => []TypeOK
<1>1. TypeOK /\ [Next]_vars => TypeOK'
  BY NextType
<1>2. QED
  BY <1>1, TypeInit, PTL DEF Spec

-----------------------------------------------------------------------------
(* A completed job has its whole output                                    *)

\* A step of a handler, the sweep or the clock completes no row and leaves
\* cancelled rows cancelled: OutputInv survives it.
LEMMA BystanderOutput ==
  ASSUME OutputInv, TypeOK', UNCHANGED <<out, slotVars>>,
         \A j \in Jobs : /\ status'[j] = "completed" => status[j] = "completed"
                         /\ Cancelled(j) => Cancelled(j)'
  PROVE  OutputInv'
<1>1. Exclusive'
  BY DEF OutputInv, Exclusive, slotVars
<1>2. ASSUME NEW w \in Slots PROVE SlotInv(w)'
  <2>1. CASE wpc[w] = "idle"
    BY <2>1 DEF OutputInv, SlotInv, slotVars, InTry
  <2>2. CASE wpc[w] # "idle"
    <3>1. wjob[w] \in Jobs
      BY <2>2 DEF OutputInv, TypeOK
    <3>2. QED
      BY <3>1 DEF OutputInv, SlotInv, slotVars, Cancelled
  <2>3. QED
    BY <2>1, <2>2
<1>3. CompletedIsWhole'
  BY DEF OutputInv, CompletedIsWhole, slotVars, Cancelled
<1>4. QED
  BY <1>1, <1>2, <1>3 DEF OutputInv

\* The handlers write pending, failed and cancelled only, and never over cancelled.
LEMMA RequestBystander ==
  ASSUME TypeOK, NEW c \in Clients, Request(c)
  PROVE  /\ UNCHANGED <<out, slotVars>>
         /\ \A j \in Jobs : /\ status'[j] = "completed" => status[j] = "completed"
                            /\ Cancelled(j) => Cancelled(j)'
<1> USE DEF rowVars, Cancelled
<1>1. CASE Admit(c)
  BY <1>1 DEF TypeOK, Admit, CountActive, Expired, NoHeartbeat, NeverStarted
<1>2. ASSUME NEW k \in Jobs, RetryRead(c, k) PROVE UNCHANGED <<status, out, slotVars>>
  BY <1>2 DEF RetryRead
<1>3. CASE QueueUnreachable(c) \/ Enqueue(c) \/ EnqueueFails(c)
  BY <1>3 DEF QueueUnreachable, Enqueue, EnqueueFails
<1>4. CASE \E k \in Jobs : Insert(c, k)
  BY <1>4 DEF TypeOK, Insert
<1>5. CASE \E k \in Jobs : Cancel(c, k)
  BY <1>5 DEF TypeOK, Cancel
<1>6. QED
  BY <1>1, <1>2, <1>3, <1>4, <1>5 DEF Request, CreateCheck, RetryCheck

\* A slot touches the row and the output of its own job only.
LEMMA RunFrame ==
  ASSUME TypeOK, NEW w \in Slots, Run(w)
  PROVE  /\ \A v \in Slots \ {w} : /\ wpc'[v] = wpc[v]
                                   /\ wjob'[v] = wjob[v]
                                   /\ cut'[v] = cut[v]
         /\ \A j \in Jobs : \/ status'[j] = status[j] /\ out'[j] = out[j]
                            \/ wpc[w] # "idle" /\ wjob[w] = j
<1> USE DEF Goto, rowVars, SetRunning, SetFinished, Heartbeat
<1>1. CASE \E j \in Jobs : Pickup(w, j)
  BY <1>1 DEF TypeOK, Pickup
<1>2. CASE NoDatasink(w) \/ MarkRunning(w) \/ Complete(w) \/ Fail(w)
  BY <1>2 DEF TypeOK, NoDatasink, MarkRunning, Complete, Fail
<1>3. CASE \E n \in 0..MaxBatches : Setup(w, n)
  BY <1>3 DEF TypeOK, Setup
<1>4. CASE Batch(w) \/ CheckCancelled(w) \/ Decide(w) \/ FailRaises(w)
  BY <1>4 DEF TypeOK, Batch, CheckCancelled, Decide, FailRaises
<1>5. CASE Finalise(w) \/ SinkRaises(w)
  BY <1>5 DEF TypeOK, Finalise, LoopLeft, SinkRaises
<1>6. CASE DbRaises(w)
  BY <1>6 DEF TypeOK, DbRaises, InTry
<1>7. CASE Release(w) \/ JobTimeout(w)
  BY <1>7 DEF TypeOK, Release, JobTimeout, Free
<1>8. QED
  BY <1>1, <1>2, <1>3, <1>4, <1>5, <1>6, <1>7 DEF Run

\* The job of a busy slot does not change while it is busy, and no other busy slot
\* has it.
LEMMA RunExclusive ==
  ASSUME TypeOK, Exclusive, NEW w \in Slots, Run(w)
  PROVE  Exclusive'
<1> DEFINE Stays == wpc[w] # "idle" /\ wjob' = wjob
           Takes == \E j \in Jobs : ~Held(j) /\ wjob' = [wjob EXCEPT ![w] = j]
           Frees == wpc' = [wpc EXCEPT ![w] = "idle"]
<1>1. Stays \/ Takes \/ Frees
  BY DEF Run, Pickup, NoDatasink, MarkRunning, Setup, Batch, CheckCancelled, Finalise, LoopLeft,
         Decide, Complete, SinkRaises, DbRaises, Fail, FailRaises, Release, JobTimeout, Free, Goto,
         InTry
<1>2. \A v \in Slots \ {w} : wpc'[v] = wpc[v] /\ wjob'[v] = wjob[v]
  BY RunFrame
<1>3. CASE Stays
  BY <1>2, <1>3 DEF Exclusive
<1>4. CASE Takes
  BY <1>2, <1>4 DEF Exclusive, Held, TypeOK
<1>5. CASE Frees
  BY <1>2, <1>5 DEF Exclusive, TypeOK
<1>6. QED
  BY <1>1, <1>3, <1>4, <1>5

\* What a slot's step does to its own job respects the slot's invariant and the
\* meaning of completed.
LEMMA RunOwnOutput ==
  ASSUME OutputInv, NEW w \in Slots, Run(w)
  PROVE  /\ SlotInv(w)'
         /\ wpc[w] # "idle" => (status'[wjob[w]] = "completed" => out'[wjob[w]] = "whole")
<1> USE DEF Goto, rowVars, SetRunning, SetFinished, Heartbeat, SlotInv, InTry
<1>0. /\ TypeOK /\ SlotInv(w)
      /\ wpc[w] # "idle" => wjob[w] \in Jobs
      /\ wpc[w] # "idle" => (status[wjob[w]] = "completed" => out[wjob[w]] = "whole")
  BY DEF OutputInv, CompletedIsWhole, TypeOK
<1>1. CASE \E j \in Jobs : Pickup(w, j)
  BY <1>0, <1>1 DEF TypeOK, Pickup
<1>2. CASE NoDatasink(w) \/ Fail(w)
  BY <1>0, <1>2 DEF TypeOK, NoDatasink, Fail
<1>3. CASE MarkRunning(w)
  BY <1>0, <1>3 DEF TypeOK, MarkRunning, Exists
<1>4. CASE \E n \in 0..MaxBatches : Setup(w, n)
  BY <1>0, <1>4 DEF TypeOK, Setup
<1>5. CASE Batch(w)
  BY <1>0, <1>5 DEF TypeOK, Batch
<1>6. CASE CheckCancelled(w)
  BY <1>0, <1>6 DEF TypeOK, CheckCancelled, Cancelled
<1>7. CASE Finalise(w)
  BY <1>0, <1>7 DEF TypeOK, Finalise, LoopLeft, Cancelled
<1>8. CASE Decide(w)
  BY <1>0, <1>8 DEF TypeOK, Decide, Cancelled
<1>9. CASE Complete(w)
  BY <1>0, <1>9 DEF TypeOK, Complete
<1>10. CASE SinkRaises(w)
  BY <1>0, <1>10 DEF TypeOK, SinkRaises
<1>11. CASE DbRaises(w)
  BY <1>0, <1>11 DEF TypeOK, DbRaises
<1>12. CASE FailRaises(w)
  BY <1>0, <1>12 DEF TypeOK, FailRaises
<1>13. CASE Release(w) \/ JobTimeout(w)
  BY <1>0, <1>13 DEF TypeOK, Release, JobTimeout, Free
<1>14. QED
  BY <1>1, <1>2, <1>3, <1>4, <1>5, <1>6, <1>7, <1>8, <1>9, <1>10, <1>11, <1>12, <1>13 DEF Run

LEMMA RunOutput ==
  ASSUME OutputInv, TypeOK', NEW w \in Slots, Run(w)
  PROVE  OutputInv'
<1>0. TypeOK /\ Exclusive /\ CompletedIsWhole
  BY DEF OutputInv
<1>1. Exclusive'
  BY <1>0, RunExclusive
<1>2. ASSUME NEW v \in Slots PROVE SlotInv(v)'
  <2>1. CASE v = w
    BY <2>1, RunOwnOutput
  <2>2. CASE v # w /\ wpc[v] = "idle"
    BY <1>0, <2>2, RunFrame DEF OutputInv, SlotInv, InTry
  <2>3. CASE v # w /\ wpc[v] # "idle"
    <3>1. wjob[v] \in Jobs /\ ~(wpc[w] # "idle" /\ wjob[w] = wjob[v])
      BY <1>0, <2>3 DEF TypeOK, Exclusive
    <3>2. status'[wjob[v]] = status[wjob[v]] /\ out'[wjob[v]] = out[wjob[v]]
      BY <1>0, <3>1, RunFrame
    <3>3. wpc'[v] = wpc[v] /\ wjob'[v] = wjob[v] /\ cut'[v] = cut[v]
      BY <1>0, <2>3, RunFrame
    <3>4. QED
      BY <3>2, <3>3 DEF OutputInv, SlotInv, Cancelled
  <2>4. QED
    BY <2>1, <2>2, <2>3
<1>3. CompletedIsWhole'
  BY <1>0, RunFrame, RunOwnOutput DEF CompletedIsWhole
<1>4. QED
  BY <1>1, <1>2, <1>3 DEF OutputInv

LEMMA OutputInit == Init => OutputInv
<1>1. Init => TypeOK
  BY TypeInit
<1>2. Init => Exclusive /\ CompletedIsWhole /\ \A w \in Slots : SlotInv(w)
  BY DEF Init, Exclusive, CompletedIsWhole, SlotInv, InTry
<1>3. QED
  BY <1>1, <1>2 DEF OutputInv

\* Every step of the system preserves the inductive invariant.
LEMMA OutputStep ==
  ASSUME OutputInv, [Next]_vars
  PROVE  OutputInv'
<1>0. TypeOK /\ TypeOK'
  BY NextType DEF OutputInv
<1>1. ASSUME NEW c \in Clients, Request(c) PROVE OutputInv'
  BY <1>0, <1>1, RequestBystander, BystanderOutput
<1>2. ASSUME NEW w \in Slots, Run(w) PROVE OutputInv'
  BY <1>0, <1>2, RunOutput
<1>3. CASE Crash
  BY <1>0, <1>3
     DEF Crash, OutputInv, Exclusive, SlotInv, CompletedIsWhole, InTry, rowVars
<1>4. CASE (\E j \in Jobs : GiveUp(j)) \/ SweepMark \/ SweepPurge \/ Tick \/ UNCHANGED vars
  <2>1. UNCHANGED <<out, slotVars>>
    BY <1>4 DEF GiveUp, SweepMark, SweepPurge, Tick, vars
  <2>2. \A j \in Jobs : /\ status'[j] = "completed" => status[j] = "completed"
                        /\ Cancelled(j) => Cancelled(j)'
    BY <1>0, <1>4 DEF GiveUp, SweepMark, Stale, SweepPurge, Outlived, Tick, vars, rowVars, Cancelled, TypeOK
  <2>3. QED
    BY <1>0, <2>1, <2>2, BystanderOutput
<1>5. QED
  BY <1>1, <1>2, <1>3, <1>4 DEF Next

\* CompletedIsWhole: whatever handlers, cancels, sweeps, crashes and repeated
\* deliveries do, a job that says completed has its whole output.
THEOREM CompletedCorrect == Spec => []CompletedIsWhole
<1>1. OutputInv /\ [Next]_vars => OutputInv'
  BY OutputStep
<1>2. OutputInv => CompletedIsWhole
  BY DEF OutputInv
<1>3. QED
  BY <1>1, <1>2, OutputInit, PTL DEF Spec

-----------------------------------------------------------------------------
(* A running row has a worker                                              *)

WorkerInv == \A j \in Jobs : status[j] = "running" => Claimed(j)

\* A slot at work keeps its job claimed, or takes it out of running.
LEMMA RunWorker ==
  ASSUME TypeOK, TypeOK', WorkerInv, Faults \cap {"crash", "timeout", "db"} = {},
         NEW w \in Slots, Run(w)
  PROVE  WorkerInv'
<1> SUFFICES ASSUME NEW j \in Jobs, status'[j] = "running" PROVE Claimed(j)'
  BY DEF WorkerInv
<1> DEFINE At(v) == wpc[v] \in InTry \cup {"loaded", "failing"} /\ wjob[v] = j
<1>1. \A v \in Slots \ {w} : At(v) => At(v)'
  BY RunFrame
<1>2. \/ status[j] = "running" /\ (At(w) => At(w)')
      \/ At(w)'
  <2> USE DEF Goto, rowVars, SetRunning, SetFinished, Heartbeat, InTry
  <2>1. CASE \E k \in Jobs : Pickup(w, k)
    BY <2>1 DEF TypeOK, Pickup
  <2>2. CASE NoDatasink(w) \/ Complete(w) \/ Fail(w)
    BY <2>2 DEF TypeOK, NoDatasink, Complete, Fail, Exists
  <2>3. CASE MarkRunning(w)
    BY <2>3 DEF TypeOK, MarkRunning
  <2>4. CASE (\E n \in 0..MaxBatches : Setup(w, n)) \/ Batch(w) \/ CheckCancelled(w)
    BY <2>4 DEF TypeOK, Setup, Batch, CheckCancelled
  <2>5. CASE Finalise(w) \/ SinkRaises(w)
    BY <2>5 DEF TypeOK, Finalise, LoopLeft, SinkRaises
  <2>6. CASE Decide(w)
    BY <2>6 DEF TypeOK, Decide, Cancelled
  <2>7. CASE Release(w)
    BY <2>7 DEF TypeOK, Release, Free
  <2>8. ~DbRaises(w) /\ ~FailRaises(w) /\ ~JobTimeout(w)
    BY DEF DbRaises, FailRaises, JobTimeout
  <2>9. QED
    BY <2>1, <2>2, <2>3, <2>4, <2>5, <2>6, <2>7, <2>8 DEF Run
<1>3. QED
  BY <1>1, <1>2 DEF WorkerInv, Claimed

\* RunningHasWorker: no error path of run_export_job that the process survives
\* leaves a row in running.
THEOREM RunningHolds == Spec => []RunningHasWorker
<1> DEFINE Calm == Faults \cap {"crash", "timeout", "db"} = {}
           Inv == TypeOK /\ (Calm => WorkerInv)
<1>1. Init => Inv
  BY TypeInit DEF Init, WorkerInv
<1>2. ASSUME Inv, [Next]_vars PROVE Inv'
  <2>1. TypeOK /\ TypeOK'
    BY <1>2, NextType
  <2> SUFFICES ASSUME Calm, WorkerInv PROVE WorkerInv'
    BY <1>2, <2>1
  <2>2. ASSUME NEW w \in Slots, Run(w) PROVE WorkerInv'
    BY <2>1, <2>2, RunWorker
  <2>3. ASSUME UNCHANGED <<wpc, wjob>>, \A j \in Jobs : status'[j] = "running" => status[j] = "running"
        PROVE  WorkerInv'
    BY <2>3 DEF WorkerInv, Claimed
  <2>4. ASSUME NEW c \in Clients, Request(c) PROVE WorkerInv'
    <3>1. UNCHANGED <<wpc, wjob>>
      BY <2>1, <2>4, RequestBystander DEF slotVars
    <3>2. \A j \in Jobs : status'[j] = "running" => status[j] = "running"
      BY <2>1, <2>4 DEF TypeOK, Request, CreateCheck, RetryCheck, Admit, CountActive, RetryRead,
             QueueUnreachable, Insert, Enqueue, EnqueueFails, Cancel, rowVars
    <3>3. QED
      BY <2>3, <3>1, <3>2
  <2>5. CASE (\E j \in Jobs : GiveUp(j)) \/ SweepMark \/ SweepPurge \/ Tick \/ UNCHANGED vars
    <3>1. UNCHANGED <<wpc, wjob>>
      BY <2>5 DEF GiveUp, SweepMark, SweepPurge, Tick, vars, slotVars
    <3>2. \A j \in Jobs : status'[j] = "running" => status[j] = "running"
      BY <2>1, <2>5 DEF TypeOK, GiveUp, SweepMark, SweepPurge, Tick, vars, rowVars
    <3>3. QED
      BY <2>3, <3>1, <3>2
  <2>6. ~Crash
    BY DEF Crash
  <2>7. QED
    BY <1>2, <2>2, <2>4, <2>5, <2>6 DEF Next
<1>3. Inv => RunningHasWorker
  BY DEF WorkerInv, RunningHasWorker
<1>4. QED
  BY <1>1, <1>2, <1>3, PTL DEF Spec

-----------------------------------------------------------------------------
(* The gauge counts the runs                                               *)

RunsOf == {w \in Slots : Running(w)}
GaugeInv == gauge = Cardinality(RunsOf)

\* The step of a slot starts or ends at most its own run, and counts it.
LEMMA RunGauge ==
  ASSUME TypeOK, GaugeInv, Faults \cap {"timeout", "db"} = {}, NEW w \in Slots, Run(w)
  PROVE  GaugeInv'
<1> USE DEF Running, Goto, InTry
<1>0. IsFiniteSet(RunsOf) /\ RunsOf \subseteq Slots
  BY FiniteAssumption, FS_Subset DEF RunsOf
<1>1. \A v \in Slots \ {w} : Running(v)' <=> Running(v)
  BY RunFrame
<1>2. \/ gauge' = gauge /\ (Running(w)' <=> Running(w))
      \/ gauge' = gauge + 1 /\ ~Running(w) /\ Running(w)'
      \/ gauge' = gauge - 1 /\ Running(w) /\ ~Running(w)'
  <2>1. CASE (\E k \in Jobs : Pickup(w, k)) \/ NoDatasink(w) \/ MarkRunning(w)
    BY <2>1 DEF TypeOK, Pickup, NoDatasink, MarkRunning
  <2>2. CASE Complete(w) \/ Fail(w) \/ Decide(w)
    BY <2>2 DEF TypeOK, Complete, Fail, Decide
  <2>3. CASE (\E n \in 0..MaxBatches : Setup(w, n)) \/ Batch(w) \/ CheckCancelled(w)
    BY <2>3 DEF TypeOK, Setup, Batch, CheckCancelled
  <2>4. CASE Finalise(w) \/ SinkRaises(w) \/ Release(w)
    BY <2>4 DEF TypeOK, Finalise, LoopLeft, SinkRaises, Release, Free
  <2>5. ~DbRaises(w) /\ ~FailRaises(w) /\ ~JobTimeout(w)
    BY DEF DbRaises, FailRaises, JobTimeout
  <2>6. QED
    BY <2>1, <2>2, <2>3, <2>4, <2>5 DEF Run
<1>3. CASE Running(w)' <=> Running(w)
  <2>1. RunsOf' = RunsOf
    BY <1>1, <1>3 DEF RunsOf
  <2>2. gauge' = gauge
    BY <1>2, <1>3
  <2>3. QED
    BY <2>1, <2>2 DEF GaugeInv
<1>4. CASE ~Running(w) /\ Running(w)'
  <2>1. RunsOf' = RunsOf \cup {w} /\ w \notin RunsOf
    BY <1>1, <1>4 DEF RunsOf
  <2>2. Cardinality(RunsOf') = Cardinality(RunsOf) + 1
    BY <1>0, <2>1, FS_AddElement
  <2>3. gauge' = gauge + 1
    BY <1>2, <1>4
  <2>4. QED
    BY <2>2, <2>3 DEF GaugeInv
<1>5. CASE Running(w) /\ ~Running(w)'
  <2>1. RunsOf' = RunsOf \ {w} /\ w \in RunsOf
    BY <1>1, <1>5 DEF RunsOf
  <2>2. Cardinality(RunsOf') = Cardinality(RunsOf) - 1
    BY <1>0, <2>1, FS_RemoveElement
  <2>3. gauge' = gauge - 1
    BY <1>2, <1>5
  <2>4. QED
    BY <2>2, <2>3 DEF GaugeInv
<1>6. QED
  BY <1>3, <1>4, <1>5

\* GaugeCountsRuns: over cancels, failures of the sink and restarts the gauge is the
\* number of runs of the process; each of its four paths out decrements it once.
THEOREM GaugeHolds == Spec => []GaugeCountsRuns
<1> DEFINE Calm == Faults \cap {"timeout", "db"} = {}
           Inv == TypeOK /\ (Calm => GaugeInv)
<1>1. Init => Inv
  <2>1. Init => RunsOf = {}
    BY DEF Init, RunsOf, Running, InTry
  <2>2. QED
    BY <2>1, TypeInit, FS_EmptySet DEF Init, GaugeInv
<1>2. ASSUME Inv, [Next]_vars PROVE Inv'
  <2>1. TypeOK /\ TypeOK'
    BY <1>2, NextType
  <2> SUFFICES ASSUME Calm, GaugeInv PROVE GaugeInv'
    BY <1>2, <2>1
  <2>2. ASSUME NEW w \in Slots, Run(w) PROVE GaugeInv'
    BY <2>1, <2>2, RunGauge
  <2>3. ASSUME UNCHANGED <<wpc, gauge>> PROVE GaugeInv'
    <3>1. RunsOf' = RunsOf
      BY <2>3 DEF RunsOf, Running
    <3>2. QED
      BY <2>3, <3>1 DEF GaugeInv
  <2>4. CASE Crash
    <3>1. RunsOf' = {}
      BY <2>4 DEF Crash, RunsOf, Running, InTry
    <3>2. QED
      BY <2>4, <3>1, FS_EmptySet DEF Crash, GaugeInv
  <2>5. ASSUME NEW c \in Clients, Request(c) PROVE UNCHANGED <<wpc, gauge>>
    BY <2>5 DEF Request, CreateCheck, RetryCheck, Admit, RetryRead, QueueUnreachable, Insert, Enqueue,
           EnqueueFails, Cancel, slotVars
  <2>6. CASE (\E j \in Jobs : GiveUp(j)) \/ SweepMark \/ SweepPurge \/ Tick \/ UNCHANGED vars
    <3>1. UNCHANGED <<wpc, gauge>>
      BY <2>6 DEF GiveUp, SweepMark, SweepPurge, Tick, vars, slotVars
    <3>2. QED
      BY <2>3, <3>1
  <2>7. QED
    BY <1>2, <2>2, <2>3, <2>4, <2>5, <2>6 DEF Next
<1>3. Inv => GaugeCountsRuns
  BY DEF GaugeInv, RunsOf, GaugeCountsRuns
<1>4. QED
  BY <1>1, <1>2, <1>3, PTL DEF Spec

-----------------------------------------------------------------------------
(* How far a quota can be exceeded                                         *)

QuotaOf(org) ==
  Cardinality(Standing(org)) + Cardinality(AdmittedOf(org))
    <= MaxActive + Cardinality(ClientsOf(org)) - 1

\* The sets that are counted are finite.
LEMMA Counts ==
  ASSUME NEW org
  PROVE  /\ IsFiniteSet(Standing(org)) /\ IsFiniteSet(AdmittedOf(org)) /\ IsFiniteSet(ClientsOf(org))
         /\ IsFiniteSet(Standing(org)') /\ IsFiniteSet(AdmittedOf(org)')
         /\ IsFiniteSet(ActiveRows(org) \ Expired(org))
<1>1. /\ Standing(org) \subseteq Jobs /\ Standing(org)' \subseteq Jobs
      /\ ActiveRows(org) \ Expired(org) \subseteq Jobs
      /\ AdmittedOf(org) \subseteq Clients /\ AdmittedOf(org)' \subseteq Clients
      /\ ClientsOf(org) \subseteq Clients
  BY DEF Standing, ActiveRows, RowsOf, AdmittedOf, ClientsOf
<1>2. QED
  BY <1>1, FiniteAssumption, FS_Subset

\* Fewer standing rows and fewer admitted requests keep the bound.
LEMMA QuotaShrinks ==
  ASSUME NEW org, QuotaOf(org),
         Standing(org)' \subseteq Standing(org), AdmittedOf(org)' \subseteq AdmittedOf(org)
  PROVE  QuotaOf(org)'
<1>1. /\ Cardinality(Standing(org)') <= Cardinality(Standing(org))
      /\ Cardinality(AdmittedOf(org)') <= Cardinality(AdmittedOf(org))
  BY Counts, FS_Subset
<1>2. /\ Cardinality(Standing(org)) \in Nat /\ Cardinality(Standing(org)') \in Nat
      /\ Cardinality(AdmittedOf(org)) \in Nat /\ Cardinality(AdmittedOf(org)') \in Nat
      /\ Cardinality(ClientsOf(org)) \in Nat
  BY Counts, FS_CardinalityType
<1>3. ClientsOf(org)' = ClientsOf(org)
  BY DEF ClientsOf
<1>4. QED
  BY <1>1, <1>2, <1>3, BoundsAssumption DEF QuotaOf

\* A request that is admitted finds fewer than MaxActive rows, and every other
\* request of the org may be admitted with it.
LEMMA AdmitQuota ==
  ASSUME TypeOK, NEW c \in Clients, Admit(c), hpc[c] # "admitted", revived \subseteq revived',
         NEW org, QuotaOf(org)
  PROVE  QuotaOf(org)'
<1> USE DEF Standing, ActiveRows, RowsOf, Exists, Active
<1>1. Standing(org)' \subseteq Standing(org)
  BY DEF TypeOK, Admit, CountActive
<1>2. CASE AdmittedOf(org)' \subseteq AdmittedOf(org)
  BY <1>1, <1>2, QuotaShrinks
<1>3. CASE ~(AdmittedOf(org)' \subseteq AdmittedOf(org))
  <2>1. org = OrgOf[c] /\ Counted(org) < MaxActive
    BY <1>3 DEF TypeOK, Admit, AdmittedOf, ClientsOf
  <2>2. Standing(org)' \subseteq ActiveRows(org) \ Expired(org)
    BY <2>1 DEF TypeOK, Admit, CountActive
  <2>3. Cardinality(Standing(org)') <= Counted(org)
    BY <2>2, Counts, FS_Subset DEF Counted
  <2>4. Cardinality(AdmittedOf(org)') <= Cardinality(ClientsOf(org))
    <3>1. AdmittedOf(org)' \subseteq ClientsOf(org)
      BY DEF AdmittedOf, ClientsOf
    <3>2. QED
      BY <3>1, Counts, FS_Subset
  <2>5. /\ Cardinality(Standing(org)') \in Nat /\ Cardinality(AdmittedOf(org)') \in Nat
        /\ Cardinality(ClientsOf(org)) \in Nat /\ Counted(org) \in Nat
    BY Counts, FS_CardinalityType DEF Counted
  <2>6. ClientsOf(org)' = ClientsOf(org)
    BY DEF ClientsOf
  <2>7. QED
    BY <2>1, <2>3, <2>4, <2>5, <2>6, BoundsAssumption DEF QuotaOf
<1>4. QED
  BY <1>2, <1>3

\* The insert turns an admitted request into at most one more row of its own org.
LEMMA InsertQuota ==
  ASSUME TypeOK, NEW c \in Clients, NEW j \in Jobs, Insert(c, j), revived \subseteq revived',
         NEW org, QuotaOf(org)
  PROVE  QuotaOf(org)'
<1>1. CASE OrgOf[c] # org
  <2>1. Standing(org)' \subseteq Standing(org) /\ AdmittedOf(org)' \subseteq AdmittedOf(org)
    BY <1>1 DEF TypeOK, Insert, Standing, ActiveRows, RowsOf, Exists, AdmittedOf, ClientsOf
  <2>2. QED
    BY <2>1, QuotaShrinks
<1>2. CASE OrgOf[c] = org
  <2>1. Standing(org)' \subseteq Standing(org) \cup {j} /\ j \notin Standing(org)
    BY <1>2 DEF TypeOK, Insert, Standing, ActiveRows, RowsOf, Exists
  <2>2. AdmittedOf(org)' = AdmittedOf(org) \ {c} /\ c \in AdmittedOf(org)
    BY <1>2 DEF TypeOK, Insert, AdmittedOf, ClientsOf
  <2>3. /\ Cardinality(Standing(org)') <= Cardinality(Standing(org)) + 1
        /\ Cardinality(AdmittedOf(org)') = Cardinality(AdmittedOf(org)) - 1
    <3>1. /\ IsFiniteSet(Standing(org) \cup {j})
          /\ Cardinality(Standing(org) \cup {j}) = Cardinality(Standing(org)) + 1
      BY <2>1, Counts, FS_AddElement
    <3>2. Cardinality(AdmittedOf(org) \ {c}) = Cardinality(AdmittedOf(org)) - 1
      BY <2>2, Counts, FS_RemoveElement
    <3>3. Cardinality(Standing(org)') <= Cardinality(Standing(org) \cup {j})
      BY <2>1, <3>1, FS_Subset
    <3>4. QED
      BY <2>2, <3>1, <3>2, <3>3
  <2>4. /\ Cardinality(Standing(org)) \in Nat /\ Cardinality(Standing(org)') \in Nat
        /\ Cardinality(AdmittedOf(org)) \in Nat /\ Cardinality(ClientsOf(org)) \in Nat
    BY Counts, FS_CardinalityType
  <2>5. ClientsOf(org)' = ClientsOf(org)
    BY DEF ClientsOf
  <2>6. QED
    BY <2>3, <2>4, <2>5, BoundsAssumption DEF QuotaOf
<1>3. QED
  BY <1>1, <1>2

\* OvershootBounded: however create and retry requests interleave with each other, with
\* slots, crashes and the sweep, the rows of an org that have held their place since
\* the insert, pending or running, and its admitted requests exceed its quota by at
\* most its other requests; only revived rows come on top.
THEOREM OvershootHolds == QSpec => []OvershootBounded
<1> DEFINE Inv == TypeOK /\ \A c \in Clients : QuotaOf(OrgOf[c])
<1>1. QInit => Inv
  <2> SUFFICES ASSUME Init, NEW c \in Clients PROVE QuotaOf(OrgOf[c])
    BY TypeInit DEF QInit
  <2>1. Standing(OrgOf[c]) = {} /\ AdmittedOf(OrgOf[c]) = {} /\ c \in ClientsOf(OrgOf[c])
    BY DEF Init, Standing, ActiveRows, RowsOf, Exists, AdmittedOf, ClientsOf
  <2>2. Cardinality(ClientsOf(OrgOf[c])) \in Nat /\ Cardinality(ClientsOf(OrgOf[c])) # 0
    BY <2>1, Counts, FS_CardinalityType, FS_EmptySet
  <2>3. QED
    BY <2>1, <2>2, FS_EmptySet, BoundsAssumption DEF QuotaOf
<1>2. ASSUME Inv, [QNext]_qvars PROVE Inv'
  <2>1. /\ [Next]_vars /\ TypeOK /\ TypeOK'
        /\ revived \subseteq revived' /\ Reviving \subseteq revived'
    BY <1>2, NextType DEF QNext, qvars, vars, rowVars, Reviving, Terminal
  <2> SUFFICES ASSUME NEW c \in Clients, NEW org, org = OrgOf[c], QuotaOf(org) PROVE QuotaOf(org)'
    BY <1>2, <2>1
  <2>2. ASSUME UNCHANGED owner,
               \A j \in Jobs : status'[j] \in Active => status[j] \in Active \/ j \in revived',
               \A d \in Clients : hpc'[d] = "admitted" => hpc[d] = "admitted"
        PROVE  QuotaOf(org)'
    <3>1. Standing(org)' \subseteq Standing(org) /\ AdmittedOf(org)' \subseteq AdmittedOf(org)
      BY <2>1, <2>2 DEF Standing, ActiveRows, RowsOf, Exists, Active, AdmittedOf, ClientsOf
    <3>2. QED
      BY <3>1, QuotaShrinks
  <2>3. ASSUME NEW d \in Clients, Request(d) PROVE QuotaOf(org)'
    <3>1. CASE CreateCheck(d) \/ RetryCheck(d)
      BY <2>1, <3>1, AdmitQuota DEF CreateCheck, RetryCheck
    <3>2. CASE \E j \in Jobs : Insert(d, j)
      BY <2>1, <3>2, InsertQuota
    <3>3. CASE \/ \E j \in Jobs : RetryRead(d, j) \/ Cancel(d, j)
               \/ QueueUnreachable(d) \/ Enqueue(d) \/ EnqueueFails(d)
      BY <2>1, <2>2, <3>3 DEF TypeOK, RetryRead, Cancel, QueueUnreachable, Enqueue, EnqueueFails,
             EndRequest, rowVars, apiVars, Active
    <3>4. QED
      BY <2>3, <3>1, <3>2, <3>3 DEF Request
  <2>4. ASSUME NEW w \in Slots, Run(w) PROVE QuotaOf(org)'
    <3>1. UNCHANGED <<owner, apiVars>>
      BY <2>4 DEF Run, Pickup, NoDatasink, MarkRunning, Setup, Batch, CheckCancelled, Finalise, Decide,
             Complete, SinkRaises, DbRaises, Fail, FailRaises, Release, JobTimeout, SetRunning,
             SetFinished, Heartbeat, rowVars
    <3>2. \A j \in Jobs : status'[j] \in Active =>
            status[j] \in Active \/ (status[j] \in Terminal /\ status'[j] = "running")
      BY <2>1, <2>4 DEF TypeOK, Run, Pickup, NoDatasink, MarkRunning, Setup, Batch, CheckCancelled,
             Finalise, Decide, Complete, SinkRaises, DbRaises, Fail, FailRaises, Release, JobTimeout,
             SetRunning, SetFinished, Heartbeat, rowVars, Exists, Status, Active, Terminal
    <3>3. QED
      BY <2>1, <2>2, <3>1, <3>2 DEF apiVars, Reviving
  <2>5. CASE (\E j \in Jobs : GiveUp(j)) \/ Crash \/ SweepMark \/ SweepPurge \/ Tick \/ UNCHANGED vars
    <3>1. UNCHANGED <<owner, apiVars>>
      BY <2>5 DEF GiveUp, Crash, SweepMark, SweepPurge, Tick, vars, rowVars
    <3>2. \A j \in Jobs : status'[j] \in Active => status[j] \in Active
      BY <2>1, <2>5 DEF TypeOK, GiveUp, Crash, SweepMark, SweepPurge, Tick, vars, rowVars, Active
    <3>3. QED
      BY <2>2, <3>1, <3>2 DEF apiVars
  <2>6. QED
    BY <2>1, <2>3, <2>4, <2>5 DEF Next
<1>3. Inv => OvershootBounded
  BY DEF QuotaOf, OvershootBounded
<1>4. QED
  BY <1>1, <1>2, <1>3, PTL DEF QSpec

-----------------------------------------------------------------------------
(* ExportJobs implements JobLifecycle, and what follows from it for cancelled and *)
(* settled jobs                                                            *)

\* The stage of a job, as the refinement mapping of ExportJobs has it.
StageAt(j) == IF Claimed(j) THEN "claimed" ELSE IF Awaited(j) THEN "waiting" ELSE "out"
StageMap == [j \in Jobs |-> StageAt(j)]

\* Behind the stages: what is queued, or about to be, has been inserted; arq does not
\* finish with a job that a slot holds; and a run under way has left pending.
StageInv ==
  /\ \A j \in queue : status[j] # "none"
  /\ \A c \in Clients : hpc[c] = "inserted" => status[hjob[c]] # "none"
  /\ \A w \in Slots : wpc[w] # "idle" => wjob[w] \in queue
  /\ \A w \in Slots : wpc[w] \in InTry => status[wjob[w]] # "pending"

-----------------------------------------------------------------------------
(* StageInv is an invariant                                                *)

\* No step but an insert makes a row pending, and none undoes an insert.
LEMMA RowsStay ==
  ASSUME TypeOK, [Next]_vars, NEW j \in Jobs
  PROVE  /\ status[j] # "none" => status'[j] # "none"
         /\ status'[j] = "pending" => status[j] \in {"pending", "none"}
<1> USE DEF rowVars
<1> DEFINE Goal == /\ status[j] # "none" => status'[j] # "none"
                   /\ status'[j] = "pending" => status[j] \in {"pending", "none"}
<1>1. ASSUME NEW c \in Clients, Request(c) PROVE Goal
  <2>1. CASE Admit(c)
    BY <2>1 DEF TypeOK, Admit, CountActive, Expired, NoHeartbeat, NeverStarted
  <2>2. CASE \E k \in Jobs : RetryRead(c, k)
    BY <2>2 DEF RetryRead
  <2>3. CASE QueueUnreachable(c) \/ Enqueue(c) \/ EnqueueFails(c)
    BY <2>3 DEF QueueUnreachable, Enqueue, EnqueueFails
  <2>4. CASE \E k \in Jobs : Insert(c, k) \/ Cancel(c, k)
    BY <2>4 DEF TypeOK, Insert, Cancel
  <2>5. QED
    BY <1>1, <2>1, <2>2, <2>3, <2>4 DEF Request, CreateCheck, RetryCheck
<1>2. ASSUME NEW w \in Slots, Run(w) PROVE Goal
  <2>1. \/ UNCHANGED status
        \/ wjob[w] \in Jobs /\ SetRunning(wjob[w])
        \/ wjob[w] \in Jobs /\ \E s \in {"completed", "failed"} : SetFinished(wjob[w], s)
    BY <1>2 DEF Run, TypeOK, Pickup, NoDatasink, MarkRunning, Setup, Batch, CheckCancelled, Finalise,
                Decide, Complete, SinkRaises, DbRaises, Fail, FailRaises, Release, JobTimeout, Heartbeat, InTry
  <2>2. QED
    BY <2>1 DEF TypeOK, SetRunning, SetFinished, Exists
<1>3. CASE (\E k \in Jobs : GiveUp(k)) \/ Crash \/ Tick \/ UNCHANGED vars
  BY <1>3 DEF GiveUp, Crash, Tick, vars
<1>4. CASE SweepMark \/ SweepPurge
  BY <1>4 DEF TypeOK, SweepMark, SweepPurge, Stale, Outlived
<1>5. QED
  BY <1>1, <1>2, <1>3, <1>4 DEF Next

LEMMA StageInit == Init => StageInv
BY DEF Init, StageInv, InTry

\* A handler queues only what it has inserted.
LEMMA RequestStage ==
  ASSUME TypeOK, StageInv, NEW c \in Clients, Request(c)
  PROVE  StageInv'
<1>0. \A j \in Jobs : /\ status[j] # "none" => status'[j] # "none"
                      /\ status'[j] = "pending" => status[j] \in {"pending", "none"}
  BY RowsStay DEF Next
<1>1. UNCHANGED slotVars /\ queue \subseteq queue'
  BY DEF Request, CreateCheck, RetryCheck, Admit, RetryRead, QueueUnreachable, Insert, Enqueue,
         EnqueueFails, Cancel, arqVars
<1>2. \A j \in queue' : status'[j] # "none"
  <2>1. queue' = queue \/ (hpc[c] = "inserted" /\ queue' = queue \cup {hjob[c]})
    BY DEF Request, CreateCheck, RetryCheck, Admit, RetryRead, QueueUnreachable, Insert, Enqueue,
           EnqueueFails, Cancel, arqVars
  <2>2. QED
    BY <1>0, <2>1 DEF TypeOK, StageInv
<1>3. ASSUME NEW d \in Clients, hpc'[d] = "inserted" PROVE status'[hjob'[d]] # "none"
  <2>1. CASE hpc[d] = "inserted" /\ hjob'[d] = hjob[d]
    <3>1. hjob[d] \in Jobs
      BY <2>1 DEF TypeOK
    <3>2. QED
      BY <1>0, <2>1, <3>1 DEF StageInv
  <2>2. CASE \E j \in Jobs : Insert(c, j) /\ d = c
    BY <2>2 DEF TypeOK, Insert
  <2>3. (hpc[d] = "inserted" /\ hjob'[d] = hjob[d]) \/ \E j \in Jobs : Insert(c, j) /\ d = c
    BY <1>3 DEF TypeOK, Request, CreateCheck, RetryCheck, Admit, RetryRead, QueueUnreachable, Insert,
                Enqueue, EnqueueFails, EndRequest, Cancel, apiVars
  <2>4. QED
    BY <2>1, <2>2, <2>3
<1>4. \A w \in Slots : wpc'[w] # "idle" => wjob'[w] \in queue'
  BY <1>1 DEF StageInv, slotVars
<1>5. ASSUME NEW w \in Slots, wpc'[w] \in InTry PROVE status'[wjob'[w]] # "pending"
  <2>1. wpc[w] \in InTry /\ wjob'[w] = wjob[w]
    BY <1>1, <1>5 DEF slotVars
  <2>2. wjob[w] \in Jobs /\ status[wjob[w]] \notin {"none", "pending"}
    BY <2>1 DEF TypeOK, StageInv, InTry
  <2>3. QED
    BY <1>0, <2>1, <2>2
<1>6. QED
  BY <1>2, <1>3, <1>4, <1>5 DEF StageInv

\* A slot takes queued jobs, and only the slot that holds a job has arq drop it.
LEMMA RunStage ==
  ASSUME TypeOK, Exclusive, StageInv, NEW w \in Slots, Run(w)
  PROVE  StageInv'
<1>0. \A j \in Jobs : /\ status[j] # "none" => status'[j] # "none"
                      /\ status'[j] = "pending" => status[j] \in {"pending", "none"}
  BY RowsStay DEF Next
<1>1. \A v \in Slots \ {w} : wpc'[v] = wpc[v] /\ wjob'[v] = wjob[v]
  BY RunFrame
<1>2. /\ UNCHANGED apiVars
      /\ \/ queue' = queue
         \/ wpc[w] # "idle" /\ wpc'[w] = "idle" /\ queue' = queue \ {wjob[w]}
  BY DEF TypeOK, Run, Pickup, NoDatasink, MarkRunning, Setup, Batch, CheckCancelled, Finalise, Decide,
         Complete, SinkRaises, DbRaises, Fail, FailRaises, Release, JobTimeout, Free, Goto, arqVars
<1>3. wpc'[w] # "idle" => wjob'[w] \in queue /\ wjob'[w] \in Jobs
  BY DEF TypeOK, StageInv, Run, Pickup, NoDatasink, MarkRunning, Setup, Batch, CheckCancelled, Finalise,
         LoopLeft, Decide, Complete, SinkRaises, DbRaises, Fail, FailRaises, Release, JobTimeout, Free,
         Goto, InTry
<1>4. wpc'[w] \in InTry =>
        \/ wpc[w] \in InTry /\ wjob'[w] = wjob[w]
        \/ MarkRunning(w) /\ wjob'[w] = wjob[w] /\ wpc[w] = "loaded"
  BY DEF TypeOK, Run, Pickup, NoDatasink, MarkRunning, Setup, Batch, CheckCancelled, Finalise, LoopLeft,
         Decide, Complete, SinkRaises, DbRaises, Fail, FailRaises, Release, JobTimeout, Free, Goto, InTry
<1>5. ASSUME NEW v \in Slots, wpc'[v] # "idle" PROVE wjob'[v] \in queue'
  <2>1. CASE v = w
    BY <1>2, <1>3, <1>5, <2>1
  <2>2. CASE v # w
    BY <1>1, <1>2, <1>5, <2>2 DEF StageInv, Exclusive
  <2>3. QED
    BY <2>1, <2>2
<1>6. ASSUME NEW v \in Slots, wpc'[v] \in InTry PROVE status'[wjob'[v]] # "pending"
  <2>1. CASE v = w /\ MarkRunning(w) /\ wpc[w] = "loaded" /\ wjob'[w] = wjob[w]
    <3>1. wjob[w] \in Jobs
      BY <2>1 DEF TypeOK
    <3>2. QED
      BY <2>1, <3>1 DEF TypeOK, MarkRunning, SetRunning, Exists, rowVars
  <2>2. CASE wpc[v] \in InTry /\ wjob'[v] = wjob[v]
    <3>1. wjob[v] \in Jobs /\ status[wjob[v]] \notin {"none", "pending"}
      BY <2>2 DEF TypeOK, StageInv, InTry
    <3>2. QED
      BY <1>0, <2>2, <3>1
  <2>3. QED
    BY <1>1, <1>4, <1>6, <2>1, <2>2
<1>7. queue' \subseteq queue /\ queue \subseteq Jobs
  BY <1>2 DEF TypeOK
<1>8. \A d \in Clients : hpc'[d] = "inserted" => status'[hjob'[d]] # "none"
  <2>1. \A d \in Clients : hpc[d] = "inserted" => hjob[d] \in Jobs
    BY DEF TypeOK
  <2>2. QED
    BY <1>0, <1>2, <2>1 DEF StageInv, apiVars
<1>9. QED
  BY <1>0, <1>5, <1>6, <1>7, <1>8 DEF StageInv

\* Every step of the system preserves what the stages rest on.
LEMMA StageStep ==
  ASSUME TypeOK, Exclusive, StageInv, [Next]_vars
  PROVE  StageInv'
<1>0. \A j \in Jobs : /\ status[j] # "none" => status'[j] # "none"
                      /\ status'[j] = "pending" => status[j] \in {"pending", "none"}
  BY RowsStay
<1>1. ASSUME NEW c \in Clients, Request(c) PROVE StageInv'
  BY <1>1, RequestStage
<1>2. ASSUME NEW w \in Slots, Run(w) PROVE StageInv'
  BY <1>2, RunStage
<1>3. ASSUME NEW k \in Jobs, GiveUp(k) PROVE StageInv'
  BY <1>3 DEF GiveUp, Held, StageInv, rowVars, apiVars, slotVars
<1>4. CASE Crash
  BY <1>4 DEF Crash, StageInv, InTry, rowVars, arqVars, apiVars
<1>5. CASE SweepMark \/ SweepPurge \/ Tick \/ UNCHANGED vars
  <2>1. UNCHANGED <<arqVars, apiVars, slotVars>>
    BY <1>5 DEF SweepMark, SweepPurge, Tick, vars
  <2>2. /\ queue \subseteq Jobs
        /\ \A c \in Clients : hpc[c] = "inserted" => hjob[c] \in Jobs
        /\ \A w \in Slots : wpc[w] \in InTry => wjob[w] \in Jobs /\ wjob[w] \in queue
    BY DEF TypeOK, StageInv, InTry
  <2>3. QED
    BY <1>0, <2>1, <2>2 DEF StageInv, arqVars, apiVars, slotVars
<1>6. QED
  BY <1>1, <1>2, <1>3, <1>4, <1>5 DEF Next

-----------------------------------------------------------------------------
(* Every step is one of the life cycle                                     *)

LStep == [Lifecycle!LNext]_(Lifecycle!lvars)

\* A step that leaves the other jobs alone and drops, returns, claims or writes one.
Others(j) == \A k \in Jobs \ {j} : status'[k] = status[k] /\ StageAt(k)' = StageAt(k)
Drops(j) == status'[j] = status[j] /\ StageAt(j)' \in {StageAt(j), "out"}
Returns(j) == status'[j] = status[j] /\ StageAt(j) = "claimed" /\ StageAt(j)' = "waiting"
Claims(j) ==
  /\ status'[j] = status[j] /\ Exists(j) /\ ~Cancelled(j)
  /\ StageAt(j) = "waiting" /\ StageAt(j)' = "claimed"
Writes(j) ==
  /\ Exists(j) /\ StageAt(j) = "claimed" /\ StageAt(j)' \in {"claimed", "waiting"}
  /\ status'[j] \in {"running", "completed", "failed"}
  /\ status'[j] = "completed" => status[j] # "pending"

LEMMA OneJob ==
  ASSUME TypeOK, TypeOK', NEW j \in Jobs, Others(j),
         Drops(j) \/ Returns(j) \/ Claims(j) \/ Writes(j)
  PROVE  LStep
<1>0. /\ status' = [status EXCEPT ![j] = status'[j]]
      /\ StageMap' = [StageMap EXCEPT ![j] = StageAt(j)']
      /\ StageMap[j] = StageAt(j) /\ StageMap \in [Jobs -> {"claimed", "waiting", "out"}]
  BY DEF TypeOK, Others, StageMap, StageAt
<1>1. status'[j] = status[j] => status' = status
  BY <1>0 DEF TypeOK
<1>2. CASE Drops(j) /\ StageAt(j)' = "out"
  <2>1. StageMap' = [StageMap EXCEPT ![j] = "out"] /\ UNCHANGED status
    BY <1>0, <1>1, <1>2 DEF Drops
  <2>2. Lifecycle!Drop(j)
    BY <2>1 DEF Lifecycle!Drop, StageMap, StageAt
  <2>3. QED
    BY <2>2 DEF LStep, Lifecycle!LNext
<1>3. CASE Drops(j) /\ StageAt(j)' = StageAt(j)
  <2>1. StageMap' = StageMap /\ UNCHANGED status
    BY <1>0, <1>1, <1>3 DEF Drops
  <2>2. QED
    BY <2>1 DEF LStep, Lifecycle!lvars, StageMap, StageAt
<1>4. CASE Returns(j)
  <2>1. /\ \A k \in {j} : StageMap[k] = "claimed"
        /\ StageMap' = [k \in Jobs |-> IF k \in {j} THEN "waiting" ELSE StageMap[k]]
        /\ UNCHANGED status
    BY <1>0, <1>1, <1>4 DEF Returns
  <2>2. Lifecycle!Return({j})
    BY <2>1 DEF Lifecycle!Return, StageMap, StageAt
  <2>3. QED
    BY <2>2 DEF LStep, Lifecycle!LNext
<1>5. CASE Claims(j)
  <2>1. status[j] \in Lifecycle!Active \cup Lifecycle!Finished
    BY <1>5 DEF Claims, TypeOK, Exists, Cancelled, Status, Active, Terminal, Lifecycle!Active,
                Lifecycle!Finished
  <2>2. StageMap[j] = "waiting" /\ StageMap' = [StageMap EXCEPT ![j] = "claimed"] /\ UNCHANGED status
    BY <1>0, <1>1, <1>5 DEF Claims
  <2>3. Lifecycle!Claim(j)
    BY <2>1, <2>2 DEF Lifecycle!Claim, StageMap, StageAt
  <2>4. QED
    BY <2>3 DEF LStep, Lifecycle!LNext
<1>6. CASE Writes(j)
  <2>1. Lifecycle!Write(j, status'[j], StageAt(j)')
    BY <1>0, <1>6 DEF Lifecycle!Write, Writes, StageMap, StageAt, TypeOK, Exists
  <2>2. QED
    BY <1>6, <2>1 DEF LStep, Lifecycle!LNext, Lifecycle!Finished, Writes
<1>7. QED
  BY <1>2, <1>3, <1>4, <1>5, <1>6 DEF Drops

\* The one slot that holds a job tells whether it is claimed; held jobs are queued.
StageOfHeld ==
  \A w \in Slots : \A j \in Jobs :
    wpc[w] # "idle" /\ wjob[w] = j =>
      StageAt(j) = IF wpc[w] = "returned" THEN "waiting" ELSE "claimed"

LEMMA HeldStage == TypeOK /\ Exclusive /\ StageInv => StageOfHeld
<1> SUFFICES ASSUME TypeOK, Exclusive, StageInv,
                    NEW w \in Slots, NEW j \in Jobs, wpc[w] # "idle", wjob[w] = j
             PROVE  StageAt(j) = IF wpc[w] = "returned" THEN "waiting" ELSE "claimed"
  BY DEF StageOfHeld
<1>1. j \in queue
  BY DEF StageInv
<1>2. Claimed(j) <=> wpc[w] # "returned"
  <2>1. wpc[w] # "returned" <=> wpc[w] \in InTry \cup {"loaded", "failing"}
    BY DEF TypeOK, SlotPc, InTry
  <2>2. \A v \in Slots : wpc[v] # "idle" /\ wjob[v] = wjob[w] => v = w
    BY DEF Exclusive
  <2>3. QED
    BY <2>1, <2>2 DEF Claimed, InTry
<1>3. QED
  BY <1>1, <1>2 DEF StageAt, Awaited

\* The rest of a slot's step: it leaves the stages of other jobs alone.
LEMMA RunOthers ==
  ASSUME TypeOK, NEW w \in Slots, Run(w), NEW j \in Jobs,
         wpc[w] # "idle" => wjob[w] = j, wpc'[w] # "idle" => wjob'[w] = j,
         queue' \cup {j} = queue \cup {j}, UNCHANGED apiVars
  PROVE  Others(j)
<1> SUFFICES ASSUME NEW k \in Jobs \ {j} PROVE status'[k] = status[k] /\ StageAt(k)' = StageAt(k)
  BY DEF Others
<1>1. status'[k] = status[k]
  BY RunFrame
<1>2. Claimed(k)' <=> Claimed(k)
  BY RunFrame DEF Claimed, InTry
<1>3. Awaited(k)' <=> Awaited(k)
  <2>1. k \in queue' <=> k \in queue
    OBVIOUS
  <2>2. QED
    BY <2>1 DEF Awaited, apiVars
<1>4. QED
  BY <1>1, <1>2, <1>3 DEF StageAt

\* Every step of a slot is a step of the life cycle of its job.
LEMMA RunRefines ==
  ASSUME OutputInv, StageInv, OutputInv', StageInv', NEW w \in Slots, Run(w)
  PROVE  LStep
<1>0. TypeOK /\ Exclusive /\ TypeOK' /\ Exclusive'
  BY DEF OutputInv
<1>h. StageOfHeld /\ StageOfHeld'
  <2>1. StageOfHeld
    BY <1>0, HeldStage
  <2>2. (TypeOK /\ Exclusive /\ StageInv => StageOfHeld)'
    BY HeldStage, PTL
  <2>3. QED
    BY <1>0, <2>1, <2>2
<1>1. ASSUME NEW j \in Jobs, Pickup(w, j) PROVE LStep
  <2>1. Others(j)
    BY <1>0, <1>1, RunOthers DEF Pickup, Goto, TypeOK
  <2>2. /\ wpc'[w] = "returned" \/ (wpc'[w] = "loaded" /\ ~Skipped(j))
        /\ wjob'[w] = j /\ UNCHANGED status
    BY <1>0, <1>1 DEF Pickup, Goto, TypeOK, rowVars
  <2>3. StageAt(j) = "waiting"
    BY <1>1 DEF Pickup, Held, StageAt, Claimed, Awaited, InTry
  <2>4. StageAt(j)' = IF wpc'[w] = "returned" THEN "waiting" ELSE "claimed"
    BY <1>h, <2>2 DEF StageOfHeld
  <2>5. Drops(j) \/ Claims(j)
    BY <2>2, <2>3, <2>4 DEF Drops, Claims, Skipped
  <2>6. QED
    BY <1>0, <2>1, <2>5, OneJob
<1>2. ASSUME wpc[w] # "idle" PROVE LStep
  <2>. PICK j \in Jobs : j = wjob[w]
    BY <1>0, <1>2 DEF TypeOK
  <2>0. /\ wjob[w] = j /\ status[j] # "none"
        /\ StageAt(j) = IF wpc[w] = "returned" THEN "waiting" ELSE "claimed"
    BY <1>0, <1>2, <1>h DEF StageOfHeld, TypeOK, StageInv
  <2>1. CASE wpc'[w] # "idle" /\ wjob'[w] = j /\ UNCHANGED <<queue, apiVars>>
    <3>1. Others(j)
      BY <1>0, <2>0, <2>1, RunOthers
    <3>2. StageAt(j)' = IF wpc'[w] = "returned" THEN "waiting" ELSE "claimed"
      BY <1>h, <2>0, <2>1 DEF StageOfHeld
    <3>3. \/ status'[j] = status[j]
          \/ /\ Exists(j) /\ wpc[w] # "returned"
             /\ status'[j] \in {"running", "completed", "failed"}
             /\ status'[j] = "completed" => status[j] = "completed" \/ wpc[w] = "closing"
      <4>1. CASE UNCHANGED status
        BY <4>1
      <4>2. CASE SetRunning(j) /\ wpc[w] = "loaded"
        BY <1>0, <2>0, <4>2 DEF TypeOK, SetRunning, Exists, rowVars
      <4>3. CASE SetFinished(j, "failed") /\ wpc[w] # "returned"
        BY <1>0, <2>0, <4>3 DEF TypeOK, SetFinished, Exists, rowVars
      <4>4. CASE SetFinished(j, "completed") /\ wpc[w] = "closing"
        BY <1>0, <2>0, <4>4 DEF TypeOK, SetFinished, Exists, rowVars
      <4>5. \/ UNCHANGED status
            \/ SetRunning(j) /\ wpc[w] = "loaded"
            \/ SetFinished(j, "failed") /\ wpc[w] # "returned"
            \/ SetFinished(j, "completed") /\ wpc[w] = "closing"
        BY <2>0 DEF Run, Pickup, NoDatasink, MarkRunning, Setup, Batch, CheckCancelled, Finalise, Decide,
               Complete, SinkRaises, DbRaises, Fail, FailRaises, Release, JobTimeout, Heartbeat, rowVars
      <4>6. QED
        BY <4>1, <4>2, <4>3, <4>4, <4>5
    <3>4. wpc[w] = "closing" => status[j] # "pending"
      BY <2>0 DEF StageInv, InTry
    <3>5. wpc[w] = "returned" => UNCHANGED status /\ wpc'[w] = "returned"
      BY <1>0, <1>2, <2>1 DEF TypeOK, Run, Pickup, NoDatasink, MarkRunning, Setup, Batch,
             CheckCancelled, Finalise, LoopLeft, Decide, Complete, SinkRaises, DbRaises, Fail, FailRaises,
             Release, JobTimeout, Free, Goto, InTry
    <3>6. Drops(j) \/ Returns(j) \/ Writes(j)
      BY <2>0, <3>2, <3>3, <3>4, <3>5 DEF Drops, Returns, Writes
    <3>7. QED
      BY <1>0, <2>0, <3>1, <3>6, OneJob
  <2>2. CASE Release(w) \/ JobTimeout(w)
    <3>1. /\ wpc'[w] = "idle" /\ queue' = queue \ {j} /\ UNCHANGED <<status, apiVars>>
      BY <1>0, <2>2 DEF Release, JobTimeout, Free, Goto, TypeOK, rowVars
    <3>2. Others(j)
      BY <1>0, <1>2, <2>0, <3>1, RunOthers
    <3>3. ~Claimed(j)'
      BY <1>0, <1>2, <2>0, <3>1, RunFrame DEF Claimed, Exclusive, InTry
    <3>4. Drops(j) \/ Returns(j)
      BY <2>0, <3>1, <3>3 DEF Drops, Returns, StageAt
    <3>5. QED
      BY <1>0, <2>0, <3>2, <3>4, OneJob
  <2>3. CASE ~(Release(w) \/ JobTimeout(w))
    <3>1. wjob' = wjob /\ UNCHANGED <<queue, apiVars>>
      BY <1>2, <2>3 DEF Run, Pickup, NoDatasink, MarkRunning, Setup, Batch, CheckCancelled, Finalise,
             Decide, Complete, SinkRaises, DbRaises, Fail, FailRaises, arqVars
    <3>2. wpc'[w] # "idle"
      BY <1>0, <1>2, <2>3 DEF TypeOK, Run, Pickup, NoDatasink, MarkRunning, Setup, Batch, CheckCancelled,
             Finalise, Decide, Complete, SinkRaises, DbRaises, Fail, FailRaises, Goto
    <3>3. QED
      BY <2>1, <3>1, <3>2
  <2>4. QED
    BY <2>2, <2>3
<1>3. QED
  <2>1. wpc[w] = "idle" => \E j \in Jobs : Pickup(w, j)
    BY DEF Run, NoDatasink, MarkRunning, Setup, Batch, CheckCancelled, Finalise, LoopLeft, Decide,
           Complete, SinkRaises, DbRaises, Fail, FailRaises, Release, JobTimeout, InTry
  <2>2. QED
    BY <1>1, <1>2, <2>1

\* The stages depend on the queue, the slots and the requests about to enqueue.
LEMMA SameStages ==
  ASSUME UNCHANGED <<queue, wpc, wjob>>,
         \A c \in Clients :
           /\ hpc'[c] = "inserted" <=> hpc[c] = "inserted"
           /\ hpc[c] = "inserted" => hjob'[c] = hjob[c]
  PROVE  StageMap' = StageMap
<1>1. ASSUME NEW j \in Jobs PROVE (Claimed(j)' <=> Claimed(j)) /\ (Awaited(j)' <=> Awaited(j))
  BY DEF Claimed, Awaited
<1>2. QED
  BY <1>1 DEF StageMap, StageAt

\* Every step of a handler is a step of the life cycle.
LEMMA RequestRefines ==
  ASSUME TypeOK, StageInv, TypeOK', NEW c \in Clients, Request(c)
  PROVE  LStep
<1> USE DEF rowVars, apiVars, arqVars, slotVars
<1>1. ASSUME Admit(c), hpc[c] # "inserted" PROVE LStep
  <2> DEFINE S == Expired(OrgOf[c])
  <2>1. StageMap' = StageMap
    BY <1>1, SameStages DEF Admit, TypeOK
  <2>2. S \in SUBSET Jobs /\ \A j \in S : status[j] \in {"pending", "running"}
    BY DEF Expired, RowsOf, NoHeartbeat, NeverStarted
  <2>3. status' = [j \in Jobs |-> IF j \in S THEN "failed" ELSE status[j]]
    BY <1>1 DEF Admit, CountActive
  <2>4. Lifecycle!Expire(S)
    BY <2>1, <2>2, <2>3 DEF Lifecycle!Expire, Lifecycle!Active, StageMap, StageAt
  <2>5. QED
    BY <2>2, <2>4 DEF LStep, Lifecycle!LNext
<1>2. CASE (\E j \in Jobs : RetryRead(c, j)) \/ QueueUnreachable(c)
  <2>1. StageMap' = StageMap /\ UNCHANGED status
    BY <1>2, SameStages DEF RetryRead, QueueUnreachable, TypeOK
  <2>2. QED
    BY <2>1 DEF LStep, Lifecycle!lvars, StageMap, StageAt
<1>3. ASSUME NEW j \in Jobs, Insert(c, j) PROVE LStep
  <2>1. ~Claimed(j)
    BY <1>3 DEF Claimed, StageInv, Insert, InTry
  <2>2. StageAt(j)' = "waiting"
    BY <1>3, <2>1 DEF Insert, StageAt, Claimed, Awaited, TypeOK
  <2>3. ASSUME NEW k \in Jobs \ {j} PROVE StageAt(k)' = StageAt(k)
    <3>1. Claimed(k)' <=> Claimed(k)
      BY <1>3 DEF Claimed, Insert
    <3>2. Awaited(k)' <=> Awaited(k)
      BY <1>3 DEF Awaited, Insert, TypeOK
    <3>3. QED
      BY <3>1, <3>2 DEF StageAt
  <2>4. StageMap' = [StageMap EXCEPT ![j] = "waiting"]
    BY <2>2, <2>3 DEF StageMap
  <2>5. status[j] = "none" /\ status' = [status EXCEPT ![j] = "pending"]
    BY <1>3 DEF Insert
  <2>6. Lifecycle!Submit(j)
    BY <2>4, <2>5 DEF Lifecycle!Submit, StageMap, StageAt
  <2>7. QED
    BY <2>6 DEF LStep, Lifecycle!LNext
<1>4. CASE Enqueue(c) \/ EnqueueFails(c)
  <2>. PICK j \in Jobs : j = hjob[c]
    BY <1>4 DEF TypeOK, Enqueue, EnqueueFails
  <2>1. /\ hpc[c] = "inserted" /\ queue' \in {queue, queue \cup {j}} /\ UNCHANGED <<status, wpc, wjob>>
        /\ hpc' = [hpc EXCEPT ![c] = "idle"] /\ hjob' = [hjob EXCEPT ![c] = NULL]
    BY <1>4 DEF Enqueue, EnqueueFails, EndRequest
  <2>2. \A k \in Jobs : Claimed(k)' <=> Claimed(k)
    BY <2>1 DEF Claimed
  <2>3. \A k \in Jobs \ {j} : Awaited(k)' <=> Awaited(k)
    BY <2>1 DEF Awaited, TypeOK
  <2>4. Others(j)
    BY <2>1, <2>2, <2>3 DEF Others, StageAt
  <2>5. Awaited(j)
    BY <2>1 DEF Awaited
  <2>6. Drops(j)
    BY <2>1, <2>2, <2>5 DEF Drops, StageAt
  <2>7. QED
    BY <2>4, <2>6, OneJob
<1>5. ASSUME NEW j \in Jobs, Cancel(c, j) PROVE LStep
  <2>1. StageMap' = StageMap
    BY <1>5, SameStages DEF Cancel
  <2>2. Lifecycle!CancelJob(j)
    BY <1>5, <2>1 DEF Lifecycle!CancelJob, Lifecycle!Active, Active, Cancel, StageMap, StageAt
  <2>3. QED
    BY <2>2 DEF LStep, Lifecycle!LNext
<1>6. QED
  BY <1>1, <1>2, <1>3, <1>4, <1>5 DEF Request, CreateCheck, RetryCheck

\* So is every step of the queue, the sweep and the clock, and a crash.
LEMMA DaemonRefines ==
  ASSUME OutputInv, StageInv, TypeOK',
         (\E j \in Jobs : GiveUp(j)) \/ Crash \/ SweepMark \/ SweepPurge \/ Tick \/ UNCHANGED vars
  PROVE  LStep
<1> USE DEF rowVars, apiVars, arqVars, slotVars
<1>0. TypeOK
  BY DEF OutputInv
<1>1. ASSUME NEW j \in Jobs, GiveUp(j) PROVE LStep
  <2>1. \A k \in Jobs : Claimed(k)' <=> Claimed(k)
    BY <1>1 DEF Claimed, GiveUp
  <2>2. \A k \in Jobs \ {j} : Awaited(k)' <=> Awaited(k)
    BY <1>1 DEF Awaited, GiveUp
  <2>3. Others(j)
    BY <1>1, <2>1, <2>2 DEF Others, StageAt, GiveUp
  <2>4. ~Claimed(j) /\ Awaited(j)
    BY <1>1 DEF GiveUp, Held, Claimed, Awaited, InTry
  <2>5. Drops(j)
    BY <1>1, <2>1, <2>4 DEF Drops, StageAt, GiveUp
  <2>6. QED
    BY <1>0, <2>3, <2>5, OneJob
<1>2. CASE Crash
  <2> DEFINE S == {j \in Jobs : Claimed(j)}
  <2>1. \A j \in Jobs : ~Claimed(j)' /\ (Awaited(j)' <=> Awaited(j))
    BY <1>2 DEF Crash, Claimed, Awaited, InTry
  <2>2. \A j \in S : Awaited(j)
    BY DEF Claimed, Awaited, StageInv, InTry
  <2>3. StageMap' = [j \in Jobs |-> IF j \in S THEN "waiting" ELSE StageMap[j]]
    BY <2>1, <2>2 DEF StageMap, StageAt
  <2>4. \A j \in S : StageMap[j] = "claimed"
    BY DEF StageMap, StageAt
  <2>5. UNCHANGED status
    BY <1>2 DEF Crash
  <2>6. Lifecycle!Return(S)
    BY <2>3, <2>4, <2>5 DEF Lifecycle!Return, StageMap, StageAt
  <2>7. S \in SUBSET Jobs
    OBVIOUS
  <2>8. QED
    BY <2>6, <2>7 DEF LStep, Lifecycle!LNext
<1>3. ASSUME SweepMark \/ SweepPurge \/ Tick \/ UNCHANGED vars PROVE StageMap' = StageMap
  BY <1>3, SameStages DEF SweepMark, SweepPurge, Tick, vars
<1>4. CASE SweepMark
  <2> DEFINE S == {j \in Jobs : Stale(j)}
  <2>1. status' = [j \in Jobs |-> IF j \in S THEN "failed" ELSE status[j]]
    BY <1>4 DEF SweepMark
  <2>2. S \in SUBSET Jobs /\ \A j \in S : status[j] = "running"
    BY DEF Stale
  <2>3. Lifecycle!Expire(S)
    BY <1>3, <1>4, <2>1, <2>2 DEF Lifecycle!Expire, Lifecycle!Active, StageMap, StageAt
  <2>4. QED
    BY <2>2, <2>3 DEF LStep, Lifecycle!LNext
<1>5. CASE SweepPurge
  <2> DEFINE S == {j \in Jobs : Outlived(j)}
  <2>1. status' = [j \in Jobs |-> IF j \in S THEN "purged" ELSE status[j]]
    BY <1>5 DEF SweepPurge
  <2>2. S \in SUBSET Jobs /\ \A j \in S : status[j] \in {"completed", "failed"}
    BY DEF Outlived
  <2>3. Lifecycle!Purge(S)
    BY <1>3, <1>5, <2>1, <2>2 DEF Lifecycle!Purge, Lifecycle!Finished, StageMap, StageAt
  <2>4. QED
    BY <2>2, <2>3 DEF LStep, Lifecycle!LNext
<1>6. CASE Tick \/ UNCHANGED vars
  <2>1. UNCHANGED status
    BY <1>6 DEF Tick, vars
  <2>2. QED
    BY <1>3, <1>6, <2>1 DEF LStep, Lifecycle!lvars, StageMap, StageAt
<1>7. QED
  BY <1>1, <1>2, <1>4, <1>5, <1>6

-----------------------------------------------------------------------------
(* The theorems                                                            *)

LEMMA StageStepRefines ==
  ASSUME OutputInv, StageInv, OutputInv', StageInv', [Next]_vars
  PROVE  LStep
<1>1. TypeOK /\ TypeOK'
  BY DEF OutputInv
<1>2. QED
  BY <1>1, RequestRefines, RunRefines, DaemonRefines DEF Next

\* What one step of the life cycle may do to a job that is not claimed: a cancelled
\* one stays cancelled and unclaimed, a finished one that is out is at most purged.
Unclaimed(j) ==
  /\ status[j] = "cancelled" /\ StageAt(j) # "claimed"
       => status'[j] = "cancelled" /\ StageAt(j)' # "claimed"
  /\ status[j] \in Terminal /\ StageAt(j) = "out" => status'[j] \in {status[j], "purged"}

LEMMA LifecycleKeeps ==
  ASSUME TypeOK, LStep, NEW j \in Jobs
  PROVE  Unclaimed(j)
<1>0. StageMap \in [Jobs -> {"claimed", "waiting", "out"}] /\ StageMap[j] = StageAt(j)
      /\ StageMap'[j] = StageAt(j)'
  BY DEF StageMap, StageAt
<1>1. ASSUME NEW k \in Jobs, Lifecycle!Submit(k) PROVE Unclaimed(j)
  <2>1. /\ status[k] = "none" /\ status' = [status EXCEPT ![k] = "pending"]
        /\ StageMap' = [StageMap EXCEPT ![k] = "waiting"]
    BY <1>1 DEF Lifecycle!Submit, StageMap, StageAt
  <2>2. QED
    BY <1>0, <2>1 DEF Unclaimed, TypeOK, Terminal
<1>2. ASSUME NEW k \in Jobs, Lifecycle!Claim(k) PROVE Unclaimed(j)
  <2>1. /\ status[k] # "cancelled" /\ UNCHANGED status
        /\ StageMap' = [StageMap EXCEPT ![k] = "claimed"]
    BY <1>2 DEF Lifecycle!Claim, Lifecycle!Active, Lifecycle!Finished, StageMap, StageAt
  <2>2. QED
    BY <1>0, <2>1 DEF Unclaimed
<1>3. ASSUME NEW k \in Jobs, Lifecycle!Drop(k) PROVE Unclaimed(j)
  <2>1. StageMap' = [StageMap EXCEPT ![k] = "out"] /\ UNCHANGED status
    BY <1>3 DEF Lifecycle!Drop, StageMap, StageAt
  <2>2. QED
    BY <1>0, <2>1 DEF Unclaimed
<1>4. ASSUME NEW k \in Jobs, Lifecycle!CancelJob(k) PROVE Unclaimed(j)
  <2>1. /\ status[k] \in {"pending", "running"} /\ status' = [status EXCEPT ![k] = "cancelled"]
        /\ StageMap' = StageMap
    BY <1>4 DEF Lifecycle!CancelJob, Lifecycle!Active, StageMap, StageAt
  <2>2. QED
    BY <1>0, <2>1 DEF Unclaimed, TypeOK, Terminal
<1>5. ASSUME NEW k \in Jobs, NEW s, NEW t, Lifecycle!Write(k, s, t) PROVE Unclaimed(j)
  <2>1. /\ StageMap[k] = "claimed" /\ status' = [status EXCEPT ![k] = s]
        /\ StageMap' = [StageMap EXCEPT ![k] = t]
    BY <1>5 DEF Lifecycle!Write, StageMap, StageAt
  <2>2. QED
    BY <1>0, <2>1 DEF Unclaimed, TypeOK
<1>6. ASSUME NEW S \in SUBSET Jobs, Lifecycle!Return(S) PROVE Unclaimed(j)
  <2>1. /\ StageMap' = [k \in Jobs |-> IF k \in S THEN "waiting" ELSE StageMap[k]]
        /\ UNCHANGED status
    BY <1>6 DEF Lifecycle!Return, StageMap, StageAt
  <2>2. QED
    BY <1>0, <2>1 DEF Unclaimed
<1>7. ASSUME NEW S \in SUBSET Jobs, Lifecycle!Expire(S) PROVE Unclaimed(j)
  <2>1. /\ \A k \in S : status[k] \in {"pending", "running"}
        /\ status' = [k \in Jobs |-> IF k \in S THEN "failed" ELSE status[k]]
        /\ StageMap' = StageMap
    BY <1>7 DEF Lifecycle!Expire, Lifecycle!Active, StageMap, StageAt
  <2>2. QED
    BY <1>0, <2>1 DEF Unclaimed, Terminal
<1>8. ASSUME NEW S \in SUBSET Jobs, Lifecycle!Purge(S) PROVE Unclaimed(j)
  <2>1. /\ \A k \in S : status[k] \in {"completed", "failed"}
        /\ status' = [k \in Jobs |-> IF k \in S THEN "purged" ELSE status[k]]
        /\ StageMap' = StageMap
    BY <1>8 DEF Lifecycle!Purge, Lifecycle!Finished, StageMap, StageAt
  <2>2. QED
    BY <1>0, <2>1 DEF Unclaimed
<1>9. CASE UNCHANGED Lifecycle!lvars
  <2>1. StageMap' = StageMap /\ UNCHANGED status
    BY <1>9 DEF Lifecycle!lvars, StageMap, StageAt
  <2>2. QED
    BY <1>0, <2>1 DEF Unclaimed
<1>10. QED
  BY <1>1, <1>2, <1>3, <1>4, <1>5, <1>6, <1>7, <1>8, <1>9 DEF LStep, Lifecycle!LNext

\* ExportJobs implements JobLifecycle: whatever handlers, queue, slots, sweep and
\* crashes do to a job is a step of its life cycle, or none.
THEOREM LifecycleImplemented == Spec => ImplementsLifecycle
<1>1. Init => OutputInv /\ StageInv
  BY OutputInit, StageInit
<1>2. OutputInv /\ StageInv /\ [Next]_vars => OutputInv' /\ StageInv'
  BY OutputStep, StageStep DEF OutputInv
<1>3. Init => Lifecycle!LInit
  BY DEF Init, Lifecycle!LInit, Claimed, Awaited, InTry
<1>4. OutputInv /\ StageInv /\ OutputInv' /\ StageInv' /\ [Next]_vars
        => [Lifecycle!LNext]_(Lifecycle!lvars)
  BY StageStepRefines DEF LStep
<1>5. QED
  BY <1>1, <1>2, <1>3, <1>4, PTL DEF Spec, ImplementsLifecycle, Lifecycle!LSpec

\* CancelHonoured: no delivery, however late or often repeated, takes up a job that
\* was cancelled before a worker had it.
THEOREM CancelHolds == Spec => CancelHonoured
<1>1. Init => OutputInv /\ StageInv
  BY OutputInit, StageInit
<1>2. OutputInv /\ StageInv /\ [Next]_vars => OutputInv' /\ StageInv'
  BY OutputStep, StageStep DEF OutputInv
<1> DEFINE Honoured ==
      \A j \in Jobs :
        status[j] = "cancelled" /\ ~Claimed(j) => status'[j] = "cancelled" /\ ~Claimed(j)'
<1>3. OutputInv /\ StageInv /\ OutputInv' /\ StageInv' /\ [Next]_vars => [Honoured]_vars
  <2> SUFFICES ASSUME OutputInv, StageInv, OutputInv', StageInv', [Next]_vars, NEW j \in Jobs,
                      status[j] = "cancelled", ~Claimed(j)
               PROVE  status'[j] = "cancelled" /\ ~Claimed(j)'
    OBVIOUS
  <2>1. Unclaimed(j)
    BY StageStepRefines, LifecycleKeeps DEF OutputInv
  <2>2. QED
    BY <2>1 DEF Unclaimed, StageAt
<1>4. QED
  BY <1>1, <1>2, <1>3, PTL DEF Spec, CancelHonoured

\* SettledIsFinal: a terminal status of a job that the queue has finished with is
\* final, whatever sweeps, retries and the runs of other jobs do.
THEOREM SettledHolds == Spec => SettledIsFinal
<1>1. Init => OutputInv /\ StageInv
  BY OutputInit, StageInit
<1>2. OutputInv /\ StageInv /\ [Next]_vars => OutputInv' /\ StageInv'
  BY OutputStep, StageStep DEF OutputInv
<1> DEFINE Final ==
      \A j \in Jobs :
        status[j] \in Terminal /\ ~Claimed(j) /\ ~Awaited(j)
          => status'[j] \in {status[j], "purged"}
<1>3. OutputInv /\ StageInv /\ OutputInv' /\ StageInv' /\ [Next]_vars => [Final]_vars
  <2> SUFFICES ASSUME OutputInv, StageInv, OutputInv', StageInv', [Next]_vars, NEW j \in Jobs,
                      status[j] \in Terminal, ~Claimed(j), ~Awaited(j)
               PROVE  status'[j] \in {status[j], "purged"}
    OBVIOUS
  <2>1. Unclaimed(j)
    BY StageStepRefines, LifecycleKeeps DEF OutputInv
  <2>2. QED
    BY <2>1 DEF Unclaimed, StageAt
<1>4. QED
  BY <1>1, <1>2, <1>3, PTL DEF Spec, SettledIsFinal
=============================================================================
