---------------------------- MODULE JobLifecycle ----------------------------
(***************************************************************************)
(* What the rest of the system may rely on about one export job, without   *)
(* handlers, queues, slots or clocks: which statuses may follow one        *)
(* another, and who may write them.                                        *)
(*                                                                         *)
(* The status diagram of the documentation is a line from pending to       *)
(* a terminal status. The code promises less: no write of the worker looks *)
(* at the status it replaces. What it does promise hangs on the stage of   *)
(* the job: "waiting" while the queue (or the request about to enqueue it) *)
(* has it, "claimed" while a worker runs it, "out" otherwise. Only a       *)
(* claimed job can leave a terminal status, and a cancelled job cannot     *)
(* become claimed.                                                         *)
(***************************************************************************)
CONSTANT Jobs
VARIABLES status, stage

lvars == <<status, stage>>

Active   == {"pending", "running"}
Finished == {"completed", "failed"}
Terminal == Finished \cup {"cancelled"}
Status   == Active \cup Terminal \cup {"none", "purged"}
Stage    == {"out", "waiting", "claimed"}

LTypeOK == status \in [Jobs -> Status] /\ stage \in [Jobs -> Stage]

LInit ==
  /\ status = [j \in Jobs |-> "none"]
  /\ stage = [j \in Jobs |-> "out"]

Submit(j) ==
  /\ status[j] = "none"
  /\ status' = [status EXCEPT ![j] = "pending"]
  /\ stage' = [stage EXCEPT ![j] = "waiting"]

\* A worker takes the job, whatever its status, unless it is cancelled or gone.
Claim(j) ==
  /\ stage[j] = "waiting"
  /\ status[j] \in Active \cup Finished
  /\ stage' = [stage EXCEPT ![j] = "claimed"]
  /\ UNCHANGED status

\* The worker writes over any status, except that a completed job has been
\* running: a pending one does not become completed. With its last write the
\* worker gives the job back.
Write(j, s, t) ==
  /\ stage[j] = "claimed"
  /\ status[j] \notin {"none", "purged"}
  /\ s = "completed" => status[j] # "pending"
  /\ status' = [status EXCEPT ![j] = s]
  /\ stage' = [stage EXCEPT ![j] = t]

\* Workers give jobs back without a write: cancelled, crashed, or gone wrong.
Return(S) ==
  /\ \A j \in S : stage[j] = "claimed"
  /\ stage' = [j \in Jobs |-> IF j \in S THEN "waiting" ELSE stage[j]]
  /\ UNCHANGED status

\* The queue has finished with the job, or never got it.
Drop(j) ==
  /\ stage' = [stage EXCEPT ![j] = "out"]
  /\ UNCHANGED status

CancelJob(j) ==
  /\ status[j] \in Active
  /\ status' = [status EXCEPT ![j] = "cancelled"]
  /\ UNCHANGED stage

Expire(S) ==
  /\ \A j \in S : status[j] \in Active
  /\ status' = [j \in Jobs |-> IF j \in S THEN "failed" ELSE status[j]]
  /\ UNCHANGED stage

Purge(S) ==
  /\ \A j \in S : status[j] \in Finished
  /\ status' = [j \in Jobs |-> IF j \in S THEN "purged" ELSE status[j]]
  /\ UNCHANGED stage

LNext ==
  \/ \E j \in Jobs : Submit(j) \/ Claim(j) \/ Drop(j) \/ CancelJob(j)
  \/ \E j \in Jobs, s \in {"running"} \cup Finished, t \in {"claimed", "waiting"} : Write(j, s, t)
  \/ \E S \in SUBSET Jobs : Return(S) \/ Expire(S) \/ Purge(S)

LSpec == LInit /\ [][LNext]_lvars
=============================================================================
