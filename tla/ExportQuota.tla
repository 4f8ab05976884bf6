---------------------------- MODULE ExportQuota ----------------------------
(***************************************************************************)
(* The quota of an org against its rows in export_jobs: ExportJobs with a  *)
(* history variable. The handlers count pending and running rows before an *)
(* insert, but the worker sets a row to running whatever its status is: a  *)
(* row that had expired, was cancelled, or was already run takes a place   *)
(* again that nobody counted.                                              *)
(***************************************************************************)
EXTENDS ExportJobs

VARIABLE revived   \* jobs that became running again after a terminal status

qvars == <<vars, revived>>

QInit == Init /\ revived = {}

Reviving == {j \in Jobs : status[j] \in Terminal /\ status'[j] = "running"}

QNext == Next /\ revived' = revived \cup Reviving

QSpec == QInit /\ [][QNext]_qvars

-----------------------------------------------------------------------------
\* The rows that have held their place since the insert, and the requests that
\* have passed the check and not inserted yet.
Standing(org) == ActiveRows(org) \ revived
ClientsOf(org) == {c \in Clients : OrgOf[c] = org}
AdmittedOf(org) == {c \in ClientsOf(org) : hpc[c] = "admitted"}

\* The quota is of pending and running rows together. It is checked in one
\* transaction and used in another, so an org exceeds it by its requests in flight
\* and, without any limit of the quota's, by revived rows; by nothing else: its other
\* active rows and its admitted requests never exceed the limit by more than the
\* number of its other clients (count_active_jobs_for_org against insert_export_job
\* and the running update). Revived rows need a slot each as long as workers
\* survive: RunningHasWorker.
OvershootBounded ==
  \A c \in Clients :
    LET org == OrgOf[c]
    IN  Cardinality(Standing(org)) + Cardinality(AdmittedOf(org))
          <= MaxActive + Cardinality(ClientsOf(org)) - 1
=============================================================================
