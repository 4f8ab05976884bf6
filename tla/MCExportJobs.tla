---------------------------- MODULE MCExportJobs ----------------------------
(* Constants of the small instances of ExportJobs that TLC checks.         *)
EXTENDS ExportJobs, TLC

CONSTANTS c1, c2

\* Two clients of one org; the second is an administrator of it.
OneOrg == [c \in Clients |-> "org"]
UserAndAdmin == [c \in Clients |-> IF c = c1 THEN "user" ELSE "org_admin"]

Interchangeable == Permutations(Jobs) \cup Permutations(Slots)
=============================================================================
