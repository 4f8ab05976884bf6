--------------------------- MODULE MCExportQuota ---------------------------
(* Constants of the small instance of ExportQuota that TLC checks.         *)
EXTENDS ExportQuota, TLC

CONSTANTS c1, c2

\* Two clients of one org; the second is an administrator of it.
OneOrg == [c \in Clients |-> "org"]
UserAndAdmin == [c \in Clients |-> IF c = c1 THEN "user" ELSE "org_admin"]

Interchangeable == Permutations(Jobs) \cup Permutations(Slots)
=============================================================================
