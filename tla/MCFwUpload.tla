----------------------------- MODULE MCFwUpload -----------------------------
(* Fault budgets for the runs of FwUpload.                                  *)
EXTENDS FwUpload

OnceGarbled == [k \in FaultKinds |-> 1]
=============================================================================
