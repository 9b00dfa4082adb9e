------------------------------- MODULE MCTfIo -------------------------------
(***************************************************************************)
(* Fault budgets for the runs of TfIo.                                     *)
(***************************************************************************)
EXTENDS TfIo, TLC

Once(kinds) == [k \in FaultKinds |-> IF k \in kinds THEN 1 ELSE 0]

NoFaults == {Once({})}
LostCorruptCrash == {Once({"lost", "corrupt", "crash"})}
AnyOneFault == {Once({k}) : k \in FaultKinds}
Late == {Once({"late"})}

\* The names of files are interchangeable.
Symm == Permutations(Files)
=============================================================================
