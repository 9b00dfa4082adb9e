------------------------------ MODULE MCTfStat ------------------------------
(***************************************************************************)
(* Fault budgets for the run of TfStat.                                    *)
(***************************************************************************)
EXTENDS TfStat

Once(kinds) == [k \in FaultKinds |-> IF k \in kinds THEN 1 ELSE 0]

LostAndCorruptOrCrash == {Once({"lost", "corrupt"}), Once({"lost", "crash"})}
=============================================================================
