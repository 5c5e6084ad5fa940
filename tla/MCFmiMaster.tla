------------------------------ MODULE MCFmiMaster ------------------------------
(* Small instances of FmiMaster.                                             *)
EXTENDS FmiMaster

Kind(time, type, priority) == [time |-> time, type |-> type, priority |-> priority]

\* Termination is Critical, the others are of the standard priority.
MCEventKinds == {Kind(0, "StepSizeChange", 2), Kind(5, "SetValue", 2),
                 Kind(3, "Terminate", 0)}
MCStepSizes == {2, 8}
MCCapacities == {1, 2}
=============================================================================
