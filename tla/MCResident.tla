----------------------------- MODULE MCResident -----------------------------
(* Other resident programs for the model-checking runs of Resident.        *)
EXTENDS Resident, TLC

CONSTANTS P, Q

(* One hooks the timer and the multiplex interrupt, the other DOS-idle.    *)
SomePrograms == {P, Q}
SomeHooks == P :> {"int08", "int2f"} @@ Q :> {"int28"}
=============================================================================
