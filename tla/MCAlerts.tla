------------------------------ MODULE MCAlerts ------------------------------
(* FailureAlerts for TLC. Liveness is checked, so there is no symmetry.    *)
EXTENDS FailureAlerts
=============================================================================
