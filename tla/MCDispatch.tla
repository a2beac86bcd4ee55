----------------------------- MODULE MCDispatch -----------------------------
(* OutboxDispatch for TLC. Liveness is checked, so there is no symmetry.   *)
EXTENDS OutboxDispatch
=============================================================================
