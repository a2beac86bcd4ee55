---------------------------- MODULE MCAdapters ----------------------------
(* PlatformAdapters for TLC. Liveness is checked, so there is no symmetry. *)
EXTENDS PlatformAdapters
=============================================================================
