------------------------------- MODULE MCPost -------------------------------
(* Model values of PostSafety for TLC; the .cfg files choose the bounds. *)
EXTENDS PostSafety, TLC

Symmetry == Permutations(Jobs) \cup Permutations(Sessions)
=============================================================================
