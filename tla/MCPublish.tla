------------------------------ MODULE MCPublish ------------------------------
(* Model values of PublishSafety for TLC; the .cfg files choose the bounds. *)
EXTENDS PublishInvariant, TLC

Symmetry == Permutations(Workers)
=============================================================================
