---------------------------- MODULE MCAccounts ----------------------------
(* AccountConnection for TLC. Attempts and requests are interchangeable.   *)
EXTENDS AccountConnection, TLC

Symmetry == Permutations(Attempts) \cup Permutations(Requests)
===========================================================================
