------------------------------- MODULE MCKeys -------------------------------
(* SigningKeys for TLC; the .cfg chooses the bounds.                       *)
EXTENDS SigningKeys
=============================================================================
