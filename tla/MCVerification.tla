--------------------------- MODULE MCVerification ---------------------------
(* Verification on a small instance: one goal, and the agents the .cfg names.  *)
EXTENDS Verification

CONSTANTS tien, hue, g1

=============================================================================
