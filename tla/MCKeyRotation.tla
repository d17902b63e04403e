--------------------------- MODULE MCKeyRotation ---------------------------
(* Names for the rotation runs. *)
EXTENDS KeyRotation

CONSTANTS k1, k2, r1, r2, c
=============================================================================
