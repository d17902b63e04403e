--------------------------- MODULE MCWriteBehind ---------------------------
(* Names for the instances of the write-behind engine. *)
EXTENDS WriteBehind

CONSTANTS k1, k2, a, b, w
=============================================================================
