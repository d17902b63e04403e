--------------------------- MODULE MCTwoTierCache ---------------------------
(* Two clients share k1; one of them also uses k2, which evicts k1 from L1. *)
EXTENDS TwoTierCache

CONSTANTS k1, k2, a, b, w

SharedUses == [t \in Clients |-> IF t = a THEN {k1, k2} ELSE {k1}]
=============================================================================
