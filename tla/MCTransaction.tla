--------------------------- MODULE MCTransaction ---------------------------
(* Names for the transaction runs. *)
EXTENDS Transaction, TLC

CONSTANTS k1, k2, a, b

\* Threads are interchangeable; keys are not, one of them may be deleted.
Interchangeable == Permutations({a, b})
=============================================================================
