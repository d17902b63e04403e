---------------------------- MODULE MCSecureJson ----------------------------
(* Names for the instances; the callers are interchangeable. *)
EXTENDS SecureJson, TLC

CONSTANTS a, b

Callers == Permutations({a, b})
=============================================================================
