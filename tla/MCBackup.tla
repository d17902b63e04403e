------------------------------ MODULE MCBackup ------------------------------
(* Names for the instance: thread a uses the store, b only backs it up. *)
EXTENDS Backup

CONSTANTS a, b, k
=============================================================================
