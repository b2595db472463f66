------------------------------ MODULE MCBatch ------------------------------
(***************************************************************************)
(* Small instances of the benchmark batches for TLC.                       *)
(***************************************************************************)
EXTENDS BatchRunner, TLC

(* Processes are alike, as are batches that were not started. *)
MCSymmetry == Permutations(Processes) \union Permutations(Batches)
=============================================================================
