---- MODULE MCBatchWatcher ----
(***************************************************************************)
(* Instances of BatchWatcher for TLC.                                      *)
(***************************************************************************)
EXTENDS BatchWatcher, TLC

Symmetry == Permutations(Jobs)

====
