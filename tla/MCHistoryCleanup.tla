---- MODULE MCHistoryCleanup ----
(***************************************************************************)
(* Instances of HistoryCleanup for TLC.                                    *)
(***************************************************************************)
EXTENDS HistoryCleanup, TLC

CONSTANTS b1, b2, b3

AllBatches == [b \in Batches |-> "batch"]
WorkerSymmetry == Permutations(Workers)

ByName == (b1 :> 1) @@ (b2 :> 2) @@ (b3 :> 3)

====
