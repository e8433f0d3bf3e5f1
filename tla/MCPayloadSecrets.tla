---- MODULE MCPayloadSecrets ----
(***************************************************************************)
(* Instances of PayloadSecrets for TLC.                                    *)
(***************************************************************************)
EXTENDS PayloadSecrets, TLC

Symmetry == Permutations(Batches) \cup Permutations(Collectors)

====
