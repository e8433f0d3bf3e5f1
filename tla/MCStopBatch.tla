---- MODULE MCStopBatch ----
(***************************************************************************)
(* Instances of StopBatch for TLC.                                         *)
(***************************************************************************)
EXTENDS StopBatch, TLC

CONSTANTS big, single, b1, b2, j1, j2

\* Batch `big` has two jobs, batch `single` is that of a single job; any request
\* may be sent.
MixedJobsOf == (big :> {j1, j2}) @@ (single :> {j1})
MixedTypeOf == (big :> "batch") @@ (single :> "job")

\* Two batches of one job each, which requests stop together.
TwoJobsOf == (b1 :> {j1}) @@ (b2 :> {j1})
TwoTypeOf == (b1 :> "batch") @@ (b2 :> "batch")
BothOps == {[type |-> {"batch"}, batch |-> NoName, job |-> NoName]}

====
