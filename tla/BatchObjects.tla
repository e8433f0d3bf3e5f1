---- MODULE BatchObjects ----
(***************************************************************************)
(* The parts of a RadixBatch that stopping and restarting look at, and the *)
(* requests of the stop endpoints.                                         *)
(***************************************************************************)
EXTENDS Naturals, FiniteSets

CONSTANTS
  Batches,    \* RadixBatch names
  Jobs,       \* names of jobs within a batch
  JobsOf,     \* the jobs of each batch
  TypeOf,     \* the type label of each batch: "batch" or "job"
  Requests,   \* stop requests
  Restarters, \* callers of the restart functions
  NoName      \* the empty batch or job name

ASSUME ObjectsAssumption ==
  /\ JobsOf \in [Batches -> SUBSET Jobs]
  /\ TypeOf \in [Batches -> {"batch", "job"}]
  /\ NoName \notin Batches \cup Jobs \cup Restarters

\* A job without a status in the batch has the phase "none".
Succeeded == {"Succeeded", "Stopped"}
Finished == Succeeded \cup {"Failed"}
Phases == Finished \cup {"none", "Waiting", "Active", "Running"}

\* The empty condition is that of a batch the operator has not looked at.
Stoppable == {"", "Active", "Waiting"}
Conditions == Stoppable \cup {"Completed"}

\* "absent" is a batch to come, "gone" a deleted one.
Object == [life : {"absent", "live", "gone"},
           cond : Conditions,
           phase : [Jobs -> Phases],
           stop : SUBSET Jobs,
           restart : [Jobs -> Restarters \cup {NoName}]]

\* The stop endpoints differ in the type of the batches they list and in the
\* names they look for among them.  An empty batch or job name stands for all,
\* and either part of the name of a job to stop may be empty.  (That the names
\* are compared without regard to case is left to SchedulerApi.)
StopBatchOps == [type : {{"batch"}}, batch : Batches, job : {NoName}]
StopJobOps == [type : {{"batch", "job"}}, batch : Batches \cup {NoName}, job : Jobs \cup {NoName}]
StopAllOps == [type : {{"batch"}, {"job"}}, batch : {NoName}, job : {NoName}]
Ops == StopBatchOps \cup StopJobOps \cup StopAllOps

Named(op) == op.batch # NoName

\* The batches, and the jobs of a batch, that a request asks to stop.
Addressed(op, b) == TypeOf[b] \in op.type /\ op.batch \in {b, NoName}
AddressedJobs(op, b) == {j \in JobsOf[b] : op.job \in {j, NoName}}

\* Whether a finished job among them is refused instead of passed over.
RefusesFinished(op, b) == op.job # NoName \/ (Named(op) /\ TypeOf[b] = "job")

\* The jobs a stop request flags in a batch that looks like o.
Targets(op, b, o) == {j \in AddressedJobs(op, b) : o.phase[j] \notin Finished}

WithStop(o, J) == [o EXCEPT !.stop = @ \cup J]

\* Restarting jobs withdraws their stop and stamps them.
WithRestart(o, J, q) ==
  [o EXCEPT !.stop = @ \ J,
            !.restart = [j \in Jobs |-> IF j \in J THEN q ELSE o.restart[j]]]

====
