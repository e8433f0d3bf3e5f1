---- MODULE JobStatuses ----
(***************************************************************************)
(* The statuses that the API and the webhook report for a RadixBatch and   *)
(* for its jobs, and the names they report them under.                     *)
(*                                                                         *)
(* A name is the sequence of its parts between the dashes.  The operator   *)
(* writes the status of a job, a phase and the phases of its pods, some    *)
(* time after the job was created: status is a partial function on jobs.   *)
(***************************************************************************)
EXTENDS Naturals, Sequences, SequencesExt

\* The BatchStatusRules of the job component: in each a condition (Any or All),
\* an operator (In or NotIn), a set of phases, and the status of the batch.
CONSTANT Rules

ASSUME RulesAssumption ==
  Rules \in Seq([condition : {"Any", "All"}, operator : {"In", "NotIn"},
                 phases : SUBSET STRING, status : STRING])

(***************************************************************************)
(* Names.                                                                  *)
(***************************************************************************)
FullName(b, j) == Append(b, j)

\* Whether a name can be split into that of a batch and that of a job, and how.
Composed(n) == Len(n) >= 2

\* (A slip to test the properties with: the name is split at its first dash.)
FirstPart(n) == <<Head(n)>>

BatchPart(n) == Front(n)
JobPart(n) == Last(n)

(***************************************************************************)
(* The status of a job.                                                    *)
(***************************************************************************)
Unfinished == {"Waiting", "Active", "Running"}

PhaseOf(s) == IF s.phase = "" THEN "Waiting" ELSE s.phase

\* (A slip: a job that waits is not counted as stopping.)
ScheduledUnlessWaiting(s, stop) ==
  LET stopping == stop /\ PhaseOf(s) \in {"Active", "Running"}
  IN  CASE stopping -> "Stopping"
        [] ~stopping /\ s.pods = {"Failed"} -> "Failed"
        [] OTHER -> PhaseOf(s)

\* The phase, unless the job is stopping or all its pods have failed.
ScheduledJobStatus(s, stop) ==
  LET stopping == stop /\ PhaseOf(s) \in Unfinished
  IN  CASE stopping -> "Stopping"
        [] ~stopping /\ s.pods = {"Failed"} -> "Failed"
        [] OTHER -> PhaseOf(s)

\* A job that the operator has not looked at waits.
Unseen == [phase |-> "Waiting", pods |-> {}]
StatusOf(o, j) == IF j \in DOMAIN o.status THEN o.status[j] ELSE Unseen

JobStatus(o, j) == ScheduledJobStatus(StatusOf(o, j), j \in o.stop)

(***************************************************************************)
(* The status of a batch.                                                  *)
(***************************************************************************)
JobPhases(o) == {o.status[j].phase : j \in DOMAIN o.status}

EvaluateCondition(phase, rule) ==
  \/ rule.operator = "NotIn" /\ phase \notin rule.phases
  \/ rule.operator = "In" /\ phase \in rule.phases

\* (A slip: a rule about all jobs does not hold of a batch without statuses.)
RuleHoldsOfSome(rule, phases) ==
  \/ rule.condition = "Any" /\ \E p \in phases : EvaluateCondition(p, rule)
  \/ rule.condition = "All" /\ phases # {} /\ \A p \in phases : EvaluateCondition(p, rule)

RuleHolds(rule, phases) ==
  \/ rule.condition = "Any" /\ \E p \in phases : EvaluateCondition(p, rule)
  \/ rule.condition = "All" /\ \A p \in phases : EvaluateCondition(p, rule)

\* The first rule that holds decides.
StatusFromRules(phases, default) ==
  LET i == SelectInSeq(Rules, LAMBDA rule : RuleHolds(rule, phases))
  IN  CASE i # 0 -> Rules[i].status
        [] i = 0 /\ default # "" -> default
        [] OTHER -> "Waiting"

IsSingleJob(o) == o.type = "job" /\ \E j \in o.jobs : o.jobs = {j}

\* The status of a single job's batch is the phase of the job, stopped or not.
BatchStatus(o) ==
  CASE IsSingleJob(o) /\ DOMAIN o.status = {} -> "Waiting"
    [] IsSingleJob(o) /\ DOMAIN o.status # {} -> o.status[CHOOSE j \in DOMAIN o.status : TRUE].phase
    [] OTHER -> StatusFromRules(JobPhases(o), o.cond)

====
