---- MODULE MCSchedulerApi ----
(***************************************************************************)
(* An instance of SchedulerApi for TLC: two batches and two job names, so  *)
(* that jobs of different batches have the same last part.                 *)
(***************************************************************************)
EXTENDS SchedulerApi, TLC

CONSTANTS batch, Batch, x, y, j1, j2

AllWords == {batch, Batch, x, y, j1, j2, Empty}
LowerCase == [w \in AllWords |-> IF w = Batch THEN batch ELSE w]
TwoBatches == {<<batch, x>>, <<batch, y>>}

\* Names without a dash, with empty words, and with a capital letter.
LooseNames ==
  {<<batch>>, <<Empty, Empty>>} \cup {<<Empty, j>> : j \in {j1, j2}} \cup
  {Append(b, Empty) : b \in TwoBatches} \cup {<<Batch, w>> : w \in {x, y}}

\* What with the first word of the name of a batch gives that of all its jobs.
LooseEnds == {<<w, Empty>> : w \in {x, y}}

\* A pod failed and the job goes on; the job failed; a pod failed and another runs.
Statuses ==
  {[phase |-> "Active", pods |-> {"Failed"}],
   [phase |-> "Failed", pods |-> {"Failed"}],
   [phase |-> "Running", pods |-> {"Failed", "Running"}]}

\* Each combination of condition and operator; each rule is the first to hold for
\* some batch, and none holds for one with active jobs only.  The first also
\* holds for a batch that was just created.
MixedRules ==
  <<[condition |-> "All", operator |-> "In", phases |-> {"Failed"}, status |-> "Failed"],
    [condition |-> "Any", operator |-> "In", phases |-> {"Failed"}, status |-> "Completed"],
    [condition |-> "All", operator |-> "NotIn", phases |-> {"Active"}, status |-> "Running"],
    [condition |-> "Any", operator |-> "NotIn", phases |-> {"Active"}, status |-> "Active"]>>

\* The last parts of the names of batches, and those of jobs, are alike.
Alike == Permutations({x, y}) \cup Permutations({j1, j2})

====
