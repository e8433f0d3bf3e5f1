---- MODULE AtomicStop ----
(***************************************************************************)
(* What the stop and restart functions of pkg/batch promise their callers, *)
(* with every write a single indivisible step:                             *)
(*                                                                         *)
(*  - a stop request flags, in one batch at a time, exactly the jobs it    *)
(*    asks for that are unfinished at that very moment, and nothing else   *)
(*    of the batch changes;                                                *)
(*  - a request that succeeds has dealt with every job it asked for;       *)
(*  - a request that is refused had a reason, and if it names its batch it *)
(*    changed nothing;                                                     *)
(*  - a restart withdraws the stop of its jobs and loses no other write.   *)
(***************************************************************************)
EXTENDS BatchObjects

VARIABLES
  batch,    \* the RadixBatches
  op,       \* what each request asks for
  answer,   \* "none" before it is sent, then "pending", then its result
  wrote,    \* whether a stop of the request took effect
  settled,  \* the jobs that were stopped, finished or out of reach at some
            \* moment since the request was sent
  refusable \* whether at some such moment there was a reason to refuse it

vars == <<batch, op, answer, wrote, settled, refusable>>

Answers == {"none", "pending", "ok", "refused", "error"}

\* The jobs a request has to deal with.
Owed(r) == {p \in Batches \X Jobs : Addressed(op[r], p[1]) /\ p[2] \in AddressedJobs(op[r], p[1])}

SettledNow(r) ==
  {p \in Owed(r) : LET o == batch[p[1]] IN
     \/ o.life = "gone"
     \/ p[2] \in o.stop
     \/ o.phase[p[2]] \in Finished
     \/ ~Named(op[r]) /\ o.cond \notin Stoppable}

\* A batch created after the request was sent is none of its business.
AbsentNow(r) == {p \in Owed(r) : batch[p[1]].life = "absent"}

Existing(r) == {b \in Batches : batch[b].life = "live" /\ Addressed(op[r], b)}
Unfinished(r) == {b \in Existing(r) : batch[b].cond \in Stoppable}

\* The batch it names does not exist or has finished, or the job it names does
\* not exist or has, in some batch.
RefusableNow(r) ==
  \/ Named(op[r]) /\ (Existing(r) = {} \/ Unfinished(r) # Existing(r))
  \/ op[r].job # NoName /\ \A b \in Unfinished(r) : op[r].job \notin JobsOf[b]
  \/ \E b \in Unfinished(r) :
       /\ RefusesFinished(op[r], b)
       /\ \E j \in AddressedJobs(op[r], b) : batch[b].phase[j] \in Finished

\* What every step adds to the observations of the requests under way.
Observe ==
  /\ settled' = [r \in Requests |->
       IF answer'[r] # "pending" THEN {}
       ELSE SettledNow(r)' \cup IF answer[r] = "pending" THEN settled[r] ELSE AbsentNow(r)']
  /\ refusable' = [r \in Requests |->
       /\ answer'[r] = "pending"
       /\ (answer[r] = "pending" /\ refusable[r]) \/ RefusableNow(r)']

Init ==
  /\ batch \in [Batches -> Object]
  /\ op \in [Requests -> Ops]
  /\ answer = [r \in Requests |-> "none"]
  /\ wrote = [r \in Requests |-> FALSE]
  /\ settled = [r \in Requests |-> {}]
  /\ refusable = [r \in Requests |-> FALSE]

Send(r) ==
  /\ answer[r] = "none"
  /\ answer' = [answer EXCEPT ![r] = "pending"]
  /\ UNCHANGED <<batch, op, wrote>>

StopJobs(r, b) ==
  /\ answer[r] = "pending"
  /\ Addressed(op[r], b)
  /\ batch[b].life = "live"
  /\ batch[b].cond \in Stoppable
  /\ batch' = [batch EXCEPT ![b] = WithStop(@, Targets(op[r], b, @))]
  /\ wrote' = [wrote EXCEPT ![r] = TRUE]
  /\ UNCHANGED <<op, answer>>

Answer(r, a) ==
  /\ answer[r] = "pending"
  /\ a = "ok" => Owed(r) \subseteq settled[r]
  /\ a = "refused" => refusable[r] /\ (Named(op[r]) => ~wrote[r])
  /\ answer' = [answer EXCEPT ![r] = a]
  /\ UNCHANGED <<batch, op, wrote>>

Restart(q, b, J) ==
  /\ batch[b].life = "live"
  /\ batch' = [batch EXCEPT ![b] = WithRestart(@, J, q)]
  /\ UNCHANGED <<op, answer, wrote>>

\* The operator writes statuses; users create and delete batches.
Operate(b) ==
  /\ batch[b].life = "live"
  /\ batch'[b].cond \in Conditions
  /\ batch'[b].phase \in [Jobs -> Phases]
  /\ batch' = [batch EXCEPT ![b] = [@ EXCEPT !.cond = batch'[b].cond, !.phase = batch'[b].phase]]
  /\ UNCHANGED <<op, answer, wrote>>

Create(b) ==
  /\ batch[b].life = "absent"
  /\ batch' = [batch EXCEPT ![b].life = "live"]
  /\ UNCHANGED <<op, answer, wrote>>

Delete(b) ==
  /\ batch[b].life = "live"
  /\ batch' = [batch EXCEPT ![b].life = "gone"]
  /\ UNCHANGED <<op, answer, wrote>>

Step ==
  \/ \E r \in Requests : Send(r) \/ \E a \in {"ok", "refused", "error"} : Answer(r, a)
  \/ \E r \in Requests, b \in Batches : StopJobs(r, b)
  \/ \E b \in Batches, q \in Restarters :
       Restart(q, b, JobsOf[b]) \/ \E j \in JobsOf[b] : Restart(q, b, {j})
  \/ \E b \in Batches : Operate(b) \/ Create(b) \/ Delete(b)

Next == Step /\ Observe

Spec == Init /\ [][Next]_vars

====
