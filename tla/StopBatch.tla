---- MODULE StopBatch ----
(***************************************************************************)
(* The stop and restart functions of pkg/batch against the API server.     *)
(*                                                                         *)
(* A stop request lists the batches, decides on the objects it got which   *)
(* jobs to flag, and writes each batch back with the resource version it   *)
(* was read with; meanwhile the operator moves statuses, other requests    *)
(* stop, restart, create and delete.  A conflict repeats the whole request *)
(* a bounded number of times.  AtomicStop says what its caller may rely    *)
(* on; this module implements it.                                          *)
(***************************************************************************)
EXTENDS BatchObjects

CONSTANTS
  AskedFor,           \* the requests that are sent
  Attempts,           \* Steps of retry.DefaultRetry
  MaxVersion,         \* bound on the writes of one batch by others than stop requests
  OperatorPhases,     \* the phases and ...
  OperatorConditions  \* ... conditions that the operator writes

ASSUME StopAssumption ==
  /\ IsFiniteSet(Batches)
  /\ AskedFor \subseteq Ops
  /\ Attempts \in Nat \ {0}
  /\ MaxVersion \in Nat
  /\ OperatorPhases \subseteq Phases
  /\ OperatorConditions \subseteq Conditions

VARIABLES
  batch,      \* the RadixBatches in the cluster
  version,    \* their resource versions
  op,         \* what each stop request asks for
  answer,     \* its answer
  pc,         \* where it is
  attempts,   \* attempts it has left
  copy,       \* the listed batches it has not handled yet, as they were listed
  found,      \* whether the batch it names was listed, and its job in one to stop
  failure,    \* the first API status among the errors of its updates
  held,       \* the batch a restarting caller has read, or none
  wrote, settled, refusable  \* observations of the requests (see AtomicStop)

Promise == INSTANCE AtomicStop

cluster == <<batch, version>>
request == <<pc, attempts, copy, found, failure>>
vars == <<batch, version, op, answer, pc, attempts, copy, found, failure, held,
          wrote, settled, refusable>>

NoCopy == [b \in {} |-> {}]
Read == [obj : Object, version : Nat]
Failures == {"none", "plain", "notFound", "conflict"}

TypeOK ==
  /\ batch \in [Batches -> Object]
  /\ version \in [Batches -> Nat]
  /\ op \in [Requests -> Ops]
  /\ answer \in [Requests -> Promise!Answers]
  /\ pc \in [Requests -> {"idle", "list", "visit"}]
  /\ attempts \in [Requests -> 0..Attempts]
  /\ \A r \in Requests : pc[r] # "idle" => attempts[r] > 0
  /\ DOMAIN copy = Requests
  /\ \A r \in Requests : \E B \in SUBSET Batches : copy[r] \in [B -> Read]
  /\ found \in [Requests -> BOOLEAN]
  /\ failure \in [Requests -> Failures]
  /\ DOMAIN held = Restarters
  /\ \A q \in Restarters :
       held[q] = NoName \/ held[q] \in [batch : Batches, obj : Object, version : Nat]
  /\ wrote \in [Requests -> BOOLEAN]
  /\ settled \in [Requests -> SUBSET (Batches \X Jobs)]
  /\ refusable \in [Requests -> BOOLEAN]

NewObject(life) ==
  [life |-> life, cond |-> "", phase |-> [j \in Jobs |-> "none"], stop |-> {},
   restart |-> [j \in Jobs |-> NoName]]

Init ==
  /\ \E L \in [Batches -> {"absent", "live"}] : batch = [b \in Batches |-> NewObject(L[b])]
  /\ version = [b \in Batches |-> 0]
  /\ op \in [Requests -> AskedFor]
  /\ answer = [r \in Requests |-> "none"]
  /\ pc = [r \in Requests |-> "idle"]
  /\ attempts = [r \in Requests |-> 0]
  /\ copy = [r \in Requests |-> NoCopy]
  /\ found = [r \in Requests |-> FALSE]
  /\ failure = [r \in Requests |-> "none"]
  /\ held = [q \in Restarters |-> NoName]
  /\ wrote = [r \in Requests |-> FALSE]
  /\ settled = [r \in Requests |-> {}]
  /\ refusable = [r \in Requests |-> FALSE]

(***************************************************************************)
(* The API server: an update carries the version its object was read with. *)
(* A write that changes nothing leaves the version alone.                  *)
(***************************************************************************)
CurrentVersion(b, v) == batch[b].life = "live" /\ version[b] = v

Put(b, o) ==
  /\ batch' = [batch EXCEPT ![b] = o]
  /\ version' = [version EXCEPT ![b] = IF o = batch[b] THEN @ ELSE @ + 1]

(***************************************************************************)
(* Stop requests.                                                          *)
(***************************************************************************)
Send(r) ==
  /\ answer[r] = "none"
  /\ answer' = [answer EXCEPT ![r] = "pending"]
  /\ pc' = [pc EXCEPT ![r] = "list"]
  /\ attempts' = [attempts EXCEPT ![r] = Attempts]
  /\ UNCHANGED <<cluster, op, copy, found, failure, held, wrote>>

Reply(r, a) ==
  /\ answer' = [answer EXCEPT ![r] = a]
  /\ pc' = [pc EXCEPT ![r] = "idle"]
  /\ copy' = [copy EXCEPT ![r] = NoCopy]
  /\ found' = [found EXCEPT ![r] = FALSE]
  /\ failure' = [failure EXCEPT ![r] = "none"]
  /\ attempts' = [attempts EXCEPT ![r] = 0]
  /\ UNCHANGED <<cluster, op, held, wrote>>

\* (A slip to test the properties with: batches of both types are listed.)
ListedOfAnyType(r) == {b \in Batches : batch[b].life = "live" /\ op[r].batch \in {b, NoName}}

\* The listed batches that carry the name the request is about.
Listed(r) == {b \in Batches : batch[b].life = "live" /\ Addressed(op[r], b)}

List(r) ==
  /\ pc[r] = "list"
  /\ pc' = [pc EXCEPT ![r] = "visit"]
  /\ copy' = [copy EXCEPT ![r] =
                [b \in Listed(r) |-> [obj |-> batch[b], version |-> version[b]]]]
  /\ found' = [found EXCEPT ![r] =
       /\ Named(op[r]) => Listed(r) # {}
       /\ op[r].job # NoName =>
            \E b \in Listed(r) : op[r].job \in JobsOf[b] /\ batch[b].cond \in Stoppable]
  /\ UNCHANGED <<cluster, op, answer, attempts, failure, held, wrote>>

ListFails(r) ==
  /\ pc[r] = "list"
  /\ Reply(r, "error")

Handled(r, b) ==
  /\ copy' = [copy EXCEPT ![r] = [a \in DOMAIN copy[r] \ {b} |-> copy[r][a]]]
  /\ UNCHANGED <<op, answer, pc, attempts, found, held>>

\* A named batch that has finished, or a named job that has, is refused; of a
\* request about all batches that comes after the updates of those before.
Refuses(r, b) ==
  LET o == copy[r][b].obj IN
  \/ o.cond \notin Stoppable /\ Named(op[r])
  \/ /\ o.cond \in Stoppable
     /\ RefusesFinished(op[r], b)
     /\ \E j \in AddressedJobs(op[r], b) : o.phase[j] \in Finished

Refuse(r, b) ==
  /\ pc[r] = "visit" /\ b \in DOMAIN copy[r]
  /\ Refuses(r, b)
  /\ Reply(r, "refused")

\* The jobs to flag in a listed batch; a finished batch is passed over.
ToStop(r, b) ==
  IF copy[r][b].obj.cond \in Stoppable THEN Targets(op[r], b, copy[r][b].obj) ELSE {}

Visits(r, b) == pc[r] = "visit" /\ b \in DOMAIN copy[r] /\ ~Refuses(r, b)

Skip(r, b) ==
  /\ Visits(r, b)
  /\ ToStop(r, b) = {}
  /\ Handled(r, b)
  /\ UNCHANGED <<cluster, failure, wrote>>

\* (A slip: the update carries no version.)
UpdateUnversioned(r, b) ==
  /\ Visits(r, b)
  /\ ToStop(r, b) # {}
  /\ batch[b].life = "live"
  /\ Put(b, WithStop(copy[r][b].obj, ToStop(r, b)))
  /\ wrote' = [wrote EXCEPT ![r] = TRUE]
  /\ Handled(r, b)

Update(r, b) ==
  /\ Visits(r, b)
  /\ ToStop(r, b) # {}
  /\ CurrentVersion(b, copy[r][b].version)
  /\ Put(b, WithStop(copy[r][b].obj, ToStop(r, b)))
  /\ wrote' = [wrote EXCEPT ![r] = TRUE]
  /\ Handled(r, b)

\* errors.Join keeps every error, and the first that is an API status decides
\* whether the joined error is a conflict.
Fail(r, e) ==
  failure' = [failure EXCEPT ![r] = IF @ \in {"none", "plain"} THEN e ELSE @]

UpdateDone(r, b) == Update(r, b) /\ UNCHANGED failure

UpdateRejected(r, b) ==
  /\ Visits(r, b)
  /\ ToStop(r, b) # {}
  /\ ~CurrentVersion(b, copy[r][b].version)
  /\ Fail(r, IF batch[b].life = "live" THEN "conflict" ELSE "notFound")
  /\ Handled(r, b)
  /\ UNCHANGED <<cluster, wrote>>

\* The request never arrives, or its response is lost.
UpdateUnsent(r, b) ==
  /\ Visits(r, b)
  /\ ToStop(r, b) # {}
  /\ Fail(r, "plain")
  /\ Handled(r, b)
  /\ UNCHANGED <<cluster, wrote>>

UpdateResponseLost(r, b) == Update(r, b) /\ Fail(r, "plain")

\* (A slip: conflicts are retried without end.)
RetriesConflicts(r) == failure[r] = "conflict"

\* The attempt is over: it is repeated only after a conflict.
Retries(r) == failure[r] = "conflict" /\ attempts[r] > 1

\* (A slip: any error is retried, with attempts afresh.)
RetryAfresh(r) ==
  /\ pc[r] = "visit" /\ copy[r] = NoCopy
  /\ failure[r] # "none"
  /\ pc' = [pc EXCEPT ![r] = "list"]
  /\ found' = [found EXCEPT ![r] = FALSE]
  /\ failure' = [failure EXCEPT ![r] = "none"]
  /\ UNCHANGED <<cluster, op, answer, attempts, copy, held, wrote>>

Retry(r) ==
  /\ pc[r] = "visit" /\ copy[r] = NoCopy
  /\ Retries(r)
  /\ pc' = [pc EXCEPT ![r] = "list"]
  /\ attempts' = [attempts EXCEPT ![r] = @ - 1]
  /\ found' = [found EXCEPT ![r] = FALSE]
  /\ failure' = [failure EXCEPT ![r] = "none"]
  /\ UNCHANGED <<cluster, op, answer, copy, held, wrote>>

\* (A slip: the errors of the updates are only logged.)
FinishQuietly(r) ==
  /\ pc[r] = "visit" /\ copy[r] = NoCopy
  /\ ~Retries(r)
  /\ Reply(r, IF found[r] THEN "ok" ELSE "refused")

Finish(r) ==
  /\ pc[r] = "visit" /\ copy[r] = NoCopy
  /\ ~Retries(r)
  /\ Reply(r, CASE failure[r] # "none" -> "error"
                [] failure[r] = "none" /\ ~found[r] -> "refused"
                [] OTHER -> "ok")

(***************************************************************************)
(* Restarting.  The caller hands over an object it has read before; a      *)
(* conflict is returned to it and nothing is retried.                      *)
(***************************************************************************)
ReadBatch(q, b) ==
  /\ held[q] = NoName
  /\ batch[b].life = "live"
  /\ held' = [held EXCEPT ![q] = [batch |-> b, obj |-> batch[b], version |-> version[b]]]
  /\ UNCHANGED <<cluster, op, answer, request, wrote>>

RestartJobs(q, J) ==
  /\ CurrentVersion(held[q].batch, held[q].version)
  /\ version[held[q].batch] < MaxVersion
  /\ Put(held[q].batch, WithRestart(held[q].obj, J, q))
  /\ held' = [held EXCEPT ![q] = NoName]
  /\ UNCHANGED <<op, answer, request, wrote>>

RestartRadixBatch(q) ==
  /\ held[q] # NoName
  /\ RestartJobs(q, JobsOf[held[q].batch])

RestartRadixBatchJob(q) ==
  /\ held[q] # NoName
  /\ \E j \in JobsOf[held[q].batch] : RestartJobs(q, {j})

RestartFails(q) ==
  /\ held[q] # NoName
  /\ held' = [held EXCEPT ![q] = NoName]
  /\ UNCHANGED <<cluster, op, answer, request, wrote>>

(***************************************************************************)
(* The rest of the cluster: the operator, which may write any status, and  *)
(* the requests that create and delete batches.                            *)
(***************************************************************************)
OperatorWrites(b) ==
  /\ batch[b].life = "live"
  /\ version[b] < MaxVersion
  /\ \/ \E c \in OperatorConditions : Put(b, [batch[b] EXCEPT !.cond = c])
     \/ \E j \in JobsOf[b], ph \in OperatorPhases : Put(b, [batch[b] EXCEPT !.phase[j] = ph])
  /\ UNCHANGED <<op, answer, request, held, wrote>>

CreateBatch(b) ==
  /\ batch[b].life = "absent"
  /\ batch' = [batch EXCEPT ![b].life = "live"]
  /\ UNCHANGED <<version, op, answer, request, held, wrote>>

DeleteBatch(b) ==
  /\ batch[b].life = "live"
  /\ batch' = [batch EXCEPT ![b].life = "gone"]
  /\ UNCHANGED <<version, op, answer, request, held, wrote>>

Visit(r) ==
  \E b \in Batches :
    \/ Refuse(r, b) \/ Skip(r, b)
    \/ UpdateDone(r, b) \/ UpdateRejected(r, b) \/ UpdateUnsent(r, b) \/ UpdateResponseLost(r, b)

Stop(r) == List(r) \/ ListFails(r) \/ Visit(r) \/ Retry(r) \/ Finish(r)

Caller(q) ==
  \/ \E b \in Batches : ReadBatch(q, b)
  \/ RestartRadixBatch(q) \/ RestartRadixBatchJob(q) \/ RestartFails(q)

Others(b) == OperatorWrites(b) \/ CreateBatch(b) \/ DeleteBatch(b)

Step ==
  \/ \E r \in Requests : Send(r) \/ Stop(r)
  \/ \E q \in Restarters : Caller(q)
  \/ \E b \in Batches : Others(b)

Next == Step /\ Promise!Observe

Spec == Init /\ [][Next]_vars

\* Every call to the API server returns, so a request that was sent keeps moving.
FairSpec == Spec /\ \A r \in Requests : WF_vars(Stop(r) /\ Promise!Observe)

(***************************************************************************)
(* Properties.                                                             *)
(***************************************************************************)
\* Although a stop request reads, decides and writes in separate steps, its
\* callers and the other writers of a batch see what AtomicStop describes: each
\* write takes effect on the jobs unfinished at that moment and undoes no write
\* of the operator or of a restart, success means that every job asked for was
\* dealt with, and a refusal that there was a reason and, of a request that names
\* its batch, that nothing was changed.
ImplementsAtomicStop == Promise!Spec

\* What a step may do to a batch.
WriteKept(b) ==
  LET o == batch[b]
      n == batch'[b]
  IN /\ <<o.cond, o.phase>> # <<n.cond, n.phase>> => o.stop = n.stop /\ o.restart = n.restart
     /\ \A j \in o.stop \ n.stop : n.restart[j] # NoName
     /\ \A j \in n.stop \ o.stop :
          o.cond \in Stoppable /\ o.phase[j] \notin Finished /\ o.restart = n.restart

\* No write is lost, though stops and restarts write whole objects that they
\* read before: a step that changes a status of a batch leaves its flags and
\* stamps alone, only a restart of a job withdraws its stop, and a job is flagged
\* only while it is unfinished and its batch may be stopped, at that moment
\* (updateRadixBatch, RestartRadixBatch, RestartRadixBatchJob).
NoWriteUndone == [][\A b \in Batches : WriteKept(b)]_vars

\* The steps that request r may still take: in each attempt a list, a visit of
\* every batch and a decision.
StepsLeft(r) ==
  IF pc[r] = "idle" THEN 0
  ELSE (attempts[r] - 1) * (Cardinality(Batches) + 2)
       + IF pc[r] = "list" THEN Cardinality(Batches) + 2 ELSE Cardinality(DOMAIN copy[r]) + 1

\* What a step may do to the steps left of a request under way.
StepUsed(r) ==
  answer[r] = "pending" =>
    /\ StepsLeft(r)' <= StepsLeft(r)
    /\ Stop(r) => StepsLeft(r)' < StepsLeft(r)

\* A request cannot be kept busy: whatever conflicts, failures and other writers
\* it meets, each of its steps uses up one of a number that is fixed when it is
\* sent, and nobody's step adds to them (retry.RetryOnConflict).
StepsRunOut == [][\A r \in Requests : StepUsed(r)]_vars

\* Every stop request is answered, however often its updates conflict or fail.
EveryRequestAnswered == \A r \in Requests : answer[r] = "pending" ~> answer[r] # "pending"

====
