---- MODULE SchedulerApi ----
(***************************************************************************)
(* The requests of the job and batch handlers, one at a time, on the       *)
(* RadixBatches of the component: which object a name leads to, what is    *)
(* done to it, and what is answered.                                       *)
(*                                                                         *)
(* A request is one step: PayloadSecrets, BatchCreation and StopBatch have *)
(* the steps inside a request and the requests that run side by side.      *)
(* Between two requests the operator writes statuses.                      *)
(***************************************************************************)
EXTENDS JobStatuses, FiniteSets

CONSTANTS
  Words,       \* what stands between the dashes of a name
  Empty,       \* the word of no letters, of which "-" has two
  Lower,       \* each word in lower case
  BatchNames,  \* generated names of batches
  JobNames,    \* generated names of jobs within a batch
  Loose,       \* other names that a client may send for a batch or a job, and ...
  LooseParts,  \* ... for a job in a batch
  Reported,    \* the statuses of a job and ...
  Conditions,  \* ... the conditions of a batch that the operator writes
  MaxJobs,     \* bound on the jobs in the cluster
  None         \* no answer, and no job

Results == {"ok", "notFound", "invalid", "badRequest", "unknown"}

\* The name of no letters, and a name in lower case.
NoName == <<Empty>>
Folded(n) == [i \in DOMAIN n |-> Lower[n[i]]]

\* Generated names are in lower case, and those of batches are of one length: none
\* is the beginning of another.  A client cannot send the name of no letters, as a
\* path has no empty parts, but names with empty words between dashes it can.
ASSUME NamesAssumption ==
  /\ None \notin Words \cup Results
  /\ Empty \in Words
  /\ Lower \in [Words -> Words]
  /\ JobNames \subseteq Words \ {Empty}
  /\ \A w \in Words : Lower[w] = Empty <=> w = Empty
  /\ \A j \in JobNames : Lower[j] = j
  /\ BatchNames \cup Loose \cup LooseParts \subseteq Seq(Words)
  /\ NoName \notin Loose /\ <<>> \notin LooseParts
  /\ \A b \in BatchNames : Composed(b) /\ Folded(b) = b
  /\ \A b \in BatchNames, c \in BatchNames : IsPrefix(b, c) => b = c

VARIABLES
  batches,  \* the RadixBatches, by name
  answer    \* the last answer, until the client has received it

vars == <<batches, answer>>

FullNames == {FullName(b, j) : b \in BatchNames, j \in JobNames}

\* The names that clients send for a batch, for a job, and for a job in a batch.
BatchPaths == BatchNames \cup Loose
Paths == FullNames \cup BatchPaths
JobPaths(b) == {FullName(b, j) : j \in JobNames} \cup {<<j>> : j \in JobNames} \cup LooseParts

Object ==
  [own : BOOLEAN, type : {"batch", "job"}, jobs : SUBSET JobNames, stop : SUBSET JobNames,
   status : UNION {[J -> Reported] : J \in SUBSET JobNames}, cond : Conditions \cup {""}]

TypeOK ==
  /\ DOMAIN batches \subseteq BatchNames
  /\ \A b \in DOMAIN batches :
       /\ batches[b] \in Object
       /\ batches[b].stop \cup DOMAIN batches[b].status \subseteq batches[b].jobs
  /\ answer # None => answer.result \in Results

Init ==
  /\ batches = [b \in {} |-> None]
  /\ answer = None

(***************************************************************************)
(* The RadixBatches.                                                       *)
(***************************************************************************)
Live == DOMAIN batches

\* What is listed are the batches of the component with one of the types; what
\* is looked up by name may be a batch of another component in the namespace.
OfType(T) == {b \in Live : batches[b].own /\ batches[b].type \in T}
Listed(B) == UNION {{FullName(b, j) : j \in batches[b].jobs} : b \in B}

NewObject(own, type, J, stop) ==
  [own |-> own, type |-> type, jobs |-> J, stop |-> stop,
   status |-> [j \in {} |-> Unseen], cond |-> ""]

With(b, o) == [c \in Live \cup {b} |-> IF c = b THEN o ELSE batches[c]]
Without(b) == [c \in Live \ {b} |-> batches[c]]

Listing(B) ==
  [n \in Listed(B) |-> JobStatus(batches[BatchPart(n)], JobPart(n))]

Summary(B) == [b \in B |-> BatchStatus(batches[b])]

(***************************************************************************)
(* Requests and answers.  The name is that of the batch or job in the path *)
(* of the request, "part" the second name, if it has one.                  *)
(***************************************************************************)
Nameless == [n \in {} |-> None]

Answer(op, name, part, result, jobs, summary) ==
  answer' = [op |-> op, name |-> name, part |-> part, result |-> result,
             jobs |-> jobs, summary |-> summary]

Refuse(op, name, part, result) ==
  /\ Answer(op, name, part, result, Nameless, Nameless)
  /\ UNCHANGED batches

Read(op, name, part, jobs, summary) ==
  /\ Answer(op, name, part, "ok", jobs, summary)
  /\ UNCHANGED batches

Do(op, name, part, result, B) ==
  /\ Answer(op, name, part, result, Nameless, Nameless)
  /\ batches' = B

(***************************************************************************)
(* Reading.                                                                *)
(***************************************************************************)
GetJobs == Read("GetJobs", None, None, Listing(OfType({"job", "batch"})), Nameless)

GetBatches ==
  Read("GetBatches", None, None, Listing(OfType({"batch"})), Summary(OfType({"batch"})))

GetBatch(b) ==
  \/ b \in Live /\ Read("GetBatch", b, None, Listing({b}), Summary({b}))
  \/ b \notin Live /\ Refuse("GetBatch", b, None, "notFound")

\* A batch is looked up by its exact name; the lookup of no name is an error.
LookUp(b) ==
  IF b = NoName THEN "unknown"
  ELSE IF b \notin Live THEN "notFound"
  ELSE None

\* The letters of the job's full name may be of either case.
GetRefusal(b, n) ==
  IF LookUp(b) # None THEN LookUp(b)
  ELSE IF Folded(n) \notin Listed({b}) THEN "unknown"
  ELSE None

\* The status of the job with the full name n in batch b.
GetJobOf(op, name, part, b, n) ==
  \/ GetRefusal(b, n) # None /\ Refuse(op, name, part, GetRefusal(b, n))
  \/ /\ GetRefusal(b, n) = None
     /\ Read(op, name, part, [m \in {Folded(n)} |-> Listing({b})[m]], Nameless)

GetJob(n) ==
  \/ Composed(n) /\ GetJobOf("GetJob", n, None, BatchPart(n), n)
  \/ ~Composed(n) /\ Refuse("GetJob", n, None, "unknown")

\* The job's name is its full name.
GetBatchJob(b, n) == GetJobOf("GetBatchJob", b, n, b, n)

(***************************************************************************)
(* Creating and copying.                                                   *)
(***************************************************************************)
\* The name of a new batch is random; so are the names of its jobs.
Create(op, name, c, o, result) ==
  /\ c \in BatchNames \ Live
  /\ Cardinality(Listed(Live)) + Cardinality(o.jobs) <= MaxJobs
  /\ Answer(op, name, None, result, [n \in {FullName(c, j) : j \in o.jobs} |-> JobStatus(o, JobPart(n))],
            [b \in {c} |-> BatchStatus(o)])
  /\ batches' = With(c, o)

CreateJob(c, j) == Create("CreateJob", None, c, NewObject(TRUE, "job", {j}, {}), "ok")

CreateBatch(c, J) ==
  \/ J # {} /\ Create("CreateBatch", None, c, NewObject(TRUE, "batch", J, {}), "ok")
  \/ J = {} /\ Refuse("CreateBatch", None, None, "invalid")

\* (A slip to test the properties with: the flags are those of the old names.)
CopiedWithOldNames(b, f) ==
  NewObject(batches[b].own, batches[b].type, {f[j] : j \in DOMAIN f}, DOMAIN f \cap batches[b].stop)

\* The copy f[j] of job j has its stop flag, the copied batch the labels.
Copied(b, f) ==
  NewObject(batches[b].own, batches[b].type, {f[j] : j \in DOMAIN f},
            {f[j] : j \in DOMAIN f \cap batches[b].stop})

Renamings(J) == {f \in [J -> JobNames] : \A i, j \in J : f[i] = f[j] => i = j}

\* The jobs with the exact name j, or, without a name, all.
JobsCopied(b, j) == {k \in batches[b].jobs : j \in {k, Empty}}

CopyBatch(b, c) ==
  \/ /\ b \in Live
     /\ \E f \in Renamings(JobsCopied(b, Empty)) : Create("CopyBatch", b, c, Copied(b, f), "ok")
  \/ /\ b \notin Live
     /\ Refuse("CopyBatch", b, None, "notFound")

\* That the copy does not have one job comes out when it has been created.
CopyJobOf(n, b, j, c) ==
  \/ /\ LookUp(b) # None
     /\ Refuse("CopyJob", n, None, LookUp(b))
  \/ /\ LookUp(b) = None
     /\ \E f \in Renamings(JobsCopied(b, j)) :
          Create("CopyJob", n, c, Copied(b, f),
                 IF Cardinality(JobsCopied(b, j)) = 1 THEN "ok" ELSE "unknown")

CopyJob(n, c) ==
  \/ Composed(n) /\ CopyJobOf(n, BatchPart(n), JobPart(n), c)
  \/ ~Composed(n) /\ Refuse("CopyJob", n, None, "unknown")

(***************************************************************************)
(* Deleting.  The garbage collection that follows may fail.                *)
(***************************************************************************)
Delete(op, name, b) ==
  \E result \in {"ok", "unknown"} : Do(op, name, None, result, Without(b))

DeleteBatch(b) ==
  \/ b \in Live /\ Delete("DeleteBatch", b, b)
  \/ b \notin Live /\ Refuse("DeleteBatch", b, None, "notFound")

\* (A slip: the type of the batch is not checked.)
DeleteRefusalOfAnyType(n) ==
  IF ~Composed(n) THEN "invalid"
  ELSE IF LookUp(BatchPart(n)) # None THEN LookUp(BatchPart(n))
  ELSE IF n \notin Listed({BatchPart(n)}) THEN "notFound"
  ELSE None

DeleteRefusal(n) ==
  IF ~Composed(n) THEN "invalid"
  ELSE IF LookUp(BatchPart(n)) # None THEN LookUp(BatchPart(n))
  ELSE IF batches[BatchPart(n)].type # "job" THEN "invalid"
  ELSE IF n \notin Listed({BatchPart(n)}) THEN "notFound"
  ELSE None

\* Only single jobs can be deleted, with the batch that holds them.
DeleteJob(n) ==
  \/ DeleteRefusal(n) # None /\ Refuse("DeleteJob", n, None, DeleteRefusal(n))
  \/ DeleteRefusal(n) = None /\ Delete("DeleteJob", n, BatchPart(n))

(***************************************************************************)
(* Stopping (see StopBatch).                                               *)
(***************************************************************************)
Stoppable == {"", "Active", "Waiting"}
Finished(o, j) == StatusOf(o, j).phase \in {"Succeeded", "Stopped", "Failed"}

WithStop(o, J) == [o EXCEPT !.stop = @ \cup {j \in J : ~Finished(o, j)}]

\* What a request is about: without a batch's name all batches that are listed,
\* without a job's name all jobs.  The letters of names may be of either case.
BatchesAsked(T, b) == {c \in OfType(T) : b = NoName \/ Folded(b) = c}
JobsAsked(b, j) == {k \in batches[b].jobs : j = Empty \/ Lower[j] = k}

\* A batch can be stopped only under way; others are passed over, unless named.  A
\* finished job is passed over too, unless it or its batch, of that job, is named.
StoppableOf(B) == {c \in B : batches[c].cond \in Stoppable}

Refusing(B, b, j) ==
  {c \in B : \/ b # NoName /\ c \notin StoppableOf(B)
             \/ /\ c \in StoppableOf(B)
                /\ j # Empty \/ (b # NoName /\ batches[c].type = "job")
                /\ \E k \in JobsAsked(c, j) : Finished(batches[c], k)}

StopResult(B, b, j) ==
  IF Refusing(B, b, j) # {} THEN "badRequest"
  ELSE IF b # NoName /\ B = {} THEN "notFound"
  ELSE IF j # Empty /\ \A c \in StoppableOf(B) : JobsAsked(c, j) = {} THEN "notFound"
  ELSE "ok"

Stopped(B, j) ==
  [c \in Live |-> IF c \in B THEN WithStop(batches[c], JobsAsked(c, j)) ELSE batches[c]]

\* A request about all batches may have stopped some before one refuses.
StopNamed(op, name, part, T, b, j) ==
  LET B == BatchesAsked(T, b)
      R == Refusing(B, b, j)
      result == StopResult(B, b, j)
  IN  \/ R # {} /\ \E S \in SUBSET (StoppableOf(B) \ R) : Do(op, name, part, result, Stopped(S, j))
      \/ R = {} /\ Do(op, name, part, result, Stopped(StoppableOf(B), j))

StopBatch(b) == StopNamed("StopBatch", b, None, {"batch"}, b, Empty)

\* The job of any batch with the full name n.
StopJobNamed(op, name, part, n) ==
  \/ Composed(n) /\ StopNamed(op, name, part, {"batch", "job"}, BatchPart(n), JobPart(n))
  \/ ~Composed(n) /\ Refuse(op, name, part, "unknown")

StopJob(n) == StopJobNamed("StopJob", n, None, n)

\* (A slip: the job's name is taken for its full name, as GetBatchJob takes it.)
StopBatchJobByFullName(b, n) == StopJobNamed("StopBatchJob", b, n, n)

\* The job's name is appended to that of the batch.
StopBatchJob(b, n) == StopJobNamed("StopBatchJob", b, n, b \o n)

StopAllJobs == StopNamed("StopAllJobs", None, None, {"job"}, NoName, Empty)
StopAllBatches == StopNamed("StopAllBatches", None, None, {"batch"}, NoName, Empty)

(***************************************************************************)
(* Between the requests.                                                   *)
(***************************************************************************)
Received ==
  /\ answer # None
  /\ answer' = None
  /\ UNCHANGED batches

\* The scheduler of another component creates its own batches.
CreateElsewhere(c, j) ==
  /\ c \in BatchNames \ Live
  /\ Cardinality(Listed(Live)) < MaxJobs
  /\ \E type \in {"batch", "job"} : batches' = With(c, NewObject(FALSE, type, {j}, {}))
  /\ UNCHANGED answer

\* Programs that use the library restart all jobs of a batch, or one.
Restart(b, J) ==
  /\ b \in Live
  /\ batches' = With(b, [batches[b] EXCEPT !.stop = @ \ J])
  /\ UNCHANGED answer

ReportJob(b, j) ==
  /\ b \in Live
  /\ j \in batches[b].jobs
  /\ \E s \in Reported :
       batches' = With(b, [batches[b] EXCEPT !.status =
                     [k \in DOMAIN @ \cup {j} |-> IF k = j THEN s ELSE @[k]]])
  /\ UNCHANGED answer

ReportBatch(b) ==
  /\ b \in Live
  /\ \E c \in Conditions : batches' = With(b, [batches[b] EXCEPT !.cond = c])
  /\ UNCHANGED answer

Request ==
  \/ GetJobs \/ GetBatches \/ StopAllJobs \/ StopAllBatches
  \/ \E n \in Paths : GetJob(n) \/ DeleteJob(n) \/ StopJob(n)
  \/ \E n \in Paths, c \in BatchNames : CopyJob(n, c)
  \/ \E b \in BatchPaths : GetBatch(b) \/ DeleteBatch(b) \/ StopBatch(b)
  \/ \E b \in BatchPaths : \E n \in JobPaths(b) : GetBatchJob(b, n) \/ StopBatchJob(b, n)
  \/ \E b \in BatchPaths, c \in BatchNames : CopyBatch(b, c)
  \/ \E b \in BatchNames, j \in JobNames : CreateJob(b, j)
  \/ \E c \in BatchNames, J \in SUBSET JobNames : CreateBatch(c, J)

Others ==
  \/ \E b \in BatchNames, j \in JobNames : CreateElsewhere(b, j) \/ ReportJob(b, j) \/ Restart(b, {j})
  \/ \E b \in BatchNames : Restart(b, JobNames) \/ ReportBatch(b)

\* What happens between a request and the receipt of its answer StopBatch shows.
Next ==
  \/ answer = None /\ (Request \/ Others)
  \/ Received

Spec == Init /\ [][Next]_vars

(***************************************************************************)
(* Names.                                                                  *)
(***************************************************************************)
Answered == answer' # None
HasJob(b, j) == b \in Live /\ j \in batches[b].jobs

\* The full name that a request to stop a job, or a job of a batch, leads to.
NameToStop == IF answer'.op = "StopBatchJob" THEN answer'.name \o answer'.part ELSE answer'.name

\* A full name means that job, and one with an empty part in place of the batch or
\* of the job all that there are.
Means(n, b, j) == Folded(n) \in {FullName(c, k) : c \in {b, NoName}, k \in {j, Empty}}

\* The jobs that the request answered in this step asks to have stopped: those its
\* name means; in a batch that there is, jobs are named by the last part of their
\* names (TestStopBatchJob); and the requests for everything are each for one type.
\* Batches of other components are out of reach.
AskedToStop(b, j) ==
  /\ batches[b].own
  /\ \/ answer'.op = "StopJob" /\ Means(answer'.name, b, j)
     \/ /\ answer'.op = "StopBatchJob"
        /\ Means(NameToStop, b, j)
        /\ Folded(answer'.name) \in BatchNames => Folded(answer'.name) = b
     \/ answer'.op = "StopBatch" /\ Folded(answer'.name) = b /\ batches[b].type = "batch"
     \/ answer'.op = "StopAllJobs" /\ batches[b].type = "job"
     \/ answer'.op = "StopAllBatches" /\ batches[b].type = "batch"

\* The request names no batch.
AboutAllBatches ==
  \/ answer'.op \in {"StopAllJobs", "StopAllBatches"}
  \/ answer'.op \in {"StopJob", "StopBatchJob"} /\ BatchPart(NameToStop) = NoName

\* A request stops the jobs that its name means and no other, whatever parts the
\* names of batches and jobs have in common, however they are spelled, and where
\* they have empty parts; and of what it says it stopped, every job is flagged or
\* finished, or in a batch that a request for all batches passes over
\* (stopRadixBatchJob, StopJob, StopBatchJob, StopBatch, StopAllRadixBatches).
StopsWhatIsNamed ==
  [][Answered =>
       \A b \in BatchNames, j \in JobNames :
         HasJob(b, j) /\ HasJob(b, j)' =>
           /\ j \in batches'[b].stop \ batches[b].stop => AskedToStop(b, j)
           /\ AskedToStop(b, j) /\ answer'.result = "ok" =>
                \/ j \in batches'[b].stop
                \/ Finished(batches[b], j)
                \/ AboutAllBatches /\ batches[b].cond \notin Stoppable]_vars

\* Deleting a job never takes another job with it: it is alone in its batch,
\* which DeleteJob deletes as a whole ("not a single job", job_handler.go:155).
DeleteJobDeletesItAlone ==
  [][Answered /\ answer'.op = "DeleteJob" =>
       \A b \in BatchNames, j \in JobNames :
         HasJob(b, j) /\ ~HasJob(b, j)' => answer'.name = FullName(b, j)]_vars

\* Every job that GetJobs lists is found under the name it is listed with, by the
\* requests that read, stop and delete jobs, although a name is split at its last
\* dash only and batches have dashes in theirs
\* (ParseBatchAndJobNameFromScheduledJobName).
ListedCanBeFound ==
  answer = None =>
    LET T == {"job", "batch"}
    IN  \A n \in Listed(OfType(T)) :
          LET b == BatchPart(n)
          IN  /\ GetRefusal(b, n) = None
              /\ StopResult(BatchesAsked(T, b), b, JobPart(n)) # "notFound"
              /\ DeleteRefusal(n) \notin {"notFound", "unknown"}

(***************************************************************************)
(* Answers.                                                                *)
(***************************************************************************)
FlaggedNames == UNION {{FullName(b, j) : j \in batches[b].stop} : b \in Live}

\* A job that was asked to stop is not reported as going on: until it is
\* restarted every answer calls it stopping or finished, also before the
\* operator has written a status for it (GetScheduledJobStatus).
StopIsReported ==
  answer # None =>
    \A n \in DOMAIN answer.jobs \cap FlaggedNames : answer.jobs[n] \notin Unfinished

\* The reference for a rule, in terms of the set of the phases.
Holds(rule, phases) ==
  CASE rule.condition = "Any" /\ rule.operator = "In" -> phases \cap rule.phases # {}
    [] rule.condition = "Any" /\ rule.operator = "NotIn" -> ~(phases \subseteq rule.phases)
    [] rule.condition = "All" /\ rule.operator = "In" -> phases \subseteq rule.phases
    [] rule.condition = "All" /\ rule.operator = "NotIn" -> phases \cap rule.phases = {}

\* A batch has the status of the first rule that holds, and that of its condition
\* if none does; a rule about all jobs holds of a batch without any status
\* (getStatusFromStatusRules, TestGetRadixBatchStatus).
FirstRuleDecides ==
  answer # None =>
    \A b \in {c \in DOMAIN answer.summary : batches[c].type = "batch"} :
      LET phases == JobPhases(batches[b])
          holding == {i \in DOMAIN Rules : Holds(Rules[i], phases)}
      IN  \/ \E i \in holding :
               (\A k \in holding : i <= k) /\ answer.summary[b] = Rules[i].status
          \/ /\ holding = {}
             /\ answer.summary[b] = IF batches[b].cond = "" THEN "Waiting" ELSE batches[b].cond

====
