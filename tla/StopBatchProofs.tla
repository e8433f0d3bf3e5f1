---- MODULE StopBatchProofs ----
(***************************************************************************)
(* Proofs about StopBatch, for any batches, jobs, requests and callers and *)
(* any number of attempts: it implements AtomicStop.                       *)
(***************************************************************************)
EXTENDS StopBatch, FiniteSetTheorems, TLAPS

USE ObjectsAssumption, StopAssumption

(***************************************************************************)
(* Objects.                                                                *)
(***************************************************************************)
LEMMA NewObjectTyped ==
  ASSUME NEW life \in {"absent", "live", "gone"}
  PROVE  NewObject(life) \in Object
  BY DEF NewObject, Object, Conditions, Stoppable, Phases

LEMMA WithStopTyped ==
  ASSUME NEW o \in Object, NEW J \in SUBSET Jobs
  PROVE  WithStop(o, J) \in Object /\ WithStop(o, J).life = o.life
  BY DEF Object, WithStop

LEMMA WithRestartTyped ==
  ASSUME NEW o \in Object, NEW J, NEW q \in Restarters
  PROVE  WithRestart(o, J, q) \in Object /\ WithRestart(o, J, q).life = o.life
  BY DEF Object, WithRestart

LEMMA LifeTyped ==
  ASSUME NEW o \in Object, NEW life \in {"absent", "live", "gone"}
  PROVE  [o EXCEPT !.life = life] \in Object
  BY DEF Object

LEMMA StatusTyped ==
  ASSUME NEW o \in Object
  PROVE  /\ \A c \in Conditions : /\ [o EXCEPT !.cond = c] \in Object
                                  /\ [o EXCEPT !.cond = c].life = o.life
         /\ \A j \in Jobs, ph \in Phases : /\ [o EXCEPT !.phase[j] = ph] \in Object
                                           /\ [o EXCEPT !.phase[j] = ph].life = o.life
  BY DEF Object

LEMMA OpTyped ==
  ASSUME NEW o \in Ops
  PROVE  o.batch \in Batches \cup {NoName} /\ o.job \in Jobs \cup {NoName}
  BY DEF Ops, StopBatchOps, StopJobOps, StopAllOps

LEMMA TargetsTyped ==
  ASSUME NEW o, NEW b \in Batches, NEW p
  PROVE  Targets(p, b, o) \in SUBSET Jobs
  BY DEF Targets, AddressedJobs

\* The helpers of the instance are those of this module.
LEMMA SameHelpers ==
  /\ Promise!Finished = Finished /\ Promise!Stoppable = Stoppable
  /\ Promise!Object = Object /\ Promise!Ops = Ops
  /\ Promise!Conditions = Conditions /\ Promise!Phases = Phases
  /\ \A o : Promise!Named(o) = Named(o)
  /\ \A o, b : /\ Promise!Addressed(o, b) = Addressed(o, b)
               /\ Promise!AddressedJobs(o, b) = AddressedJobs(o, b)
               /\ Promise!RefusesFinished(o, b) = RefusesFinished(o, b)
  /\ \A o, b, p : Promise!Targets(p, b, o) = Targets(p, b, o)
  /\ \A o, J : Promise!WithStop(o, J) = WithStop(o, J)
  /\ \A o, J, q : Promise!WithRestart(o, J, q) = WithRestart(o, J, q)
<1>1. Promise!Finished = Finished /\ Promise!Stoppable = Stoppable
  BY DEF Promise!Finished, Promise!Stoppable, Promise!Succeeded, Finished, Stoppable, Succeeded
<1>2. Promise!Conditions = Conditions /\ Promise!Phases = Phases
  BY <1>1 DEF Promise!Conditions, Promise!Phases, Conditions, Phases
<1>3. Promise!Object = Object /\ Promise!Ops = Ops
  BY <1>2
  DEF Promise!Object, Object, Promise!Ops, Promise!StopBatchOps, Promise!StopJobOps, Promise!StopAllOps,
      Ops, StopBatchOps, StopJobOps, StopAllOps
<1>4. /\ \A o : Promise!Named(o) = Named(o)
      /\ \A o, b : /\ Promise!Addressed(o, b) = Addressed(o, b)
                   /\ Promise!AddressedJobs(o, b) = AddressedJobs(o, b)
                   /\ Promise!RefusesFinished(o, b) = RefusesFinished(o, b)
  BY DEF Promise!Named, Promise!Addressed, Promise!AddressedJobs, Promise!RefusesFinished,
      Named, Addressed, AddressedJobs, RefusesFinished
<1>5. \A o, b, p : Promise!Targets(p, b, o) = Targets(p, b, o)
  BY <1>1, <1>4 DEF Promise!Targets, Targets
<1>6. /\ \A o, J : Promise!WithStop(o, J) = WithStop(o, J)
      /\ \A o, J, q : Promise!WithRestart(o, J, q) = WithRestart(o, J, q)
  BY DEF Promise!WithStop, Promise!WithRestart, WithStop, WithRestart
<1> QED BY <1>1, <1>2, <1>3, <1>4, <1>5, <1>6

(***************************************************************************)
(* Type correctness.                                                       *)
(***************************************************************************)
LEMMA NoCopyTyped == NoCopy \in [{} -> Read] /\ DOMAIN NoCopy = {}
  BY DEF NoCopy

LEMMA TypeInit == Init => TypeOK
<1> SUFFICES ASSUME Init PROVE TypeOK
  OBVIOUS
<1>1. batch \in [Batches -> Object]
  BY NewObjectTyped DEF Init
<1>2. \A r \in Requests : \E B \in SUBSET Batches : copy[r] \in [B -> Read]
  <2> SUFFICES ASSUME NEW r \in Requests PROVE copy[r] = NoCopy
    BY NoCopyTyped
  <2> QED BY DEF Init
<1>3. op \in [Requests -> Ops]
  BY DEF Init
<1>4. version \in [Batches -> Nat] /\ attempts \in [Requests -> 0..Attempts]
  BY DEF Init
<1>5. /\ answer \in [Requests -> Promise!Answers]
      /\ pc \in [Requests -> {"idle", "list", "visit"}]
      /\ failure \in [Requests -> Failures]
      /\ \A r \in Requests : pc[r] # "idle" => attempts[r] > 0
  BY DEF Init, Promise!Answers, Failures
<1>6. /\ found \in [Requests -> BOOLEAN] /\ wrote \in [Requests -> BOOLEAN]
      /\ settled \in [Requests -> SUBSET (Batches \X Jobs)] /\ refusable \in [Requests -> BOOLEAN]
      /\ DOMAIN copy = Requests /\ DOMAIN held = Restarters
      /\ \A q \in Restarters : held[q] = NoName
  BY DEF Init
<1> QED BY <1>1, <1>2, <1>3, <1>4, <1>5, <1>6 DEF TypeOK

\* A step of a stop request to an answer.
LEMMA ReplyTyped ==
  ASSUME TypeOK, NEW r \in Requests, NEW a \in {"ok", "refused", "error"}, Reply(r, a)
  PROVE  /\ answer' \in [Requests -> Promise!Answers]
         /\ pc' \in [Requests -> {"idle", "list", "visit"}]
         /\ attempts' \in [Requests -> 0..Attempts]
         /\ \A s \in Requests : pc'[s] # "idle" => attempts'[s] > 0
         /\ DOMAIN copy' = Requests
         /\ \A s \in Requests : \E B \in SUBSET Batches : copy'[s] \in [B -> Read]
         /\ found' \in [Requests -> BOOLEAN]
         /\ failure' \in [Requests -> Failures]
         /\ UNCHANGED <<batch, version, op, held, wrote>>
<1>1. \A s \in Requests : \E B \in SUBSET Batches : copy'[s] \in [B -> Read]
  <2>1. copy'[r] = NoCopy
    BY DEF Reply, TypeOK
  <2>2. \A s \in Requests \ {r} : copy'[s] = copy[s]
    BY DEF Reply, TypeOK
  <2> QED BY <2>1, <2>2, NoCopyTyped DEF TypeOK
<1>2. /\ answer' \in [Requests -> Promise!Answers]
      /\ pc' \in [Requests -> {"idle", "list", "visit"}]
      /\ failure' \in [Requests -> Failures]
      /\ found' \in [Requests -> BOOLEAN]
  BY DEF Reply, TypeOK, Promise!Answers, Failures
<1>3. /\ attempts' \in [Requests -> 0..Attempts]
      /\ \A s \in Requests : pc'[s] # "idle" => attempts'[s] > 0
  <2>1. attempts \in [Requests -> 0..Attempts] /\ 0 \in 0..Attempts
    BY DEF TypeOK
  <2> QED BY <2>1 DEF Reply, TypeOK
<1> QED BY <1>1, <1>2, <1>3 DEF Reply, TypeOK, cluster

LEMMA HandledTyped ==
  ASSUME TypeOK, NEW r \in Requests, NEW b \in Batches, Handled(r, b)
  PROVE  /\ DOMAIN copy' = Requests
         /\ \A s \in Requests : \E B \in SUBSET Batches : copy'[s] \in [B -> Read]
         /\ DOMAIN copy'[r] = DOMAIN copy[r] \ {b}
         /\ \A a \in DOMAIN copy'[r] : copy'[r][a] = copy[r][a]
         /\ \A s \in Requests \ {r} : copy'[s] = copy[s]
         /\ UNCHANGED <<op, answer, pc, attempts, found, held>>
<1>1. /\ copy'[r] = [a \in DOMAIN copy[r] \ {b} |-> copy[r][a]]
      /\ \A s \in Requests \ {r} : copy'[s] = copy[s]
      /\ DOMAIN copy' = Requests
  BY DEF Handled, TypeOK
<1>2. PICK B \in SUBSET Batches : copy[r] \in [B -> Read]
  BY DEF TypeOK
<1>3. copy'[r] \in [B \ {b} -> Read]
  BY <1>1, <1>2
<1>4. \A s \in Requests : \E C \in SUBSET Batches : copy'[s] \in [C -> Read]
  BY <1>1, <1>3 DEF TypeOK
<1> QED BY <1>1, <1>4 DEF Handled

LEMMA CopyTyped ==
  ASSUME TypeOK, NEW r \in Requests, NEW b \in DOMAIN copy[r]
  PROVE  b \in Batches /\ copy[r][b].obj \in Object /\ copy[r][b].version \in Nat
  BY DEF TypeOK, Read

LEMMA FailTyped ==
  ASSUME TypeOK, NEW r \in Requests, NEW e \in {"plain", "notFound", "conflict"}, Fail(r, e)
  PROVE  /\ failure' \in [Requests -> Failures]
         /\ failure'[r] = IF failure[r] \in {"none", "plain"} THEN e ELSE failure[r]
         /\ \A s \in Requests \ {r} : failure'[s] = failure[s]
         /\ failure'[r] # "none"
  BY DEF Fail, TypeOK, Failures

LEMMA PutTyped ==
  ASSUME TypeOK, NEW b \in Batches, NEW o \in Object, Put(b, o)
  PROVE  /\ batch' \in [Batches -> Object] /\ version' \in [Batches -> Nat]
         /\ batch'[b] = o /\ version'[b] = IF o = batch[b] THEN version[b] ELSE version[b] + 1
         /\ \A a \in Batches \ {b} : batch'[a] = batch[a] /\ version'[a] = version[a]
  BY DEF Put, TypeOK

LEMMA UpdateTyped ==
  ASSUME TypeOK, NEW r \in Requests, NEW b \in Batches, Update(r, b)
  PROVE  /\ copy[r][b].obj \in Object
         /\ ToStop(r, b) \in SUBSET Jobs
         /\ WithStop(copy[r][b].obj, ToStop(r, b)) \in Object
         /\ Put(b, WithStop(copy[r][b].obj, ToStop(r, b)))
<1>1. b \in DOMAIN copy[r]
  BY DEF Update, Visits
<1> QED BY <1>1, CopyTyped, TargetsTyped, WithStopTyped DEF Update, ToStop

LEMMA RestartTyped ==
  ASSUME TypeOK, NEW q \in Restarters, NEW J, held[q] # NoName, RestartJobs(q, J)
  PROVE  /\ held[q].batch \in Batches /\ held[q].obj \in Object
         /\ WithRestart(held[q].obj, J, q) \in Object
         /\ Put(held[q].batch, WithRestart(held[q].obj, J, q))
  BY WithRestartTyped DEF TypeOK, RestartJobs

\* The observations are typed whatever the step.
LEMMA ObserveTyped ==
  ASSUME TypeOK, Promise!Observe, op' = op
  PROVE  /\ settled' \in [Requests -> SUBSET (Batches \X Jobs)]
         /\ refusable' \in [Requests -> BOOLEAN]
<1>1. \A r \in Requests : Promise!Owed(r) \subseteq Batches \X Jobs /\ Promise!Owed(r)' = Promise!Owed(r)
  BY DEF Promise!Owed
<1>2. \A r \in Requests : /\ Promise!SettledNow(r)' \subseteq Batches \X Jobs
                          /\ Promise!AbsentNow(r)' \subseteq Batches \X Jobs
  BY <1>1 DEF Promise!SettledNow, Promise!AbsentNow
<1> QED BY <1>2 DEF Promise!Observe, TypeOK

LEMMA TypeStep ==
  ASSUME TypeOK, Step, Promise!Observe
  PROVE  TypeOK'
<1>1. ASSUME op' = op,
             batch' \in [Batches -> Object], version' \in [Batches -> Nat],
             answer' \in [Requests -> Promise!Answers],
             pc' \in [Requests -> {"idle", "list", "visit"}],
             attempts' \in [Requests -> 0..Attempts],
             \A r \in Requests : pc'[r] # "idle" => attempts'[r] > 0,
             DOMAIN copy' = Requests,
             \A r \in Requests : \E B \in SUBSET Batches : copy'[r] \in [B -> Read],
             found' \in [Requests -> BOOLEAN], failure' \in [Requests -> Failures],
             DOMAIN held' = Restarters,
             \A q \in Restarters :
               held'[q] = NoName \/ held'[q] \in [batch : Batches, obj : Object, version : Nat],
             wrote' \in [Requests -> BOOLEAN]
      PROVE  TypeOK'
  BY <1>1, ObserveTyped DEF TypeOK
<1> USE DEF TypeOK
<1>2. ASSUME NEW r \in Requests, Send(r) PROVE TypeOK'
  <2>1. /\ attempts' \in [Requests -> 0..Attempts]
        /\ \A s \in Requests : pc'[s] # "idle" => attempts'[s] > 0
    <3>1. attempts \in [Requests -> 0..Attempts] /\ Attempts \in 0..Attempts /\ Attempts > 0
      OBVIOUS
    <3> QED BY <1>2, <3>1 DEF Send
  <2>2. answer' \in [Requests -> Promise!Answers] /\ pc' \in [Requests -> {"idle", "list", "visit"}]
    BY <1>2 DEF Send, Promise!Answers
  <2> QED BY <1>1, <1>2, <2>1, <2>2 DEF Send, cluster
<1>3. ASSUME NEW r \in Requests, NEW a \in {"ok", "refused", "error"}, Reply(r, a) PROVE TypeOK'
  <2>1. UNCHANGED <<batch, version, op, held, wrote>>
    BY <1>3 DEF Reply, cluster
  <2> HIDE DEF TypeOK
  <2>2. /\ answer' \in [Requests -> Promise!Answers]
        /\ pc' \in [Requests -> {"idle", "list", "visit"}]
        /\ attempts' \in [Requests -> 0..Attempts]
        /\ \A s \in Requests : pc'[s] # "idle" => attempts'[s] > 0
        /\ DOMAIN copy' = Requests
        /\ \A s \in Requests : \E B \in SUBSET Batches : copy'[s] \in [B -> Read]
        /\ found' \in [Requests -> BOOLEAN]
        /\ failure' \in [Requests -> Failures]
    BY <1>3, ReplyTyped
  <2> QED BY <1>1, <2>1, <2>2 DEF TypeOK
<1>4. ASSUME NEW r \in Requests, List(r) PROVE TypeOK'
  <2>1. copy'[r] = [b \in Listed(r) |-> [obj |-> batch[b], version |-> version[b]]]
    BY <1>4 DEF List
  <2>2. Listed(r) \in SUBSET Batches
    BY DEF Listed
  <2>3. copy'[r] \in [Listed(r) -> Read]
    BY <2>1, <2>2 DEF Read
  <2>4. \A s \in Requests \ {r} : copy'[s] = copy[s]
    BY <1>4 DEF List
  <2>5. \A s \in Requests : \E B \in SUBSET Batches : copy'[s] \in [B -> Read]
    BY <2>2, <2>3, <2>4
  <2>6. found' \in [Requests -> BOOLEAN]
    BY <1>4 DEF List
  <2> QED BY <1>1, <1>4, <2>5, <2>6 DEF List, cluster
<1>5. ASSUME NEW r \in Requests, NEW b \in Batches, Skip(r, b) PROVE TypeOK'
  BY <1>1, <1>5, HandledTyped DEF Skip, cluster
<1>6. ASSUME NEW r \in Requests, NEW b \in Batches, UpdateDone(r, b) PROVE TypeOK'
  <2>1. Update(r, b) /\ Handled(r, b) /\ failure' = failure /\ wrote' = [wrote EXCEPT ![r] = TRUE]
    BY <1>6 DEF UpdateDone, Update
  <2>2. batch' \in [Batches -> Object] /\ version' \in [Batches -> Nat]
    BY <2>1, UpdateTyped, PutTyped
  <2> QED BY <1>1, <2>1, <2>2, HandledTyped
<1>7. ASSUME NEW r \in Requests, NEW b \in Batches, UpdateResponseLost(r, b) PROVE TypeOK'
  <2>1. Update(r, b) /\ Handled(r, b) /\ Fail(r, "plain") /\ wrote' = [wrote EXCEPT ![r] = TRUE]
    BY <1>7 DEF UpdateResponseLost, Update
  <2>2. batch' \in [Batches -> Object] /\ version' \in [Batches -> Nat]
    BY <2>1, UpdateTyped, PutTyped
  <2>3. failure' \in [Requests -> Failures]
    BY <2>1, FailTyped
  <2> QED BY <1>1, <2>1, <2>2, <2>3, HandledTyped
<1>8. ASSUME NEW r \in Requests, NEW b \in Batches, UpdateRejected(r, b) \/ UpdateUnsent(r, b) PROVE TypeOK'
  <2>1. PICK e \in {"plain", "notFound", "conflict"} : Fail(r, e)
    BY <1>8 DEF UpdateRejected, UpdateUnsent
  <2>2. Handled(r, b) /\ UNCHANGED <<batch, version, wrote>>
    BY <1>8 DEF UpdateRejected, UpdateUnsent, cluster
  <2>3. failure' \in [Requests -> Failures]
    BY <2>1, FailTyped
  <2> QED BY <1>1, <2>2, <2>3, HandledTyped
<1>9. ASSUME NEW r \in Requests, Retry(r) PROVE TypeOK'
  <2>1. attempts[r] \in 0..Attempts /\ attempts[r] > 1
    BY <1>9 DEF Retry, Retries
  <2> QED BY <1>1, <1>9, <2>1 DEF Retry, cluster, Failures
<1>10. ASSUME NEW q \in Restarters, NEW b \in Batches, ReadBatch(q, b) PROVE TypeOK'
  BY <1>1, <1>10 DEF ReadBatch, cluster, request
<1>11. ASSUME NEW q \in Restarters, NEW J, held[q] # NoName, RestartJobs(q, J) PROVE TypeOK'
  <2>1. batch' \in [Batches -> Object] /\ version' \in [Batches -> Nat]
    BY <1>11, RestartTyped, PutTyped
  <2> QED BY <1>1, <1>11, <2>1 DEF RestartJobs, request
<1>12. ASSUME NEW q \in Restarters, RestartFails(q) PROVE TypeOK'
  BY <1>1, <1>12 DEF RestartFails, cluster, request
<1>13. ASSUME NEW b \in Batches, OperatorWrites(b) PROVE TypeOK'
  <2>1. PICK o \in Object : Put(b, o)
    <3>1. batch[b] \in Object /\ JobsOf[b] \subseteq Jobs
      OBVIOUS
    <3> QED BY <1>13, <3>1, StatusTyped DEF OperatorWrites
  <2> QED BY <1>1, <1>13, <2>1, PutTyped DEF OperatorWrites, request
<1>14. ASSUME NEW b \in Batches, CreateBatch(b) \/ DeleteBatch(b) PROVE TypeOK'
  <2>1. batch' \in [Batches -> Object]
    <3>1. batch \in [Batches -> Object] /\ batch[b] \in Object
      OBVIOUS
    <3>2. \/ batch' = [batch EXCEPT ![b] = [batch[b] EXCEPT !.life = "live"]]
          \/ batch' = [batch EXCEPT ![b] = [batch[b] EXCEPT !.life = "gone"]]
      BY <1>14 DEF CreateBatch, DeleteBatch
    <3>3. [batch[b] EXCEPT !.life = "live"] \in Object /\ [batch[b] EXCEPT !.life = "gone"] \in Object
      BY <3>1, LifeTyped
    <3> QED BY <3>1, <3>2, <3>3
  <2> QED BY <1>1, <1>14, <2>1 DEF CreateBatch, DeleteBatch, request
<1>15. ASSUME NEW r \in Requests, Stop(r) PROVE TypeOK'
  <2>1. CASE \E b \in Batches : Refuse(r, b)
    BY <1>3, <2>1 DEF Refuse
  <2>2. CASE ListFails(r)
    BY <1>3, <2>2 DEF ListFails
  <2>3. CASE Finish(r)
    BY <1>3, <2>3 DEF Finish
  <2> QED BY <1>4, <1>5, <1>6, <1>7, <1>8, <1>9, <1>15, <2>1, <2>2, <2>3 DEF Stop, Visit
<1>16. ASSUME NEW q \in Restarters, Caller(q) PROVE TypeOK'
  BY <1>10, <1>11, <1>12, <1>16 DEF Caller, RestartRadixBatch, RestartRadixBatchJob
<1> QED BY <1>2, <1>13, <1>14, <1>15, <1>16 DEF Step, Others

LEMMA TypeNext == TypeOK /\ [Next]_vars => TypeOK'
<1>1. ASSUME TypeOK, UNCHANGED vars PROVE TypeOK'
  BY <1>1 DEF vars, TypeOK
<1> QED BY <1>1, TypeStep DEF Next

\* The type invariant holds in every reachable state.
THEOREM TypeCorrect == Spec => []TypeOK
  BY TypeInit, TypeNext, PTL DEF Spec

(***************************************************************************)
(* The inductive invariant.                                                *)
(***************************************************************************)
\* What was read of batch b is not newer than the batch, and it is the batch as
\* long as the version is the same: that is what an accepted update relies on.
ReadOf(b, obj, ver) ==
  /\ obj.life = "live"
  /\ batch[b].life # "absent"
  /\ ver <= version[b]
  /\ ver = version[b] /\ batch[b].life = "live" => obj = batch[b]

\* A request under way has observed what is the case now.
Observed(r) ==
  IF answer[r] = "pending"
  THEN /\ Promise!SettledNow(r) \subseteq settled[r]
       /\ Promise!AbsentNow(r) \subseteq settled[r]
       /\ Promise!RefusableNow(r) => refusable[r]
  ELSE settled[r] = {} /\ ~refusable[r]

Copies(r) ==
  /\ pc[r] # "idle" <=> answer[r] = "pending"
  /\ pc[r] # "visit" => DOMAIN copy[r] = {} /\ failure[r] = "none"
  /\ answer[r] = "none" => ~wrote[r]
  /\ \A b \in DOMAIN copy[r] :
       Addressed(op[r], b) /\ ReadOf(b, copy[r][b].obj, copy[r][b].version)

\* Each job asked for is dealt with, or in a batch that is still to be handled.
Owing(r) ==
  pc[r] = "visit" /\ failure[r] = "none" =>
    \A p \in Promise!Owed(r) : p[1] \in DOMAIN copy[r] \/ p \in settled[r]

SettledIn(r, j, o) ==
  j \in o.stop \/ o.phase[j] \in Finished \/ (~Named(op[r]) /\ o.cond \notin Stoppable)

\* What a listed object is a reason for was so at some moment since the request
\* was sent.
Grounds(r) ==
  pc[r] = "visit" =>
    /\ \A b \in DOMAIN copy[r] :
         /\ \A p \in Promise!Owed(r) :
              p[1] = b /\ SettledIn(r, p[2], copy[r][b].obj) => p \in settled[r]
         /\ Refuses(r, b) => refusable[r]
    /\ ~found[r] => refusable[r]

\* A request for one batch that has written is not refused or repeated any more.
Once(r) ==
  Named(op[r]) =>
    /\ wrote[r] /\ answer[r] = "pending" =>
         /\ pc[r] = "visit" /\ DOMAIN copy[r] = {}
         /\ found[r] /\ failure[r] \in {"none", "plain"}
    /\ DOMAIN copy[r] # {} => failure[r] = "none"
    /\ \A b \in DOMAIN copy[r] : ToStop(r, b) # {} => found[r]

Sound(r) == Copies(r) /\ Owing(r) /\ Grounds(r) /\ Once(r)

HeldIsRead(q) == held[q] # NoName => ReadOf(held[q].batch, held[q].obj, held[q].version)
HeldAreRead == \A q \in Restarters : HeldIsRead(q)

IndInv == TypeOK /\ HeldAreRead /\ \A r \in Requests : Observed(r) /\ Sound(r)

LEMMA IndInvInit == Init => IndInv
<1> SUFFICES ASSUME Init PROVE IndInv
  OBVIOUS
<1>1. TypeOK
  BY TypeInit
<1>2. HeldAreRead
  BY DEF Init, HeldAreRead, HeldIsRead
<1>3. ASSUME NEW r \in Requests PROVE Observed(r) /\ Sound(r)
  <2>1. /\ answer[r] = "none" /\ pc[r] = "idle" /\ copy[r] = NoCopy /\ failure[r] = "none"
        /\ ~wrote[r] /\ settled[r] = {} /\ ~refusable[r]
    BY DEF Init
  <2>2. DOMAIN copy[r] = {}
    BY <2>1, NoCopyTyped
  <2> QED BY <2>1, <2>2 DEF Observed, Sound, Copies, Owing, Grounds, Once
<1> QED BY <1>1, <1>2, <1>3 DEF IndInv

(***************************************************************************)
(* What every step does to the batches and to the observations.            *)
(***************************************************************************)
\* A batch is changed only together with its version, unless it is created or
\* deleted, and none is absent again.
Moves ==
  /\ op' = op
  /\ \A b \in Batches :
       /\ version'[b] >= version[b]
       /\ batch[b].life # "absent" => batch'[b].life # "absent"
       /\ batch[b].life # "absent" /\ batch'[b].life = "live" /\ version'[b] = version[b] =>
            batch'[b] = batch[b]

Quiet == UNCHANGED <<batch, version>>

LEMMA QuietMoves ==
  ASSUME TypeOK, op' = op, Quiet
  PROVE  Moves
  BY DEF TypeOK, Quiet, Moves

LEMMA PutMoves ==
  ASSUME TypeOK, op' = op, NEW b \in Batches, NEW o \in Object, Put(b, o),
         batch[b].life = "live", o.life = "live"
  PROVE  Moves
<1>1. \A a \in Batches : version[a] \in Nat
  BY DEF TypeOK
<1> QED BY <1>1, PutTyped DEF Moves

\* An accepted update writes what the object has become since nobody wrote it.
LEMMA UpdateCurrent ==
  ASSUME IndInv, NEW r \in Requests, NEW b \in Batches, Update(r, b)
  PROVE  /\ b \in DOMAIN copy[r] /\ copy[r][b].obj = batch[b] /\ batch[b].life = "live"
         /\ Addressed(op[r], b)
         /\ batch[b].cond \in Stoppable /\ ToStop(r, b) = Targets(op[r], b, batch[b])
         /\ Put(b, WithStop(batch[b], Targets(op[r], b, batch[b])))
<1>1. /\ b \in DOMAIN copy[r] /\ batch[b].life = "live" /\ version[b] = copy[r][b].version
      /\ ToStop(r, b) # {}
      /\ Put(b, WithStop(copy[r][b].obj, ToStop(r, b)))
  BY DEF Update, Visits, CurrentVersion
<1>2. Addressed(op[r], b) /\ copy[r][b].obj = batch[b]
  BY <1>1 DEF IndInv, Sound, Copies, ReadOf
<1>3. batch[b].cond \in Stoppable /\ ToStop(r, b) = Targets(op[r], b, batch[b])
  BY <1>1, <1>2 DEF ToStop
<1> QED BY <1>1, <1>2, <1>3

LEMMA RestartCurrent ==
  ASSUME IndInv, NEW q \in Restarters, NEW J, held[q] # NoName, RestartJobs(q, J)
  PROVE  /\ held[q].batch \in Batches /\ batch[held[q].batch].life = "live"
         /\ held[q].obj = batch[held[q].batch]
         /\ Put(held[q].batch, WithRestart(batch[held[q].batch], J, q))
<1>1. held[q].batch \in Batches
  BY DEF IndInv, TypeOK
<1>2. ReadOf(held[q].batch, held[q].obj, held[q].version)
  BY DEF IndInv, HeldAreRead, HeldIsRead
<1> QED BY <1>1, <1>2 DEF RestartJobs, CurrentVersion, ReadOf

LEMMA UpdateMoves ==
  ASSUME IndInv, NEW r \in Requests, NEW b \in Batches, Update(r, b)
  PROVE  Moves
<1>1. batch[b] \in Object /\ Targets(op[r], b, batch[b]) \in SUBSET Jobs
  BY TargetsTyped DEF IndInv, TypeOK
<1>2. op' = op
  BY DEF Update, Handled
<1> QED BY <1>1, <1>2, UpdateCurrent, WithStopTyped, PutMoves DEF IndInv

LEMMA RestartMoves ==
  ASSUME IndInv, NEW q \in Restarters, NEW J, held[q] # NoName, RestartJobs(q, J)
  PROVE  Moves
<1>1. held[q].batch \in Batches /\ batch[held[q].batch] \in Object
  BY RestartCurrent DEF IndInv, TypeOK
<1>2. op' = op
  BY DEF RestartJobs
<1> QED BY <1>1, <1>2, RestartCurrent, WithRestartTyped, PutMoves DEF IndInv

LEMMA OthersMove ==
  ASSUME TypeOK, NEW b \in Batches, Others(b)
  PROVE  Moves
<1>1. CASE OperatorWrites(b)
  <2>1. PICK o \in Object : Put(b, o) /\ o.life = "live"
    <3>1. batch[b] \in Object /\ JobsOf[b] \subseteq Jobs /\ batch[b].life = "live"
      BY <1>1 DEF OperatorWrites, TypeOK
    <3>2. ASSUME NEW c \in OperatorConditions
          PROVE  [batch[b] EXCEPT !.cond = c] \in Object /\ [batch[b] EXCEPT !.cond = c].life = "live"
      BY <3>1, StatusTyped
    <3>3. ASSUME NEW j \in JobsOf[b], NEW ph \in OperatorPhases
          PROVE  /\ [batch[b] EXCEPT !.phase[j] = ph] \in Object
                 /\ [batch[b] EXCEPT !.phase[j] = ph].life = "live"
      BY <3>1, StatusTyped
    <3>4. CASE \E c \in OperatorConditions : Put(b, [batch[b] EXCEPT !.cond = c])
      BY <3>2, <3>4
    <3>5. CASE \E j \in JobsOf[b], ph \in OperatorPhases : Put(b, [batch[b] EXCEPT !.phase[j] = ph])
      BY <3>3, <3>5
    <3> QED BY <1>1, <3>4, <3>5 DEF OperatorWrites
  <2> QED BY <1>1, <2>1, PutMoves DEF OperatorWrites
<1>2. CASE CreateBatch(b) \/ DeleteBatch(b)
  <2>1. batch \in [Batches -> Object] /\ version \in [Batches -> Nat]
    BY DEF TypeOK
  <2>2. /\ batch[b].life = "absent" \/ batch'[b].life = "gone"
        /\ batch'[b].life # "absent"
    BY <1>2, <2>1 DEF CreateBatch, DeleteBatch, Object
  <2>3. \A a \in Batches \ {b} : batch'[a] = batch[a]
    BY <1>2, <2>1 DEF CreateBatch, DeleteBatch
  <2>4. version' = version /\ op' = op
    BY <1>2 DEF CreateBatch, DeleteBatch
  <2> QED BY <2>1, <2>2, <2>3, <2>4 DEF Moves
<1> QED BY <1>1, <1>2 DEF Others

LEMMA StepMoves ==
  ASSUME IndInv, Step
  PROVE  Moves
<1>1. TypeOK
  BY DEF IndInv
<1>2. ASSUME NEW r \in Requests, NEW b \in Batches, UpdateDone(r, b) \/ UpdateResponseLost(r, b) PROVE Moves
  BY <1>2, UpdateMoves DEF UpdateDone, UpdateResponseLost
<1>3. ASSUME NEW r \in Requests, NEW b \in Batches,
             \/ Send(r) \/ List(r) \/ ListFails(r) \/ Refuse(r, b) \/ Skip(r, b)
             \/ UpdateRejected(r, b) \/ UpdateUnsent(r, b) \/ Retry(r) \/ Finish(r)
      PROVE  Moves
  <2>1. op' = op /\ Quiet
    BY <1>3
    DEF Send, List, ListFails, Refuse, Skip, UpdateRejected, UpdateUnsent, Retry, Finish, Reply, Handled,
        cluster, Quiet
  <2> QED BY <1>1, <2>1, QuietMoves
<1>4. ASSUME NEW r \in Requests, Send(r) \/ List(r) \/ ListFails(r) \/ Retry(r) \/ Finish(r) PROVE Moves
  <2>1. op' = op /\ Quiet
    BY <1>4 DEF Send, List, ListFails, Retry, Finish, Reply, cluster, Quiet
  <2> QED BY <1>1, <2>1, QuietMoves
<1>5. ASSUME NEW q \in Restarters, Caller(q) PROVE Moves
  <2>1. CASE RestartFails(q) \/ \E b \in Batches : ReadBatch(q, b)
    <3>1. op' = op /\ Quiet
      BY <2>1 DEF RestartFails, ReadBatch, cluster, Quiet
    <3> QED BY <1>1, <3>1, QuietMoves
  <2>2. CASE RestartRadixBatch(q) \/ RestartRadixBatchJob(q)
    BY <2>2, RestartMoves DEF RestartRadixBatch, RestartRadixBatchJob
  <2> QED BY <1>5, <2>1, <2>2 DEF Caller
<1> QED BY <1>1, <1>2, <1>3, <1>4, <1>5, OthersMove DEF Step, Stop, Visit

LEMMA ObservedStep ==
  ASSUME TypeOK, Moves, Promise!Observe, NEW r \in Requests, Observed(r)
  PROVE  /\ Observed(r)'
         /\ answer[r] = "pending" /\ answer'[r] = "pending" =>
              settled[r] \subseteq settled'[r] /\ (refusable[r] => refusable'[r])
<1>1. Promise!Owed(r)' = Promise!Owed(r)
  BY DEF Moves, Promise!Owed
<1>2. Promise!AbsentNow(r)' \subseteq Promise!AbsentNow(r)
  BY <1>1 DEF Moves, Promise!AbsentNow, Promise!Owed
<1>3. /\ settled'[r] = IF answer'[r] # "pending" THEN {}
                       ELSE Promise!SettledNow(r)' \cup
                            IF answer[r] = "pending" THEN settled[r] ELSE Promise!AbsentNow(r)'
      /\ refusable'[r] = (/\ answer'[r] = "pending"
                          /\ \/ answer[r] = "pending" /\ refusable[r]
                             \/ Promise!RefusableNow(r)')
  BY DEF Promise!Observe
<1>4. Observed(r)'
  BY <1>2, <1>3 DEF Observed
<1> QED BY <1>3, <1>4

\* A step that changes neither the batches nor the answers observes nothing new.
LEMMA NothingObserved ==
  ASSUME IndInv, UNCHANGED <<batch, op, answer>>, Promise!Observe
  PROVE  UNCHANGED <<settled, refusable>>
<1>1. ASSUME NEW r \in Requests PROVE settled'[r] = settled[r] /\ refusable'[r] = refusable[r]
  <2>1. /\ Promise!SettledNow(r)' = Promise!SettledNow(r)
        /\ Promise!AbsentNow(r)' = Promise!AbsentNow(r)
        /\ Promise!RefusableNow(r)' = Promise!RefusableNow(r)
    BY DEF Promise!SettledNow, Promise!AbsentNow, Promise!RefusableNow, Promise!Existing,
        Promise!Unfinished, Promise!Owed
  <2>2. /\ settled'[r] = IF answer[r] # "pending" THEN {}
                         ELSE Promise!SettledNow(r) \cup settled[r]
        /\ refusable'[r] = (/\ answer[r] = "pending"
                            /\ refusable[r] \/ Promise!RefusableNow(r))
    BY <2>1 DEF Promise!Observe
  <2>3. Observed(r) /\ refusable[r] \in BOOLEAN
    BY DEF IndInv, TypeOK
  <2> QED BY <2>2, <2>3 DEF Observed
<1>2. /\ settled = [r \in Requests |-> settled[r]] /\ refusable = [r \in Requests |-> refusable[r]]
      /\ settled' = [r \in Requests |-> settled'[r]] /\ refusable' = [r \in Requests |-> refusable'[r]]
  BY DEF IndInv, TypeOK, Promise!Observe
<1> QED BY <1>1, <1>2

(***************************************************************************)
(* The requests.                                                           *)
(***************************************************************************)
SameRequest(r) ==
  /\ pc'[r] = pc[r] /\ copy'[r] = copy[r] /\ found'[r] = found[r] /\ failure'[r] = failure[r]
  /\ wrote'[r] = wrote[r] /\ answer'[r] = answer[r]

\* What was read stays read.
LEMMA CopiesStay ==
  ASSUME TypeOK, TypeOK', Moves, NEW r \in Requests, Copies(r),
         DOMAIN copy'[r] \subseteq DOMAIN copy[r],
         \A b \in DOMAIN copy'[r] : copy'[r][b] = copy[r][b]
  PROVE  \A b \in DOMAIN copy'[r] :
           Addressed(op'[r], b) /\ ReadOf(b, copy[r][b].obj, copy[r][b].version)'
<1> SUFFICES ASSUME NEW b \in DOMAIN copy'[r]
             PROVE  Addressed(op'[r], b) /\ ReadOf(b, copy[r][b].obj, copy[r][b].version)'
  OBVIOUS
<1>1. b \in DOMAIN copy[r] /\ b \in Batches /\ copy[r][b].version \in Nat
  BY CopyTyped
<1>2. Addressed(op[r], b) /\ ReadOf(b, copy[r][b].obj, copy[r][b].version)
  BY <1>1 DEF Copies
<1>3. version[b] \in Nat /\ op' = op /\ copy'[r][b] = copy[r][b]
  BY <1>1 DEF TypeOK, Moves
<1>4. /\ version'[b] >= version[b] /\ version'[b] \in Nat
  BY <1>1, <1>3 DEF Moves, TypeOK
<1> QED BY <1>1, <1>2, <1>3, <1>4 DEF ReadOf, Moves

\* A request that takes no step stays sound, whatever is done to the batches.
LEMMA SameRequestSound ==
  ASSUME TypeOK, TypeOK', Moves, Promise!Observe, NEW r \in Requests, Observed(r), Sound(r),
         SameRequest(r)
  PROVE  Sound(r)'
<1> USE DEF Sound, SameRequest
<1>1. op' = op /\ Promise!Owed(r)' = Promise!Owed(r)
  BY DEF Moves, Promise!Owed
<1>2. pc[r] = "visit" =>
        settled[r] \subseteq settled'[r] /\ (refusable[r] => refusable'[r])
  BY ObservedStep DEF Copies
<1>3. Copies(r)'
  BY CopiesStay DEF Copies
<1>4. Owing(r)'
  BY <1>1, <1>2 DEF Owing
<1>5. Grounds(r)'
  BY <1>1, <1>2 DEF Grounds, Refuses, RefusesFinished, SettledIn, AddressedJobs, Named
<1>6. Once(r)'
  BY <1>1 DEF Once, ToStop, Targets, AddressedJobs, Named
<1> QED BY <1>3, <1>4, <1>5, <1>6

LEMMA SendSound ==
  ASSUME IndInv, TypeOK', Moves, Promise!Observe, NEW r \in Requests, Send(r)
  PROVE  Sound(r)'
<1>1. /\ answer[r] = "none" /\ answer'[r] = "pending" /\ pc'[r] = "list"
      /\ UNCHANGED <<op, copy, found, failure, wrote>>
  BY DEF Send, IndInv, TypeOK
<1>2. pc[r] = "idle" /\ DOMAIN copy[r] = {} /\ failure[r] = "none" /\ ~wrote[r]
  BY <1>1 DEF IndInv, Sound, Copies
<1> QED BY <1>1, <1>2 DEF Sound, Copies, Owing, Grounds, Once, Named

LEMMA ReplySound ==
  ASSUME IndInv, TypeOK', NEW r \in Requests, NEW a \in {"ok", "refused", "error"}, Reply(r, a)
  PROVE  Sound(r)'
<1>1. /\ answer'[r] = a /\ pc'[r] = "idle" /\ copy'[r] = NoCopy /\ failure'[r] = "none"
      /\ op' = op
  BY DEF Reply, IndInv, TypeOK
<1>2. DOMAIN copy'[r] = {}
  BY <1>1, NoCopyTyped
<1> QED BY <1>1, <1>2 DEF Sound, Copies, Owing, Grounds, Once, Named

\* The batches that a request lists give it no reason that it has not observed.
LEMMA ListSound ==
  ASSUME IndInv, TypeOK', NEW r \in Requests, List(r), Promise!Observe
  PROVE  Sound(r)'
<1>1. /\ pc[r] = "list" /\ pc'[r] = "visit"
      /\ copy'[r] = [b \in Listed(r) |-> [obj |-> batch[b], version |-> version[b]]]
      /\ found'[r] = (/\ Named(op[r]) => Listed(r) # {}
                      /\ op[r].job # NoName =>
                           \E b \in Listed(r) : op[r].job \in JobsOf[b] /\ batch[b].cond \in Stoppable)
      /\ UNCHANGED <<batch, version, op, answer, failure, wrote>>
  BY DEF List, IndInv, TypeOK, cluster
<1>2. settled' = settled /\ refusable' = refusable
  BY <1>1, NothingObserved
<1>3. /\ answer[r] = "pending" /\ failure[r] = "none"
      /\ Promise!SettledNow(r) \subseteq settled[r] /\ Promise!AbsentNow(r) \subseteq settled[r]
      /\ Promise!RefusableNow(r) => refusable[r]
  BY <1>1 DEF IndInv, Sound, Copies, Observed
<1>4. DOMAIN copy'[r] = Listed(r) /\ Promise!Owed(r)' = Promise!Owed(r)
  BY <1>1 DEF Promise!Owed
<1>5. ASSUME NEW b \in Listed(r)
      PROVE  /\ b \in Batches /\ batch[b].life = "live" /\ Addressed(op[r], b)
             /\ copy'[r][b].obj = batch[b] /\ copy'[r][b].version = version[b] /\ version[b] \in Nat
  BY <1>1 DEF Listed, IndInv, TypeOK
<1>6. Copies(r)'
  <2>1. \A b \in Listed(r) :
          Addressed(op'[r], b) /\ ReadOf(b, copy[r][b].obj, copy[r][b].version)'
    <3> SUFFICES ASSUME NEW b \in Listed(r)
                 PROVE  Addressed(op'[r], b) /\ ReadOf(b, copy[r][b].obj, copy[r][b].version)'
      OBVIOUS
    <3>1. batch' = batch /\ version' = version /\ op' = op
      BY <1>1
    <3>2. /\ Addressed(op[r], b) /\ batch[b].life = "live"
          /\ copy'[r][b].obj = batch[b] /\ copy'[r][b].version = version[b] /\ version[b] \in Nat
      BY <1>5
    <3> QED BY <3>1, <3>2 DEF ReadOf
  <2> QED BY <1>1, <1>3, <1>4, <2>1 DEF Copies
<1>7. Owing(r)'
  <2> SUFFICES ASSUME NEW p \in Promise!Owed(r) PROVE p[1] \in Listed(r) \/ p \in settled[r]
    BY <1>2, <1>4 DEF Owing
  <2>1. p[1] \in Batches /\ Addressed(op[r], p[1]) /\ batch[p[1]].life \in {"absent", "live", "gone"}
    <3>1. p[1] \in Batches /\ Addressed(op[r], p[1])
      BY SameHelpers DEF Promise!Owed
    <3>2. batch[p[1]] \in Object
      BY <3>1 DEF IndInv, TypeOK
    <3> QED BY <3>1, <3>2 DEF Object
  <2>2. CASE batch[p[1]].life = "live"
    BY <2>1, <2>2 DEF Listed
  <2>3. CASE batch[p[1]].life = "absent"
    BY <1>3, <2>3 DEF Promise!AbsentNow
  <2>4. CASE batch[p[1]].life = "gone"
    BY <1>3, <2>4 DEF Promise!SettledNow
  <2> QED BY <2>1, <2>2, <2>3, <2>4
<1>8. Grounds(r)'
  <2>1. ASSUME NEW b \in Listed(r), NEW p \in Promise!Owed(r), p[1] = b, SettledIn(r, p[2], batch[b])
        PROVE  p \in settled[r]
    BY <1>3, <2>1, SameHelpers DEF SettledIn, Promise!SettledNow
  <2>1a. /\ Promise!Existing(r) = Listed(r)
         /\ Promise!Unfinished(r) = {b \in Listed(r) : batch[b].cond \in Stoppable}
    BY SameHelpers DEF Promise!Existing, Promise!Unfinished, Listed
  <2>2. ASSUME NEW b \in Listed(r),
               \/ batch[b].cond \notin Stoppable /\ Named(op[r])
               \/ /\ batch[b].cond \in Stoppable
                  /\ RefusesFinished(op[r], b)
                  /\ \E j \in AddressedJobs(op[r], b) : batch[b].phase[j] \in Finished
        PROVE  refusable[r]
    <3>1. CASE batch[b].cond \notin Stoppable /\ Named(op[r])
      <4>1. Promise!Unfinished(r) # Promise!Existing(r)
        BY <2>1a, <3>1
      <4>2. Promise!RefusableNow(r)
        BY <3>1, <4>1, SameHelpers DEF Promise!RefusableNow
      <4> QED BY <1>3, <4>2
    <3>2. CASE ~(batch[b].cond \notin Stoppable /\ Named(op[r]))
      <4>1. b \in Promise!Unfinished(r)
        BY <2>1a, <2>2, <3>2
      <4>2. /\ Promise!RefusesFinished(op[r], b)
            /\ \E j \in Promise!AddressedJobs(op[r], b) : batch[b].phase[j] \in Promise!Finished
        BY <2>2, <3>2, SameHelpers
      <4>3. Promise!RefusableNow(r)
        BY <4>1, <4>2 DEF Promise!RefusableNow
      <4> QED BY <1>3, <4>3
    <3> QED BY <3>1, <3>2
  <2>3. ASSUME ~found'[r] PROVE refusable[r]
    <3>1. CASE Named(op[r]) /\ Listed(r) = {}
      BY <1>3, <2>1a, <3>1, SameHelpers DEF Promise!RefusableNow
    <3>2. CASE ~(Named(op[r]) /\ Listed(r) = {})
      <4>1. /\ op[r].job # NoName
            /\ \A b \in Listed(r) : batch[b].cond \in Stoppable => op[r].job \notin JobsOf[b]
        BY <1>1, <2>3, <3>2
      <4>2. \A b \in Promise!Unfinished(r) : op[r].job \notin JobsOf[b]
        BY <2>1a, <4>1
      <4>3. Promise!RefusableNow(r)
        BY <4>1, <4>2 DEF Promise!RefusableNow
      <4> QED BY <1>3, <4>3
    <3> QED BY <3>1, <3>2
  <2>4. ASSUME NEW b \in Listed(r), Refuses(r, b)' PROVE refusable[r]
    BY <1>1, <1>5, <2>2, <2>4 DEF Refuses
  <2>5. ASSUME NEW b \in Listed(r), NEW p \in Promise!Owed(r), p[1] = b, SettledIn(r, p[2], copy[r][b].obj)'
        PROVE  p \in settled[r]
    BY <1>1, <1>5, <2>1, <2>5 DEF SettledIn
  <2> QED BY <1>1, <1>2, <1>4, <2>3, <2>4, <2>5 DEF Grounds
<1>9. Once(r)'
  <2>1. Named(op[r]) => ~wrote[r]
    BY <1>1, <1>3 DEF IndInv, Sound, Once
  <2>2. ASSUME NEW b \in Listed(r), ToStop(r, b)' # {} PROVE found'[r]
    <3>1. batch[b].cond \in Stoppable /\ AddressedJobs(op[r], b) # {}
      BY <1>1, <1>5, <2>2 DEF ToStop, Targets, AddressedJobs
    <3> QED BY <1>1, <3>1 DEF AddressedJobs
  <2> QED BY <1>1, <1>3, <1>4, <2>1, <2>2 DEF Once
<1> QED BY <1>6, <1>7, <1>8, <1>9 DEF Sound

\* What remains of the copies when batch b has been handled.
LEMMA HandledSound ==
  ASSUME IndInv, TypeOK', Moves, Promise!Observe, NEW r \in Requests, NEW b \in DOMAIN copy[r],
         pc[r] = "visit", Handled(r, b)
  PROVE  Copies(r)' /\ Grounds(r)'
<1>1. /\ DOMAIN copy'[r] = DOMAIN copy[r] \ {b} /\ \A a \in DOMAIN copy'[r] : copy'[r][a] = copy[r][a]
      /\ UNCHANGED <<op, answer, pc, found>>
  BY HandledTyped, CopyTyped DEF IndInv
<1>2. /\ Copies(r) /\ Grounds(r) /\ answer[r] = "pending"
      /\ settled[r] \subseteq settled'[r] /\ (refusable[r] => refusable'[r])
  BY <1>1, ObservedStep DEF IndInv, Sound, Copies
<1>3. Copies(r)'
  <2>1. \A a \in DOMAIN copy'[r] :
          Addressed(op'[r], a) /\ ReadOf(a, copy[r][a].obj, copy[r][a].version)'
    BY <1>1, <1>2, CopiesStay DEF IndInv
  <2> QED BY <1>1, <1>2, <2>1 DEF Copies
<1>4. Grounds(r)'
  <2>1. Promise!Owed(r)' = Promise!Owed(r)
    BY <1>1 DEF Promise!Owed
  <2>2. \A a \in DOMAIN copy'[r] : Refuses(r, a)' => Refuses(r, a)
    BY <1>1 DEF Refuses, RefusesFinished, AddressedJobs, Named
  <2>3. \A a \in DOMAIN copy'[r], p \in Promise!Owed(r) :
          SettledIn(r, p[2], copy[r][a].obj)' => SettledIn(r, p[2], copy[r][a].obj)
    BY <1>1 DEF SettledIn, Named
  <2> QED BY <1>1, <1>2, <2>1, <2>2, <2>3 DEF Grounds, Named
<1> QED BY <1>3, <1>4

LEMMA SkipSound ==
  ASSUME IndInv, TypeOK', Moves, Promise!Observe, NEW r \in Requests, NEW b \in Batches, Skip(r, b)
  PROVE  Sound(r)'
<1>1. /\ pc[r] = "visit" /\ b \in DOMAIN copy[r] /\ ~Refuses(r, b) /\ ToStop(r, b) = {}
      /\ Handled(r, b) /\ UNCHANGED <<failure, wrote>>
  BY DEF Skip, Visits
<1>2. /\ DOMAIN copy'[r] = DOMAIN copy[r] \ {b}
      /\ UNCHANGED <<op, answer, pc, found>>
  BY <1>1, HandledTyped DEF IndInv
<1>3. settled[r] \subseteq settled'[r] /\ answer[r] = "pending"
  BY <1>1, <1>2, ObservedStep DEF IndInv, Sound, Copies
<1>4. Owing(r)'
  <2>1. ASSUME NEW p \in Promise!Owed(r), p[1] = b PROVE p \in settled[r]
    <3> DEFINE o == copy[r][b].obj
    <3>1. p[2] \in AddressedJobs(op[r], b)
      BY <2>1, SameHelpers DEF Promise!Owed
    <3>2. CASE o.cond \in Stoppable
      <4>1. o.phase[p[2]] \in Finished
        BY <1>1, <3>1, <3>2 DEF ToStop, Targets
      <4> QED BY <1>1, <2>1, <4>1 DEF IndInv, Sound, Grounds, SettledIn
    <3>3. CASE o.cond \notin Stoppable
      <4>1. ~Named(op[r])
        BY <1>1, <3>3 DEF Refuses
      <4> QED BY <1>1, <2>1, <3>3, <4>1 DEF IndInv, Sound, Grounds, SettledIn
    <3> QED BY <3>2, <3>3
  <2>2. Promise!Owed(r)' = Promise!Owed(r) /\ Owing(r)
    BY <1>2 DEF Promise!Owed, IndInv, Sound
  <2> QED BY <1>1, <1>2, <1>3, <2>1, <2>2 DEF Owing
<1>5. Once(r)'
  <2>1. Once(r) /\ \A a \in DOMAIN copy'[r] : copy'[r][a] = copy[r][a]
    BY <1>1, HandledTyped DEF IndInv, Sound
  <2> QED BY <1>1, <1>2, <2>1 DEF Once, Named, ToStop, Targets, AddressedJobs
<1>6. Copies(r)' /\ Grounds(r)'
  BY <1>1, HandledSound
<1> QED BY <1>4, <1>5, <1>6 DEF Sound

\* A named request has only one batch to handle.
LEMMA NamedHandlesOne ==
  ASSUME IndInv, NEW r \in Requests, NEW b \in DOMAIN copy[r], Named(op[r])
  PROVE  DOMAIN copy[r] = {b} /\ failure[r] = "none"
<1>1. \A a \in DOMAIN copy[r] : op[r].batch = a
  BY DEF IndInv, Sound, Copies, Addressed, Named
<1> QED BY <1>1 DEF IndInv, Sound, Once

LEMMA FailureSound ==
  ASSUME IndInv, TypeOK', Moves, Promise!Observe, NEW r \in Requests, NEW b \in Batches,
         UpdateRejected(r, b) \/ UpdateUnsent(r, b) \/ UpdateResponseLost(r, b)
  PROVE  Sound(r)'
<1>1. PICK e \in {"plain", "notFound", "conflict"} : Fail(r, e) /\ (UpdateResponseLost(r, b) => e = "plain")
  BY DEF UpdateRejected, UpdateUnsent, UpdateResponseLost
<1>2. /\ pc[r] = "visit" /\ b \in DOMAIN copy[r] /\ ToStop(r, b) # {} /\ Handled(r, b)
      /\ wrote'[r] = wrote[r] \/ (wrote'[r] = TRUE /\ UpdateResponseLost(r, b))
  BY DEF UpdateRejected, UpdateUnsent, UpdateResponseLost, Update, Visits, IndInv, TypeOK
<1>3. /\ DOMAIN copy'[r] = DOMAIN copy[r] \ {b}
      /\ UNCHANGED <<op, answer, pc, found>>
  BY <1>2, HandledTyped DEF IndInv
<1>4. failure'[r] # "none" /\ failure'[r] = IF failure[r] \in {"none", "plain"} THEN e ELSE failure[r]
  BY <1>1, FailTyped DEF IndInv
<1>5. Owing(r)'
  BY <1>4 DEF Owing
<1>6. Once(r)'
  <2> SUFFICES ASSUME Named(op[r]) PROVE Once(r)'
    BY <1>3 DEF Once, Named
  <2>1. DOMAIN copy'[r] = {} /\ failure[r] = "none"
    BY <1>2, <1>3, NamedHandlesOne
  <2>2. ~wrote[r] /\ found[r] /\ answer[r] = "pending"
    BY <1>2 DEF IndInv, Sound, Once, Copies, TypeOK
  <2> QED BY <1>1, <1>2, <1>3, <1>4, <2>1, <2>2 DEF Once
<1>7. Copies(r)' /\ Grounds(r)'
  BY <1>2, HandledSound
<1> QED BY <1>5, <1>6, <1>7 DEF Sound

\* After an accepted update every job of the batch that was asked for is flagged
\* or finished.
LEMMA UpdateSettles ==
  ASSUME IndInv, TypeOK', Promise!Observe, NEW r \in Requests, NEW b \in Batches, Update(r, b)
  PROVE  \A p \in Promise!Owed(r) : p[1] = b => p \in settled'[r]
<1> SUFFICES ASSUME NEW p \in Promise!Owed(r), p[1] = b PROVE p \in settled'[r]
  OBVIOUS
<1>1. /\ batch[b] \in Object /\ Targets(op[r], b, batch[b]) \in SUBSET Jobs
      /\ p[2] \in AddressedJobs(op[r], b)
  BY TargetsTyped, SameHelpers DEF IndInv, TypeOK, Promise!Owed
<1>2. batch'[b] = WithStop(batch[b], Targets(op[r], b, batch[b]))
  BY <1>1, UpdateCurrent, WithStopTyped, PutTyped DEF IndInv
<1>3. p[2] \in batch'[b].stop \/ batch'[b].phase[p[2]] \in Finished
  BY <1>1, <1>2 DEF WithStop, Targets, Object
<1>4. answer'[r] = "pending" /\ op' = op
  BY DEF Update, Visits, Handled, IndInv, Sound, Copies
<1>5. p \in Promise!SettledNow(r)'
  BY <1>3, <1>4, SameHelpers DEF Promise!SettledNow, Promise!Owed
<1> QED BY <1>4, <1>5 DEF Promise!Observe

LEMMA UpdateDoneSound ==
  ASSUME IndInv, TypeOK', Moves, Promise!Observe, NEW r \in Requests, NEW b \in Batches, UpdateDone(r, b)
  PROVE  Sound(r)'
<1>1. /\ pc[r] = "visit" /\ b \in DOMAIN copy[r] /\ ToStop(r, b) # {} /\ Handled(r, b)
      /\ Update(r, b) /\ failure' = failure /\ wrote'[r] = TRUE
  BY DEF UpdateDone, Update, Visits, IndInv, TypeOK
<1>2. /\ DOMAIN copy'[r] = DOMAIN copy[r] \ {b}
      /\ UNCHANGED <<op, answer, pc, found>>
  BY <1>1, HandledTyped DEF IndInv
<1>3. settled[r] \subseteq settled'[r] /\ answer[r] = "pending"
  BY <1>1, <1>2, ObservedStep DEF IndInv, Sound, Copies
<1>4. Owing(r)'
  <2>1. Promise!Owed(r)' = Promise!Owed(r) /\ Owing(r)
    BY <1>2 DEF Promise!Owed, IndInv, Sound
  <2> QED BY <1>1, <1>2, <1>3, <2>1, UpdateSettles DEF Owing
<1>5. Once(r)'
  <2> SUFFICES ASSUME Named(op[r]) PROVE Once(r)'
    BY <1>2 DEF Once, Named
  <2>1. DOMAIN copy'[r] = {} /\ failure[r] = "none"
    BY <1>1, <1>2, NamedHandlesOne
  <2>2. found[r]
    BY <1>1 DEF IndInv, Sound, Once
  <2> QED BY <1>1, <1>2, <2>1, <2>2 DEF Once
<1>6. Copies(r)' /\ Grounds(r)'
  BY <1>1, HandledSound
<1> QED BY <1>4, <1>5, <1>6 DEF Sound

LEMMA RetrySound ==
  ASSUME IndInv, NEW r \in Requests, Retry(r)
  PROVE  Sound(r)'
<1>1. /\ pc[r] = "visit" /\ failure[r] = "conflict" /\ DOMAIN copy[r] = {}
      /\ pc'[r] = "list" /\ failure'[r] = "none" /\ UNCHANGED <<op, answer, copy, wrote>>
  BY NoCopyTyped DEF Retry, Retries, IndInv, TypeOK
<1>2. answer[r] = "pending" /\ (Named(op[r]) => ~wrote[r])
  BY <1>1 DEF IndInv, Sound, Copies, Once
<1> QED BY <1>1, <1>2 DEF Sound, Copies, Owing, Grounds, Once, Named

(***************************************************************************)
(* Every step.                                                             *)
(***************************************************************************)
\* The requests but r are left alone.
Alone(r) == \A s \in Requests \ {r} : SameRequest(s)

LEMMA HeldStep ==
  ASSUME IndInv, TypeOK', Moves,
         \A q \in Restarters : held'[q] = NoName \/ held'[q] = held[q] \/ HeldIsRead(q)'
  PROVE  HeldAreRead'
<1> SUFFICES ASSUME NEW q \in Restarters, held'[q] # NoName, held'[q] = held[q]
             PROVE  HeldIsRead(q)'
  BY DEF HeldAreRead, HeldIsRead
<1>1. /\ held[q].batch \in Batches /\ held[q].version \in Nat
      /\ ReadOf(held[q].batch, held[q].obj, held[q].version)
  BY DEF IndInv, TypeOK, HeldAreRead, HeldIsRead
<1>2. /\ version[held[q].batch] \in Nat
      /\ version'[held[q].batch] >= version[held[q].batch]
  BY <1>1 DEF IndInv, TypeOK, Moves
<1>3. version'[held[q].batch] \in Nat
  BY <1>1 DEF TypeOK
<1> QED BY <1>1, <1>2, <1>3 DEF ReadOf, Moves, HeldIsRead

\* The steps of request r.
LEMMA RequestStep ==
  ASSUME IndInv, TypeOK', Moves, Promise!Observe, NEW r \in Requests, Send(r) \/ Stop(r)
  PROVE  Sound(r)' /\ Alone(r) /\ held' = held
<1>1. TypeOK
  BY DEF IndInv
<1>2. ASSUME NEW a \in {"ok", "refused", "error"}, Reply(r, a) PROVE Alone(r) /\ held' = held
  BY <1>1, <1>2 DEF Reply, Alone, SameRequest, TypeOK
<1>3. CASE Send(r)
  BY <1>1, <1>3, SendSound DEF Send, Alone, SameRequest, TypeOK
<1>4. CASE List(r)
  BY <1>1, <1>4, ListSound DEF List, Alone, SameRequest, TypeOK
<1>5. CASE Retry(r)
  BY <1>1, <1>5, RetrySound DEF Retry, Alone, SameRequest, TypeOK
<1>6. ASSUME NEW b \in Batches, Skip(r, b) PROVE Sound(r)' /\ Alone(r) /\ held' = held
  <2>1. Sound(r)'
    BY <1>6, SkipSound
  <2> QED BY <1>1, <1>6, <2>1, HandledTyped DEF Skip, Alone, SameRequest
<1>7. ASSUME NEW b \in Batches, UpdateDone(r, b) PROVE Sound(r)' /\ Alone(r) /\ held' = held
  <2>1. Sound(r)'
    BY <1>7, UpdateDoneSound
  <2>2. Handled(r, b) /\ failure' = failure /\ wrote' = [wrote EXCEPT ![r] = TRUE]
    BY <1>7 DEF UpdateDone, Update
  <2> QED BY <1>1, <2>1, <2>2, HandledTyped DEF Alone, SameRequest, TypeOK
<1>8. ASSUME NEW b \in Batches, UpdateRejected(r, b) \/ UpdateUnsent(r, b) \/ UpdateResponseLost(r, b)
      PROVE  Sound(r)' /\ Alone(r) /\ held' = held
  <2>1. Sound(r)'
    BY <1>8, FailureSound
  <2>2. PICK e \in {"plain", "notFound", "conflict"} : Fail(r, e)
    BY <1>8 DEF UpdateRejected, UpdateUnsent, UpdateResponseLost
  <2>3. Handled(r, b) /\ \A s \in Requests \ {r} : wrote'[s] = wrote[s]
    BY <1>1, <1>8 DEF UpdateRejected, UpdateUnsent, UpdateResponseLost, Update, TypeOK
  <2> QED BY <1>1, <2>1, <2>2, <2>3, HandledTyped, FailTyped DEF Alone, SameRequest
<1>9. CASE ListFails(r) \/ Finish(r) \/ \E b \in Batches : Refuse(r, b)
  <2>1. PICK a \in {"ok", "refused", "error"} : Reply(r, a)
    BY <1>9 DEF ListFails, Finish, Refuse
  <2> QED BY <1>2, <2>1, ReplySound
<1> QED BY <1>3, <1>4, <1>5, <1>6, <1>7, <1>8, <1>9 DEF Stop, Visit

LEMMA IndInvStep ==
  ASSUME IndInv, Step, Promise!Observe
  PROVE  IndInv'
<1>1. TypeOK /\ TypeOK' /\ Moves
  BY TypeStep, StepMoves DEF IndInv
<1>2. \A r \in Requests : Observed(r)'
  BY <1>1, ObservedStep DEF IndInv
<1>3. ASSUME NEW s \in Requests, SameRequest(s) PROVE Sound(s)'
  BY <1>1, <1>3, SameRequestSound DEF IndInv
<1>4. ASSUME UNCHANGED <<op, answer, request, wrote>> PROVE \A s \in Requests : Sound(s)'
  BY <1>3, <1>4 DEF SameRequest, request
<1>5. ASSUME held' = held PROVE HeldAreRead'
  BY <1>1, <1>5, HeldStep
<1>6. ASSUME NEW r \in Requests, Send(r) \/ Stop(r) PROVE IndInv'
  <2>1. Sound(r)' /\ Alone(r) /\ held' = held
    BY <1>1, <1>6, RequestStep
  <2>2. \A s \in Requests : Sound(s)'
    BY <1>3, <2>1 DEF Alone
  <2> QED BY <1>1, <1>2, <1>5, <2>1, <2>2 DEF IndInv
<1>7. ASSUME NEW q \in Restarters, Caller(q) PROVE IndInv'
  <2>1. UNCHANGED <<op, answer, request, wrote>>
    BY <1>7 DEF Caller, ReadBatch, RestartRadixBatch, RestartRadixBatchJob, RestartJobs, RestartFails
  <2>2. HeldAreRead'
    <3>1. ASSUME NEW b \in Batches, ReadBatch(q, b) PROVE HeldAreRead'
      <4>1. /\ batch[b].life = "live" /\ UNCHANGED <<batch, version>>
            /\ held' = [held EXCEPT ![q] = [batch |-> b, obj |-> batch[b], version |-> version[b]]]
        BY <3>1 DEF ReadBatch, cluster
      <4>2. /\ held'[q].batch = b /\ held'[q].obj = batch[b] /\ held'[q].version = version[b]
            /\ \A p \in Restarters \ {q} : held'[p] = held[p]
            /\ version[b] \in Nat
        BY <1>1, <4>1 DEF TypeOK
      <4>3. HeldIsRead(q)'
        BY <4>1, <4>2 DEF HeldIsRead, ReadOf
      <4> QED BY <1>1, <4>2, <4>3, HeldStep
    <3>2. ASSUME held' = [held EXCEPT ![q] = NoName] PROVE HeldAreRead'
      <4>1. \A p \in Restarters : held'[p] = NoName \/ held'[p] = held[p]
        BY <1>1, <3>2 DEF TypeOK
      <4> QED BY <1>1, <4>1, HeldStep
    <3> QED BY <1>7, <3>1, <3>2
        DEF Caller, RestartRadixBatch, RestartRadixBatchJob, RestartJobs, RestartFails
  <2> QED BY <1>1, <1>2, <1>4, <2>1, <2>2 DEF IndInv
<1>8. ASSUME NEW b \in Batches, Others(b) PROVE IndInv'
  <2>1. UNCHANGED <<op, answer, request, wrote>> /\ held' = held
    BY <1>8 DEF Others, OperatorWrites, CreateBatch, DeleteBatch
  <2> QED BY <1>1, <1>2, <1>4, <1>5, <2>1 DEF IndInv
<1> QED BY <1>6, <1>7, <1>8 DEF Step

LEMMA IndInvNext == IndInv /\ [Next]_vars => IndInv'
<1>1. ASSUME IndInv, UNCHANGED vars PROVE IndInv'
  BY <1>1
  DEF vars, IndInv, TypeOK, HeldAreRead, HeldIsRead, ReadOf, Observed, Sound, Copies, Owing, Grounds, Once, Refuses,
      RefusesFinished, SettledIn, ToStop, Targets, Named, Addressed, AddressedJobs, Promise!SettledNow,
      Promise!AbsentNow, Promise!RefusableNow, Promise!Existing, Promise!Unfinished, Promise!Owed
<1> QED BY <1>1, IndInvStep DEF Next

LEMMA Invariance == Spec => []IndInv
  BY IndInvInit, IndInvNext, PTL DEF Spec

(***************************************************************************)
(* Refinement.  The state of AtomicStop is part of that of this module.    *)
(***************************************************************************)
LEMMA AbstractInit == Init => Promise!Init
<1> SUFFICES ASSUME Init PROVE Promise!Init
  OBVIOUS
<1>1. TypeOK
  BY TypeInit
<1> QED BY <1>1, SameHelpers DEF TypeOK, Init, Promise!Init

\* An accepted update stops, in one step, the jobs that are unfinished then.
LEMMA UpdateStopsJobs ==
  ASSUME IndInv, NEW r \in Requests, NEW b \in Batches, Update(r, b)
  PROVE  Promise!StopJobs(r, b)
<1>1. pc[r] = "visit" /\ wrote' = [wrote EXCEPT ![r] = TRUE] /\ UNCHANGED <<op, answer>>
  BY DEF Update, Visits, Handled
<1>2. answer[r] = "pending"
  BY <1>1 DEF IndInv, Sound, Copies
<1>3. batch' = [batch EXCEPT ![b] = WithStop(@, Targets(op[r], b, @))]
  BY UpdateCurrent DEF Put
<1> QED BY <1>1, <1>2, <1>3, UpdateCurrent, SameHelpers DEF Promise!StopJobs

\* What a request that answers relies on.
LEMMA ReplyAnswers ==
  ASSUME IndInv, NEW r \in Requests, NEW a \in {"ok", "refused", "error"}, Reply(r, a),
         pc[r] # "idle",
         a = "ok" => Promise!Owed(r) \subseteq settled[r],
         a = "refused" => refusable[r] /\ (Named(op[r]) => ~wrote[r])
  PROVE  Promise!Answer(r, a)
<1>1. answer[r] = "pending"
  BY DEF IndInv, Sound, Copies
<1> QED BY <1>1, SameHelpers DEF Promise!Answer, Reply, cluster

LEMMA RefuseAnswers ==
  ASSUME IndInv, NEW r \in Requests, NEW b \in Batches, Refuse(r, b)
  PROVE  Promise!Answer(r, "refused")
<1>1. pc[r] = "visit" /\ b \in DOMAIN copy[r] /\ Refuses(r, b) /\ Reply(r, "refused")
  BY DEF Refuse
<1>2. refusable[r]
  BY <1>1 DEF IndInv, Sound, Grounds
<1>3. Named(op[r]) => ~wrote[r]
  BY <1>1 DEF IndInv, Sound, Once, Copies
<1> QED BY <1>1, <1>2, <1>3, ReplyAnswers

LEMMA FinishAnswers ==
  ASSUME IndInv, NEW r \in Requests, Finish(r)
  PROVE  \E a \in {"ok", "refused", "error"} : Promise!Answer(r, a)
<1>1. pc[r] = "visit" /\ DOMAIN copy[r] = {}
  BY NoCopyTyped DEF Finish
<1>2. Owing(r) /\ Grounds(r) /\ Once(r) /\ Copies(r)
  BY DEF IndInv, Sound
<1>3. CASE failure[r] # "none"
  <2>1. Reply(r, "error")
    BY <1>3 DEF Finish
  <2> QED BY <1>1, <2>1, ReplyAnswers
<1>4. CASE failure[r] = "none" /\ ~found[r]
  <2>1. Reply(r, "refused")
    BY <1>4 DEF Finish
  <2>2. refusable[r] /\ (Named(op[r]) => ~wrote[r])
    BY <1>1, <1>2, <1>4 DEF Grounds, Once, Copies
  <2> QED BY <1>1, <2>1, <2>2, ReplyAnswers
<1>5. CASE failure[r] = "none" /\ found[r]
  <2>1. Reply(r, "ok")
    BY <1>5 DEF Finish
  <2>2. Promise!Owed(r) \subseteq settled[r]
    BY <1>1, <1>2, <1>5 DEF Owing
  <2> QED BY <1>1, <2>1, <2>2, ReplyAnswers
<1> QED BY <1>3, <1>4, <1>5 DEF IndInv, TypeOK

LEMMA OperatorOperates ==
  ASSUME TypeOK, NEW b \in Batches, OperatorWrites(b)
  PROVE  Promise!Operate(b)
<1>1. batch[b] \in Object /\ JobsOf[b] \subseteq Jobs /\ batch[b].life = "live"
  BY DEF OperatorWrites, TypeOK
<1>2. PICK o \in Object : /\ Put(b, o)
                          /\ o = [batch[b] EXCEPT !.cond = o.cond, !.phase = o.phase]
  <2>1. CASE \E c \in OperatorConditions : Put(b, [batch[b] EXCEPT !.cond = c])
    <3>1. PICK c \in OperatorConditions : Put(b, [batch[b] EXCEPT !.cond = c])
      BY <2>1
    <3> DEFINE o == [batch[b] EXCEPT !.cond = c]
    <3>2. o \in Object
      BY <1>1, StatusTyped
    <3>3. o = [batch[b] EXCEPT !.cond = o.cond, !.phase = o.phase]
      BY <1>1 DEF Object
    <3> QED BY <3>1, <3>2, <3>3
  <2>2. CASE \E j \in JobsOf[b], ph \in OperatorPhases : Put(b, [batch[b] EXCEPT !.phase[j] = ph])
    <3>1. PICK j \in JobsOf[b], ph \in OperatorPhases : Put(b, [batch[b] EXCEPT !.phase[j] = ph])
      BY <2>2
    <3> DEFINE o == [batch[b] EXCEPT !.phase[j] = ph]
    <3>2. o \in Object
      BY <1>1, StatusTyped
    <3>3. o = [batch[b] EXCEPT !.cond = o.cond, !.phase = o.phase]
      BY <1>1 DEF Object
    <3> QED BY <3>1, <3>2, <3>3
  <2> QED BY <2>1, <2>2 DEF OperatorWrites
<1>3. batch' = [batch EXCEPT ![b] = o] /\ batch'[b] = o
  BY <1>2 DEF Put, TypeOK
<1>4. o.cond \in Conditions /\ o.phase \in [Jobs -> Phases]
  BY DEF Object
<1>5. UNCHANGED <<op, answer, wrote>>
  BY DEF OperatorWrites
<1>6. batch' = [batch EXCEPT ![b] = [@ EXCEPT !.cond = batch'[b].cond, !.phase = batch'[b].phase]]
  <2>1. o = [batch[b] EXCEPT !.cond = batch'[b].cond, !.phase = batch'[b].phase]
    BY <1>2, <1>3
  <2> QED BY <1>3, <2>1
<1>7. batch'[b].cond \in Conditions /\ batch'[b].phase \in [Jobs -> Phases]
  BY <1>3, <1>4
<1> QED BY <1>1, <1>5, <1>6, <1>7, SameHelpers DEF Promise!Operate

LEMMA RestartRestarts ==
  ASSUME IndInv, NEW q \in Restarters, NEW J, held[q] # NoName, RestartJobs(q, J)
  PROVE  Promise!Restart(q, held[q].batch, J)
  BY RestartCurrent, SameHelpers DEF RestartJobs, Put, Promise!Restart, request

\* A step of a request that changes no batch and answers nothing.
LEMMA SilentSteps ==
  ASSUME NEW r \in Requests, NEW b \in Batches,
         List(r) \/ Retry(r) \/ Skip(r, b) \/ UpdateRejected(r, b) \/ UpdateUnsent(r, b)
  PROVE  UNCHANGED <<batch, op, answer, wrote>>
  BY DEF List, Retry, Skip, UpdateRejected, UpdateUnsent, Handled, cluster

LEMMA AbstractStep == IndInv /\ [Next]_vars => [Promise!Next]_(Promise!vars)
<1> SUFFICES ASSUME IndInv, [Next]_vars PROVE [Promise!Next]_(Promise!vars)
  OBVIOUS
<1>1. CASE UNCHANGED vars
  BY <1>1 DEF vars, Promise!vars
<1>2. CASE Next
  <2>1. Step /\ Promise!Observe
    BY <1>2 DEF Next
  <2>2. ASSUME UNCHANGED <<batch, op, answer, wrote>> PROVE UNCHANGED Promise!vars
    BY <2>1, <2>2, NothingObserved DEF Promise!vars
  <2>3. ASSUME NEW r \in Requests, Send(r) \/ Stop(r)
        PROVE  Promise!Step \/ UNCHANGED <<batch, op, answer, wrote>>
    <3>1. CASE Send(r)
      <4>1. Promise!Send(r)
        BY <3>1 DEF Send, Promise!Send, cluster
      <4> QED BY <4>1 DEF Promise!Step
    <3>2. CASE ListFails(r)
      <4>1. Promise!Answer(r, "error")
        BY <3>2, ReplyAnswers DEF ListFails
      <4> QED BY <4>1 DEF Promise!Step
    <3>3. CASE Finish(r)
      BY <3>3, FinishAnswers DEF Promise!Step
    <3>4. ASSUME NEW b \in Batches, Refuse(r, b) PROVE Promise!Step
      BY <3>4, RefuseAnswers DEF Promise!Step
    <3>5. ASSUME NEW b \in Batches, UpdateDone(r, b) \/ UpdateResponseLost(r, b) PROVE Promise!Step
      BY <3>5, UpdateStopsJobs DEF UpdateDone, UpdateResponseLost, Promise!Step
    <3>6. ASSUME List(r) \/ Retry(r) PROVE UNCHANGED <<batch, op, answer, wrote>>
      BY <3>6 DEF List, Retry, cluster
    <3>7. ASSUME NEW b \in Batches, Skip(r, b) \/ UpdateRejected(r, b) \/ UpdateUnsent(r, b)
          PROVE  UNCHANGED <<batch, op, answer, wrote>>
      BY <3>7, SilentSteps
    <3> QED BY <2>3, <3>1, <3>2, <3>3, <3>4, <3>5, <3>6, <3>7 DEF Stop, Visit
  <2>4. ASSUME NEW q \in Restarters, Caller(q)
        PROVE  Promise!Step \/ UNCHANGED <<batch, op, answer, wrote>>
    <3>1. CASE RestartRadixBatch(q)
      <4>1. held[q] # NoName /\ RestartJobs(q, JobsOf[held[q].batch])
        BY <3>1 DEF RestartRadixBatch
      <4>2. held[q].batch \in Batches /\ Promise!Restart(q, held[q].batch, JobsOf[held[q].batch])
        BY <4>1, RestartRestarts, RestartCurrent
      <4> QED BY <4>2 DEF Promise!Step
    <3>2. CASE RestartRadixBatchJob(q)
      <4>1. held[q] # NoName /\ \E j \in JobsOf[held[q].batch] : RestartJobs(q, {j})
        BY <3>2 DEF RestartRadixBatchJob
      <4>2. /\ held[q].batch \in Batches
            /\ \E j \in JobsOf[held[q].batch] : Promise!Restart(q, held[q].batch, {j})
        BY <4>1, RestartRestarts, RestartCurrent
      <4> QED BY <4>2 DEF Promise!Step
    <3>3. CASE RestartFails(q) \/ \E b \in Batches : ReadBatch(q, b)
      BY <3>3 DEF RestartFails, ReadBatch, cluster
    <3> QED BY <2>4, <3>1, <3>2, <3>3 DEF Caller
  <2>5. ASSUME NEW b \in Batches, Others(b) PROVE Promise!Step
    <3>1. CASE OperatorWrites(b)
      BY <3>1, OperatorOperates DEF Promise!Step, IndInv
    <3>2. CASE CreateBatch(b)
      BY <3>2 DEF CreateBatch, Promise!Create, Promise!Step
    <3>3. CASE DeleteBatch(b)
      BY <3>3 DEF DeleteBatch, Promise!Delete, Promise!Step
    <3> QED BY <2>5, <3>1, <3>2, <3>3 DEF Others
  <2> QED BY <2>1, <2>2, <2>3, <2>4, <2>5 DEF Step, Promise!Next
<1> QED BY <1>1, <1>2

\* Whatever the interleaving of requests, operator, restarts, creations and
\* deletions, and whichever calls fail, the requests keep what AtomicStop promises.
THEOREM Refinement == Spec => ImplementsAtomicStop
  BY AbstractInit, AbstractStep, Invariance, PTL DEF Spec, ImplementsAtomicStop, Promise!Spec

(***************************************************************************)
(* Lost updates.  What AtomicStop allows a step to do to a batch.          *)
(***************************************************************************)
LEMMA OnlyOneWritten ==
  ASSUME TypeOK, NEW b \in Batches, NEW o, batch' = [batch EXCEPT ![b] = o]
  PROVE  batch'[b] = o /\ \A a \in Batches \ {b} : batch'[a] = batch[a]
  BY DEF TypeOK

LEMMA StopKeepsWrites ==
  ASSUME TypeOK, NEW r \in Requests, NEW b \in Batches, Promise!StopJobs(r, b)
  PROVE  \A a \in Batches : WriteKept(a)
<1> DEFINE J == Targets(op[r], b, batch[b])
           o == WithStop(batch[b], J)
<1>1. batch' = [batch EXCEPT ![b] = o] /\ batch[b].cond \in Stoppable
  BY SameHelpers DEF Promise!StopJobs
<1>2. batch'[b] = o /\ \A a \in Batches \ {b} : batch'[a] = batch[a]
  BY <1>1, OnlyOneWritten
<1>3. batch[b] \in Object
  BY DEF TypeOK
<1>4. /\ o.cond = batch[b].cond /\ o.phase = batch[b].phase /\ o.restart = batch[b].restart
      /\ o.stop = batch[b].stop \cup J
  BY <1>3 DEF WithStop, Object
<1>5. \A j \in J : batch[b].phase[j] \notin Finished
  BY DEF Targets
<1>6. WriteKept(b)
  BY <1>1, <1>2, <1>4, <1>5 DEF WriteKept
<1> QED BY <1>2, <1>6 DEF WriteKept

LEMMA RestartKeepsWrites ==
  ASSUME TypeOK, NEW q \in Restarters, NEW b \in Batches, NEW J, J \subseteq Jobs,
         Promise!Restart(q, b, J)
  PROVE  \A a \in Batches : WriteKept(a)
<1> DEFINE o == WithRestart(batch[b], J, q)
<1>1. batch' = [batch EXCEPT ![b] = o]
  BY SameHelpers DEF Promise!Restart
<1>2. batch'[b] = o /\ \A a \in Batches \ {b} : batch'[a] = batch[a]
  BY <1>1, OnlyOneWritten
<1>3. batch[b] \in Object
  BY DEF TypeOK
<1>4. /\ o.cond = batch[b].cond /\ o.phase = batch[b].phase
      /\ o.stop = batch[b].stop \ J
      /\ \A j \in J : o.restart[j] = q
  BY <1>3 DEF WithRestart, Object
<1>5. q # NoName
  BY ObjectsAssumption
<1>6. WriteKept(b)
  BY <1>2, <1>4, <1>5 DEF WriteKept
<1> QED BY <1>2, <1>6 DEF WriteKept

LEMMA OthersKeepWrites ==
  ASSUME TypeOK, NEW b \in Batches, Promise!Operate(b) \/ Promise!Create(b) \/ Promise!Delete(b)
  PROVE  \A a \in Batches : WriteKept(a)
<1>1. batch[b] \in Object
  BY DEF TypeOK
<1>2. PICK o : /\ batch' = [batch EXCEPT ![b] = o]
               /\ o.stop = batch[b].stop /\ o.restart = batch[b].restart
  <2>1. CASE Promise!Operate(b)
    <3> DEFINE o == [batch[b] EXCEPT !.cond = batch'[b].cond, !.phase = batch'[b].phase]
    <3>1. batch' = [batch EXCEPT ![b] = o]
      BY <2>1 DEF Promise!Operate
    <3>2. o.stop = batch[b].stop /\ o.restart = batch[b].restart
      BY <1>1 DEF Object
    <3> QED BY <3>1, <3>2
  <2>2. CASE Promise!Create(b) \/ Promise!Delete(b)
    <3>1. PICK life \in {"live", "gone"} : batch' = [batch EXCEPT ![b].life = life]
      BY <2>2 DEF Promise!Create, Promise!Delete
    <3> DEFINE o == [batch[b] EXCEPT !.life = life]
    <3>2. batch' = [batch EXCEPT ![b] = o]
      BY <3>1
    <3>3. o.stop = batch[b].stop /\ o.restart = batch[b].restart
      BY <1>1 DEF Object
    <3> QED BY <3>2, <3>3
  <2> QED BY <2>1, <2>2
<1>3. batch'[b] = o /\ \A a \in Batches \ {b} : batch'[a] = batch[a]
  BY <1>2, OnlyOneWritten
<1> QED BY <1>2, <1>3 DEF WriteKept

\* Whichever of the callers, the operator and the users write in between, no stop
\* or restart loses what another has written (updateRadixBatch).
THEOREM WritesKept == Spec => NoWriteUndone
<1>1. ASSUME IndInv, [Next]_vars, NEW b \in Batches PROVE WriteKept(b)
  <2>1. TypeOK /\ [Promise!Next]_(Promise!vars)
    BY <1>1, AbstractStep DEF IndInv
  <2>2. CASE UNCHANGED Promise!vars
    BY <2>2 DEF Promise!vars, WriteKept
  <2>3. CASE Promise!Step
    <3>1. ASSUME NEW r \in Requests, Promise!Send(r) \/ \E a \in {"ok", "refused", "error"} : Promise!Answer(r, a)
          PROVE  WriteKept(b)
      BY <3>1 DEF Promise!Send, Promise!Answer, WriteKept
    <3>2. ASSUME NEW q \in Restarters, NEW c \in Batches,
                 Promise!Restart(q, c, JobsOf[c]) \/ \E j \in JobsOf[c] : Promise!Restart(q, c, {j})
          PROVE  WriteKept(b)
      <4>1. JobsOf[c] \subseteq Jobs
        BY ObjectsAssumption
      <4>2. ASSUME Promise!Restart(q, c, JobsOf[c]) PROVE WriteKept(b)
        BY <2>1, <4>1, <4>2, RestartKeepsWrites
      <4>3. ASSUME NEW j \in JobsOf[c], Promise!Restart(q, c, {j}) PROVE WriteKept(b)
        <5>1. {j} \subseteq Jobs
          BY <4>1
        <5> QED BY <2>1, <4>3, <5>1, RestartKeepsWrites
      <4> QED BY <3>2, <4>2, <4>3
    <3> QED BY <2>1, <2>3, <3>1, <3>2, StopKeepsWrites, OthersKeepWrites DEF Promise!Step
  <2> QED BY <2>1, <2>2, <2>3 DEF Promise!Next
<1>2. IndInv /\ [Next]_vars => \A b \in Batches : WriteKept(b)
  BY <1>1
<1> QED BY <1>2, Invariance, PTL DEF Spec, NoWriteUndone

(***************************************************************************)
(* Termination.  StepsLeft is a variant of the requests under way.         *)
(***************************************************************************)
\* The numbers that the variant is made of: n batches, k of them still copied,
\* and a attempts.
Left(a, n, k) == (a - 1) * (n + 2) + k

LEMMA LeftIsNatural ==
  ASSUME NEW a \in Nat \ {0}, NEW n \in Nat, NEW k \in Nat
  PROVE  Left(a, n, k) \in Nat /\ k <= Left(a, n, k)
<1> DEFINE m == a - 1
<1>1. m \in Nat
  OBVIOUS
<1> HIDE DEF m
<1>2. m * (n + 2) \in Nat
  BY <1>1
<1>3. m * (n + 2) + k \in Nat /\ k <= m * (n + 2) + k
  BY <1>2
<1> QED BY <1>3 DEF Left, m

\* An attempt less is worth the list of the next and a step more.
LEMMA AttemptLess ==
  ASSUME NEW a \in Nat, a > 1, NEW n \in Nat
  PROVE  Left(a - 1, n, n + 2) < Left(a, n, 1)
<1> DEFINE m == a - 2
           p == n + 2
<1>1. m \in Nat /\ p \in Nat
  OBVIOUS
<1>2. a - 1 - 1 = m /\ a - 1 = m + 1
  OBVIOUS
<1> HIDE DEF m, p
<1>3. (m + 1) * p = m * p + p /\ m * p \in Nat
  BY <1>1
<1>4. m * p + p < (m + 1) * p + 1
  BY <1>1, <1>3
<1> QED BY <1>2, <1>4 DEF Left, p

\* The batches that a request has still to handle are finitely many.
LEMMA CopyFinite ==
  ASSUME TypeOK, NEW r \in Requests
  PROVE  /\ DOMAIN copy[r] \subseteq Batches /\ IsFiniteSet(DOMAIN copy[r])
         /\ Cardinality(Batches) \in Nat
         /\ Cardinality(DOMAIN copy[r]) \in 0..Cardinality(Batches)
<1>1. DOMAIN copy[r] \subseteq Batches
  BY DEF TypeOK
<1>2. Cardinality(Batches) \in Nat
  BY FS_CardinalityType
<1>3. IsFiniteSet(DOMAIN copy[r]) /\ Cardinality(DOMAIN copy[r]) <= Cardinality(Batches)
  BY <1>1, FS_Subset
<1>4. Cardinality(DOMAIN copy[r]) \in Nat
  BY <1>3, FS_CardinalityType
<1> QED BY <1>1, <1>2, <1>3, <1>4

LEMMA StepsLeftIs ==
  ASSUME NEW r \in Requests
  PROVE  /\ pc[r] = "idle" => StepsLeft(r) = 0
         /\ pc[r] = "list" =>
              StepsLeft(r) = Left(attempts[r], Cardinality(Batches), Cardinality(Batches) + 2)
         /\ pc[r] = "visit" =>
              StepsLeft(r) = Left(attempts[r], Cardinality(Batches), Cardinality(DOMAIN copy[r]) + 1)
  BY DEF StepsLeft, Left

LEMMA StepsLeftNatural ==
  ASSUME TypeOK, NEW r \in Requests
  PROVE  StepsLeft(r) \in Nat /\ (pc[r] # "idle" => StepsLeft(r) > 0)
<1> DEFINE n == Cardinality(Batches)
           k == Cardinality(DOMAIN copy[r])
<1>1. n \in Nat /\ k \in Nat
  BY CopyFinite
<1>2. pc[r] \in {"idle", "list", "visit"} /\ (pc[r] # "idle" => attempts[r] \in Nat \ {0})
  BY DEF TypeOK
<1> HIDE DEF n, k
<1>3. n + 2 \in Nat /\ n + 2 > 0 /\ k + 1 \in Nat /\ k + 1 > 0
  BY <1>1
<1>4. CASE pc[r] = "idle"
  BY <1>4, StepsLeftIs
<1>5. CASE pc[r] = "list"
  <2>1. Left(attempts[r], n, n + 2) \in Nat /\ n + 2 <= Left(attempts[r], n, n + 2)
    BY <1>1, <1>2, <1>3, <1>5, LeftIsNatural
  <2>2. StepsLeft(r) = Left(attempts[r], n, n + 2)
    BY <1>5, StepsLeftIs DEF n
  <2> QED BY <1>3, <2>1, <2>2
<1>6. CASE pc[r] = "visit"
  <2>1. Left(attempts[r], n, k + 1) \in Nat /\ k + 1 <= Left(attempts[r], n, k + 1)
    BY <1>1, <1>2, <1>3, <1>6, LeftIsNatural
  <2>2. StepsLeft(r) = Left(attempts[r], n, k + 1)
    BY <1>6, StepsLeftIs DEF n, k
  <2> QED BY <1>3, <2>1, <2>2
<1> QED BY <1>2, <1>4, <1>5, <1>6

LEMMA FewerLeft ==
  ASSUME NEW a \in Nat \ {0}, NEW n \in Nat, NEW k \in Nat, NEW m \in Nat, m < k
  PROVE  Left(a, n, m) < Left(a, n, k)
<1> DEFINE p == (a - 1) * (n + 2)
<1>1. p \in Int
  OBVIOUS
<1> HIDE DEF p
<1>2. p + m < p + k
  BY <1>1
<1> QED BY <1>2 DEF Left, p

\* Each step of a request takes it nearer to its answer.
LEMMA StopUsesUp ==
  ASSUME TypeOK, TypeOK', NEW r \in Requests, Stop(r)
  PROVE  StepsLeft(r)' \in Nat /\ StepsLeft(r)' < StepsLeft(r)
<1> DEFINE n == Cardinality(Batches)
           k == Cardinality(DOMAIN copy[r])
           k1 == Cardinality(DOMAIN copy'[r])
<1>1. n \in Nat /\ k \in 0..n
  BY CopyFinite
<1>2. k1 \in 0..n
  <2>1. DOMAIN copy'[r] \subseteq Batches
    BY DEF TypeOK
  <2>2. IsFiniteSet(DOMAIN copy'[r]) /\ k1 <= n
    BY <2>1, FS_Subset
  <2>3. k1 \in Nat
    BY <2>2, FS_CardinalityType
  <2> QED BY <1>1, <2>2, <2>3
<1>3. /\ pc'[r] = "idle" => StepsLeft(r)' = 0
      /\ pc'[r] = "list" => StepsLeft(r)' = Left(attempts'[r], n, n + 2)
      /\ pc'[r] = "visit" => StepsLeft(r)' = Left(attempts'[r], n, k1 + 1)
  BY DEF StepsLeft, Left
<1>4. /\ pc[r] = "list" => StepsLeft(r) = Left(attempts[r], n, n + 2)
      /\ pc[r] = "visit" => StepsLeft(r) = Left(attempts[r], n, k + 1)
  BY StepsLeftIs
<1>5. pc[r] # "idle" => attempts[r] \in Nat \ {0}
  BY DEF TypeOK
<1>5a. StepsLeft(r)' \in Nat
  <2>1. pc'[r] \in {"idle", "list", "visit"} /\ (pc'[r] # "idle" => attempts'[r] \in Nat \ {0})
    BY DEF TypeOK
  <2> HIDE DEF n, k, k1
  <2>2. n + 2 \in Nat /\ k1 + 1 \in Nat
    BY <1>1, <1>2
  <2>3. \A a \in Nat \ {0} : Left(a, n, n + 2) \in Nat /\ Left(a, n, k1 + 1) \in Nat
    BY <1>1, <2>2, LeftIsNatural
  <2>4. CASE pc'[r] = "idle"
    BY <1>3, <2>4
  <2>5. CASE pc'[r] = "list"
    BY <1>3, <2>1, <2>3, <2>5
  <2>6. CASE pc'[r] = "visit"
    BY <1>3, <2>1, <2>3, <2>6
  <2> QED BY <2>1, <2>4, <2>5, <2>6
<1> SUFFICES StepsLeft(r)' < StepsLeft(r)
  BY <1>5a
<1>6. ASSUME NEW a, Reply(r, a), pc[r] # "idle" PROVE StepsLeft(r)' < StepsLeft(r)
  <2>1. pc'[r] = "idle"
    BY <1>6 DEF Reply, TypeOK
  <2> QED BY <1>3, <1>6, <2>1, StepsLeftNatural
<1>7. ASSUME NEW b \in DOMAIN copy[r], Handled(r, b), pc[r] = "visit"
      PROVE  StepsLeft(r)' < StepsLeft(r)
  <2>1. /\ DOMAIN copy'[r] = DOMAIN copy[r] \ {b}
        /\ pc'[r] = "visit" /\ attempts'[r] = attempts[r]
    BY <1>7, HandledTyped, CopyTyped
  <2>2. k1 = k - 1
    <3> DEFINE C == DOMAIN copy[r]
    <3>1. IsFiniteSet(C) /\ b \in C
      BY <1>7, CopyFinite
    <3>2. DOMAIN copy'[r] = C \ {b}
      BY <2>1
    <3> HIDE DEF C
    <3>3. Cardinality(C \ {b}) = Cardinality(C) - 1
      BY <3>1, FS_RemoveElement
    <3> QED BY <3>2, <3>3 DEF C
  <2> HIDE DEF n, k, k1
  <2>3. k1 + 1 \in Nat /\ k + 1 \in Nat /\ k1 + 1 < k + 1
    BY <1>1, <1>2, <2>2
  <2>4. Left(attempts[r], n, k1 + 1) < Left(attempts[r], n, k + 1)
    BY <1>1, <1>5, <1>7, <2>3, FewerLeft
  <2> QED BY <1>3, <1>4, <1>7, <2>1, <2>4
<1>8. CASE List(r)
  <2>1. pc[r] = "list" /\ pc'[r] = "visit" /\ attempts'[r] = attempts[r]
    BY <1>8 DEF List, TypeOK
  <2> HIDE DEF n, k, k1
  <2>2. k1 + 1 \in Nat /\ n + 2 \in Nat /\ k1 + 1 < n + 2
    BY <1>1, <1>2
  <2>3. Left(attempts[r], n, k1 + 1) < Left(attempts[r], n, n + 2)
    BY <1>1, <1>5, <2>1, <2>2, FewerLeft
  <2> QED BY <1>3, <1>4, <2>1, <2>3
<1>9. CASE Retry(r)
  <2>1. /\ pc[r] = "visit" /\ pc'[r] = "list" /\ attempts[r] > 1
        /\ attempts'[r] = attempts[r] - 1 /\ copy[r] = NoCopy
    BY <1>9 DEF Retry, Retries, TypeOK
  <2>2. k = 0
    BY <2>1, NoCopyTyped, FS_EmptySet
  <2>3. attempts[r] \in Nat
    BY <1>5, <2>1
  <2> HIDE DEF n, k, k1
  <2>4. Left(attempts[r] - 1, n, n + 2) < Left(attempts[r], n, 1)
    BY <1>1, <2>1, <2>3, AttemptLess
  <2>5. k + 1 = 1
    BY <2>2
  <2> QED BY <1>3, <1>4, <2>1, <2>4, <2>5
<1>10. CASE ListFails(r) \/ Finish(r)
  BY <1>6, <1>10 DEF ListFails, Finish
<1>11. CASE Visit(r)
  <2>1. PICK b \in Batches :
          \/ Refuse(r, b) \/ Skip(r, b)
          \/ UpdateDone(r, b) \/ UpdateRejected(r, b) \/ UpdateUnsent(r, b) \/ UpdateResponseLost(r, b)
    BY <1>11 DEF Visit
  <2>2. CASE Refuse(r, b)
    BY <1>6, <2>2 DEF Refuse
  <2>3. CASE ~Refuse(r, b)
    <3>1. pc[r] = "visit" /\ b \in DOMAIN copy[r] /\ Handled(r, b)
      BY <2>1, <2>3 DEF Skip, Update, UpdateDone, UpdateRejected, UpdateUnsent, UpdateResponseLost, Visits
    <3> QED BY <1>7, <3>1
  <2> QED BY <2>2, <2>3
<1> QED BY <1>8, <1>9, <1>10, <1>11 DEF Stop

\* Nobody but a request under way moves it.
LEMMA OthersLeaveRequest ==
  ASSUME TypeOK, Step, NEW r \in Requests, answer[r] # "none", ~Stop(r)
  PROVE  pc'[r] = pc[r] /\ attempts'[r] = attempts[r] /\ copy'[r] = copy[r]
<1>1. ASSUME NEW s \in Requests, Send(s) \/ Stop(s)
      PROVE  pc'[r] = pc[r] /\ attempts'[r] = attempts[r] /\ copy'[r] = copy[r]
  <2>1. s # r
    BY <1>1 DEF Send
  <2>2. ASSUME NEW a, Reply(s, a) PROVE pc'[r] = pc[r] /\ attempts'[r] = attempts[r] /\ copy'[r] = copy[r]
    BY <2>1, <2>2 DEF Reply, TypeOK
  <2>3. CASE Send(s) \/ List(s) \/ Retry(s)
    BY <2>1, <2>3 DEF Send, List, Retry, TypeOK
  <2>4. CASE ListFails(s) \/ Finish(s)
    BY <2>2, <2>4 DEF ListFails, Finish
  <2>5. CASE Visit(s)
    <3>1. PICK b \in Batches :
            \/ Refuse(s, b) \/ Skip(s, b)
            \/ UpdateDone(s, b) \/ UpdateRejected(s, b) \/ UpdateUnsent(s, b) \/ UpdateResponseLost(s, b)
      BY <2>5 DEF Visit
    <3>2. CASE Refuse(s, b)
      BY <2>2, <3>2 DEF Refuse
    <3>3. CASE ~Refuse(s, b)
      <4>1. Handled(s, b)
        BY <3>1, <3>3 DEF Skip, Update, UpdateDone, UpdateRejected, UpdateUnsent, UpdateResponseLost
      <4> QED BY <2>1, <4>1, HandledTyped
    <3> QED BY <3>2, <3>3
  <2> QED BY <1>1, <2>3, <2>4, <2>5 DEF Stop
<1>2. ASSUME NEW q \in Restarters, Caller(q) PROVE UNCHANGED request
  BY <1>2 DEF Caller, ReadBatch, RestartRadixBatch, RestartRadixBatchJob, RestartJobs, RestartFails
<1>3. ASSUME NEW b \in Batches, Others(b) PROVE UNCHANGED request
  BY <1>3 DEF Others, OperatorWrites, CreateBatch, DeleteBatch
<1> QED BY <1>1, <1>2, <1>3 DEF Step, request

\* The safety half of EveryRequestAnswered: a request that keeps moving, as the
\* calls to the API server let it, runs out of steps but for its answer
\* (retry.RetryOnConflict).
THEOREM StepsUsedUp == Spec => StepsRunOut
<1>1. ASSUME TypeOK, [Next]_vars, NEW r \in Requests, answer[r] = "pending"
      PROVE  StepsLeft(r)' <= StepsLeft(r) /\ (Stop(r) => StepsLeft(r)' < StepsLeft(r))
  <2>1. StepsLeft(r) \in Nat
    BY <1>1, StepsLeftNatural
  <2>2. CASE Stop(r)
    <3>1. TypeOK'
      BY <1>1, TypeNext
    <3>2. StepsLeft(r)' \in Nat /\ StepsLeft(r)' < StepsLeft(r)
      BY <1>1, <2>2, <3>1, StopUsesUp
    <3> QED BY <2>1, <3>2
  <2>3. CASE ~Stop(r)
    <3>1. pc'[r] = pc[r] /\ attempts'[r] = attempts[r] /\ copy'[r] = copy[r]
      <4>1. CASE Next
        BY <1>1, <2>3, <4>1, OthersLeaveRequest DEF Next
      <4>2. CASE UNCHANGED vars
        BY <4>2 DEF vars
      <4> QED BY <1>1, <4>1, <4>2
    <3>2. StepsLeft(r)' = StepsLeft(r)
      BY <3>1 DEF StepsLeft
    <3> QED BY <2>1, <2>3, <3>2
  <2> QED BY <2>2, <2>3
<1>2. TypeOK /\ [Next]_vars => \A r \in Requests : StepUsed(r)
  BY <1>1 DEF StepUsed
<1> QED BY <1>2, TypeCorrect, PTL DEF Spec, StepsRunOut

====
