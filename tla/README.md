# A TLA+ verification of radix-job-scheduler

The job scheduler is a REST server that Radix deploys beside every job component. It turns requests into
`RadixBatch` custom resources (a batch of jobs, or the "batch" of a single job), which the Radix operator, a
different program, executes. The scheduler itself keeps almost nothing in memory: the Kubernetes API server is its
database, and every operation is a handful of reads and writes there, interleaved with those of other requests, of the
operator, of its own background goroutines, and of its predecessor after a restart. That is where it is hard to get
right, and that is what the modules below describe.

Paths are relative to `src/`. All of the implementation is Go; the JavaScript under `swaggerui/` is the bundle of a
third-party program that shows the API's documentation, and is not part of the model.

## 1. The system

| Component | State it keeps | Operations | Interacts with | Hard | What makes it correct |
|---|---|---|---|---|---|
| **Payload secrets** (`api/v1/handlers/internal/handler.go`, `internal/payload.go`) | Secrets and RadixBatches in the cluster, tied by name | create a batch (secrets first, then the batch), copy, delete, garbage-collect | collector runs at the end of every delete request and of every history cleanup | creation and collection interleave; the collector reads references and secrets at different times; half-done creations, crashes | no existing batch loses its payload; no old orphan survives a collection |
| **Batch creation** (`handler.go:214`-`438`, `models/common`) | the request in memory: defaults, configurations, the secret under construction | describe each job with the defaults, pack payloads, write | decides what is written above | merging through shared pointers, zero and empty values, size limits, running totals | each job is configured alone and with its own settings; each payload is in one secret that is written |
| **Stopping and restarting** (`pkg/batch/batch.go`) | `stop` flags and restart stamps in RadixBatches | stop a batch, a job, all batches, all jobs; restart a batch or job | operator's status writes, other requests, creates and deletes; optimistic concurrency | read-decide-write with retries, several updates in one request, lost responses | what a request answers is what happened; no write of others is undone |
| **History cleanup** (`pkg/batch/history.go`) | time of the last cleanup | gate, list, delete the excess of four categories | watcher starts it; deletes by name; followed by the payload collection | overlapping cleanups, out-of-date lists, half-failed cleanups | the newest N of each category survive; the rest goes |
| **Watcher and notifier** (`pkg/watcher/watcher.go`, `pkg/notifications/webhook_notifier.go`) | names of known batches, informer store | list names, start informer, handle add/update/delete, notify in goroutines | informer, webhook, history cleanup | restarts, broken watches, reordering | each change told once, in terms that add up |
| **Job and batch statuses** (`pkg/internal/job_status.go`, `pkg/batch/batch.go`) | none | derive the reported status from the operator's, the stop flags and the rules of the component | watcher and REST answers | two programs write what is combined; rules that match vacuously | a stop is reported; the first rule that holds decides |
| **REST handlers** (`api/v1/handlers`, `api/v1/controllers`) | none | one per endpoint: list, get, create, copy, delete, stop | all of the above | a name that belongs to another endpoint, type or component, or that has empty parts, which stand for all | what is done is what the name means |
| **Names** (`internal/batch.go`) | the random source | generate, compose, parse | everything that takes a name | dashes in names, empty parts between them | a full name leads back to its batch and job |
| **Field mapping** (`models/common/resources.go`, `node.go`, ...) | none | description to RadixBatch types, field by field | creation | -- | not modelled |
| **Process, pods and events, generated and third-party code** | environment | start, decorate answers | -- | -- | not modelled: wiring and reads |

`PROJECT.json` lists the source files of each component, the lines each definition stands for, and the hazards with the
properties aimed at them.

### How the components interact

A request reaches a handler (`SchedulerApi`). A create request describes its jobs, packs their payloads and writes
secrets and then the batch (`BatchCreation`, which implements the creation in `PayloadSecrets`). The informer
sees the batch, tells the component (`BatchWatcher`) and starts a history cleanup (`HistoryCleanup`), which ends in a
payload collection (`PayloadSecrets!StartGC`), as does a delete request. Stop and restart requests and the operator
write the batch meanwhile (`StopBatch`), and each write reaches the watcher (`BatchWatcher!WriteSpec`, `WriteStatus`).
Except for the refinements, the modules share no variables: each takes the writes of the others as actions of its
surroundings, as free as the code lets them be.

## 2. Modules

| Module | Models | Kind |
|---|---|---|
| `PayloadSecrets` | creation, copy, deletion, collection of payload secrets, by many at once | detailed; abstract for `BatchCreation` |
| `JobDefaults` | merging a job's description with the defaults | operators |
| `BatchCreation` | one create request, loop by loop | detailed, implements `PayloadSecrets` |
| `BatchObjects` | the parts of a RadixBatch stop and restart look at | operators |
| `AtomicStop` | what stop and restart promise their callers | abstract |
| `StopBatch` | the stop and restart functions against the API server | detailed, implements `AtomicStop` |
| `HistoryCleanup` | the cleanup and its goroutines | detailed |
| `BatchWatcher` | watcher, informer, notify goroutines | detailed |
| `JobStatuses` | names, the status of a job, the status of a batch | operators |
| `SchedulerApi` | every request of the job and batch handlers, as one step | detailed |
| `SumTheorems` | sums over finite sets, for the sizes of secrets | lemmas |
| `PayloadSecretsProofs`, `BatchCreationProofs`, `StopBatchProofs`, `HistoryCleanupProofs`, `BatchWatcherProofs`, `SchedulerApiProofs` | theorems about these | proofs |
| `MC*` | instances of each for TLC | |

Definitions marked *(A slip ...)* are deliberate mistakes that play no part in the specification: exchanged for the
definition beside them they break a property, which shows that it bites.

### PayloadSecrets

`batches`, `ref`, `secrets`, `born` are the cluster; `phase`, `plan`, `written`, `started` are a request (one per
generated name); `pc`, `seen`, `listedAt`, `todo`, `checkedAt`, `errors` are a collector. `StartCreate`,
`CreateSecret` and `CreateBatch` are `buildRadixBatchJobs`, one iteration of `createSecrets`, and the write in
`createRadixBatch`; `ListRefs`, `ListSecrets`, `KeepSecret`, `DeleteSecret`, `DeleteSecretFails` are the lines of
`GarbageCollectPayloadSecrets`. Every call may fail and the process may die anywhere. The clock counts hours: a
secret is spared for 24 (`Grace`).

The timing assumption is `CreateTime + GCTime < Grace`: a request that creates a batch, together with the gap between
the two lists of a collection, lasts less than 24 hours. The code does not enforce it (the requests carry the HTTP
context), but it is the assumption on which the 24 hours rest, and far from any real duration. Copies are not covered
by it and this is a finding: they refer to secrets as old as their source.

### BatchCreation and JobDefaults

A request goes through three loops, `outcome` saying in which it is and `next` at which index: `Describe` merges the
description of one job with the batch's defaults (`buildRadixBatchJob`, `applyDefaultJobDescriptionProperties`);
`SkipEmpty`, `Misfit`, `PlaceHere`, `PlaceInNew` and `TooLarge` are the branches of the loop in
`createRadixBatchJobPayloadSecrets`; `SkipSecret` and `WriteSecret` are `createSecrets`, and `WriteBatch` comes last. A
write may fail, and the process may die, at every step.

`JobDefaults` has one field for each way in which `mergo` with its options and transformers merges the many fields of a
description: strings, pointers to numbers, lists, the runtime as a whole, maps, and pointers to structures with maps.
`WrittenThrough` is what the merge does to the defaults themselves through shared pointers. The code gives each job a
deep copy of the defaults, so the specification never uses it; `ConfiguredAlone` fails without that copy.
`BatchCreation!default` is the variable in which this would be seen.

`ImplementsPayloadSecrets` is the composition of the two views of a creation: `SecretStore` is `PayloadSecrets` with one
batch, no collectors and a clock that stands still, its variables defined by the `store*` operators. Up to the end of
the packing the request is `"unused"` there, and the step `AllPacked` is its `StartCreate`.

### StopBatch and AtomicStop

`AtomicStop` has each write as one step that flags the unfinished jobs *of that moment*; a success means that each job
asked for was stopped, finished or out of reach at some moment since the request was sent (`settled`), a refusal that
there was a moment with a reason for it (`refusable`) and, if the request names its batch, that nothing was written
(`wrote`). These three are observations, updated in every step by `Observe`, which both modules use.

The requests (`Ops`) are those of all stop endpoints. The functions that stop take an empty batch name for all batches and
an empty job name for all jobs, and the name of a job to stop is split at its last dash, after which either part may be
empty; so `StopJobOps` has all four combinations. A request for a job in all batches stops it in one batch after the
other and is refused at the first in which it has finished: it is the only one whose refusal may come after a write.

`StopBatch` lists (`List`), decides batch by batch on the listed copies (`Refuse`, `Skip`, `UpdateDone`,
`UpdateRejected`, `UpdateUnsent`, `UpdateResponseLost`), then retries or answers (`Retry`, `Finish`), as
`stopRadixBatchJob` and `stopJobsInBatches` do within `retry.RetryOnConflict`. An update is accepted if the resource
version has not changed (`CurrentVersion`), which is what makes a decision taken on a copy hold at the moment of the
write. The refinement mapping is the identity on the shared variables. Restarts write an object the caller read before.

### HistoryCleanup

Each cleanup goroutine passes the gate (`PassGate`, `Stamp`: two steps, no lock), lists (`List`) and deletes
(`Get`, `Delete`, `GetMissing`, `CallFails`). The code lists once and computes each of the four categories just before
its deletions from that same list, so all are computed in `List`. The `kubeUtil` read before each delete is `Get`.

### BatchWatcher

`queue[b]` is what the informer has still to deliver of a batch, in order per batch and in any order between batches
(the informer's queue is keyed by object). `Relist` replaces it by the current object, or by a tombstone.
`ListNames` and `StartInformer` are two steps, between which batches come and go. The handlers are `Add`, `Update`,
`HandleDelete`, `HandleTombstone`; a notify goroutine is an element of `notes[b]`, posted in any order. `EqualBatchStatuses`
models the comparison of `*metav1.Time` fields by pointer: equal only if there are no times. A panic in a handler
ends the process (`Die`), as client-go's crash handling does.

### JobStatuses and SchedulerApi

A name is the sequence of the words between its dashes, so composing a full name is `Append` and parsing it is taking
off its last word, as `strings.Split` and `strings.Join` do. `ScheduledJobStatus` combines the operator's phase, the
phases of the pods and the stop flag; `StatusFromRules` evaluates the `BatchStatusRules` of the component.

`SchedulerApi` has one action per endpoint, with the whole request in one step: which batch the name leads to, what is
done to it and what is answered. Steps inside a request are the subject of the modules above. `answer` holds the answer
until the client has received it (`Received`); between answers the operator reports statuses (`ReportJob`,
`ReportBatch`), the schedulers of other components of the namespace create batches (`CreateElsewhere`), and programs
that use the repository as a library restart jobs (`Restart`). Lists and stops select batches by the label of the component
and of the type; lookups by name (`GetBatch`, `CopyBatch`, `DeleteBatch`, `GetJob`, ...) do not, and the model has that
difference. The two endpoints of a job in a batch name it in two ways: `GetBatchJob` by its full name, `StopBatchJob` by
its last word.

Clients may send any name (`Loose`, `LooseParts`). `Empty` is the word of no letters, of which the name `-` has two. What
a request makes of it depends on the endpoint, and the model follows the code in each: a stop takes an empty
batch or job part for all (`BatchesAsked`, `JobsAsked`), a copy takes an empty job part for all jobs of the batch
(`JobsCopied`), and a lookup of the empty name is an error that is answered 500 (`LookUp`). Names to stop and the names
of jobs to read are compared without regard to case (`Folded`), names of batches to look up exactly. `StopNamed` is one
step, in which a request about all batches that is refused may have stopped some of them.

`StopsWhatIsNamed` is about all names, and takes an empty part for all as the functions that stop do (`Means`): it is
about which jobs are stopped, and when that may be called a success. Whether a client who sends such a name to the
endpoint for *one* job wants all to be stopped is another question, to which section 5 comes back.

## 3. Runs

| Run | Checks | Bounds |
|---|---|---|
| `payload_gc` | `TypeOK`, `CreatedBatchHasItsPayload`, `CreationKeepsItsSecrets`, `LostOnlyWithItsOwner`, `IndInv`, `GCLeavesNoOldOrphan` | 2 batches, 2 collectors, 1 secret each, grace 3, clock to 4 |
| `payload_copy` | finding `OnlyOrphansDeleted` | one collector |
| `creation` | `TypeOK`, `ConfiguredAlone`, `OwnSettingsWin`, `EveryPayloadPlaced`, `OnlyLoneEntriesOversize`, `NoSecretBegunInVain`, `ImplementsPayloadSecrets` | up to 5 jobs with payloads of 6 sizes; 3 jobs with descriptions and defaults that differ in one field at a time |
| `packing_fit` | finding `SecretsFit` | up to 3 jobs |
| `defaults_zero` | finding `OwnLimitWins` | 3 jobs, limits none, 0, 1, 2 |
| `stop` | `ImplementsAtomicStop`, `NoWriteUndone`, for every request, names with empty parts included | 1 batch of two jobs, 1 single job, 1 request with 2 attempts, 1 restarting caller, 1 write of others per batch |
| `stop_concurrent` | `TypeOK`, `ImplementsAtomicStop`, `StepsRunOut`, `EveryRequestAnswered` | 2 batches, 2 requests for all batches, 2 attempts |
| `history` | `TypeOK`, `HistoryKept`, `OnlyOldHistoryDeleted`, `OldestFirst`, `ExcessRemoved` | 3 batches of a category, one of which is restarted, 2 cleanups, limit 1, clock to 2 |
| `history_missing` | finding `MissingBatchIgnored` | one cleanup, both outcomes |
| `watcher` | `TypeOK`, `AtMostOneCreate`, `ToldFollowsStore`, `ToldOnceDelivered`, `LastStatusTold` | 1 batch of two jobs, 3 versions, 2 broken watches, 1 crash |
| `watcher_delete` | finding `DeleteTold` | 1 batch of one job, 2 versions, 1 broken watch |
| `api` | `TypeOK`, `ListedCanBeFound`, `StopIsReported`, `FirstRuleDecides`, `StopsWhatIsNamed`, `DeleteJobDeletesItAlone` | 2 batches, 2 job names, 3 jobs in all, 10 other names, 3 statuses, 4 rules |

Why these bounds are enough to be interesting:

- *payload_gc*: two batches give a copy and its source or two competing creations; grace 3 is the least with
  `CreateTime + GCTime < Grace` and times of 1; the clock runs past one grace. One secret per batch suffices for the
  window between secret and batch; more secrets per batch are covered by the proofs.
- *creation*: the sizes are none, two that share a secret in several ways, one that fills a secret to the maximum
  exactly, one over it by one, and one that is far over; every order of five of them, so that three secrets come about.
  The fields of a description are merged one by one, so it is enough to vary one at a time; in each, two jobs and the
  defaults take all combinations of absent, zero or empty, and two values. The third job states nothing and shows
  what an earlier one left behind.
- *stop*: two jobs tell apart stopping a job from stopping its batch, the second batch is of the other type and has a job
  of the same name, so that a request about that job in all batches may be refused at either. One write
  of the operator or a restart between list and update makes a conflict, and two attempts show a retry and its end. A restart
  that withdraws a stop takes two writes of others; that it, too, undoes nothing is proved (`WritesKept`).
- *stop_concurrent*: every attempt of a request may meet a conflict, so that the last one is given up.
- *history*: three batches with a limit of one leave an excess of two, one of which may become excess only after an
  earlier cleanup has listed. A period of one and a clock of two let a cleanup outlast its period. The
  instance has one category; `history_missing` has two. `sort.Slice` is an insertion sort, and so stable, up to 12.
- *watcher*: batches do not influence each other except through `known`, which is by name. Two writes can be missed in
  a row, and one can be delivered after it; the watch can break again while what was missed is delivered.
- *api*: jobs of different batches have the same last word, batches are of either type and either component, and copies
  have none, one or two jobs. Clients send the names of jobs and of batches, names of one word, names that end or begin
  with a dash, the name `-`, names of batches with a capital letter, and ends of names which with the beginning of a
  batch's name give all of it. The statuses are those in which the phases of the job and of its pods disagree; the rules
  have each combination of condition and operator, each is the first to hold for some batch, and none holds for some.

Runs that allow the system to stop (clock or writes used up) say `CHECK_DEADLOCK FALSE`. Symmetry is used only where the
configuration has interchangeable names and the properties are invariants or action properties.

**Fairness.** `StopBatch!FairSpec`: the steps of a request that was sent are weakly fair, since each is a call that
returns with a result or an error. `BatchWatcher!FairSpec`: the process starts (Kubernetes restarts it), the informer
delivers what is queued, goroutines are scheduled. Nothing is assumed of the operator, of users, of crashes, or of
which outcome a call has.


## 4. Proofs

TLC looks at instances; TLAPS proves the following for every value of the constants under their named assumptions,
most of them for unboundedly many batches, jobs, requests, cleanups or crashes. `PROJECT.json` lists the theorems.

**PayloadSecretsProofs** (`TypeCorrect`, `Strengthened`, `CreatedPayloadSafe`, `CreationSafe`, `LostWithOwner`,
`NoOldOrphanLeft`; from `TimingAssumption` and `BoundsAssumption`). That no created batch lacks a secret is not
inductive: a collector which has listed the references and is about to delete may still hurt a batch that comes into
being now. `IndInv` closes the gap with `UnseenIsYoung`: if a collection in progress has not seen a reference of a
created batch, the batch was written after the references were listed, so its creation was running then or began
later, and its secret is at most `CreateTime` older than the list. The secrets are listed at most `GCTime` later
(`OnTime`); so the secret was then at most `CreateTime + GCTime` old, less than `Grace`, and the collection lets it
be. `BornInTime` and `RefersToOwn` say that secrets are born within the creation they belong to, and that only copies
refer to secrets of others. Copies are outside that timing, yet a copy loses a payload only after the batch is gone
that the payload was created for (`LostWithOwner`): every reference, handed on by however many copies, is to a secret
of a created batch that refers to it itself (`RefersToCreated`), so while that batch exists the secret is not an
orphan. The finding `payload_copy` is what happens when it does not. `NoOldOrphanLeft` needs that a secret which a
collection must still collect (`Owed`) is on its list or its delete failed (`SweepGoesOn`).

**BatchCreationProofs** (`TypeCorrect`, `DescribedAlone`, `OwnWins`, `PayloadsPlaced`, `OversizeAlone`, `NoneInVain`,
`SmallPayloadsFit`, `Refinement`; from `SizesAssumption` and `RequestsAssumption`, which says that jobs and defaults
are descriptions). `IndInv` says what each loop has done so far (`LoopsSoFar`), that the defaults are those of the
request (`AsRequested`), and that secrets are begun one after the other (`Contiguous`). `Refinement` also needs that
the secrets stored are a prefix of those packed (`StoredSoFar`), so that as many are left to write as the abstract
creation expects (`Counted`); each write is then `CreateSecret`, skipping an empty secret is a stutter, and the write
of the batch is `CreateBatch`.

Three theorems are about sizes. The code keeps a running total while it fills a secret; the properties speak of the
sum over the entries that refer to it. `Packed` ties the two together (`RunningTotal`) and carries `OversizeAlone` (a
secret over the maximum has one entry) and `NoneInVain` (none is begun without need) along. `SmallPayloadsFit` is the
converse of the finding `packing_fit`: if every payload fits into a secret of its own, which is what the code forgets
to check, no secret is too large. The sum is the community modules' fold, which picks the next element by `CHOOSE`;
**SumTheorems** proves what is needed of it for numbers that are natural. Its induction over the set is done without the library's
induction theorems, whose induction hypothesis would be an operator: each proof takes a minimal set among the
counterexamples (`MinimalMember`, from the well-foundedness of inclusion) and refutes it.

**StopBatchProofs** (`TypeCorrect`, `Refinement`, `WritesKept`, `StepsUsedUp`; from `StopAssumption`, which says that
there are finitely many batches and at least one attempt, and `ObjectsAssumption`). The heart is `ReadOf`: a copy with
the batch's current version *is* the batch. An update that is accepted is therefore one `AtomicStop` write on the
current object, although it was computed from an old copy. An answer is justified by what was observed since the
request was sent: what holds now is observed (`Observed`), each job asked for is settled or in a batch still to be
handled (`Owing`), what a listed object is a reason for was so at some moment (`Grounds`), and a request that names its
batch writes at most once before it answers, and is not refused then (`Once`). All other steps are stutters that observe nothing new
(`NothingObserved`).

`WritesKept` uses the refinement: each step writes a batch as a step of `AtomicStop` does (`AbstractStep`), and such a
step computes what it writes from the current object. `StepsUsedUp` has a variant, `StepsLeft`: in every attempt a
request lists once, visits each listed batch once and decides once, and a retry goes back to the list with one attempt
less, which outweighs all visits of the new one (`AttemptLess`). With fairness this is why `EveryRequestAnswered`
holds.

**HistoryCleanupProofs** (`TypeCorrect`, `HistorySafe`, `OnlyOldDeleted`, `ExcessGone`, `OldestGoFirst`; from
`HistoryAssumption`). `HistoryKept` is about deleted batches and not inductive, since a cleanup deletes from a list
that may be old. `DoomedAreKept` says the same of every batch that any cleanup is *going* to delete: at least `Limit`
newer batches of its category, or restarted ones, count for it that no cleanup has deleted. A deletion by one cleanup
cannot spoil this for another's list, because the newest are never doomed: if the batch that goes was newer than b,
then what counts for it counts for b (`NewerTransitive`, `KeptWhenSwept`). `ExcessGone` follows what a cleanup will
leave of a category if nothing fails (`Left`): when the category is listed these are at most `Limit`, because a finite
set of more has an oldest member, which would be in excess; after that they only become fewer, whoever deletes or
restarts batches (`LeavesLimit`). `OldestGoFirst` says what holds if something does fail: a listed batch that is older
than one still to be deleted is itself still to be deleted, or gone (`InOrder`). This is inductive because the excess
is closed under older batches (`OlderInExcess`) and nobody changes the times of completion of a listed batch but by
restarting it (`OrderStays`).

**BatchWatcherProofs** (`TypeCorrect`, `AnnouncedAtMostOnce`, `ToldAddsUp`, `ToldWhenDelivered`; from
`WatcherAssumption` and `NoneAssumption`). `DeliveryOf` says what the informer will still deliver of a batch: after a
start, an object for each batch that is stored, a deletion last and never first. `AnnouncedOnce`: a batch that was
announced is known by name, or in the informer's store, or will not be delivered to this process; `ToldIsStored` ties
what was notified to the stored object. `ToldWhenDelivered` ties it to the cluster: the last event that the informer
has in its queue for a batch is the batch as it is, and the stored object is when the queue is empty (`MirrorOf`),
broken watches notwithstanding.

**SchedulerApiProofs** (`TypeCorrect`, `ListedFound`, `StopReported`, `StopsNamed`, `DeletesAlone`, `FirstDecides`; from
`NamesAssumption` and `RulesAssumption`). The lemmas about names come first: a full name has its
parts (`FullNameParts`), and a name that can be split is the full name of its parts (`PartsOfFullName`). `IndInv` adds
to the types that a batch of a single job has at most one job (`Single`) and that an answer the client has not yet
received says what is the case (`AnswerIsTrue`). `NamesAssumption` says of generated names that they are in lower case,
that those of batches have at least two words and those of jobs are not empty, and that no name of a batch is the
beginning of another: they are `batch-<component>-<time stamp>-<random>`, all of one length. Of the names that clients
send it says only that they are names, and that the one of no letters is not among them, since it would be an empty
part of a path. `StopsNamed` is for all of these; that a name means just what its
parts ask for (`PartsAsked`) holds because only the empty word is empty in lower case. For `FirstDecides`
(`RulesDecide`, `SummaryIsTrue`) the first rule that holds is a least element of a set of numbers, which exists because
the finite sets are well-founded under inclusion (`LeastMember`).

*Only model-checked* are the two liveness properties, `EveryRequestAnswered` and `LastStatusTold`: liveness under
fairness and `ENABLED` are out of the prover's reach. What is safety in them is proved: `StepsRunOut` (a request
cannot run for ever) and `ToldOnceDelivered` (the component is behind only while the informer is). What fairness adds
is that the steps are taken and the queue is emptied. The findings are single behaviours, which TLC exhibits.

## 5. Findings

Each is a behaviour of the code that a line of the repository denies; a run shows it.

1. `payload_copy`: a copy refers to the secrets of its source, which may be older than a day. If the source is
   deleted, a collection that listed the references just before the copy was written deletes the copy's payload.
2. `history_missing`: the error of a batch that is gone is wrapped before the code asks whether it is a "not found", so
   one missing batch ends the cleanup of its category, although `DeleteRadixBatch` is meant to ignore it.
3. `watcher_delete`: if a deletion is missed by a broken watch, the informer delivers a tombstone; the handler takes it
   for a RadixBatch and dereferences nil. The process dies and the deletion is not notified, then or later.
4. `packing_fit`: the size of a payload is only checked when the secret under construction is empty, that is for the
   first one. A later payload that is too large goes unchecked into a secret of its own (`OnlyLoneEntriesOversize` says
   that no other secret exceeds the maximum).
5. `defaults_zero`: a job that states `backoffLimit: 0` or `timeLimitSeconds: 0` gets the number of the defaults.

The models contain more that is surprising. Nothing in the repository denies it, but for the one line quoted:

- A batch that is restarted after a cleanup listed it is deleted by that cleanup (`HistoryCleanup!Restart`; the
  properties except restarted batches).
- A batch whose status already has a condition when the informer first sees it is not announced as created.
- Times are compared by pointer, so an unchanged batch with a time is notified as changed.
- Notifications are sent by one goroutine each, in any order, and what was stamped later may tell of an older status.
- A copy of a stopped job is born with its stop flag.
- The request to stop `-<job>` is refused with 400 if the job has finished in some batch, after it was stopped in the
  batches before.
- An empty part of a name stands for all where a job is stopped: `POST /jobs/<batch>-/stop` stops every job of the batch,
  of either type, `-<job>` that job in every batch, and `-` every job of the component.
- Copying the job `<batch>-` copies all jobs of the batch; copying a job that the batch does not have creates a batch
  without jobs. That the copy does not have one job is noticed, and answered 500, when it exists.
- `POST /jobs/<batch-name>/stop`, which `README.md:17` of the repository calls the way to stop a batch, takes the last word
  of that name for a job's and is answered 404; a batch is stopped by `POST /batches/<batch-name>/stop`.
- An unknown job of a known batch is answered 500, an unknown batch 404; if the collection after a deletion fails,
  the answer is 500 although the batch is gone.
- Lookups by name reach batches of other components of the namespace.
- A rule with the condition `All` holds for a batch without job statuses, whatever its operator, and the first rule
  decides.

## 6. Not modelled

- *Field mapping* (`models/common/resources.go`, `node.go`, `failure_policy.go`, variables, images): each is a function
  from one field to one; there is no state and no order in it. How absent and present fields are *merged* is modelled.
- *Request bodies*: decoding and validation, and the HTTP layer.
- *Pods and events* (`api/v1/handlers/jobs/job_handler.go`, `internal/events.go`, `internal/pod*.go`): reads which
  decorate an answer. The phases of pods that change a status are in `JobStatuses`.
- *Random names*: generated names are new by assumption. The `rand.Source` shared by all requests is not safe for
  concurrent use, so two jobs may in principle be given one name; the models do not say what would follow.
- *The data race on the map of known batch names*: the informer's handlers read and write it while cleanup goroutines
  delete from it, without a lock. The Go runtime may detect this and end the process, which `BatchWatcher!Crash`
  covers; where it does not, a deletion by a cleanup is one step (`BatchWatcher!CleanupDeletes`).
- *`sort.Slice`* is not stable above 12 elements; the order of batches that completed in the same second is fixed by
  name in the model.
- *Main, environment, router, metrics, generated code, tests, swagger UI.*

## 7. Left to do

- Two jobs of equal generated names in one batch, and what they do to payloads and statuses.
- The watcher composed with the cleanup it starts, over one set of batches; today each module has the deletions of the
  other as free actions of its surroundings.
- Categories that share a worker in the passing instance of `HistoryCleanup`; the theorems cover them.
