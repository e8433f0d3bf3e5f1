---- MODULE BatchWatcher ----
(***************************************************************************)
(* The RadixBatch watcher and the notifications it sends.                  *)
(*                                                                         *)
(* At start the watcher notes the names of the existing batches and then   *)
(* starts an informer.  The informer delivers, batch by batch and in       *)
(* order, what it has listed and then every later write; when its watch    *)
(* breaks it lists again and skips what it has missed.  The handlers hand  *)
(* the changes over to goroutines, which post them to the webhook of the   *)
(* job component in any order.  Everything the process knows is lost when  *)
(* it dies.                                                                *)
(*                                                                         *)
(* `told`, `creates` and `deleteTold` are observations: what the handlers  *)
(* have handed over, in the order in which they did.                       *)
(***************************************************************************)
EXTENDS Naturals, Sequences

CONSTANTS
  Batches,     \* RadixBatches of the namespace
  Jobs,        \* names of the jobs of a batch
  Phases,      \* job statuses, as far as they are compared; "none" is no status
  Conditions,  \* batch conditions the operator writes
  MaxVersion,  \* bound on the writes of a batch
  MaxRelists,  \* bound on the broken watches
  MaxCrashes,  \* bound on the crashes
  None         \* no object

ASSUME WatcherAssumption ==
  /\ "none" \in Phases
  /\ Conditions \subseteq {"Waiting", "Active", "Completed"}
  /\ MaxVersion \in Nat \ {0} /\ MaxRelists \in Nat /\ MaxCrashes \in Nat

VARIABLES
  object,     \* of each batch in the cluster, or None
  made,       \* the batches ever created; names are not reused
  proc,       \* the process: "down", "named" (names listed), "up"
  known,      \* existingRadixBatchNamesMap
  queue,      \* what the informer has yet to deliver of each batch
  store,      \* what it has delivered last
  cleaning,   \* whether a history cleanup is running
  notes,      \* notify goroutines that have not posted yet
  told,       \* what a Create and the Updates after it add up to
  creates,    \* how often the creation of each batch was notified
  deleteTold, \* the batches whose deletion was notified
  relists, crashes

clusterVars == <<object, made>>
noteVars == <<notes, told, creates, deleteTold>>
vars == <<clusterVars, proc, known, queue, store, cleaning, noteVars, relists, crashes>>

Objects == [version : 1..MaxVersion, cond : Conditions \cup {""},
            phase : [Jobs -> Phases], stop : SUBSET Jobs]

\* An informer event is an object, the deletion of one, or the discovery by a
\* new list that one has gone (DeletedFinalStateUnknown).
Object(o) == [kind |-> "object", obj |-> o]
Deleted == [kind |-> "deleted", obj |-> None]
Tombstone == [kind |-> "tombstone", obj |-> None]
Events == {Object(o) : o \in Objects} \cup {Deleted, Tombstone}
Notes == [event : {"Create", "Update", "Delete"}, version : 1..MaxVersion]
Told == [cond : Conditions \cup {""}, phase : [Jobs -> Phases]]

ASSUME NoneAssumption == None \notin Objects \cup Told

TypeOK ==
  /\ object \in [Batches -> Objects \cup {None}]
  /\ made \in SUBSET Batches
  /\ proc \in {"down", "named", "up"}
  /\ known \in SUBSET Batches
  /\ queue \in [Batches -> Seq(Events)]
  /\ store \in [Batches -> Objects \cup {None}]
  /\ cleaning \in BOOLEAN
  /\ notes \in [Batches -> Seq(Notes)]
  /\ told \in [Batches -> Told \cup {None}]
  /\ creates \in [Batches -> Nat]
  /\ deleteTold \in SUBSET Batches
  /\ relists \in 0..MaxRelists
  /\ crashes \in 0..MaxCrashes

Nowhere == [b \in Batches |-> None]
Empty == [b \in Batches |-> <<>>]

NewObject == [version |-> 1, cond |-> "", phase |-> [j \in Jobs |-> "none"], stop |-> {}]

Init ==
  /\ object = Nowhere /\ made = {}
  /\ proc = "down" /\ known = {}
  /\ queue = Empty /\ store = Nowhere
  /\ cleaning = FALSE
  /\ notes = Empty
  /\ told = Nowhere /\ creates = [b \in Batches |-> 0] /\ deleteTold = {}
  /\ relists = 0 /\ crashes = 0

(***************************************************************************)
(* The cluster.                                                            *)
(***************************************************************************)
Live(b) == object[b] # None

\* A running informer is sent every write.
Publish(b, e) ==
  queue' = IF proc = "up" THEN [queue EXCEPT ![b] = Append(@, e)] ELSE queue

Write(b, o) ==
  /\ object' = [object EXCEPT ![b] = o]
  /\ Publish(b, Object(o))
  /\ UNCHANGED <<proc, known, store, cleaning, noteVars, relists, crashes>>

Create(b) ==
  /\ b \notin made
  /\ made' = made \cup {b}
  /\ Write(b, NewObject)

\* The operator writes the status: the condition and the job statuses.
WriteStatus(b) ==
  /\ Live(b)
  /\ object[b].version < MaxVersion
  /\ \E c \in Conditions, p \in [Jobs -> Phases] :
       /\ <<c, p>> # <<object[b].cond, object[b].phase>>
       /\ Write(b, [object[b] EXCEPT !.version = @ + 1, !.cond = c, !.phase = p])
  /\ UNCHANGED made

\* A stop or restart request writes the specification only.
WriteSpec(b) ==
  /\ Live(b)
  /\ object[b].version < MaxVersion
  /\ \E S \in SUBSET Jobs \ {object[b].stop} :
       Write(b, [object[b] EXCEPT !.version = @ + 1, !.stop = S])
  /\ UNCHANGED made

Remove(b) ==
  /\ Live(b)
  /\ object' = [object EXCEPT ![b] = None]
  /\ Publish(b, Deleted)

Delete(b) ==
  /\ Remove(b)
  /\ UNCHANGED <<made, proc, known, store, cleaning, noteVars, relists, crashes>>

(***************************************************************************)
(* Starting the watcher.                                                   *)
(***************************************************************************)
ListNames ==
  /\ proc = "down"
  /\ proc' = "named"
  /\ known' = {b \in Batches : Live(b)}
  /\ UNCHANGED <<clusterVars, queue, store, cleaning, noteVars, relists, crashes>>

StartInformer ==
  /\ proc = "named"
  /\ proc' = "up"
  /\ queue' = [b \in Batches |-> IF Live(b) THEN <<Object(object[b])>> ELSE <<>>]
  /\ UNCHANGED <<clusterVars, known, store, cleaning, noteVars, relists, crashes>>

\* The watch of batch b breaks and a new list replaces what it would have sent.
\* A batch that has not changed may be delivered once more.
Relist(b) ==
  /\ proc = "up"
  /\ relists < MaxRelists
  /\ relists' = relists + 1
  /\ queue' = [queue EXCEPT ![b] =
                 CASE Live(b) -> <<Object(object[b])>>
                   [] ~Live(b) /\ store[b] # None -> <<Tombstone>>
                   [] OTHER -> <<>>]
  /\ UNCHANGED <<clusterVars, proc, known, store, cleaning, noteVars, crashes>>

(***************************************************************************)
(* The handlers.                                                           *)
(***************************************************************************)
Receive(b, kind) ==
  /\ proc = "up"
  /\ queue[b] # <<>>
  /\ Head(queue[b]).kind = kind
  /\ queue' = [queue EXCEPT ![b] = Tail(@)]

Notify(b, ev, o) ==
  notes' = [notes EXCEPT ![b] = Append(@, [event |-> ev, version |-> o.version])]

\* (A slip to test the properties with: the names noted at start are ignored.)
AnnouncesAll(b, o) == o.cond = ""

Announces(b, o) == o.cond = "" /\ b \notin known

Add(b) ==
  /\ Receive(b, "object")
  /\ store[b] = None
  /\ LET o == Head(queue[b]).obj IN
       /\ store' = [store EXCEPT ![b] = o]
       /\ IF Announces(b, o)
          THEN /\ Notify(b, "Create", o)
               /\ told' = [told EXCEPT ![b] = [cond |-> o.cond, phase |-> o.phase]]
               /\ creates' = [creates EXCEPT ![b] = @ + 1]
               /\ cleaning' = TRUE
          ELSE UNCHANGED <<notes, told, creates, cleaning>>
  /\ UNCHANGED <<clusterVars, proc, known, deleteTold, relists, crashes>>

\* (A slip: job statuses that are new are left out.)
ChangedJobStatuses(old, new) ==
  {j \in Jobs : old.phase[j] # "none" /\ new.phase[j] # old.phase[j]}

\* The job statuses of the new object that are new or differ.
UpdatedJobStatuses(old, new) ==
  {j \in Jobs : new.phase[j] # "none" /\ new.phase[j] # old.phase[j]}

\* The times are compared as pointers, and two objects never share one: a
\* condition that has a time is never found equal.
HasTime(o) == o.cond \in {"Active", "Completed"}
\* (A slip: the conditions are not compared.)
EqualStatuses(old, new) == TRUE
EqualBatchStatuses(old, new) == old.cond = new.cond /\ ~HasTime(old) /\ ~HasTime(new)

Unnoticed(old, new) == UpdatedJobStatuses(old, new) = {} /\ EqualBatchStatuses(old, new)

\* (A slip: what an Update does not carry is taken for gone.)
OnlyUpdate(t, new, J) == [cond |-> new.cond, phase |-> [j \in J |-> new.phase[j]]]

\* What the component knows after an Update: the condition, and the job
\* statuses the notification carries.
AfterUpdate(t, new, J) ==
  [cond |-> new.cond, phase |-> [j \in Jobs |-> IF j \in J THEN new.phase[j] ELSE t.phase[j]]]

Update(b) ==
  /\ Receive(b, "object")
  /\ store[b] # None
  /\ LET old == store[b]
         new == Head(queue[b]).obj
     IN /\ store' = [store EXCEPT ![b] = new]
        /\ IF Unnoticed(old, new)
           THEN UNCHANGED <<notes, told>>
           ELSE /\ Notify(b, "Update", new)
                /\ told' = [told EXCEPT ![b] =
                     IF @ = None THEN None ELSE AfterUpdate(@, new, UpdatedJobStatuses(old, new))]
  /\ UNCHANGED <<clusterVars, proc, known, cleaning, creates, deleteTold, relists, crashes>>

\* The informer has delivered the object before its deletion: its watch starts
\* where its list ended.
HandleDelete(b) ==
  /\ Receive(b, "deleted")
  /\ Notify(b, "Delete", store[b])
  /\ told' = [told EXCEPT ![b] = None]
  /\ deleteTold' = deleteTold \cup {b}
  /\ store' = [store EXCEPT ![b] = None]
  /\ known' = known \ {b}
  /\ UNCHANGED <<clusterVars, proc, cleaning, creates, relists, crashes>>

\* The process and its goroutines are gone.
Die ==
  /\ proc' = "down"
  /\ known' = {} /\ queue' = Empty /\ store' = Nowhere
  /\ cleaning' = FALSE
  /\ notes' = Empty
  /\ told' = Nowhere
  /\ UNCHANGED <<clusterVars, creates, deleteTold, relists>>

\* DeleteFunc takes a tombstone for a RadixBatch, goes on with the nil pointer
\* that the failed conversion left, and panics.
HandleTombstone(b) ==
  /\ proc = "up"
  /\ queue[b] # <<>>
  /\ Head(queue[b]).kind = "tombstone"
  /\ Die
  /\ UNCHANGED crashes

(***************************************************************************)
(* The goroutines.                                                         *)
(***************************************************************************)
\* The notification is composed and posted, if the batch is one of the
\* notifier's component; a post that fails is not repeated.
Post(b, i) ==
  /\ i \in DOMAIN notes[b]
  /\ notes' = [notes EXCEPT ![b] = SubSeq(@, 1, i - 1) \o SubSeq(@, i + 1, Len(@))]
  /\ UNCHANGED <<clusterVars, proc, known, queue, store, cleaning,
                 told, creates, deleteTold, relists, crashes>>

\* The history cleanup deletes a batch, which completed long ago and so has
\* been delivered, and its name (HistoryCleanup has the rest of it).
CleanupDeletes(b) ==
  /\ cleaning
  /\ Live(b) /\ object[b].cond = "Completed"
  /\ store[b] # None
  /\ Remove(b)
  /\ known' = known \ {b}
  /\ UNCHANGED <<made, proc, store, cleaning, noteVars, relists, crashes>>

EndCleanup ==
  /\ cleaning
  /\ cleaning' = FALSE
  /\ UNCHANGED <<clusterVars, proc, known, queue, store, noteVars, relists, crashes>>

\* The process is killed, or the runtime stops it because the cleanup and a
\* handler use the map of known names at the same time.
Crash ==
  /\ proc # "down"
  /\ crashes < MaxCrashes
  /\ crashes' = crashes + 1
  /\ Die

Cluster(b) == Create(b) \/ WriteStatus(b) \/ WriteSpec(b) \/ Delete(b)

Handle(b) ==
  Add(b) \/ Update(b) \/ HandleDelete(b) \/ HandleTombstone(b)

Goroutine(b) == \E i \in DOMAIN notes[b] : Post(b, i)

Next ==
  \/ \E b \in Batches : Cluster(b) \/ Relist(b) \/ Handle(b) \/ Goroutine(b) \/ CleanupDeletes(b)
  \/ ListNames \/ StartInformer \/ EndCleanup \/ Crash

Spec == Init /\ [][Next]_vars

\* A process is restarted, an informer delivers, and goroutines get to run.
FairSpec ==
  /\ Spec
  /\ WF_vars(ListNames) /\ WF_vars(StartInformer)
  /\ \A b \in Batches : WF_vars(Handle(b)) /\ WF_vars(Goroutine(b))

(***************************************************************************)
(* Properties.                                                             *)
(***************************************************************************)
\* The creation of a batch is notified at most once, across all restarts of the
\* process: the names noted at start and the informer's first list are read at
\* different times, and whichever way batches fall between the two, none is
\* announced again (AddFunc).
AtMostOneCreate == \A b \in Batches : creates[b] <= 1

\* What the component of batch b was told is the condition and the job statuses
\* of o.  The operator never takes a job's status away.
AddsUpTo(b, o) ==
  /\ told[b].cond = o.cond
  /\ \A j \in Jobs : o.phase[j] # "none" => told[b].phase[j] = o.phase[j]

\* What the Create of a batch and the Updates since add up to is the condition
\* and the job statuses the informer has delivered last, though an Update has
\* only the job statuses that changed and the watch may have skipped versions
\* in between (UpdateFunc, getUpdatedJobStatuses).
ToldFollowsStore == \A b \in Batches : told[b] # None => AddsUpTo(b, store[b])

\* As soon as the informer has delivered what was written of a batch, its
\* component knows the batch as it is in the cluster; whatever broken watches
\* left out, nothing that the component needs is left out for good (UpdateFunc,
\* DeleteFunc).
ToldOnceDelivered ==
  \A b \in Batches : proc = "up" /\ queue[b] = <<>> /\ told[b] # None =>
    Live(b) /\ AddsUpTo(b, object[b])

\* The last status that a batch comes to is handed over to its component,
\* unless the process dies: []<> since the writes are bounded.
LastStatusTold ==
  \A b \in Batches : []<>(told[b] # None /\ Live(b) => AddsUpTo(b, object[b]))

\* "Deleted batch status, sends notification about batch status"
\* (watcher_test.go:167): the deletion of a batch that the watcher has announced
\* is notified.
DeleteTold ==
  \A b \in Batches : (creates[b] > 0 /\ ~Live(b)) ~> b \in deleteTold

====
