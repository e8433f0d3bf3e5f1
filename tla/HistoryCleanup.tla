---- MODULE HistoryCleanup ----
(***************************************************************************)
(* The history cleanup of one job component.                               *)
(*                                                                         *)
(* Whenever the watcher sees a new batch it starts a goroutine that runs   *)
(* Cleanup.  A cleanup passes a gate at most once a period, lists the      *)
(* batches, works out by category which completed ones exceed the history  *)
(* limit, and deletes those one by one, by name, oldest first.  The gate   *)
(* is read and set in two steps without a lock, a cleanup may outlast the  *)
(* period, and users delete and restart batches meanwhile: several         *)
(* cleanups may be deleting at once, each from a list of its own that is   *)
(* out of date.                                                            *)
(*                                                                         *)
(* An "open" batch is one that has not completed (or not been created).    *)
(***************************************************************************)
EXTENDS Naturals, FiniteSets

CONSTANTS
  Batches,     \* RadixBatch names
  TypeOf,      \* the type label of each batch
  Outcomes,    \* the outcomes that batches may have
  Rank,        \* its place in the API server's list, which is sorted by name
  Workers,     \* cleanup goroutines
  Limit,       \* RadixJobSchedulersPerEnvironmentHistoryLimit
  MinAge,      \* minimumAgeSeconds
  Period,      \* cleanupPeriodSeconds
  Restartable, \* bound: the batches that users restart
  MaxLag,      \* how late a completion time may reach the cluster
  MaxTime      \* bound on the clock

ASSUME HistoryAssumption ==
  /\ IsFiniteSet(Batches)
  /\ TypeOf \in [Batches -> {"batch", "job"}]
  /\ Outcomes \subseteq {"succeeded", "notSucceeded"}
  /\ Rank \in [Batches -> Nat]
  /\ \A a, b \in Batches : Rank[a] = Rank[b] => a = b
  /\ Limit \in Nat /\ MinAge \in Nat /\ Period \in Nat
  /\ Restartable \subseteq Batches
  /\ MaxLag \in Nat /\ MaxTime \in Nat

VARIABLES
  now,        \* the clock
  state,      \* of each batch in the cluster
  outcome,    \* whether all jobs of a completed batch succeeded
  at,         \* when it completed
  swept,      \* the batches that cleanups have deleted
  restarted,  \* the batches that were restarted after they had completed
  notBefore,  \* lastCleanupTime + Period: the gate is shut until then
  pc,         \* where each cleanup is
  cutoff,     \* when it passed the gate
  listed,     \* the completion times it listed
  todo,       \* by category, the batches it has still to delete
  target,     \* the batch it has read and is about to delete
  stopped     \* why it has given up a category

clusterVars == <<state, outcome, at, swept, restarted>>
workerVars == <<pc, cutoff, listed, todo, target, stopped>>
vars == <<now, clusterVars, notBefore, workerVars>>

\* The categories, in the order in which they are cleaned up.
Category == << <<"batch", "succeeded">>, <<"batch", "notSucceeded">>,
               <<"job", "succeeded">>, <<"job", "notSucceeded">> >>
Categories == 1..4

NothingListed == [b \in {} |-> 0]
NothingToDo == [i \in Categories |-> {}]

TypeOK ==
  /\ now \in Nat
  /\ state \in [Batches -> {"open", "completed", "gone"}]
  /\ outcome \in [Batches -> Outcomes \cup {"none"}]
  /\ at \in [Batches -> Nat]
  /\ swept \in SUBSET Batches
  /\ restarted \in SUBSET Batches
  /\ notBefore \in Nat
  /\ pc \in [Workers -> {"idle", "gate", "stamp", "list", "get", "delete"}]
  /\ cutoff \in [Workers -> Nat]
  /\ DOMAIN listed = Workers
  /\ \A w \in Workers :
       DOMAIN listed[w] \subseteq Batches /\ listed[w] \in [DOMAIN listed[w] -> Nat]
  /\ todo \in [Workers -> [Categories -> SUBSET Batches]]
  /\ target \in [Workers -> SUBSET Batches]
  /\ stopped \in [Workers -> SUBSET {"missing", "error"}]

Init ==
  /\ now = 0
  /\ state = [b \in Batches |-> "open"]
  /\ outcome = [b \in Batches |-> "none"]
  /\ at = [b \in Batches |-> 0]
  /\ swept = {}
  /\ restarted = {}
  /\ notBefore = 0
  /\ pc = [w \in Workers |-> "idle"]
  /\ cutoff = [w \in Workers |-> 0]
  /\ listed = [w \in Workers |-> NothingListed]
  /\ todo = [w \in Workers |-> NothingToDo]
  /\ target = [w \in Workers |-> {}]
  /\ stopped = [w \in Workers |-> {}]

(***************************************************************************)
(* Cleanup.                                                                *)
(***************************************************************************)
\* The watcher starts a cleanup for any batch added to the namespace, also for
\* those of other components.
Trigger(w) ==
  /\ pc[w] = "idle"
  /\ pc' = [pc EXCEPT ![w] = "gate"]
  /\ UNCHANGED <<now, clusterVars, notBefore, cutoff, listed, todo, target, stopped>>

Return(W) ==
  /\ pc' = [w \in Workers |-> IF w \in W THEN "idle" ELSE pc[w]]
  /\ cutoff' = [w \in Workers |-> IF w \in W THEN 0 ELSE cutoff[w]]
  /\ listed' = [w \in Workers |-> IF w \in W THEN NothingListed ELSE listed[w]]
  /\ todo' = [w \in Workers |-> IF w \in W THEN NothingToDo ELSE todo[w]]
  /\ target' = [w \in Workers |-> IF w \in W THEN {} ELSE target[w]]
  /\ stopped' = [w \in Workers |-> IF w \in W THEN {} ELSE stopped[w]]

SkipCleanup(w) ==
  /\ pc[w] = "gate"
  /\ now < notBefore
  /\ Return({w})
  /\ UNCHANGED <<now, clusterVars, notBefore>>

PassGate(w) ==
  /\ pc[w] = "gate"
  /\ now >= notBefore
  /\ pc' = [pc EXCEPT ![w] = "stamp"]
  /\ UNCHANGED <<now, clusterVars, notBefore, cutoff, listed, todo, target, stopped>>

\* (A slip to test the properties with: the wrong sign of the period.)
StampBackwards(w) ==
  /\ pc[w] = "stamp"
  /\ notBefore' = now - Period
  /\ cutoff' = [cutoff EXCEPT ![w] = now]
  /\ pc' = [pc EXCEPT ![w] = "list"]
  /\ UNCHANGED <<now, clusterVars, listed, todo, target, stopped>>

Stamp(w) ==
  /\ pc[w] = "stamp"
  /\ notBefore' = now + Period
  /\ cutoff' = [cutoff EXCEPT ![w] = now]
  /\ pc' = [pc EXCEPT ![w] = "list"]
  /\ UNCHANGED <<now, clusterVars, listed, todo, target, stopped>>

\* The order of completion.  Batches that completed in the same second keep the
\* order of the list: sort.Slice sorts up to 12 elements by insertion.
Before(time, a, b) == time[a] < time[b] \/ (time[a] = time[b] /\ Rank[a] < Rank[b])

InCategory(i, b) ==
  state[b] = "completed" /\ <<TypeOf[b], outcome[b]>> = Category[i]

\* (A slip: not strictly before.)
OldInclusive(i, t) == {b \in Batches : InCategory(i, b) /\ at[b] + MinAge <= t}

\* What a cleanup that passed the gate at time t counts in a category.
Old(i, t) == {b \in Batches : InCategory(i, b) /\ at[b] + MinAge < t}

\* (Slips: one too many, one too few.)
ExcessAndOne(B) == {b \in B : Cardinality({a \in B : Before(at, b, a)}) + 1 >= Limit}
ExcessButOne(B) == {b \in B : Cardinality({a \in B : Before(at, b, a)}) > Limit}

\* All but the Limit last ones of a category, in the order of completion.
Excess(B) == {b \in B : Cardinality({a \in B : Before(at, b, a)}) >= Limit}

List(w) ==
  /\ pc[w] = "list"
  /\ listed' = [listed EXCEPT ![w] =
                  [b \in {a \in Batches : state[a] = "completed"} |-> at[b]]]
  /\ todo' = [todo EXCEPT ![w] = [i \in Categories |-> Excess(Old(i, cutoff[w]))]]
  /\ pc' = [pc EXCEPT ![w] = "get"]
  /\ UNCHANGED <<now, clusterVars, notBefore, cutoff, target, stopped>>

\* The list fails, or the context of the cleanup has expired.
GiveUp(w) ==
  /\ pc[w] = "list" \/ (pc[w] \in {"get", "delete"} /\ todo[w] # NothingToDo)
  /\ Return({w})
  /\ UNCHANGED <<now, clusterVars, notBefore>>

\* The batch whose turn it is: the oldest of the first category left.
Current(w, i, b) ==
  /\ b \in todo[w][i]
  /\ \A k \in Categories : k < i => todo[w][k] = {}
  /\ \A a \in todo[w][i] \ {b} : Before(listed[w], b, a)

Exists(b) == state[b] # "gone"

Get(w, i, b) ==
  /\ pc[w] = "get"
  /\ Current(w, i, b)
  /\ Exists(b)
  /\ target' = [target EXCEPT ![w] = {b}]
  /\ pc' = [pc EXCEPT ![w] = "delete"]
  /\ UNCHANGED <<now, clusterVars, notBefore, cutoff, listed, todo, stopped>>

\* An error ends the category, and the cleanup goes on with the next.
Abandon(w, i, why) ==
  /\ todo' = [todo EXCEPT ![w][i] = {}]
  /\ stopped' = [stopped EXCEPT ![w] = @ \cup {why}]
  /\ target' = [target EXCEPT ![w] = {}]
  /\ pc' = [pc EXCEPT ![w] = "get"]
  /\ UNCHANGED <<now, clusterVars, notBefore, cutoff, listed>>

\* The batch is gone already.  GetRadixBatch wraps the error of the API server
\* and IsNotFound no longer recognises it, so DeleteRadixBatchByName returns it.
GetMissing(w, i, b) ==
  /\ pc[w] = "get"
  /\ Current(w, i, b)
  /\ ~Exists(b)
  /\ Abandon(w, i, "missing")

\* (A slip: after an error the cleanup goes on with the next batch.)
CallFailsAndGoesOn(w, i, b) ==
  /\ pc[w] \in {"get", "delete"}
  /\ Current(w, i, b)
  /\ todo' = [todo EXCEPT ![w][i] = @ \ {b}]
  /\ stopped' = [stopped EXCEPT ![w] = @ \cup {"error"}]
  /\ target' = [target EXCEPT ![w] = {}]
  /\ pc' = [pc EXCEPT ![w] = "get"]
  /\ UNCHANGED <<now, clusterVars, notBefore, cutoff, listed>>

\* The call to read the batch, or the call to delete it, fails.
CallFails(w, i, b) ==
  /\ pc[w] \in {"get", "delete"}
  /\ Current(w, i, b)
  /\ Abandon(w, i, "error")

\* The delete is by name, whatever the batch has become since it was listed;
\* that it is gone by now is tolerated.
Delete(w, i, b) ==
  /\ pc[w] = "delete"
  /\ Current(w, i, b)
  /\ target[w] = {b}
  /\ state' = [state EXCEPT ![b] = "gone"]
  /\ swept' = IF Exists(b) THEN swept \cup {b} ELSE swept
  /\ todo' = [todo EXCEPT ![w][i] = @ \ {b}]
  /\ target' = [target EXCEPT ![w] = {}]
  /\ pc' = [pc EXCEPT ![w] = "get"]
  /\ UNCHANGED <<now, outcome, at, restarted, notBefore, cutoff, listed, stopped>>

\* The lists are done; the cleanup goes on to collect payload secrets
\* (PayloadSecrets!StartGC).
EndCleanup(w) ==
  /\ pc[w] = "get"
  /\ todo[w] = NothingToDo
  /\ Return({w})
  /\ UNCHANGED <<now, clusterVars, notBefore>>

(***************************************************************************)
(* The surroundings: the operator completes batches, users delete and      *)
(* restart them, the process is restarted, time passes.                    *)
(***************************************************************************)
Complete(b) ==
  /\ state[b] = "open"
  /\ state' = [state EXCEPT ![b] = "completed"]
  /\ \E o \in Outcomes : outcome' = [outcome EXCEPT ![b] = o]
  /\ \E t \in 0..now : now <= t + MaxLag /\ at' = [at EXCEPT ![b] = t]
  /\ UNCHANGED <<now, swept, restarted, notBefore, workerVars>>

\* The operator reacts to the restart: the batch is open again.
Restart(b) ==
  /\ state[b] = "completed"
  /\ b \in Restartable
  /\ restarted' = restarted \cup {b}
  /\ state' = [state EXCEPT ![b] = "open"]
  /\ outcome' = [outcome EXCEPT ![b] = "none"]
  /\ at' = [at EXCEPT ![b] = 0]
  /\ UNCHANGED <<now, swept, notBefore, workerVars>>

UserDelete(b) ==
  /\ Exists(b)
  /\ state' = [state EXCEPT ![b] = "gone"]
  /\ UNCHANGED <<now, outcome, at, swept, restarted, notBefore, workerVars>>

\* The process is replaced by one that has never cleaned up.
Crash ==
  /\ notBefore' = 0
  /\ Return(Workers)
  /\ UNCHANGED <<now, clusterVars>>

Tick ==
  /\ now < MaxTime
  /\ now' = now + 1
  /\ UNCHANGED <<clusterVars, notBefore, workerVars>>

Cleanup(w) ==
  \/ Trigger(w) \/ SkipCleanup(w) \/ PassGate(w) \/ Stamp(w) \/ List(w) \/ GiveUp(w) \/ EndCleanup(w)
  \/ \E i \in Categories, b \in Batches :
       Get(w, i, b) \/ GetMissing(w, i, b) \/ CallFails(w, i, b) \/ Delete(w, i, b)

Next ==
  \/ \E w \in Workers : Cleanup(w)
  \/ \E b \in Batches : Complete(b) \/ Restart(b) \/ UserDelete(b)
  \/ Crash
  \/ Tick

Spec == Init /\ [][Next]_vars

(***************************************************************************)
(* Properties.                                                             *)
(***************************************************************************)
\* The batches of b's category that completed after b, whatever became of them.
Newer(b) ==
  {a \in Batches : /\ outcome[b] # "none"
                   /\ TypeOf[a] = TypeOf[b] /\ outcome[a] = outcome[b]
                   /\ Before(at, b, a)}

\* However many cleanups overlap, crash and are repeated, and whatever users
\* delete meanwhile, a batch that a cleanup has deleted is followed in its
\* category by at least Limit batches that no cleanup has deleted, or that users
\* have restarted since: the newest Limit batches of a category are never
\* cleaned up (Cleanup).
HistoryKept ==
  \A b \in swept \ restarted :
    Cardinality((Newer(b) \ swept) \cup {a \in restarted : TypeOf[a] = TypeOf[b]}) >= Limit

\* A cleanup only ever deletes batches that completed before it passed the gate,
\* by more than the minimum age, unless they were restarted since.
OnlyOldHistoryDeleted ==
  [][\A b \in swept' \ swept :
       b \in restarted \/ (state[b] = "completed" /\ at[b] + MinAge < now)]_vars

\* Batch a completed before b, in its category.
Older(a, b) == TypeOf[a] = TypeOf[b] /\ outcome[a] = outcome[b] /\ Before(at, a, b)

\* Wherever a cleanup is ended by an error, by its deadline or by a crash, what it
\* leaves are the newest: it deletes a batch only when every older one of the
\* category that it has listed is gone, or was restarted since, whoever else
\* deletes meanwhile (cleanupRadixBatchHistory).
OldestFirst ==
  [][\A w \in Workers, i \in Categories, b \in Batches \ restarted : Delete(w, i, b) =>
       \A a \in DOMAIN listed[w] \ restarted : Older(a, b) => state[a] = "gone"]_vars

\* The old batches of a category that a cleanup listed, that are still there and
\* that were not restarted since.
Remaining(w, i) ==
  {b \in Old(i, cutoff[w]) \ restarted : b \in DOMAIN listed[w]}

\* A cleanup that met no error leaves no more than Limit old batches in any
\* category, whatever other cleanups and users deleted or restarted meanwhile.
ExcessRemoved ==
  [][\A w \in Workers : EndCleanup(w) /\ stopped[w] = {} =>
       \A i \in Categories : Cardinality(Remaining(w, i)) <= Limit]_vars

\* The same where the only errors are that a batch to be deleted was gone
\* already, which the delete functions set out to ignore ("Radix batch does not
\* exist, no error", pkg/batch/batch_test.go:523).
MissingBatchIgnored ==
  [][\A w \in Workers : EndCleanup(w) /\ "error" \notin stopped[w] =>
       \A i \in Categories : Cardinality(Remaining(w, i)) <= Limit]_vars

====
