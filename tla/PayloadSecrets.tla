---- MODULE PayloadSecrets ----
(***************************************************************************)
(* The life of the payload secrets of one job component.                   *)
(*                                                                         *)
(* A request that creates a batch first writes the secrets that hold the   *)
(* payloads of its jobs and only then writes the RadixBatch that refers to *)
(* them; the two kinds of object are tied by name only.  Deleting a batch  *)
(* leaves its secrets, and a garbage collector, run by every delete        *)
(* request and by every history cleanup, removes the secrets that no batch *)
(* refers to.  The collector lists the references first and the secrets    *)
(* later, with creations, copies and deletions in between, and tells the   *)
(* secrets of a creation in progress from orphans by their age alone.      *)
(*                                                                         *)
(* The API server's stores are `batches`, `ref`, `secrets` and `born`; the *)
(* rest is the memory of the job scheduler's goroutines, lost in a crash.  *)
(***************************************************************************)
EXTENDS Naturals, FiniteSets

CONSTANTS
  Batches,     \* generated batch names, never issued twice
  Collectors,  \* goroutines that delete batches and collect secrets
  MaxSecrets,  \* the most payload secrets one batch is split over
  Grace,       \* the age, in hours, at which an orphan may be collected
  CreateTime,  \* the longest a creating request runs, in hours
  GCTime,      \* the longest time between the two lists of a collection
  MaxTime      \* bound on the clock

\* A creation and the two lists of a collection together last less than the
\* 24 hours that an unreferenced secret is left alone.
ASSUME TimingAssumption ==
  /\ Grace \in Nat /\ CreateTime \in Nat /\ GCTime \in Nat
  /\ CreateTime + GCTime < Grace
ASSUME BoundsAssumption == MaxSecrets \in Nat /\ MaxTime \in Nat

VARIABLES
  now,         \* the clock
  batches,     \* the RadixBatches in the cluster
  ref,         \* the secrets the jobs of each batch refer to
  secrets,     \* the payload secrets in the cluster
  born,        \* their creation timestamps
  phase,       \* what became of the request that was given each batch name
  plan,        \* how many secrets the request creates ...
  written,     \* ... and has created
  started,     \* when the request started
  pc,          \* where each collector is
  seen,        \* the references it listed ...
  listedAt,    \* ... and when
  todo,        \* the listed secrets it has not visited yet
  checkedAt,   \* the time it compares creation timestamps with
  errors       \* the secrets it failed to delete (they are only logged)

clusterVars == <<batches, ref, secrets, born>>
requestVars == <<phase, plan, written, started>>
gcVars == <<pc, seen, listedAt, todo, checkedAt, errors>>
vars == <<now, clusterVars, requestVars, gcVars>>

\* The secret with index i of batch b is named <b>-payloads-<i>.
SecretNames == Batches \X (0..(MaxSecrets - 1))
OwnSecrets(b, n) == {b} \X (0..(n - 1))

Phases == {"unused", "creating", "copying", "created", "copied", "failed"}
Stages == {"idle", "refs", "secrets", "sweep"}

TypeOK ==
  /\ now \in Nat
  /\ batches \subseteq Batches
  /\ ref \in [Batches -> SUBSET SecretNames]
  /\ secrets \subseteq SecretNames
  /\ born \in [SecretNames -> Nat]
  /\ phase \in [Batches -> Phases]
  /\ plan \in [Batches -> 0..MaxSecrets]
  /\ written \in [Batches -> 0..MaxSecrets]
  /\ started \in [Batches -> Nat]
  /\ pc \in [Collectors -> Stages]
  /\ seen \in [Collectors -> SUBSET SecretNames]
  /\ listedAt \in [Collectors -> Nat]
  /\ todo \in [Collectors -> SUBSET SecretNames]
  /\ checkedAt \in [Collectors -> Nat]
  /\ errors \in [Collectors -> SUBSET SecretNames]

Init ==
  /\ now = 0
  /\ batches = {}
  /\ ref = [b \in Batches |-> {}]
  /\ secrets = {}
  /\ born = [s \in SecretNames |-> 0]
  /\ phase = [b \in Batches |-> "unused"]
  /\ plan = [b \in Batches |-> 0]
  /\ written = [b \in Batches |-> 0]
  /\ started = [b \in Batches |-> 0]
  /\ pc = [c \in Collectors |-> "idle"]
  /\ seen = [c \in Collectors |-> {}]
  /\ listedAt = [c \in Collectors |-> 0]
  /\ todo = [c \in Collectors |-> {}]
  /\ checkedAt = [c \in Collectors |-> 0]
  /\ errors = [c \in Collectors |-> {}]

(***************************************************************************)
(* Creating a batch.                                                       *)
(***************************************************************************)
\* The name is generated and the payloads are packed into n secrets.
StartCreate(b) ==
  /\ phase[b] = "unused"
  /\ \E n \in 0..MaxSecrets : plan' = [plan EXCEPT ![b] = n]
  /\ phase' = [phase EXCEPT ![b] = "creating"]
  /\ written' = [written EXCEPT ![b] = 0]
  /\ started' = [started EXCEPT ![b] = now]
  /\ UNCHANGED <<now, clusterVars, gcVars>>

\* (A slip to test the properties with: one secret too many.)
CreateOneSecretMore(b) ==
  /\ phase[b] = "creating"
  /\ written[b] <= plan[b]
  /\ secrets' = secrets \cup {<<b, written[b]>>}
  /\ written' = [written EXCEPT ![b] = @ + 1]
  /\ UNCHANGED <<now, batches, ref, born, phase, plan, started, gcVars>>

CreateSecret(b) ==
  /\ phase[b] = "creating"
  /\ written[b] < plan[b]
  /\ secrets' = secrets \cup {<<b, written[b]>>}
  /\ born' = [born EXCEPT ![<<b, written[b]>>] = now]
  /\ written' = [written EXCEPT ![b] = @ + 1]
  /\ UNCHANGED <<now, batches, ref, phase, plan, started, gcVars>>

CreateBatch(b) ==
  /\ phase[b] = "creating"
  /\ written[b] = plan[b]
  /\ batches' = batches \cup {b}
  /\ ref' = [ref EXCEPT ![b] = OwnSecrets(b, plan[b])]
  /\ phase' = [phase EXCEPT ![b] = "created"]
  /\ UNCHANGED <<now, secrets, born, plan, written, started, gcVars>>

\* A secret or the batch cannot be written: the request returns the error and
\* leaves behind the secrets it has written.
CreateFails(b) ==
  /\ phase[b] = "creating"
  /\ phase' = [phase EXCEPT ![b] = "failed"]
  /\ UNCHANGED <<now, clusterVars, plan, written, started, gcVars>>

(***************************************************************************)
(* Copying a batch or one of its jobs.  The copied jobs keep the payload   *)
(* references of the source, which was read before the copy is written.    *)
(***************************************************************************)
CopiedRefs(src) == {ref[src], {}} \cup {{s} : s \in ref[src]}

\* (A slip: the references get the name of the copy, as its jobs do.)
StartCopyRenamed(b, src) ==
  /\ phase[b] = "unused"
  /\ src \in batches
  /\ \E R \in CopiedRefs(src) : ref' = [ref EXCEPT ![b] = {<<b, s[2]>> : s \in R}]
  /\ phase' = [phase EXCEPT ![b] = "copying"]
  /\ UNCHANGED <<now, batches, secrets, born, plan, written, started, gcVars>>

StartCopy(b, src) ==
  /\ phase[b] = "unused"
  /\ src \in batches
  /\ \E R \in CopiedRefs(src) : ref' = [ref EXCEPT ![b] = R]
  /\ phase' = [phase EXCEPT ![b] = "copying"]
  /\ UNCHANGED <<now, batches, secrets, born, plan, written, started, gcVars>>

CreateCopy(b) ==
  /\ phase[b] = "copying"
  /\ batches' = batches \cup {b}
  /\ phase' = [phase EXCEPT ![b] = "copied"]
  /\ UNCHANGED <<now, ref, secrets, born, plan, written, started, gcVars>>

CopyFails(b) ==
  /\ phase[b] = "copying"
  /\ phase' = [phase EXCEPT ![b] = "failed"]
  /\ UNCHANGED <<now, clusterVars, plan, written, started, gcVars>>

(***************************************************************************)
(* Deleting batches and collecting their secrets.                          *)
(***************************************************************************)
\* A delete request removes its batch and goes on to the collection; a
\* history cleanup comes to it whether or not it has removed batches.
DeleteBatch(c, b) ==
  /\ pc[c] = "idle"
  /\ b \in batches
  /\ batches' = batches \ {b}
  /\ pc' = [pc EXCEPT ![c] = "refs"]
  /\ UNCHANGED <<now, ref, secrets, born, requestVars, seen, listedAt, todo, checkedAt, errors>>

StartGC(c) ==
  /\ pc[c] = "idle"
  /\ pc' = [pc EXCEPT ![c] = "refs"]
  /\ UNCHANGED <<now, clusterVars, requestVars, seen, listedAt, todo, checkedAt, errors>>

ReferencedSecrets == UNION {ref[b] : b \in batches}

\* (A slip: the list matches no batch.)
ListNoRefs(c) ==
  /\ pc[c] = "refs"
  /\ pc' = [pc EXCEPT ![c] = "secrets"]
  /\ listedAt' = [listedAt EXCEPT ![c] = now]
  /\ UNCHANGED <<now, clusterVars, requestVars, seen, todo, checkedAt, errors>>

ListRefs(c) ==
  /\ pc[c] = "refs"
  /\ pc' = [pc EXCEPT ![c] = "secrets"]
  /\ seen' = [seen EXCEPT ![c] = ReferencedSecrets]
  /\ listedAt' = [listedAt EXCEPT ![c] = now]
  /\ UNCHANGED <<now, clusterVars, requestVars, todo, checkedAt, errors>>

ListSecrets(c) ==
  /\ pc[c] = "secrets"
  /\ pc' = [pc EXCEPT ![c] = "sweep"]
  /\ todo' = [todo EXCEPT ![c] = secrets]
  /\ checkedAt' = [checkedAt EXCEPT ![c] = now]
  /\ UNCHANGED <<now, clusterVars, requestVars, seen, listedAt, errors>>

\* The collectors in C return, and what they had read is gone.
Return(C) ==
  /\ pc' = [c \in Collectors |-> IF c \in C THEN "idle" ELSE pc[c]]
  /\ seen' = [c \in Collectors |-> IF c \in C THEN {} ELSE seen[c]]
  /\ listedAt' = [c \in Collectors |-> IF c \in C THEN 0 ELSE listedAt[c]]
  /\ todo' = [c \in Collectors |-> IF c \in C THEN {} ELSE todo[c]]
  /\ checkedAt' = [c \in Collectors |-> IF c \in C THEN 0 ELSE checkedAt[c]]
  /\ errors' = [c \in Collectors |-> IF c \in C THEN {} ELSE errors[c]]

\* Either list fails and the collection is given up.
ListFails(c) ==
  /\ pc[c] \in {"refs", "secrets"}
  /\ Return({c})
  /\ UNCHANGED <<now, clusterVars, requestVars>>

\* (Slips: no grace at all, and a grace that only covers the creation.)
NeverTooYoung(c, s) == FALSE
TooYoungWithoutGrace(c, s) == born[s] + CreateTime > checkedAt[c]

TooYoung(c, s) == born[s] + Grace > checkedAt[c]
Collectable(c, s) == s \notin seen[c] /\ ~TooYoung(c, s)

Visit(c, s) ==
  /\ pc[c] = "sweep"
  /\ s \in todo[c]
  /\ todo' = [todo EXCEPT ![c] = @ \ {s}]
  /\ UNCHANGED <<now, batches, ref, born, requestVars, pc, seen, listedAt, checkedAt>>

KeepSecret(c, s) ==
  /\ Visit(c, s)
  /\ ~Collectable(c, s)
  /\ UNCHANGED <<secrets, errors>>

DeleteSecret(c, s) ==
  /\ Visit(c, s)
  /\ Collectable(c, s)
  /\ secrets' = secrets \ {s}
  /\ UNCHANGED errors

\* (A slip: the first error ends the sweep.)
DeleteSecretGivesUp(c, s) ==
  /\ pc[c] = "sweep"
  /\ s \in todo[c]
  /\ Collectable(c, s)
  /\ todo' = [todo EXCEPT ![c] = {}]
  /\ errors' = [errors EXCEPT ![c] = @ \cup {s}]
  /\ UNCHANGED <<now, clusterVars, requestVars, pc, seen, listedAt, checkedAt>>

\* The delete fails: the error is logged and the sweep goes on.
DeleteSecretFails(c, s) ==
  /\ Visit(c, s)
  /\ Collectable(c, s)
  /\ errors' = [errors EXCEPT ![c] = @ \cup {s}]
  /\ UNCHANGED secrets

EndGC(c) ==
  /\ pc[c] = "sweep"
  /\ todo[c] = {}
  /\ Return({c})
  /\ UNCHANGED <<now, clusterVars, requestVars>>

(***************************************************************************)
(* The surroundings: the process dies and is restarted, and time passes.   *)
(***************************************************************************)
Crash ==
  /\ phase' = [b \in Batches |->
                 IF phase[b] \in {"creating", "copying"} THEN "failed" ELSE phase[b]]
  /\ Return(Collectors)
  /\ UNCHANGED <<now, clusterVars, plan, written, started>>

\* Requests and collections in progress bound how far the clock may run.
Tick ==
  /\ now < MaxTime
  /\ \A b \in Batches : phase[b] = "creating" => now < started[b] + CreateTime
  /\ \A c \in Collectors : pc[c] = "secrets" => now < listedAt[c] + GCTime
  /\ now' = now + 1
  /\ UNCHANGED <<clusterVars, requestVars, gcVars>>

Request(b) ==
  \/ StartCreate(b) \/ CreateSecret(b) \/ CreateBatch(b) \/ CreateFails(b)
  \/ \E src \in Batches : StartCopy(b, src)
  \/ CreateCopy(b) \/ CopyFails(b)

Collector(c) ==
  \/ \E b \in Batches : DeleteBatch(c, b)
  \/ StartGC(c) \/ ListRefs(c) \/ ListSecrets(c) \/ ListFails(c) \/ EndGC(c)
  \/ \E s \in SecretNames : KeepSecret(c, s) \/ DeleteSecret(c, s) \/ DeleteSecretFails(c, s)

Next ==
  \/ \E b \in Batches : Request(b)
  \/ \E c \in Collectors : Collector(c)
  \/ Crash
  \/ Tick

Spec == Init /\ [][Next]_vars

(***************************************************************************)
(* Properties.                                                             *)
(***************************************************************************)
\* A batch that a request created finds every payload its jobs refer to in the
\* cluster for as long as it exists: no collection, however its two lists fall
\* among the steps of the creation, takes a payload away
\* (GarbageCollectPayloadSecrets against createRadixBatch).
CreatedBatchHasItsPayload ==
  \A b \in batches : phase[b] = "created" => ref[b] \subseteq secrets

\* While a request is creating its batch, the secrets it has written are not
\* collected, though nothing refers to them yet.
CreationKeepsItsSecrets ==
  \A b \in Batches : phase[b] = "creating" => OwnSecrets(b, written[b]) \subseteq secrets

\* A payload is lost only together with the batch it was created for.  So a copy,
\* and a copy of a copy, has its payloads for as long as that batch exists, for
\* which collections spare them (CopyRadixBatch, CopyRadixBatchJob).
LostOnlyWithItsOwner ==
  \A b \in batches : \A s \in ref[b] \ secrets : s[1] \notin batches

\* When a collection ends, a secret that was unreferenced when it listed the
\* references and past its grace when it listed the secrets is gone, unless
\* its own delete failed: one failing delete keeps no other orphan alive.
GCLeavesNoOldOrphan ==
  [][\A c \in Collectors : EndGC(c) =>
       \A s \in secrets : Collectable(c, s) => s \in errors[c]]_vars

\* What "Delete orphaned payload secrets" (payload.go) says: a secret that the
\* jobs of an existing batch refer to is not an orphan and is never deleted.
OnlyOrphansDeleted ==
  [][\A s \in secrets \ secrets' : s \notin ReferencedSecrets]_vars

(***************************************************************************)
(* The inductive invariant that makes the first two properties hold.       *)
(***************************************************************************)
\* A running request is younger than CreateTime, and so a collection's reading
\* of the secrets is at most GCTime later than its reading of the references.
OnTime ==
  /\ \A b \in Batches : phase[b] = "creating" =>
       started[b] <= now /\ now <= started[b] + CreateTime
  /\ \A c \in Collectors : pc[c] = "secrets" =>
       listedAt[c] <= now /\ now <= listedAt[c] + GCTime
  /\ \A c \in Collectors : pc[c] = "sweep" =>
       listedAt[c] <= checkedAt[c] /\ checkedAt[c] <= listedAt[c] + GCTime /\ checkedAt[c] <= now

\* A request's secrets are no older than the request.
BornInTime ==
  \A b \in Batches : phase[b] = "creating" =>
    \A s \in OwnSecrets(b, written[b]) : started[b] <= born[s]

\* A created batch refers to its own secrets only.
RefersToOwn ==
  \A b \in Batches : phase[b] = "created" => ref[b] = OwnSecrets(b, written[b])

\* The crux: a reference that a collection in progress has not seen is to a
\* secret at most CreateTime older than the list of references.
UnseenIsYoung ==
  \A c \in Collectors : pc[c] \in {"secrets", "sweep"} =>
    \A b \in batches : phase[b] = "created" =>
      \A s \in ref[b] \ seen[c] : listedAt[c] <= born[s] + CreateTime

IndInv ==
  /\ OnTime
  /\ BornInTime
  /\ RefersToOwn
  /\ UnseenIsYoung
  /\ CreatedBatchHasItsPayload
  /\ CreationKeepsItsSecrets

====
