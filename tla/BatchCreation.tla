---- MODULE BatchCreation ----
(***************************************************************************)
(* One request that creates a batch or a single job, from the descriptions *)
(* of its jobs to the RadixBatch.                                          *)
(*                                                                         *)
(* Three loops over the request: each job is described, with the defaults  *)
(* of the batch; the payloads are packed into secrets, in the order of the *)
(* jobs, a new secret being begun when an estimate of the size says that   *)
(* the last one is full; and the secrets are written, one call each.  The  *)
(* RadixBatch is written last.  The module implements PayloadSecrets, in   *)
(* which the first two loops are a single step.                            *)
(***************************************************************************)
EXTENDS JobDefaults, FiniteSets, Functions

CONSTANTS
  Requests,  \* the requests: payload sizes and descriptions of the jobs,
             \* the defaults, and whether the component has a payload path
  MaxJobs,   \* the most jobs in a request
  MaxSize,   \* maxPayloadSecretSize
  Aux,       \* payloadSecretAuxDataSize
  EntryAux,  \* payloadSecretEntryAuxDataSize and the length of a job name
  Batch      \* the generated name of the batch

ASSUME SizesAssumption == MaxSize \in Nat /\ Aux \in Nat /\ EntryAux \in Nat

\* The size of a payload is that of its trimmed text in base64; 0 is none.
ASSUME RequestsAssumption ==
  /\ MaxJobs \in Nat
  /\ \A r \in Requests :
       /\ DOMAIN r.payload \in {1..n : n \in 1..MaxJobs}
       /\ \A j \in DOMAIN r.payload : r.payload[j] \in Nat
       /\ DOMAIN r.own = DOMAIN r.payload
       /\ \A j \in DOMAIN r.own : IsDescription(r.own[j])
       /\ r.default # None => IsDescription(r.default)
       /\ r.hasPath \in BOOLEAN

VARIABLES
  request,
  default,  \* DefaultRadixJobComponentConfig in the memory of the request
  outcome,  \* where the request is, and how it ended
  next,     \* the index of the loop in progress
  config,   \* the configuration built for each job
  secret,   \* the index of the secret under construction
  filled,   \* accumulatedSecretSize
  refs,     \* the secret that each job refers to
  misfits,  \* the jobs with a payload that no path expects
  stored,   \* the secrets in the cluster
  created   \* whether the RadixBatch is in the cluster

buildVars == <<config, secret, filled, refs, misfits>>
clusterVars == <<stored, created>>
vars == <<request, default, outcome, next, buildVars, clusterVars>>

Jobs == DOMAIN request.payload
Size(j) == request.payload[j]
Placed == DOMAIN refs

Outcomes == {"describing", "packing", "writing", "created", "refused", "failed"}

TypeOK ==
  /\ outcome \in Outcomes
  /\ next \in 1..(MaxJobs + 1)
  /\ DOMAIN config \subseteq Jobs
  /\ secret \in 0..(MaxJobs - 1)
  /\ filled \in Nat
  /\ refs \in [Placed -> 0..(MaxJobs - 1)] /\ Placed \subseteq Jobs
  /\ misfits \subseteq Jobs
  /\ stored \subseteq 0..(MaxJobs - 1)
  /\ created \in BOOLEAN

Init ==
  /\ request \in Requests
  /\ default = request.default
  /\ outcome = "describing"
  /\ next = 1
  /\ config = [j \in {} |-> Nothing]
  /\ secret = 0
  /\ filled = 0
  /\ refs = [j \in {} |-> 0]
  /\ misfits = {}
  /\ stored = {}
  /\ created = FALSE

(***************************************************************************)
(* Describing the jobs.                                                    *)
(***************************************************************************)
Turn(loop, i) ==
  /\ outcome = loop
  /\ i = next
  /\ next' = next + 1
  /\ UNCHANGED <<request, outcome>>

WithEntry(f, j, v) == [k \in DOMAIN f \cup {j} |-> IF k = j THEN v ELSE f[k]]

\* (A slip to test the properties with: all jobs share the defaults.)
DescribeInPlace(j) ==
  /\ Turn("describing", j)
  /\ config' = WithEntry(config, j, Configured(default, request.own[j]))
  /\ default' = WrittenThrough(default, request.own[j])
  /\ UNCHANGED <<secret, filled, refs, misfits, clusterVars>>

Describe(j) ==
  /\ Turn("describing", j)
  /\ config' = WithEntry(config, j, Configured(default, request.own[j]))
  /\ UNCHANGED <<default, secret, filled, refs, misfits, clusterVars>>

AllDescribed ==
  /\ outcome = "describing"
  /\ next \notin Jobs
  /\ outcome' = "packing"
  /\ next' = 1
  /\ UNCHANGED <<request, default, buildVars, clusterVars>>

(***************************************************************************)
(* Packing the payloads.                                                   *)
(***************************************************************************)
EntrySize(j) == Size(j) + EntryAux

\* The jobs in the secret with index i.
Entries(i) == {j \in Placed : refs[j] = i}

\* (A slip: the secret's own size is forgotten.)
FitsWithoutAux(j) == filled + EntrySize(j) <= MaxSize

Fits(j) == Aux + filled + EntrySize(j) <= MaxSize

Pack(j) ==
  /\ Turn("packing", j)
  /\ UNCHANGED <<default, config, clusterVars>>

SkipEmpty(j) ==
  /\ Pack(j)
  /\ Size(j) = 0
  /\ UNCHANGED <<secret, filled, refs, misfits>>

\* (A slip: the jobs are counted from 0.)
MisfitFromZero(j) ==
  /\ Pack(j)
  /\ Size(j) > 0
  /\ ~request.hasPath
  /\ misfits' = misfits \cup {j - 1}
  /\ UNCHANGED <<secret, filled, refs>>

Misfit(j) ==
  /\ Pack(j)
  /\ Size(j) > 0
  /\ ~request.hasPath
  /\ misfits' = misfits \cup {j}
  /\ UNCHANGED <<secret, filled, refs>>

Place(j, i, before) ==
  /\ Pack(j)
  /\ Size(j) > 0
  /\ request.hasPath
  /\ refs' = WithEntry(refs, j, i)
  /\ secret' = i
  /\ filled' = before + EntrySize(j)
  /\ UNCHANGED misfits

PlaceHere(j) == Fits(j) /\ Place(j, secret, filled)

\* (A slip: the running total is not reset.)
PlaceInNewUnreset(j) ==
  /\ ~Fits(j)
  /\ Entries(secret) # {}
  /\ Place(j, secret + 1, filled)

\* The payload alone may be too large for the new secret; that is not checked.
PlaceInNew(j) ==
  /\ ~Fits(j)
  /\ Entries(secret) # {}
  /\ Place(j, secret + 1, 0)

\* The first payload of all is too large for any secret.
TooLarge(j) ==
  /\ outcome = "packing"
  /\ j = next
  /\ Size(j) > 0
  /\ request.hasPath
  /\ ~Fits(j)
  /\ Entries(secret) = {}
  /\ outcome' = "refused"
  /\ UNCHANGED <<request, default, next, buildVars, clusterVars>>

\* (A slip: payloads without a path are only logged.)
ConcludeAnyway ==
  /\ outcome = "packing"
  /\ next \notin Jobs
  /\ outcome' = "writing"
  /\ next' = 1
  /\ UNCHANGED <<request, default, buildVars, clusterVars>>

AllPacked ==
  /\ outcome = "packing"
  /\ next \notin Jobs
  /\ outcome' = IF misfits = {} THEN "writing" ELSE "refused"
  /\ next' = 1
  /\ UNCHANGED <<request, default, buildVars, clusterVars>>

(***************************************************************************)
(* Writing the secrets and the batch.                                      *)
(***************************************************************************)
\* The secret without an entry, of a request without payloads, is not written.
SkipSecret(i) ==
  /\ Turn("writing", i + 1)
  /\ i <= secret
  /\ Entries(i) = {}
  /\ UNCHANGED <<default, buildVars, clusterVars>>

WriteSecret(i) ==
  /\ Turn("writing", i + 1)
  /\ i <= secret
  /\ Entries(i) # {}
  /\ stored' = stored \cup {i}
  /\ UNCHANGED <<default, buildVars, created>>

\* (A slip: the batch does not wait for its last secret.)
WriteBatchEarly ==
  /\ outcome = "writing"
  /\ next >= secret + 1
  /\ created' = TRUE
  /\ outcome' = "created"
  /\ UNCHANGED <<request, default, next, buildVars, stored>>

WriteBatch ==
  /\ outcome = "writing"
  /\ next > secret + 1
  /\ created' = TRUE
  /\ outcome' = "created"
  /\ UNCHANGED <<request, default, next, buildVars, stored>>

\* A secret or the batch cannot be written; what was written stays.
WriteFails ==
  /\ outcome = "writing"
  /\ outcome' = "failed"
  /\ UNCHANGED <<request, default, next, buildVars, clusterVars>>

\* The process dies: what it has not written is gone.
Crash ==
  /\ outcome \in {"describing", "packing", "writing"}
  /\ outcome' = IF outcome = "writing" THEN "failed" ELSE "refused"
  /\ UNCHANGED <<request, default, next, buildVars, clusterVars>>

Job(j) ==
  \/ Describe(j)
  \/ SkipEmpty(j) \/ Misfit(j) \/ PlaceHere(j) \/ PlaceInNew(j) \/ TooLarge(j)

Next ==
  \/ \E j \in Jobs : Job(j)
  \/ AllDescribed \/ AllPacked
  \/ \E i \in 0..(MaxJobs - 1) : SkipSecret(i) \/ WriteSecret(i)
  \/ WriteBatch \/ WriteFails \/ Crash

Spec == Init /\ [][Next]_vars

(***************************************************************************)
(* The descriptions.                                                       *)
(***************************************************************************)
\* A job is configured from its own description and the defaults of the
\* request, whatever other jobs are in the batch: the merge of one job, which
\* writes through the pointers of the defaults, leaves no trace in the next
\* (DefaultRadixJobComponentConfig.DeepCopy in buildRadixBatchJobs).
ConfiguredAlone ==
  \A j \in DOMAIN config : config[j] = Configured(request.default, request.own[j])

Stated(own, under) == IF own = None THEN under ELSE own

\* What a job states it gets, also an empty list of arguments and an empty
\* runtime; what it does not state it gets from the defaults; and the maps are
\* merged key by key (Test_MergeJobDescriptionWithDefaultJobDescription,
\* Test_MergeRuntime).  The numbers are left to OwnLimitWins.
OwnSettingsWin ==
  request.default # None =>
    \A j \in DOMAIN config :
      LET own == request.own[j]
          def == request.default
          got == config[j]
          Keys(f) == (IF own[f] = None THEN {} ELSE DOMAIN own[f])
                       \cup (IF def[f] = None THEN {} ELSE DOMAIN def[f])
      IN  /\ \A f \in {"image", "args", "runtime"} : got[f] = Stated(own[f], def[f])
          /\ \A f \in {"variables", "resources"} : \A k \in Keys(f) :
               got[f][k] = IF own[f] # None /\ k \in DOMAIN own[f] THEN own[f][k] ELSE def[f][k]

\* "BackoffLimit defines attempts to restart job if it fails" (job_component_
\* description.go:23): the limit that a job states is the limit it gets.
OwnLimitWins ==
  \A j \in DOMAIN config :
    request.own[j].limit # None => config[j].limit = request.own[j].limit

(***************************************************************************)
(* The secrets.                                                            *)
(***************************************************************************)
\* The secrets that are written: those with data.
WithData == {i \in 0..secret : Entries(i) # {}}

EntrySizes == [j \in Jobs |-> EntrySize(j)]

\* The estimated size of a secret.
SizeOf(i) == Aux + SumFunctionOnSet(EntrySizes, Entries(i))

\* When the secrets are written, every job with a payload and no other refers
\* to one, and they are numbered from 0 without a gap.
EveryPayloadPlaced ==
  outcome \in {"writing", "created", "failed"} =>
    /\ Placed = {j \in Jobs : Size(j) > 0}
    /\ \A j \in Placed : refs[j] \in WithData
    /\ WithData = IF Placed = {} THEN {} ELSE 0..secret

\* The running total in filled is the size of the secret under construction,
\* whatever was skipped and however often a new one was begun; so a secret over
\* the maximum holds a single payload, ...
OnlyLoneEntriesOversize ==
  \A i \in WithData : SizeOf(i) > MaxSize => Cardinality(Entries(i)) = 1

\* ... and a new secret is begun only when the last one has no room: the first
\* payload of a secret would not have fitted into the one before it.
NoSecretBegunInVain ==
  \A i \in WithData \ {0} : \E j \in Entries(i) :
    /\ \A k \in Entries(i) : j <= k
    /\ SizeOf(i - 1) + EntrySize(j) > MaxSize

\* "Max size of the secret description, including description, metadata, base64
\* encodes secret values, etc." (handler.go:30): no secret is larger.
SecretsFit == outcome = "writing" => \A i \in WithData : SizeOf(i) <= MaxSize

(***************************************************************************)
(* The request as PayloadSecrets sees it: a plan of how many secrets there *)
(* will be, made in one step, and carried out.  The name of a secret is    *)
(* that of the batch and its index.                                        *)
(***************************************************************************)
Decided == outcome \in {"writing", "created", "failed"}
OfBatch(I) == {Batch} \X I
ByNobody == [c \in {} |-> 0]  \* no collector is in sight of the request

storeBatches == IF created THEN {Batch} ELSE {}
storeRef ==
  [b \in {Batch} |-> IF created THEN OfBatch({refs[j] : j \in Placed}) ELSE {}]
storePhase ==
  [b \in {Batch} |-> CASE outcome = "writing" -> "creating"
                       [] outcome \in {"created", "failed"} -> outcome
                       [] OTHER -> "unused"]
storePlan == [b \in {Batch} |-> IF Decided THEN Cardinality(WithData) ELSE 0]
storeWritten == [b \in {Batch} |-> Cardinality(stored)]

SecretStore == INSTANCE PayloadSecrets WITH
  Batches <- {Batch}, Collectors <- {}, MaxSecrets <- MaxJobs,
  Grace <- 1, CreateTime <- 0, GCTime <- 0, MaxTime <- 0,
  now <- 0, started <- [b \in {Batch} |-> 0],
  batches <- storeBatches, ref <- storeRef,
  secrets <- OfBatch(stored), born <- [s \in OfBatch(0..(MaxJobs - 1)) |-> 0],
  phase <- storePhase, plan <- storePlan, written <- storeWritten,
  pc <- ByNobody, seen <- ByNobody, listedAt <- ByNobody, todo <- ByNobody,
  checkedAt <- ByNobody, errors <- ByNobody

\* However a request is split over secrets, it writes exactly the secrets that
\* the jobs of its batch refer to, all of them before the batch, as
\* PayloadSecrets takes for granted in StartCreate, CreateSecret and
\* CreateBatch (buildRadixBatchJobs, createSecrets, createRadixBatch).
ImplementsPayloadSecrets == SecretStore!Spec

====
