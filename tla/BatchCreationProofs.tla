---- MODULE BatchCreationProofs ----
(***************************************************************************)
(* Proofs about BatchCreation, for any set of requests and any sizes.      *)
(***************************************************************************)
EXTENDS BatchCreation, SumTheorems

(***************************************************************************)
(* The inductive invariant.                                                *)
(***************************************************************************)
\* The request is one of those asked for, and its defaults are as it sent them.
AsRequested == request \in Requests /\ default = request.default

Paid == {j \in Jobs : Size(j) > 0}

\* How far the loops over the jobs have come: what they have done is what they
\* should have done for the jobs before the next one.
LoopsSoFar ==
  /\ outcome = "describing" => Placed = {} /\ misfits = {}
  /\ outcome \in {"describing", "packing"} => next = 1 \/ next - 1 \in Jobs
  /\ outcome = "packing" => Placed \cup misfits = {j \in Paid : j < next}
  /\ Decided => Placed = Paid

\* The secrets that jobs refer to are numbered without a gap, and there are
\* fewer of them than the loop has seen jobs.
Contiguous ==
  /\ Placed = {} => secret = 0
  /\ \A j \in Placed : refs[j] \in 0..secret
  /\ Placed # {} => \A i \in 0..secret : Entries(i) # {}
  /\ outcome = "packing" /\ Placed # {} => secret + 2 <= next

IndInv == TypeOK /\ AsRequested /\ LoopsSoFar /\ Contiguous

LEMMA JobsNumbered ==
  ASSUME AsRequested
  PROVE  \E n \in 1..MaxJobs : Jobs = 1..n /\ \A j \in Jobs : Size(j) \in Nat
<1>1. DOMAIN request.payload \in {1..n : n \in 1..MaxJobs}
  BY RequestsAssumption DEF AsRequested
<1>2. \A j \in DOMAIN request.payload : request.payload[j] \in Nat
  BY RequestsAssumption DEF AsRequested
<1> QED BY <1>1, <1>2 DEF Jobs, Size

LEMMA IndInvInit == Init => IndInv
<1> SUFFICES ASSUME Init PROVE IndInv
  OBVIOUS
<1>1. AsRequested
  BY DEF Init, AsRequested
<1>2. MaxJobs \in Nat \ {0}
  <2>1. PICK n \in 1..MaxJobs : Jobs = 1..n
    BY <1>1, JobsNumbered
  <2> QED BY <2>1, RequestsAssumption
<1>3. Placed = {}
  BY DEF Init, Placed
<1>4. refs \in [Placed -> 0..(MaxJobs - 1)]
  BY <1>3 DEF Init
<1>5. TypeOK
  <2>1. DOMAIN config = {}
    BY DEF Init
  <2>2. outcome \in Outcomes /\ created \in BOOLEAN
    BY DEF Init, Outcomes
  <2>3. next \in 1..(MaxJobs + 1)
    BY <1>2 DEF Init
  <2>4. secret \in 0..(MaxJobs - 1) /\ filled \in Nat
    BY <1>2 DEF Init
  <2>5. Placed \subseteq Jobs /\ misfits \subseteq Jobs /\ stored \subseteq 0..(MaxJobs - 1)
    BY <1>3 DEF Init
  <2> QED BY <1>4, <2>1, <2>2, <2>3, <2>4, <2>5 DEF TypeOK
<1>6. LoopsSoFar /\ Contiguous
  BY <1>3 DEF Init, LoopsSoFar, Contiguous, Decided
<1> QED BY <1>1, <1>5, <1>6 DEF IndInv

\* What placing one more payload makes of the references.
LEMMA PlaceOne ==
  ASSUME IndInv, outcome = "packing",
         NEW j \in Jobs, NEW i \in {secret, secret + 1}, NEW before \in Nat,
         Place(j, i, before),
         i = secret + 1 => Entries(secret) # {}
  PROVE  /\ Placed' = Placed \cup {j} /\ j \notin Placed
         /\ refs' \in [Placed' -> 0..i]
         /\ \A k \in Placed : refs'[k] = refs[k]
         /\ refs'[j] = i
         /\ \A k \in 0..i : (Entries(k))' # {}
         /\ i + 2 <= next'
         /\ i \in 0..(MaxJobs - 1)
<1> USE DEF IndInv
<1>1. PICK n \in 1..MaxJobs : Jobs = 1..n
  BY JobsNumbered
<1>2. MaxJobs \in Nat /\ secret \in Nat /\ next \in Nat
  BY RequestsAssumption DEF TypeOK
<1>3. j = next /\ next' = next + 1 /\ refs' = WithEntry(refs, j, i)
  BY DEF Place, Pack, Turn
<1>4. Placed' = Placed \cup {j}
  BY <1>3 DEF Placed, WithEntry
<1>5. j \notin Placed
  BY <1>2, <1>3 DEF LoopsSoFar
<1>6. \A k \in Placed : refs'[k] = refs[k]
  BY <1>3, <1>5 DEF Placed, WithEntry
<1>7. refs'[j] = i
  BY <1>3 DEF Placed, WithEntry
<1>8. refs' \in [Placed' -> 0..i]
  <2>1. \A k \in Placed' : refs'[k] \in 0..i
    BY <1>2, <1>4, <1>6, <1>7 DEF Contiguous
  <2>2. refs' = [k \in Placed' |-> refs'[k]]
    BY <1>3 DEF Placed, WithEntry
  <2> QED BY <2>1, <2>2
<1>9. Placed = {} => i = 0
  BY DEF Contiguous, Entries
<1>10. \A k \in 0..i : (Entries(k))' # {}
  <2> SUFFICES ASSUME NEW k \in 0..i PROVE (Entries(k))' # {}
    OBVIOUS
  <2>1. CASE k = i
    BY <1>4, <1>7, <2>1 DEF Entries
  <2>2. CASE k # i
    <3>1. k \in 0..secret /\ Placed # {}
      BY <1>2, <1>9, <2>2
    <3>2. PICK h \in Placed : refs[h] = k
      BY <3>1 DEF Contiguous, Entries
    <3> QED BY <1>4, <1>6, <3>2 DEF Entries
  <2> QED BY <2>1, <2>2
<1>11. i + 2 <= next'
  <2>1. CASE Placed = {}
    BY <1>2, <1>3, <1>9, <2>1 DEF TypeOK
  <2>2. CASE Placed # {}
    BY <1>2, <1>3, <2>2 DEF Contiguous
  <2> QED BY <2>1, <2>2
<1>12. i \in 0..(MaxJobs - 1)
  BY <1>1, <1>2, <1>3, <1>11
<1> QED BY <1>3, <1>4, <1>5, <1>6, <1>7, <1>8, <1>10, <1>11, <1>12

LEMMA IndInvPlace ==
  ASSUME IndInv,
         NEW j \in Jobs, NEW i \in {secret, secret + 1}, NEW before \in Nat,
         Place(j, i, before),
         i = secret + 1 => Entries(secret) # {}
  PROVE  IndInv'
<1> USE DEF IndInv
<1>1. PICK n \in 1..MaxJobs : Jobs = 1..n /\ \A k \in Jobs : Size(k) \in Nat
  BY JobsNumbered
<1>2. /\ outcome = "packing" /\ j = next /\ next' = next + 1
      /\ Size(j) > 0
      /\ UNCHANGED <<request, default, outcome, config, misfits, stored, created>>
      /\ secret' = i /\ filled' = before + EntrySize(j)
  BY DEF Place, Pack, Turn, clusterVars
<1>3. /\ Placed' = Placed \cup {j}
      /\ refs' \in [Placed' -> 0..i]
      /\ \A k \in 0..i : (Entries(k))' # {}
      /\ i + 2 <= next'
      /\ i \in 0..(MaxJobs - 1)
  BY <1>2, PlaceOne
<1>4. UNCHANGED <<Jobs, Paid>> /\ j \in Paid
  BY <1>2 DEF Jobs, Paid, Size
<1>5. MaxJobs \in Nat
  BY RequestsAssumption
<1>6. TypeOK'
  <2>1. next' \in 1..(MaxJobs + 1)
    BY <1>1, <1>2, <1>5
  <2>2. filled' \in Nat
    BY <1>1, <1>2, SizesAssumption DEF EntrySize
  <2>3. refs' \in [Placed' -> 0..(MaxJobs - 1)]
    <3>1. \A k \in 0..i : k \in 0..(MaxJobs - 1)
      BY <1>3, <1>5
    <3> QED BY <1>3, <3>1
  <2> QED BY <1>2, <1>3, <1>4, <2>1, <2>2, <2>3 DEF TypeOK
<1>7. AsRequested'
  BY <1>2 DEF AsRequested
<1>8. LoopsSoFar'
  <2>1. \A k \in Paid : k < next' <=> k < next \/ k = j
    BY <1>1, <1>2 DEF Paid
  <2>2. Placed' \cup misfits' = {k \in Paid : k < next'}
    BY <1>2, <1>3, <1>4, <2>1 DEF LoopsSoFar
  <2>3. next' - 1 \in Jobs
    BY <1>1, <1>2
  <2> QED BY <1>2, <1>4, <2>2, <2>3 DEF LoopsSoFar, Decided
<1>9. Contiguous'
  <2>1. Placed' # {}
    BY <1>3
  <2>2. \A k \in Placed' : refs'[k] \in 0..i
    BY <1>3
  <2> QED BY <1>2, <1>3, <2>1, <2>2 DEF Contiguous
<1> QED BY <1>6, <1>7, <1>8, <1>9

LEMMA IndInvNext == IndInv /\ [Next]_vars => IndInv'
<1> SUFFICES ASSUME IndInv, [Next]_vars PROVE IndInv'
  OBVIOUS
<1> USE DEF IndInv
<1>1. PICK n \in 1..MaxJobs : Jobs = 1..n /\ \A k \in Jobs : Size(k) \in Nat
  BY JobsNumbered
<1>2. MaxJobs \in Nat
  BY RequestsAssumption
<1>3. ASSUME UNCHANGED <<secret, refs>>
      PROVE  UNCHANGED Placed /\ \A i : UNCHANGED Entries(i)
  BY <1>3 DEF Placed, Entries
<1>4. ASSUME UNCHANGED request PROVE UNCHANGED <<Jobs, Paid>>
  BY <1>4 DEF Jobs, Paid, Size
<1>5. ASSUME NEW j \in Jobs, Describe(j) PROVE IndInv'
  <2>1. /\ outcome = "describing" /\ j = next /\ next' = next + 1
        /\ UNCHANGED <<request, default, outcome, secret, filled, refs, misfits, stored, created>>
    BY <1>5 DEF Describe, Turn, clusterVars
  <2>2. DOMAIN config' \subseteq Jobs
    BY <1>5 DEF Describe, WithEntry, TypeOK
  <2>3. next' \in 1..(MaxJobs + 1) /\ next' - 1 \in Jobs
    BY <1>1, <1>2, <2>1
  <2>4. TypeOK' /\ AsRequested'
    BY <1>3, <1>4, <2>1, <2>2, <2>3 DEF TypeOK, AsRequested
  <2>5. LoopsSoFar' /\ Contiguous'
    BY <1>3, <1>4, <2>1, <2>3 DEF LoopsSoFar, Contiguous, Decided
  <2> QED BY <2>4, <2>5
<1>6. CASE AllDescribed
  <2>1. /\ outcome = "describing" /\ outcome' = "packing" /\ next' = 1
        /\ UNCHANGED <<request, default, config, secret, filled, refs, misfits, stored, created>>
    BY <1>6 DEF AllDescribed, buildVars, clusterVars
  <2>2. TypeOK' /\ AsRequested'
    BY <1>2, <1>3, <1>4, <2>1 DEF TypeOK, AsRequested, Outcomes
  <2>3. \A k \in Paid : ~(k < 1)
    BY <1>1 DEF Paid
  <2>4. LoopsSoFar' /\ Contiguous'
    BY <1>3, <1>4, <2>1, <2>3 DEF LoopsSoFar, Contiguous, Decided
  <2> QED BY <2>2, <2>4
<1>7. ASSUME NEW j \in Jobs, SkipEmpty(j) \/ Misfit(j) PROVE IndInv'
  <2>1. /\ outcome = "packing" /\ j = next /\ next' = next + 1
        /\ misfits' = misfits \cup {k \in {j} : Size(k) > 0}
        /\ UNCHANGED <<request, default, outcome, config, secret, filled, refs, stored, created>>
    BY <1>1, <1>7 DEF SkipEmpty, Misfit, Pack, Turn, clusterVars
  <2>2. next' \in 1..(MaxJobs + 1) /\ next' - 1 \in Jobs
    BY <1>1, <1>2, <2>1
  <2>3. TypeOK' /\ AsRequested'
    BY <1>3, <1>4, <2>1, <2>2 DEF TypeOK, AsRequested
  <2>4. \A k \in Paid : k < next' <=> k < next \/ k = j
    BY <1>1, <2>1 DEF Paid
  <2>5. Placed' \cup misfits' = {k \in Paid : k < next'}
    BY <1>3, <2>1, <2>4 DEF LoopsSoFar, Paid
  <2>6. LoopsSoFar'
    BY <1>3, <1>4, <2>1, <2>2, <2>5 DEF LoopsSoFar, Decided
  <2>7. Contiguous'
    <3>1. secret \in Nat /\ next \in Nat
      BY <1>2 DEF TypeOK
    <3>2. Placed # {} => secret + 2 <= next'
      BY <2>1, <3>1 DEF Contiguous
    <3> QED BY <1>3, <2>1, <3>2 DEF Contiguous
  <2> QED BY <2>3, <2>6, <2>7
<1>8. ASSUME NEW j \in Jobs, PlaceHere(j) \/ PlaceInNew(j) PROVE IndInv'
  <2>1. secret \in Nat /\ filled \in Nat
    BY <1>2 DEF TypeOK
  <2>2. CASE PlaceHere(j)
    BY <2>1, <2>2, IndInvPlace DEF PlaceHere
  <2>3. CASE PlaceInNew(j)
    BY <2>1, <2>3, IndInvPlace DEF PlaceInNew
  <2> QED BY <1>8, <2>2, <2>3
<1>9. CASE AllPacked
  <2>1. /\ outcome = "packing" /\ next \notin Jobs /\ next' = 1
        /\ outcome' = IF misfits = {} THEN "writing" ELSE "refused"
        /\ UNCHANGED <<request, default, config, secret, filled, refs, misfits, stored, created>>
    BY <1>9 DEF AllPacked, buildVars, clusterVars
  <2>2. TypeOK' /\ AsRequested'
    BY <1>2, <1>3, <1>4, <2>1 DEF TypeOK, AsRequested, Outcomes
  <2>3. \A k \in Paid : k < next
    BY <1>1, <1>2, <2>1 DEF Paid, LoopsSoFar, TypeOK
  <2>4. misfits = {} => Placed = Paid
    BY <2>1, <2>3 DEF LoopsSoFar
  <2>5. LoopsSoFar' /\ Contiguous'
    BY <1>3, <1>4, <2>1, <2>4 DEF LoopsSoFar, Contiguous, Decided
  <2> QED BY <2>2, <2>5
<1>10. ASSUME NEW i \in 0..(MaxJobs - 1), SkipSecret(i) \/ WriteSecret(i) PROVE IndInv'
  <2>1. /\ outcome = "writing" /\ next' = i + 2
        /\ stored' \subseteq stored \cup {i}
        /\ UNCHANGED <<request, default, outcome, config, secret, filled, refs, misfits, created>>
    BY <1>2, <1>10 DEF SkipSecret, WriteSecret, Turn, buildVars, clusterVars
  <2>2. next' \in 1..(MaxJobs + 1)
    BY <1>2, <2>1
  <2>3. TypeOK' /\ AsRequested'
    BY <1>3, <1>4, <2>1, <2>2 DEF TypeOK, AsRequested
  <2>4. LoopsSoFar' /\ Contiguous'
    BY <1>3, <1>4, <2>1 DEF LoopsSoFar, Contiguous, Decided
  <2> QED BY <2>3, <2>4
<1>11. ASSUME NEW j \in Jobs, TooLarge(j) PROVE IndInv'
  <2>1. /\ outcome' = "refused"
        /\ UNCHANGED <<request, default, next, config, secret, filled, refs, misfits, stored, created>>
    BY <1>11 DEF TooLarge, buildVars, clusterVars
  <2> QED BY <1>3, <1>4, <2>1
          DEF TypeOK, AsRequested, LoopsSoFar, Contiguous, Decided, Outcomes
<1>12. CASE WriteBatch \/ WriteFails \/ Crash
  <2>1. /\ \/ outcome = "writing" /\ outcome' \in {"created", "failed"}
           \/ outcome' = "refused"
        /\ created' \in BOOLEAN
        /\ UNCHANGED <<request, default, next, config, secret, filled, refs, misfits, stored>>
    BY <1>12 DEF WriteBatch, WriteFails, Crash, buildVars, clusterVars, TypeOK
  <2>2. TypeOK' /\ AsRequested'
    BY <1>3, <1>4, <2>1 DEF TypeOK, AsRequested, Outcomes
  <2>3. LoopsSoFar' /\ Contiguous'
    BY <1>3, <1>4, <2>1 DEF LoopsSoFar, Contiguous, Decided
  <2> QED BY <2>2, <2>3
<1>13. CASE UNCHANGED vars
  BY <1>3, <1>4, <1>13
  DEF vars, buildVars, clusterVars, TypeOK, AsRequested, LoopsSoFar, Contiguous, Decided
<1> QED
  BY <1>5, <1>6, <1>7, <1>8, <1>9, <1>10, <1>11, <1>12, <1>13 DEF Next, Job

LEMMA Invariance == Spec => []IndInv
  BY IndInvInit, IndInvNext, PTL DEF Spec

\* The type invariant holds in every reachable state.
THEOREM TypeCorrect == Spec => []TypeOK
  BY Invariance, PTL DEF IndInv

\* However the payloads of a request are sized, every job with one refers to a
\* secret that will be written, no other job does, and the secrets are numbered
\* from 0 without a gap.
THEOREM PayloadsPlaced == Spec => []EveryPayloadPlaced
<1>1. IndInv => EveryPayloadPlaced
  <2> SUFFICES ASSUME IndInv, Decided PROVE EveryPayloadPlaced
    BY DEF EveryPayloadPlaced, Decided
  <2> USE DEF IndInv
  <2>1. secret \in Nat
    BY RequestsAssumption DEF TypeOK
  <2>2. Placed = Paid
    BY DEF LoopsSoFar
  <2>3. \A j \in Placed : refs[j] \in WithData
    BY DEF Contiguous, WithData, Entries
  <2>4. WithData = IF Placed = {} THEN {} ELSE 0..secret
    BY DEF Contiguous, WithData, Entries
  <2> QED BY <2>2, <2>3, <2>4 DEF EveryPayloadPlaced, Paid
<1> QED BY <1>1, Invariance, PTL

(***************************************************************************)
(* The sizes of the secrets.                                               *)
(***************************************************************************)
Total(i) == SumFunctionOnSet(EntrySizes, Entries(i))

\* The running total is that of the entries of the secret under construction.
RunningTotal == filled = Total(secret)

Packed == RunningTotal /\ OnlyLoneEntriesOversize /\ NoSecretBegunInVain

\* What a secret holds is finite, and so is a number of bytes.
LEMMA EntriesFinite ==
  ASSUME IndInv
  PROVE  /\ \A i : IsFiniteSet(Entries(i)) /\ Entries(i) \subseteq Jobs
         /\ \A j \in Jobs : EntrySizes[j] \in Nat /\ EntrySizes[j] = EntrySize(j)
         /\ \A i : Total(i) \in Nat
<1>1. PICK n \in 1..MaxJobs : Jobs = 1..n /\ \A j \in Jobs : Size(j) \in Nat
  BY JobsNumbered DEF IndInv
<1>2. IsFiniteSet(Jobs)
  BY <1>1, FS_Interval
<1>3. \A i : Entries(i) \subseteq Jobs
  BY DEF IndInv, TypeOK, Entries
<1>4. \A i : IsFiniteSet(Entries(i))
  BY <1>2, <1>3, FS_Subset
<1>5. \A j \in Jobs : EntrySizes[j] \in Nat /\ EntrySizes[j] = EntrySize(j)
  BY <1>1, SizesAssumption DEF EntrySizes, EntrySize
<1>6. \A i : Total(i) \in Nat
  BY <1>3, <1>4, <1>5, SumType DEF Total
<1> QED BY <1>3, <1>4, <1>5, <1>6

\* A payload is the last entry of the secret it is placed in, and adds its size.
LEMMA PlaceAdds ==
  ASSUME IndInv,
         NEW j \in Jobs, NEW i \in {secret, secret + 1}, NEW before \in Nat,
         Place(j, i, before),
         i = secret + 1 => Entries(secret) # {}
  PROVE  /\ secret' = i /\ filled' = before + EntrySize(j)
         /\ Entries(i)' = Entries(i) \cup {j}
         /\ Total(i)' = Total(i) + EntrySize(j)
         /\ \A k \in Entries(i) : k <= j
         /\ \A m : m # i => Entries(m)' = Entries(m) /\ Total(m)' = Total(m)
         /\ i = secret + 1 => Entries(i) = {} /\ Total(i) = 0
         /\ \A k : EntrySize(k)' = EntrySize(k)
<1>1. /\ outcome = "packing" /\ j = next
      /\ UNCHANGED request /\ secret' = i /\ filled' = before + EntrySize(j)
  BY DEF Place, Pack, Turn
<1>2. /\ Placed' = Placed \cup {j} /\ j \notin Placed
      /\ \A k \in Placed : refs'[k] = refs[k]
      /\ refs'[j] = i
  BY <1>1, PlaceOne
<1>3. Entries(i)' = Entries(i) \cup {j}
  BY <1>2 DEF Entries
<1>4. \A m : m # i => Entries(m)' = Entries(m)
  BY <1>2 DEF Entries
<1>5. EntrySizes' = EntrySizes /\ \A k : EntrySize(k)' = EntrySize(k)
  BY <1>1 DEF EntrySizes, EntrySize, Jobs, Size
<1>6. \A m : m # i => Total(m)' = Total(m)
  BY <1>4, <1>5 DEF Total
<1>7. Total(i)' = Total(i) + EntrySize(j)
  <2>1. j \notin Entries(i) /\ IsFiniteSet(Entries(i))
    BY <1>2, EntriesFinite DEF Entries
  <2>2. \A k \in Entries(i) \cup {j} : EntrySizes[k] \in Nat
    BY EntriesFinite
  <2>3. SumFunctionOnSet(EntrySizes, Entries(i) \cup {j})
          = SumFunctionOnSet(EntrySizes, Entries(i)) + EntrySizes[j]
    <3> DEFINE E == Entries(i) \cup {j}
    <3>1. IsFiniteSet(E) /\ j \in E /\ E \ {j} = Entries(i) /\ \A k \in E : EntrySizes[k] \in Nat
      BY <2>1, <2>2, FS_AddElement
    <3> HIDE DEF E
    <3>2. SumFunctionOnSet(EntrySizes, E) = EntrySizes[j] + SumFunctionOnSet(EntrySizes, E \ {j})
      BY <3>1, SumWithout
    <3>3. EntrySizes[j] \in Nat /\ SumFunctionOnSet(EntrySizes, Entries(i)) \in Nat
      BY EntriesFinite DEF Total
    <3> QED BY <3>1, <3>2, <3>3 DEF E
  <2> QED BY <1>3, <1>5, <2>3, EntriesFinite DEF Total
<1>8. \A k \in Entries(i) : k <= j
  <2>1. PICK n \in 1..MaxJobs : Jobs = 1..n
    BY JobsNumbered DEF IndInv
  <2>2. \A k \in Entries(i) : k \in Jobs /\ k < next
    BY <1>1, <2>1 DEF IndInv, LoopsSoFar, Entries, TypeOK
  <2> QED BY <1>1, <2>1, <2>2
<1>9. i = secret + 1 => Entries(i) = {}
  BY RequestsAssumption DEF IndInv, Contiguous, Entries, TypeOK
<1>10. i = secret + 1 => Total(i) = 0
  BY <1>9, SumChosen, FS_EmptySet DEF Total
<1> QED BY <1>1, <1>3, <1>4, <1>5, <1>6, <1>7, <1>8, <1>9, <1>10

LEMMA PackedPlace ==
  ASSUME IndInv, Packed, NEW j \in Jobs, PlaceHere(j) \/ PlaceInNew(j)
  PROVE  Packed'
<1>1. secret \in Nat /\ filled \in Nat /\ secret + 1 # secret
  BY RequestsAssumption DEF IndInv, TypeOK
<1>2. PICK i \in {secret, secret + 1}, before \in Nat :
        /\ Place(j, i, before)
        /\ before = Total(i)
        /\ i = secret => Fits(j)
        /\ i = secret + 1 => ~Fits(j) /\ Entries(secret) # {}
  <2>1. CASE PlaceHere(j)
    BY <1>1, <2>1 DEF PlaceHere, Packed, RunningTotal
  <2>2. CASE PlaceInNew(j)
    <3>1. Place(j, secret + 1, 0) /\ ~Fits(j) /\ Entries(secret) # {}
      BY <2>2 DEF PlaceInNew
    <3>2. Total(secret + 1) = 0
      BY <3>1, PlaceAdds
    <3> QED BY <1>1, <3>1, <3>2
  <2> QED BY <2>1, <2>2
<1>3. /\ secret' = i /\ filled' = before + EntrySize(j)
      /\ Entries(i)' = Entries(i) \cup {j}
      /\ Total(i)' = Total(i) + EntrySize(j)
      /\ \A k \in Entries(i) : k <= j
      /\ \A m : m # i => Entries(m)' = Entries(m) /\ Total(m)' = Total(m)
      /\ i = secret + 1 => Entries(i) = {} /\ Total(i) = 0
      /\ \A k : EntrySize(k)' = EntrySize(k)
  BY <1>2, PlaceAdds
<1>4. /\ Aux \in Nat /\ MaxSize \in Nat
      /\ EntrySize(j) \in Nat /\ \A m : Total(m) \in Nat
      /\ j \in Nat
  <2>1. PICK n \in 1..MaxJobs : Jobs = 1..n
    BY JobsNumbered DEF IndInv
  <2> QED BY <2>1, EntriesFinite, SizesAssumption
<1>5. i \in Nat
  BY <1>1
<1>6. \A m : SizeOf(m) = Aux + Total(m) /\ SizeOf(m)' = Aux + Total(m)'
  BY DEF SizeOf, Total
<1>7. \A m \in WithData' : m # i => m \in WithData /\ m < i
  BY <1>1, <1>3 DEF WithData
<1>8. RunningTotal'
  BY <1>2, <1>3 DEF RunningTotal
<1>9. OnlyLoneEntriesOversize'
  <2> SUFFICES ASSUME NEW m \in WithData', SizeOf(m)' > MaxSize
               PROVE  Cardinality(Entries(m)') = 1
    BY DEF OnlyLoneEntriesOversize
  <2>1. CASE m # i
    BY <1>3, <1>6, <1>7, <2>1 DEF Packed, OnlyLoneEntriesOversize
  <2>2. CASE m = i /\ i = secret
    BY <1>2, <1>3, <1>4, <1>6, <2>2 DEF Fits, Packed, RunningTotal
  <2>3. CASE m = i /\ i = secret + 1
    BY <1>3, <2>3, FS_Singleton
  <2> QED BY <1>2, <2>1, <2>2, <2>3
<1>10. NoSecretBegunInVain'
  <2> SUFFICES ASSUME NEW m \in WithData', m # 0
               PROVE  \E k \in Entries(m)' :
                         /\ \A l \in Entries(m)' : k <= l
                         /\ SizeOf(m - 1)' + EntrySize(k)' > MaxSize
    BY DEF NoSecretBegunInVain
  <2>1. m \in Nat \ {0} /\ m <= i /\ m - 1 # i
    BY <1>3, <1>5 DEF WithData
  <2>2. SizeOf(m - 1)' = SizeOf(m - 1)
    BY <1>3, <1>6, <2>1
  <2>3. CASE m # i
    BY <1>3, <1>7, <2>2, <2>3 DEF Packed, NoSecretBegunInVain
  <2>4. CASE m = i /\ i = secret
    <3>1. Entries(i) # {}
      BY <2>1, <2>4, <1>1 DEF IndInv, Contiguous, Entries
    <3>2. i \in WithData
      BY <1>5, <2>4, <3>1 DEF WithData
    <3>3. PICK k \in Entries(i) :
            (\A l \in Entries(i) : k <= l) /\ SizeOf(i - 1) + EntrySize(k) > MaxSize
      BY <2>1, <2>4, <3>2 DEF Packed, NoSecretBegunInVain
    <3> QED BY <1>3, <2>2, <2>4, <3>3
  <2>5. CASE m = i /\ i = secret + 1
    <3>1. Entries(i)' = {j}
      BY <1>3, <2>5
    <3>2. m - 1 = secret
      BY <1>1, <2>5
    <3>3. SizeOf(secret) = Aux + filled
      BY <1>6 DEF Packed, RunningTotal
    <3>4. SizeOf(secret) + EntrySize(j) > MaxSize
      BY <1>1, <1>2, <1>4, <2>5, <3>3 DEF Fits
    <3> QED BY <1>3, <1>4, <2>2, <2>5, <3>1, <3>2, <3>4
  <2> QED BY <1>2, <2>3, <2>4, <2>5
<1> QED BY <1>8, <1>9, <1>10 DEF Packed

LEMMA PackedNext == IndInv /\ Packed /\ [Next]_vars => Packed'
<1> SUFFICES ASSUME IndInv, Packed, [Next]_vars PROVE Packed'
  OBVIOUS
<1>1. ASSUME UNCHANGED <<request, secret, filled, refs>> PROVE Packed'
  <2>1. /\ WithData' = WithData
        /\ \A i : Entries(i)' = Entries(i) /\ Total(i)' = Total(i) /\ SizeOf(i)' = SizeOf(i)
        /\ \A j : EntrySize(j)' = EntrySize(j)
    BY <1>1 DEF WithData, Entries, Placed, Total, SizeOf, EntrySizes, EntrySize, Jobs, Size
  <2>2. RunningTotal'
    BY <1>1, <2>1 DEF Packed, RunningTotal
  <2>3. OnlyLoneEntriesOversize'
    BY <2>1 DEF Packed, OnlyLoneEntriesOversize
  <2>4. NoSecretBegunInVain'
    BY <2>1 DEF Packed, NoSecretBegunInVain
  <2> QED BY <2>2, <2>3, <2>4 DEF Packed
<1>2. ASSUME NEW j \in Jobs, PlaceHere(j) \/ PlaceInNew(j) PROVE Packed'
  BY <1>2, PackedPlace
<1>3. ASSUME NEW j \in Jobs, Describe(j) \/ SkipEmpty(j) \/ Misfit(j) \/ TooLarge(j) PROVE Packed'
  BY <1>1, <1>3 DEF Describe, SkipEmpty, Misfit, TooLarge, Pack, Turn, buildVars
<1>4. ASSUME NEW i \in 0..(MaxJobs - 1), SkipSecret(i) \/ WriteSecret(i) PROVE Packed'
  BY <1>1, <1>4 DEF SkipSecret, WriteSecret, Turn, buildVars
<1>5. CASE AllDescribed \/ AllPacked \/ WriteBatch \/ WriteFails \/ Crash \/ UNCHANGED vars
  BY <1>1, <1>5 DEF AllDescribed, AllPacked, WriteBatch, WriteFails, Crash, vars, buildVars
<1> QED BY <1>2, <1>3, <1>4, <1>5 DEF Next, Job

LEMMA PackedInvariance == Spec => []Packed
<1>1. Init => Packed
  <2> SUFFICES ASSUME Init PROVE Packed
    OBVIOUS
  <2>1. secret = 0 /\ filled = 0 /\ \A i : Entries(i) = {}
    BY DEF Init, Entries, Placed
  <2>2. WithData = {}
    BY <2>1 DEF WithData
  <2>3. Total(secret) = 0
    BY <2>1, SumChosen, FS_EmptySet DEF Total
  <2> QED BY <2>1, <2>2, <2>3 DEF Packed, RunningTotal, OnlyLoneEntriesOversize, NoSecretBegunInVain
<1> QED BY <1>1, PackedNext, Invariance, PTL DEF Spec

\* Whatever the sizes of the payloads, their number and their order, a secret
\* over the maximum holds one payload only.
THEOREM OversizeAlone == Spec => []OnlyLoneEntriesOversize
  BY PackedInvariance, PTL DEF Packed

\* A secret is begun only for a payload that the one before has no room for.
THEOREM NoneInVain == Spec => []NoSecretBegunInVain
  BY PackedInvariance, PTL DEF Packed

\* The converse of the finding about SecretsFit: where each payload would fit
\* into a secret of its own, no secret that is written is too large.
THEOREM SmallPayloadsFit ==
  ASSUME \A r \in Requests : \A j \in DOMAIN r.payload : Aux + r.payload[j] + EntryAux <= MaxSize
  PROVE  Spec => []SecretsFit
<1>1. IndInv /\ Packed => SecretsFit
  <2> SUFFICES ASSUME IndInv, Packed, NEW i \in WithData PROVE ~(SizeOf(i) > MaxSize)
    <3>1. IndInv => \A i : SizeOf(i) \in Nat
      BY EntriesFinite, SizesAssumption DEF SizeOf, Total
    <3> QED BY <3>1, SizesAssumption DEF SecretsFit
  <2> SUFFICES ASSUME SizeOf(i) > MaxSize PROVE FALSE
    OBVIOUS
  <2>1. Cardinality(Entries(i)) = 1
    BY DEF Packed, OnlyLoneEntriesOversize
  <2>2. PICK j : Entries(i) = {j}
    BY <2>1, EntriesFinite, FS_Singleton
  <2>3. j \in Jobs /\ EntrySizes[j] = EntrySize(j) /\ EntrySize(j) \in Nat
    BY <2>2, EntriesFinite
  <2>4. Total(i) = EntrySize(j)
    <3>1. SumFunctionOnSet(EntrySizes, {} \cup {j}) = SumFunctionOnSet(EntrySizes, {}) + EntrySizes[j]
      BY <2>3, FS_EmptySet, SumGrows
    <3>2. SumFunctionOnSet(EntrySizes, {}) = 0
      BY FS_EmptySet, SumChosen
    <3>3. {} \cup {j} = {j}
      OBVIOUS
    <3> QED BY <2>2, <2>3, <3>1, <3>2, <3>3 DEF Total
  <2>5. Aux + Size(j) + EntryAux <= MaxSize
    BY <2>3 DEF Jobs, Size, IndInv, AsRequested
  <2>6. SizeOf(i) = Aux + EntrySize(j)
    BY <2>4 DEF SizeOf, Total
  <2>7. Size(j) \in Nat
    BY <2>3, JobsNumbered DEF IndInv
  <2> QED BY <2>5, <2>6, <2>7, SizesAssumption DEF EntrySize
<1> QED BY <1>1, Invariance, PackedInvariance, PTL

(***************************************************************************)
(* The descriptions.                                                       *)
(***************************************************************************)
\* Whatever is in the batch with it, a job gets the configuration that its own
\* description and the defaults of the request make.
THEOREM DescribedAlone == Spec => []ConfiguredAlone
<1>1. Init => ConfiguredAlone
  BY DEF Init, ConfiguredAlone
<1>2. IndInv /\ ConfiguredAlone /\ [Next]_vars => ConfiguredAlone'
  <2> SUFFICES ASSUME IndInv, ConfiguredAlone, [Next]_vars PROVE ConfiguredAlone'
    OBVIOUS
  <2>1. ASSUME NEW j \in Jobs, Describe(j) PROVE ConfiguredAlone'
    <3>1. /\ config' = WithEntry(config, j, Configured(request.default, request.own[j]))
          /\ UNCHANGED request
      BY <2>1 DEF Describe, Turn, IndInv, AsRequested
    <3> QED BY <3>1 DEF ConfiguredAlone, WithEntry
  <2>2. ASSUME UNCHANGED <<request, config>> PROVE ConfiguredAlone'
    BY <2>2 DEF ConfiguredAlone
  <2>3. \/ \E j \in Jobs : Describe(j)
        \/ UNCHANGED <<request, config>>
    BY DEF Next, Job, vars, buildVars, AllDescribed, AllPacked, SkipEmpty, Misfit, PlaceHere,
           PlaceInNew, Place, Pack, Turn, TooLarge, SkipSecret, WriteSecret, WriteBatch,
           WriteFails, Crash
  <2> QED BY <2>1, <2>2, <2>3
<1> QED BY <1>1, <1>2, Invariance, PTL DEF Spec

\* What a job is configured with, field by field.
LEMMA FieldsOfConfigured ==
  ASSUME NEW default_, default_ # None, NEW own
  PROVE  LET got == Configured(default_, own)
         IN  /\ got.image = Override(Override(None, default_.image), own.image)
             /\ got.args = Override(Override(None, default_.args), own.args)
             /\ got.runtime = Override(Override(None, default_.runtime), own.runtime)
             /\ got.variables = MergeKeys(MergeKeys(NoEntries, default_.variables), own.variables)
             /\ got.resources = OverrideEntries(OverrideEntries(None, default_.resources), own.resources)
  BY DEF Configured, Merge, Nothing

\* Each setting of a job is its own if it states one, an empty one included, and
\* otherwise that of the defaults.
THEOREM OwnWins == Spec => []OwnSettingsWin
<1>1. AsRequested /\ TypeOK /\ ConfiguredAlone => OwnSettingsWin
  <2> SUFFICES ASSUME AsRequested, TypeOK, ConfiguredAlone, request.default # None,
                      NEW j \in DOMAIN config
               PROVE  LET own == request.own[j]
                          def == request.default
                          got == config[j]
                          Keys(f) == (IF own[f] = None THEN {} ELSE DOMAIN own[f])
                                       \cup (IF def[f] = None THEN {} ELSE DOMAIN def[f])
                      IN  /\ \A f \in {"image", "args", "runtime"} : got[f] = Stated(own[f], def[f])
                          /\ \A f \in {"variables", "resources"} : \A k \in Keys(f) :
                               got[f][k] = IF own[f] # None /\ k \in DOMAIN own[f] THEN own[f][k]
                                           ELSE def[f][k]
    BY DEF OwnSettingsWin
  <2> DEFINE own == request.own[j]
             def == request.default
             got == config[j]
             Keys(f) == (IF own[f] = None THEN {} ELSE DOMAIN own[f])
                          \cup (IF def[f] = None THEN {} ELSE DOMAIN def[f])
  <2>1. got = Configured(def, own)
    BY DEF ConfiguredAlone
  <2>2. IsDescription(own) /\ IsDescription(def)
    <3>1. j \in DOMAIN request.own
      BY RequestsAssumption DEF AsRequested, TypeOK, Jobs
    <3> QED BY <3>1, RequestsAssumption DEF AsRequested
  <2> HIDE DEF own, def, got
  <2>3. /\ got.image = Override(Override(None, def.image), own.image)
        /\ got.args = Override(Override(None, def.args), own.args)
        /\ got.runtime = Override(Override(None, def.runtime), own.runtime)
        /\ got.variables = MergeKeys(MergeKeys(NoEntries, def.variables), own.variables)
        /\ got.resources = OverrideEntries(OverrideEntries(None, def.resources), own.resources)
    BY <2>1, FieldsOfConfigured DEF def
  <2>4. \A x, y : Override(Override(None, x), y) = Stated(y, x)
    BY DEF Override, Stated
  <2>5. ASSUME NEW f \in {"image", "args", "runtime"} PROVE got[f] = Stated(own[f], def[f])
    BY <2>3, <2>4
  <2>6. ASSUME NEW k \in Keys("variables")
        PROVE  got.variables[k] = IF own.variables # None /\ k \in DOMAIN own.variables
                                  THEN own.variables[k] ELSE def.variables[k]
    <3>1. /\ IsMap(own.variables) /\ own.variables # None
          /\ IsMap(def.variables) /\ def.variables # None
          /\ k \in DOMAIN own.variables \cup DOMAIN def.variables
      BY <2>2 DEF IsDescription
    <3>2. DOMAIN NoEntries = {}
      BY DEF NoEntries
    <3> QED BY <2>3, <3>1, <3>2 DEF MergeKeys
  <2>7. ASSUME NEW k \in Keys("resources")
        PROVE  got.resources[k] = IF own.resources # None /\ k \in DOMAIN own.resources
                                  THEN own.resources[k] ELSE def.resources[k]
    <3>1. got.resources = IF None \in {def.resources, own.resources}
                          THEN Stated(own.resources, def.resources)
                          ELSE MergeKeys(def.resources, own.resources)
      BY <2>3 DEF OverrideEntries, Override, Stated
    <3>2. CASE None \in {def.resources, own.resources}
      BY <3>1, <3>2 DEF Stated
    <3>3. CASE None \notin {def.resources, own.resources}
      BY <3>1, <3>3 DEF MergeKeys
    <3> QED BY <3>2, <3>3
  <2>8. ASSUME NEW f \in {"variables", "resources"}, NEW k \in Keys(f)
        PROVE  got[f][k] = IF own[f] # None /\ k \in DOMAIN own[f] THEN own[f][k] ELSE def[f][k]
    BY <2>6, <2>7, <2>8
  <2> QED BY <2>5, <2>8 DEF own, def, got
<1> QED BY <1>1, Invariance, DescribedAlone, PTL DEF IndInv

(***************************************************************************)
(* The refinement of PayloadSecrets.                                       *)
(***************************************************************************)
\* The loop that writes the secrets has written those before the next index.
StoredSoFar ==
  /\ ~Decided => stored = {} /\ ~created
  /\ outcome = "writing" =>
       /\ ~created
       /\ next \in 1..(secret + 2)
       /\ stored = IF Placed = {} THEN {} ELSE 0..(next - 2)

LEMMA StoredInit == Init => StoredSoFar
  BY DEF Init, StoredSoFar, Decided

LEMMA StoredNext == IndInv /\ StoredSoFar /\ [Next]_vars => StoredSoFar'
<1> SUFFICES ASSUME IndInv, StoredSoFar, [Next]_vars PROVE StoredSoFar'
  OBVIOUS
<1> USE DEF StoredSoFar, Decided
<1>1. secret \in Nat /\ next \in Nat
  BY RequestsAssumption DEF IndInv, TypeOK
<1>2. ASSUME NEW j \in Jobs, Job(j) PROVE StoredSoFar'
  <2>1. /\ outcome \in {"describing", "packing"}
        /\ outcome' \in {"describing", "packing", "refused"}
        /\ UNCHANGED <<stored, created>>
    BY <1>2 DEF Job, Describe, SkipEmpty, Misfit, PlaceHere, PlaceInNew, Place, Pack, Turn,
                TooLarge, clusterVars
  <2> QED BY <2>1
<1>3. CASE AllDescribed
  BY <1>3 DEF AllDescribed, clusterVars
<1>4. CASE AllPacked
  <2>1. /\ ~Decided /\ outcome' \in {"writing", "refused"} /\ next' = 1
        /\ UNCHANGED <<secret, refs, Placed, stored, created>>
    BY <1>4 DEF AllPacked, buildVars, clusterVars, Placed
  <2> QED BY <1>1, <2>1
<1>5. ASSUME NEW i \in 0..(MaxJobs - 1), SkipSecret(i) \/ WriteSecret(i) PROVE StoredSoFar'
  <2>1. /\ outcome = "writing" /\ i <= secret /\ next = i + 1 /\ next' = next + 1
        /\ UNCHANGED <<outcome, secret, Placed, created>>
    BY <1>5 DEF SkipSecret, WriteSecret, Turn, buildVars, clusterVars, Placed
  <2>2. CASE SkipSecret(i)
    <3>1. Placed = {} /\ UNCHANGED stored
      BY <1>1, <2>1, <2>2 DEF SkipSecret, clusterVars, IndInv, Contiguous
    <3> QED BY <1>1, <2>1, <3>1
  <2>3. CASE WriteSecret(i)
    <3>1. Placed # {} /\ stored' = stored \cup {i}
      BY <2>3 DEF WriteSecret, Entries
    <3>2. (0..(i - 1)) \cup {i} = 0..i
      BY <1>1, <2>1
    <3> QED BY <1>1, <2>1, <3>1, <3>2
  <2> QED BY <1>5, <2>2, <2>3
<1>6. CASE WriteBatch \/ WriteFails \/ Crash
  BY <1>6 DEF WriteBatch, WriteFails, Crash, clusterVars
<1>7. CASE UNCHANGED vars
  BY <1>7 DEF vars, buildVars, clusterVars, Placed
<1> QED BY <1>2, <1>3, <1>4, <1>5, <1>6, <1>7 DEF Next

\* The number of secrets that a request will write, and of those it has written.
Counted ==
  outcome = "writing" =>
    /\ Cardinality(WithData) = IF Placed = {} THEN 0 ELSE secret + 1
    /\ Cardinality(stored) = IF Placed = {} THEN 0 ELSE next - 1
    /\ {refs[j] : j \in Placed} = IF Placed = {} THEN {} ELSE 0..secret
    /\ secret \in 0..(MaxJobs - 1) /\ next \in Nat

LEMMA CountedSecrets == IndInv /\ StoredSoFar => Counted
<1> SUFFICES ASSUME IndInv, StoredSoFar, outcome = "writing" PROVE Counted
  BY DEF Counted
<1> USE DEF Counted
<1> USE DEF IndInv
<1>1. secret \in 0..(MaxJobs - 1) /\ next \in Nat /\ MaxJobs \in Nat
  BY RequestsAssumption DEF TypeOK
<1>2. WithData = {refs[j] : j \in Placed}
  BY DEF WithData, Entries, Contiguous
<1>3. CASE Placed = {}
  BY <1>1, <1>2, <1>3, FS_EmptySet DEF StoredSoFar
<1>4. CASE Placed # {}
  <2>1. WithData = 0..secret
    BY <1>4 DEF WithData, Contiguous
  <2>2. Cardinality(WithData) = secret + 1
    BY <1>1, <2>1, FS_Interval
  <2>3. stored = 0..(next - 2) /\ next >= 1
    BY <1>4 DEF StoredSoFar
  <2>4. Cardinality(stored) = next - 1
    BY <1>1, <2>3, FS_Interval
  <2> QED BY <1>1, <1>2, <1>4, <2>1, <2>2, <2>4
<1> QED BY <1>3, <1>4

LEMMA CountedNext == IndInv /\ StoredSoFar /\ [Next]_vars => Counted'
  BY CountedSecrets, IndInvNext, StoredNext, PTL

LEMMA RefinesInit == Init => SecretStore!Init
<1> SUFFICES ASSUME Init PROVE SecretStore!Init
  OBVIOUS
<1>1. stored = {} /\ ~created /\ outcome = "describing"
  BY DEF Init
<1> QED BY <1>1, FS_EmptySet
        DEF SecretStore!Init, SecretStore!SecretNames, OfBatch, ByNobody, Decided,
            storePhase, storePlan, storeWritten, storeBatches, storeRef

LEMMA OneMore ==
  ASSUME NEW n \in Nat, NEW k \in 0..(n - 1)
  PROVE  k + 1 \in 0..n
  OBVIOUS

LEMMA RefinesNext ==
  IndInv /\ StoredSoFar /\ [Next]_vars => [SecretStore!Next]_(SecretStore!vars)
<1> SUFFICES ASSUME IndInv, StoredSoFar, [Next]_vars PROVE [SecretStore!Next]_(SecretStore!vars)
  OBVIOUS
<1> USE DEF SecretStore!vars, SecretStore!clusterVars, SecretStore!requestVars, SecretStore!gcVars
<1>0. Batch \in {Batch} /\ Cardinality({}) = 0
  BY FS_EmptySet
\* While the request is described and packed, and when it is refused, nothing
\* of it is in sight.
<1>1. ASSUME ~Decided, ~Decided', UNCHANGED <<stored, created>>
      PROVE  UNCHANGED SecretStore!vars
  <2>1. /\ outcome \in {"describing", "packing", "refused"}
        /\ outcome' \in {"describing", "packing", "refused"}
        /\ ~created /\ ~created' /\ stored = {} /\ stored' = {}
    BY <1>1, IndInvNext DEF IndInv, TypeOK, Outcomes, Decided, StoredSoFar
  <2> QED BY <1>1, <2>1 DEF Decided, OfBatch, ByNobody, storePhase, storePlan, storeWritten,
                            storeBatches, storeRef
<1>2. ASSUME NEW j \in Jobs, Job(j) PROVE UNCHANGED SecretStore!vars
  <2>1. ~Decided /\ ~Decided' /\ UNCHANGED <<stored, created>>
    BY <1>2 DEF Job, Describe, SkipEmpty, Misfit, PlaceHere, PlaceInNew, Place, Pack, Turn,
                TooLarge, clusterVars, Decided
  <2> QED BY <1>1, <2>1
<1>3. CASE AllDescribed
  <2>1. ~Decided /\ ~Decided' /\ UNCHANGED <<stored, created>>
    BY <1>3 DEF AllDescribed, clusterVars, Decided
  <2> QED BY <1>1, <2>1
<1>4. CASE AllPacked /\ outcome' = "refused"
  <2>1. ~Decided /\ ~Decided' /\ UNCHANGED <<stored, created>>
    BY <1>4 DEF AllPacked, clusterVars, Decided
  <2> QED BY <1>1, <2>1
<1>5. CASE AllPacked /\ outcome' = "writing"
  <2>1. /\ outcome = "packing" /\ ~created /\ ~created' /\ stored = {} /\ stored' = {}
        /\ UNCHANGED <<refs, secret>>
    BY <1>5 DEF AllPacked, clusterVars, buildVars, StoredSoFar, Decided
  <2>2. Cardinality(WithData') \in 0..MaxJobs
    <3>1. Cardinality(WithData') = IF Placed' = {} THEN 0 ELSE secret' + 1
      BY <1>5, CountedNext DEF Counted
    <3>2. secret' \in 0..(MaxJobs - 1)
      BY <1>5, CountedNext DEF Counted
    <3>3. MaxJobs \in Nat
      BY RequestsAssumption
    <3>4. 0 \in 0..MaxJobs
      BY <3>3
    <3>5. secret' + 1 \in 0..MaxJobs
      BY <3>2, <3>3, OneMore
    <3>6. CASE Placed' = {}
      BY <3>1, <3>4, <3>6, Zenon
    <3>7. CASE Placed' # {}
      BY <3>1, <3>5, <3>7, Zenon
    <3> QED BY <3>6, <3>7
  <2>3. /\ storePhase = [b \in {Batch} |-> "unused"] /\ storePhase' = [b \in {Batch} |-> "creating"]
        /\ storePlan = [b \in {Batch} |-> 0] /\ storePlan' = [b \in {Batch} |-> Cardinality(WithData')]
        /\ storeWritten = [b \in {Batch} |-> 0] /\ storeWritten' = storeWritten
        /\ UNCHANGED <<storeBatches, storeRef, OfBatch(stored)>>
    BY <1>0, <1>5, <2>1
    DEF Decided, storePhase, storePlan, storeWritten, storeBatches, storeRef, OfBatch
  <2>4. SecretStore!StartCreate(Batch)
    BY <1>0, <2>2, <2>3 DEF SecretStore!StartCreate, OfBatch, ByNobody
  <2> QED BY <1>0, <2>4 DEF SecretStore!Next, SecretStore!Request
<1>6. ASSUME NEW i \in 0..(MaxJobs - 1), SkipSecret(i) PROVE UNCHANGED SecretStore!vars
  BY <1>6 DEF SkipSecret, Turn, buildVars, clusterVars, Decided, WithData, Entries, Placed, OfBatch,
              ByNobody, storePhase, storePlan, storeWritten, storeBatches, storeRef
<1>7. ASSUME NEW i \in 0..(MaxJobs - 1), WriteSecret(i) PROVE SecretStore!CreateSecret(Batch)
  <2>1. /\ outcome = "writing" /\ outcome' = "writing" /\ i <= secret /\ next = i + 1 /\ next' = i + 2
        /\ Placed # {} /\ stored' = stored \cup {i}
        /\ UNCHANGED <<secret, refs, Placed, WithData, created>>
    BY <1>7 DEF WriteSecret, Turn, buildVars, Entries, Placed, WithData
  <2>2. Cardinality(stored) = i /\ Cardinality(WithData) = secret + 1 /\ secret \in 0..(MaxJobs - 1)
    BY <2>1, CountedSecrets DEF Counted
  <2>3. Cardinality(stored') = i + 1
    BY <2>1, CountedNext DEF Counted
  <2>4. OfBatch(stored') = OfBatch(stored) \cup {<<Batch, i>>}
    BY <2>1 DEF OfBatch
  <2>5. /\ storePhase = [b \in {Batch} |-> "creating"]
        /\ storePlan = [b \in {Batch} |-> secret + 1]
        /\ storeWritten = [b \in {Batch} |-> i] /\ storeWritten' = [b \in {Batch} |-> i + 1]
        /\ UNCHANGED <<storePhase, storePlan, storeBatches, storeRef>>
    BY <2>1, <2>2, <2>3 DEF Decided, storePhase, storePlan, storeWritten, storeBatches, storeRef
  <2>6. i < secret + 1
    BY <2>1, <2>2
  <2>7. LET born == [s \in OfBatch(0..(MaxJobs - 1)) |-> 0]
        IN  born = [born EXCEPT ![<<Batch, i>>] = 0]
    OBVIOUS
  <2> QED BY <1>0, <2>4, <2>5, <2>6, <2>7 DEF SecretStore!CreateSecret, ByNobody
<1>8. ASSUME WriteBatch PROVE SecretStore!CreateBatch(Batch)
  <2>1. /\ outcome = "writing" /\ outcome' = "created" /\ ~created /\ created' /\ next > secret + 1
        /\ UNCHANGED <<secret, refs, Placed, WithData, stored>>
    BY <1>8 DEF WriteBatch, buildVars, Placed, WithData, Entries, StoredSoFar
  <2>2. Cardinality(stored) = Cardinality(WithData)
    BY <2>1, CountedSecrets DEF Counted, StoredSoFar
  <2>3. {refs[j] : j \in Placed} = 0..(Cardinality(WithData) - 1)
    BY <2>1, CountedSecrets DEF Counted
  <2>4. /\ storePhase = [b \in {Batch} |-> "creating"] /\ storePhase' = [b \in {Batch} |-> "created"]
        /\ storePlan = storeWritten
        /\ storeBatches = {} /\ storeBatches' = {Batch}
        /\ storeRef = [b \in {Batch} |-> {}]
        /\ storeRef' = [b \in {Batch} |-> {Batch} \X (0..(storePlan[Batch] - 1))]
        /\ UNCHANGED <<storePlan, storeWritten, OfBatch(stored)>>
    BY <2>1, <2>2, <2>3
    DEF Decided, storePhase, storePlan, storeWritten, storeBatches, storeRef, OfBatch
  <2>5. storePlan[Batch] = storeWritten[Batch]
    BY <2>4
  <2> QED BY <1>0, <2>4, <2>5 DEF SecretStore!CreateBatch, SecretStore!OwnSecrets, ByNobody
<1>9. ASSUME WriteFails \/ Crash, outcome = "writing" PROVE SecretStore!CreateFails(Batch)
  <2>1. /\ outcome' = "failed" /\ ~created /\ ~created'
        /\ UNCHANGED <<stored, refs, secret, Placed, WithData>>
    BY <1>9 DEF WriteFails, Crash, clusterVars, buildVars, Placed, WithData, Entries, StoredSoFar
  <2>2. /\ storePhase = [b \in {Batch} |-> "creating"] /\ storePhase' = [b \in {Batch} |-> "failed"]
        /\ UNCHANGED <<storePlan, storeWritten, storeBatches, storeRef, OfBatch(stored)>>
    BY <1>9, <2>1 DEF Decided, storePhase, storePlan, storeWritten, storeBatches, storeRef, OfBatch
  <2> QED BY <1>0, <2>2 DEF SecretStore!CreateFails, ByNobody
<1>10. ASSUME WriteFails \/ Crash, outcome # "writing" PROVE UNCHANGED SecretStore!vars
  <2>1. ~Decided /\ ~Decided' /\ UNCHANGED <<stored, created>>
    BY <1>10 DEF WriteFails, Crash, clusterVars, Decided
  <2> QED BY <1>1, <2>1
<1>11. CASE UNCHANGED vars
  BY <1>11 DEF vars, buildVars, clusterVars, Decided, WithData, Entries, Placed, OfBatch, ByNobody,
               storePhase, storePlan, storeWritten, storeBatches, storeRef
<1>12. AllPacked => outcome' \in {"writing", "refused"}
  BY DEF AllPacked
<1> QED
  BY <1>0, <1>2, <1>3, <1>4, <1>5, <1>6, <1>7, <1>8, <1>9, <1>10, <1>11, <1>12
  DEF Next, SecretStore!Next, SecretStore!Request

\* Creating a batch, for any request and however its payloads fall into secrets,
\* does to the cluster what PayloadSecrets says a creating request does.
THEOREM Refinement == Spec => ImplementsPayloadSecrets
<1>1. Init /\ [][Next]_vars => [](IndInv /\ StoredSoFar)
  BY IndInvInit, IndInvNext, StoredInit, StoredNext, PTL
<1> QED BY <1>1, RefinesInit, RefinesNext, PTL DEF Spec, ImplementsPayloadSecrets, SecretStore!Spec

====
