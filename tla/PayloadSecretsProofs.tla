---- MODULE PayloadSecretsProofs ----
(***************************************************************************)
(* Proofs about PayloadSecrets, for any number of batches, collectors and  *)
(* secrets and any times that satisfy TimingAssumption.                    *)
(***************************************************************************)
EXTENDS PayloadSecrets, TLAPS

USE TimingAssumption, BoundsAssumption

\* The secrets of the first n indices are secrets that can exist.
LEMMA OwnSecretsTyped ==
  ASSUME NEW b \in Batches, NEW n \in 0..MaxSecrets
  PROVE  OwnSecrets(b, n) \subseteq SecretNames
  BY DEF OwnSecrets, SecretNames

\* What a request has written next to what it writes now.
LEMMA OwnSecretsGrow ==
  ASSUME NEW b \in Batches, NEW n \in Nat
  PROVE  OwnSecrets(b, n + 1) = OwnSecrets(b, n) \cup {<<b, n>>}
  BY DEF OwnSecrets

(***************************************************************************)
(* Type correctness.                                                       *)
(***************************************************************************)
LEMMA TypeInit == Init => TypeOK
  BY DEF Init, TypeOK, Phases, Stages, SecretNames

LEMMA TypeNext == TypeOK /\ [Next]_vars => TypeOK'
<1> SUFFICES ASSUME TypeOK, [Next]_vars PROVE TypeOK'
  OBVIOUS
<1> USE DEF TypeOK, Phases, Stages
<1>1. ASSUME NEW b \in Batches, StartCreate(b) PROVE TypeOK'
  BY <1>1 DEF StartCreate, clusterVars, gcVars
<1>2. ASSUME NEW b \in Batches, CreateSecret(b) PROVE TypeOK'
  <2>1. <<b, written[b]>> \in SecretNames
    BY <1>2 DEF CreateSecret, SecretNames
  <2>2. written[b] + 1 \in 0..MaxSecrets
    BY <1>2 DEF CreateSecret
  <2> QED BY <1>2, <2>1, <2>2 DEF CreateSecret, gcVars
<1>3. ASSUME NEW b \in Batches, CreateBatch(b) PROVE TypeOK'
  BY <1>3, OwnSecretsTyped DEF CreateBatch, gcVars
<1>4. ASSUME NEW b \in Batches, CreateFails(b) PROVE TypeOK'
  BY <1>4 DEF CreateFails, clusterVars, gcVars
<1>5. ASSUME NEW b \in Batches, NEW src \in Batches, StartCopy(b, src) PROVE TypeOK'
  <2>1. PICK R \in CopiedRefs(src) : ref' = [ref EXCEPT ![b] = R]
    BY <1>5 DEF StartCopy
  <2>2. R \subseteq SecretNames
    BY <2>1 DEF CopiedRefs
  <2> QED BY <1>5, <2>1, <2>2 DEF StartCopy, gcVars
<1>6. ASSUME NEW b \in Batches, CreateCopy(b) PROVE TypeOK'
  BY <1>6 DEF CreateCopy, gcVars
<1>7. ASSUME NEW b \in Batches, CopyFails(b) PROVE TypeOK'
  BY <1>7 DEF CopyFails, clusterVars, gcVars
<1>8. ASSUME NEW c \in Collectors, NEW b \in Batches, DeleteBatch(c, b) PROVE TypeOK'
  BY <1>8 DEF DeleteBatch, requestVars
<1>9. ASSUME NEW c \in Collectors, StartGC(c) PROVE TypeOK'
  BY <1>9 DEF StartGC, clusterVars, requestVars
<1>10. ASSUME NEW c \in Collectors, ListRefs(c) PROVE TypeOK'
  <2>1. ReferencedSecrets \subseteq SecretNames
    BY DEF ReferencedSecrets
  <2> QED BY <1>10, <2>1 DEF ListRefs, clusterVars, requestVars
<1>11. ASSUME NEW c \in Collectors, ListSecrets(c) PROVE TypeOK'
  BY <1>11 DEF ListSecrets, clusterVars, requestVars
<1>12. ASSUME NEW C \in SUBSET Collectors, Return(C), UNCHANGED <<now, clusterVars, plan, written, started>>,
              phase' \in [Batches -> Phases]
       PROVE TypeOK'
  BY <1>12 DEF Return, clusterVars
<1>13. ASSUME NEW c \in Collectors, ListFails(c) \/ EndGC(c) PROVE TypeOK'
  BY <1>12, <1>13 DEF ListFails, EndGC, requestVars
<1>14. ASSUME NEW c \in Collectors, NEW s \in SecretNames,
              KeepSecret(c, s) \/ DeleteSecret(c, s) \/ DeleteSecretFails(c, s)
       PROVE TypeOK'
  BY <1>14 DEF KeepSecret, DeleteSecret, DeleteSecretFails, Visit, requestVars
<1>15. CASE Crash
  <2>1. phase' \in [Batches -> Phases]
    BY <1>15 DEF Crash
  <2> QED BY <1>12, <1>15, <2>1 DEF Crash
<1>16. CASE Tick
  BY <1>16 DEF Tick, clusterVars, requestVars, gcVars
<1>17. CASE UNCHANGED vars
  BY <1>17 DEF vars, clusterVars, requestVars, gcVars
<1> QED
  BY <1>1, <1>2, <1>3, <1>4, <1>5, <1>6, <1>7, <1>8, <1>9, <1>10, <1>11, <1>13, <1>14, <1>15, <1>16, <1>17
  DEF Next, Request, Collector

\* The type invariant holds in every reachable state.
THEOREM TypeCorrect == Spec => []TypeOK
  BY TypeInit, TypeNext, PTL DEF Spec

(***************************************************************************)
(* The inductive invariant.                                                *)
(***************************************************************************)
LEMMA IndInvInit == Init => IndInv
  BY DEF Init, IndInv, OnTime, BornInTime, RefersToOwn, UnseenIsYoung,
         CreatedBatchHasItsPayload, CreationKeepsItsSecrets

\* The heart of the argument: no secret that a collector takes to be an old
\* orphan belongs to a created batch that exists or to a creation in progress.
LEMMA CollectableIsOrphan ==
  ASSUME TypeOK, IndInv,
         NEW c \in Collectors, pc[c] = "sweep",
         NEW s \in SecretNames, Collectable(c, s)
  PROVE  /\ \A b \in batches : phase[b] = "created" => s \notin ref[b]
         /\ \A b \in Batches : phase[b] = "creating" => s \notin OwnSecrets(b, written[b])
<1> USE DEF TypeOK, IndInv, OnTime
<1>1. s \notin seen[c] /\ born[s] + Grace <= checkedAt[c]
  BY DEF Collectable, TooYoung
<1>2. ASSUME NEW b \in batches, phase[b] = "created", s \in ref[b] PROVE FALSE
  <2>1. listedAt[c] <= born[s] + CreateTime
    BY <1>1, <1>2 DEF UnseenIsYoung
  <2>2. checkedAt[c] <= listedAt[c] + GCTime
    OBVIOUS
  <2> QED BY <1>1, <2>1, <2>2
<1>3. ASSUME NEW b \in Batches, phase[b] = "creating", s \in OwnSecrets(b, written[b]) PROVE FALSE
  <2>1. started[b] <= born[s] /\ now <= started[b] + CreateTime
    BY <1>3 DEF BornInTime
  <2>2. checkedAt[c] <= now
    OBVIOUS
  <2> QED BY <1>1, <2>1, <2>2
<1> QED BY <1>2, <1>3

\* Writing the next secret of a creation.
LEMMA CreateSecretKeepsIndInv ==
  ASSUME TypeOK, IndInv, NEW b \in Batches, CreateSecret(b)
  PROVE  IndInv'
<1> USE DEF TypeOK, IndInv
<1> DEFINE s == <<b, written[b]>>
<1>1. /\ s \in SecretNames
      /\ OwnSecrets(b, written'[b]) = OwnSecrets(b, written[b]) \cup {s}
      /\ \A a \in Batches \ {b} : written'[a] = written[a]
  BY OwnSecretsGrow DEF CreateSecret, SecretNames
<1>2. /\ \A t \in SecretNames \ {s} : born'[t] = born[t]
      /\ born'[s] = now
      /\ secrets' = secrets \cup {s}
  BY <1>1 DEF CreateSecret
<1>3. \A a \in Batches \ {b} : \A n \in 0..MaxSecrets :
        OwnSecrets(a, n) \subseteq SecretNames /\ s \notin OwnSecrets(a, n)
  BY OwnSecretsTyped DEF OwnSecrets
<1>4. OnTime'
  BY DEF OnTime, CreateSecret, gcVars
<1>5. BornInTime'
  <2>1. started[b] <= now
    BY DEF CreateSecret, OnTime
  <2>2. s \notin OwnSecrets(b, written[b])
    BY DEF OwnSecrets
  <2>3. ASSUME NEW a \in Batches, phase[a] = "creating", NEW t \in OwnSecrets(a, written'[a])
        PROVE started[a] <= born'[t]
    <3>1. CASE a = b
      <4>1. CASE t = s
        BY <1>2, <2>1, <3>1, <4>1
      <4>2. CASE t # s
        BY <1>1, <1>2, <2>3, <3>1, <4>2, OwnSecretsTyped DEF BornInTime
      <4> QED BY <4>1, <4>2
    <3>2. CASE a # b
      <4>1. written[a] \in 0..MaxSecrets /\ t \in OwnSecrets(a, written[a])
        BY <1>1, <2>3, <3>2
      <4>2. t \in SecretNames \ {s}
        BY <1>3, <3>2, <4>1
      <4> QED BY <1>2, <2>3, <4>1, <4>2 DEF BornInTime
    <3> QED BY <3>1, <3>2
  <2> QED BY <2>3 DEF BornInTime, CreateSecret
<1>6. RefersToOwn'
  BY <1>1 DEF RefersToOwn, CreateSecret
<1>7. UnseenIsYoung'
  <2>1. ASSUME NEW c \in Collectors, pc[c] \in {"secrets", "sweep"},
               NEW a \in batches, phase[a] = "created", NEW t \in ref[a] \ seen[c]
        PROVE listedAt[c] <= born'[t] + CreateTime
    <3>1. a # b /\ t \in OwnSecrets(a, written[a])
      BY <2>1 DEF CreateSecret, RefersToOwn
    <3>2. a \in Batches \ {b} /\ written[a] \in 0..MaxSecrets
      BY <3>1
    <3>3. t \in SecretNames \ {s}
      BY <1>3, <3>1, <3>2
    <3> QED BY <1>2, <2>1, <3>3 DEF UnseenIsYoung
  <2> QED BY <2>1 DEF UnseenIsYoung, CreateSecret, gcVars
<1>8. CreatedBatchHasItsPayload'
  BY <1>2 DEF CreatedBatchHasItsPayload, CreateSecret
<1>9. CreationKeepsItsSecrets'
  BY <1>1, <1>2 DEF CreationKeepsItsSecrets, CreateSecret
<1> QED BY <1>4, <1>5, <1>6, <1>7, <1>8, <1>9

\* The batch appears: its secrets are all there, and young for any collection
\* that has already listed the references.
LEMMA CreateBatchKeepsIndInv ==
  ASSUME TypeOK, IndInv, NEW b \in Batches, CreateBatch(b)
  PROVE  IndInv'
<1> USE DEF TypeOK, IndInv
<1>1. ref'[b] = OwnSecrets(b, written[b]) /\ \A a \in Batches \ {b} : ref'[a] = ref[a]
  BY OwnSecretsTyped DEF CreateBatch
<1>2. /\ phase[b] = "creating" /\ phase'[b] = "created"
      /\ \A a \in Batches \ {b} : phase'[a] = phase[a]
  BY DEF CreateBatch
<1>3. OnTime'
  BY DEF OnTime, CreateBatch, gcVars
<1>4. BornInTime'
  BY DEF BornInTime, CreateBatch
<1>5. RefersToOwn'
  BY <1>1, <1>2 DEF RefersToOwn, CreateBatch
<1>6. UnseenIsYoung'
  <2>1. ASSUME NEW c \in Collectors, pc[c] \in {"secrets", "sweep"},
               NEW s \in OwnSecrets(b, written[b])
        PROVE listedAt[c] <= born[s] + CreateTime
    <3>1. s \in SecretNames
      BY OwnSecretsTyped
    <3>2. started[b] <= born[s] /\ now <= started[b] + CreateTime
      BY <1>2 DEF BornInTime, OnTime
    <3>3. listedAt[c] <= now
      BY <2>1 DEF OnTime
    <3> QED BY <3>1, <3>2, <3>3
  <2>2. ASSUME NEW c \in Collectors, pc[c] \in {"secrets", "sweep"},
               NEW a \in batches', phase'[a] = "created", NEW s \in ref'[a] \ seen[c]
        PROVE listedAt[c] <= born[s] + CreateTime
    BY <1>1, <1>2, <2>1, <2>2 DEF UnseenIsYoung, CreateBatch
  <2> QED BY <2>2 DEF UnseenIsYoung, CreateBatch, gcVars
<1>7. CreatedBatchHasItsPayload'
  BY <1>1, <1>2 DEF CreatedBatchHasItsPayload, CreationKeepsItsSecrets, CreateBatch
<1>8. CreationKeepsItsSecrets'
  BY <1>2 DEF CreationKeepsItsSecrets, CreateBatch
<1> QED BY <1>3, <1>4, <1>5, <1>6, <1>7, <1>8

\* The clock moves only while every request and collection is within its time.
LEMMA TickKeepsIndInv ==
  ASSUME TypeOK, IndInv, Tick
  PROVE  IndInv'
<1> USE DEF TypeOK, IndInv
<1>1. OnTime'
  BY DEF OnTime, Tick, requestVars, gcVars
<1>2. /\ BornInTime' /\ RefersToOwn' /\ UnseenIsYoung'
      /\ CreatedBatchHasItsPayload' /\ CreationKeepsItsSecrets'
  BY DEF BornInTime, RefersToOwn, UnseenIsYoung, CreatedBatchHasItsPayload,
         CreationKeepsItsSecrets, Tick, clusterVars, requestVars, gcVars
<1> QED BY <1>1, <1>2

\* The collectors in C return; the cluster and the requests stay, or requests
\* in progress fail (a crash).
LEMMA ReturnKeepsIndInv ==
  ASSUME TypeOK, IndInv, NEW C \in SUBSET Collectors, Return(C),
         UNCHANGED <<now, clusterVars, plan, written, started>>,
         \A b \in Batches : phase'[b] \in {phase[b], "failed"}
  PROVE  IndInv'
<1> USE DEF TypeOK, IndInv, clusterVars
<1>1. \A c \in Collectors : pc'[c] # "idle" =>
        /\ pc'[c] = pc[c] /\ seen'[c] = seen[c]
        /\ listedAt'[c] = listedAt[c] /\ checkedAt'[c] = checkedAt[c]
  BY DEF Return
<1>2. \A b \in Batches : phase'[b] \in {"creating", "created"} => phase'[b] = phase[b]
  OBVIOUS
<1>3. OnTime'
  BY <1>1, <1>2 DEF OnTime
<1>4. UnseenIsYoung'
  <2> SUFFICES ASSUME NEW c \in Collectors, pc'[c] \in {"secrets", "sweep"},
                      NEW b \in batches, phase'[b] = "created", NEW s \in ref[b] \ seen'[c]
               PROVE listedAt'[c] <= born[s] + CreateTime
    BY DEF UnseenIsYoung
  <2>1. pc[c] = pc'[c] /\ seen[c] = seen'[c] /\ listedAt[c] = listedAt'[c]
    BY <1>1
  <2>2. phase[b] = "created"
    BY <1>2
  <2> QED BY <2>1, <2>2 DEF UnseenIsYoung
<1>5. /\ BornInTime' /\ RefersToOwn'
      /\ CreatedBatchHasItsPayload' /\ CreationKeepsItsSecrets'
  BY <1>2 DEF BornInTime, RefersToOwn, CreatedBatchHasItsPayload, CreationKeepsItsSecrets
<1> QED BY <1>3, <1>4, <1>5

LEMMA IndInvNext == TypeOK /\ IndInv /\ [Next]_vars => IndInv'
<1> SUFFICES ASSUME TypeOK, IndInv, [Next]_vars PROVE IndInv'
  OBVIOUS
<1> USE DEF TypeOK, IndInv
<1>1. ASSUME NEW b \in Batches, StartCreate(b) PROVE IndInv'
  <2>1. /\ OwnSecrets(b, written'[b]) = {}
        /\ phase'[b] = "creating" /\ started'[b] = now
        /\ \A a \in Batches \ {b} : /\ phase'[a] = phase[a] /\ written'[a] = written[a]
                                   /\ started'[a] = started[a]
    BY <1>1 DEF StartCreate, OwnSecrets
  <2>2. OnTime'
    BY <1>1, <2>1 DEF OnTime, StartCreate, gcVars
  <2>3. UnseenIsYoung'
    BY <1>1, <2>1 DEF UnseenIsYoung, StartCreate, clusterVars, gcVars
  <2>4. BornInTime' /\ RefersToOwn'
    BY <1>1, <2>1 DEF BornInTime, RefersToOwn, StartCreate, clusterVars
  <2>5. CreatedBatchHasItsPayload' /\ CreationKeepsItsSecrets'
    BY <1>1, <2>1 DEF CreatedBatchHasItsPayload, CreationKeepsItsSecrets, StartCreate, clusterVars
  <2> QED BY <2>2, <2>3, <2>4, <2>5
<1>2. ASSUME NEW b \in Batches, CreateSecret(b) PROVE IndInv'
  BY <1>2, CreateSecretKeepsIndInv
<1>3. ASSUME NEW b \in Batches, CreateBatch(b) PROVE IndInv'
  BY <1>3, CreateBatchKeepsIndInv
<1>4. ASSUME NEW b \in Batches, CreateFails(b) \/ CopyFails(b) PROVE IndInv'
  <2>1. /\ UNCHANGED <<now, clusterVars, plan, written, started, gcVars>>
        /\ \A a \in Batches : phase'[a] \in {phase[a], "failed"}
    BY <1>4 DEF CreateFails, CopyFails
  <2>2. OnTime' /\ UnseenIsYoung'
    BY <2>1 DEF OnTime, UnseenIsYoung, clusterVars, gcVars
  <2>3. BornInTime' /\ RefersToOwn' /\ CreatedBatchHasItsPayload' /\ CreationKeepsItsSecrets'
    BY <2>1 DEF BornInTime, RefersToOwn, CreatedBatchHasItsPayload, CreationKeepsItsSecrets, clusterVars
  <2> QED BY <2>2, <2>3
<1>5. ASSUME NEW b \in Batches, NEW src \in Batches, StartCopy(b, src) PROVE IndInv'
  <2>1. /\ phase'[b] = "copying"
        /\ \A a \in Batches \ {b} : phase'[a] = phase[a] /\ ref'[a] = ref[a]
    BY <1>5 DEF StartCopy
  <2>2. OnTime' /\ UnseenIsYoung'
    BY <1>5, <2>1 DEF OnTime, UnseenIsYoung, StartCopy, gcVars
  <2>3. BornInTime' /\ RefersToOwn' /\ CreatedBatchHasItsPayload' /\ CreationKeepsItsSecrets'
    BY <1>5, <2>1 DEF BornInTime, RefersToOwn, CreatedBatchHasItsPayload, CreationKeepsItsSecrets, StartCopy
  <2> QED BY <2>2, <2>3
<1>6. ASSUME NEW b \in Batches, CreateCopy(b) PROVE IndInv'
  <2>1. /\ phase'[b] = "copied" /\ batches' = batches \cup {b}
        /\ \A a \in Batches \ {b} : phase'[a] = phase[a]
    BY <1>6 DEF CreateCopy
  <2>2. OnTime' /\ UnseenIsYoung'
    BY <1>6, <2>1 DEF OnTime, UnseenIsYoung, CreateCopy, gcVars
  <2>3. BornInTime' /\ RefersToOwn' /\ CreatedBatchHasItsPayload' /\ CreationKeepsItsSecrets'
    BY <1>6, <2>1 DEF BornInTime, RefersToOwn, CreatedBatchHasItsPayload, CreationKeepsItsSecrets, CreateCopy
  <2> QED BY <2>2, <2>3
<1>7. ASSUME NEW c \in Collectors, NEW b \in Batches, DeleteBatch(c, b) PROVE IndInv'
  <2>1. pc'[c] = "refs" /\ \A d \in Collectors \ {c} : pc'[d] = pc[d]
    BY <1>7 DEF DeleteBatch
  <2>2. OnTime' /\ UnseenIsYoung'
    BY <1>7, <2>1 DEF OnTime, UnseenIsYoung, DeleteBatch, requestVars
  <2>3. BornInTime' /\ RefersToOwn' /\ CreatedBatchHasItsPayload' /\ CreationKeepsItsSecrets'
    BY <1>7 DEF BornInTime, RefersToOwn, CreatedBatchHasItsPayload, CreationKeepsItsSecrets,
                DeleteBatch, requestVars
  <2> QED BY <2>2, <2>3
<1>8. ASSUME NEW c \in Collectors, StartGC(c) PROVE IndInv'
  <2>1. pc'[c] = "refs" /\ \A d \in Collectors \ {c} : pc'[d] = pc[d]
    BY <1>8 DEF StartGC
  <2>2. OnTime' /\ UnseenIsYoung'
    BY <1>8, <2>1 DEF OnTime, UnseenIsYoung, StartGC, clusterVars, requestVars
  <2>3. BornInTime' /\ RefersToOwn' /\ CreatedBatchHasItsPayload' /\ CreationKeepsItsSecrets'
    BY <1>8 DEF BornInTime, RefersToOwn, CreatedBatchHasItsPayload, CreationKeepsItsSecrets,
                StartGC, clusterVars, requestVars
  <2> QED BY <2>2, <2>3
<1>9. ASSUME NEW c \in Collectors, ListRefs(c) PROVE IndInv'
  <2>1. /\ pc'[c] = "secrets" /\ listedAt'[c] = now
        /\ \A b \in batches : ref[b] \ seen'[c] = {}
        /\ \A d \in Collectors \ {c} : /\ pc'[d] = pc[d] /\ listedAt'[d] = listedAt[d]
                                       /\ seen'[d] = seen[d]
    BY <1>9 DEF ListRefs, ReferencedSecrets
  <2>2. OnTime'
    BY <1>9, <2>1 DEF OnTime, ListRefs, clusterVars, requestVars
  <2>3. UnseenIsYoung'
    BY <1>9, <2>1 DEF UnseenIsYoung, ListRefs, clusterVars, requestVars
  <2>4. BornInTime' /\ RefersToOwn' /\ CreatedBatchHasItsPayload' /\ CreationKeepsItsSecrets'
    BY <1>9 DEF BornInTime, RefersToOwn, CreatedBatchHasItsPayload, CreationKeepsItsSecrets,
                ListRefs, clusterVars, requestVars
  <2> QED BY <2>2, <2>3, <2>4
<1>10. ASSUME NEW c \in Collectors, ListSecrets(c) PROVE IndInv'
  <2>1. OnTime' /\ UnseenIsYoung'
    BY <1>10 DEF OnTime, UnseenIsYoung, ListSecrets, clusterVars, requestVars
  <2>2. BornInTime' /\ RefersToOwn' /\ CreatedBatchHasItsPayload' /\ CreationKeepsItsSecrets'
    BY <1>10 DEF BornInTime, RefersToOwn, CreatedBatchHasItsPayload, CreationKeepsItsSecrets,
                 ListSecrets, clusterVars, requestVars
  <2> QED BY <2>1, <2>2
<1>11. ASSUME NEW c \in Collectors, ListFails(c) \/ EndGC(c) PROVE IndInv'
  BY <1>11, ReturnKeepsIndInv DEF ListFails, EndGC, requestVars
<1>12. ASSUME NEW c \in Collectors, NEW s \in SecretNames, Visit(c, s), secrets' = secrets PROVE IndInv'
  <2>1. OnTime' /\ UnseenIsYoung'
    BY <1>12 DEF OnTime, UnseenIsYoung, Visit, requestVars
  <2>2. BornInTime' /\ RefersToOwn' /\ CreatedBatchHasItsPayload' /\ CreationKeepsItsSecrets'
    BY <1>12 DEF BornInTime, RefersToOwn, CreatedBatchHasItsPayload, CreationKeepsItsSecrets,
                 Visit, requestVars
  <2> QED BY <2>1, <2>2
<1>13. ASSUME NEW c \in Collectors, NEW s \in SecretNames, DeleteSecret(c, s) PROVE IndInv'
  <2>1. OnTime' /\ UnseenIsYoung'
    BY <1>13 DEF OnTime, UnseenIsYoung, DeleteSecret, Visit, requestVars
  <2>2. BornInTime' /\ RefersToOwn'
    BY <1>13 DEF BornInTime, RefersToOwn, DeleteSecret, Visit, requestVars
  <2>3. /\ \A b \in batches : phase[b] = "created" => s \notin ref[b]
        /\ \A b \in Batches : phase[b] = "creating" => s \notin OwnSecrets(b, written[b])
    BY <1>13, CollectableIsOrphan DEF DeleteSecret, Visit
  <2>4. CreatedBatchHasItsPayload' /\ CreationKeepsItsSecrets'
    BY <1>13, <2>3 DEF CreatedBatchHasItsPayload, CreationKeepsItsSecrets, DeleteSecret, Visit, requestVars
  <2> QED BY <2>1, <2>2, <2>4
<1>14. CASE Crash
  BY <1>14, ReturnKeepsIndInv DEF Crash
<1>15. CASE Tick
  BY <1>15, TickKeepsIndInv
<1>16. CASE UNCHANGED vars
  BY <1>16 DEF vars, clusterVars, requestVars, gcVars, OnTime, BornInTime, RefersToOwn, UnseenIsYoung,
               CreatedBatchHasItsPayload, CreationKeepsItsSecrets
<1> QED
  BY <1>1, <1>2, <1>3, <1>4, <1>5, <1>6, <1>7, <1>8, <1>9, <1>10, <1>11, <1>12, <1>13, <1>14, <1>15, <1>16
  DEF Next, Request, Collector, KeepSecret, DeleteSecretFails

\* The strengthened invariant holds in every reachable state.
THEOREM Strengthened == Spec => []IndInv
  BY TypeCorrect, IndInvInit, IndInvNext, PTL DEF Spec

\* No collection takes away a payload of a created batch that exists: for any
\* number of concurrent creations, copies, deletions and collections, however
\* the process crashes, as long as a creation and the two lists of a
\* collection together stay under the grace period.
THEOREM CreatedPayloadSafe == Spec => []CreatedBatchHasItsPayload
  BY Strengthened, PTL DEF IndInv

\* Nor one of the secrets a running creation has written.
THEOREM CreationSafe == Spec => []CreationKeepsItsSecrets
  BY Strengthened, PTL DEF IndInv

(***************************************************************************)
(* Copies.                                                                 *)
(***************************************************************************)
\* Whoever refers to a secret, it is one that a request created for a batch
\* under whose name it is stored, and that batch referred to it from the start.
RefersToCreated ==
  /\ \A b \in batches : phase[b] \in {"created", "copied"}
  /\ \A b \in Batches : phase[b] \in {"created", "copying", "copied"} =>
       \A s \in ref[b] : s[1] \in Batches /\ phase[s[1]] = "created" /\ s \in ref[s[1]]

LEMMA RefersToCreatedNext == TypeOK /\ RefersToCreated /\ [Next]_vars => RefersToCreated'
<1> SUFFICES ASSUME TypeOK, RefersToCreated, [Next]_vars PROVE RefersToCreated'
  OBVIOUS
<1>1. ASSUME UNCHANGED <<batches, ref, phase>> PROVE RefersToCreated'
  BY <1>1 DEF RefersToCreated
<1>2. ASSUME NEW b \in Batches, StartCreate(b) PROVE RefersToCreated'
  <2>1. /\ phase[b] = "unused" /\ phase' = [phase EXCEPT ![b] = "creating"]
        /\ UNCHANGED <<batches, ref>>
    BY <1>2 DEF StartCreate, clusterVars
  <2> QED BY <2>1 DEF RefersToCreated, TypeOK
<1>3. ASSUME NEW b \in Batches, CreateBatch(b) PROVE RefersToCreated'
  <2>1. /\ phase[b] = "creating" /\ phase' = [phase EXCEPT ![b] = "created"]
        /\ batches' = batches \cup {b}
        /\ ref' = [ref EXCEPT ![b] = OwnSecrets(b, plan[b])]
    BY <1>3 DEF CreateBatch
  <2>2. \A s \in ref'[b] : s[1] = b
    BY <2>1 DEF OwnSecrets, TypeOK
  <2>3. phase'[b] = "created" /\ \A a \in Batches \ {b} : phase'[a] = phase[a] /\ ref'[a] = ref[a]
    BY <2>1 DEF TypeOK
  <2> QED BY <2>1, <2>2, <2>3 DEF RefersToCreated
<1>4. ASSUME NEW b \in Batches, NEW src \in Batches, StartCopy(b, src) PROVE RefersToCreated'
  <2>1. PICK R \in CopiedRefs(src) : ref' = [ref EXCEPT ![b] = R]
    BY <1>4 DEF StartCopy
  <2>2. /\ phase[b] = "unused" /\ phase' = [phase EXCEPT ![b] = "copying"]
        /\ src \in batches /\ UNCHANGED batches
    BY <1>4 DEF StartCopy
  <2>3. R \subseteq ref[src]
    BY <2>1 DEF CopiedRefs
  <2>4. ref'[b] = R /\ \A a \in Batches \ {b} : phase'[a] = phase[a] /\ ref'[a] = ref[a]
    BY <2>1, <2>2 DEF TypeOK
  <2>5. \A s \in R : s[1] \in Batches \ {b} /\ phase[s[1]] = "created" /\ s \in ref[s[1]]
    BY <2>2, <2>3 DEF RefersToCreated
  <2> QED BY <2>2, <2>4, <2>5 DEF RefersToCreated, TypeOK
<1>5. ASSUME NEW b \in Batches, CreateCopy(b) PROVE RefersToCreated'
  <2>1. /\ phase[b] = "copying" /\ phase' = [phase EXCEPT ![b] = "copied"]
        /\ batches' = batches \cup {b} /\ UNCHANGED ref
    BY <1>5 DEF CreateCopy
  <2> QED BY <2>1 DEF RefersToCreated, TypeOK
<1>6. ASSUME NEW b \in Batches, CreateFails(b) \/ CopyFails(b) PROVE RefersToCreated'
  <2>1. /\ phase[b] \in {"creating", "copying"} /\ phase' = [phase EXCEPT ![b] = "failed"]
        /\ UNCHANGED <<batches, ref>>
    BY <1>6 DEF CreateFails, CopyFails, clusterVars
  <2> QED BY <2>1 DEF RefersToCreated, TypeOK
<1>7. ASSUME NEW c \in Collectors, NEW b \in Batches, DeleteBatch(c, b) PROVE RefersToCreated'
  BY <1>7 DEF DeleteBatch, requestVars, RefersToCreated
<1>8. CASE Crash
  <2>1. /\ UNCHANGED <<batches, ref>>
        /\ \A b \in Batches : phase'[b] = IF phase[b] \in {"creating", "copying"} THEN "failed" ELSE phase[b]
    BY <1>8 DEF Crash, clusterVars
  <2> QED BY <2>1 DEF RefersToCreated, TypeOK
<1>9. ASSUME NEW b \in Batches, CreateSecret(b) PROVE RefersToCreated'
  BY <1>1, <1>9 DEF CreateSecret
<1>10. ASSUME NEW c \in Collectors,
              StartGC(c) \/ ListRefs(c) \/ ListSecrets(c) \/ ListFails(c) \/ EndGC(c)
       PROVE RefersToCreated'
  BY <1>1, <1>10 DEF StartGC, ListRefs, ListSecrets, ListFails, EndGC, clusterVars, requestVars
<1>11. ASSUME NEW c \in Collectors, NEW s \in SecretNames, Visit(c, s) PROVE RefersToCreated'
  BY <1>1, <1>11 DEF Visit, requestVars
<1>12. CASE Tick \/ UNCHANGED vars
  BY <1>1, <1>12 DEF Tick, vars, clusterVars, requestVars
<1> QED
  BY <1>2, <1>3, <1>4, <1>5, <1>6, <1>7, <1>8, <1>9, <1>10, <1>11, <1>12
  DEF Next, Request, Collector, KeepSecret, DeleteSecret, DeleteSecretFails

\* Collections never part a copy, however often it was copied, from payloads
\* whose owner still exists.
THEOREM LostWithOwner == Spec => []LostOnlyWithItsOwner
<1>1. Init => RefersToCreated
  BY DEF Init, RefersToCreated
<1>2. TypeOK => batches \subseteq Batches
  BY DEF TypeOK
<1>3. TypeOK /\ RefersToCreated /\ CreatedBatchHasItsPayload => LostOnlyWithItsOwner
  BY <1>2 DEF RefersToCreated, CreatedBatchHasItsPayload, LostOnlyWithItsOwner
<1> QED BY <1>1, <1>3, RefersToCreatedNext, TypeCorrect, CreatedPayloadSafe, PTL DEF Spec

(***************************************************************************)
(* What a collection leaves behind.                                        *)
(***************************************************************************)
\* Of the secrets that are there, a sweep has still to visit those it will take
\* for old orphans, or has failed to delete them.
Owed(c) == {s \in secrets : Collectable(c, s)}
SweepGoesOn ==
  \A c \in Collectors : pc[c] = "sweep" => Owed(c) \subseteq todo[c] \cup errors[c]

LEMMA SweepNext == TypeOK /\ OnTime /\ SweepGoesOn /\ [Next]_vars => SweepGoesOn'
<1> SUFFICES ASSUME TypeOK, OnTime, SweepGoesOn, [Next]_vars,
                    NEW c \in Collectors, pc'[c] = "sweep",
                    NEW s \in secrets', Collectable(c, s)'
             PROVE  s \in todo'[c] \cup errors'[c]
  BY DEF SweepGoesOn, Owed
<1> DEFINE Quiet(d) == UNCHANGED <<pc[d], seen[d], todo[d], checkedAt[d], errors[d]>>
           Fewer == secrets' \subseteq secrets /\ UNCHANGED born
<1>1. CASE Fewer /\ Quiet(c)
  BY <1>1 DEF SweepGoesOn, Owed, Collectable, TooYoung
<1>2. ASSUME NEW b \in Batches, Request(b) PROVE s \in todo'[c] \cup errors'[c]
  <2>1. Quiet(c)
    BY <1>2 DEF Request, StartCreate, CreateSecret, CreateBatch, CreateFails, StartCopy, CreateCopy,
                CopyFails, gcVars
  <2>2. CASE CreateSecret(b)
    <3> DEFINE new == <<b, written[b]>>
    <3>1. secrets' = secrets \cup {new} /\ born' = [born EXCEPT ![new] = now] /\ new \in SecretNames
      BY <2>2 DEF CreateSecret, TypeOK, SecretNames
    <3> HIDE DEF new
    <3>2. CASE s = new
      <4>1. born'[s] = now
        BY <3>1, <3>2 DEF TypeOK
      <4>2. checkedAt'[c] <= now /\ checkedAt'[c] \in Nat /\ now \in Nat
        BY <2>1 DEF OnTime, TypeOK
      <4>3. TooYoung(c, s)'
        BY <4>1, <4>2 DEF TooYoung
      <4> QED BY <4>3 DEF Collectable
    <3>3. CASE s # new
      <4>1. s \in secrets /\ born'[s] = born[s]
        BY <3>1, <3>3 DEF TypeOK
      <4> QED BY <2>1, <4>1 DEF SweepGoesOn, Owed, Collectable, TooYoung
    <3> QED BY <3>2, <3>3
  <2>3. CASE ~CreateSecret(b)
    <3>1. Fewer
      BY <1>2, <2>3 DEF Request, StartCreate, CreateBatch, CreateFails, StartCopy, CreateCopy,
                        CopyFails, clusterVars
    <3> QED BY <1>1, <2>1, <3>1
  <2> QED BY <2>2, <2>3
<1>3. ASSUME NEW d \in Collectors, ListSecrets(d) PROVE s \in todo'[c] \cup errors'[c]
  <2>1. CASE c = d
    BY <1>3, <2>1 DEF ListSecrets, clusterVars, TypeOK
  <2>2. CASE c # d
    BY <1>1, <1>3, <2>2 DEF ListSecrets, clusterVars, TypeOK
  <2> QED BY <2>1, <2>2
<1>4. ASSUME NEW d \in Collectors, NEW x \in SecretNames,
             KeepSecret(d, x) \/ DeleteSecret(d, x) \/ DeleteSecretFails(d, x)
      PROVE  s \in todo'[c] \cup errors'[c]
  <2>1. Fewer /\ UNCHANGED <<pc, seen, checkedAt>>
    BY <1>4 DEF KeepSecret, DeleteSecret, DeleteSecretFails, Visit
  <2>2. s \in todo[c] \cup errors[c] /\ Collectable(c, s)
    BY <2>1 DEF SweepGoesOn, Owed, Collectable, TooYoung
  <2>3. /\ (s # x \/ c # d) /\ s \in todo[c] => s \in todo'[c]
        /\ errors[c] \subseteq errors'[c]
    BY <1>4 DEF KeepSecret, DeleteSecret, DeleteSecretFails, Visit, TypeOK
  <2>4. s = x /\ c = d => x \in errors'[d]
    BY <1>4, <2>2 DEF KeepSecret, DeleteSecret, DeleteSecretFails, TypeOK
  <2> QED BY <2>2, <2>3, <2>4
<1>5. ASSUME NEW d \in Collectors,
             \/ \E b \in Batches : DeleteBatch(d, b)
             \/ StartGC(d) \/ ListRefs(d)
      PROVE  s \in todo'[c] \cup errors'[c]
  <2>1. c # d
    BY <1>5 DEF DeleteBatch, StartGC, ListRefs, TypeOK
  <2>2. Fewer /\ Quiet(c)
    BY <1>5, <2>1 DEF DeleteBatch, StartGC, ListRefs, TypeOK, clusterVars
  <2> QED BY <1>1, <2>2
<1>6. ASSUME NEW C \in SUBSET Collectors, Return(C), UNCHANGED clusterVars
      PROVE  s \in todo'[c] \cup errors'[c]
  <2>1. c \notin C
    BY <1>6 DEF Return
  <2>2. Fewer /\ Quiet(c)
    BY <1>6, <2>1 DEF Return, clusterVars
  <2> QED BY <1>1, <2>2
<1>7. CASE Crash \/ \E d \in Collectors : ListFails(d) \/ EndGC(d)
  BY <1>6, <1>7 DEF Crash, ListFails, EndGC
<1>8. CASE Tick \/ UNCHANGED vars
  BY <1>1, <1>8 DEF Tick, vars, clusterVars, gcVars
<1> QED BY <1>2, <1>3, <1>4, <1>5, <1>7, <1>8 DEF Next, Collector

\* However secrets and batches come and go during a collection, when it ends no
\* secret is left that it should have collected, except those whose own delete
\* failed.
THEOREM NoOldOrphanLeft == Spec => GCLeavesNoOldOrphan
<1> DEFINE Left == \A c \in Collectors : EndGC(c) =>
                     \A s \in secrets : Collectable(c, s) => s \in errors[c]
<1>1. Init => SweepGoesOn
  BY DEF Init, SweepGoesOn
<1>2. SweepGoesOn => [Left]_vars
  BY DEF SweepGoesOn, Owed, EndGC
<1>3. TypeOK /\ IndInv => OnTime
  BY DEF IndInv
<1> QED
  BY <1>1, <1>2, <1>3, SweepNext, TypeCorrect, Strengthened, PTL DEF Spec, GCLeavesNoOldOrphan

====
