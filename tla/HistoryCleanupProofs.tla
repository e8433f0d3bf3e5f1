---- MODULE HistoryCleanupProofs ----
(***************************************************************************)
(* Proofs about HistoryCleanup, for any batches and cleanups and for any   *)
(* limit, age and period.                                                  *)
(***************************************************************************)
EXTENDS HistoryCleanup, FiniteSetTheorems, WellFoundedInduction, TLAPS

USE HistoryAssumption

\* The batches that count for b: the newer ones of its category that no cleanup
\* has deleted, and the restarted ones of its type.
Counted(b) == (Newer(b) \ swept) \cup {a \in restarted : TypeOf[a] = TypeOf[b]}

Kept(b) == outcome[b] # "none" /\ Cardinality(Counted(b)) >= Limit

\* The batches that cleanups have deleted or are going to delete.
Doomed == swept \cup UNION {todo[w][i] : w \in Workers, i \in Categories}

OutcomeFollowsState ==
  \A b \in Batches :
    /\ state[b] = "open" => outcome[b] = "none"
    /\ state[b] = "completed" => outcome[b] # "none"

SweptAreGone == \A b \in swept : state[b] = "gone"

DoomedAreKept == \A b \in Doomed \ restarted : state[b] # "open" /\ Kept(b)

ListedAreOld ==
  \A w \in Workers :
    /\ cutoff[w] <= now
    /\ \A i \in Categories : \A b \in todo[w][i] \ restarted : at[b] + MinAge < cutoff[w]

\* HistoryKept says of the batches that were deleted what DoomedAreKept says also
\* of those that still will be: so it does not matter which cleanup deletes which
\* batch, and in what order.
IndInv == TypeOK /\ OutcomeFollowsState /\ SweptAreGone /\ DoomedAreKept /\ ListedAreOld

(***************************************************************************)
(* Counting.                                                               *)
(***************************************************************************)
LEMMA Larger ==
  ASSUME NEW S \in SUBSET Batches, NEW T \in SUBSET S, Cardinality(T) >= Limit
  PROVE  Cardinality(S) >= Limit
<1>1. IsFiniteSet(S)
  BY FS_Subset
<1>2. IsFiniteSet(T) /\ Cardinality(T) <= Cardinality(S)
  BY <1>1, FS_Subset
<1>3. Cardinality(S) \in Nat /\ Cardinality(T) \in Nat
  BY <1>1, <1>2, FS_CardinalityType
<1>4. Limit \in Nat
  OBVIOUS
<1> QED BY <1>2, <1>3, <1>4

LEMMA CountedTyped ==
  ASSUME TypeOK, NEW b \in Batches
  PROVE  Counted(b) \subseteq Batches
  BY DEF TypeOK, Counted, Newer

LEMMA DoomedTyped ==
  ASSUME TypeOK
  PROVE  Doomed \subseteq Batches
  BY DEF TypeOK, Doomed

\* The order of completion is transitive, and so is what is newer.
LEMMA NewerTransitive ==
  ASSUME TypeOK, NEW b \in Batches, NEW c \in Newer(b)
  PROVE  Newer(c) \subseteq Newer(b) /\ c \notin Newer(c)
<1>1. /\ c \in Batches /\ outcome[b] # "none" /\ TypeOf[c] = TypeOf[b] /\ outcome[c] = outcome[b]
      /\ Before(at, b, c)
  BY DEF Newer
<1>2. ASSUME NEW a \in Batches, Before(at, c, a) PROVE Before(at, b, a) /\ a # c
  BY <1>1, <1>2 DEF TypeOK, Before
<1> QED BY <1>1, <1>2 DEF Newer

\* What an older batch counts it counts still when a doomed one is deleted: either
\* it is not counted, or it was restarted, or it has enough newer ones itself.
LEMMA KeptWhenSwept ==
  ASSUME IndInv, NEW c \in Doomed, NEW b \in Doomed \ restarted,
         UNCHANGED <<outcome, at, restarted>>, swept' \in {swept, swept \cup {c}}
  PROVE  Kept(b)'
<1>1. TypeOK /\ b \in Batches /\ c \in Batches /\ Kept(b)
  BY DoomedTyped DEF IndInv, DoomedAreKept
<1>2. \A a : Newer(a)' = Newer(a)
  BY DEF Newer
<1>3. Counted(b)' \in SUBSET Batches
  BY <1>1, <1>2 DEF TypeOK, Counted, Newer
<1>4. CASE Counted(b) \subseteq Counted(b)'
  BY <1>1, <1>3, <1>4, Larger DEF Kept
<1>5. CASE ~(Counted(b) \subseteq Counted(b)')
  <2>1. swept' = swept \cup {c} /\ c \in Newer(b) /\ c \notin restarted
    BY <1>2, <1>5 DEF Counted, Newer
  <2>2. Kept(c) /\ TypeOf[c] = TypeOf[b]
    BY <2>1 DEF IndInv, DoomedAreKept, Newer
  <2>3. Counted(c) \subseteq Counted(b)'
    BY <1>1, <1>2, <2>1, <2>2, NewerTransitive DEF Counted
  <2> QED BY <1>1, <1>3, <2>2, <2>3, Larger DEF Kept
<1> QED BY <1>4, <1>5

\* Nothing else takes a batch from the count of a doomed one.
LEMMA KeptWhenCounted ==
  ASSUME TypeOK, TypeOK', NEW b \in Batches, Kept(b), outcome'[b] = outcome[b],
         Counted(b) \subseteq Counted(b)'
  PROVE  Kept(b)'
<1>1. Counted(b)' \in SUBSET Batches
  BY DEF TypeOK, Counted, Newer
<1> QED BY <1>1, Larger DEF Kept

(***************************************************************************)
(* Type correctness.                                                       *)
(***************************************************************************)
LEMMA TypeInit == Init => TypeOK
  BY DEF Init, TypeOK, NothingListed, NothingToDo

LEMMA ReturnTyped ==
  ASSUME TypeOK, NEW W \in SUBSET Workers, Return(W)
  PROVE  /\ pc' \in [Workers -> {"idle", "gate", "stamp", "list", "get", "delete"}]
         /\ cutoff' \in [Workers -> Nat]
         /\ DOMAIN listed' = Workers
         /\ \A w \in Workers :
              DOMAIN listed'[w] \subseteq Batches /\ listed'[w] \in [DOMAIN listed'[w] -> Nat]
         /\ todo' \in [Workers -> [Categories -> SUBSET Batches]]
         /\ target' \in [Workers -> SUBSET Batches]
         /\ stopped' \in [Workers -> SUBSET {"missing", "error"}]
  BY DEF TypeOK, Return, NothingListed, NothingToDo

LEMMA TypeNext == TypeOK /\ [Next]_vars => TypeOK'
<1> SUFFICES ASSUME TypeOK, [Next]_vars PROVE TypeOK'
  OBVIOUS
<1> USE DEF TypeOK
<1>1. ASSUME NEW w \in Workers, Trigger(w) \/ PassGate(w) PROVE TypeOK'
  BY <1>1 DEF Trigger, PassGate, clusterVars
<1>2. ASSUME NEW w \in Workers, SkipCleanup(w) \/ GiveUp(w) \/ EndCleanup(w) PROVE TypeOK'
  BY <1>2, ReturnTyped DEF SkipCleanup, GiveUp, EndCleanup, clusterVars
<1>3. ASSUME NEW w \in Workers, Stamp(w) PROVE TypeOK'
  BY <1>3 DEF Stamp, clusterVars
<1>4. ASSUME NEW w \in Workers, List(w) PROVE TypeOK'
  BY <1>4 DEF List, clusterVars, Excess, Old
<1>5. ASSUME NEW w \in Workers, NEW i \in Categories, NEW b \in Batches, Get(w, i, b) PROVE TypeOK'
  BY <1>5 DEF Get, clusterVars
<1>6. ASSUME NEW w \in Workers, NEW i \in Categories, NEW b \in Batches,
             GetMissing(w, i, b) \/ CallFails(w, i, b)
      PROVE  TypeOK'
  <2>1. PICK why \in {"missing", "error"} : Abandon(w, i, why)
    BY <1>6 DEF GetMissing, CallFails
  <2>2. todo' \in [Workers -> [Categories -> SUBSET Batches]]
    BY <2>1 DEF Abandon
  <2>3. stopped' \in [Workers -> SUBSET {"missing", "error"}]
    BY <2>1 DEF Abandon
  <2> QED BY <2>1, <2>2, <2>3 DEF Abandon, clusterVars
<1>7. ASSUME NEW w \in Workers, NEW i \in Categories, NEW b \in Batches, Delete(w, i, b) PROVE TypeOK'
  BY <1>7 DEF Delete
<1>8. ASSUME NEW b \in Batches, Complete(b) PROVE TypeOK'
  BY <1>8 DEF Complete, workerVars
<1>9. ASSUME NEW b \in Batches, Restart(b) PROVE TypeOK'
  BY <1>9 DEF Restart, workerVars
<1>13. ASSUME NEW b \in Batches, UserDelete(b) PROVE TypeOK'
  BY <1>13 DEF UserDelete, workerVars
<1>10. CASE Crash
  BY <1>10, ReturnTyped DEF Crash, clusterVars
<1>11. CASE Tick
  BY <1>11 DEF Tick, clusterVars, workerVars
<1>12. CASE UNCHANGED vars
  BY <1>12 DEF vars, clusterVars, workerVars
<1> QED BY <1>1, <1>2, <1>3, <1>4, <1>5, <1>6, <1>7, <1>8, <1>9, <1>10, <1>11, <1>12, <1>13 DEF Next, Cleanup

\* The type invariant holds in every reachable state.
THEOREM TypeCorrect == Spec => []TypeOK
  BY TypeInit, TypeNext, PTL DEF Spec

(***************************************************************************)
(* The inductive invariant.                                                *)
(***************************************************************************)
LEMMA IndInvInit == Init => IndInv
  BY TypeInit
  DEF Init, IndInv, TypeOK, OutcomeFollowsState, SweptAreGone, DoomedAreKept, ListedAreOld, Doomed,
      NothingToDo

\* A step that deletes nothing and lists nothing new.
NothingNew ==
  /\ UNCHANGED clusterVars
  /\ \A w \in Workers : /\ cutoff'[w] <= now'
                        /\ \A i \in Categories :
                             /\ todo'[w][i] \subseteq todo[w][i]
                             /\ todo'[w][i] # {} => cutoff'[w] >= cutoff[w]

LEMMA IndInvIdle ==
  ASSUME IndInv, TypeOK', NothingNew
  PROVE  IndInv'
<1> USE DEF IndInv, NothingNew, clusterVars
<1>1. OutcomeFollowsState' /\ SweptAreGone'
  BY DEF OutcomeFollowsState, SweptAreGone
<1>2. Doomed' \subseteq Doomed
  BY DEF Doomed
<1>3. \A b : Kept(b)' = Kept(b)
  BY DEF Kept, Counted, Newer
<1>4. DoomedAreKept'
  BY <1>2, <1>3 DEF DoomedAreKept
<1>5. ListedAreOld'
  <2> SUFFICES ASSUME NEW w \in Workers, NEW i \in Categories, NEW b \in todo'[w][i] \ restarted'
               PROVE  at'[b] + MinAge < cutoff'[w]
    BY DEF ListedAreOld
  <2>1. b \in Batches /\ b \in todo[w][i] \ restarted /\ cutoff'[w] >= cutoff[w]
    BY DEF TypeOK
  <2>2. at[b] + MinAge < cutoff[w]
    BY <2>1 DEF ListedAreOld
  <2> QED BY <2>1, <2>2 DEF TypeOK
<1> QED BY <1>1, <1>4, <1>5

\* What a cleanup lists as excess has Limit newer batches at that moment.
LEMMA IndInvList ==
  ASSUME IndInv, TypeOK', NEW w \in Workers, List(w)
  PROVE  IndInv'
<1> USE DEF IndInv, clusterVars
<1>1. /\ UNCHANGED <<now, state, outcome, at, swept, restarted, cutoff>>
      /\ \A v \in Workers, i \in Categories :
           todo'[v][i] = IF v = w THEN Excess(Old(i, cutoff[w])) ELSE todo[v][i]
  BY DEF List, TypeOK
<1>2. OutcomeFollowsState' /\ SweptAreGone'
  BY <1>1 DEF OutcomeFollowsState, SweptAreGone
<1>3. \A b : Kept(b)' = Kept(b)
  BY <1>1 DEF Kept, Counted, Newer
<1>4. ASSUME NEW i \in Categories, NEW b \in Excess(Old(i, cutoff[w]))
      PROVE  /\ state[b] = "completed" /\ at[b] + MinAge < cutoff[w]
             /\ Kept(b)
  <2> DEFINE B == Old(i, cutoff[w])
             After == {a \in B : Before(at, b, a)}
  <2>1. b \in B /\ Cardinality(After) >= Limit
    BY DEF Excess
  <2>2. \A a \in B : /\ a \in Batches /\ state[a] = "completed" /\ at[a] + MinAge < cutoff[w]
                     /\ <<TypeOf[a], outcome[a]>> = Category[i]
    BY DEF Old, InCategory
  <2>3. outcome[b] # "none"
    BY <2>1, <2>2 DEF OutcomeFollowsState
  <2>4. After \subseteq Newer(b)
    <3>1. ASSUME NEW a \in After PROVE a \in Newer(b)
      <4>1. <<TypeOf[a], outcome[a]>> = <<TypeOf[b], outcome[b]>> /\ a \in Batches /\ Before(at, b, a)
        BY <2>1, <2>2
      <4> QED BY <2>3, <4>1 DEF Newer
    <3> QED BY <3>1
  <2>5. After \cap swept = {}
    BY <2>2 DEF SweptAreGone
  <2>6. After \subseteq Counted(b)
    BY <2>4, <2>5 DEF Counted
  <2>7. Counted(b) \in SUBSET Batches
    BY <2>1, <2>2, CountedTyped
  <2>8. Cardinality(Counted(b)) >= Limit
    BY <2>1, <2>6, <2>7, Larger
  <2> QED BY <2>1, <2>2, <2>3, <2>8 DEF Kept
<1>5. \A b \in Doomed' : b \in Doomed \/ \E i \in Categories : b \in Excess(Old(i, cutoff[w]))
  BY <1>1 DEF Doomed
<1>6. DoomedAreKept'
  BY <1>1, <1>3, <1>4, <1>5 DEF DoomedAreKept
<1>7. ListedAreOld'
  BY <1>1, <1>4 DEF ListedAreOld
<1> QED BY <1>2, <1>6, <1>7

LEMMA IndInvDelete ==
  ASSUME IndInv, TypeOK', NEW w \in Workers, NEW i \in Categories, NEW c \in Batches, Delete(w, i, c)
  PROVE  IndInv'
<1> USE DEF IndInv
<1>1. /\ UNCHANGED <<now, outcome, at, restarted, cutoff>>
      /\ swept' \in {swept, swept \cup {c}}
      /\ c \in todo[w][i]
      /\ state' = [state EXCEPT ![c] = "gone"]
      /\ \A v \in Workers, k \in Categories : todo'[v][k] \subseteq todo[v][k]
  BY DEF Delete, Current, TypeOK
<1>2. c \in Doomed /\ Doomed' \subseteq Doomed
  BY <1>1 DEF Doomed
<1>3. OutcomeFollowsState' /\ SweptAreGone'
  BY <1>1 DEF OutcomeFollowsState, SweptAreGone, TypeOK
<1>4. DoomedAreKept'
  <2> SUFFICES ASSUME NEW b \in Doomed' \ restarted' PROVE state'[b] # "open" /\ Kept(b)'
    BY DEF DoomedAreKept
  <2>1. b \in Doomed \ restarted /\ b \in Batches
    BY <1>1, <1>2, DoomedTyped
  <2>2. Kept(b)'
    BY <1>1, <1>2, <2>1, KeptWhenSwept
  <2> QED BY <1>1, <2>1, <2>2 DEF DoomedAreKept, TypeOK
<1>5. ListedAreOld'
  BY <1>1 DEF ListedAreOld
<1> QED BY <1>3, <1>4, <1>5

\* Operator and users: what they do to batch a leaves the count of the others.
LEMMA IndInvSurroundings ==
  ASSUME IndInv, TypeOK', NEW a \in Batches, Complete(a) \/ Restart(a) \/ UserDelete(a)
  PROVE  IndInv'
<1> USE DEF IndInv
<1>1. /\ UNCHANGED <<now, swept, cutoff, todo>>
      /\ restarted \subseteq restarted'
      /\ \A b \in Batches \ {a} : /\ state'[b] = state[b] /\ outcome'[b] = outcome[b]
                                  /\ at'[b] = at[b]
  BY DEF Complete, Restart, UserDelete, workerVars, TypeOK
<1>2. OutcomeFollowsState'
  BY <1>1 DEF OutcomeFollowsState, Complete, Restart, UserDelete, TypeOK, HistoryAssumption
<1>3. SweptAreGone'
  BY <1>1 DEF SweptAreGone, TypeOK, Complete, Restart, UserDelete
<1>4. ASSUME NEW b \in Doomed \ restarted'
      PROVE  state'[b] # "open" /\ Kept(b)' /\ at'[b] = at[b]
  <2>1. b \in Batches /\ b \in Doomed \ restarted /\ state[b] # "open" /\ Kept(b) /\ outcome[b] # "none"
    BY <1>1, DoomedTyped DEF DoomedAreKept, Kept
  <2>2. outcome'[b] = outcome[b] /\ state'[b] # "open" /\ at'[b] = at[b]
    BY <1>1, <1>4, <2>1 DEF Complete, Restart, UserDelete, TypeOK
  <2>3. ASSUME NEW d \in Newer(b) PROVE d \in Newer(b)' \/ d \in restarted'
    <3>1. d \in Batches /\ outcome[d] = outcome[b] /\ TypeOf[d] = TypeOf[b] /\ Before(at, b, d)
      BY DEF Newer
    <3>2. CASE Restart(a) /\ d = a
      BY <3>2 DEF Restart
    <3>3. CASE ~(Restart(a) /\ d = a)
      <4>1. outcome'[d] = outcome[d] /\ at'[d] = at[d]
        BY <1>1, <2>1, <3>1, <3>3 DEF Complete, UserDelete, OutcomeFollowsState
      <4> QED BY <2>1, <2>2, <3>1, <4>1 DEF Newer, Before
    <3> QED BY <3>2, <3>3
  <2>4. Counted(b) \subseteq Counted(b)'
    <3>1. \A d \in Newer(b) : TypeOf[d] = TypeOf[b]
      BY DEF Newer
    <3> QED BY <1>1, <2>3, <3>1 DEF Counted
  <2> QED BY <2>1, <2>2, <2>4, KeptWhenCounted
<1>5. Doomed' = Doomed
  BY <1>1 DEF Doomed
<1>6. DoomedAreKept'
  BY <1>4, <1>5 DEF DoomedAreKept
<1>7. ListedAreOld'
  <2>1. \A v \in Workers, i \in Categories : todo[v][i] \subseteq Doomed
    BY DEF Doomed
  <2> QED BY <1>1, <1>4, <2>1 DEF ListedAreOld
<1> QED BY <1>2, <1>3, <1>6, <1>7

LEMMA IndInvNext == IndInv /\ [Next]_vars => IndInv'
<1> SUFFICES ASSUME IndInv, [Next]_vars PROVE IndInv'
  OBVIOUS
<1>0. TypeOK /\ TypeOK' /\ ListedAreOld
  BY TypeNext DEF IndInv
<1>a. \A w \in Workers : cutoff[w] \in Nat /\ cutoff[w] <= now /\ now \in Nat
  BY <1>0 DEF TypeOK, ListedAreOld
<1>1. ASSUME NEW w \in Workers, Trigger(w) \/ PassGate(w) PROVE IndInv'
  <2>1. NothingNew
    BY <1>a, <1>1 DEF NothingNew, clusterVars, Trigger, PassGate
  <2> QED BY <1>0, <2>1, IndInvIdle
<1>2. ASSUME NEW W \in SUBSET Workers, Return(W), UNCHANGED <<now, clusterVars>> PROVE IndInv'
  <2>1. NothingNew
    BY <1>a, <1>2 DEF NothingNew, clusterVars, Return, NothingToDo
  <2> QED BY <1>0, <2>1, IndInvIdle
<1>3. ASSUME NEW w \in Workers, SkipCleanup(w) \/ GiveUp(w) \/ EndCleanup(w) PROVE IndInv'
  BY <1>2, <1>3 DEF SkipCleanup, GiveUp, EndCleanup
<1>4. ASSUME NEW w \in Workers, Stamp(w) PROVE IndInv'
  <2>1. NothingNew
    BY <1>0, <1>a, <1>4 DEF NothingNew, clusterVars, Stamp, TypeOK
  <2> QED BY <1>0, <2>1, IndInvIdle
<1>5. ASSUME NEW w \in Workers, List(w) PROVE IndInv'
  BY <1>0, <1>5, IndInvList
<1>6. ASSUME NEW w \in Workers, NEW i \in Categories, NEW b \in Batches,
             Get(w, i, b) \/ GetMissing(w, i, b) \/ CallFails(w, i, b)
      PROVE  IndInv'
  <2>1. UNCHANGED <<now, clusterVars, cutoff>>
    BY <1>6 DEF Get, GetMissing, CallFails, Abandon
  <2>2. todo' \in {todo, [todo EXCEPT ![w][i] = {}]}
    BY <1>6 DEF Get, GetMissing, CallFails, Abandon
  <2>3. ASSUME NEW v \in Workers, NEW k \in Categories PROVE todo'[v][k] \subseteq todo[v][k]
    <3>1. todo \in [Workers -> [Categories -> SUBSET Batches]]
      BY <1>0 DEF TypeOK
    <3>2. CASE todo' = [todo EXCEPT ![w][i] = {}]
      <4>1. todo'[v] = IF v = w THEN [todo[w] EXCEPT ![i] = {}] ELSE todo[v]
        BY <3>1, <3>2
      <4> QED BY <3>1, <4>1
    <3> QED BY <2>2, <3>2
  <2>4. NothingNew
    BY <1>a, <2>1, <2>3 DEF NothingNew, clusterVars
  <2> QED BY <1>0, <2>4, IndInvIdle
<1>7. ASSUME NEW w \in Workers, NEW i \in Categories, NEW b \in Batches, Delete(w, i, b) PROVE IndInv'
  BY <1>0, <1>7, IndInvDelete
<1>8. ASSUME NEW b \in Batches, Complete(b) \/ Restart(b) \/ UserDelete(b) PROVE IndInv'
  BY <1>0, <1>8, IndInvSurroundings
<1>9. CASE Crash
  BY <1>2, <1>9 DEF Crash
<1>10. CASE Tick
  <2>1. NothingNew
    BY <1>a, <1>10 DEF NothingNew, clusterVars, Tick, workerVars
  <2> QED BY <1>0, <2>1, IndInvIdle
<1>11. CASE UNCHANGED vars
  <2>1. NothingNew
    BY <1>a, <1>11 DEF NothingNew, clusterVars, vars, workerVars
  <2> QED BY <1>0, <2>1, IndInvIdle
<1> QED BY <1>1, <1>3, <1>4, <1>5, <1>6, <1>7, <1>8, <1>9, <1>10, <1>11 DEF Next, Cleanup

LEMMA Invariance == Spec => []IndInv
  BY IndInvInit, IndInvNext, PTL DEF Spec

\* However many cleanups overlap, whatever each has listed and wherever they
\* crash, Limit batches of its category that are newer survive every batch that
\* cleanups have deleted.
THEOREM HistorySafe == Spec => []HistoryKept
<1>1. IndInv => HistoryKept
  BY DEF IndInv, DoomedAreKept, Doomed, Kept, Counted, HistoryKept
<1> QED BY <1>1, Invariance, PTL

\* No cleanup deletes a batch that has not completed, or only just has, unless it
\* was restarted after it was listed.
THEOREM OnlyOldDeleted == Spec => OnlyOldHistoryDeleted
<1> DEFINE A == \A b \in swept' \ swept :
                  b \in restarted \/ (state[b] = "completed" /\ at[b] + MinAge < now)
<1>1. IndInv /\ [Next]_vars => [A]_vars
  <2> SUFFICES ASSUME IndInv, [Next]_vars, NEW b \in swept' \ swept, b \notin restarted
               PROVE  state[b] = "completed" /\ at[b] + MinAge < now
    OBVIOUS
  <2>a. ASSUME UNCHANGED swept PROVE FALSE
    BY <2>a
  <2>b. ASSUME NEW w \in Workers,
               \/ Trigger(w) \/ SkipCleanup(w) \/ PassGate(w) \/ Stamp(w) \/ List(w)
               \/ GiveUp(w) \/ EndCleanup(w)
        PROVE  FALSE
    BY <2>a, <2>b DEF Trigger, SkipCleanup, PassGate, Stamp, List, GiveUp, EndCleanup, clusterVars
  <2>c. ASSUME NEW w \in Workers, NEW i \in Categories, NEW c \in Batches,
               Get(w, i, c) \/ GetMissing(w, i, c) \/ CallFails(w, i, c)
        PROVE  FALSE
    BY <2>a, <2>c DEF Get, GetMissing, CallFails, Abandon, clusterVars
  <2>d. ASSUME NEW c \in Batches, Complete(c) \/ Restart(c) \/ UserDelete(c) PROVE FALSE
    BY <2>a, <2>d DEF Complete, Restart, UserDelete
  <2>e. ASSUME Crash \/ Tick \/ UNCHANGED vars PROVE FALSE
    BY <2>a, <2>e DEF Crash, Tick, vars, clusterVars
  <2>f. PICK w \in Workers, i \in Categories, c \in Batches : Delete(w, i, c)
    BY <2>b, <2>c, <2>d, <2>e DEF Next, Cleanup
  <2>1. Delete(w, i, b)
    BY <2>f DEF Delete
  <2>2. b \in todo[w][i] \ restarted /\ state[b] # "gone" /\ b \in Doomed
    BY <2>1 DEF Delete, Current, Exists, Doomed
  <2>3. b \in Batches /\ state[b] # "open"
    BY <2>2, DoomedTyped DEF IndInv, DoomedAreKept
  <2>4. at[b] + MinAge < cutoff[w] /\ cutoff[w] <= now
    BY <2>2 DEF IndInv, ListedAreOld
  <2> QED BY <2>2, <2>3, <2>4 DEF IndInv, TypeOK
<1> QED BY <1>1, Invariance, PTL DEF Spec, OnlyOldHistoryDeleted

(***************************************************************************)
(* What a cleanup leaves behind.                                           *)
(***************************************************************************)
LEMMA Smaller ==
  ASSUME NEW S \in SUBSET Batches, NEW T \in SUBSET S, Cardinality(S) <= Limit
  PROVE  Cardinality(T) <= Limit
<1>1. IsFiniteSet(S)
  BY FS_Subset
<1>2. IsFiniteSet(T) /\ Cardinality(T) <= Cardinality(S)
  BY <1>1, FS_Subset
<1>3. Cardinality(S) \in Nat /\ Cardinality(T) \in Nat
  BY <1>1, <1>2, FS_CardinalityType
<1> QED BY <1>2, <1>3

\* Of a set of batches one completed first: it is the one for which the set of
\* those that did not complete after it is smallest.
LEMMA OldestExists ==
  ASSUME TypeOK, NEW N \in SUBSET Batches, N # {}
  PROVE  \E m \in N : \A a \in N \ {m} : Before(at, m, a)
<1> DEFINE NotAfter(b) == {a \in N : ~Before(at, b, a)}
           T == {NotAfter(b) : b \in N}
<1>1. IsFiniteSet(N)
  BY FS_Subset
<1>2. T \subseteq FiniteSubsetsOf(N) /\ T # {}
  <2>1. \A b \in N : NotAfter(b) \in SUBSET N /\ IsFiniteSet(NotAfter(b))
    BY <1>1, FS_Subset
  <2> HIDE DEF NotAfter
  <2> QED BY <2>1 DEF FiniteSubsetsOf
<1>3. IsWellFoundedOn(StrictSubsetOrdering(N), FiniteSubsetsOf(N))
  BY FS_StrictSubsetOrderingWellFounded
<1>4. PICK X \in T : \A Y \in T : <<Y, X>> \notin StrictSubsetOrdering(N)
  BY <1>2, <1>3, WFMin
<1>5. PICK m \in N : X = NotAfter(m)
  OBVIOUS
<1>6. ASSUME NEW c \in N PROVE ~Before(at, c, m)
  <2> SUFFICES ASSUME Before(at, c, m) PROVE FALSE
    OBVIOUS
  <2>1. \A a \in N : Before(at, m, a) => Before(at, c, a)
    BY DEF Before, TypeOK
  <2>2. ~Before(at, m, m)
    BY DEF Before, TypeOK
  <2>3. NotAfter(c) \subseteq NotAfter(m) /\ m \in NotAfter(m) /\ m \notin NotAfter(c)
    BY <2>1, <2>2
  <2>4. NotAfter(c) \in T
    OBVIOUS
  <2>5. NotAfter(c) \in SUBSET N /\ NotAfter(m) \in SUBSET N
    OBVIOUS
  <2> HIDE DEF NotAfter, T
  <2>6. <<NotAfter(c), NotAfter(m)>> \in StrictSubsetOrdering(N)
    BY <2>3, <2>5 DEF StrictSubsetOrdering
  <2> QED BY <1>4, <1>5, <2>4, <2>6
<1>7. ASSUME NEW a \in N \ {m} PROVE Before(at, m, a) \/ Before(at, a, m)
  <2>1. a \in Batches /\ m \in Batches /\ a # m
    OBVIOUS
  <2>2. /\ at[a] \in Nat /\ at[m] \in Nat
        /\ Rank[a] \in Nat /\ Rank[m] \in Nat /\ Rank[a] # Rank[m]
    BY <2>1 DEF TypeOK
  <2> QED BY <2>2 DEF Before
<1> HIDE DEF NotAfter, T
<1> QED BY <1>6, <1>7

\* What is not in excess are at most Limit batches.
LEMMA NotInExcess ==
  ASSUME TypeOK, NEW B \in SUBSET Batches
  PROVE  Cardinality(B \ Excess(B)) <= Limit
<1> DEFINE N == B \ Excess(B)
           After(b) == {a \in B : Before(at, b, a)}
<1>1. IsFiniteSet(B) /\ IsFiniteSet(N)
  BY FS_Subset
<1>2. CASE N = {}
  BY <1>2, FS_EmptySet
<1>3. CASE N # {}
  <2>1. PICK m \in N : \A a \in N \ {m} : Before(at, m, a)
    BY <1>3, OldestExists
  <2>2. ~(Cardinality(After(m)) >= Limit)
    <3>1. m \in B /\ m \notin Excess(B)
      BY <2>1
    <3> QED BY <3>1 DEF Excess
  <2>3. IsFiniteSet(After(m)) /\ N \ {m} \subseteq After(m)
    BY <1>1, <2>1, FS_Subset
  <2> HIDE DEF After, N
  <2>4. /\ Cardinality(N \ {m}) <= Cardinality(After(m))
        /\ Cardinality(N \ {m}) \in Nat /\ Cardinality(After(m)) \in Nat
    BY <2>3, FS_Subset, FS_CardinalityType
  <2>5. Cardinality(N) = Cardinality(N \ {m}) + 1
    <3>1. Cardinality(N \ {m}) = Cardinality(N) - 1 /\ Cardinality(N) \in Nat
      BY <1>1, <2>1, FS_RemoveElement, FS_CardinalityType
    <3> QED BY <3>1
  <2> QED BY <2>2, <2>4, <2>5 DEF N
<1> QED BY <1>2, <1>3

\* What a cleanup under way will leave of a category, if nothing more fails.
Left(w, i) == Remaining(w, i) \ todo[w][i]

Deleting(w) == pc[w] \in {"get", "delete"}

\* A batch that was listed had completed.
ListedCompleted(w) == \A b \in DOMAIN listed[w] : state[b] = "open" => b \in restarted

LeavesLimit(w) ==
  Deleting(w) =>
    /\ ListedCompleted(w)
    /\ stopped[w] = {} => \A i \in Categories : Cardinality(Left(w, i)) <= Limit

LEMMA RemainingTyped ==
  ASSUME NEW w \in Workers, NEW i \in Categories
  PROVE  Left(w, i) \in SUBSET Batches /\ Old(i, cutoff[w]) \in SUBSET Batches
  BY DEF Left, Remaining, Old

\* A step in which the batches change as they do, and w itself does nothing but
\* delete what it had to.
LEMMA LeftShrinks ==
  ASSUME TypeOK, NEW w \in Workers, LeavesLimit(w), Deleting(w),
         UNCHANGED <<cutoff[w], listed[w]>>,
         stopped'[w] = {} => stopped[w] = {},
         restarted \subseteq restarted',
         \A b \in DOMAIN listed[w] :
           \/ b \in restarted'
           \/ state'[b] = "gone"
           \/ UNCHANGED <<state[b], outcome[b], at[b]>>,
         stopped'[w] = {} => \A i \in Categories : \A b \in todo[w][i] \ todo'[w][i] : state'[b] = "gone"
  PROVE  LeavesLimit(w)'
<1>1. ListedCompleted(w)'
  BY DEF LeavesLimit, ListedCompleted
<1>2. ASSUME stopped'[w] = {}, NEW i \in Categories PROVE Cardinality(Left(w, i)') <= Limit
  <2>1. ASSUME NEW b \in Left(w, i)' PROVE b \in Left(w, i)
    <3>1. /\ b \in Batches /\ b \in DOMAIN listed[w] /\ b \notin restarted' /\ b \notin todo'[w][i]
          /\ state'[b] = "completed"
          /\ <<TypeOf[b], outcome'[b]>> = Category[i]
          /\ at'[b] + MinAge < cutoff'[w]
      BY <2>1 DEF Left, Remaining, Old, InCategory, Category
    <3>2. UNCHANGED <<state[b], outcome[b], at[b]>> /\ b \notin restarted
      BY <3>1
    <3>3. b \in Old(i, cutoff[w])
      BY <3>1, <3>2 DEF Old, InCategory
    <3>4. b \notin todo[w][i]
      BY <1>2, <3>1
    <3> QED BY <3>1, <3>2, <3>3, <3>4 DEF Left, Remaining
  <2>2. Cardinality(Left(w, i)) <= Limit
    BY <1>2 DEF LeavesLimit
  <2>3. Left(w, i)' \in SUBSET Left(w, i)
    BY <2>1
  <2> QED BY <2>2, <2>3, RemainingTyped, Smaller
<1> QED BY <1>1, <1>2 DEF LeavesLimit

LEMMA LeavesLimitNext ==
  ASSUME TypeOK, NEW w \in Workers, LeavesLimit(w), [Next]_vars
  PROVE  LeavesLimit(w)'
<1> SUFFICES ASSUME Deleting(w)' PROVE LeavesLimit(w)'
  BY DEF LeavesLimit
<1> DEFINE Still(v) == UNCHANGED <<pc[v], cutoff[v], listed[v], todo[v], stopped[v]>>
<1>1. CASE Still(w) /\ UNCHANGED clusterVars
  BY <1>1, LeftShrinks DEF Deleting, clusterVars
<1>2. ASSUME NEW v \in Workers, Trigger(v) \/ PassGate(v) \/ Stamp(v) PROVE LeavesLimit(w)'
  <2>1. v # w
    BY <1>2 DEF Trigger, PassGate, Stamp, Deleting, TypeOK
  <2>2. Still(w) /\ UNCHANGED clusterVars
    BY <1>2, <2>1 DEF Trigger, PassGate, Stamp, TypeOK
  <2> QED BY <1>1, <2>2
<1>3. ASSUME NEW W \in SUBSET Workers, Return(W), UNCHANGED clusterVars PROVE LeavesLimit(w)'
  <2>1. w \notin W
    BY <1>3 DEF Return, Deleting
  <2>2. Still(w)
    BY <1>3, <2>1 DEF Return
  <2> QED BY <1>1, <1>3, <2>2
<1>4. CASE Crash \/ \E v \in Workers : SkipCleanup(v) \/ GiveUp(v) \/ EndCleanup(v)
  BY <1>3, <1>4 DEF Crash, SkipCleanup, GiveUp, EndCleanup
<1>5. ASSUME NEW v \in Workers, List(v), v # w PROVE LeavesLimit(w)'
  <2>1. Still(w) /\ UNCHANGED clusterVars
    BY <1>5 DEF List, TypeOK
  <2> QED BY <1>1, <2>1
<1>6. CASE List(w)
  <2>1. /\ UNCHANGED <<state, outcome, at, restarted, cutoff>>
        /\ DOMAIN listed'[w] = {a \in Batches : state[a] = "completed"}
        /\ \A i \in Categories : todo'[w][i] = Excess(Old(i, cutoff[w]))
    BY <1>6 DEF List, clusterVars, TypeOK
  <2>2. ListedCompleted(w)'
    BY <2>1 DEF ListedCompleted
  <2>3. ASSUME NEW i \in Categories PROVE Cardinality(Left(w, i)') <= Limit
    <3> DEFINE B == Old(i, cutoff[w])
    <3>1. Left(w, i)' \in SUBSET (B \ Excess(B)) /\ B \ Excess(B) \in SUBSET Batches
      BY <2>1 DEF Left, Remaining, Old, InCategory
    <3>2. Cardinality(B \ Excess(B)) <= Limit
      BY RemainingTyped, NotInExcess
    <3> HIDE DEF B
    <3> QED BY <3>1, <3>2, Smaller
  <2> QED BY <2>2, <2>3 DEF LeavesLimit
<1>7. ASSUME NEW v \in Workers, NEW i \in Categories, NEW b \in Batches, Get(v, i, b)
      PROVE  LeavesLimit(w)'
  <2>1. UNCHANGED <<clusterVars, cutoff, listed, todo, stopped>> /\ Deleting(w)
    BY <1>7 DEF Get, Deleting, TypeOK
  <2> QED BY <2>1, LeftShrinks DEF clusterVars
<1>8. ASSUME NEW v \in Workers, NEW i \in Categories, NEW b \in Batches, NEW why, Abandon(v, i, why),
             Deleting(v), UNCHANGED clusterVars
      PROVE  LeavesLimit(w)'
  <2>1. CASE v # w
    <3>1. Still(w)
      BY <1>8, <2>1 DEF Abandon, TypeOK
    <3> QED BY <1>1, <1>8, <3>1
  <2>2. CASE v = w
    <3>1. stopped'[w] # {} /\ UNCHANGED <<cutoff, listed>>
      BY <1>8, <2>2 DEF Abandon, TypeOK
    <3> QED BY <1>8, <2>2, <3>1, LeftShrinks DEF clusterVars
  <2> QED BY <2>1, <2>2
<1>9. ASSUME NEW v \in Workers, NEW i \in Categories, NEW b \in Batches,
             GetMissing(v, i, b) \/ CallFails(v, i, b)
      PROVE  LeavesLimit(w)'
  <2>1. Deleting(v) /\ UNCHANGED clusterVars /\ \E why : Abandon(v, i, why)
    BY <1>9 DEF GetMissing, CallFails, Abandon, Deleting
  <2> QED BY <1>8, <2>1
<1>10. ASSUME NEW v \in Workers, NEW i \in Categories, NEW b \in Batches, Delete(v, i, b)
      PROVE  LeavesLimit(w)'
  <2>1. /\ UNCHANGED <<outcome, at, restarted, cutoff, listed, stopped>> /\ Deleting(w)
        /\ \A a \in Batches : state'[a] = IF a = b THEN "gone" ELSE state[a]
    BY <1>10 DEF Delete, Deleting, TypeOK
  <2>2. \A k \in Categories : todo[w][k] \ todo'[w][k] \subseteq {b}
    <3>1. todo'[w] = IF v = w THEN [todo[w] EXCEPT ![i] = @ \ {b}] ELSE todo[w]
      BY <1>10 DEF Delete, TypeOK
    <3>2. todo[w] \in [Categories -> SUBSET Batches]
      BY DEF TypeOK
    <3> QED BY <3>1, <3>2
  <2>3. DOMAIN listed[w] \subseteq Batches
    BY DEF TypeOK
  <2> QED BY <2>1, <2>2, <2>3, LeftShrinks
<1>11. ASSUME NEW b \in Batches, Complete(b) \/ Restart(b) \/ UserDelete(b) PROVE LeavesLimit(w)'
  <2>1. /\ UNCHANGED workerVars /\ Deleting(w) /\ restarted \subseteq restarted'
        /\ \A a \in Batches \ {b} : UNCHANGED <<state[a], outcome[a], at[a]>>
    BY <1>11 DEF Complete, Restart, UserDelete, Deleting, workerVars, TypeOK
  <2>2. b \in DOMAIN listed[w] => b \in restarted' \/ state'[b] = "gone"
    BY <1>11, <2>1 DEF Complete, Restart, UserDelete, LeavesLimit, ListedCompleted, TypeOK
  <2>3. DOMAIN listed[w] \subseteq Batches
    BY DEF TypeOK
  <2> QED BY <2>1, <2>2, <2>3, LeftShrinks DEF workerVars
<1>12. CASE Tick \/ UNCHANGED vars
  BY <1>1, <1>12 DEF Tick, vars, workerVars
<1> QED BY <1>2, <1>4, <1>5, <1>6, <1>7, <1>9, <1>10, <1>11, <1>12 DEF Next, Cleanup

\* A cleanup that meets no error leaves at most Limit old batches of a category,
\* however many batches there are and whatever others do to them meanwhile.
THEOREM ExcessGone == Spec => ExcessRemoved
<1> DEFINE AllLeave == \A w \in Workers : LeavesLimit(w)
           A == \A w \in Workers : EndCleanup(w) /\ stopped[w] = {} =>
                  \A i \in Categories : Cardinality(Remaining(w, i)) <= Limit
<1>1. Init => AllLeave
  BY DEF Init, LeavesLimit, Deleting
<1>2. TypeOK /\ AllLeave /\ [Next]_vars => AllLeave'
  BY LeavesLimitNext
<1>3. AllLeave => [A]_vars
  <2> SUFFICES ASSUME AllLeave, NEW w \in Workers, EndCleanup(w), stopped[w] = {},
                      NEW i \in Categories
               PROVE  Cardinality(Remaining(w, i)) <= Limit
    OBVIOUS
  <2>1. Cardinality(Left(w, i)) <= Limit
    BY DEF EndCleanup, LeavesLimit, Deleting
  <2>2. Left(w, i) = Remaining(w, i)
    BY DEF EndCleanup, Left, NothingToDo
  <2> QED BY <2>1, <2>2
<1> HIDE DEF AllLeave
<1> QED BY <1>1, <1>2, <1>3, TypeCorrect, PTL DEF Spec, ExcessRemoved

(***************************************************************************)
(* The order of deletion.                                                  *)
(***************************************************************************)
\* What a cleanup has still to delete of a category comes after all that is no
\* longer to be deleted and still there; and the times it goes by are the times
\* of completion.
InOrder(w) ==
  Deleting(w) =>
    /\ ListedCompleted(w)
    /\ \A b \in DOMAIN listed[w] \ restarted : listed[w][b] = at[b]
    /\ \A i \in Categories :
         /\ todo[w][i] \subseteq DOMAIN listed[w]
         /\ \A b \in todo[w][i] \ restarted, a \in DOMAIN listed[w] \ restarted :
              Older(a, b) => a \in todo[w][i] \/ state[a] = "gone"

\* An older batch has all the newer ones that b has, so it is in excess if b is.
LEMMA OlderInExcess ==
  ASSUME TypeOK, NEW i \in Categories, NEW t \in Nat, NEW b \in Excess(Old(i, t)),
         NEW a \in Batches, state[a] = "completed", Older(a, b)
  PROVE  a \in Excess(Old(i, t))
<1> DEFINE B == Old(i, t)
           After(c) == {d \in B : Before(at, c, d)}
<1>1. b \in B /\ Cardinality(After(b)) >= Limit /\ B \in SUBSET Batches
  BY DEF Excess, Old
<1>2. /\ b \in Batches /\ <<TypeOf[b], outcome[b]>> = Category[i] /\ at[b] + MinAge < t
      /\ at[a] \in Nat /\ at[b] \in Nat
  BY <1>1 DEF Old, InCategory, TypeOK
<1>3. at[a] <= at[b] /\ <<TypeOf[a], outcome[a]>> = Category[i]
  BY <1>2 DEF Older, Before
<1>4. at[a] + MinAge < t
  BY <1>2, <1>3
<1>5. a \in B
  BY <1>3, <1>4 DEF Old, InCategory
<1>6. ASSUME NEW d \in After(b) PROVE d \in After(a)
  <2>1. d \in B /\ d \in Batches /\ Before(at, b, d) /\ Before(at, a, b)
    BY <1>1, <1>6 DEF Older
  <2>2. Before(at, a, d)
    BY <1>2, <2>1 DEF Before, TypeOK
  <2> QED BY <2>1, <2>2
<1>7. After(a) \in SUBSET Batches /\ After(b) \in SUBSET After(a)
  BY <1>1, <1>6
<1>8. Cardinality(After(a)) >= Limit
  <2> HIDE DEF After
  <2> QED BY <1>1, <1>7, Larger
<1> QED BY <1>5, <1>8 DEF Excess

LEMMA OrderStays ==
  ASSUME TypeOK, NEW w \in Workers, InOrder(w), Deleting(w),
         listed'[w] = listed[w],
         restarted \subseteq restarted',
         \A b \in DOMAIN listed[w] :
           \/ b \in restarted'
           \/ UNCHANGED <<outcome[b], at[b]>> /\ state'[b] \in {state[b], "gone"},
         \A i \in Categories : \/ todo'[w][i] = {}
                               \/ /\ todo'[w][i] \subseteq todo[w][i]
                                  /\ \A b \in todo[w][i] \ todo'[w][i] : state'[b] = "gone"
  PROVE  InOrder(w)'
<1>1. /\ ListedCompleted(w)'
      /\ \A b \in DOMAIN listed'[w] \ restarted' : listed'[w][b] = at'[b]
      /\ \A i \in Categories : todo'[w][i] \subseteq DOMAIN listed'[w]
  BY DEF InOrder, ListedCompleted
<1>2. ASSUME NEW i \in Categories, NEW b \in todo'[w][i] \ restarted',
             NEW a \in DOMAIN listed'[w] \ restarted', Older(a, b)'
      PROVE  a \in todo'[w][i] \/ state'[a] = "gone"
  <2>1. /\ b \in todo[w][i] \ restarted /\ b \in DOMAIN listed[w] /\ a \in DOMAIN listed[w] \ restarted
        /\ \A c \in todo[w][i] \ todo'[w][i] : state'[c] = "gone"
    BY <1>2 DEF InOrder
  <2>2. UNCHANGED <<outcome[a], at[a], outcome[b], at[b]>> /\ state'[a] \in {state[a], "gone"}
    BY <1>2, <2>1
  <2>3. Older(a, b)
    BY <1>2, <2>2 DEF Older, Before
  <2>4. a \in todo[w][i] \/ state[a] = "gone"
    BY <2>1, <2>3 DEF InOrder
  <2> QED BY <2>1, <2>2, <2>4
<1> QED BY <1>1, <1>2 DEF InOrder

LEMMA InOrderNext ==
  ASSUME TypeOK, NEW w \in Workers, InOrder(w), [Next]_vars
  PROVE  InOrder(w)'
<1> SUFFICES ASSUME Deleting(w)' PROVE InOrder(w)'
  BY DEF InOrder
<1> DEFINE Still(v) == UNCHANGED <<pc[v], listed[v], todo[v]>>
<1>1. CASE Still(w) /\ UNCHANGED clusterVars
  BY <1>1, OrderStays DEF Deleting, clusterVars
<1>2. ASSUME NEW v \in Workers, Trigger(v) \/ PassGate(v) \/ Stamp(v) PROVE InOrder(w)'
  <2>1. v # w
    BY <1>2 DEF Trigger, PassGate, Stamp, Deleting, TypeOK
  <2>2. Still(w) /\ UNCHANGED clusterVars
    BY <1>2, <2>1 DEF Trigger, PassGate, Stamp, TypeOK
  <2> QED BY <1>1, <2>2
<1>3. ASSUME NEW W \in SUBSET Workers, Return(W), UNCHANGED clusterVars PROVE InOrder(w)'
  <2>1. w \notin W
    BY <1>3 DEF Return, Deleting
  <2>2. Still(w)
    BY <1>3, <2>1 DEF Return
  <2> QED BY <1>1, <1>3, <2>2
<1>4. CASE Crash \/ \E v \in Workers : SkipCleanup(v) \/ GiveUp(v) \/ EndCleanup(v)
  BY <1>3, <1>4 DEF Crash, SkipCleanup, GiveUp, EndCleanup
<1>5. ASSUME NEW v \in Workers, List(v), v # w PROVE InOrder(w)'
  <2>1. Still(w) /\ UNCHANGED clusterVars
    BY <1>5 DEF List, TypeOK
  <2> QED BY <1>1, <2>1
<1>6. CASE List(w)
  <2>1. /\ UNCHANGED <<state, outcome, at, restarted, cutoff>>
        /\ DOMAIN listed'[w] = {a \in Batches : state[a] = "completed"}
        /\ \A b \in DOMAIN listed'[w] : listed'[w][b] = at[b]
        /\ \A i \in Categories : todo'[w][i] = Excess(Old(i, cutoff[w]))
    BY <1>6 DEF List, clusterVars, TypeOK
  <2>2. ListedCompleted(w)'
    BY <2>1 DEF ListedCompleted
  <2>3. \A i \in Categories : todo'[w][i] \subseteq DOMAIN listed'[w]
    <3>1. \A i, t : Excess(Old(i, t)) \subseteq {a \in Batches : state[a] = "completed"}
      BY DEF Excess, Old, InCategory
    <3> QED BY <2>1, <3>1
  <2>4. ASSUME NEW i \in Categories, NEW b \in todo'[w][i], NEW a \in DOMAIN listed'[w], Older(a, b)'
        PROVE  a \in todo'[w][i]
    <3>1. Older(a, b) /\ a \in Batches /\ state[a] = "completed" /\ cutoff[w] \in Nat
      BY <2>1, <2>4 DEF Older, Before, TypeOK
    <3> QED BY <2>1, <2>4, <3>1, OlderInExcess
  <2> QED BY <2>1, <2>2, <2>3, <2>4 DEF InOrder
<1>7. ASSUME NEW v \in Workers, NEW i \in Categories, NEW b \in Batches, Get(v, i, b)
      PROVE  InOrder(w)'
  <2>1. UNCHANGED <<clusterVars, listed, todo>> /\ Deleting(w)
    BY <1>7 DEF Get, Deleting, TypeOK
  <2> QED BY <2>1, OrderStays DEF clusterVars
<1>8. ASSUME NEW v \in Workers, NEW i \in Categories, NEW why, Abandon(v, i, why),
             Deleting(v), UNCHANGED clusterVars
      PROVE  InOrder(w)'
  <2>1. CASE v # w
    <3>1. Still(w)
      BY <1>8, <2>1 DEF Abandon, TypeOK
    <3> QED BY <1>1, <1>8, <3>1
  <2>2. CASE v = w
    <3>1. listed' = listed /\ \A k \in Categories : todo'[w][k] \in {{}, todo[w][k]}
      BY <1>8, <2>2 DEF Abandon, TypeOK
    <3> QED BY <1>8, <2>2, <3>1, OrderStays DEF clusterVars
  <2> QED BY <2>1, <2>2
<1>9. ASSUME NEW v \in Workers, NEW i \in Categories, NEW b \in Batches,
             GetMissing(v, i, b) \/ CallFails(v, i, b)
      PROVE  InOrder(w)'
  <2>1. Deleting(v) /\ UNCHANGED clusterVars /\ \E why : Abandon(v, i, why)
    BY <1>9 DEF GetMissing, CallFails, Abandon, Deleting
  <2> QED BY <1>8, <2>1
<1>10. ASSUME NEW v \in Workers, NEW i \in Categories, NEW b \in Batches, Delete(v, i, b)
      PROVE  InOrder(w)'
  <2>1. /\ UNCHANGED <<outcome, at, restarted, listed>> /\ Deleting(w)
        /\ \A a \in Batches : state'[a] = IF a = b THEN "gone" ELSE state[a]
    BY <1>10 DEF Delete, Deleting, TypeOK
  <2>2. \A k \in Categories : todo'[w][k] \subseteq todo[w][k] /\ todo[w][k] \ todo'[w][k] \subseteq {b}
    <3>1. todo'[w] = IF v = w THEN [todo[w] EXCEPT ![i] = @ \ {b}] ELSE todo[w]
      BY <1>10 DEF Delete, TypeOK
    <3>2. todo[w] \in [Categories -> SUBSET Batches]
      BY DEF TypeOK
    <3> QED BY <3>1, <3>2
  <2>3. DOMAIN listed[w] \subseteq Batches
    BY DEF TypeOK
  <2> QED BY <2>1, <2>2, <2>3, OrderStays
<1>11. ASSUME NEW b \in Batches, Complete(b) \/ Restart(b) \/ UserDelete(b) PROVE InOrder(w)'
  <2>1. /\ UNCHANGED workerVars /\ Deleting(w) /\ restarted \subseteq restarted'
        /\ \A a \in Batches \ {b} : UNCHANGED <<state[a], outcome[a], at[a]>>
    BY <1>11 DEF Complete, Restart, UserDelete, Deleting, workerVars, TypeOK
  <2>2. b \in DOMAIN listed[w] =>
          b \in restarted' \/ (UNCHANGED <<outcome[b], at[b]>> /\ state'[b] = "gone")
    BY <1>11, <2>1 DEF Complete, Restart, UserDelete, InOrder, ListedCompleted, TypeOK
  <2>3. DOMAIN listed[w] \subseteq Batches
    BY DEF TypeOK
  <2> QED BY <2>1, <2>2, <2>3, OrderStays DEF workerVars
<1>12. CASE Tick \/ UNCHANGED vars
  BY <1>1, <1>12 DEF Tick, vars, workerVars
<1> QED BY <1>2, <1>4, <1>5, <1>6, <1>7, <1>9, <1>10, <1>11, <1>12 DEF Next, Cleanup

\* Wherever a cleanup ends, and however many others delete at the same time, it
\* has deleted the oldest of what it found (cleanupRadixBatchHistory).
THEOREM OldestGoFirst == Spec => OldestFirst
<1> DEFINE AllInOrder == \A w \in Workers : InOrder(w)
           A == \A w \in Workers, i \in Categories, b \in Batches \ restarted : Delete(w, i, b) =>
                  \A a \in DOMAIN listed[w] \ restarted : Older(a, b) => state[a] = "gone"
<1>1. Init => AllInOrder
  BY DEF Init, InOrder, Deleting
<1>2. TypeOK /\ AllInOrder /\ [Next]_vars => AllInOrder'
  BY InOrderNext
<1>3. TypeOK /\ AllInOrder => [A]_vars
  <2> SUFFICES ASSUME TypeOK, AllInOrder, NEW w \in Workers, NEW i \in Categories,
                      NEW b \in Batches \ restarted, Delete(w, i, b),
                      NEW a \in DOMAIN listed[w] \ restarted, Older(a, b)
               PROVE  state[a] = "gone"
    OBVIOUS
  <2>1. InOrder(w) /\ Deleting(w) /\ Current(w, i, b)
    BY DEF Delete, Deleting
  <2>2. b \in todo[w][i] /\ b \in DOMAIN listed[w] /\ a \in Batches
    BY <2>1 DEF InOrder, Current, TypeOK
  <2>3. listed[w][a] = at[a] /\ listed[w][b] = at[b] /\ at[a] \in Nat /\ at[b] \in Nat
    BY <2>1, <2>2 DEF InOrder, TypeOK
  <2>4. Before(at, a, b) /\ ~Before(at, b, a) /\ a # b
    BY <2>2, <2>3 DEF Older, Before
  <2>5. ~Before(listed[w], b, a)
    BY <2>3, <2>4 DEF Before
  <2>6. a \notin todo[w][i]
    BY <2>1, <2>4, <2>5 DEF Current
  <2> QED BY <2>1, <2>2, <2>6 DEF InOrder
<1> HIDE DEF AllInOrder
<1> QED BY <1>1, <1>2, <1>3, TypeCorrect, PTL DEF Spec, OldestFirst

====
