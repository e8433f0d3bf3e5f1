---- MODULE SchedulerApiProofs ----
(***************************************************************************)
(* Proofs about SchedulerApi, for any names of batches and jobs, statuses, *)
(* conditions and rules.                                                   *)
(***************************************************************************)
EXTENDS SchedulerApi, SequenceTheorems, FiniteSetTheorems, WellFoundedInduction, TLAPS

(***************************************************************************)
(* Names.                                                                  *)
(***************************************************************************)
\* A full name leads back to the batch and the job it was composed of.
LEMMA FullNameParts ==
  ASSUME NEW b \in Seq(Words), NEW j \in Words
  PROVE  /\ FullName(b, j) \in Seq(Words)
         /\ BatchPart(FullName(b, j)) = b
         /\ JobPart(FullName(b, j)) = j
         /\ b # <<>> => Composed(FullName(b, j))
<1> DEFINE n == Append(b, j)
<1>1. /\ n \in Seq(Words) /\ Len(n) = Len(b) + 1 /\ Len(b) \in Nat
      /\ \A i \in 1..Len(b) : n[i] = b[i]
      /\ n[Len(b) + 1] = j
  BY AppendProperties, LenProperties
<1>2. SubSeq(n, 1, Len(n) - 1) = b
  <2>1. /\ SubSeq(n, 1, Len(b)) \in Seq(Words)
        /\ Len(SubSeq(n, 1, Len(b))) = Len(b)
        /\ \A i \in 1..Len(b) : SubSeq(n, 1, Len(b))[i] = n[i]
    BY <1>1
  <2> QED BY <1>1, <2>1, SeqEqual
<1>3. b # <<>> => Len(b) > 0
  BY EmptySeq
<1> QED BY <1>1, <1>2, <1>3 DEF FullName, BatchPart, Front, JobPart, Last, Composed

\* A name that can be split is the full name of its parts.
LEMMA PartsOfFullName ==
  ASSUME NEW n \in Seq(Words), Composed(n)
  PROVE  /\ FullName(BatchPart(n), JobPart(n)) = n
         /\ BatchPart(n) \in Seq(Words) /\ JobPart(n) \in Words
<1>1. Len(n) \in Nat /\ Len(n) >= 2
  BY LenProperties DEF Composed
<1> DEFINE f == SubSeq(n, 1, Len(n) - 1)
<1>2. f \in Seq(Words) /\ Len(f) = Len(n) - 1 /\ \A i \in 1..Len(n) - 1 : f[i] = n[i]
  BY <1>1
<1>3. n[Len(n)] \in Words
  BY <1>1, ElementOfSeq
<1> DEFINE m == Append(f, n[Len(n)])
<1>4. m \in Seq(Words) /\ Len(m) = Len(n) /\ \A i \in 1..Len(n) : m[i] = n[i]
  <2> HIDE DEF f
  <2>1. /\ m \in Seq(Words) /\ Len(m) = Len(f) + 1
        /\ \A i \in 1..Len(f) : m[i] = f[i]
        /\ m[Len(f) + 1] = n[Len(n)]
    BY <1>2, <1>3, AppendProperties
  <2> QED BY <1>1, <1>2, <2>1
<1> HIDE DEF m
<1>5. m = n
  BY <1>1, <1>4, SeqEqual
<1> QED BY <1>2, <1>3, <1>5 DEF m, FullName, BatchPart, Front, JobPart, Last

LEMMA NamesTyped ==
  /\ \A b \in BatchNames : b \in Seq(Words) /\ b # <<>> /\ Composed(b) /\ b # NoName
  /\ \A b \in BatchPaths : b \in Seq(Words) /\ b # NoName
  /\ \A n \in Paths : n \in Seq(Words)
  /\ \A b \in BatchPaths : \A n \in JobPaths(b) : n \in Seq(Words) /\ n # <<>>
  /\ \A j \in JobNames : j \in Words /\ j # None /\ j # Empty
<1>1. \A b \in BatchNames : b \in Seq(Words) /\ b # <<>> /\ Composed(b) /\ b # NoName
  <2> SUFFICES ASSUME NEW b \in BatchNames PROVE b \in Seq(Words) /\ b # <<>> /\ Composed(b) /\ b # NoName
    OBVIOUS
  <2>1. b \in Seq(Words) /\ Composed(b)
    BY NamesAssumption
  <2>2. Len(<<>>) = 0 /\ Len(NoName) = 1
    BY DEF NoName
  <2>3. Len(b) >= 2
    BY <2>1 DEF Composed
  <2>4. b # NoName /\ b # <<>>
    <3> SUFFICES ASSUME b = NoName \/ b = <<>> PROVE Len(b) < 2
      BY <2>3
    <3> QED BY <2>2
  <2> QED BY <2>1, <2>4
<1>2. \A b \in BatchPaths : b \in Seq(Words) /\ b # NoName
  BY <1>1, NamesAssumption DEF BatchPaths
<1>3. \A b \in BatchPaths, j \in JobNames : FullName(b, j) \in Seq(Words) /\ <<j>> \in Seq(Words)
  BY <1>2, NamesAssumption, FullNameParts
<1>4. \A n \in Paths : n \in Seq(Words)
  BY <1>2, <1>3 DEF Paths, FullNames, BatchPaths
<1>5. \A b \in BatchPaths : \A n \in JobPaths(b) : n \in Seq(Words) /\ n # <<>>
  <2> SUFFICES ASSUME NEW b \in BatchPaths, NEW n \in JobPaths(b) PROVE n \in Seq(Words) /\ n # <<>>
    OBVIOUS
  <2>1. ASSUME NEW j \in JobNames PROVE FullName(b, j) # <<>> /\ <<j>> # <<>>
    <3>1. b \in Seq(Words) /\ j \in Words
      BY <1>2, NamesAssumption
    <3> QED BY <3>1, AppendProperties DEF FullName
  <2> QED BY <1>3, <2>1, NamesAssumption DEF JobPaths
<1> QED BY <1>1, <1>2, <1>4, <1>5, NamesAssumption

LEMMA GeneratedName ==
  ASSUME NEW b \in BatchNames, NEW j \in JobNames
  PROVE  /\ BatchPart(FullName(b, j)) = b /\ JobPart(FullName(b, j)) = j
         /\ Composed(FullName(b, j))
  BY NamesTyped, FullNameParts

LEMMA FoldedName ==
  ASSUME NEW n \in Seq(Words)
  PROVE  /\ Folded(n) \in Seq(Words) /\ Len(Folded(n)) = Len(n)
         /\ \A i \in 1..Len(n) : Folded(n)[i] = Lower[n[i]]
<1>1. Len(n) \in Nat /\ DOMAIN n = 1..Len(n) /\ \A i \in 1..Len(n) : n[i] \in Words
  BY LenProperties, ElementOfSeq
<1>2. Folded(n) \in [1..Len(n) -> Words]
  BY <1>1, NamesAssumption DEF Folded
<1>3. Folded(n) \in Seq(Words) /\ Len(Folded(n)) = Len(n)
  BY <1>1, <1>2, IsASeq, LenProperties
<1> QED BY <1>1, <1>3 DEF Folded

LEMMA FoldedParts ==
  ASSUME NEW n \in Seq(Words), Composed(n)
  PROVE  /\ Folded(n) = FullName(Folded(BatchPart(n)), Lower[JobPart(n)])
         /\ Folded(BatchPart(n)) \in Seq(Words) /\ Lower[JobPart(n)] \in Words
<1>1. PICK f \in Seq(Words), k \in Words :
        f = BatchPart(n) /\ k = JobPart(n) /\ n = Append(f, k)
  BY PartsOfFullName DEF FullName
<1>2. /\ Folded(f) \in Seq(Words) /\ Len(Folded(f)) = Len(f) /\ Len(f) \in Nat
      /\ Lower[k] \in Words
  BY FoldedName, LenProperties, NamesAssumption
<1> DEFINE m == Append(Folded(f), Lower[k])
<1>3. /\ m \in Seq(Words) /\ Len(m) = Len(f) + 1 /\ m[Len(f) + 1] = Lower[k]
      /\ \A i \in 1..Len(f) : m[i] = Lower[f[i]]
  BY <1>2, FoldedName, AppendProperties
<1>4. /\ Len(n) = Len(f) + 1 /\ n[Len(f) + 1] = k
      /\ \A i \in 1..Len(f) : n[i] = f[i]
  BY <1>1, AppendProperties
<1> HIDE DEF m
<1>5. /\ Folded(n) \in Seq(Words) /\ Len(Folded(n)) = Len(m)
      /\ \A i \in 1..Len(m) : Folded(n)[i] = m[i]
  BY <1>2, <1>3, <1>4, FoldedName
<1>6. Folded(n) = m
  BY <1>3, <1>5, SeqEqual
<1> QED BY <1>1, <1>2, <1>6 DEF m, FullName

\* Only the name of no letters folds to it.
LEMMA FoldedEmpty ==
  ASSUME NEW n \in Seq(Words)
  PROVE  Folded(n) = NoName <=> n = NoName
<1>1. /\ Folded(n) \in Seq(Words) /\ Len(Folded(n)) = Len(n) /\ Len(n) \in Nat
      /\ \A i \in 1..Len(n) : Folded(n)[i] = Lower[n[i]] /\ n[i] \in Words
  BY FoldedName, LenProperties, ElementOfSeq
<1>2. NoName \in Seq(Words) /\ Len(NoName) = 1 /\ NoName[1] = Empty
  BY NamesAssumption DEF NoName
<1>3. ASSUME NEW m \in Seq(Words), Len(m) = 1
      PROVE  m = NoName <=> m[1] = Empty
  BY <1>2, <1>3, SeqEqual
<1>4. CASE Len(n) = 1
  <2>1. Folded(n)[1] = Empty <=> n[1] = Empty
    BY <1>1, <1>4, NamesAssumption
  <2> QED BY <1>1, <1>3, <1>4, <2>1
<1>5. CASE Len(n) # 1
  BY <1>1, <1>2, <1>5
<1> QED BY <1>4, <1>5

\* A name is that of a job, up to the case of letters, if both its parts are.
LEMMA NamesMatch ==
  ASSUME NEW n \in Seq(Words), Composed(n), NEW c \in BatchNames, NEW j \in JobNames
  PROVE  Folded(n) = FullName(c, j) <=> Folded(BatchPart(n)) = c /\ Lower[JobPart(n)] = j
<1>1. /\ BatchPart(FullName(c, j)) = c /\ JobPart(FullName(c, j)) = j
  BY GeneratedName
<1>2. /\ Folded(n) = FullName(Folded(BatchPart(n)), Lower[JobPart(n)])
      /\ BatchPart(Folded(n)) = Folded(BatchPart(n)) /\ JobPart(Folded(n)) = Lower[JobPart(n)]
  BY FoldedParts, FullNameParts
<1> QED BY <1>1, <1>2

LEMMA GeneratedFolded ==
  ASSUME NEW b \in BatchNames, NEW j \in JobNames
  PROVE  Folded(FullName(b, j)) = FullName(b, j)
<1>1. FullName(b, j) \in Seq(Words)
  BY NamesTyped, FullNameParts
<1> QED BY <1>1, GeneratedName, NamesMatch, NamesAssumption

\* A name begins with that of one batch at most.
LEMMA OneBeginning ==
  ASSUME NEW b \in BatchNames, NEW c \in BatchNames, NEW s \in Seq(Words),
         Len(b) <= Len(s), \A i \in 1..Len(b) : b[i] = s[i],
         Len(c) <= Len(s), \A i \in 1..Len(c) : c[i] = s[i]
  PROVE  b = c
<1>1. ASSUME NEW d \in BatchNames, NEW e \in BatchNames, Len(d) <= Len(e),
             Len(e) <= Len(s), \A i \in 1..Len(d) : d[i] = s[i], \A i \in 1..Len(e) : e[i] = s[i]
      PROVE  d = e
  <2>1. d \in Seq(Words) /\ e \in Seq(Words) /\ Len(d) \in Nat /\ Len(e) \in Nat
    BY NamesTyped, LenProperties
  <2>2. /\ SubSeq(d, 1, Len(d)) \in Seq(Words) /\ Len(SubSeq(d, 1, Len(d))) = Len(d)
        /\ \A i \in 1..Len(d) : SubSeq(d, 1, Len(d))[i] = d[i]
    BY <2>1
  <2>3. /\ SubSeq(e, 1, Len(d)) \in Seq(Words) /\ Len(SubSeq(e, 1, Len(d))) = Len(d)
        /\ \A i \in 1..Len(d) : SubSeq(e, 1, Len(d))[i] = e[i]
    BY <1>1, <2>1
  <2>4. \A i \in 1..Len(d) : d[i] = e[i]
    BY <1>1, <2>1
  <2>5. SubSeq(d, 1, Len(d)) = SubSeq(e, 1, Len(d))
    BY <2>2, <2>3, <2>4, SeqEqual
  <2> QED BY <1>1, <2>5, NamesAssumption DEF IsPrefix
<1>2. Len(b) \in Nat /\ Len(c) \in Nat
  BY NamesTyped, LenProperties
<1>3. CASE Len(b) <= Len(c)
  BY <1>1, <1>3
<1>4. CASE Len(c) <= Len(b)
  BY <1>1, <1>4
<1> QED BY <1>2, <1>3, <1>4

\* A name that begins with that of a batch, names one.
LEMMA BatchFirst ==
  ASSUME NEW b \in Seq(Words), NEW n \in Seq(Words), n # <<>>, Folded(b) \in BatchNames
  PROVE  BatchPart(b \o n) # NoName
<1> SUFFICES ASSUME BatchPart(b \o n) = NoName PROVE FALSE
  OBVIOUS
<1> DEFINE m == b \o n
<1>1. /\ m \in Seq(Words) /\ Len(m) = Len(b) + Len(n) /\ Len(b) \in Nat /\ Len(n) \in Nat
      /\ \A i \in 1..Len(b) : m[i] = b[i]
  BY ConcatProperties, LenProperties
<1>2. Len(b) >= 2 /\ Len(n) > 0
  <2>1. Len(Folded(b)) >= 2
    BY NamesTyped DEF Composed
  <2> QED BY <1>1, <2>1, FoldedName, EmptySeq
<1> HIDE DEF m
<1>3. Composed(m) /\ Len(m) >= 3
  BY <1>1, <1>2 DEF Composed
<1>4. Len(m) = Len(BatchPart(m)) + 1
  <2>1. BatchPart(m) \in Seq(Words) /\ JobPart(m) \in Words /\ m = Append(BatchPart(m), JobPart(m))
    BY <1>1, <1>3, PartsOfFullName DEF FullName
  <2> QED BY <2>1, AppendProperties
<1>5. Len(NoName) = 1
  BY DEF NoName
<1> QED BY <1>3, <1>4, <1>5 DEF m

\* A name that follows that of a batch leads to no other batch.
LEMMA NoOtherBatch ==
  ASSUME NEW b \in Seq(Words), NEW n \in Seq(Words), Composed(b \o n),
         Folded(b) \in BatchNames, Folded(BatchPart(b \o n)) \in BatchNames
  PROVE  Folded(BatchPart(b \o n)) = Folded(b)
<1> DEFINE m == b \o n
           c == Folded(BatchPart(m))
           k == Lower[JobPart(m)]
           s == Folded(m)
<1>1. /\ m \in Seq(Words) /\ Len(m) = Len(b) + Len(n) /\ Len(b) \in Nat /\ Len(n) \in Nat
      /\ \A i \in 1..Len(b) : m[i] = b[i]
  BY ConcatProperties, LenProperties
<1> HIDE DEF m
<1>2. /\ s \in Seq(Words) /\ Len(s) = Len(m) /\ \A i \in 1..Len(m) : s[i] = Lower[m[i]]
  BY <1>1, FoldedName
<1>3. Len(Folded(b)) = Len(b) /\ \A i \in 1..Len(b) : Folded(b)[i] = Lower[b[i]]
  BY FoldedName
<1>4. Len(Folded(b)) <= Len(s) /\ \A i \in 1..Len(Folded(b)) : Folded(b)[i] = s[i]
  <2> HIDE DEF s
  <2>1. 1..Len(b) \subseteq 1..Len(m)
    BY <1>1
  <2>2. \A i \in 1..Len(b) : s[i] = Lower[b[i]]
    BY <1>1, <1>2, <2>1
  <2> QED BY <1>1, <1>2, <1>3, <2>2
<1>5. s = Append(c, k) /\ c \in Seq(Words) /\ k \in Words
  BY <1>1, FoldedParts DEF m, FullName
<1> HIDE DEF s, c, k
<1>6. Len(c) \in Nat /\ Len(s) = Len(c) + 1 /\ \A i \in 1..Len(c) : c[i] = s[i]
  BY <1>5, AppendProperties, LenProperties
<1>7. c \in BatchNames
  BY DEF c, m
<1>8. c = Folded(b)
  BY <1>2, <1>4, <1>6, <1>7, OneBeginning
<1> QED BY <1>8 DEF c, m

(***************************************************************************)
(* The inductive invariant.                                                *)
(***************************************************************************)
\* The batch of a single job holds that job, or, as a copy of none, no job.
Single(o) == o.type = "job" => \A i \in o.jobs, j \in o.jobs : i = j

Good(o) == o \in Object /\ o.stop \cup DOMAIN o.status \subseteq o.jobs /\ Single(o)
AllGood == DOMAIN batches \subseteq BatchNames /\ \A b \in DOMAIN batches : Good(batches[b])

\* Until an answer is received the batches are as it says.
AnswerIsTrue ==
  answer # None =>
    /\ answer.result \in Results
    /\ \A n \in DOMAIN answer.jobs :
         /\ BatchPart(n) \in Live
         /\ answer.jobs[n] = JobStatus(batches[BatchPart(n)], JobPart(n))

IndInv == AllGood /\ AnswerIsTrue

LEMMA NewObjectGood ==
  ASSUME NEW own \in BOOLEAN, NEW type \in {"batch", "job"}, NEW J \in SUBSET JobNames,
         NEW stop \in SUBSET J, type = "job" => \A i \in J, j \in J : i = j
  PROVE  Good(NewObject(own, type, J, stop))
<1>1. [j \in {} |-> Unseen] \in [{} -> Reported]
  OBVIOUS
<1> QED BY <1>1 DEF Good, Single, NewObject, Object

LEMMA CopiedGood ==
  ASSUME NEW b \in DOMAIN batches, AllGood, NEW J \in SUBSET batches[b].jobs, NEW f \in Renamings(J)
  PROVE  Good(Copied(b, f))
<1>1. /\ Good(batches[b]) /\ f \in [J -> JobNames]
  BY DEF AllGood, Renamings
<1>2. batches[b].own \in BOOLEAN /\ batches[b].type \in {"batch", "job"} /\ Single(batches[b])
  BY <1>1 DEF Good, Object
<1> DEFINE K == {f[j] : j \in DOMAIN f}
           S == {f[j] : j \in DOMAIN f \cap batches[b].stop}
<1>3. K \in SUBSET JobNames /\ S \in SUBSET K
  BY <1>1
<1>4. batches[b].type = "job" => \A i \in K, j \in K : i = j
  BY <1>1, <1>2 DEF Single
<1> QED BY <1>2, <1>3, <1>4, NewObjectGood DEF Copied

LEMMA WithGood ==
  ASSUME AllGood, NEW b \in BatchNames, NEW o, Good(o), batches' = With(b, o)
  PROVE  AllGood'
  BY DEF AllGood, With, Live

LEMMA WithoutGood ==
  ASSUME AllGood, NEW b, batches' = Without(b)
  PROVE  AllGood'
  BY DEF AllGood, Without, Live

LEMMA WithStopGood ==
  ASSUME NEW o, Good(o), NEW J \in SUBSET o.jobs
  PROVE  Good(WithStop(o, J)) /\ WithStop(o, J).type = o.type /\ WithStop(o, J).jobs = o.jobs
<1> DEFINE p == WithStop(o, J)
<1>1. o \in Object /\ o.jobs \subseteq JobNames
  BY DEF Good, Object
<1>2. /\ p \in Object /\ p.type = o.type /\ p.jobs = o.jobs /\ p.status = o.status
      /\ p.stop \subseteq o.stop \cup J
  BY <1>1 DEF WithStop, Object
<1> QED BY <1>2 DEF Good, Single

LEMMA RestartGood ==
  ASSUME NEW o, Good(o), NEW J
  PROVE  Good([o EXCEPT !.stop = @ \ J])
<1> DEFINE p == [o EXCEPT !.stop = @ \ J]
<1>1. o \in Object
  BY DEF Good
<1>2. /\ p \in Object /\ p.type = o.type /\ p.jobs = o.jobs /\ p.status = o.status
      /\ p.stop \subseteq o.stop
  BY <1>1 DEF Object
<1> QED BY <1>2 DEF Good, Single

LEMMA ConditionGood ==
  ASSUME NEW o, Good(o), NEW x \in Conditions
  PROVE  Good([o EXCEPT !.cond = x])
<1> DEFINE p == [o EXCEPT !.cond = x]
<1>1. o \in Object
  BY DEF Good
<1>2. /\ p \in Object /\ p.type = o.type /\ p.jobs = o.jobs /\ p.status = o.status
      /\ p.stop = o.stop
  BY <1>1 DEF Object
<1> QED BY <1>2 DEF Good, Single

LEMMA AskedAreJobs ==
  ASSUME NEW b, NEW j
  PROVE  JobsAsked(b, j) \subseteq batches[b].jobs
  BY DEF JobsAsked

(***************************************************************************)
(* What the requests do to the invariant.                                  *)
(***************************************************************************)
LEMMA IndInvInit == Init => IndInv
  BY DEF Init, IndInv, AllGood, AnswerIsTrue

LEMMA RefuseKeeps ==
  ASSUME IndInv, NEW op, NEW name, NEW part, NEW result \in Results, Refuse(op, name, part, result)
  PROVE  IndInv'
<1>1. answer'.result = result /\ answer'.jobs = Nameless /\ batches' = batches
  BY DEF Refuse, Answer
<1>2. DOMAIN Nameless = {}
  BY DEF Nameless
<1> QED BY <1>1, <1>2 DEF IndInv, AllGood, AnswerIsTrue

\* What a list of the jobs of existing batches says.
LEMMA ListingIsTrue ==
  ASSUME AllGood, NEW B \in SUBSET Live
  PROVE  /\ DOMAIN Listing(B) = Listed(B)
         /\ \A n \in Listed(B) :
              /\ BatchPart(n) \in B /\ JobPart(n) \in batches[BatchPart(n)].jobs
              /\ BatchPart(n) \in BatchNames /\ JobPart(n) \in JobNames
              /\ n = FullName(BatchPart(n), JobPart(n))
              /\ Listing(B)[n] = JobStatus(batches[BatchPart(n)], JobPart(n))
<1>1. ASSUME NEW n \in Listed(B)
      PROVE  /\ BatchPart(n) \in B /\ JobPart(n) \in batches[BatchPart(n)].jobs
             /\ BatchPart(n) \in BatchNames /\ JobPart(n) \in JobNames
             /\ n = FullName(BatchPart(n), JobPart(n))
  <2>1. PICK b \in B : \E j \in batches[b].jobs : n = FullName(b, j)
    BY DEF Listed
  <2>2. PICK j \in batches[b].jobs : n = FullName(b, j)
    BY <2>1
  <2>3. b \in BatchNames /\ j \in JobNames
    BY DEF AllGood, Live, Good, Object
  <2> QED BY <2>2, <2>3, GeneratedName
<1> QED BY <1>1 DEF Listing

LEMMA ReadKeeps ==
  ASSUME IndInv, NEW op, NEW name, NEW part, NEW B \in SUBSET Live, NEW jobs, NEW summary,
         Read(op, name, part, jobs, summary),
         DOMAIN jobs \subseteq Listed(B), \A n \in DOMAIN jobs : jobs[n] = Listing(B)[n]
  PROVE  IndInv'
<1>1. answer'.result = "ok" /\ answer'.jobs = jobs /\ batches' = batches
  BY DEF Read, Answer
<1>2. \A n \in DOMAIN jobs :
        BatchPart(n) \in Live /\ jobs[n] = JobStatus(batches[BatchPart(n)], JobPart(n))
  BY ListingIsTrue DEF IndInv
<1>3. AnswerIsTrue'
  BY <1>1, <1>2 DEF AnswerIsTrue, Results, Live
<1>4. AllGood'
  BY <1>1 DEF IndInv, AllGood
<1> QED BY <1>3, <1>4 DEF IndInv

LEMMA DoKeeps ==
  ASSUME IndInv, NEW op, NEW name, NEW part, NEW result \in Results, NEW B, Do(op, name, part, result, B),
         AllGood'
  PROVE  IndInv'
<1>1. answer'.result = result /\ answer'.jobs = Nameless
  BY DEF Do, Answer
<1>2. DOMAIN Nameless = {}
  BY DEF Nameless
<1> QED BY <1>1, <1>2 DEF IndInv, AnswerIsTrue

LEMMA CreateKeeps ==
  ASSUME IndInv, NEW op, NEW name, NEW c, NEW o, NEW result \in Results, Create(op, name, c, o, result),
         Good(o)
  PROVE  IndInv'
<1>1. /\ c \in BatchNames \ Live /\ answer'.result = result
      /\ answer'.jobs = [n \in {FullName(c, j) : j \in o.jobs} |-> JobStatus(o, JobPart(n))]
      /\ batches' = With(c, o)
  BY DEF Create, Answer
<1>2. c \in Live' /\ batches'[c] = o
  BY <1>1 DEF With, Live
<1>3. ASSUME NEW n \in DOMAIN answer'.jobs PROVE BatchPart(n) = c
  <2>1. n \in {FullName(c, j) : j \in o.jobs}
    BY <1>1
  <2>2. PICK j \in o.jobs : n = FullName(c, j)
    BY <2>1
  <2>3. j \in JobNames /\ c \in BatchNames
    BY <1>1 DEF Good, Object
  <2> QED BY <2>2, <2>3, GeneratedName
<1>4. AnswerIsTrue'
  <2>1. ASSUME NEW n \in DOMAIN answer'.jobs
        PROVE  BatchPart(n) = c /\ answer'.jobs[n] = JobStatus(o, JobPart(n))
    BY <1>1, <1>3, <2>1
  <2>2. \A n \in DOMAIN answer'.jobs :
          /\ BatchPart(n) \in Live'
          /\ answer'.jobs[n] = JobStatus(batches[BatchPart(n)], JobPart(n))'
    BY <1>2, <2>1 DEF JobStatus, StatusOf
  <2> QED BY <1>1, <2>2 DEF AnswerIsTrue
<1>5. AllGood'
  BY <1>1, WithGood DEF IndInv
<1> QED BY <1>4, <1>5 DEF IndInv

\* The other steps leave no answer behind.
LEMMA SilentKeeps ==
  ASSUME AllGood', answer' = None
  PROVE  IndInv'
  BY DEF IndInv, AnswerIsTrue

(***************************************************************************)
(* The requests, one by one.                                               *)
(***************************************************************************)
LEMMA LookUpFails ==
  ASSUME NEW b
  PROVE  LookUp(b) = None \/ LookUp(b) \in {"unknown", "notFound"}
  BY DEF LookUp

LEMMA JobReadKeeps ==
  ASSUME IndInv, NEW op, NEW name, NEW part, NEW b, NEW n, GetJobOf(op, name, part, b, n)
  PROVE  IndInv'
<1>1. CASE GetRefusal(b, n) # None /\ Refuse(op, name, part, GetRefusal(b, n))
  <2>1. GetRefusal(b, n) \in Results
    BY <1>1, LookUpFails DEF GetRefusal, Results
  <2> QED BY <1>1, <2>1, RefuseKeeps
<1>2. CASE /\ GetRefusal(b, n) = None
           /\ Read(op, name, part, [m \in {Folded(n)} |-> Listing({b})[m]], Nameless)
  <2>1. b \in Live /\ Folded(n) \in Listed({b})
    BY <1>2, NamesAssumption DEF GetRefusal, LookUp, Results
  <2>2. {b} \in SUBSET Live /\ DOMAIN [m \in {Folded(n)} |-> Listing({b})[m]] \subseteq Listed({b})
    BY <2>1
  <2> QED BY <1>2, <2>2, ReadKeeps
<1> QED BY <1>1, <1>2 DEF GetJobOf

LEMMA ReadingKeeps ==
  ASSUME IndInv,
         \/ GetJobs \/ GetBatches
         \/ \E b \in BatchPaths : GetBatch(b) \/ \E n \in JobPaths(b) : GetBatchJob(b, n)
         \/ \E n \in Paths : GetJob(n)
  PROVE  IndInv'
<1>1. ASSUME NEW B \in SUBSET Live, NEW op, NEW name, NEW summary, Read(op, name, None, Listing(B), summary)
      PROVE  IndInv'
  <2>1. DOMAIN Listing(B) \subseteq Listed(B)
    BY ListingIsTrue DEF IndInv
  <2> QED BY <1>1, <2>1, ReadKeeps
<1>2. ASSUME NEW T PROVE OfType(T) \in SUBSET Live
  BY DEF OfType
<1>3. CASE GetJobs
  BY <1>1, <1>2, <1>3 DEF GetJobs
<1>4. CASE GetBatches
  BY <1>1, <1>2, <1>4 DEF GetBatches
<1>5. ASSUME NEW b \in BatchPaths, GetBatch(b) PROVE IndInv'
  BY <1>1, <1>5, RefuseKeeps DEF GetBatch, Results
<1>6. ASSUME NEW b \in BatchPaths, NEW n \in JobPaths(b), GetBatchJob(b, n) PROVE IndInv'
  BY <1>6, JobReadKeeps DEF GetBatchJob
<1>7. ASSUME NEW n \in Paths, GetJob(n) PROVE IndInv'
  BY <1>7, JobReadKeeps, RefuseKeeps DEF GetJob, Results
<1> QED BY <1>3, <1>4, <1>5, <1>6, <1>7

LEMMA NewBatchKeeps ==
  ASSUME IndInv, NEW c \in BatchNames,
         \/ \E j \in JobNames : CreateJob(c, j)
         \/ \E J \in SUBSET JobNames : CreateBatch(c, J)
         \/ \E b \in BatchPaths : CopyBatch(b, c)
         \/ \E n \in Paths : CopyJob(n, c)
  PROVE  IndInv'
<1>1. ASSUME NEW j \in JobNames, CreateJob(c, j) PROVE IndInv'
  <2>1. Good(NewObject(TRUE, "job", {j}, {}))
    BY NewObjectGood
  <2> QED BY <1>1, <2>1, CreateKeeps DEF CreateJob, Results
<1>2. ASSUME NEW J \in SUBSET JobNames, CreateBatch(c, J) PROVE IndInv'
  <2>1. Good(NewObject(TRUE, "batch", J, {}))
    BY NewObjectGood
  <2> QED BY <1>2, <2>1, CreateKeeps, RefuseKeeps DEF CreateBatch, Results
<1>3. ASSUME NEW b \in Live, NEW op, NEW name, NEW j, NEW result \in Results,
             \E f \in Renamings(JobsCopied(b, j)) : Create(op, name, c, Copied(b, f), result)
      PROVE  IndInv'
  <2>1. PICK f \in Renamings(JobsCopied(b, j)) : Create(op, name, c, Copied(b, f), result)
    BY <1>3
  <2>2. JobsCopied(b, j) \in SUBSET batches[b].jobs
    BY DEF JobsCopied
  <2>3. Good(Copied(b, f))
    BY <2>2, CopiedGood DEF IndInv, Live
  <2> QED BY <2>1, <2>3, CreateKeeps
<1>4. ASSUME NEW b \in BatchPaths, CopyBatch(b, c) PROVE IndInv'
  BY <1>3, <1>4, RefuseKeeps DEF CopyBatch, Results
<1>5. ASSUME NEW n \in Paths, CopyJob(n, c) PROVE IndInv'
  <2>1. CASE ~Composed(n)
    BY <1>5, <2>1, RefuseKeeps DEF CopyJob, Results
  <2>2. ASSUME NEW b, NEW j, CopyJobOf(n, b, j, c) PROVE IndInv'
    <3>1. CASE LookUp(b) # None /\ Refuse("CopyJob", n, None, LookUp(b))
      BY <3>1, LookUpFails, RefuseKeeps DEF Results
    <3>2. CASE LookUp(b) = None
      <4>1. b \in Live
        BY <3>2, NamesAssumption DEF LookUp, Results
      <4>2. PICK result \in {"ok", "unknown"} :
              \E f \in Renamings(JobsCopied(b, j)) : Create("CopyJob", n, c, Copied(b, f), result)
        BY <2>2, <3>2 DEF CopyJobOf
      <4> QED BY <1>3, <4>1, <4>2 DEF Results
    <3> QED BY <2>2, <3>1, <3>2 DEF CopyJobOf
  <2> QED BY <1>5, <2>1, <2>2 DEF CopyJob
<1> QED BY <1>1, <1>2, <1>4, <1>5

LEMMA DeletionKeeps ==
  ASSUME IndInv,
         \/ \E b \in BatchPaths : DeleteBatch(b)
         \/ \E n \in Paths : DeleteJob(n)
  PROVE  IndInv'
<1>1. ASSUME NEW op, NEW name, NEW b, Delete(op, name, b) PROVE IndInv'
  <2>1. PICK result \in {"ok", "unknown"} : Do(op, name, None, result, Without(b))
    BY <1>1 DEF Delete
  <2>2. AllGood'
    BY <2>1, WithoutGood DEF Do, IndInv
  <2> QED BY <2>1, <2>2, DoKeeps DEF Results
<1>2. ASSUME NEW b \in BatchPaths, DeleteBatch(b) PROVE IndInv'
  BY <1>1, <1>2, RefuseKeeps DEF DeleteBatch, Results
<1>3. ASSUME NEW n \in Paths, DeleteJob(n) PROVE IndInv'
  <2>1. DeleteRefusal(n) # None => DeleteRefusal(n) \in Results
    BY LookUpFails DEF DeleteRefusal, Results
  <2> QED BY <1>1, <1>3, <2>1, RefuseKeeps DEF DeleteJob
<1> QED BY <1>2, <1>3

\* A stop flags jobs in some of the batches it asks for that can be stopped, and in
\* all of them unless one refuses; a batch that is named and cannot be stopped does.
LEMMA NamedStop ==
  ASSUME IndInv, NEW op, NEW name, NEW part, NEW T, NEW b, NEW j, StopNamed(op, name, part, T, b, j)
  PROVE  /\ IndInv'
         /\ answer'.op = op /\ answer'.name = name /\ answer'.part = part
         /\ \E S \in SUBSET StoppableOf(BatchesAsked(T, b)) :
              /\ batches' = Stopped(S, j)
              /\ answer'.result = "ok" =>
                   /\ S = StoppableOf(BatchesAsked(T, b))
                   /\ b # NoName => S = BatchesAsked(T, b)
<1> DEFINE B == BatchesAsked(T, b)
           R == Refusing(B, b, j)
           result == StopResult(B, b, j)
<1>1. result \in Results /\ (result = "ok" => R = {})
  BY DEF StopResult, Results
<1>2. PICK S \in SUBSET StoppableOf(B) :
        /\ Do(op, name, part, result, Stopped(S, j))
        /\ R = {} => S = StoppableOf(B)
  BY DEF StopNamed
<1>3. R = {} /\ b # NoName => StoppableOf(B) = B
  BY DEF Refusing, StoppableOf
<1>4. /\ batches' = Stopped(S, j) /\ answer'.result = result
      /\ answer'.op = op /\ answer'.name = name /\ answer'.part = part
  BY <1>2 DEF Do, Answer
<1>5. \A c \in Live : c \in BatchNames /\ Good(batches[c])
  BY DEF Live, IndInv, AllGood
<1>6. AllGood'
  <2>1. ASSUME NEW c \in Live PROVE Good(Stopped(S, j)[c])
    BY <1>5, <2>1, AskedAreJobs, WithStopGood DEF Stopped
  <2>2. DOMAIN Stopped(S, j) = Live
    BY DEF Stopped
  <2> QED BY <1>4, <1>5, <2>1, <2>2 DEF AllGood
<1>7. IndInv'
  BY <1>1, <1>2, <1>6, DoKeeps
<1> QED BY <1>1, <1>2, <1>3, <1>4, <1>7

LEMMA JobStop ==
  ASSUME IndInv, NEW op, NEW name, NEW part, NEW n, StopJobNamed(op, name, part, n)
  PROVE  /\ IndInv'
         /\ answer'.op = op /\ answer'.name = name /\ answer'.part = part
<1>1. CASE Refuse(op, name, part, "unknown")
  <2>1. answer'.op = op /\ answer'.name = name /\ answer'.part = part
    BY <1>1 DEF Refuse, Answer
  <2> QED BY <1>1, <2>1, RefuseKeeps DEF Results
<1>2. CASE Composed(n) /\ StopNamed(op, name, part, {"batch", "job"}, BatchPart(n), JobPart(n))
  BY <1>2, NamedStop
<1> QED BY <1>1, <1>2 DEF StopJobNamed

LEMMA SilentSteps ==
  ASSUME IndInv,
         \/ Received
         \/ /\ answer = None
            /\ \/ \E b \in BatchNames, j \in JobNames : CreateElsewhere(b, j) \/ ReportJob(b, j)
               \/ \E b \in BatchNames : ReportBatch(b)
               \/ \E b \in BatchNames, J \in SUBSET JobNames : Restart(b, J)
  PROVE  IndInv' /\ ~Answered
<1> USE DEF Answered
<1>1. CASE Received
  BY <1>1, SilentKeeps DEF Received, IndInv, AllGood
<1> SUFFICES ASSUME ~Received, answer = None PROVE IndInv' /\ ~Answered
  BY <1>1
<1>2. ASSUME NEW b \in BatchNames, NEW j \in JobNames, CreateElsewhere(b, j) PROVE IndInv' /\ ~Answered
  <2>1. PICK type \in {"batch", "job"} : batches' = With(b, NewObject(FALSE, type, {j}, {}))
    BY <1>2 DEF CreateElsewhere
  <2>2. Good(NewObject(FALSE, type, {j}, {}))
    BY NewObjectGood
  <2> QED BY <1>2, <2>1, <2>2, WithGood, SilentKeeps DEF CreateElsewhere, IndInv
<1>3. ASSUME NEW b \in BatchNames, NEW o, b \in Live /\ answer' = None /\ batches' = With(b, o),
             Good(o)
      PROVE  IndInv' /\ ~Answered
  BY <1>3, WithGood, SilentKeeps DEF IndInv
<1>4. ASSUME NEW b \in BatchNames, b \in Live
      PROVE  Good(batches[b])
  BY <1>4 DEF IndInv, AllGood, Live
<1>5. ASSUME NEW b \in BatchNames, NEW J \in SUBSET JobNames, Restart(b, J) PROVE IndInv' /\ ~Answered
  <2> DEFINE o == [batches[b] EXCEPT !.stop = @ \ J]
  <2>1. Good(o)
    BY <1>4, <1>5, RestartGood DEF Restart
  <2> QED BY <1>3, <1>5, <2>1 DEF Restart
<1>6. ASSUME NEW b \in BatchNames, ReportBatch(b) PROVE IndInv' /\ ~Answered
  <2>1. PICK x \in Conditions : batches' = With(b, [batches[b] EXCEPT !.cond = x])
    BY <1>6 DEF ReportBatch
  <2>2. Good([batches[b] EXCEPT !.cond = x])
    BY <1>4, <1>6, ConditionGood DEF ReportBatch
  <2> QED BY <1>3, <1>6, <2>1, <2>2 DEF ReportBatch
<1>7. ASSUME NEW b \in BatchNames, NEW j \in JobNames, ReportJob(b, j) PROVE IndInv' /\ ~Answered
  <2>1. PICK s \in Reported :
          batches' = With(b, [batches[b] EXCEPT !.status =
                       [k \in DOMAIN @ \cup {j} |-> IF k = j THEN s ELSE @[k]]])
    BY <1>7 DEF ReportJob
  <2> DEFINE old == batches[b].status
             new == [k \in DOMAIN old \cup {j} |-> IF k = j THEN s ELSE old[k]]
             o == [batches[b] EXCEPT !.status = new]
  <2>2. b \in Live /\ j \in batches[b].jobs /\ answer' = None /\ Good(batches[b])
    BY <1>4, <1>7 DEF ReportJob
  <2>3. PICK J \in SUBSET JobNames : old \in [J -> Reported]
    BY <2>2 DEF Good, Object
  <2>4. /\ DOMAIN new = J \cup {j} /\ J \cup {j} \in SUBSET JobNames
        /\ new \in [J \cup {j} -> Reported]
    <3>1. DOMAIN old = J
      BY <2>3
    <3> QED BY <2>3, <3>1
  <2>5. DOMAIN new \subseteq batches[b].jobs
    <3>1. DOMAIN old \subseteq batches[b].jobs
      BY <2>2 DEF Good
    <3> QED BY <2>2, <3>1
  <2>6. new \in UNION {[K -> Reported] : K \in SUBSET JobNames}
    BY <2>4
  <2> HIDE DEF new, old
  <2>7. Good(o)
    BY <2>2, <2>5, <2>6 DEF Good, Object, Single
  <2>8. batches' = With(b, o)
    BY <2>1 DEF new, old
  <2> HIDE DEF o
  <2> QED BY <1>3, <2>2, <2>7, <2>8
<1> QED BY <1>1, <1>2, <1>5, <1>6, <1>7

(***************************************************************************)
(* The invariants.                                                         *)
(***************************************************************************)
Stopping ==
  \/ StopAllJobs \/ StopAllBatches
  \/ \E n \in Paths : StopJob(n)
  \/ \E b \in BatchPaths : StopBatch(b) \/ \E n \in JobPaths(b) : StopBatchJob(b, n)

Reading ==
  \/ GetJobs \/ GetBatches
  \/ \E b \in BatchPaths : GetBatch(b) \/ \E n \in JobPaths(b) : GetBatchJob(b, n)
  \/ \E n \in Paths : GetJob(n)

Creating ==
  \E c \in BatchNames :
    \/ \E j \in JobNames : CreateJob(c, j)
    \/ \E J \in SUBSET JobNames : CreateBatch(c, J)
    \/ \E b \in BatchPaths : CopyBatch(b, c)
    \/ \E n \in Paths : CopyJob(n, c)

Deleting ==
  \/ \E b \in BatchPaths : DeleteBatch(b)
  \/ \E n \in Paths : DeleteJob(n)

Silent ==
  \/ Received
  \/ /\ answer = None
     /\ \/ \E b \in BatchNames, j \in JobNames : CreateElsewhere(b, j) \/ ReportJob(b, j)
        \/ \E b \in BatchNames : ReportBatch(b)
        \/ \E b \in BatchNames, J \in SUBSET JobNames : Restart(b, J)

LEMMA NextKinds == Next => Stopping \/ Reading \/ Creating \/ Deleting \/ Silent
<1>1. \A j \in JobNames : {j} \in SUBSET JobNames
  OBVIOUS
<1>2. JobNames \in SUBSET JobNames
  OBVIOUS
<1> QED BY <1>1, <1>2 DEF Next, Request, Others, Stopping, Reading, Creating, Deleting, Silent

LEMMA IndInvNext == IndInv /\ [Next]_vars => IndInv'
<1> SUFFICES ASSUME IndInv, [Next]_vars PROVE IndInv'
  OBVIOUS
<1>1. CASE Stopping
  BY <1>1, NamedStop, JobStop
  DEF Stopping, StopAllJobs, StopAllBatches, StopJob, StopBatch, StopBatchJob
<1>2. CASE Reading
  BY <1>2, ReadingKeeps DEF Reading
<1>3. CASE Creating
  BY <1>3, NewBatchKeeps DEF Creating
<1>4. CASE Deleting
  BY <1>4, DeletionKeeps DEF Deleting
<1>5. CASE Silent
  BY <1>5, SilentSteps DEF Silent
<1>6. CASE UNCHANGED vars
  BY <1>6 DEF vars, IndInv, AllGood, AnswerIsTrue, Live
<1> QED BY <1>1, <1>2, <1>3, <1>4, <1>5, <1>6, NextKinds

LEMMA Invariance == Spec => []IndInv
  BY IndInvInit, IndInvNext, PTL DEF Spec

\* The type invariant holds in every reachable state.
THEOREM TypeCorrect == Spec => []TypeOK
<1>1. IndInv => TypeOK
  BY DEF IndInv, AllGood, AnswerIsTrue, Good, TypeOK
<1> QED BY <1>1, Invariance, PTL

\* Every listed job is found under its name, whatever the names consist of.
THEOREM ListedFound == Spec => []ListedCanBeFound
<1> DEFINE T == {"job", "batch"}
<1>1. IndInv => ListedCanBeFound
  <2> SUFFICES ASSUME IndInv, NEW n \in Listed(OfType(T))
               PROVE  /\ GetRefusal(BatchPart(n), n) = None
                      /\ StopResult(BatchesAsked(T, BatchPart(n)), BatchPart(n), JobPart(n)) # "notFound"
                      /\ DeleteRefusal(n) \notin {"notFound", "unknown"}
    BY DEF ListedCanBeFound
  <2> DEFINE b == BatchPart(n)
             j == JobPart(n)
             B == BatchesAsked(T, b)
  <2>1. /\ b \in OfType(T) /\ b \in Live /\ b \in BatchNames
        /\ j \in batches[b].jobs /\ j \in JobNames /\ n = FullName(b, j)
    BY ListingIsTrue DEF OfType, IndInv
  <2>2. Composed(n) /\ Folded(n) = n
    BY <2>1, GeneratedName, GeneratedFolded
  <2>3. n \in Listed({b})
    BY <2>1 DEF Listed
  <2>4. None \notin {"notFound", "unknown"}
    BY NamesAssumption DEF Results
  <2>5. LookUp(b) = None
    BY <2>1, NamesTyped DEF LookUp
  <2>6. b \in B /\ j \in JobsAsked(b, j) /\ b # NoName
    BY <2>1, NamesTyped, NamesAssumption DEF BatchesAsked, JobsAsked
  <2>7. Refusing(B, b, j) = {} => b \in StoppableOf(B)
    BY <2>6 DEF Refusing
  <2>8. StopResult(B, b, j) # "notFound"
    BY <2>6, <2>7 DEF StopResult
  <2>9. GetRefusal(b, n) = None
    BY <2>2, <2>3, <2>5 DEF GetRefusal
  <2>10. DeleteRefusal(n) \notin {"notFound", "unknown"}
    BY <2>2, <2>3, <2>4, <2>5 DEF DeleteRefusal
  <2> QED BY <2>8, <2>9, <2>10
<1> QED BY <1>1, Invariance, PTL

\* What is flagged is reported as stopping or finished, whatever the operator
\* has written.
THEOREM StopReported == Spec => []StopIsReported
<1>1. IndInv => StopIsReported
  <2> SUFFICES ASSUME IndInv, answer # None, NEW n \in DOMAIN answer.jobs, n \in FlaggedNames
               PROVE  answer.jobs[n] \notin Unfinished
    BY DEF StopIsReported
  <2>1. PICK b \in Live : \E j \in batches[b].stop : n = FullName(b, j)
    BY DEF FlaggedNames
  <2>2. PICK j \in batches[b].stop : n = FullName(b, j)
    BY <2>1
  <2>3. b \in BatchNames /\ j \in JobNames
    BY DEF IndInv, AllGood, Good, Object, Live
  <2>4. answer.jobs[n] = JobStatus(batches[b], j)
    BY <2>2, <2>3, GeneratedName DEF IndInv, AnswerIsTrue
  <2>5. JobStatus(batches[b], j) = ScheduledJobStatus(StatusOf(batches[b], j), TRUE)
    BY DEF JobStatus
  <2>6. ASSUME NEW s PROVE ScheduledJobStatus(s, TRUE) \notin Unfinished
    BY DEF ScheduledJobStatus, Unfinished
  <2> QED BY <2>4, <2>5, <2>6
<1> QED BY <1>1, Invariance, PTL

(***************************************************************************)
(* What is stopped.                                                        *)
(***************************************************************************)
StopOps == {"StopJob", "StopBatchJob", "StopBatch", "StopAllJobs", "StopAllBatches"}

\* The batches that there are before and after a step are not changed by it.
Untouched == \A b \in Live : b \in Live' => batches'[b] = batches[b]

LEMMA AnswersOp ==
  ASSUME NEW op, NEW name, NEW part
  PROVE  /\ \A result : Refuse(op, name, part, result) =>
                answer'.op = op /\ answer'.name = name /\ batches' = batches
         /\ \A jobs, summary : Read(op, name, part, jobs, summary) =>
                answer'.op = op /\ answer'.name = name /\ batches' = batches
         /\ \A result, B : Do(op, name, part, result, B) =>
                answer'.op = op /\ answer'.name = name /\ batches' = B
         /\ \A c, o, result : Create(op, name, c, o, result) =>
                answer'.op = op /\ answer'.name = name /\ c \notin Live /\ batches' = With(c, o)
  BY DEF Refuse, Read, Do, Create, Answer

LEMMA ReadingOps ==
  ASSUME Reading
  PROVE  answer'.op \notin StopOps \cup {"DeleteJob"} /\ batches' = batches
<1>1. ASSUME NEW op \in {"GetJob", "GetBatchJob"}, NEW name, NEW part, NEW b, NEW n,
             GetJobOf(op, name, part, b, n)
      PROVE  answer'.op = op /\ batches' = batches
  BY <1>1, AnswersOp DEF GetJobOf
<1>2. ASSUME NEW n \in Paths, GetJob(n) PROVE answer'.op = "GetJob" /\ batches' = batches
  BY <1>1, <1>2, AnswersOp DEF GetJob
<1>3. ASSUME NEW b, NEW n, GetBatchJob(b, n) PROVE answer'.op = "GetBatchJob" /\ batches' = batches
  BY <1>1, <1>3 DEF GetBatchJob
<1>4. ASSUME NEW b, GetBatch(b) PROVE answer'.op = "GetBatch" /\ batches' = batches
  BY <1>4, AnswersOp DEF GetBatch
<1>5. ASSUME GetJobs \/ GetBatches PROVE answer'.op \in {"GetJobs", "GetBatches"} /\ batches' = batches
  BY <1>5, AnswersOp DEF GetJobs, GetBatches
<1> QED BY <1>2, <1>3, <1>4, <1>5 DEF Reading, StopOps

LEMMA CreatingOps ==
  ASSUME Creating
  PROVE  answer'.op \notin StopOps \cup {"DeleteJob"} /\ Untouched
<1>1. PICK op \in {"CreateJob", "CreateBatch", "CopyBatch", "CopyJob"} :
        \/ \E name, c, o, result : Create(op, name, c, o, result)
        \/ \E name, result : Refuse(op, name, None, result)
  BY DEF Creating, CreateJob, CreateBatch, CopyBatch, CopyJob, CopyJobOf
<1>2. CASE \E name, c, o, result : Create(op, name, c, o, result)
  <2>1. PICK c, o : answer'.op = op /\ c \notin Live /\ batches' = With(c, o)
    BY <1>2, AnswersOp
  <2> QED BY <2>1 DEF With, Untouched, Live, StopOps
<1>3. CASE \E name, result : Refuse(op, name, None, result)
  BY <1>3, AnswersOp DEF Untouched, StopOps
<1> QED BY <1>1, <1>2, <1>3

LEMMA DeleteOp ==
  ASSUME NEW op, NEW name, NEW b, Delete(op, name, b)
  PROVE  /\ answer'.op = op /\ answer'.name = name /\ Untouched
         /\ \A c \in Live : c \notin Live' => c = b
<1>1. PICK result : Do(op, name, None, result, Without(b))
  BY DEF Delete
<1> QED BY <1>1, AnswersOp DEF Without, Untouched, Live

LEMMA DeletingOps ==
  ASSUME Deleting
  PROVE  answer'.op \notin StopOps /\ Untouched
<1>1. ASSUME NEW b, DeleteBatch(b) PROVE answer'.op = "DeleteBatch" /\ Untouched
  BY <1>1, AnswersOp, DeleteOp DEF DeleteBatch, Untouched
<1>2. ASSUME NEW n, DeleteJob(n) PROVE answer'.op = "DeleteJob" /\ Untouched
  BY <1>2, AnswersOp, DeleteOp DEF DeleteJob, Untouched
<1> QED BY <1>1, <1>2 DEF Deleting, StopOps

\* What the property says of a step and one job.
StopMeant(b, j) ==
  /\ j \in batches'[b].stop \ batches[b].stop => AskedToStop(b, j)
  /\ AskedToStop(b, j) /\ answer'.result = "ok" =>
       \/ j \in batches'[b].stop
       \/ Finished(batches[b], j)
       \/ AboutAllBatches /\ batches[b].cond \notin Stoppable

LEMMA NotAsked ==
  ASSUME answer'.op \notin StopOps, NEW b, NEW j
  PROVE  ~AskedToStop(b, j)
  BY DEF AskedToStop, StopOps

\* What a batch's flags are after a stop.
LEMMA Flags ==
  ASSUME NEW o, Good(o), NEW J
  PROVE  WithStop(o, J).stop = o.stop \cup {j \in J : ~Finished(o, j)}
  BY DEF Good, Object, WithStop

AllMeant == \A c \in Live, j \in JobNames : j \in batches[c].jobs => StopMeant(c, j)

\* A stop that asks for what its client means does what its client means.
LEMMA StopIsMeant ==
  ASSUME IndInv, NEW op, NEW name, NEW part, NEW T, NEW b, NEW k, StopNamed(op, name, part, T, b, k),
         b = NoName => AboutAllBatches,
         \A c \in Live, j \in JobNames :
           j \in batches[c].jobs => (AskedToStop(c, j) <=> c \in BatchesAsked(T, b) /\ j \in JobsAsked(c, k))
  PROVE  AllMeant
<1> SUFFICES ASSUME NEW c \in Live, NEW j \in JobNames, j \in batches[c].jobs PROVE StopMeant(c, j)
  BY DEF AllMeant
<1> DEFINE B == BatchesAsked(T, b)
<1>1. PICK S \in SUBSET StoppableOf(B) :
        /\ batches' = Stopped(S, k)
        /\ answer'.result = "ok" => S = StoppableOf(B) /\ (b # NoName => S = B)
  BY NamedStop
<1>2. answer'.name = name /\ Good(batches[c])
  BY NamedStop DEF IndInv, AllGood, Live
<1>3. AskedToStop(c, j) <=> c \in B /\ j \in JobsAsked(c, k)
  OBVIOUS
<1>4. CASE c \in S
  <2>1. batches'[c].stop = batches[c].stop \cup {i \in JobsAsked(c, k) : ~Finished(batches[c], i)}
    BY <1>1, <1>2, <1>4, Flags DEF Stopped
  <2>2. c \in B
    BY <1>4 DEF StoppableOf
  <2> QED BY <1>3, <2>1, <2>2 DEF StopMeant
<1>5. CASE c \notin S
  <2>1. batches'[c] = batches[c]
    BY <1>1, <1>5 DEF Stopped
  <2>2. AskedToStop(c, j) /\ answer'.result = "ok" =>
          AboutAllBatches /\ batches[c].cond \notin Stoppable
    BY <1>1, <1>2, <1>3, <1>5 DEF StoppableOf
  <2> QED BY <2>1, <2>2 DEF StopMeant
<1> QED BY <1>4, <1>5

LEMMA RefusalMeant ==
  ASSUME NEW op, NEW name, NEW part, Refuse(op, name, part, "unknown")
  PROVE  AllMeant
  BY DEF AllMeant, StopMeant, Refuse, Answer

LEMMA StopBatchMeant ==
  ASSUME IndInv, NEW b \in BatchPaths, StopBatch(b)
  PROVE  AllMeant
<1>1. StopNamed("StopBatch", b, None, {"batch"}, b, Empty)
  BY DEF StopBatch
<1>2. answer'.op = "StopBatch" /\ answer'.name = b /\ b # NoName
  BY <1>1, NamedStop, NamesTyped
<1>3. ASSUME NEW c \in Live, NEW j, j \in batches[c].jobs
      PROVE  AskedToStop(c, j) <=> c \in BatchesAsked({"batch"}, b) /\ j \in JobsAsked(c, Empty)
  BY <1>2, <1>3 DEF AskedToStop, BatchesAsked, JobsAsked, OfType
<1> QED BY <1>1, <1>2, <1>3, StopIsMeant

LEMMA StopAllMeant ==
  ASSUME IndInv, StopAllJobs \/ StopAllBatches
  PROVE  AllMeant
<1>1. ASSUME NEW op, NEW type, StopNamed(op, None, None, {type}, NoName, Empty),
             \/ op = "StopAllJobs" /\ type = "job"
             \/ op = "StopAllBatches" /\ type = "batch"
      PROVE  AllMeant
  <2>1. answer'.op = op
    BY <1>1, NamedStop
  <2>2. ASSUME NEW c \in Live, NEW j, j \in batches[c].jobs
        PROVE  AskedToStop(c, j) <=> c \in BatchesAsked({type}, NoName) /\ j \in JobsAsked(c, Empty)
    BY <1>1, <2>1, <2>2 DEF AskedToStop, BatchesAsked, JobsAsked, OfType
  <2>3. AboutAllBatches
    BY <1>1, <2>1 DEF AboutAllBatches
  <2> QED BY <1>1, <2>2, <2>3, StopIsMeant
<1>2. CASE StopAllJobs
  BY <1>1, <1>2 DEF StopAllJobs
<1>3. CASE StopAllBatches
  BY <1>1, <1>3 DEF StopAllBatches
<1> QED BY <1>2, <1>3

\* What a name means is what its parts ask for.
LEMMA PartsAsked ==
  ASSUME IndInv, NEW n \in Seq(Words), Composed(n),
         NEW c \in Live, NEW j \in JobNames, j \in batches[c].jobs
  PROVE  Means(n, c, j) /\ batches[c].own <=>
           /\ c \in BatchesAsked({"batch", "job"}, BatchPart(n))
           /\ j \in JobsAsked(c, JobPart(n))
<1> DEFINE b == BatchPart(n)
           k == JobPart(n)
<1>1. c \in BatchNames /\ batches[c].type \in {"batch", "job"}
  BY DEF IndInv, AllGood, Good, Object, Live
<1>2. /\ b \in Seq(Words) /\ k \in Words /\ Empty \in Words /\ NoName \in Seq(Words)
      /\ c \in Seq(Words) /\ j \in Words
  BY <1>1, PartsOfFullName, NamesTyped, NamesAssumption DEF NoName
<1>3. /\ Folded(n) = FullName(Folded(b), Lower[k])
      /\ Folded(b) \in Seq(Words) /\ Lower[k] \in Words
  BY FoldedParts
<1>4. ASSUME NEW d \in Seq(Words), NEW i \in Words
      PROVE  Folded(n) = FullName(d, i) <=> Folded(b) = d /\ Lower[k] = i
  <2> HIDE DEF b, k
  <2>1. /\ BatchPart(FullName(d, i)) = d /\ JobPart(FullName(d, i)) = i
        /\ BatchPart(Folded(n)) = Folded(b) /\ JobPart(Folded(n)) = Lower[k]
    BY <1>3, FullNameParts
  <2> QED BY <1>3, <2>1
<1>5. Folded(b) = NoName <=> b = NoName
  BY <1>2, FoldedEmpty
<1>6. Lower[k] = Empty <=> k = Empty
  BY <1>2, NamesAssumption
<1>7. Means(n, c, j) <=> (b = NoName \/ Folded(b) = c) /\ (k = Empty \/ Lower[k] = j)
  <2> HIDE DEF b, k
  <2> QED BY <1>2, <1>4, <1>5, <1>6 DEF Means
<1> QED BY <1>1, <1>7 DEF BatchesAsked, JobsAsked, OfType

LEMMA StopJobMeant ==
  ASSUME IndInv, NEW n \in Paths, StopJob(n)
  PROVE  AllMeant
<1>1. CASE ~Composed(n)
  BY <1>1, RefusalMeant DEF StopJob, StopJobNamed
<1>2. CASE Composed(n)
  <2>1. StopNamed("StopJob", n, None, {"batch", "job"}, BatchPart(n), JobPart(n))
    BY <1>2 DEF StopJob, StopJobNamed
  <2>2. answer'.op = "StopJob" /\ answer'.name = n
    BY <2>1, NamedStop
  <2>3. n \in Seq(Words) /\ (BatchPart(n) = NoName => AboutAllBatches)
    BY <2>2, NamesTyped DEF AboutAllBatches, NameToStop
  <2>4. ASSUME NEW c \in Live, NEW j \in JobNames, j \in batches[c].jobs
        PROVE  AskedToStop(c, j) <=> /\ c \in BatchesAsked({"batch", "job"}, BatchPart(n))
                                     /\ j \in JobsAsked(c, JobPart(n))
    <3>1. AskedToStop(c, j) <=> Means(n, c, j) /\ batches[c].own
      BY <2>2 DEF AskedToStop
    <3> QED BY <1>2, <2>3, <2>4, <3>1, PartsAsked
  <2> QED BY <2>1, <2>3, <2>4, StopIsMeant
<1> QED BY <1>1, <1>2

LEMMA StopBatchJobMeant ==
  ASSUME IndInv, NEW b \in BatchPaths, NEW n \in JobPaths(b), StopBatchJob(b, n)
  PROVE  AllMeant
<1> DEFINE m == b \o n
<1>1. CASE ~Composed(m)
  BY <1>1, RefusalMeant DEF StopBatchJob, StopJobNamed
<1>2. CASE Composed(m)
  <2>1. StopNamed("StopBatchJob", b, n, {"batch", "job"}, BatchPart(m), JobPart(m))
    BY <1>2 DEF StopBatchJob, StopJobNamed
  <2>2. answer'.op = "StopBatchJob" /\ answer'.name = b /\ answer'.part = n
    BY <2>1, NamedStop
  <2>3. b \in Seq(Words) /\ n \in Seq(Words) /\ n # <<>> /\ m \in Seq(Words)
    BY NamesTyped
  <2>4. BatchPart(m) = NoName => AboutAllBatches
    BY <2>2 DEF AboutAllBatches, NameToStop
  <2>5. ASSUME NEW c \in Live, NEW j \in JobNames, j \in batches[c].jobs
        PROVE  AskedToStop(c, j) <=> /\ c \in BatchesAsked({"batch", "job"}, BatchPart(m))
                                     /\ j \in JobsAsked(c, JobPart(m))
    <3>1. c \in BatchNames
      BY DEF IndInv, AllGood, Live
    <3>2. AskedToStop(c, j) <=>
            /\ batches[c].own /\ Means(m, c, j)
            /\ Folded(b) \in BatchNames => Folded(b) = c
      BY <2>2 DEF AskedToStop, NameToStop
    <3>3. Means(m, c, j) /\ batches[c].own <=>
            /\ c \in BatchesAsked({"batch", "job"}, BatchPart(m))
            /\ j \in JobsAsked(c, JobPart(m))
      BY <1>2, <2>3, <2>5, PartsAsked
    <3>4. c \in BatchesAsked({"batch", "job"}, BatchPart(m)) /\ Folded(b) \in BatchNames => Folded(b) = c
      <4> SUFFICES ASSUME c \in BatchesAsked({"batch", "job"}, BatchPart(m)), Folded(b) \in BatchNames
                   PROVE  Folded(b) = c
        OBVIOUS
      <4>1. BatchPart(m) # NoName
        BY <2>3, BatchFirst
      <4>2. Folded(BatchPart(m)) = c
        <5> HIDE DEF m
        <5> QED BY <4>1 DEF BatchesAsked
      <4> QED BY <1>2, <2>3, <3>1, <4>2, NoOtherBatch
    <3> HIDE DEF m
    <3> QED BY <3>2, <3>3, <3>4
  <2> QED BY <2>1, <2>4, <2>5, StopIsMeant
<1> QED BY <1>1, <1>2

\* A request stops the jobs that its name means and no other, for all names, also
\* when those of several batches or jobs have parts in common.
THEOREM StopsNamed == Spec => StopsWhatIsNamed
<1> DEFINE Meant == Answered => \A b \in BatchNames, j \in JobNames :
                                  HasJob(b, j) /\ HasJob(b, j)' => StopMeant(b, j)
<1>1. ASSUME IndInv, [Next]_vars, ~UNCHANGED vars PROVE Meant
  <2> SUFFICES ASSUME Answered, NEW b \in BatchNames, NEW j \in JobNames,
                      HasJob(b, j), HasJob(b, j)'
               PROVE  StopMeant(b, j)
    OBVIOUS
  <2>1. b \in Live /\ b \in Live' /\ j \in batches[b].jobs
    BY DEF HasJob
  <2>2. CASE Stopping
    <3>1. CASE StopAllJobs \/ StopAllBatches
      BY <1>1, <2>1, <3>1, StopAllMeant DEF AllMeant
    <3>2. CASE ~(StopAllJobs \/ StopAllBatches)
      BY <1>1, <2>1, <2>2, <3>2, StopBatchMeant, StopJobMeant, StopBatchJobMeant DEF Stopping, AllMeant
    <3> QED BY <3>1, <3>2
  <2>3. CASE Reading \/ Creating \/ Deleting
    <3>1. answer'.op \notin StopOps /\ batches'[b] = batches[b]
      BY <2>1, <2>3, ReadingOps, CreatingOps, DeletingOps DEF Untouched
    <3> QED BY <3>1, NotAsked DEF StopMeant
  <2>4. CASE Silent
    BY <1>1, <2>4, SilentSteps DEF Silent
  <2> QED BY <1>1, <2>2, <2>3, <2>4, NextKinds
<1>2. IndInv /\ [Next]_vars => [Meant]_vars
  BY <1>1
<1>3. [][Meant]_vars => StopsWhatIsNamed
  BY DEF StopsWhatIsNamed, StopMeant
<1> QED BY <1>2, <1>3, Invariance, PTL DEF Spec

\* A deleted job takes no other with it.
THEOREM DeletesAlone == Spec => DeleteJobDeletesItAlone
<1> DEFINE Alone == Answered /\ answer'.op = "DeleteJob" =>
                      \A b \in BatchNames, j \in JobNames :
                        HasJob(b, j) /\ ~HasJob(b, j)' => answer'.name = FullName(b, j)
<1>1. ASSUME IndInv, [Next]_vars, ~UNCHANGED vars PROVE Alone
  <2> SUFFICES ASSUME Answered, answer'.op = "DeleteJob", NEW b \in BatchNames, NEW j \in JobNames,
                      HasJob(b, j), ~HasJob(b, j)'
               PROVE  answer'.name = FullName(b, j)
    OBVIOUS
  <2>1. ~Stopping
    <3>1. ~StopAllJobs /\ ~StopAllBatches
      BY <1>1, NamedStop DEF StopAllJobs, StopAllBatches
    <3>2. \A n, c : ~StopJob(n) /\ ~StopBatchJob(c, n)
      BY <1>1, JobStop DEF StopJob, StopBatchJob
    <3>3. \A c : ~StopBatch(c)
      BY <1>1, NamedStop DEF StopBatch
    <3> QED BY <3>1, <3>2, <3>3 DEF Stopping
  <2>2. ~Reading /\ ~Creating
    BY ReadingOps, CreatingOps
  <2>3. ~Silent
    BY <1>1, SilentSteps DEF Silent
  <2>4. \A a : ~DeleteBatch(a)
    BY AnswersOp, DeleteOp DEF DeleteBatch
  <2>5. PICK n \in Paths : DeleteJob(n)
    BY <1>1, <2>1, <2>2, <2>3, <2>4, NextKinds DEF Deleting
  <2>6. batches' # batches
    BY DEF HasJob, Live
  <2>7. DeleteRefusal(n) = None /\ Delete("DeleteJob", n, BatchPart(n))
    BY <2>5, <2>6, AnswersOp DEF DeleteJob
  <2>8. /\ BatchPart(n) \in Live /\ batches[BatchPart(n)].type = "job"
        /\ JobPart(n) \in batches[BatchPart(n)].jobs /\ n = FullName(BatchPart(n), JobPart(n))
    <3>1. /\ BatchPart(n) \in Live /\ batches[BatchPart(n)].type = "job"
          /\ n \in Listed({BatchPart(n)})
      BY <2>7, NamesAssumption DEF DeleteRefusal, LookUp, Results
    <3>2. {BatchPart(n)} \in SUBSET Live
      BY <3>1
    <3> QED BY <1>1, <3>1, <3>2, ListingIsTrue DEF IndInv
  <2>9. b = BatchPart(n) /\ answer'.name = n
    BY <2>7, DeleteOp DEF HasJob, Untouched
  <2>10. j = JobPart(n)
    BY <1>1, <2>8, <2>9 DEF HasJob, IndInv, AllGood, Good, Single, Live
  <2> QED BY <2>8, <2>9, <2>10
<1>2. IndInv /\ [Next]_vars => [Alone]_vars
  BY <1>1
<1> QED BY <1>2, Invariance, PTL DEF Spec, DeleteJobDeletesItAlone

(***************************************************************************)
(* The status of a batch.                                                  *)
(***************************************************************************)
\* A set of numbers has a least one: the intervals from 0 to its members are
\* finite sets, of which one is a strict subset of none.
LEMMA LeastMember ==
  ASSUME NEW I \in SUBSET Nat, I # {}
  PROVE  Min(I) \in I /\ \A k \in I : Min(I) <= k
<1> DEFINE Below == {0..k : k \in I}
           S == UNION Below
<1>1. IsWellFoundedOn(StrictSubsetOrdering(S), FiniteSubsetsOf(S))
  BY FS_StrictSubsetOrderingWellFounded
<1>2. Below \subseteq FiniteSubsetsOf(S) /\ Below # {}
  <2>1. \A k \in I : IsFiniteSet(0..k)
    BY FS_Interval
  <2> QED BY <2>1 DEF FiniteSubsetsOf
<1>3. PICK B \in Below : \A C \in Below : <<C, B>> \notin StrictSubsetOrdering(S)
  BY <1>1, <1>2, WFMin
<1>4. PICK m \in I : B = 0..m
  OBVIOUS
<1>5. \A k \in I : m <= k
  <2> SUFFICES ASSUME NEW k \in I, k < m PROVE FALSE
    OBVIOUS
  <2>1. 0..k \subseteq 0..m /\ 0..k # 0..m
    <3>1. m \in 0..m /\ m \notin 0..k
      OBVIOUS
    <3>2. \A i \in 0..k : i \in 0..m
      OBVIOUS
    <3> QED BY <3>1, <3>2
  <2>2. 0..k \in Below
    OBVIOUS
  <2>3. <<0..k, 0..m>> \in StrictSubsetOrdering(S)
    BY <1>4, <2>1 DEF StrictSubsetOrdering
  <2> QED BY <1>3, <1>4, <2>2, <2>3
<1> QED BY <1>5 DEF Min

\* A rule holds of the phases as the reference says.
LEMMA RuleHoldsAsItSays ==
  ASSUME NEW i \in DOMAIN Rules, NEW phases
  PROVE  RuleHolds(Rules[i], phases) <=> Holds(Rules[i], phases)
<1> DEFINE rule == Rules[i]
           R == [condition : {"Any", "All"}, operator : {"In", "NotIn"},
                 phases : SUBSET STRING, status : STRING]
<1>1. rule.condition \in {"Any", "All"} /\ rule.operator \in {"In", "NotIn"}
  <2>1. Rules \in Seq(R)
    BY RulesAssumption
  <2>2. i \in 1..Len(Rules)
    <3> HIDE DEF R
    <3> QED BY <2>1
  <2>3. rule \in R
    <3> HIDE DEF R
    <3> QED BY <2>1, <2>2, ElementOfSeq
  <2> QED BY <2>3
<1> HIDE DEF rule
<1>2. RuleHolds(rule, phases) <=> Holds(rule, phases)
  BY <1>1 DEF RuleHolds, Holds, EvaluateCondition
<1> QED BY <1>2 DEF rule

\* What FirstRuleDecides says of the status s of a batch with these phases and
\* this condition.
Decided(s, phases, cond) ==
  LET holding == {i \in DOMAIN Rules : Holds(Rules[i], phases)}
  IN  \/ \E i \in holding :
           (\A k \in holding : i <= k) /\ s = Rules[i].status
      \/ /\ holding = {}
         /\ s = IF cond = "" THEN "Waiting" ELSE cond

LEMMA RulesDecide ==
  ASSUME NEW phases, NEW cond
  PROVE  Decided(StatusFromRules(phases, cond), phases, cond)
<1> DEFINE holding == {i \in DOMAIN Rules : Holds(Rules[i], phases)}
           first == SelectInSeq(Rules, LAMBDA rule : RuleHolds(rule, phases))
<1>1. DOMAIN Rules = 1..Len(Rules) /\ Len(Rules) \in Nat
  BY RulesAssumption
<1>2. holding = {i \in 1..Len(Rules) : RuleHolds(Rules[i], phases)}
  BY <1>1, RuleHoldsAsItSays
<1>3. first = IF holding # {} THEN Min(holding) ELSE 0
  BY <1>2 DEF SelectInSeq
<1>4. holding \in SUBSET Nat /\ 0 \notin holding
  BY <1>1
<1>5. StatusFromRules(phases, cond) =
        CASE first # 0 -> Rules[first].status
          [] first = 0 /\ cond # "" -> cond
          [] OTHER -> "Waiting"
  BY DEF StatusFromRules
<1> HIDE DEF first
<1>6. CASE holding = {}
  BY <1>3, <1>5, <1>6 DEF Decided
<1>7. CASE holding # {}
  <2>1. first \in holding /\ \A k \in holding : first <= k
    <3> HIDE DEF holding
    <3> QED BY <1>3, <1>4, <1>7, LeastMember
  <2>2. first # 0
    BY <1>4, <2>1
  <2>3. StatusFromRules(phases, cond) = Rules[first].status
    BY <1>5, <2>2
  <2> QED BY <2>1, <2>3 DEF Decided
<1> QED BY <1>6, <1>7

\* Until an answer is received the summary of a batch is its status.
SummaryIsTrue ==
  answer # None =>
    \A b \in DOMAIN answer.summary : answer.summary[b] = BatchStatus(batches[b])

LEMMA SummaryNext == IndInv /\ SummaryIsTrue /\ [Next]_vars => SummaryIsTrue'
<1> SUFFICES ASSUME IndInv, SummaryIsTrue, [Next]_vars PROVE SummaryIsTrue'
  OBVIOUS
<1>1. ASSUME NEW op, NEW name, NEW part, NEW result
      PROVE  /\ Refuse(op, name, part, result) => SummaryIsTrue'
             /\ \A B : Do(op, name, part, result, B) => SummaryIsTrue'
             /\ \A jobs : Read(op, name, part, jobs, Nameless) => SummaryIsTrue'
  BY DEF Refuse, Do, Read, Answer, Nameless, SummaryIsTrue
<1>2. ASSUME NEW op, NEW name, NEW part, NEW jobs, NEW B, Read(op, name, part, jobs, Summary(B))
      PROVE  SummaryIsTrue'
  BY <1>2 DEF Read, Answer, Summary, SummaryIsTrue
<1>3. ASSUME NEW op, NEW name, NEW c, NEW o, NEW result, Create(op, name, c, o, result)
      PROVE  SummaryIsTrue'
  BY <1>3 DEF Create, Answer, With, SummaryIsTrue
<1>4. CASE Stopping
  BY <1>1, <1>4
  DEF Stopping, StopAllJobs, StopAllBatches, StopJob, StopBatch, StopBatchJob,
      StopJobNamed, StopNamed
<1>5. CASE Reading
  BY <1>1, <1>2, <1>5 DEF Reading, GetJobs, GetBatches, GetBatch, GetJob, GetBatchJob, GetJobOf
<1>6. CASE Creating
  BY <1>1, <1>3, <1>6 DEF Creating, CreateJob, CreateBatch, CopyBatch, CopyJob, CopyJobOf
<1>7. CASE Deleting
  BY <1>1, <1>7 DEF Deleting, DeleteBatch, DeleteJob, Delete
<1>8. CASE Silent
  BY <1>8, SilentSteps DEF Silent, Answered, SummaryIsTrue
<1>9. CASE UNCHANGED vars
  BY <1>9 DEF vars, SummaryIsTrue
<1> QED BY <1>4, <1>5, <1>6, <1>7, <1>8, <1>9, NextKinds

\* Whatever rules there are, the first that holds decides what is reported for a
\* batch (getStatusFromStatusRules).
THEOREM FirstDecides == Spec => []FirstRuleDecides
<1>1. Init => SummaryIsTrue
  BY DEF Init, SummaryIsTrue
<1>2. SummaryIsTrue => FirstRuleDecides
  <2> SUFFICES ASSUME SummaryIsTrue, answer # None,
                      NEW b \in DOMAIN answer.summary, batches[b].type = "batch"
               PROVE  Decided(answer.summary[b], JobPhases(batches[b]), batches[b].cond)
    BY DEF FirstRuleDecides, Decided
  <2>1. answer.summary[b] = BatchStatus(batches[b])
    BY DEF SummaryIsTrue
  <2>2. BatchStatus(batches[b]) = StatusFromRules(JobPhases(batches[b]), batches[b].cond)
    BY DEF BatchStatus, IsSingleJob
  <2> QED BY <2>1, <2>2, RulesDecide
<1> QED BY <1>1, <1>2, SummaryNext, Invariance, PTL DEF Spec

====
