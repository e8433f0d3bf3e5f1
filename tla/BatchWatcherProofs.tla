---- MODULE BatchWatcherProofs ----
(***************************************************************************)
(* Proofs about BatchWatcher, for any batches and jobs, and for any number *)
(* of writes, broken watches and crashes.                                  *)
(***************************************************************************)
EXTENDS BatchWatcher, SequenceTheorems, TLAPS

USE WatcherAssumption, NoneAssumption

\* What the informer delivers of a batch ends with its deletion, and begins with
\* an object unless it has delivered one already; names are not reused.
DeliveryOf(b) ==
  /\ Live(b) \/ queue[b] # <<>> \/ store[b] # None \/ b \in known \/ creates[b] # 0 => b \in made
  /\ proc # "up" => queue[b] = <<>> /\ store[b] = None
  /\ proc = "up" /\ Live(b) => queue[b] # <<>> \/ store[b] # None
  /\ \A i \in DOMAIN queue[b] : queue[b][i].kind # "object" => i = Len(queue[b]) /\ ~Live(b)
  /\ queue[b] # <<>> /\ store[b] = None => queue[b][1].kind # "deleted"

\* A batch that was announced is known, or is stored, or will not be delivered
\* to this process any more.
AnnouncedOnce(b) ==
  /\ creates[b] \in {0, 1}
  /\ creates[b] = 1 /\ b \notin known =>
       /\ proc = "named" => ~Live(b)
       /\ proc = "up" /\ store[b] = None =>
            ~Live(b) /\ \A i \in DOMAIN queue[b] : queue[b][i].kind # "object"

ToldIsStored(b) ==
  told[b] # None =>
    /\ store[b] # None
    /\ told[b].cond = store[b].cond
    /\ \A j \in Jobs : store[b].phase[j] # "none" => told[b].phase[j] = store[b].phase[j]

\* AtMostOneCreate says how often the handlers announced a batch; that they do
\* not announce it again depends on what they have noted and what is to come.
IndInv ==
  /\ TypeOK
  /\ \A b \in Batches : DeliveryOf(b) /\ AnnouncedOnce(b) /\ ToldIsStored(b)

(***************************************************************************)
(* Queues.                                                                 *)
(***************************************************************************)
LEMMA Published ==
  ASSUME TypeOK, NEW b \in Batches, NEW e \in Events, Publish(b, e)
  PROVE  /\ queue' \in [Batches -> Seq(Events)]
         /\ \A c \in Batches \ {b} : queue'[c] = queue[c]
         /\ proc # "up" => queue'[b] = queue[b]
         /\ proc = "up" => /\ queue'[b] # <<>>
                           /\ DOMAIN queue'[b] = 1..Len(queue[b]) + 1
                           /\ Len(queue'[b]) = Len(queue[b]) + 1
                           /\ \A i \in 1..Len(queue[b]) : queue'[b][i] = queue[b][i]
                           /\ queue'[b][Len(queue[b]) + 1] = e
         /\ DOMAIN queue[b] = 1..Len(queue[b]) /\ Len(queue[b]) \in Nat
<1>1. queue[b] \in Seq(Events) /\ Len(queue[b]) \in Nat /\ DOMAIN queue[b] = 1..Len(queue[b])
  BY LenProperties DEF TypeOK
<1>2. Append(queue[b], e) \in Seq(Events) /\ Len(Append(queue[b], e)) = Len(queue[b]) + 1
  BY <1>1
<1>3. DOMAIN Append(queue[b], e) = 1..Len(queue[b]) + 1 /\ Append(queue[b], e) # <<>>
  BY <1>1, <1>2, LenProperties
<1>4. /\ \A i \in 1..Len(queue[b]) : Append(queue[b], e)[i] = queue[b][i]
      /\ Append(queue[b], e)[Len(queue[b]) + 1] = e
  BY <1>1
<1>5. CASE proc = "up"
  <2>1. /\ queue' = [queue EXCEPT ![b] = Append(queue[b], e)]
        /\ queue \in [Batches -> Seq(Events)]
    BY <1>5 DEF Publish, TypeOK
  <2>2. queue'[b] = Append(queue[b], e) /\ \A c \in Batches \ {b} : queue'[c] = queue[c]
    BY <2>1
  <2>3. queue' \in [Batches -> Seq(Events)]
    BY <1>2, <2>1
  <2> QED BY <1>1, <1>2, <1>3, <1>4, <1>5, <2>2, <2>3
<1>6. CASE proc # "up"
  BY <1>1, <1>6 DEF Publish, TypeOK
<1> QED BY <1>5, <1>6

LEMMA Received ==
  ASSUME TypeOK, NEW b \in Batches, NEW kind, Receive(b, kind)
  PROVE  /\ proc = "up" /\ queue[b] # <<>>
         /\ Head(queue[b]) \in Events /\ Head(queue[b]) = queue[b][1] /\ queue[b][1].kind = kind
         /\ queue' \in [Batches -> Seq(Events)]
         /\ \A c \in Batches \ {b} : queue'[c] = queue[c]
         /\ Len(queue[b]) \in Nat \ {0} /\ Len(queue'[b]) = Len(queue[b]) - 1
         /\ DOMAIN queue[b] = 1..Len(queue[b]) /\ DOMAIN queue'[b] = 1..Len(queue[b]) - 1
         /\ \A i \in 1..Len(queue[b]) - 1 : queue'[b][i] = queue[b][i + 1]
<1>1. /\ queue \in [Batches -> Seq(Events)] /\ queue[b] \in Seq(Events)
      /\ queue[b] # <<>> /\ proc = "up" /\ Head(queue[b]).kind = kind
      /\ queue' = [queue EXCEPT ![b] = Tail(queue[b])]
  BY DEF TypeOK, Receive
<1>2. /\ Head(queue[b]) \in Events
      /\ Tail(queue[b]) \in Seq(Events)
      /\ Len(Tail(queue[b])) = Len(queue[b]) - 1
      /\ \A i \in 1..Len(Tail(queue[b])) : Tail(queue[b])[i] = queue[b][i + 1]
  BY <1>1, HeadTailProperties
<1>3. /\ Len(queue[b]) \in Nat \ {0} /\ DOMAIN queue[b] = 1..Len(queue[b])
      /\ DOMAIN Tail(queue[b]) = 1..Len(queue[b]) - 1
  BY <1>1, <1>2, LenProperties, EmptySeq
<1>4. Head(queue[b]) = queue[b][1]
  BY <1>1
<1>5. /\ queue'[b] = Tail(queue[b]) /\ \A c \in Batches \ {b} : queue'[c] = queue[c]
      /\ queue' \in [Batches -> Seq(Events)]
  BY <1>1, <1>2
<1> QED BY <1>1, <1>2, <1>3, <1>4, <1>5

LEMMA Notified ==
  ASSUME TypeOK, NEW b \in Batches, NEW ev \in {"Create", "Update", "Delete"}, NEW o \in Objects,
         Notify(b, ev, o)
  PROVE  notes' \in [Batches -> Seq(Notes)]
<1>1. [event |-> ev, version |-> o.version] \in Notes
  BY DEF Notes, Objects
<1>2. notes \in [Batches -> Seq(Notes)] /\ notes[b] \in Seq(Notes)
  BY DEF TypeOK
<1>3. Append(notes[b], [event |-> ev, version |-> o.version]) \in Seq(Notes)
  BY <1>1, <1>2
<1> QED BY <1>2, <1>3 DEF Notify

\* The event of an object is the event of some object of the right type.
LEMMA EventObject ==
  ASSUME NEW e \in Events, e.kind = "object"
  PROVE  e.obj \in Objects
  BY DEF Events, Object, Deleted, Tombstone

LEMMA NewObjectTyped == NewObject \in Objects
<1>1. 1 \in 1..MaxVersion
  OBVIOUS
<1> QED BY <1>1 DEF NewObject, Objects

\* What the writes of the operator and of requests leave is an object again.
LEMMA NextVersion ==
  ASSUME NEW o \in Objects, o.version < MaxVersion
  PROVE  /\ \A cnd \in Conditions, p \in [Jobs -> Phases] :
              [o EXCEPT !.version = @ + 1, !.cond = cnd, !.phase = p] \in Objects
         /\ \A S \in SUBSET Jobs : [o EXCEPT !.version = @ + 1, !.stop = S] \in Objects
<1>1. o.version \in 1..MaxVersion /\ MaxVersion \in Nat
  BY DEF Objects
<1>2. o.version + 1 \in 1..MaxVersion
  BY <1>1
<1> DEFINE v == o.version + 1
<1>3. v \in 1..MaxVersion
  BY <1>2
<1> HIDE DEF v
<1>4. \A cnd \in Conditions, p \in [Jobs -> Phases] :
         [o EXCEPT !.version = v, !.cond = cnd, !.phase = p] \in Objects
  BY <1>3 DEF Objects
<1>5. \A S \in SUBSET Jobs : [o EXCEPT !.version = v, !.stop = S] \in Objects
  BY <1>3 DEF Objects
<1> QED BY <1>4, <1>5 DEF v

(***************************************************************************)
(* The cluster.                                                            *)
(***************************************************************************)
LEMMA WriteStep ==
  ASSUME IndInv, NEW b \in Batches, NEW o \in Objects, Write(b, o),
         made' = made \cup {b}, Live(b) \/ b \notin made
  PROVE  IndInv'
<1> USE DEF IndInv
<1> DEFINE e == Object(o)
<1>1. e \in Events /\ e.kind = "object"
  BY DEF Events, Object
<1>2. /\ UNCHANGED <<proc, known, store, cleaning, notes, told, creates, deleteTold, relists, crashes>>
      /\ Publish(b, e)
      /\ object' = [object EXCEPT ![b] = o]
  BY DEF Write, noteVars
<1>3. TypeOK'
  BY <1>1, <1>2, Published DEF TypeOK
<1>4. \A c \in Batches \ {b} : object'[c] = object[c] /\ queue'[c] = queue[c]
  BY <1>1, <1>2, Published DEF TypeOK
<1>5. object'[b] = o /\ o # None
  BY <1>2 DEF TypeOK
<1>6. \A i \in DOMAIN queue[b] : queue[b][i].kind = "object"
  <2>1. CASE Live(b)
    BY <2>1 DEF DeliveryOf
  <2>2. CASE b \notin made
    <3>1. queue[b] = <<>>
      BY <2>2 DEF DeliveryOf
    <3> QED BY <3>1
  <2> QED BY <2>1, <2>2
<1>7. DeliveryOf(b)'
  <2>1. CASE proc = "up"
    <3>1. \A i \in DOMAIN queue'[b] : queue'[b][i].kind = "object"
      BY <1>1, <1>2, <1>6, <2>1, Published
    <3>2. queue'[b] # <<>> /\ 1 \in DOMAIN queue'[b]
      BY <1>1, <1>2, <2>1, Published
    <3> QED BY <1>2, <1>5, <2>1, <3>1, <3>2 DEF DeliveryOf, Live
  <2>2. CASE proc # "up"
    <3>1. queue'[b] = queue[b]
      BY <1>1, <1>2, <2>2, Published
    <3> QED BY <1>2, <2>2, <3>1 DEF DeliveryOf
  <2> QED BY <2>1, <2>2
<1>8. AnnouncedOnce(b)'
  BY <1>2 DEF AnnouncedOnce, DeliveryOf
<1>9. \A c \in Batches \ {b} : DeliveryOf(c)' /\ AnnouncedOnce(c)'
  BY <1>2, <1>4 DEF DeliveryOf, AnnouncedOnce, Live
<1>10. \A c \in Batches : ToldIsStored(c)'
  BY <1>2 DEF ToldIsStored
<1> QED BY <1>3, <1>7, <1>8, <1>9, <1>10

LEMMA RemoveStep ==
  ASSUME IndInv, NEW b \in Batches, Remove(b),
         UNCHANGED <<made, proc, store, cleaning, noteVars, relists, crashes>>,
         known' = known \/ (known' = known \ {b} /\ store[b] # None)
  PROVE  IndInv'
<1> USE DEF IndInv
<1>1. Deleted \in Events /\ Deleted.kind = "deleted"
  BY DEF Events, Deleted
<1>2. /\ UNCHANGED <<made, proc, store, cleaning, notes, told, creates, deleteTold, relists, crashes>>
      /\ Live(b) /\ Publish(b, Deleted)
      /\ object' = [object EXCEPT ![b] = None]
  BY DEF Remove, noteVars
<1>3. TypeOK'
  BY <1>1, <1>2, Published DEF TypeOK
<1>4. \A c \in Batches \ {b} : object'[c] = object[c] /\ queue'[c] = queue[c] /\ (c \in known' <=> c \in known)
  BY <1>1, <1>2, Published DEF TypeOK
<1>5. ~Live(b)'
  BY <1>2 DEF TypeOK, Live
<1>6. \A i \in DOMAIN queue[b] : queue[b][i].kind = "object"
  BY <1>2 DEF DeliveryOf
<1>7. b \in made
  BY <1>2 DEF DeliveryOf
<1>8. DeliveryOf(b)'
  <2>1. CASE proc = "up"
    <3>1. \A i \in DOMAIN queue'[b] : queue'[b][i].kind # "object" => i = Len(queue'[b])
      BY <1>1, <1>2, <1>6, <2>1, Published
    <3>2. ASSUME store[b] = None PROVE queue'[b][1].kind = "object"
      <4>1. queue[b] # <<>> /\ queue[b] \in Seq(Events)
        BY <1>2, <2>1, <3>2 DEF DeliveryOf, TypeOK
      <4>2. 1 \in DOMAIN queue[b] /\ 1 \in 1..Len(queue[b])
        BY <4>1, LenProperties, EmptySeq
      <4>3. queue'[b][1] = queue[b][1]
        BY <1>1, <1>2, <2>1, <4>2, Published
      <4> QED BY <1>6, <4>2, <4>3
    <3> QED BY <1>2, <1>5, <1>7, <2>1, <3>1, <3>2 DEF DeliveryOf
  <2>2. CASE proc # "up"
    <3>1. queue'[b] = queue[b]
      BY <1>1, <1>2, <2>2, Published
    <3> QED BY <1>2, <1>5, <1>7, <2>2, <3>1 DEF DeliveryOf
  <2> QED BY <2>1, <2>2
<1>9. AnnouncedOnce(b)'
  BY <1>2, <1>5 DEF AnnouncedOnce
<1>10. \A c \in Batches \ {b} : DeliveryOf(c)' /\ AnnouncedOnce(c)'
  BY <1>2, <1>4 DEF DeliveryOf, AnnouncedOnce, Live
<1>11. \A c \in Batches : ToldIsStored(c)'
  BY <1>2 DEF ToldIsStored
<1> QED BY <1>3, <1>8, <1>9, <1>10, <1>11

(***************************************************************************)
(* The handlers.                                                           *)
(***************************************************************************)
\* The object that a handler receives is stored, and known to be made.
LEMMA DeliverStep ==
  ASSUME IndInv, NEW b \in Batches, Receive(b, "object"),
         store' = [store EXCEPT ![b] = queue[b][1].obj],
         UNCHANGED <<object, made, proc, known>>,
         creates'[b] \in {0, 1}, \A c \in Batches \ {b} : creates'[c] = creates[c]
  PROVE  /\ queue' \in [Batches -> Seq(Events)] /\ store' \in [Batches -> Objects \cup {None}]
         /\ queue[b][1].obj \in Objects /\ store'[b] = queue[b][1].obj /\ store'[b] # None
         /\ \A c \in Batches \ {b} : store'[c] = store[c]
         /\ \A c \in Batches : DeliveryOf(c)' /\ AnnouncedOnce(c)'
<1> USE DEF IndInv
<1>1. queue[b][1].obj \in Objects
  BY Received, EventObject
<1>2. /\ store'[b] = queue[b][1].obj /\ store'[b] # None
      /\ \A c \in Batches \ {b} : store'[c] = store[c]
      /\ store' \in [Batches -> Objects \cup {None}]
  BY <1>1 DEF TypeOK
<1>3. queue' \in [Batches -> Seq(Events)] /\ \A c \in Batches \ {b} : queue'[c] = queue[c]
  BY Received
<1>4. DeliveryOf(b)'
  <2>1. b \in made /\ proc = "up"
    BY Received DEF DeliveryOf
  <2>2. \A i \in DOMAIN queue'[b] : queue'[b][i].kind # "object" => i = Len(queue'[b]) /\ ~Live(b)
    <3> SUFFICES ASSUME NEW i \in DOMAIN queue'[b], queue'[b][i].kind # "object"
                 PROVE  i = Len(queue'[b]) /\ ~Live(b)
      OBVIOUS
    <3>1. i \in 1..Len(queue[b]) - 1 /\ Len(queue[b]) \in Nat
      BY Received
    <3>2. i + 1 \in DOMAIN queue[b] /\ queue[b][i + 1].kind # "object"
      BY <3>1, Received
    <3>3. i + 1 = Len(queue[b]) /\ ~Live(b)
      BY <3>2 DEF DeliveryOf
    <3> QED BY <3>1, <3>3, Received
  <2> QED BY <1>2, <2>1, <2>2 DEF DeliveryOf, Live
<1>5. AnnouncedOnce(b)'
  BY <1>2, Received DEF AnnouncedOnce
<1>6. \A c \in Batches \ {b} : DeliveryOf(c)' /\ AnnouncedOnce(c)'
  BY <1>2, <1>3 DEF DeliveryOf, AnnouncedOnce, Live
<1> QED BY <1>1, <1>2, <1>3, <1>4, <1>5, <1>6

LEMMA AddStep ==
  ASSUME IndInv, NEW b \in Batches, Add(b)
  PROVE  IndInv'
<1> USE DEF IndInv
<1> DEFINE new == queue[b][1].obj
<1>1. /\ UNCHANGED <<object, made, proc, known, deleteTold, relists, crashes>>
      /\ Receive(b, "object") /\ Head(queue[b]).obj = new
      /\ store[b] = None /\ store' = [store EXCEPT ![b] = new]
  BY Received DEF Add, clusterVars
<1>2. new \in Objects
  BY <1>1, Received, EventObject
<1>3. CASE Announces(b, new)
  <2>1. /\ b \notin known /\ Notify(b, "Create", new)
        /\ told' = [told EXCEPT ![b] = [cond |-> new.cond, phase |-> new.phase]]
        /\ creates' = [creates EXCEPT ![b] = creates[b] + 1]
        /\ cleaning' = TRUE
    BY <1>1, <1>3 DEF Add, Announces
  <2>2. creates[b] = 0
    <3>1. 1 \in DOMAIN queue[b] /\ queue[b][1].kind = "object" /\ proc = "up"
      BY <1>1, Received
    <3> QED BY <1>1, <2>1, <3>1 DEF AnnouncedOnce
  <2>3. creates'[b] = 1 /\ \A c \in Batches \ {b} : creates'[c] = creates[c]
    BY <2>1, <2>2 DEF TypeOK
  <2>4. [cond |-> new.cond, phase |-> new.phase] \in Told
    BY <1>2 DEF Objects, Told
  <2>5. /\ told' \in [Batches -> Told \cup {None}] /\ creates' \in [Batches -> Nat]
        /\ notes' \in [Batches -> Seq(Notes)]
    BY <1>2, <2>1, <2>4, Notified DEF TypeOK
  <2>6. \A c \in Batches : DeliveryOf(c)' /\ AnnouncedOnce(c)'
    BY <1>1, <2>3, DeliverStep
  <2>7. TypeOK'
    BY <1>1, <2>1, <2>3, <2>5, DeliverStep DEF TypeOK
  <2>8. /\ told'[b] = [cond |-> new.cond, phase |-> new.phase]
        /\ \A c \in Batches \ {b} : told'[c] = told[c]
    BY <2>1 DEF TypeOK
  <2>9. /\ store'[b] = new /\ store'[b] # None
        /\ \A c \in Batches \ {b} : store'[c] = store[c]
    BY <1>1, <2>3, DeliverStep
  <2>10. \A c \in Batches : ToldIsStored(c)'
    BY <2>8, <2>9 DEF ToldIsStored
  <2> QED BY <2>6, <2>7, <2>10
<1>4. CASE ~Announces(b, new)
  <2>1. UNCHANGED <<notes, told, creates, cleaning>>
    BY <1>1, <1>4 DEF Add
  <2>2. creates'[b] \in {0, 1}
    BY <2>1 DEF AnnouncedOnce
  <2>3. told[b] = None
    BY <1>1 DEF ToldIsStored
  <2>4. TypeOK'
    BY <1>1, <2>1, <2>2, DeliverStep DEF TypeOK
  <2>5. \A c \in Batches : ToldIsStored(c)'
    BY <1>1, <2>1, <2>2, <2>3, DeliverStep DEF ToldIsStored
  <2>6. \A c \in Batches : DeliveryOf(c)' /\ AnnouncedOnce(c)'
    BY <1>1, <2>1, <2>2, DeliverStep
  <2> QED BY <2>4, <2>5, <2>6
<1> QED BY <1>3, <1>4

\* What an Update leaves out has not changed.
LEMMA UpdateStep ==
  ASSUME IndInv, NEW b \in Batches, Update(b)
  PROVE  IndInv'
<1> USE DEF IndInv
<1> DEFINE old == store[b]
           new == queue[b][1].obj
<1>1. /\ UNCHANGED <<object, made, proc, known, cleaning, creates, deleteTold, relists, crashes>>
      /\ Receive(b, "object") /\ Head(queue[b]).obj = new
      /\ old # None /\ store' = [store EXCEPT ![b] = new]
  BY Received DEF Update, clusterVars
<1>2. new \in Objects /\ old \in Objects
  BY <1>1, Received, EventObject DEF TypeOK
<1>3. creates'[b] \in {0, 1}
  BY <1>1 DEF AnnouncedOnce
<1>4. \A c \in Batches : DeliveryOf(c)' /\ AnnouncedOnce(c)'
  BY <1>1, <1>3, DeliverStep
<1>5. CASE Unnoticed(old, new)
  <2>1. UNCHANGED <<notes, told>>
    BY <1>1, <1>5 DEF Update
  <2>2. /\ old.cond = new.cond
        /\ \A j \in Jobs : new.phase[j] # "none" => old.phase[j] = new.phase[j]
    BY <1>5 DEF Unnoticed, EqualBatchStatuses, UpdatedJobStatuses
  <2>3. TypeOK'
    BY <1>1, <1>3, <2>1, DeliverStep DEF TypeOK
  <2>4. /\ store'[b] = new /\ store'[b] # None
        /\ \A c \in Batches \ {b} : store'[c] = store[c]
    BY <1>1, <1>3, DeliverStep
  <2>5. \A c \in Batches : ToldIsStored(c)'
    BY <1>1, <2>1, <2>2, <2>4 DEF ToldIsStored
  <2> QED BY <1>4, <2>3, <2>5
<1>6. CASE ~Unnoticed(old, new)
  <2> DEFINE J == UpdatedJobStatuses(old, new)
             sum == AfterUpdate(told[b], new, J)
  <2>1. /\ Notify(b, "Update", new)
        /\ told' = [told EXCEPT ![b] = IF told[b] = None THEN None ELSE sum]
    BY <1>1, <1>6 DEF Update
  <2>2. told \in [Batches -> Told \cup {None}]
    BY DEF TypeOK
  <2>3. ASSUME told[b] # None PROVE sum \in Told
    BY <1>2, <2>2, <2>3 DEF AfterUpdate, Told, Objects
  <2>4. told' \in [Batches -> Told \cup {None}]
    BY <2>1, <2>2, <2>3
  <2>5. /\ told'[b] = IF told[b] = None THEN None ELSE sum
        /\ \A c \in Batches \ {b} : told'[c] = told[c]
    BY <2>1, <2>2
  <2>6. notes' \in [Batches -> Seq(Notes)]
    BY <1>2, <2>1, Notified
  <2>7. TypeOK'
    BY <1>1, <1>3, <2>4, <2>6, DeliverStep DEF TypeOK
  <2>8. ToldIsStored(b)'
    <3> SUFFICES ASSUME told[b] # None
                 PROVE  /\ sum.cond = new.cond
                        /\ \A j \in Jobs : new.phase[j] # "none" => sum.phase[j] = new.phase[j]
      BY <1>1, <1>3, <2>5, DeliverStep DEF ToldIsStored
    <3>1. sum.cond = new.cond /\ \A j \in Jobs : sum.phase[j] = IF j \in J THEN new.phase[j] ELSE told[b].phase[j]
      BY DEF AfterUpdate
    <3>2. ASSUME NEW j \in Jobs, new.phase[j] # "none", j \notin J
          PROVE  told[b].phase[j] = new.phase[j]
      <4>1. old.phase[j] = new.phase[j]
        BY <3>2 DEF UpdatedJobStatuses
      <4> QED BY <3>2, <4>1 DEF ToldIsStored
    <3> QED BY <3>1, <3>2
  <2>9. \A c \in Batches \ {b} : ToldIsStored(c)'
    BY <1>1, <1>3, <2>5, DeliverStep DEF ToldIsStored
  <2> QED BY <1>4, <2>7, <2>8, <2>9
<1> QED BY <1>5, <1>6

\* After a deletion nothing is delivered of the batch any more.
LEMMA HandleDeleteStep ==
  ASSUME IndInv, NEW b \in Batches, HandleDelete(b)
  PROVE  IndInv'
<1> USE DEF IndInv
<1>1. /\ UNCHANGED <<object, made, proc, cleaning, creates, relists, crashes>>
      /\ Receive(b, "deleted") /\ Notify(b, "Delete", store[b])
      /\ told' = [told EXCEPT ![b] = None] /\ store' = [store EXCEPT ![b] = None]
      /\ deleteTold' = deleteTold \cup {b} /\ known' = known \ {b}
  BY DEF HandleDelete, clusterVars
<1>2. proc = "up" /\ 1 \in DOMAIN queue[b] /\ queue[b][1].kind = "deleted" /\ queue[b] # <<>>
  BY <1>1, Received
<1>3. Len(queue[b]) = 1 /\ ~Live(b) /\ store[b] # None /\ b \in made
  BY <1>2 DEF DeliveryOf
<1>4. queue'[b] = <<>> /\ queue' \in [Batches -> Seq(Events)] /\ \A c \in Batches \ {b} : queue'[c] = queue[c]
  <2>1. Len(queue'[b]) = 0 /\ queue' \in [Batches -> Seq(Events)]
    BY <1>1, <1>3, Received
  <2>2. queue'[b] = <<>>
    BY <2>1, EmptySeq
  <2> QED BY <1>1, <2>1, <2>2, Received
<1>5. notes' \in [Batches -> Seq(Notes)]
  BY <1>1, <1>3, Notified DEF TypeOK
<1>6. TypeOK'
  BY <1>1, <1>4, <1>5 DEF TypeOK
<1>7. /\ told'[b] = None /\ store'[b] = None
      /\ \A c \in Batches \ {b} : told'[c] = told[c] /\ store'[c] = store[c]
  BY <1>1 DEF TypeOK
<1>8. DeliveryOf(b)' /\ AnnouncedOnce(b)' /\ ToldIsStored(b)'
  BY <1>1, <1>2, <1>3, <1>4, <1>7 DEF DeliveryOf, AnnouncedOnce, ToldIsStored, Live
<1>9. \A c \in Batches \ {b} : DeliveryOf(c)' /\ AnnouncedOnce(c)' /\ ToldIsStored(c)'
  BY <1>1, <1>4, <1>7 DEF DeliveryOf, AnnouncedOnce, ToldIsStored, Live
<1> QED BY <1>6, <1>8, <1>9

(***************************************************************************)
(* Starts, broken watches and crashes.                                     *)
(***************************************************************************)
LEMMA DieStep ==
  ASSUME IndInv, Die, crashes' \in 0..MaxCrashes
  PROVE  IndInv'
<1> USE DEF IndInv
<1>1. <<>> \in Seq(Events) /\ <<>> \in Seq(Notes)
  BY EmptySeq
<1>2. TypeOK'
  BY <1>1 DEF Die, TypeOK, Empty, Nowhere, clusterVars
<1>3. \A b \in Batches : DeliveryOf(b)'
  BY DEF Die, Empty, Nowhere, clusterVars, DeliveryOf, Live
<1>4. \A b \in Batches : AnnouncedOnce(b)' /\ ToldIsStored(b)'
  BY DEF Die, Nowhere, AnnouncedOnce, ToldIsStored
<1> QED BY <1>2, <1>3, <1>4

LEMMA ListNamesStep ==
  ASSUME IndInv, ListNames
  PROVE  IndInv'
  BY DEF IndInv, ListNames, clusterVars, noteVars, TypeOK, DeliveryOf, AnnouncedOnce, ToldIsStored, Live

\* The queue of a batch that has been listed.
LEMMA ListedQueue ==
  ASSUME TypeOK, NEW b \in Batches, Live(b)
  PROVE  /\ <<Object(object[b])>> \in Seq(Events)
         /\ <<Object(object[b])>> # <<>>
         /\ \A i \in DOMAIN <<Object(object[b])>> : <<Object(object[b])>>[i].kind = "object"
         /\ <<Object(object[b])>>[1].kind = "object"
<1>1. Object(object[b]) \in Events /\ Object(object[b]).kind = "object"
  BY DEF TypeOK, Live, Events, Object
<1> QED BY <1>1

LEMMA StartInformerStep ==
  ASSUME IndInv, StartInformer
  PROVE  IndInv'
<1> USE DEF IndInv
<1>1. /\ proc = "named" /\ proc' = "up"
      /\ \A b \in Batches : queue'[b] = IF Live(b) THEN <<Object(object[b])>> ELSE <<>>
      /\ UNCHANGED <<object, made, known, store, cleaning, notes, told, creates, deleteTold, relists, crashes>>
  BY DEF StartInformer, clusterVars, noteVars
<1>2. queue' \in [Batches -> Seq(Events)]
  <2>1. \A b \in Batches : (IF Live(b) THEN <<Object(object[b])>> ELSE <<>>) \in Seq(Events)
    BY ListedQueue, EmptySeq
  <2> QED BY <2>1 DEF StartInformer
<1>3. TypeOK'
  BY <1>1, <1>2 DEF TypeOK
<1>4. ASSUME NEW b \in Batches PROVE DeliveryOf(b)' /\ AnnouncedOnce(b)' /\ ToldIsStored(b)'
  <2>1. CASE Live(b)
    <3>0. queue'[b] = <<Object(object[b])>>
      BY <1>1, <2>1
    <3>1. queue'[b] # <<>> /\ \A i \in DOMAIN queue'[b] : queue'[b][i].kind = "object"
      BY <2>1, <3>0, ListedQueue
    <3>2. queue'[b][1].kind = "object"
      BY <2>1, <3>0, ListedQueue
    <3> QED BY <1>1, <2>1, <3>1, <3>2 DEF DeliveryOf, AnnouncedOnce, ToldIsStored, Live
  <2>2. CASE ~Live(b)
    <3>1. queue'[b] = <<>>
      BY <1>1, <2>2
    <3> QED BY <1>1, <2>2, <3>1 DEF DeliveryOf, AnnouncedOnce, ToldIsStored, Live
  <2> QED BY <2>1, <2>2
<1> QED BY <1>3, <1>4

LEMMA RelistStep ==
  ASSUME IndInv, NEW b \in Batches, Relist(b)
  PROVE  IndInv'
<1> USE DEF IndInv
<1> DEFINE q == CASE Live(b) -> <<Object(object[b])>>
                  [] ~Live(b) /\ store[b] # None -> <<Tombstone>>
                  [] OTHER -> <<>>
<1>1. /\ proc = "up" /\ relists < MaxRelists /\ relists' = relists + 1
      /\ queue' = [queue EXCEPT ![b] = q]
      /\ UNCHANGED <<object, made, proc, known, store, cleaning, notes, told, creates, deleteTold, crashes>>
  BY DEF Relist, clusterVars, noteVars
<1>2. queue'[b] = q /\ \A c \in Batches \ {b} : queue'[c] = queue[c]
  BY <1>1 DEF TypeOK
<1>3. q \in Seq(Events)
  <2>1. Tombstone \in Events
    BY DEF Events
  <2>2. <<Tombstone>> \in Seq(Events) /\ <<>> \in Seq(Events)
    BY <2>1, EmptySeq
  <2> QED BY <2>2, ListedQueue
<1>4. TypeOK'
  BY <1>1, <1>3 DEF TypeOK
<1>5. DeliveryOf(b)' /\ AnnouncedOnce(b)' /\ ToldIsStored(b)'
  <2>1. CASE Live(b)
    <3>0. queue'[b] = <<Object(object[b])>>
      BY <1>2, <2>1
    <3>1. queue'[b] # <<>> /\ \A i \in DOMAIN queue'[b] : queue'[b][i].kind = "object"
      BY <2>1, <3>0, ListedQueue
    <3>2. queue'[b][1].kind = "object"
      BY <2>1, <3>0, ListedQueue
    <3> QED BY <1>1, <2>1, <3>1, <3>2 DEF DeliveryOf, AnnouncedOnce, ToldIsStored, Live
  <2>2. CASE ~Live(b) /\ store[b] # None
    <3>1. queue'[b] = <<Tombstone>>
      BY <1>2, <2>2
    <3>2. DOMAIN queue'[b] = {1} /\ Len(queue'[b]) = 1
      BY <3>1
    <3> QED BY <1>1, <2>2, <3>2 DEF DeliveryOf, AnnouncedOnce, ToldIsStored, Live
  <2>3. CASE ~Live(b) /\ store[b] = None
    <3>1. queue'[b] = <<>>
      BY <1>2, <2>3
    <3> QED BY <1>1, <2>3, <3>1 DEF DeliveryOf, AnnouncedOnce, ToldIsStored, Live
  <2> QED BY <2>1, <2>2, <2>3
<1>6. \A c \in Batches \ {b} : DeliveryOf(c)' /\ AnnouncedOnce(c)' /\ ToldIsStored(c)'
  BY <1>1, <1>2 DEF DeliveryOf, AnnouncedOnce, ToldIsStored, Live
<1> QED BY <1>4, <1>5, <1>6

\* What is not delivered and not stored plays no part.
LEMMA QuietStep ==
  ASSUME IndInv, TypeOK',
         UNCHANGED <<object, made, proc, known, queue, store, told, creates>>
  PROVE  IndInv'
  BY DEF IndInv, DeliveryOf, AnnouncedOnce, ToldIsStored, Live

LEMMA PostTyped ==
  ASSUME TypeOK, NEW b \in Batches, NEW i \in DOMAIN notes[b], Post(b, i)
  PROVE  TypeOK'
<1> DEFINE s == notes[b]
<1>1. s \in Seq(Notes) /\ Len(s) \in Nat /\ DOMAIN s = 1..Len(s) /\ i \in 1..Len(s)
  BY LenProperties DEF TypeOK
<1>2. \A k \in 1..Len(s) : s[k] \in Notes
  BY <1>1
<1>3. SubSeq(s, 1, i - 1) \in Seq(Notes)
  BY <1>1, <1>2, SubSeqProperties
<1>4. SubSeq(s, i + 1, Len(s)) \in Seq(Notes)
  BY <1>1, <1>2, SubSeqProperties
<1>5. SubSeq(s, 1, i - 1) \o SubSeq(s, i + 1, Len(s)) \in Seq(Notes)
  BY <1>3, <1>4, ConcatProperties
<1> QED BY <1>5 DEF Post, TypeOK, clusterVars

(***************************************************************************)
(* The theorems.                                                           *)
(***************************************************************************)
LEMMA IndInvInit == Init => IndInv
<1>1. <<>> \in Seq(Events) /\ <<>> \in Seq(Notes)
  BY EmptySeq
<1>2. ASSUME Init PROVE TypeOK
  <2>1. queue \in [Batches -> Seq(Events)] /\ notes \in [Batches -> Seq(Notes)]
    BY <1>1, <1>2 DEF Init, Empty
  <2>2. /\ object \in [Batches -> Objects \cup {None}] /\ store \in [Batches -> Objects \cup {None}]
        /\ told \in [Batches -> Told \cup {None}]
    BY <1>2 DEF Init, Nowhere
  <2>3. relists \in 0..MaxRelists /\ crashes \in 0..MaxCrashes /\ creates \in [Batches -> Nat]
    BY <1>2 DEF Init
  <2> QED BY <1>2, <2>1, <2>2, <2>3 DEF Init, TypeOK
<1>3. ASSUME Init, NEW b \in Batches PROVE DeliveryOf(b) /\ AnnouncedOnce(b) /\ ToldIsStored(b)
  <2>1. /\ object[b] = None /\ queue[b] = <<>> /\ store[b] = None /\ told[b] = None
        /\ creates[b] = 0 /\ known = {} /\ proc = "down"
    BY <1>3 DEF Init, Empty, Nowhere
  <2> QED BY <2>1 DEF DeliveryOf, AnnouncedOnce, ToldIsStored, Live
<1> QED BY <1>2, <1>3 DEF IndInv

LEMMA IndInvNext == IndInv /\ [Next]_vars => IndInv'
<1> SUFFICES ASSUME IndInv, [Next]_vars PROVE IndInv'
  OBVIOUS
<1>1. TypeOK
  BY DEF IndInv
<1>2. ASSUME NEW b \in Batches, Create(b) PROVE IndInv'
  <2>1. b \notin made /\ made' = made \cup {b} /\ Write(b, NewObject)
    BY <1>2 DEF Create
  <2> QED BY <2>1, NewObjectTyped, WriteStep
<1>3. ASSUME NEW b \in Batches, WriteStatus(b) \/ WriteSpec(b) PROVE IndInv'
  <2>1. Live(b) /\ b \in made /\ made' = made
    BY <1>3 DEF WriteStatus, WriteSpec, IndInv, DeliveryOf
  <2>2. PICK o \in Objects : Write(b, o)
    <3>1. object[b] \in Objects /\ object[b].version < MaxVersion
      BY <1>1, <1>3, <2>1 DEF WriteStatus, WriteSpec, TypeOK, Live
    <3> QED BY <1>3, <3>1, NextVersion DEF WriteStatus, WriteSpec
  <2> QED BY <2>1, <2>2, WriteStep
<1>4. ASSUME NEW b \in Batches, Delete(b) \/ CleanupDeletes(b) PROVE IndInv'
  BY <1>4, RemoveStep DEF Delete, CleanupDeletes
<1>5. ASSUME NEW b \in Batches, Handle(b) PROVE IndInv'
  <2>1. ASSUME HandleTombstone(b) PROVE IndInv'
    BY <1>1, <2>1, DieStep DEF HandleTombstone, TypeOK
  <2> QED BY <1>5, <2>1, AddStep, UpdateStep, HandleDeleteStep DEF Handle
<1>6. ASSUME NEW b \in Batches, Goroutine(b) PROVE IndInv'
  <2>1. PICK i \in DOMAIN notes[b] : Post(b, i)
    BY <1>6 DEF Goroutine
  <2>2. TypeOK'
    BY <1>1, <2>1, PostTyped
  <2> QED BY <2>1, <2>2, QuietStep DEF Post, clusterVars
<1>7. CASE EndCleanup
  <2>1. TypeOK'
    BY <1>1, <1>7 DEF EndCleanup, TypeOK, clusterVars, noteVars
  <2> QED BY <1>7, <2>1, QuietStep DEF EndCleanup, clusterVars, noteVars
<1>8. CASE Crash
  <2>1. Die /\ crashes' \in 0..MaxCrashes
    BY <1>1, <1>8 DEF Crash, TypeOK
  <2> QED BY <2>1, DieStep
<1>9. CASE UNCHANGED vars
  <2>1. TypeOK'
    BY <1>1, <1>9 DEF vars, TypeOK, clusterVars, noteVars
  <2> QED BY <1>9, <2>1, QuietStep DEF vars, clusterVars, noteVars
<1> QED
  BY <1>2, <1>3, <1>4, <1>5, <1>6, <1>7, <1>8, <1>9, ListNamesStep, StartInformerStep, RelistStep
  DEF Next, Cluster

LEMMA Invariance == Spec => []IndInv
  BY IndInvInit, IndInvNext, PTL DEF Spec

\* The type invariant holds in every reachable state; in particular a deletion is
\* only handled for a batch the informer has stored.
THEOREM TypeCorrect == Spec => []TypeOK
<1>1. IndInv => TypeOK
  BY DEF IndInv
<1> QED BY <1>1, Invariance, PTL

\* However often the process is restarted and its watch breaks, no batch is
\* announced twice (AddFunc).
THEOREM AnnouncedAtMostOnce == Spec => []AtMostOneCreate
<1>1. ASSUME IndInv, NEW b \in Batches PROVE creates[b] <= 1
  <2>1. creates[b] = 0 \/ creates[b] = 1
    BY <1>1 DEF IndInv, AnnouncedOnce
  <2> QED BY <2>1
<1>2. IndInv => AtMostOneCreate
  BY <1>1 DEF AtMostOneCreate
<1> QED BY <1>2, Invariance, PTL

\* However many versions the watch skips, what the component was told adds up to
\* what the informer has delivered last (UpdateFunc).
THEOREM ToldAddsUp == Spec => []ToldFollowsStore
<1>1. IndInv => ToldFollowsStore
  BY DEF IndInv, ToldIsStored, ToldFollowsStore, AddsUpTo
<1> QED BY <1>1, Invariance, PTL

(***************************************************************************)
(* Delivery: the last thing in the queue of a batch, or what was delivered *)
(* when there is nothing left, is what the batch has come to.              *)
(***************************************************************************)
MirrorOf(b) ==
  proc = "up" =>
    /\ queue[b] = <<>> => store[b] = object[b]
    /\ queue[b] # <<>> /\ Live(b) => queue[b][Len(queue[b])].obj = object[b]
    /\ queue[b] # <<>> /\ ~Live(b) => queue[b][Len(queue[b])].kind # "object"

Mirrored == \A b \in Batches : MirrorOf(b)

\* A write, or a deletion, comes last.
LEMMA PublishedLast ==
  ASSUME TypeOK, NEW b \in Batches, NEW e \in Events, Publish(b, e), proc' = proc,
         \A c \in Batches \ {b} : object'[c] = object[c] /\ store'[c] = store[c],
         Live(b)' => e.obj = object'[b],
         ~Live(b)' => e.kind # "object",
         Mirrored
  PROVE  Mirrored'
<1>1. \A c \in Batches \ {b} : MirrorOf(c)'
  BY Published DEF Mirrored, MirrorOf, Live
<1>2. ASSUME proc = "up" PROVE queue'[b] # <<>> /\ queue'[b][Len(queue'[b])] = e
  BY <1>2, Published
<1>3. MirrorOf(b)'
  BY <1>2 DEF MirrorOf
<1> QED BY <1>1, <1>3 DEF Mirrored

\* A handler that takes the last event leaves the informer's store as the event says.
LEMMA ReceivedLast ==
  ASSUME IndInv, NEW b \in Batches, NEW kind, Receive(b, kind), Mirrored,
         object' = object, proc' = proc,
         \A c \in Batches \ {b} : store'[c] = store[c],
         kind = "object" => store'[b] = queue[b][1].obj,
         kind # "object" => store'[b] = None
  PROVE  Mirrored'
<1>1. TypeOK
  BY DEF IndInv
<1>2. \A c \in Batches \ {b} : MirrorOf(c)'
  BY <1>1, Received DEF Mirrored, MirrorOf, Live
<1>3. /\ Len(queue[b]) \in Nat \ {0} /\ Len(queue'[b]) = Len(queue[b]) - 1
      /\ \A i \in 1..Len(queue[b]) - 1 : queue'[b][i] = queue[b][i + 1]
      /\ queue[b] # <<>> /\ queue[b][1].kind = kind /\ proc = "up" /\ queue' \in [Batches -> Seq(Events)]
      /\ DOMAIN queue[b] = 1..Len(queue[b])
  BY <1>1, Received
<1>4. CASE Len(queue[b]) = 1
  <2>1. queue'[b] = <<>>
    BY <1>3, <1>4, EmptySeq
  <2>2. Live(b) => kind = "object"
    BY <1>3, <1>4 DEF IndInv, DeliveryOf
  <2>3. store'[b] = object[b]
    BY <1>3, <1>4, <2>2 DEF Mirrored, MirrorOf, Live
  <2> QED BY <1>2, <2>1, <2>3 DEF Mirrored, MirrorOf
<1>5. CASE Len(queue[b]) # 1
  <2> DEFINE n == Len(queue[b])
             m == Len(queue'[b])
  <2>1. n \in Nat \ {0} /\ n # 1 /\ m = n - 1
    BY <1>3, <1>5
  <2>2. \A i \in 1..n - 1 : queue'[b][i] = queue[b][i + 1]
    BY <1>3
  <2> HIDE DEF n, m
  <2>3. m \in 1..n - 1 /\ m + 1 = n /\ m # 0
    BY <2>1
  <2>4. queue'[b][m] = queue[b][n]
    BY <2>2, <2>3
  <2>5. queue'[b] # <<>>
    BY <2>3, EmptySeq DEF m
  <2> QED BY <1>2, <1>3, <2>4, <2>5 DEF Mirrored, MirrorOf, Live, m, n
<1> QED BY <1>4, <1>5

LEMMA ListedMirrors ==
  ASSUME TypeOK, NEW b \in Batches, proc' = "up", object' = object, store'[b] = store[b],
         \/ Live(b) /\ queue'[b] = <<Object(object[b])>>
         \/ ~Live(b) /\ store[b] # None /\ queue'[b] = <<Tombstone>>
         \/ ~Live(b) /\ store[b] = None /\ queue'[b] = <<>>
  PROVE  MirrorOf(b)'
<1>1. CASE Live(b) /\ queue'[b] = <<Object(object[b])>>
  <2>1. queue'[b] # <<>> /\ queue'[b][Len(queue'[b])] = Object(object[b])
    BY <1>1
  <2>2. Object(object[b]).obj = object[b]
    BY DEF Object
  <2> QED BY <1>1, <2>1, <2>2 DEF MirrorOf, Live
<1>2. CASE ~Live(b) /\ store[b] # None /\ queue'[b] = <<Tombstone>>
  <2>1. queue'[b] # <<>> /\ queue'[b][Len(queue'[b])] = Tombstone
    BY <1>2
  <2>2. Tombstone.kind # "object"
    BY DEF Tombstone
  <2> QED BY <1>2, <2>1, <2>2 DEF MirrorOf, Live
<1>3. CASE ~Live(b) /\ store[b] = None /\ queue'[b] = <<>>
  BY <1>3 DEF MirrorOf, Live
<1> QED BY <1>1, <1>2, <1>3

LEMMA MirroredNext == IndInv /\ Mirrored /\ [Next]_vars => Mirrored'
<1> SUFFICES ASSUME IndInv, Mirrored, [Next]_vars PROVE Mirrored'
  OBVIOUS
<1>1. TypeOK
  BY DEF IndInv
<1>2. ASSUME UNCHANGED <<object, queue, store, proc>> PROVE Mirrored'
  BY <1>2 DEF Mirrored, MirrorOf, Live
<1>3. ASSUME NEW b \in Batches, NEW o \in Objects, Write(b, o) PROVE Mirrored'
  <2>1. Object(o) \in Events /\ Object(o).obj = o
    BY DEF Events, Object
  <2>2. /\ object'[b] = o /\ \A c \in Batches \ {b} : object'[c] = object[c]
        /\ Publish(b, Object(o)) /\ proc' = proc /\ store' = store
    BY <1>1, <1>3 DEF Write, TypeOK
  <2>3. Live(b)'
    BY <2>2 DEF Live
  <2> QED BY <1>1, <2>1, <2>2, <2>3, PublishedLast
<1>4. ASSUME NEW b \in Batches, Create(b) PROVE Mirrored'
  BY <1>3, <1>4, NewObjectTyped DEF Create
<1>5. ASSUME NEW b \in Batches, WriteStatus(b) \/ WriteSpec(b) PROVE Mirrored'
  <2>1. object[b] \in Objects /\ object[b].version < MaxVersion
    BY <1>1, <1>5 DEF WriteStatus, WriteSpec, TypeOK, Live
  <2> QED BY <1>3, <1>5, <2>1, NextVersion DEF WriteStatus, WriteSpec
<1>6. ASSUME NEW b \in Batches, Delete(b) \/ CleanupDeletes(b) PROVE Mirrored'
  <2>1. Deleted \in Events /\ Deleted.kind # "object"
    BY DEF Events, Deleted
  <2>2. /\ object'[b] = None /\ \A c \in Batches \ {b} : object'[c] = object[c]
        /\ Publish(b, Deleted) /\ proc' = proc /\ store' = store
    BY <1>1, <1>6 DEF Delete, CleanupDeletes, Remove, TypeOK
  <2>3. ~Live(b)'
    BY <2>2 DEF Live
  <2> QED BY <1>1, <2>1, <2>2, <2>3, PublishedLast
<1>7. ASSUME NEW b \in Batches, Add(b) \/ Update(b) PROVE Mirrored'
  <2>1. Receive(b, "object") /\ object' = object /\ proc' = proc
    BY <1>7 DEF Add, Update, clusterVars
  <2>2. Head(queue[b]) = queue[b][1] /\ queue[b][1].kind = "object"
    BY <1>1, <2>1, Received
  <2>3. store' = [store EXCEPT ![b] = queue[b][1].obj]
    BY <1>7, <2>2 DEF Add, Update
  <2>4. store'[b] = queue[b][1].obj /\ \A c \in Batches \ {b} : store'[c] = store[c]
    BY <1>1, <2>3 DEF TypeOK
  <2> QED BY <2>1, <2>2, <2>4, ReceivedLast
<1>8. ASSUME NEW b \in Batches, HandleDelete(b) PROVE Mirrored'
  <2>1. Receive(b, "deleted") /\ object' = object /\ proc' = proc /\ store' = [store EXCEPT ![b] = None]
    BY <1>8 DEF HandleDelete, clusterVars
  <2>2. store'[b] = None /\ \A c \in Batches \ {b} : store'[c] = store[c]
    BY <1>1, <2>1 DEF TypeOK
  <2> QED BY <2>1, <2>2, ReceivedLast
<1>9. ASSUME Die PROVE Mirrored'
  BY <1>9 DEF Die, Mirrored, MirrorOf
<1>10. CASE StartInformer
  <2>1. /\ proc = "named" /\ proc' = "up" /\ UNCHANGED <<object, store>>
        /\ \A b \in Batches : queue'[b] = IF Live(b) THEN <<Object(object[b])>> ELSE <<>>
    BY <1>10 DEF StartInformer, clusterVars
  <2>2. \A b \in Batches : store[b] = None
    BY <2>1 DEF IndInv, DeliveryOf
  <2> QED BY <1>1, <2>1, <2>2, ListedMirrors DEF Mirrored
<1>11. ASSUME NEW b \in Batches, Relist(b) PROVE Mirrored'
  <2>1. /\ proc = "up" /\ UNCHANGED <<object, proc, store>>
        /\ queue' = [queue EXCEPT ![b] =
             CASE Live(b) -> <<Object(object[b])>>
               [] ~Live(b) /\ store[b] # None -> <<Tombstone>>
               [] OTHER -> <<>>]
    BY <1>11 DEF Relist, clusterVars
  <2>2. \A c \in Batches \ {b} : queue'[c] = queue[c]
    BY <1>1, <2>1 DEF TypeOK
  <2>3. \/ Live(b) /\ queue'[b] = <<Object(object[b])>>
        \/ ~Live(b) /\ store[b] # None /\ queue'[b] = <<Tombstone>>
        \/ ~Live(b) /\ store[b] = None /\ queue'[b] = <<>>
    BY <1>1, <2>1 DEF TypeOK
  <2>4. MirrorOf(b)'
    BY <1>1, <2>1, <2>3, ListedMirrors
  <2> QED BY <2>1, <2>2, <2>4 DEF Mirrored, MirrorOf, Live
<1>12. ASSUME NEW b \in Batches, Goroutine(b) PROVE Mirrored'
  BY <1>2, <1>12 DEF Goroutine, Post, clusterVars
<1>13. CASE EndCleanup \/ UNCHANGED vars
  BY <1>2, <1>13 DEF EndCleanup, vars, clusterVars
<1>14. CASE ListNames
  BY <1>14 DEF ListNames, Mirrored, MirrorOf
<1> QED
  BY <1>4, <1>5, <1>6, <1>7, <1>8, <1>9, <1>10, <1>11, <1>12, <1>13, <1>14
  DEF Next, Cluster, Handle, HandleTombstone, Crash

\* The safety half of LastStatusTold: the component of a batch is behind only
\* while the informer is, whatever its broken watches and the restarts of the
\* process have left out (UpdateFunc, DeleteFunc).
THEOREM ToldWhenDelivered == Spec => []ToldOnceDelivered
<1>1. Init => Mirrored
  BY DEF Init, Mirrored, MirrorOf
<1>2. IndInv /\ Mirrored => ToldOnceDelivered
  BY DEF IndInv, ToldIsStored, Mirrored, MirrorOf, ToldOnceDelivered, AddsUpTo, Live
<1> QED BY <1>1, <1>2, MirroredNext, Invariance, PTL DEF Spec

====
