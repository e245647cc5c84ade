------------------------- MODULE NotificationProofs -------------------------
(***************************************************************************)
(* Proofs about the notification reconciler, for every set of specs and    *)
(* hashes, every cooldown and every bound.  The reconciler decides on a    *)
(* copy it read from a cache and writes the outcome two sends later, so    *)
(* everything rests on what that copy is worth (CopyInv), on what the      *)
(* attempt in progress has to do with the last one the world saw           *)
(* (AttemptInv), and on the status being the record of that last one once  *)
(* its update went through (RecordInv).                                    *)
(***************************************************************************)
EXTENDS Notification, SequenceTheorems, TLAPS

\* The cache, and the versions on the way to it, end at the API server's.
WatchInv ==
    /\ stream = <<>> => cache = api
    /\ stream # <<>> => stream[Len(stream)] = api

\* Between rounds the worker holds nothing; in one it holds an object that
\* was there, whose spec and record are the API server's while the copy is
\* current; only a round that sends may say Delivered.
CopyInv ==
    /\ w.pc = "idle" => ~w.attempt /\ ~w.current /\ w.todo = {}
    /\ w.todo # {} => w.attempt
    /\ w.pc = "update" => w.obj.exists
    /\ w.pc = "update" /\ ~w.attempt => w.obj.reason # "Delivered"
    /\ w.current => /\ api.exists
                    /\ api.spec = w.obj.spec
                    /\ api.sentAge = w.obj.sentAge
                    /\ api.lastHash = w.obj.lastHash

\* An attempt whose update can still go through is the last one the world
\* saw, and is not older than the one on record.  One that was overtaken by a
\* new object of the same name never gets to say Delivered.
AttemptInv ==
    /\ w.attempt /\ w.current => /\ ~sent.recorded
                                 /\ sent.age = w.age
                                 /\ sent.hash = w.hash
                                 /\ sent.failed = w.failed
                                 /\ w.age <= api.sentAge
    /\ w.attempt /\ sent.recorded => api.reason # "Delivered"

\* Once the last attempt is recorded, the status says when and what it was.
RecordInv ==
    sent.recorded /\ api.exists =>
        /\ api.sentAge = sent.age
        /\ api.lastHash = sent.hash \/ (api.lastHash = "" /\ sent.hash = NoHash)

NotificationInv ==
    /\ TypeOK
    /\ WatchInv
    /\ CopyInv
    /\ AttemptInv
    /\ RecordInv
    /\ DeliveredTruthful

-----------------------------------------------------------------------------
\* The objects the actions write.

\* A new object, and the absence of one, are objects.
LEMMA ObjectsMade ==
    /\ Absent \in Object /\ ~Absent.exists /\ Absent.reason = "None"
    /\ \A s \in Specs :
        /\ NewObject(s) \in Object /\ NewObject(s).exists
        /\ NewObject(s).sentAge = MaxAge /\ NewObject(s).lastHash = ""
        /\ NewObject(s).reason = "None" /\ NewObject(s).spec = s
<1>1. (CHOOSE s \in Specs : TRUE) \in Specs
    BY SpecsAssumption
<1>2. MaxAge \in Age
    BY BoundsAssumption DEF Age
<1>3. QED
    BY <1>1, <1>2 DEF Absent, NewObject, Object, Reason

\* The worker at rest is a worker.
LEMMA IdleWorker == Idle \in Worker
<1>1. Absent \in Object
    BY ObjectsMade
<1>2. 0 \in Age
    BY BoundsAssumption DEF Age
<1>3. QED
    BY <1>1, <1>2 DEF Idle, Worker

\* Time changes the age of an object's record and nothing else.
LEMMA AgedObject ==
    ASSUME NEW o \in Object
    PROVE  /\ Aged(o) \in Object
           /\ Aged(o).exists = o.exists /\ Aged(o).spec = o.spec
           /\ Aged(o).sentAge = Older(o.sentAge) /\ Aged(o).lastHash = o.lastHash
           /\ Aged(o).reason = o.reason
<1>1. \A a \in Age : Older(a) \in Age
    BY BoundsAssumption DEF Age, Older
<1>2. Aged(o) = [o EXCEPT !.sentAge = Older(o.sentAge)]
    BY DEF Aged, Object
<1>3. QED
    BY <1>1, <1>2 DEF Object

\* Ages are numbers.
LEMMA AgesAreNumbers == ASSUME NEW o \in Object PROVE o.sentAge \in Nat
<1>1. o.sentAge \in Age
    BY DEF Object
<1>2. QED
    BY <1>1, BoundsAssumption DEF Age

\* setNotificationCondition leaves the record and the spec alone.
LEMMA ConditionObject ==
    ASSUME NEW o \in Object, NEW r \in Reason
    PROVE  /\ Condition(o, r) \in Object
           /\ Condition(o, r).exists = o.exists /\ Condition(o, r).spec = o.spec
           /\ Condition(o, r).sentAge = o.sentAge /\ Condition(o, r).lastHash = o.lastHash
           /\ Condition(o, r).reason = r
BY DEF Condition, Object

\* A version that is written is the last one on the way to the cache.
LEMMA WriteWatched ==
    ASSUME TypeOK, NEW o \in Object, Write(o)
    PROVE  /\ api' = o
           /\ stream' \in Seq(Object) /\ Len(stream') <= MaxLag
           /\ stream' # <<>> /\ stream'[Len(stream')] = o
<1>1. stream \in Seq(Object) /\ Len(stream) < MaxLag /\ stream' = Append(stream, o)
    BY DEF Write, TypeOK
<1>2. Len(stream') = Len(stream) + 1 /\ stream'[Len(stream) + 1] = o
      /\ stream' \in Seq(Object)
    BY <1>1
<1>3. stream' # <<>>
    BY <1>1, <1>2
<1>4. QED
    BY <1>1, <1>2, <1>3, BoundsAssumption DEF Write

\* What is left on the way after a delivery still ends at the newest version.
LEMMA WatchDelivered ==
    ASSUME TypeOK, WatchInv, stream # <<>>
    PROVE  /\ Head(stream) \in Object
           /\ Tail(stream) \in Seq(Object) /\ Len(Tail(stream)) <= MaxLag
           /\ Tail(stream) = <<>> => Head(stream) = api
           /\ Tail(stream) # <<>> => Tail(stream)[Len(Tail(stream))] = api
<1>1. stream \in Seq(Object) /\ Len(stream) <= MaxLag
    BY DEF TypeOK
<1>2. stream[Len(stream)] = api
    BY DEF WatchInv
<1>3. /\ Head(stream) = stream[1] /\ Head(stream) \in Object
      /\ Tail(stream) \in Seq(Object) /\ Len(Tail(stream)) = Len(stream) - 1
      /\ Len(stream) \in Nat /\ Len(stream) >= 1
    BY <1>1, HeadTailProperties
<1>4. Tail(stream) = <<>> => Len(stream) = 1
    BY <1>3
<1>5. Tail(stream) # <<>> => Len(stream) > 1
    BY <1>3, EmptySeq
<1>6. Tail(stream) # <<>> => Tail(stream)[Len(stream) - 1] = stream[Len(stream)]
    BY <1>1, <1>3, <1>5
<1>7. QED
    BY <1>1, <1>2, <1>3, <1>4, <1>6, BoundsAssumption

\* The versions on the way grow older with the one they end at.
LEMMA WatchAged ==
    ASSUME TypeOK, WatchInv, Tick
    PROVE  /\ stream' \in Seq(Object) /\ Len(stream') <= MaxLag
           /\ WatchInv'
<1>1. /\ stream \in Seq(Object) /\ Len(stream) \in Nat /\ Len(stream) <= MaxLag
      /\ \A i \in 1 .. Len(stream) : stream[i] \in Object
    <2>1. stream \in Seq(Object) /\ Len(stream) <= MaxLag
        BY DEF TypeOK
    <2>2. QED
        BY <2>1
<1>2. /\ stream' = [i \in 1 .. Len(stream) |-> Aged(stream[i])]
      /\ api' = Aged(api) /\ cache' = Aged(cache)
    BY DEF Tick
<1>3. \A i \in 1 .. Len(stream) : Aged(stream[i]) \in Object
    BY <1>1, AgedObject
<1>4. stream' \in Seq(Object) /\ Len(stream') = Len(stream)
    BY <1>1, <1>2, <1>3
<1>5. stream' = <<>> => stream = <<>>
    BY <1>1, <1>4
<1>6. stream' # <<>> => stream # <<>> /\ Len(stream) \in 1 .. Len(stream)
    BY <1>1, <1>2, <1>4
<1>7. QED
    BY <1>1, <1>2, <1>4, <1>5, <1>6 DEF WatchInv

-----------------------------------------------------------------------------
\* The invariant is inductive: one lemma for each action.

\* The process starts in a state of the invariant.
LEMMA NotificationInvInit == Init => NotificationInv
<1> SUFFICES ASSUME Init PROVE NotificationInv
    OBVIOUS
<1>1. /\ cache = api /\ queued = api.exists /\ plan \in Hashes \cup {"", NoPlan}
      /\ w = Idle /\ sent = NeverSent
    BY Zenon DEF Init
<1>2. api \in Object /\ api.reason = "None"
      /\ (api.exists => api.sentAge = MaxAge /\ api.lastHash = "")
    <2>1. api \in {NewObject(s) : s \in Specs} \cup {Absent}
        BY Zenon DEF Init
    <2>2. api = Absent \/ \E s \in Specs : api = NewObject(s)
        BY <2>1, Zenon
    <2>3. QED
        BY <2>2, ObjectsMade, Zenon
<1>3. Idle \in Worker
    BY IdleWorker
<1>4. NeverSent \in Sent
    BY BoundsAssumption DEF NeverSent, Sent, Age
<1>5. TypeOK
    <2>1. queued \in BOOLEAN
        BY <1>1, <1>2 DEF Object
    <2>2. stream = <<>> /\ edits = 0
        BY Zenon DEF Init
    <2>3. timer \in BOOLEAN
        BY Zenon DEF Init
    <2>4. stream \in Seq(Object) /\ Len(stream) <= MaxLag /\ edits \in 0 .. MaxEdits
        BY <2>2, BoundsAssumption
    <2>5. QED
        BY <1>1, <1>2, <1>3, <1>4, <2>1, <2>3, <2>4, Zenon DEF TypeOK
<1>6. WatchInv
    <2>1. stream = <<>>
        BY Zenon DEF Init
    <2>2. QED
        BY <1>1, <2>1, Zenon DEF WatchInv
<1>7. ~w.attempt /\ ~w.current /\ w.todo = {} /\ w.pc = "idle"
    BY <1>1, Zenon DEF Idle
<1>8. CopyInv
    BY <1>7 DEF CopyInv
<1>9. AttemptInv
    BY <1>7 DEF AttemptInv
<1>10. sent.age = MaxAge /\ sent.hash = NoHash
    BY <1>1, Zenon DEF NeverSent
<1>11. RecordInv
    BY <1>2, <1>10 DEF RecordInv
<1>12. DeliveredTruthful
    BY <1>2 DEF DeliveredTruthful
<1>13. QED
    BY <1>5, <1>6, <1>8, <1>9, <1>11, <1>12 DEF NotificationInv

\* A user's write outdates the worker's copy, and touches the record only by
\* making a new object or deleting the old one.
LEMMA UserKeeps == ASSUME NotificationInv, UserStep PROVE NotificationInv'
<1> USE DEF NotificationInv
<1> DEFINE Made(o) == /\ o.exists /\ o.sentAge = MaxAge /\ o.lastHash = ""
                      /\ o.reason = "None" /\ sent' = NeverSent
           Edited(o) == /\ api.exists /\ o.exists /\ o.sentAge = api.sentAge
                        /\ o.lastHash = api.lastHash /\ o.reason = api.reason
                        /\ sent' = sent
           Deleted(o) == ~o.exists /\ o.reason = "None" /\ sent' = sent
<1>1. PICK o \in Object : UserWrite(o) /\ (Made(o) \/ Edited(o) \/ Deleted(o))
    <2>1. ASSUME NEW s \in Specs, CreateObject(s)
          PROVE  \E o \in Object : UserWrite(o) /\ Made(o)
        BY <2>1, ObjectsMade DEF CreateObject
    <2>2. ASSUME NEW s \in Specs, EditSpec(s)
          PROVE  \E o \in Object : UserWrite(o) /\ Edited(o)
        <3> DEFINE e == [api EXCEPT !.spec = s, !.observed = FALSE]
        <3>1. e \in Object /\ e.exists = api.exists /\ e.sentAge = api.sentAge
              /\ e.lastHash = api.lastHash /\ e.reason = api.reason
            BY DEF TypeOK, Object
        <3>2. UserWrite(e) /\ api.exists /\ sent' = sent
            BY <2>2 DEF EditSpec
        <3> HIDE DEF e
        <3>3. QED
            BY <3>1, <3>2
    <2>3. ASSUME DeleteObject
          PROVE  \E o \in Object : UserWrite(o) /\ Deleted(o)
        BY <2>3, ObjectsMade DEF DeleteObject
    <2>4. QED
        BY <2>1, <2>2, <2>3 DEF UserStep
<1>2. /\ api' = o /\ stream' \in Seq(Object) /\ Len(stream') <= MaxLag
      /\ stream' # <<>> /\ stream'[Len(stream')] = o
    BY <1>1, WriteWatched DEF UserWrite
<1>3. /\ w' = [w EXCEPT !.current = FALSE] /\ w \in Worker
      /\ UNCHANGED <<cache, plan, queued, timer>>
      /\ edits' = edits + 1 /\ edits < MaxEdits
    BY <1>1 DEF UserWrite, TypeOK, queueVars
<1>4. /\ w' \in Worker /\ ~w'.current /\ w'.pc = w.pc /\ w'.obj = w.obj
      /\ w'.attempt = w.attempt /\ w'.todo = w.todo
    BY <1>3 DEF Worker
<1>5. NeverSent \in Sent /\ ~NeverSent.failed /\ NeverSent.recorded
      /\ NeverSent.age = MaxAge /\ NeverSent.hash = NoHash
    BY BoundsAssumption DEF NeverSent, Sent, Age
<1>6. TypeOK'
    <2>1. edits' \in 0 .. MaxEdits
        <3>1. edits \in 0 .. MaxEdits
            BY DEF TypeOK
        <3>2. QED
            BY <1>3, <3>1, BoundsAssumption
    <2>2. sent' \in Sent
        BY <1>1, <1>5 DEF TypeOK
    <2>3. QED
        BY <1>1, <1>2, <1>3, <1>4, <2>1, <2>2 DEF TypeOK
<1>7. WatchInv'
    BY <1>2 DEF WatchInv
<1>8. CopyInv'
    BY <1>4 DEF CopyInv
<1>9. AttemptInv'
    BY <1>1, <1>2, <1>4 DEF AttemptInv
<1>10. RecordInv'
    BY <1>1, <1>2, <1>5 DEF RecordInv
<1>11. DeliveredTruthful'
    BY <1>1, <1>2, <1>5 DEF DeliveredTruthful
<1>12. QED
    BY <1>6, <1>7, <1>8, <1>9, <1>10, <1>11

\* A delivery moves the cache along the stream.
LEMMA DeliverKeeps == ASSUME NotificationInv, Deliver PROVE NotificationInv'
<1> USE DEF NotificationInv
<1>1. /\ stream # <<>> /\ cache' = Head(stream) /\ stream' = Tail(stream)
      /\ queued' = TRUE /\ UNCHANGED <<api, plan, timer, w, edits, sent>>
    BY DEF Deliver
<1>2. TypeOK'
    BY <1>1, WatchDelivered DEF TypeOK
<1>3. WatchInv'
    BY <1>1, WatchDelivered DEF WatchInv
<1>4. QED
    BY <1>1, <1>2, <1>3 DEF CopyInv, AttemptInv, RecordInv, DeliveredTruthful

\* The plan's changes and the queue's timer concern nothing the invariant
\* relates.
LEMMA SurroundingsKeep ==
    ASSUME NotificationInv,
           \/ \E p \in Hashes \cup {"", NoPlan} : PlanChanges(p)
           \/ TimerFires
           \/ GetFails
           \/ GetNotFound
    PROVE  NotificationInv'
<1> USE DEF NotificationInv
<1>1. /\ UNCHANGED <<api, stream, cache, w, edits, sent>>
      /\ plan' \in Hashes \cup {"", NoPlan} /\ queued' \in BOOLEAN /\ timer' \in BOOLEAN
    BY DEF PlanChanges, TimerFires, GetFails, GetNotFound, Take, clusterVars,
           queueVars, TypeOK
<1>2. TypeOK'
    BY <1>1 DEF TypeOK
<1>3. QED
    BY <1>1, <1>2 DEF WatchInv, CopyInv, AttemptInv, RecordInv, DeliveredTruthful

\* Time ages every copy of the record, and the attempt, alike.
LEMMA TickKeeps == ASSUME NotificationInv, Tick PROVE NotificationInv'
<1> USE DEF NotificationInv
<1>1. /\ api' = Aged(api) /\ cache' = Aged(cache)
      /\ w' = [w EXCEPT !.obj = Aged(w.obj),
                        !.age = IF w.attempt THEN Older(w.age) ELSE w.age]
      /\ sent' = [sent EXCEPT !.age = Older(sent.age)]
      /\ UNCHANGED <<plan, queued, timer, edits>>
    BY DEF Tick, queueVars, TypeOK, Worker, Sent
<1>2. api \in Object /\ cache \in Object /\ w \in Worker /\ sent \in Sent
      /\ w.obj \in Object
    BY DEF TypeOK, Worker
<1>3. /\ \A a \in Age : Older(a) \in Age
      /\ \A a, b \in Age : a <= b => Older(a) <= Older(b)
    BY BoundsAssumption DEF Age, Older
<1>4. /\ w' \in Worker /\ w'.obj = Aged(w.obj) /\ w'.pc = w.pc /\ w'.todo = w.todo
      /\ w'.attempt = w.attempt /\ w'.current = w.current /\ w'.hash = w.hash
      /\ w'.failed = w.failed /\ (w.attempt => w'.age = Older(w.age))
    BY <1>1, <1>2, <1>3, AgedObject DEF Worker
<1>5. /\ sent' \in Sent /\ sent'.age = Older(sent.age) /\ sent'.hash = sent.hash
      /\ sent'.recorded = sent.recorded /\ sent'.failed = sent.failed
    BY <1>1, <1>2, <1>3 DEF Sent
<1>6. /\ api' \in Object /\ api'.exists = api.exists /\ api'.spec = api.spec
      /\ api'.sentAge = Older(api.sentAge) /\ api'.lastHash = api.lastHash
      /\ api'.reason = api.reason
    BY <1>1, <1>2, AgedObject
<1>7. /\ w'.obj.exists = w.obj.exists /\ w'.obj.spec = w.obj.spec
      /\ w'.obj.sentAge = Older(w.obj.sentAge) /\ w'.obj.lastHash = w.obj.lastHash
      /\ w'.obj.reason = w.obj.reason
    BY <1>2, <1>4, AgedObject
<1>8. TypeOK'
    BY <1>1, <1>2, <1>4, <1>5, <1>6, AgedObject, WatchAged DEF TypeOK
<1>9. WatchInv'
    BY WatchAged
<1>10. CopyInv'
    BY <1>4, <1>6, <1>7 DEF CopyInv
<1>11. AttemptInv'
    <2>1. w.age \in Age /\ api.sentAge \in Age
        BY <1>2 DEF Worker, Object
    <2>2. w.age <= api.sentAge => Older(w.age) <= Older(api.sentAge)
        BY <1>3, <2>1
    <2>3. QED
        BY <1>4, <1>5, <1>6, <2>2 DEF AttemptInv
<1>12. RecordInv'
    BY <1>5, <1>6 DEF RecordInv
<1>13. DeliveredTruthful'
    BY <1>5, <1>6 DEF DeliveredTruthful
<1>14. QED
    BY <1>8, <1>9, <1>10, <1>11, <1>12, <1>13

\* A restarted process holds nothing and its cache is the API server's object.
LEMMA RestartKeeps == ASSUME NotificationInv, Restart PROVE NotificationInv'
<1> USE DEF NotificationInv
<1>1. /\ stream' = <<>> /\ cache' = api /\ timer' = FALSE /\ w' = Idle
      /\ UNCHANGED <<api, plan, edits, sent>>
    BY Zenon DEF Restart
<1>2. queued' = api.exists
    BY Zenon DEF Restart
<1>3. TypeOK'
    <2>1. stream' \in Seq(Object) /\ Len(stream') <= MaxLag
        BY <1>1, BoundsAssumption
    <2>2. api.exists \in BOOLEAN
        BY DEF TypeOK, Object
    <2>3. w' \in Worker
        BY <1>1, IdleWorker
    <2>4. QED
        BY <1>1, <1>2, <2>1, <2>2, <2>3, Zenon DEF TypeOK
<1>4. WatchInv'
    BY <1>1, Zenon DEF WatchInv
<1>5. ~w'.attempt /\ ~w'.current /\ w'.todo = {} /\ w'.pc = "idle"
    BY <1>1, Zenon DEF Idle
<1>6. CopyInv' /\ AttemptInv'
    BY <1>5 DEF CopyInv, AttemptInv
<1>7. QED
    BY <1>1, <1>3, <1>4, <1>6 DEF RecordInv, DeliveredTruthful

\* The part of a round every branch shares: the key leaves the queue, and the
\* copy in the cache is an object that, with nothing on the way, is the API
\* server's.
LEMMA TakeReads ==
    ASSUME NotificationInv, Take
    PROVE  /\ UNCHANGED <<api, stream, cache, plan, edits>> /\ queued' = FALSE
           /\ w.pc = "idle" /\ ~w.attempt
           /\ cache \in Object
           /\ stream = <<>> => cache = api
BY DEF NotificationInv, TypeOK, WatchInv, CopyInv, Take, clusterVars

\* A round that sends nothing holds its copy of the object, with another
\* condition, until the update.
LEMMA SkipKeeps ==
    ASSUME NotificationInv, Take, cache.exists,
           NEW reason \in Reason \ {"Delivered"}, Skip(reason)
    PROVE  NotificationInv'
<1> USE DEF NotificationInv
<1>1. /\ UNCHANGED <<api, stream, cache, plan, edits>> /\ queued' = FALSE
      /\ cache \in Object /\ (stream = <<>> => cache = api)
    BY TakeReads
<1> DEFINE o == Condition(cache, reason)
<1>2. /\ o \in Object /\ o.exists = cache.exists /\ o.spec = cache.spec
      /\ o.sentAge = cache.sentAge /\ o.lastHash = cache.lastHash
      /\ o.reason = reason
    BY <1>1, ConditionObject
<1>3. /\ w' = [Idle EXCEPT !.pc = "update", !.obj = o, !.current = (stream = <<>>)]
      /\ UNCHANGED <<timer, sent>>
    BY DEF Skip
<1> HIDE DEF o
<1>4. /\ w' \in Worker /\ w'.pc = "update" /\ w'.obj = o /\ ~w'.attempt
      /\ w'.todo = {} /\ (w'.current <=> stream = <<>>)
    <2>1. 0 \in Age
        BY BoundsAssumption DEF Age
    <2>2. QED
        BY <1>2, <1>3, <2>1 DEF Idle, Worker
<1>5. TypeOK'
    BY <1>1, <1>3, <1>4 DEF TypeOK
<1>6. WatchInv'
    BY <1>1 DEF WatchInv
<1>7. CopyInv'
    BY <1>1, <1>2, <1>4 DEF CopyInv
<1>8. AttemptInv'
    BY <1>4 DEF AttemptInv
<1>9. QED
    BY <1>1, <1>3, <1>5, <1>6, <1>7, <1>8 DEF RecordInv, DeliveredTruthful

\* What an attempt starts from: a copy out of its cooldown, and, when only
\* changes are sent, with another hash on record.
LEMMA AttemptStarts ==
    ASSUME NotificationInv, Attempt
    PROVE  /\ UNCHANGED <<api, stream, cache, plan, edits, timer>> /\ queued' = FALSE
           /\ cache \in Object /\ cache.exists /\ (stream = <<>> => cache = api)
           /\ ~Cooling(cache) /\ ~Unchanged(cache, plan)
           /\ w' \in Worker /\ w'.pc = "update" /\ w'.obj = cache /\ w'.attempt
           /\ w'.hash = plan /\ w'.age = 0 /\ ~w'.failed
           /\ w'.current <=> stream = <<>>
           /\ plan \in Hashes \cup {""}
           /\ sent' = [age |-> 0, hash |-> plan, recorded |-> FALSE, failed |-> FALSE]
<1>1. Take /\ cache.exists /\ plan # NoPlan /\ ~Cooling(cache) /\ ~Unchanged(cache, plan)
    BY DEF Attempt, Ready
<1>2. /\ UNCHANGED <<api, stream, cache, plan, edits>> /\ queued' = FALSE
      /\ cache \in Object /\ (stream = <<>> => cache = api)
    BY <1>1, TakeReads
<1>3. plan \in Hashes \cup {""}
    BY <1>1 DEF NotificationInv, TypeOK
<1> DEFINE todo == IF cache.spec.dryRun THEN {} ELSE cache.spec.channels
<1>4. todo \in SUBSET Channel
    BY <1>2, SpecsAssumption DEF Object, SpecFields
<1>5. /\ w' = [Idle EXCEPT !.pc = "update", !.obj = cache, !.current = (stream = <<>>),
                           !.hash = plan, !.attempt = TRUE, !.todo = todo]
      /\ sent' = [age |-> 0, hash |-> plan, recorded |-> FALSE, failed |-> FALSE]
      /\ timer' = timer
    BY DEF Attempt
<1> HIDE DEF todo
<1>6. /\ w' \in Worker /\ w'.pc = "update" /\ w'.obj = cache /\ w'.attempt
      /\ w'.hash = plan /\ w'.age = 0 /\ ~w'.failed
      /\ w'.current <=> stream = <<>>
    <2>1. 0 \in Age
        BY BoundsAssumption DEF Age
    <2>2. QED
        BY <1>2, <1>3, <1>4, <1>5, <2>1 DEF Idle, Worker
<1>7. QED
    BY <1>1, <1>2, <1>3, <1>5, <1>6

\* An attempt becomes the last one the world saw.
LEMMA AttemptKeeps == ASSUME NotificationInv, Attempt PROVE NotificationInv'
<1> USE DEF NotificationInv
<1>1. sent' \in Sent /\ ~sent'.recorded /\ ~sent'.failed /\ sent'.age = 0
      /\ sent'.hash = plan
    <2>1. 0 \in Age
        BY BoundsAssumption DEF Age
    <2>2. /\ sent' = [age |-> 0, hash |-> plan, recorded |-> FALSE, failed |-> FALSE]
          /\ plan \in Hashes \cup {""}
        BY AttemptStarts
    <2>3. QED
        BY <2>1, <2>2 DEF Sent
<1>2. TypeOK'
    BY <1>1, AttemptStarts DEF TypeOK
<1>3. WatchInv'
    BY AttemptStarts DEF WatchInv
<1>4. CopyInv'
    BY AttemptStarts DEF CopyInv
<1>5. AttemptInv'
    <2>1. 0 <= api.sentAge
        <3>1. api.sentAge \in Nat
            BY AgesAreNumbers DEF TypeOK
        <3>2. QED
            BY <3>1
    <2>2. w'.age <= api'.sentAge
        BY <2>1, AttemptStarts
    <2>3. w'.failed = sent'.failed
        BY <1>1, AttemptStarts DEF Sent, Worker
    <2>4. QED
        BY <1>1, <2>2, <2>3, AttemptStarts DEF AttemptInv
<1>6. RecordInv' /\ DeliveredTruthful'
    BY <1>1 DEF RecordInv, DeliveredTruthful
<1>7. QED
    BY <1>2, <1>3, <1>4, <1>5, <1>6

\* A send is noted alike in the round's locals and in the world.
LEMMA SendKeeps ==
    ASSUME NotificationInv, NEW c \in Channel, NEW ok \in BOOLEAN, Send(c, ok)
    PROVE  NotificationInv'
<1> USE DEF NotificationInv
<1>1. /\ UNCHANGED <<api, stream, cache, plan, queued, timer, edits>>
      /\ w' = [w EXCEPT !.todo = @ \ {c}, !.failed = @ \/ ~ok]
      /\ sent' = [sent EXCEPT !.failed = @ \/ ~ok]
      /\ c \in w.todo
    BY DEF Send, clusterVars, queueVars
<1>2. w \in Worker /\ sent \in Sent
    BY DEF TypeOK
<1>3. /\ w' \in Worker /\ w'.pc = w.pc /\ w'.obj = w.obj /\ w'.current = w.current
      /\ w'.attempt = w.attempt /\ w'.hash = w.hash /\ w'.age = w.age
      /\ w'.todo = w.todo \ {c} /\ (w'.failed <=> w.failed \/ ~ok)
    BY <1>1, <1>2 DEF Worker
<1>4. /\ sent' \in Sent /\ sent'.age = sent.age /\ sent'.hash = sent.hash
      /\ sent'.recorded = sent.recorded /\ (sent'.failed <=> sent.failed \/ ~ok)
    BY <1>1, <1>2 DEF Sent
<1>5. TypeOK'
    BY <1>1, <1>3, <1>4 DEF TypeOK
<1>6. WatchInv'
    BY <1>1 DEF WatchInv
<1>7. w.attempt
    BY <1>1 DEF CopyInv
<1>8. CopyInv'
    BY <1>1, <1>3, <1>7 DEF CopyInv
<1>9. AttemptInv'
    <2>1. w.failed = sent.failed => w'.failed = sent'.failed
        BY <1>2, <1>3, <1>4 DEF Worker, Sent
    <2>2. QED
        BY <1>1, <1>3, <1>4, <2>1 DEF AttemptInv
<1>10. RecordInv'
    BY <1>1, <1>4 DEF RecordInv
<1>11. DeliveredTruthful'
    BY <1>1, <1>4, <1>7 DEF AttemptInv, DeliveredTruthful
<1>12. QED
    BY <1>5, <1>6, <1>8, <1>9, <1>10, <1>11

\* What an update that goes through writes: the copy's spec, on record either
\* what was there or the attempt of this round, and Delivered only of an
\* attempt without failures.
LEMMA Updated ==
    ASSUME NotificationInv, UpdateStatus
    PROVE  /\ api'.exists /\ api' \in Object /\ WatchInv'
           /\ stream' \in Seq(Object) /\ Len(stream') <= MaxLag
           /\ IF w.attempt
              THEN /\ api'.sentAge = w.age /\ api'.lastHash = w.hash
                   /\ api'.reason = "Delivered" => ~w.failed
              ELSE /\ api'.sentAge = api.sentAge /\ api'.lastHash = api.lastHash
                   /\ api'.reason # "Delivered"
<1> USE DEF NotificationInv
<1> DEFINE o == IF w.attempt THEN Recorded(w.obj) ELSE w.obj
<1>1. w.pc = "update" /\ w.current /\ cache' = cache
    BY DEF UpdateStatus, Updating
<1>2. IF w.attempt \/ o # api THEN Write(o) ELSE UNCHANGED clusterVars
    BY DEF UpdateStatus
<1>3. w \in Worker /\ w.obj \in Object
    BY DEF TypeOK, Worker
<1>4. /\ o \in Object /\ o.exists
      /\ w.attempt => /\ o.sentAge = w.age /\ o.lastHash = w.hash
                      /\ o.reason = "Delivered" => ~w.failed
      /\ ~w.attempt => /\ o.sentAge = api.sentAge /\ o.lastHash = api.lastHash
                       /\ o.reason # "Delivered"
    <2>1. w.obj.exists /\ w.obj.sentAge = api.sentAge /\ w.obj.lastHash = api.lastHash
        BY <1>1 DEF CopyInv
    <2>2. CASE w.attempt
        <3> DEFINE r == Recorded(w.obj)
        <3>1. r \in Object /\ r.exists = w.obj.exists /\ r.sentAge = w.age
              /\ r.lastHash = w.hash /\ (r.reason = "Delivered" => ~w.failed)
            BY <1>3 DEF Recorded, Object, Worker, Reason
        <3>2. o = r
            BY <2>2
        <3> HIDE DEF r, o
        <3>3. QED
            BY <2>1, <2>2, <3>1, <3>2
    <2>3. CASE ~w.attempt
        BY <1>1, <1>3, <2>1, <2>3 DEF CopyInv
    <2>4. QED
        BY <2>2, <2>3
<1> HIDE DEF o
<1>5. CASE w.attempt \/ o # api
    BY <1>2, <1>4, <1>5, WriteWatched DEF WatchInv
<1>6. CASE ~w.attempt /\ o = api
    BY <1>1, <1>2, <1>4, <1>6 DEF WatchInv, TypeOK, clusterVars
<1>7. QED
    BY <1>5, <1>6

\* An update that goes through puts the attempt on record.
LEMMA UpdateStatusKeeps == ASSUME NotificationInv, UpdateStatus PROVE NotificationInv'
<1> USE DEF NotificationInv
<1>1. /\ w.current /\ timer' = TRUE /\ w' = Idle
      /\ sent' = [sent EXCEPT !.recorded = @ \/ w.attempt]
      /\ UNCHANGED <<cache, plan, queued, edits>>
    BY DEF UpdateStatus
<1>2. sent \in Sent /\ w \in Worker
    BY DEF TypeOK
<1>3. /\ sent' \in Sent /\ sent'.age = sent.age /\ sent'.hash = sent.hash
      /\ sent'.failed = sent.failed /\ (sent'.recorded <=> sent.recorded \/ w.attempt)
    BY <1>1, <1>2 DEF Sent, Worker
<1>4. ~w'.attempt /\ ~w'.current /\ w'.todo = {} /\ w'.pc = "idle"
    BY <1>1, Zenon DEF Idle
<1>5. TypeOK'
    BY <1>1, <1>3, IdleWorker, Updated DEF TypeOK
<1>6. CopyInv' /\ AttemptInv'
    BY <1>4 DEF CopyInv, AttemptInv
<1>7. api.exists
    BY <1>1 DEF CopyInv
<1>8. RecordInv'
    BY <1>1, <1>3, <1>7, Updated DEF RecordInv, AttemptInv
<1>9. DeliveredTruthful'
    BY <1>1, <1>3, Updated DEF DeliveredTruthful, AttemptInv
<1>10. QED
    BY <1>5, <1>6, <1>8, <1>9, Updated

\* A refused update loses the round and changes nothing else.
LEMMA UpdateFailsKeeps == ASSUME NotificationInv, UpdateFails PROVE NotificationInv'
<1> USE DEF NotificationInv
<1>1. /\ timer' = TRUE /\ w' = Idle
      /\ UNCHANGED <<api, stream, cache, plan, queued, edits, sent>>
    BY DEF UpdateFails, clusterVars
<1>2. ~w'.attempt /\ ~w'.current /\ w'.todo = {} /\ w'.pc = "idle"
    BY <1>1, Zenon DEF Idle
<1>3. TypeOK'
    BY <1>1, IdleWorker DEF TypeOK
<1>4. CopyInv' /\ AttemptInv'
    BY <1>2 DEF CopyInv, AttemptInv
<1>5. QED
    BY <1>1, <1>3, <1>4 DEF WatchInv, RecordInv, DeliveredTruthful

\* Every round that is begun keeps the invariant.
LEMMA TakeStepKeeps == ASSUME NotificationInv, TakeStep PROVE NotificationInv'
<1>1. CASE GetNotFound
    BY <1>1, SurroundingsKeep
<1>2. CASE InvalidSpec
    BY <1>2, SkipKeeps DEF InvalidSpec, Reason
<1>3. CASE PlanNotFound
    BY <1>3, SkipKeeps DEF PlanNotFound, Reason
<1>4. CASE SkipNoChange
    BY <1>4, SkipKeeps DEF SkipNoChange, Ready, Reason
<1>5. CASE SkipCooldown
    BY <1>5, SkipKeeps DEF SkipCooldown, Ready, Reason
<1>6. CASE NoChannels
    BY <1>6, SkipKeeps DEF NoChannels, Ready, Reason
<1>7. CASE Attempt
    BY <1>7, AttemptKeeps
<1>8. QED
    BY <1>1, <1>2, <1>3, <1>4, <1>5, <1>6, <1>7 DEF TakeStep

\* Every step keeps the invariant.
LEMMA NotificationInvNext == NotificationInv /\ [Next]_vars => NotificationInv'
<1> SUFFICES ASSUME NotificationInv, [Next]_vars PROVE NotificationInv'
    OBVIOUS
<1>1. CASE UNCHANGED vars
    BY <1>1 DEF vars, clusterVars, queueVars, NotificationInv, TypeOK, WatchInv, CopyInv,
                AttemptInv, RecordInv, DeliveredTruthful
<1>2. CASE Next
    BY <1>2, UserKeeps, DeliverKeeps, SurroundingsKeep, TickKeeps, RestartKeeps,
       TakeStepKeeps, SendKeeps, UpdateStatusKeeps, UpdateFailsKeeps DEF Next
<1>3. QED
    BY <1>1, <1>2

\* Every reachable state satisfies the invariant.
THEOREM NotificationInvariant == Spec => []NotificationInv
BY NotificationInvInit, NotificationInvNext, PTL DEF Spec

\* The types hold throughout, and the watch never lags by more than MaxLag.
THEOREM NotificationTypes == Spec => []TypeOK
BY NotificationInvariant, PTL DEF NotificationInv

\* A recorded attempt that the status calls Delivered had no channel fail,
\* whatever was edited, deleted, created again, lost or restarted meanwhile.
THEOREM DeliveredIsTrue == Spec => []DeliveredTruthful
BY NotificationInvariant, PTL DEF NotificationInv

-----------------------------------------------------------------------------
\* The action properties.

\* Only an attempt starts sending.
LEMMA OnlyAttempts ==
    ASSUME NotificationInv, Next, Attempting
    PROVE  Attempt
<1> USE DEF Attempting
<1>1. w \in Worker /\ ~w.attempt
    BY DEF NotificationInv, TypeOK
<1>2. ~Idle.attempt
    BY Zenon DEF Idle
<1>3. ASSUME w' = w \/ w' = Idle PROVE FALSE
    BY <1>2, <1>3
<1>4. ASSUME w'.attempt = w.attempt PROVE FALSE
    BY <1>4
<1>5. CASE UserStep
    <2>1. w' = [w EXCEPT !.current = FALSE]
        BY <1>5 DEF UserStep, CreateObject, EditSpec, DeleteObject, UserWrite
    <2>2. QED
        BY <1>1, <1>4, <2>1 DEF Worker
<1>6. CASE Tick
    <2>1. w' = [w EXCEPT !.obj = Aged(@), !.age = IF w.attempt THEN Older(@) ELSE @]
        BY <1>6 DEF Tick
    <2>2. QED
        BY <1>1, <1>4, <2>1 DEF Worker
<1>7. ASSUME NEW c \in Channel, NEW ok \in BOOLEAN, Send(c, ok) PROVE FALSE
    <2>1. w' = [w EXCEPT !.todo = @ \ {c}, !.failed = @ \/ ~ok]
        BY <1>7 DEF Send
    <2>2. QED
        BY <1>1, <1>4, <2>1 DEF Worker
<1>8. ASSUME NEW reason, Skip(reason) PROVE FALSE
    <2> DEFINE o == Condition(cache, reason)
    <2>1. w' = [Idle EXCEPT !.pc = "update", !.obj = o, !.current = (stream = <<>>)]
        BY <1>8 DEF Skip
    <2> HIDE DEF o
    <2>2. QED
        BY <2>1 DEF Idle
<1>9. CASE TakeStep
    BY <1>3, <1>8, <1>9
       DEF TakeStep, GetNotFound, InvalidSpec, PlanNotFound, SkipNoChange, SkipCooldown,
           NoChannels
<1>10. CASE Deliver \/ (\E p \in Hashes \cup {"", NoPlan} : PlanChanges(p)) \/ TimerFires
            \/ Restart \/ GetFails \/ UpdateStatus \/ UpdateFails
    BY <1>3, <1>10 DEF Deliver, PlanChanges, TimerFires, Restart, GetFails, UpdateStatus,
                       UpdateFails
<1>11. QED
    BY <1>5, <1>6, <1>7, <1>9, <1>10 DEF Next

\* An informed worker decides on the time and the hash of the last attempt.
LEMMA InformedAttempt ==
    ASSUME NotificationInv, Attempt, Informed
    PROVE  /\ w'.obj = cache /\ w'.hash = plan
           /\ cache.sentAge = sent.age /\ ~Cooling(cache) /\ ~Unchanged(cache, plan)
           /\ sent.hash = cache.lastHash \/ sent.hash = NoHash
           /\ plan \in Hashes \cup {""}
BY AttemptStarts DEF NotificationInv, RecordInv, Informed

\* A worker that has the last attempt's record keeps the cooldown: through
\* edits, deletions, failed updates and restarts, no attempt starts before the
\* cooldown of the spec it read is over.
THEOREM CooldownKept == Spec => CooldownWhenInformed
<1>1. ASSUME NotificationInv, Next, Attempting, Informed
      PROVE  sent.age >= CooldownOf(w'.obj.spec)
    <2>1. Attempt
        BY <1>1, OnlyAttempts
    <2>2. w'.obj = cache /\ cache.sentAge = sent.age /\ ~Cooling(cache)
        BY <1>1, <2>1, InformedAttempt
    <2>3. cache \in Object /\ cache.spec \in SpecFields
        BY <1>1, SpecsAssumption DEF NotificationInv, TypeOK, Object
    <2>4. CooldownOf(cache.spec) \in Nat
        BY <2>3, BoundsAssumption DEF CooldownOf, SpecFields
    <2>5. cache.sentAge \in Nat
        BY <2>3, AgesAreNumbers
    <2>6. QED
        BY <2>2, <2>4, <2>5 DEF Cooling
<1>2. NotificationInv /\ [Next]_vars =>
        [Attempting /\ Informed => sent.age >= CooldownOf(w'.obj.spec)]_vars
    BY <1>1
<1>3. QED
    BY <1>2, NotificationInvariant, PTL DEF Spec, CooldownWhenInformed

\* Nor does such a worker send a snapshot again when only changes are wanted.
THEOREM ChangeKept == Spec => ChangeWhenInformed
<1>1. ASSUME NotificationInv, Next, Attempting, Informed, w'.obj.spec.onChangeOnly,
             w'.hash # ""
      PROVE  w'.hash # sent.hash
    <2>1. Attempt
        BY <1>1, OnlyAttempts
    <2>2. /\ w'.obj = cache /\ w'.hash = plan /\ ~Unchanged(cache, plan)
          /\ sent.hash = cache.lastHash \/ sent.hash = NoHash
          /\ plan \in Hashes \cup {""}
        BY <1>1, <2>1, InformedAttempt
    <2>3. QED
        BY <1>1, <2>2, HashesAssumption DEF Unchanged
<1>2. NotificationInv /\ [Next]_vars =>
        [Attempting /\ Informed /\ w'.obj.spec.onChangeOnly /\ w'.hash # ""
            => w'.hash # sent.hash]_vars
    BY <1>1
<1>3. QED
    BY <1>2, NotificationInvariant, PTL DEF Spec, ChangeWhenInformed

\* No step takes the time on record back: a write from an outdated copy is
\* refused, and one from a current copy is of the same or a later attempt.
THEOREM SentTimeKept == Spec => SentTimeNeverGoesBack
<1> DEFINE Kept == api.exists /\ api'.exists => api'.sentAge <= api.sentAge \/ api' = Aged(api)
<1>1. ASSUME NotificationInv, Next PROVE Kept
    <2>1. api \in Object /\ api.sentAge \in Nat
        BY <1>1, AgesAreNumbers DEF NotificationInv, TypeOK
    <2>2. ASSUME api' = api PROVE Kept
        BY <2>1, <2>2
    <2>3. CASE UserStep
        <3>1. ASSUME NEW s \in Specs, EditSpec(s) PROVE Kept
            <4>1. api' = [api EXCEPT !.spec = s, !.observed = FALSE]
                BY <3>1 DEF EditSpec, UserWrite, Write
            <4>2. api'.sentAge = api.sentAge
                BY <2>1, <4>1 DEF Object
            <4>3. QED
                BY <2>1, <4>2
        <3>2. CASE DeleteObject
            BY <3>2, ObjectsMade DEF DeleteObject, UserWrite, Write
        <3>3. QED
            BY <2>3, <3>1, <3>2 DEF UserStep, CreateObject
    <2>4. CASE UpdateStatus
        <3>1. w.current
            BY <2>4 DEF UpdateStatus
        <3>2. w.attempt => w.age <= api.sentAge
            BY <1>1, <3>1 DEF NotificationInv, AttemptInv
        <3>3. QED
            BY <1>1, <2>1, <2>4, <3>2, Updated
    <2>5. CASE Tick
        BY <2>5 DEF Tick
    <2>6. ASSUME Take PROVE api' = api
        BY <2>6 DEF Take, clusterVars
    <2>7. CASE TakeStep \/ GetFails
        BY <2>2, <2>6, <2>7
           DEF TakeStep, GetNotFound, InvalidSpec, PlanNotFound, SkipNoChange,
               SkipCooldown, NoChannels, Attempt, Ready, GetFails
    <2>8. CASE Deliver \/ (\E p \in Hashes \cup {"", NoPlan} : PlanChanges(p)) \/ TimerFires
               \/ Restart \/ (\E c \in Channel, ok \in BOOLEAN : Send(c, ok)) \/ UpdateFails
        BY <2>2, <2>8 DEF Deliver, PlanChanges, TimerFires, Restart, Send, UpdateFails,
                          clusterVars
    <2>9. QED
        BY <1>1, <2>3, <2>4, <2>5, <2>7, <2>8 DEF Next
<1>2. NotificationInv /\ [Next]_vars => [Kept]_vars
    BY <1>1
<1>3. QED
    BY <1>2, NotificationInvariant, PTL DEF Spec, SentTimeNeverGoesBack
=============================================================================
