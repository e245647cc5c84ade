------------------------- MODULE CapacityPlanProofs -------------------------
(***************************************************************************)
(* Proofs about the capacity plan reconciler, for every set of plans and   *)
(* every bound.                                                            *)
(*                                                                         *)
(* RateLimitWhenRecorded needs what a copy that is still current is worth  *)
(* (CopyInv) and what became of the insight of the round (InsightInv).     *)
(*                                                                         *)
(* ActivePlanStays needs the order of creation timestamps along the watch: *)
(* a plan that gets into the cache after another is not older than it,     *)
(* unless it was there before, as an earlier version of itself.  Positions *)
(* of the watch are numbered from 0, the cache, through the changes on the *)
(* way to Len(stream) + 1, the API server; OriginsInv says where the       *)
(* object of a version came to the watch, and FloorInv that nothing older  *)
(* than the plan that drives is anywhere on it.                            *)
(***************************************************************************)
EXTENDS CapacityPlan, SequenceTheorems, WellFoundedInduction, TLAPS

\* The cache lacks only what is on the way to it.
WatchInv ==
    /\ \A pl \in Plans :
        (\A i \in 1 .. Len(stream) : stream[i][1] # pl) => cache[pl] = api[pl]
    /\ \A i \in 1 .. Len(stream) :
        (\A j \in i + 1 .. Len(stream) : stream[j][1] # stream[i][1])
            => stream[i][2] = api[stream[i][1]]
    /\ w.pc # "idle" => Len(stream) <= MaxLag

\* A round that is not about a status to be cleared.
Reporting == w.pc = "update" => w.obj.ready = "Active"

\* The round's insight is the one on record, or one of this round.
CopyInv ==
    w.pc # "idle" /\ w.current =>
        /\ api[w.plan].exists
        /\ api[w.plan].created = w.obj.created
        /\ Reporting /\ asked[w.plan].outcome # "pending"
            => w.obj.insightAge = api[w.plan].insightAge

\* An insight whose update is pending is in the worker's hands; one that is
\* recorded is in the status.
InsightInv ==
    \A pl \in Plans :
        /\ asked[pl].outcome = "pending" =>
            /\ w.plan = pl /\ w.pc \in {"narrate", "publish", "update"} /\ Reporting
            /\ w.obj.insightAge = asked[pl].age
        /\ asked[pl].outcome = "recorded" /\ api[pl].exists
            => api[pl].insightAge = asked[pl].age

PlanInv == TypeOK /\ WatchInv /\ CopyInv /\ InsightInv

-----------------------------------------------------------------------------
\* Is position i of the watch a version of plan p, and which?
About(p, i) == i \in 1 .. Len(stream) => stream[i][1] = p
Version(p, i) == IF i = 0 THEN cache[p]
                 ELSE IF i \in 1 .. Len(stream) THEN stream[i][2] ELSE api[p]

\* The plan that version i is of has been on the watch since position k, where
\* it is in the cache already or was created, and then it is not older than
\* anything before it, the copy in the worker's hands included.
Origin(p, i, k) ==
    /\ About(p, k)
    /\ \A j \in k .. i : About(p, j) => /\ Version(p, j).exists
                                        /\ Version(p, j).created = Version(p, i).created
    /\ k > 0 => /\ \A j \in 0 .. k - 1, q \in Plans :
                    About(q, j) /\ Version(q, j).exists
                        => Version(q, j).created <= Version(p, i).created
                /\ w.pc # "idle" => w.obj.created <= Version(p, i).created

OriginsInv ==
    \A p \in Plans, i \in 1 .. Len(stream) + 1 :
        About(p, i) /\ Version(p, i).exists =>
            \E k \in 0 .. i : k <= Len(stream) /\ Origin(p, i, k)

\* Every plan on the watch was created at c or later.
Floor(c) ==
    \A p \in Plans, i \in 0 .. Len(stream) + 1 :
        About(p, i) /\ Version(p, i).exists => c <= Version(p, i).created

FloorInv ==
    /\ \A p \in Plans, i \in 0 .. Len(stream) + 1 :
        About(p, i) /\ Version(p, i).exists => Version(p, i).created <= created
    /\ w.pc # "idle" =>
        /\ w.obj.created <= created
        /\ \A p \in Plans, i \in 0 .. Len(stream) + 1 :
            p = w.plan /\ About(p, i) /\ Version(p, i).exists
                => w.obj.created <= Version(p, i).created
    /\ driver.plan # NoPlan =>
        /\ Floor(driver.created)
        /\ driver.created <= created
        /\ w.pc # "idle" => driver.created <= w.obj.created

ActiveInv == PlanInv /\ OriginsInv /\ FloorInv

-----------------------------------------------------------------------------
\* The objects the actions write.

\* Nothing is a time, a rank or an object by accident.
LEMMA Constants == 0 \in Age /\ MaxAge \in Age /\ 0 \in Rank
BY BoundsAssumption DEF Age, Rank, MaxAge

\* A new plan is an object.
LEMMA NewPlanObject ==
    ASSUME NEW c \in Rank
    PROVE  /\ NewPlan(c) \in Object /\ NewPlan(c).exists = TRUE /\ NewPlan(c).created = c
           /\ NewPlan(c).ready = "None"
BY Constants, RisksAssumption DEF NewPlan, Object

\* So is the absence of one.
LEMMA AbsentObject == Absent \in Object /\ Absent.exists = FALSE
<1>1. NewPlan(0) \in Object
    BY Constants, NewPlanObject
<1>2. QED
    BY <1>1 DEF Absent, Object

\* The worker at rest is a worker.
LEMMA IdleWorker ==
    /\ Idle \in Worker /\ Idle.pc = "idle" /\ Idle.plan = NoPlan
BY Constants, AbsentObject, RisksAssumption DEF Idle, Worker

\* Time changes the ages of an object and nothing the plans are ordered by.
LEMMA AgedObject ==
    ASSUME NEW o \in Object
    PROVE  /\ Aged(o) \in Object
           /\ Aged(o).exists = o.exists /\ Aged(o).created = o.created
           /\ Aged(o).ready = o.ready /\ Aged(o).insightAge = Older(o.insightAge)
<1>1. \A a \in Age : Older(a) \in Age
    BY BoundsAssumption DEF Age, Older, MaxAge
<1>2. Aged(o) = [o EXCEPT !.insightAge = Older(o.insightAge),
                          !.toldAge = Older(o.toldAge), !.now = FALSE]
    BY DEF Aged, Object
<1>3. QED
    BY <1>1, <1>2 DEF Object

\* What has been asked and is not pending stays so when a round is given up.
LEMMA UnrecordedAsked ==
    ASSUME NEW a \in Asked
    PROVE  /\ Unrecorded(a) \in Asked /\ Unrecorded(a).outcome # "pending"
           /\ Unrecorded(a).age = a.age
           /\ Unrecorded(a).outcome = "recorded" => a.outcome = "recorded"
BY DEF Unrecorded, Asked

\* A plan that was never asked about.
LEMMA NotAskedAsked == NotAsked \in Asked /\ NotAsked.outcome = "none"
BY Constants DEF NotAsked, Asked

-----------------------------------------------------------------------------
\* The watch.

\* What the types say of the changes on the way, position by position.
LEMMA StreamTyped ==
    ASSUME TypeOK
    PROVE  /\ stream \in Seq(Plans \X Object) /\ Len(stream) \in Nat
           /\ Len(stream) <= MaxLag + 1
           /\ \A i \in 1 .. Len(stream) : stream[i][1] \in Plans /\ stream[i][2] \in Object
<1>1. stream \in Seq(Plans \X Object) /\ Len(stream) <= MaxLag + 1
    BY DEF TypeOK
<1>2. \A i \in 1 .. Len(stream) : stream[i] \in Plans \X Object
    BY <1>1
<1>3. QED
    BY <1>1, <1>2

\* A write is the last change on the way.
LEMMA Written ==
    ASSUME TypeOK, NEW pl \in Plans, NEW o \in Object, Write(pl, o)
    PROVE  /\ api' = [api EXCEPT ![pl] = o] /\ api' \in [Plans -> Object]
           /\ api'[pl] = o /\ \A q \in Plans \ {pl} : api'[q] = api[q]
           /\ stream' \in Seq(Plans \X Object) /\ Len(stream') = Len(stream) + 1
           /\ \A i \in 1 .. Len(stream) : stream'[i] = stream[i]
           /\ stream'[Len(stream) + 1] = <<pl, o>>
<1>1. stream \in Seq(Plans \X Object) /\ <<pl, o>> \in Plans \X Object
    BY StreamTyped
<1>2. stream' = Append(stream, <<pl, o>>) /\ api' = [api EXCEPT ![pl] = o]
    BY DEF Write
<1>3. /\ stream' \in Seq(Plans \X Object) /\ Len(stream') = Len(stream) + 1
      /\ \A i \in 1 .. Len(stream) : stream'[i] = stream[i]
      /\ stream'[Len(stream) + 1] = <<pl, o>>
    BY <1>1, <1>2, AppendProperties
<1>4. api \in [Plans -> Object]
    BY DEF TypeOK
<1>5. QED
    BY <1>2, <1>3, <1>4

\* After a write the cache lacks what is on the way to it, and no more.
LEMMA WrittenWatched ==
    ASSUME TypeOK, WatchInv, NEW pl \in Plans, NEW o \in Object, Write(pl, o), cache' = cache
    PROVE  /\ \A q \in Plans :
                (\A i \in 1 .. Len(stream') : stream'[i][1] # q) => cache'[q] = api'[q]
           /\ \A i \in 1 .. Len(stream') :
                (\A j \in i + 1 .. Len(stream') : stream'[j][1] # stream'[i][1])
                    => stream'[i][2] = api'[stream'[i][1]]
<1> DEFINE n == Len(stream)
<1>1. /\ api'[pl] = o /\ \A q \in Plans \ {pl} : api'[q] = api[q]
      /\ n \in Nat /\ Len(stream') = n + 1
      /\ \A i \in 1 .. n : stream'[i] = stream[i]
      /\ stream'[n + 1] = <<pl, o>>
    BY Written, StreamTyped
<1>2. ASSUME NEW q \in Plans, \A i \in 1 .. Len(stream') : stream'[i][1] # q
      PROVE  cache'[q] = api'[q]
    <2>1. n + 1 \in 1 .. Len(stream') /\ \A i \in 1 .. n : i \in 1 .. Len(stream')
        BY <1>1
    <2>2. q # pl /\ \A i \in 1 .. n : stream[i][1] # q
        BY <1>1, <1>2, <2>1
    <2>3. QED
        BY <1>1, <2>2 DEF WatchInv
<1>3. ASSUME NEW i \in 1 .. Len(stream'),
             \A j \in i + 1 .. Len(stream') : stream'[j][1] # stream'[i][1]
      PROVE  stream'[i][2] = api'[stream'[i][1]]
    <2>1. CASE i = n + 1
        BY <1>1, <2>1
    <2>2. CASE i \in 1 .. n
        <3>1. n + 1 \in i + 1 .. Len(stream')
              /\ \A j \in i + 1 .. n : j \in i + 1 .. Len(stream') /\ j \in 1 .. n
            BY <1>1, <2>2
        <3>2. stream[i][1] # pl /\ stream[i][1] \in Plans
            BY <1>1, <1>3, <2>2, <3>1, StreamTyped
        <3>3. \A j \in i + 1 .. n : stream[j][1] # stream[i][1]
            BY <1>1, <1>3, <2>2, <3>1
        <3>4. stream[i][2] = api[stream[i][1]]
            BY <2>2, <3>3 DEF WatchInv
        <3>5. QED
            BY <1>1, <2>2, <3>2, <3>4
    <2>3. QED
        BY <1>1, <2>1, <2>2
<1>4. QED
    BY <1>2, <1>3

\* A delivery moves the oldest change into the cache.
LEMMA Delivered ==
    ASSUME TypeOK, Deliver
    PROVE  /\ Len(stream) \in Nat \ {0} /\ Len(stream') = Len(stream) - 1
           /\ stream' \in Seq(Plans \X Object)
           /\ \A i \in 1 .. Len(stream') : stream'[i] = stream[i + 1]
           /\ stream[1][1] \in Plans /\ stream[1][2] \in Object
           /\ cache' \in [Plans -> Object] /\ cache'[stream[1][1]] = stream[1][2]
           /\ \A q \in Plans \ {stream[1][1]} : cache'[q] = cache[q]
           /\ queue' = queue \cup {stream[1][1]}
           /\ UNCHANGED <<api, created, risks, timers, w, edits, restarts, driver, asked>>
<1>1. stream \in Seq(Plans \X Object) /\ stream # <<>> /\ stream' = Tail(stream)
    BY StreamTyped DEF Deliver
<1>2. /\ Head(stream) = stream[1] /\ Len(stream) \in Nat \ {0}
      /\ stream' \in Seq(Plans \X Object) /\ Len(stream') = Len(stream) - 1
      /\ \A i \in 1 .. Len(stream') : stream'[i] = stream[i + 1]
    BY <1>1, HeadTailProperties
<1>3. stream[1][1] \in Plans /\ stream[1][2] \in Object
    BY <1>2, StreamTyped
<1>4. /\ cache' = [cache EXCEPT ![stream[1][1]] = stream[1][2]]
      /\ queue' = queue \cup {stream[1][1]}
      /\ UNCHANGED <<api, created, risks, timers, w, edits, restarts, driver, asked>>
    BY <1>2 DEF Deliver, boundVars, history
<1>5. cache \in [Plans -> Object]
    BY DEF TypeOK
<1>6. QED
    BY <1>2, <1>3, <1>4, <1>5

\* Time ages every version, and leaves each where it is.
LEMMA Ticked ==
    ASSUME TypeOK, Tick
    PROVE  /\ api' \in [Plans -> Object] /\ \A pl \in Plans : api'[pl] = Aged(api[pl])
           /\ cache' \in [Plans -> Object] /\ \A pl \in Plans : cache'[pl] = Aged(cache[pl])
           /\ stream' \in Seq(Plans \X Object) /\ Len(stream') = Len(stream)
           /\ \A i \in 1 .. Len(stream) : /\ stream'[i][1] = stream[i][1]
                                          /\ stream'[i][2] = Aged(stream[i][2])
           /\ UNCHANGED <<created, risks, queue, timers, edits, restarts, driver>>
<1>1. api \in [Plans -> Object] /\ cache \in [Plans -> Object]
    BY DEF TypeOK
<1>2. /\ api' = [pl \in Plans |-> Aged(api[pl])]
      /\ cache' = [pl \in Plans |-> Aged(cache[pl])]
      /\ stream' = [i \in 1 .. Len(stream) |-> <<stream[i][1], Aged(stream[i][2])>>]
      /\ UNCHANGED <<created, risks, queue, timers, edits, restarts, driver>>
    BY DEF Tick, queueVars, boundVars
<1>3. /\ api' \in [Plans -> Object] /\ \A pl \in Plans : api'[pl] = Aged(api[pl])
      /\ cache' \in [Plans -> Object] /\ \A pl \in Plans : cache'[pl] = Aged(cache[pl])
    BY <1>1, <1>2, AgedObject
<1>4. \A i \in 1 .. Len(stream) : <<stream[i][1], Aged(stream[i][2])>> \in Plans \X Object
    BY StreamTyped, AgedObject
<1>5. stream' \in Seq(Plans \X Object) /\ Len(stream') = Len(stream)
    BY <1>2, <1>4, StreamTyped
<1>6. QED
    BY <1>2, <1>3, <1>5

-----------------------------------------------------------------------------
\* PlanInv is inductive: one lemma for each action, or for the actions that
\* change the same things.

\* The operator starts in a state of the invariant.
LEMMA PlanInvInit == Init => PlanInv
<1> SUFFICES ASSUME Init PROVE PlanInv
    OBVIOUS
<1>1. /\ stream = <<>> /\ cache = api /\ created = 0 /\ risks \in Risks
      /\ queue = Existing(api) /\ timers = {} /\ w = Idle /\ edits = 0 /\ restarts = 0
      /\ driver = [plan |-> NoPlan, created |-> 0]
      /\ asked = [pl \in Plans |-> NotAsked]
    BY DEF Init
<1>2. api \in [Plans -> Object]
    <2>1. Absent \in Object /\ NewPlan(0) \in Object
        BY AbsentObject, NewPlanObject, Constants
    <2>2. api \in [Plans -> {Absent, NewPlan(0)}]
        BY DEF Init
    <2>3. QED
        BY <2>1, <2>2
<1>3. stream \in Seq(Plans \X Object) /\ Len(stream) = 0
    BY <1>1
<1>4. w.pc = "idle" /\ w \in Worker
    BY <1>1, IdleWorker
<1>5. asked \in [Plans -> Asked] /\ \A pl \in Plans : asked[pl].outcome = "none"
    BY <1>1, NotAskedAsked
<1>6. TypeOK
    <2>1. queue \subseteq Plans
        BY <1>1 DEF Existing
    <2>2. driver \in [plan : Plans \cup {NoPlan}, created : Rank]
        BY <1>1, Constants
    <2>3. created \in Rank /\ edits \in 0 .. MaxEdits /\ restarts \in 0 .. MaxRestarts
        BY <1>1, Constants, BoundsAssumption
    <2>4. Len(stream) <= MaxLag + 1
        BY <1>3, BoundsAssumption
    <2>5. QED
        BY <1>1, <1>2, <1>3, <1>4, <1>5, <2>1, <2>2, <2>3, <2>4 DEF TypeOK
<1>7. WatchInv
    BY <1>1, <1>3, <1>4 DEF WatchInv
<1>8. CopyInv /\ InsightInv
    BY <1>4, <1>5 DEF CopyInv, InsightInv
<1>9. QED
    BY <1>6, <1>7, <1>8 DEF PlanInv

\* What a user writes: a new plan, the old one with another spec, or nothing.
LEMMA UserWrites ==
    ASSUME PlanInv, UserStep
    PROVE  \E pl \in Plans, o \in Object :
            /\ UserWrite(pl, o)
            /\ \/ /\ ~api[pl].exists /\ o = NewPlan(created')
                  /\ created' \in Rank /\ created <= created'
                  /\ asked' = [asked EXCEPT ![pl] = NotAsked]
               \/ /\ o.exists => /\ api[pl].exists /\ o.created = api[pl].created
                                 /\ o.insightAge = api[pl].insightAge
                  /\ created' = created /\ asked' = asked
<1>1. api \in [Plans -> Object] /\ created \in Nat
    BY BoundsAssumption DEF PlanInv, TypeOK, Rank
<1>2. ASSUME NEW pl \in Plans, NEW c \in Rank, CreatePlan(pl, c)
      PROVE  /\ UserWrite(pl, NewPlan(c)) /\ NewPlan(c) \in Object /\ ~api[pl].exists
             /\ created' = c /\ created <= c /\ asked' = [asked EXCEPT ![pl] = NotAsked]
    <2>1. /\ UserWrite(pl, NewPlan(c)) /\ ~api[pl].exists /\ c \in {created, created + 1}
          /\ created' = c /\ asked' = [asked EXCEPT ![pl] = NotAsked]
        BY <1>2, Zenon DEF CreatePlan
    <2>2. created <= c
        BY <1>1, <2>1
    <2>3. QED
        BY <2>1, <2>2, NewPlanObject, Zenon
<1>3. ASSUME NEW pl \in Plans, EditPlan(pl)
      PROVE  \E o \in Object :
                /\ UserWrite(pl, o) /\ api[pl].exists /\ o.created = api[pl].created
                /\ o.insightAge = api[pl].insightAge /\ created' = created /\ asked' = asked
    <2> DEFINE o == [api[pl] EXCEPT !.observed = FALSE]
    <2>1. o \in Object /\ o.created = api[pl].created /\ o.insightAge = api[pl].insightAge
        BY <1>1 DEF Object
    <2>2. UserWrite(pl, o) /\ api[pl].exists /\ created' = created /\ asked' = asked
        BY <1>3 DEF EditPlan
    <2> HIDE DEF o
    <2>3. QED
        BY <2>1, <2>2
<1>4. ASSUME NEW pl \in Plans, DeletePlan(pl)
      PROVE  /\ UserWrite(pl, Absent) /\ Absent \in Object /\ ~Absent.exists
             /\ created' = created /\ asked' = asked
    BY <1>4, AbsentObject DEF DeletePlan
<1>5. QED
    BY <1>2, <1>3, <1>4 DEF UserStep

\* A user's write outdates the worker's copy of that plan.
LEMMA UserKeeps == ASSUME PlanInv, UserStep PROVE PlanInv'
<1> USE DEF PlanInv
<1>1. PICK pl \in Plans, o \in Object :
            /\ UserWrite(pl, o)
            /\ \/ /\ ~api[pl].exists /\ o = NewPlan(created')
                  /\ created' \in Rank /\ created <= created'
                  /\ asked' = [asked EXCEPT ![pl] = NotAsked]
               \/ /\ o.exists => /\ api[pl].exists /\ o.created = api[pl].created
                                 /\ o.insightAge = api[pl].insightAge
                  /\ created' = created /\ asked' = asked
    BY UserWrites
<1>2. /\ Write(pl, o) /\ Len(stream) < MaxLag /\ edits < MaxEdits /\ edits' = edits + 1
      /\ w' = IF w.plan = pl THEN [w EXCEPT !.current = FALSE] ELSE w
      /\ UNCHANGED <<cache, risks, queue, timers, restarts, driver>>
    BY <1>1 DEF UserWrite, queueVars
<1>3. /\ api' \in [Plans -> Object] /\ api'[pl] = o
      /\ \A q \in Plans \ {pl} : api'[q] = api[q]
      /\ stream' \in Seq(Plans \X Object) /\ Len(stream') = Len(stream) + 1
    BY <1>2, Written
<1>4. Len(stream) \in Nat /\ Len(stream') <= MaxLag
    BY <1>2, <1>3, StreamTyped, BoundsAssumption
<1>5. w \in Worker
    BY DEF TypeOK
<1>6. /\ w' \in Worker /\ w'.pc = w.pc /\ w'.plan = w.plan /\ w'.obj = w.obj
      /\ w'.current => w.current /\ w.plan # pl
    BY <1>2, <1>5 DEF Worker
<1>7. asked \in [Plans -> Asked]
    BY DEF TypeOK
<1>8. /\ asked' \in [Plans -> Asked] /\ \A q \in Plans \ {pl} : asked'[q] = asked[q]
      /\ asked'[pl] = asked[pl] \/ (asked'[pl].outcome = "none" /\ ~api[pl].exists)
    BY <1>1, <1>7, NotAskedAsked
<1>9. TypeOK'
    <2>1. created' \in Rank
        BY <1>1 DEF TypeOK
    <2>2. edits' \in 0 .. MaxEdits
        <3>1. edits \in 0 .. MaxEdits
            BY DEF TypeOK
        <3>2. QED
            BY <1>2, <3>1, BoundsAssumption
    <2>3. Len(stream') <= MaxLag + 1
        BY <1>4, BoundsAssumption, <1>3
    <2>4. QED
        BY <1>2, <1>3, <1>6, <1>8, <2>1, <2>2, <2>3 DEF TypeOK
<1>10. WatchInv'
    BY <1>2, <1>4, WrittenWatched DEF WatchInv
<1>11. CopyInv'
    <2> SUFFICES ASSUME w'.pc # "idle", w'.current
                 PROVE  /\ api'[w'.plan].exists
                        /\ api'[w'.plan].created = w'.obj.created
                        /\ Reporting' /\ asked'[w'.plan].outcome # "pending"
                            => w'.obj.insightAge = api'[w'.plan].insightAge
        BY DEF CopyInv
    <2>1. w.pc # "idle" /\ w.current /\ w.plan \in Plans \ {pl}
        BY <1>6 DEF TypeOK
    <2>2. Reporting' => Reporting
        BY <1>6 DEF Reporting
    <2>3. QED
        BY <1>3, <1>6, <1>8, <2>1, <2>2 DEF CopyInv
<1>12. InsightInv'
    <2> SUFFICES ASSUME NEW q \in Plans
                 PROVE  /\ asked'[q].outcome = "pending" =>
                            /\ w'.plan = q /\ w'.pc \in {"narrate", "publish", "update"}
                            /\ Reporting' /\ w'.obj.insightAge = asked'[q].age
                        /\ asked'[q].outcome = "recorded" /\ api'[q].exists
                            => api'[q].insightAge = asked'[q].age
        BY DEF InsightInv
    <2>1. Reporting => Reporting'
        BY <1>6 DEF Reporting
    <2>2. asked'[q] = asked[q] \/ asked'[q].outcome = "none"
        BY <1>8
    <2>3. asked'[q].outcome = "recorded" /\ api'[q].exists
            => api[q].exists /\ api'[q].insightAge = api[q].insightAge
        <3>1. CASE q = pl
            BY <1>1, <1>3, <1>7, <3>1, NotAskedAsked
        <3>2. CASE q # pl
            BY <1>3, <3>2
        <3>3. QED
            BY <3>1, <3>2
    <2>4. QED
        BY <1>6, <2>1, <2>2, <2>3 DEF InsightInv
<1>13. QED
    BY <1>9, <1>10, <1>11, <1>12

\* A delivery changes the cache alone.
LEMMA DeliverKeeps == ASSUME PlanInv, Deliver PROVE PlanInv'
<1> USE DEF PlanInv
<1> DEFINE n == Len(stream)
<1>1. TypeOK'
    <2>1. Len(stream') <= MaxLag + 1 /\ queue' \subseteq Plans
        BY Delivered, StreamTyped, BoundsAssumption DEF TypeOK
    <2>2. QED
        BY <2>1, Delivered DEF TypeOK
<1>2. WatchInv'
    <2>1. /\ n \in Nat \ {0} /\ Len(stream') = n - 1 /\ api' = api
          /\ \A i \in 1 .. n - 1 : stream'[i] = stream[i + 1]
          /\ cache'[stream[1][1]] = stream[1][2] /\ stream[1][1] \in Plans
          /\ \A q \in Plans \ {stream[1][1]} : cache'[q] = cache[q]
        BY Delivered
    <2>2. ASSUME NEW q \in Plans, \A i \in 1 .. n - 1 : stream[i + 1][1] # q
          PROVE  cache'[q] = api[q]
        <3>1. \A j \in 2 .. n : j - 1 \in 1 .. n - 1 /\ (j - 1) + 1 = j
            BY <2>1
        <3>2. \A j \in 2 .. n : stream[j][1] # q
            BY <2>2, <3>1
        <3>3. CASE stream[1][1] = q
            <4>1. 1 \in 1 .. n /\ \A j \in 1 + 1 .. n : stream[j][1] # stream[1][1]
                BY <2>1, <3>2, <3>3
            <4>2. QED
                BY <2>1, <3>3, <4>1 DEF WatchInv
        <3>4. CASE stream[1][1] # q
            <4>1. \A j \in 1 .. n : j = 1 \/ j \in 2 .. n
                BY <2>1
            <4>2. \A j \in 1 .. n : stream[j][1] # q
                BY <3>2, <3>4, <4>1
            <4>3. QED
                BY <2>1, <3>4, <4>2 DEF WatchInv
        <3>5. QED
            BY <3>3, <3>4
    <2>3. ASSUME NEW i \in 1 .. n - 1,
                 \A j \in i + 1 .. n - 1 : stream[j + 1][1] # stream[i + 1][1]
          PROVE  stream[i + 1][2] = api[stream[i + 1][1]]
        <3>1. i + 1 \in 1 .. n /\ \A j \in (i + 1) + 1 .. n : j - 1 \in i + 1 .. n - 1
                                                             /\ (j - 1) + 1 = j
            BY <2>1
        <3>2. \A j \in (i + 1) + 1 .. n : stream[j][1] # stream[i + 1][1]
            BY <2>3, <3>1
        <3>3. QED
            BY <3>1, <3>2 DEF WatchInv
    <2>4. w'.pc # "idle" => Len(stream') <= MaxLag
        BY <2>1, Delivered, BoundsAssumption DEF WatchInv
    <2>5. \A i \in 1 .. n - 1 : \A j \in i + 1 .. n - 1 : j \in 1 .. n - 1
        BY <2>1
    <2>6. ASSUME NEW q \in Plans, \A i \in 1 .. Len(stream') : stream'[i][1] # q
          PROVE  cache'[q] = api'[q]
        BY <2>1, <2>2, <2>6
    <2>7. ASSUME NEW i \in 1 .. Len(stream'),
                 \A j \in i + 1 .. Len(stream') : stream'[j][1] # stream'[i][1]
          PROVE  stream'[i][2] = api'[stream'[i][1]]
        <3>1. i \in 1 .. n - 1 /\ stream'[i] = stream[i + 1]
            BY <2>1
        <3>2. \A j \in i + 1 .. n - 1 : stream[j + 1][1] # stream[i + 1][1]
            BY <2>1, <2>5, <2>7, <3>1
        <3>3. QED
            BY <2>1, <2>3, <3>1, <3>2
    <2>8. QED
        BY <2>4, <2>6, <2>7 DEF WatchInv
<1>3. CopyInv' /\ InsightInv'
    BY Delivered DEF CopyInv, InsightInv, Reporting
<1>4. QED
    BY <1>1, <1>2, <1>3

\* Steps that write nothing and deliver nothing leave the watch alone.
LEMMA WatchKept ==
    ASSUME WatchInv, UNCHANGED <<api, stream, cache>>,
           w'.pc # "idle" => w.pc # "idle" \/ Len(stream) <= MaxLag
    PROVE  WatchInv'
BY DEF WatchInv

\* Time ages the insight in the status, in the copy and in the world alike.
LEMMA TickKeeps == ASSUME PlanInv, Tick PROVE PlanInv'
<1> USE DEF PlanInv
<1>1. w \in Worker /\ asked \in [Plans -> Asked] /\ api \in [Plans -> Object]
      /\ cache \in [Plans -> Object] /\ w.obj \in Object
    BY DEF TypeOK, Worker
<1>2. /\ w' = [w EXCEPT !.obj = Aged(w.obj),
                        !.age = IF w.pc = "idle" THEN w.age ELSE Older(w.age)]
      /\ asked' = [pl \in Plans |-> [asked[pl] EXCEPT !.age = Older(asked[pl].age)]]
    BY <1>1 DEF Tick, Worker, Asked
<1>3. \A a \in Age : Older(a) \in Age
    BY BoundsAssumption DEF Age, Older, MaxAge
<1>4. /\ w' \in Worker /\ w'.pc = w.pc /\ w'.plan = w.plan /\ w'.current = w.current
      /\ w'.obj = Aged(w.obj)
    BY <1>1, <1>2, <1>3, AgedObject DEF Worker
<1>5. /\ w'.obj.exists = w.obj.exists /\ w'.obj.created = w.obj.created
      /\ w'.obj.ready = w.obj.ready /\ w'.obj.insightAge = Older(w.obj.insightAge)
    BY <1>1, <1>4, AgedObject
<1>6. /\ asked' \in [Plans -> Asked]
      /\ \A pl \in Plans : /\ asked'[pl].outcome = asked[pl].outcome
                           /\ asked'[pl].age = Older(asked[pl].age)
    BY <1>1, <1>2, <1>3 DEF Asked
<1>7. \A pl \in Plans : /\ api'[pl].exists = api[pl].exists
                        /\ api'[pl].created = api[pl].created
                        /\ api'[pl].insightAge = Older(api[pl].insightAge)
    BY <1>1, Ticked, AgedObject
<1>8. TypeOK'
    <2>1. Len(stream') <= MaxLag + 1
        BY Ticked, StreamTyped
    <2>2. QED
        BY <1>4, <1>5, <1>6, <2>1, Ticked DEF TypeOK
<1>9. WatchInv'
    <2>1. /\ \A pl \in Plans : api'[pl] = Aged(api[pl]) /\ cache'[pl] = Aged(cache[pl])
          /\ Len(stream') = Len(stream) /\ Len(stream) \in Nat
          /\ \A i \in 1 .. Len(stream) : /\ stream'[i][1] = stream[i][1]
                                         /\ stream'[i][2] = Aged(stream[i][2])
                                         /\ stream[i][1] \in Plans
        BY Ticked, StreamTyped
    <2>2. ASSUME NEW q \in Plans, \A i \in 1 .. Len(stream') : stream'[i][1] # q
          PROVE  cache'[q] = api'[q]
        BY <2>1, <2>2 DEF WatchInv
    <2>3. ASSUME NEW i \in 1 .. Len(stream'),
                 \A j \in i + 1 .. Len(stream') : stream'[j][1] # stream'[i][1]
          PROVE  stream'[i][2] = api'[stream'[i][1]]
        <3>1. \A j \in i + 1 .. Len(stream) : j \in 1 .. Len(stream)
            BY <2>1
        <3>2. \A j \in i + 1 .. Len(stream) : stream[j][1] # stream[i][1]
            BY <2>1, <2>3, <3>1
        <3>3. stream[i][2] = api[stream[i][1]]
            BY <2>1, <3>2 DEF WatchInv
        <3>4. QED
            BY <2>1, <3>3
    <2>4. w'.pc # "idle" => Len(stream') <= MaxLag
        BY <1>4, <2>1 DEF WatchInv
    <2>5. QED
        BY <2>2, <2>3, <2>4 DEF WatchInv
<1>10. Reporting' <=> Reporting
    BY <1>4, <1>5 DEF Reporting
<1>11. CopyInv'
    BY <1>4, <1>5, <1>6, <1>7, <1>10 DEF CopyInv, TypeOK
<1>12. InsightInv'
    BY <1>4, <1>5, <1>6, <1>7, <1>10 DEF InsightInv
<1>13. QED
    BY <1>8, <1>9, <1>11, <1>12

\* A round that is given up leaves nothing pending.
LEMMA GivenUp ==
    ASSUME PlanInv, w' = Idle, UNCHANGED api,
           asked' \in [Plans -> Asked],
           \A pl \in Plans : /\ asked'[pl].outcome # "pending"
                             /\ asked'[pl].age = asked[pl].age
                             /\ asked'[pl].outcome = "recorded"
                                    => asked[pl].outcome = "recorded"
    PROVE  CopyInv' /\ InsightInv'
<1>1. w'.pc = "idle"
    BY IdleWorker
<1>2. QED
    BY <1>1 DEF PlanInv, CopyInv, InsightInv

\* A restart forgets the round, and reads everything again.
LEMMA RestartKeeps == ASSUME PlanInv, Restart PROVE PlanInv'
<1> USE DEF PlanInv
<1>1. /\ restarts < MaxRestarts /\ restarts' = restarts + 1 /\ stream' = <<>>
      /\ cache' = api /\ queue' = Existing(api) /\ timers' = {} /\ w' = Idle
      /\ asked' = [pl \in Plans |-> Unrecorded(asked[pl])]
      /\ UNCHANGED <<api, created, risks, edits, driver>>
    BY DEF Restart
<1>2. /\ asked' \in [Plans -> Asked]
      /\ \A pl \in Plans : /\ asked'[pl].outcome # "pending"
                           /\ asked'[pl].age = asked[pl].age
                           /\ asked'[pl].outcome = "recorded"
                                => asked[pl].outcome = "recorded"
    <2>1. asked \in [Plans -> Asked]
        BY DEF TypeOK
    <2>2. QED
        BY <1>1, <2>1, UnrecordedAsked
<1>3. TypeOK'
    <2>1. stream' \in Seq(Plans \X Object) /\ Len(stream') <= MaxLag + 1
        BY <1>1, BoundsAssumption
    <2>2. restarts' \in 0 .. MaxRestarts
        <3>1. restarts \in 0 .. MaxRestarts
            BY DEF TypeOK
        <3>2. QED
            BY <1>1, <3>1, BoundsAssumption
    <2>3. queue' \subseteq Plans
        BY <1>1 DEF Existing
    <2>4. QED
        BY <1>1, <1>2, <2>1, <2>2, <2>3, IdleWorker DEF TypeOK
<1>4. WatchInv'
    <2>1. Len(stream') = 0
        BY <1>1
    <2>2. QED
        BY <1>1, <2>1, IdleWorker DEF WatchInv
<1>5. CopyInv' /\ InsightInv'
    BY <1>1, <1>2, GivenUp
<1>6. QED
    BY <1>3, <1>4, <1>5

\* The cluster's risks, the timers and the rounds that end at their first read
\* concern nothing the invariant relates.
LEMMA SurroundingsKeep ==
    ASSUME PlanInv,
           \/ \E r \in Risks : RisksChange(r)
           \/ \E pl \in Plans : TimerFires(pl) \/ GetFails(pl) \/ GetNotFound(pl)
    PROVE  PlanInv'
<1> USE DEF PlanInv
<1>1. /\ UNCHANGED <<api, stream, created, cache, w, edits, restarts, driver, asked>>
      /\ risks' \in Risks /\ queue' \subseteq Plans /\ timers' \subseteq Plans
    BY DEF RisksChange, TimerFires, GetFails, GetNotFound, Take, serverVars, queueVars,
           boundVars, history, TypeOK
<1>2. TypeOK'
    BY <1>1 DEF TypeOK
<1>3. WatchInv'
    BY <1>1, WatchKept
<1>4. QED
    BY <1>1, <1>2, <1>3 DEF CopyInv, InsightInv, Reporting

\* A round starts with the copy in the cache, which is current when no change
\* of the plan is on the way.
LEMMA GetFoundKeeps ==
    ASSUME PlanInv, NEW pl \in Plans, GetFound(pl)
    PROVE  PlanInv'
<1> USE DEF PlanInv
<1> DEFINE seen == \A i \in 1 .. Len(stream) : stream[i][1] # pl
<1>1. /\ w.pc = "idle" /\ Len(stream) <= MaxLag /\ queue' = queue \ {pl}
      /\ cache[pl].exists
      /\ UNCHANGED <<api, stream, created, cache, risks, edits, restarts, driver, asked, timers>>
    BY DEF GetFound, Take, serverVars, boundVars
<1>2. w' = [Idle EXCEPT !.pc = "list", !.plan = pl, !.obj = cache[pl], !.current = seen]
    BY DEF GetFound
<1>3. seen => cache[pl] = api[pl]
    BY DEF WatchInv
<1>4. cache[pl] \in Object /\ seen \in BOOLEAN
    BY DEF TypeOK
<1> HIDE DEF seen
<1>5. /\ w' \in Worker /\ w'.pc = "list" /\ w'.plan = pl /\ w'.obj = cache[pl]
      /\ w'.current <=> seen
    BY <1>2, <1>4, IdleWorker DEF Worker
<1>6. TypeOK'
    BY <1>1, <1>5 DEF TypeOK
<1>7. WatchInv'
    BY <1>1, WatchKept
<1>8. CopyInv'
    BY <1>1, <1>3, <1>5 DEF CopyInv
<1>9. \A q \in Plans : asked[q].outcome # "pending"
    BY <1>1 DEF InsightInv
<1>10. InsightInv'
    BY <1>1, <1>9 DEF InsightInv
<1>11. QED
    BY <1>6, <1>7, <1>8, <1>10

\* A step inside a round that changes the copy's condition, risks or narrative,
\* and not the insight.
LEMMA LocalKeeps ==
    ASSUME PlanInv, w.pc # "idle",
           UNCHANGED <<api, stream, created, cache, risks, queue, timers, edits, restarts,
                       asked>>,
           driver' \in [plan : Plans \cup {NoPlan}, created : Rank],
           w' \in Worker, w'.pc # "idle", w'.plan = w.plan, w'.current = w.current,
           w'.obj.exists, w'.obj.created = w.obj.created,
           Reporting' => Reporting /\ w'.obj.insightAge = w.obj.insightAge,
           asked[w.plan].outcome = "pending"
                => Reporting' /\ w'.pc \in {"narrate", "publish", "update"}
    PROVE  PlanInv'
<1> USE DEF PlanInv
<1>1. TypeOK'
    BY DEF TypeOK
<1>2. WatchInv'
    BY WatchKept
<1>3. w.plan \in Plans
    BY DEF TypeOK
<1>4. CopyInv'
    BY DEF CopyInv
<1>5. InsightInv'
    BY DEF InsightInv
<1>6. QED
    BY <1>1, <1>2, <1>4, <1>5

\* The steps of a round up to the update, but for a new insight.
LEMMA RoundKeeps ==
    ASSUME PlanInv,
           MarkInactive \/ Drive \/ InsightKept \/ NarrativeKept \/ NarrativeRefreshed
                \/ Publish
    PROVE  /\ PlanInv'
           /\ w.pc # "idle" /\ w'.pc # "idle" /\ w'.plan = w.plan
           /\ w'.obj.created = w.obj.created
           /\ UNCHANGED <<api, stream, created, cache>>
           /\ UNCHANGED driver \/ Drive
<1> USE DEF PlanInv
<1>1. w \in Worker /\ risks \in Risks /\ (w.pc # "idle" => w.obj.exists)
    BY DEF TypeOK
<1>2. w.obj \in Object /\ w.obj.created \in Rank /\ w.age \in Age /\ w.risks \in Risks
    BY <1>1 DEF Worker, Object
<1> DEFINE Same == UNCHANGED <<api, stream, created, cache, risks, queue, timers, edits,
                               restarts, asked>>
           Into(pc) == /\ w' \in Worker /\ w'.pc = pc /\ w'.plan = w.plan
                       /\ w'.current = w.current /\ w'.obj.exists
                       /\ w'.obj.created = w.obj.created
                       /\ w'.obj.insightAge = w.obj.insightAge
<1>3. CASE MarkInactive
    <2> DEFINE o == [NewPlan(w.obj.created) EXCEPT !.ready = "NotActivePlan", !.observed = TRUE]
    <2>1. o \in Object /\ o.exists /\ o.created = w.obj.created /\ o.ready = "NotActivePlan"
        BY <1>2, NewPlanObject DEF Object
    <2>2. w' = [w EXCEPT !.pc = "update", !.obj = o] /\ w.pc = "list" /\ Same
          /\ UNCHANGED driver
        BY <1>3 DEF MarkInactive, serverVars, queueVars, boundVars, history
    <2> HIDE DEF o
    <2>3. /\ w' \in Worker /\ w'.pc = "update" /\ w'.plan = w.plan
          /\ w'.current = w.current /\ w'.obj = o
        BY <1>1, <2>1, <2>2 DEF Worker
    <2>4. ~Reporting'
        BY <2>1, <2>3 DEF Reporting
    <2>5. asked[w.plan].outcome # "pending"
        BY <2>2 DEF InsightInv, TypeOK
    <2>6. driver' \in [plan : Plans \cup {NoPlan}, created : Rank]
        BY <2>2 DEF TypeOK
    <2>7. PlanInv'
        BY <2>1, <2>2, <2>3, <2>4, <2>5, <2>6, LocalKeeps
    <2>8. QED
        BY <2>1, <2>2, <2>3, <2>7
<1>4. ASSUME Same, NEW pc \in {"insight", "narrate", "publish"}, Into(pc), w.pc # "idle",
             w.pc # "update", driver' \in [plan : Plans \cup {NoPlan}, created : Rank],
             asked[w.plan].outcome = "pending" => pc # "insight"
      PROVE  PlanInv'
    <2>1. Reporting' /\ Reporting
        BY <1>4 DEF Reporting
    <2>2. QED
        BY <1>4, <2>1, LocalKeeps
<1>5. CASE Drive
    <2> DEFINE stale == (w.obj.toldAge >= llmInterval)
    <2>1. /\ w' = [w EXCEPT !.pc = "insight", !.age = 0, !.stale = stale]
          /\ driver' = [plan |-> w.plan, created |-> w.obj.created]
          /\ w.pc = "list" /\ Same
        BY <1>5 DEF Drive, serverVars, queueVars, boundVars
    <2>2. Into("insight")
        <3>1. stale \in BOOLEAN
            OBVIOUS
        <3> HIDE DEF stale
        <3>2. QED
            BY <1>1, <2>1, <3>1, Constants DEF Worker
    <2>3. driver' \in [plan : Plans \cup {NoPlan}, created : Rank]
        BY <1>1, <1>2, <2>1 DEF Worker
    <2>4. asked[w.plan].outcome # "pending"
        BY <2>1 DEF InsightInv, TypeOK
    <2>5. PlanInv'
        BY <1>4, <2>1, <2>2, <2>3, <2>4
    <2>6. QED
        BY <1>5, <2>1, <2>2, <2>5
<1>6. ASSUME Same, UNCHANGED driver, NEW pc \in {"narrate", "publish"}, Into(pc),
             w.pc # "idle", w.pc # "update"
      PROVE  /\ PlanInv'
             /\ w'.pc # "idle" /\ w'.plan = w.plan /\ w'.obj.created = w.obj.created
             /\ UNCHANGED <<api, stream, created, cache>>
    <2>1. driver' \in [plan : Plans \cup {NoPlan}, created : Rank]
        BY <1>6 DEF TypeOK
    <2>2. PlanInv'
        BY <1>4, <1>6, <2>1
    <2>3. QED
        BY <1>6, <2>2
<1>7. CASE InsightKept
    <2>1. /\ w' = [w EXCEPT !.pc = "narrate", !.risks = risks] /\ w.pc = "insight"
          /\ Same /\ UNCHANGED driver
        BY <1>7 DEF InsightKept, Local, serverVars, queueVars, boundVars
    <2>2. Into("narrate")
        BY <1>1, <2>1 DEF Worker
    <2>3. QED
        BY <1>6, <2>1, <2>2
<1>8. CASE NarrativeKept
    <2>1. /\ w' = [w EXCEPT !.pc = "publish"] /\ w.pc = "narrate" /\ Same /\ UNCHANGED driver
        BY <1>8 DEF NarrativeKept, Local, serverVars, queueVars, boundVars
    <2>2. Into("publish")
        BY <1>1, <2>1 DEF Worker
    <2>3. QED
        BY <1>6, <2>1, <2>2
<1>9. CASE NarrativeRefreshed
    <2> DEFINE o == [w.obj EXCEPT !.told = w.risks, !.toldAge = w.age]
    <2>1. /\ o \in Object /\ o.exists = w.obj.exists /\ o.created = w.obj.created
          /\ o.insightAge = w.obj.insightAge
        BY <1>2 DEF Object
    <2>2. /\ w' = [w EXCEPT !.pc = "publish", !.obj = o] /\ w.pc = "narrate"
          /\ Same /\ UNCHANGED driver
        BY <1>1 , <1>9 DEF NarrativeRefreshed, Local, serverVars, queueVars, boundVars, Worker
    <2> HIDE DEF o
    <2>3. Into("publish")
        BY <1>1, <2>1, <2>2 DEF Worker
    <2>4. QED
        BY <1>6, <2>2, <2>3
<1>10. CASE Publish
    <2> DEFINE o == [w.obj EXCEPT !.ready = "Active", !.observed = TRUE,
                                  !.changes = (w.risks # w.obj.risks), !.risks = w.risks]
    <2>1. /\ o \in Object /\ o.exists = w.obj.exists /\ o.created = w.obj.created
          /\ o.insightAge = w.obj.insightAge /\ o.ready = "Active"
        BY <1>2 DEF Object
    <2>2. /\ w' = [w EXCEPT !.pc = "update", !.obj = o] /\ w.pc = "publish"
          /\ Same /\ UNCHANGED driver
        BY <1>1, <1>10 DEF Publish, Local, serverVars, queueVars, boundVars, Worker
    <2> HIDE DEF o
    <2>3. Into("update") /\ w'.obj = o
        BY <1>1, <2>1, <2>2 DEF Worker
    <2>4. Reporting' /\ Reporting
        BY <2>1, <2>2, <2>3 DEF Reporting
    <2>5. driver' \in [plan : Plans \cup {NoPlan}, created : Rank]
        BY <2>2 DEF TypeOK
    <2>6. PlanInv'
        BY <2>2, <2>3, <2>4, <2>5, LocalKeeps
    <2>7. QED
        BY <2>2, <2>3, <2>6
<1>11. QED
    BY <1>3, <1>5, <1>7, <1>8, <1>9, <1>10

\* A new insight is pending in the worker's hands.
LEMMA InsightRefreshedKeeps ==
    ASSUME PlanInv, InsightRefreshed
    PROVE  /\ PlanInv'
           /\ w.pc # "idle" /\ w'.pc # "idle" /\ w'.plan = w.plan
           /\ w'.obj.created = w.obj.created
           /\ UNCHANGED <<api, stream, created, cache, driver>>
<1> USE DEF PlanInv
<1>1. w \in Worker /\ w.plan \in Plans /\ w.obj \in Object /\ w.obj.exists
    BY DEF InsightRefreshed, Local, TypeOK, Worker
<1> DEFINE o == [w.obj EXCEPT !.insightAge = 0]
<1>2. /\ o \in Object /\ o.exists = w.obj.exists /\ o.created = w.obj.created
      /\ o.insightAge = 0
    BY <1>1, Constants DEF Object
<1>3. /\ w' = [w EXCEPT !.pc = "narrate", !.risks = risks, !.obj = o]
      /\ asked' = [asked EXCEPT ![w.plan] = [age |-> 0, outcome |-> "pending"]]
      /\ w.pc = "insight"
      /\ UNCHANGED <<api, stream, created, cache, risks, queue, timers, edits, restarts, driver>>
    BY <1>1 DEF InsightRefreshed, Local, serverVars, queueVars, boundVars, Worker
<1> HIDE DEF o
<1>4. /\ w' \in Worker /\ w'.pc = "narrate" /\ w'.plan = w.plan
      /\ w'.current = w.current /\ w'.obj = o
    <2>1. risks \in Risks
        BY DEF TypeOK
    <2>2. QED
        BY <1>1, <1>2, <1>3, <2>1 DEF Worker
<1>5. /\ asked' \in [Plans -> Asked] /\ asked'[w.plan] = [age |-> 0, outcome |-> "pending"]
      /\ \A q \in Plans \ {w.plan} : asked'[q] = asked[q]
    <2>1. asked \in [Plans -> Asked] /\ [age |-> 0, outcome |-> "pending"] \in Asked
        BY Constants DEF TypeOK, Asked
    <2>2. QED
        BY <1>1, <1>3, <2>1
<1>6. TypeOK'
    BY <1>1, <1>2, <1>3, <1>4, <1>5 DEF TypeOK
<1>7. WatchInv'
    BY <1>3, WatchKept
<1>8. Reporting' /\ Reporting
    BY <1>3, <1>4 DEF Reporting
<1>9. CopyInv'
    BY <1>2, <1>3, <1>4, <1>5 DEF CopyInv
<1>10. \A q \in Plans : asked[q].outcome # "pending"
    BY <1>3 DEF InsightInv
<1>11. InsightInv'
    <2>1. \A q \in Plans \ {w.plan} : asked'[q].outcome # "pending"
        BY <1>5, <1>10
    <2>2. asked'[w.plan].outcome = "pending" /\ asked'[w.plan].age = 0
        BY <1>5
    <2>3. QED
        BY <1>2, <1>3, <1>4, <1>5, <1>8, <2>1, <2>2 DEF InsightInv
<1>12. QED
    BY <1>2, <1>3, <1>4, <1>6, <1>7, <1>9, <1>11

\* A round that fails to list or to update is given up.
LEMMA FailedKeeps ==
    ASSUME PlanInv, ListFails \/ UpdateFails
    PROVE  /\ PlanInv'
           /\ w' = Idle /\ UNCHANGED <<api, stream, created, cache, driver>>
<1> USE DEF PlanInv
<1>1. w.pc # "idle" /\ w.plan \in Plans /\ asked \in [Plans -> Asked]
    BY DEF ListFails, UpdateFails, TypeOK
<1>2. /\ w' = Idle /\ timers' = timers \cup {w.plan}
      /\ UNCHANGED <<api, stream, created, cache, risks, queue, edits, restarts, driver>>
    BY DEF ListFails, UpdateFails, serverVars, boundVars, history
<1>3. /\ asked' \in [Plans -> Asked]
      /\ \A pl \in Plans : /\ asked'[pl].outcome # "pending"
                           /\ asked'[pl].age = asked[pl].age
                           /\ asked'[pl].outcome = "recorded"
                                => asked[pl].outcome = "recorded"
    <2>1. CASE ListFails
        <3>1. asked' = asked /\ w.pc = "list"
            BY <2>1 DEF ListFails, history
        <3>2. QED
            BY <1>1, <3>1 DEF InsightInv
    <2>2. CASE UpdateFails
        <3>1. asked' = [asked EXCEPT ![w.plan] = Unrecorded(asked[w.plan])]
            BY <1>1, <2>2 DEF UpdateFails
        <3>2. \A pl \in Plans \ {w.plan} : asked[pl].outcome # "pending"
            BY DEF InsightInv
        <3>3. QED
            BY <1>1, <3>1, <3>2, UnrecordedAsked
    <2>3. QED
        BY <2>1, <2>2
<1>4. TypeOK'
    BY <1>1, <1>2, <1>3, IdleWorker DEF TypeOK
<1>5. WatchInv'
    BY <1>2, IdleWorker, WatchKept
<1>6. CopyInv' /\ InsightInv'
    BY <1>2, <1>3, GivenUp
<1>7. QED
    BY <1>2, <1>4, <1>5, <1>6

\* An update that goes through writes the copy's timestamp back, and puts the
\* insight in its hands on record.
LEMMA UpdateStatusKeeps ==
    ASSUME PlanInv, UpdateStatus
    PROVE  /\ PlanInv'
           /\ w' = Idle /\ UNCHANGED <<created, cache, driver>>
           /\ \/ UNCHANGED <<api, stream>>
              \/ \E o \in Object : /\ Write(w.plan, o) /\ w.plan \in Plans
                                   /\ api[w.plan].exists
                                   /\ o.created = api[w.plan].created
<1> USE DEF PlanInv
<1>1. /\ w \in Worker /\ w.pc = "update" /\ w.current /\ w.plan \in Plans
      /\ w.obj \in Object /\ w.obj.exists /\ asked \in [Plans -> Asked]
    BY DEF UpdateStatus, TypeOK, Worker
<1> DEFINE o == [w.obj EXCEPT !.now = TRUE]
<1>2. /\ o \in Object /\ o.exists /\ o.created = w.obj.created
      /\ o.insightAge = w.obj.insightAge
    BY <1>1 DEF Object
<1>3. Write(w.plan, o) \/ (o = api[w.plan] /\ UNCHANGED <<api, stream>>)
    BY DEF UpdateStatus
<1>4. asked' = [asked EXCEPT ![w.plan] =
                    IF w.obj.ready # "Active" THEN NotAsked
                    ELSE IF asked[w.plan].outcome = "pending"
                         THEN [asked[w.plan] EXCEPT !.outcome = "recorded"]
                         ELSE asked[w.plan]]
    BY <1>1 DEF UpdateStatus
<1>5. /\ timers' = timers \cup {w.plan} /\ w' = Idle
      /\ UNCHANGED <<created, cache, risks, queue, edits, restarts, driver>>
    BY DEF UpdateStatus, boundVars
<1> HIDE DEF o
<1>6. /\ api'[w.plan] = o /\ api' \in [Plans -> Object]
      /\ \A q \in Plans \ {w.plan} : api'[q] = api[q]
    <2>1. CASE Write(w.plan, o)
        BY <1>1, <1>2, <2>1, Written
    <2>2. CASE o = api[w.plan] /\ UNCHANGED <<api, stream>>
        BY <2>2 DEF TypeOK
    <2>3. QED
        BY <1>3, <2>1, <2>2
<1>7. stream' \in Seq(Plans \X Object) /\ Len(stream') <= MaxLag + 1
    <2>1. Len(stream) \in Nat /\ Len(stream) <= MaxLag
        BY <1>1, StreamTyped DEF WatchInv
    <2>2. CASE Write(w.plan, o)
        BY <1>1, <1>2, <2>1, <2>2, Written, BoundsAssumption
    <2>3. CASE UNCHANGED <<api, stream>>
        BY <2>3, StreamTyped
    <2>4. QED
        BY <1>3, <2>2, <2>3
<1>8. /\ asked' \in [Plans -> Asked]
      /\ \A q \in Plans \ {w.plan} : asked'[q] = asked[q]
      /\ \/ asked'[w.plan].outcome = "none"
         \/ /\ w.obj.ready = "Active" /\ asked'[w.plan].age = asked[w.plan].age
            /\ asked'[w.plan].outcome # "pending"
            /\ asked'[w.plan].outcome = "recorded"
                    => asked[w.plan].outcome \in {"pending", "recorded"}
    <2>1. /\ asked[w.plan] \in Asked
          /\ [asked[w.plan] EXCEPT !.outcome = "recorded"] \in Asked
          /\ [asked[w.plan] EXCEPT !.outcome = "recorded"].age = asked[w.plan].age
          /\ [asked[w.plan] EXCEPT !.outcome = "recorded"].outcome = "recorded"
        BY <1>1 DEF Asked
    <2>2. QED
        BY <1>1, <1>4, <2>1, NotAskedAsked
<1>9. TypeOK'
    BY <1>1, <1>5, <1>6, <1>7, <1>8, IdleWorker DEF TypeOK
<1>10. WatchInv'
    <2>1. w'.pc = "idle"
        BY <1>5, IdleWorker
    <2>2. CASE Write(w.plan, o)
        BY <1>1, <1>2, <1>5, <2>1, <2>2, WrittenWatched DEF WatchInv
    <2>3. CASE UNCHANGED <<api, stream>>
        BY <1>5, <2>1, <2>3, WatchKept
    <2>4. QED
        BY <1>3, <2>2, <2>3
<1>11. CopyInv'
    BY <1>5, IdleWorker DEF CopyInv
<1>12. InsightInv'
    <2>1. \A q \in Plans \ {w.plan} : asked[q].outcome # "pending"
        BY DEF InsightInv
    <2>2. \A q \in Plans : asked'[q].outcome # "pending"
        BY <1>8, <2>1
    <2>3. asked'[w.plan].outcome = "recorded" => o.insightAge = asked'[w.plan].age
        <3> SUFFICES ASSUME asked'[w.plan].outcome = "recorded"
                     PROVE  w.obj.insightAge = asked[w.plan].age
            BY <1>2, <1>8
        <3>1. Reporting /\ asked[w.plan].outcome \in {"pending", "recorded"}
            BY <1>8 DEF Reporting
        <3>2. QED
            BY <1>1, <3>1 DEF CopyInv, InsightInv
    <2>4. QED
        BY <1>6, <1>8, <2>2, <2>3 DEF InsightInv
<1>13. \/ UNCHANGED <<api, stream>>
       \/ /\ Write(w.plan, o) /\ o \in Object /\ api[w.plan].exists
          /\ o.created = api[w.plan].created
    BY <1>1, <1>2, <1>3 DEF CopyInv
<1>14. QED
    BY <1>1, <1>5, <1>9, <1>10, <1>11, <1>12, <1>13

\* Every step keeps the invariant.
LEMMA PlanInvNext == PlanInv /\ [Next]_vars => PlanInv'
<1> SUFFICES ASSUME PlanInv, [Next]_vars PROVE PlanInv'
    OBVIOUS
<1>1. CASE UNCHANGED vars
    BY <1>1 DEF vars, serverVars, queueVars, boundVars, history, PlanInv, TypeOK, WatchInv,
                CopyInv, InsightInv, Reporting
<1>2. CASE Next
    <2>1. CASE RoundStep
        BY <2>1, RoundKeeps, InsightRefreshedKeeps, FailedKeeps, UpdateStatusKeeps DEF RoundStep
    <2>2. QED
        BY <1>2, <2>1, UserKeeps, DeliverKeeps, SurroundingsKeep, TickKeeps, RestartKeeps,
           GetFoundKeeps DEF Next
<1>3. QED
    BY <1>1, <1>2

\* Every reachable state satisfies the invariant.
THEOREM PlanInvariant == Spec => []PlanInv
BY PlanInvInit, PlanInvNext, PTL DEF Spec

\* The types hold throughout: in particular the cache is never further behind
\* than MaxLag changes and the worker's own.
THEOREM PlanTypes == Spec => []TypeOK
BY PlanInvariant, PTL DEF PlanInv

\* An insight that the status records and the copy has is not replaced within
\* the interval.
THEOREM RateLimitKept == Spec => RateLimitWhenRecorded
<1>1. ASSUME PlanInv, InsightRefreshed, asked[w.plan].outcome = "recorded", w.current
      PROVE  asked[w.plan].age >= llmInterval
    <2>1. w.pc = "insight" /\ w.plan \in Plans /\ NeedsRefresh(w.obj)
        BY <1>1 DEF InsightRefreshed, Local, PlanInv, TypeOK
    <2>2. Reporting
        BY <2>1 DEF Reporting
    <2>3. api[w.plan].exists /\ w.obj.insightAge = api[w.plan].insightAge
        BY <1>1, <2>1, <2>2 DEF PlanInv, CopyInv
    <2>4. api[w.plan].insightAge = asked[w.plan].age
        BY <1>1, <2>1, <2>3 DEF PlanInv, InsightInv
    <2>5. QED
        BY <2>1, <2>3, <2>4 DEF NeedsRefresh
<1>2. PlanInv => [InsightRefreshed /\ asked[w.plan].outcome = "recorded" /\ w.current
                    => asked[w.plan].age >= llmInterval]_vars
    BY <1>1
<1>3. QED
    BY <1>2, PlanInvariant, PTL DEF RateLimitWhenRecorded

-----------------------------------------------------------------------------
\* The positions of the watch.

\* Every position holds an object, with the cache first and the API server last.
LEMMA PositionsTyped ==
    ASSUME TypeOK
    PROVE  /\ Len(stream) \in Nat
           /\ \A p \in Plans, i \in 0 .. Len(stream) + 1 :
                Version(p, i) \in Object /\ Version(p, i).created \in Nat
           /\ \A p \in Plans : /\ About(p, 0) /\ Version(p, 0) = cache[p]
                               /\ About(p, Len(stream) + 1)
                               /\ Version(p, Len(stream) + 1) = api[p]
<1>1. /\ Len(stream) \in Nat
      /\ \A i \in 1 .. Len(stream) : stream[i][2] \in Object
    BY StreamTyped
<1>2. api \in [Plans -> Object] /\ cache \in [Plans -> Object]
    BY DEF TypeOK
<1>3. \A o \in Object : o.created \in Nat
    <2>1. \A r \in Rank : r \in Nat
        BY BoundsAssumption DEF Rank
    <2>2. QED
        BY <2>1 DEF Object
<1>4. \A p \in Plans, i \in 0 .. Len(stream) + 1 : Version(p, i) \in Object
    BY <1>1, <1>2 DEF Version
<1>5. \A p \in Plans : /\ About(p, 0) /\ Version(p, 0) = cache[p]
                       /\ About(p, Len(stream) + 1)
                       /\ Version(p, Len(stream) + 1) = api[p]
    BY <1>1 DEF About, Version
<1>6. QED
    BY <1>1, <1>3, <1>4, <1>5

\* Where the positions are after a write.
LEMMA PositionsWritten ==
    ASSUME TypeOK, NEW pl \in Plans, NEW o \in Object, Write(pl, o), cache' = cache,
           NEW n \in Nat, n = Len(stream)
    PROVE  /\ Len(stream)' = n + 1
           /\ \A p \in Plans, i \in 0 .. n :
                (About(p, i)' <=> About(p, i)) /\ Version(p, i)' = Version(p, i)
           /\ \A p \in Plans : (About(p, n + 1)' <=> p = pl) /\ About(p, n + 2)'
           /\ Version(pl, n + 1)' = o /\ Version(pl, n + 2)' = o
           /\ \A p \in Plans \ {pl} : Version(p, n + 2)' = Version(p, n + 1)
<1>1. /\ Len(stream') = n + 1
      /\ \A i \in 1 .. n : stream'[i] = stream[i]
      /\ stream'[n + 1] = <<pl, o>> /\ api'[pl] = o
      /\ \A q \in Plans \ {pl} : api'[q] = api[q]
    BY Written
<1>2. /\ 0 \notin 1 .. n + 1 /\ 0 \notin 1 .. n /\ n + 1 \in 1 .. n + 1 /\ n + 1 # 0
      /\ n + 2 \notin 1 .. n + 1 /\ n + 2 # 0 /\ n + 1 \notin 1 .. n
      /\ \A i \in 0 .. n : i = 0 \/ (i \in 1 .. n /\ i \in 1 .. n + 1)
    OBVIOUS
<1>3. \A p \in Plans, i \in 0 .. n : About(p, i)' <=> About(p, i)
    BY <1>1, <1>2 DEF About
<1>4. \A p \in Plans, i \in 0 .. n : Version(p, i)' = Version(p, i)
    BY <1>1, <1>2 DEF Version
<1>5. \A p \in Plans : (About(p, n + 1)' <=> p = pl) /\ About(p, n + 2)'
    BY <1>1, <1>2 DEF About
<1>6. Version(pl, n + 1)' = o /\ Version(pl, n + 2)' = o
    BY <1>1, <1>2 DEF Version
<1>7. \A p \in Plans \ {pl} : Version(p, n + 2)' = Version(p, n + 1)
    BY <1>1, <1>2 DEF Version
<1>8. QED
    BY <1>1, <1>3, <1>4, <1>5, <1>6, <1>7

\* Where they are after a delivery: one position further on.
LEMMA PositionsDelivered ==
    ASSUME TypeOK, Deliver
    PROVE  /\ Len(stream) \in Nat \ {0} /\ Len(stream)' = Len(stream) - 1
           /\ \A p \in Plans, i \in 1 .. Len(stream) :
                (About(p, i)' <=> About(p, i + 1)) /\ Version(p, i)' = Version(p, i + 1)
           /\ \A p \in Plans : /\ About(p, 0)'
                               /\ Version(p, 0)' = IF About(p, 1) THEN Version(p, 1)
                                                   ELSE Version(p, 0)
<1> DEFINE n == Len(stream)
<1>1. /\ n \in Nat \ {0} /\ Len(stream') = n - 1 /\ api' = api
      /\ \A i \in 1 .. n - 1 : stream'[i] = stream[i + 1]
      /\ cache'[stream[1][1]] = stream[1][2] /\ stream[1][1] \in Plans
      /\ \A q \in Plans \ {stream[1][1]} : cache'[q] = cache[q]
    BY Delivered
<1> HIDE DEF n
<1>2. \A i \in 1 .. n - 1 : i + 1 \in 1 .. n /\ i # 0 /\ i + 1 # 0
    BY <1>1
<1>3. /\ n \notin 1 .. n - 1 /\ n + 1 \notin 1 .. n /\ n # 0 /\ n + 1 # 0
      /\ 0 \notin 1 .. n - 1 /\ 0 \notin 1 .. n /\ 1 \in 1 .. n
      /\ \A i \in 1 .. n : i = n \/ i \in 1 .. n - 1
    BY <1>1
<1>4. \A p \in Plans, i \in 1 .. n : About(p, i)' <=> About(p, i + 1)
    BY <1>1, <1>2, <1>3 DEF About, n
<1>5. \A p \in Plans, i \in 1 .. n : Version(p, i)' = Version(p, i + 1)
    <2> TAKE p \in Plans, i \in 1 .. n
    <2>1. CASE i = n
        BY <1>1, <1>3, <2>1 DEF Version, n
    <2>2. CASE i \in 1 .. n - 1
        BY <1>1, <1>2, <2>2 DEF Version, n
    <2>3. QED
        BY <1>3, <2>1, <2>2
<1>6. \A p \in Plans : /\ About(p, 0)'
                       /\ Version(p, 0)' = IF About(p, 1) THEN Version(p, 1)
                                           ELSE Version(p, 0)
    BY <1>1, <1>3 DEF About, Version, n
<1>7. QED
    BY <1>1, <1>4, <1>5, <1>6 DEF n

-----------------------------------------------------------------------------
\* ActiveInv is inductive.

\* A step keeps FloorInv when every plan on the watch after it was there
\* before it, or was created by it, and the round goes on or ends.
LEMMA FloorKept ==
    ASSUME TypeOK, TypeOK', FloorInv, created <= created', driver' = driver,
           \A p \in Plans, i \in 0 .. Len(stream)' + 1 :
                About(p, i)' /\ Version(p, i)'.exists =>
                    \/ Version(p, i)'.created = created'
                    \/ \E j \in 0 .. Len(stream) + 1 :
                        /\ About(p, j) /\ Version(p, j).exists
                        /\ Version(p, j).created = Version(p, i)'.created,
           w'.pc # "idle" => /\ w.pc # "idle" /\ w'.plan = w.plan
                             /\ w'.obj.created = w.obj.created
    PROVE  FloorInv'
<1>1. created \in Nat /\ created' \in Nat /\ driver.created \in Nat
    BY BoundsAssumption DEF TypeOK, Rank
<1>2. w.obj.created \in Nat
    BY BoundsAssumption DEF TypeOK, Rank, Worker, Object
<1>3. \A p \in Plans, j \in 0 .. Len(stream) + 1 : Version(p, j).created \in Nat
    BY PositionsTyped
<1>4. \A p \in Plans, i \in 0 .. Len(stream)' + 1 :
        About(p, i)' /\ Version(p, i)'.exists => Version(p, i)'.created <= created'
    BY <1>1, <1>3 DEF FloorInv
<1>5. ASSUME w'.pc # "idle"
      PROVE  /\ w'.obj.created <= created'
             /\ \A p \in Plans, i \in 0 .. Len(stream)' + 1 :
                    p = w'.plan /\ About(p, i)' /\ Version(p, i)'.exists
                        => w'.obj.created <= Version(p, i)'.created
    <2>1. w.pc # "idle" /\ w'.plan = w.plan /\ w'.obj.created = w.obj.created
        BY <1>5
    <2>2. w.obj.created <= created /\ w.obj.created <= created'
        BY <1>1, <1>2, <2>1 DEF FloorInv
    <2>3. \A p \in Plans, j \in 0 .. Len(stream) + 1 :
            p = w.plan /\ About(p, j) /\ Version(p, j).exists
                => w.obj.created <= Version(p, j).created
        BY <2>1 DEF FloorInv
    <2>4. QED
        BY <2>1, <2>2, <2>3
<1>6. ASSUME driver.plan # NoPlan
      PROVE  /\ Floor(driver.created)' /\ driver.created <= created'
             /\ w'.pc # "idle" => driver.created <= w'.obj.created
    <2>1. driver.created <= created /\ driver.created <= created' /\ Floor(driver.created)
        BY <1>1, <1>6 DEF FloorInv
    <2>2. Floor(driver.created)'
        BY <2>1 DEF Floor
    <2>3. QED
        BY <1>6, <2>1, <2>2 DEF FloorInv
<1>7. w'.pc # "idle" => w'.plan = w.plan
    OBVIOUS
<1>8. QED
    BY <1>4, <1>5, <1>6, <1>7 DEF FloorInv

\* What the copy in the worker's hands may be after a step: the one before, or
\* one from the cache.
WorkerCopies ==
    w'.pc # "idle" => \/ w.pc # "idle" /\ w'.obj.created = w.obj.created
                      \/ \E q \in Plans : cache[q].exists /\ w'.obj.created = cache[q].created

\* A step that leaves every position where it is keeps the origins.
LEMMA OriginsKept ==
    ASSUME TypeOK, OriginsInv, WorkerCopies,
           Len(stream)' = Len(stream),
           \A p \in Plans, i \in 0 .. Len(stream) + 1 :
                /\ About(p, i)' <=> About(p, i)
                /\ Version(p, i)'.exists = Version(p, i).exists
                /\ Version(p, i)'.created = Version(p, i).created
    PROVE  OriginsInv'
<1> SUFFICES ASSUME NEW p \in Plans, NEW i \in 1 .. Len(stream) + 1,
                    About(p, i)', Version(p, i)'.exists
             PROVE  \E k \in 0 .. i : k <= Len(stream)' /\ Origin(p, i, k)'
    BY DEF OriginsInv
<1>1. Len(stream) \in Nat /\ \A q \in Plans : About(q, 0) /\ Version(q, 0) = cache[q]
    BY PositionsTyped
<1>2. i \in 0 .. Len(stream) + 1
    BY <1>1
<1>3. PICK k \in 0 .. i : k <= Len(stream) /\ Origin(p, i, k)
    BY <1>2 DEF OriginsInv
<1>4. /\ \A j \in k .. i : j \in 0 .. Len(stream) + 1
      /\ \A j \in 0 .. k - 1 : j \in 0 .. Len(stream) + 1
      /\ k > 0 => 0 \in 0 .. k - 1
      /\ k \in 0 .. Len(stream) + 1
    BY <1>1, <1>2
<1>5. About(p, k)'
    BY <1>3, <1>4 DEF Origin
<1>6. \A j \in k .. i : About(p, j)' => /\ Version(p, j)'.exists
                                        /\ Version(p, j)'.created = Version(p, i)'.created
    BY <1>2, <1>3, <1>4 DEF Origin
<1>7. ASSUME k > 0
      PROVE  /\ \A j \in 0 .. k - 1, q \in Plans :
                    About(q, j)' /\ Version(q, j)'.exists
                        => Version(q, j)'.created <= Version(p, i)'.created
             /\ w'.pc # "idle" => w'.obj.created <= Version(p, i)'.created
    <2>1. \A j \in 0 .. k - 1, q \in Plans :
            About(q, j) /\ Version(q, j).exists => Version(q, j).created <= Version(p, i).created
        BY <1>3, <1>7 DEF Origin
    <2>2. w.pc # "idle" => w.obj.created <= Version(p, i).created
        BY <1>3, <1>7 DEF Origin
    <2>3. \A q \in Plans : cache[q].exists => cache[q].created <= Version(p, i).created
        BY <1>1, <1>4, <1>7, <2>1
    <2>4. QED
        BY <1>2, <1>4, <2>1, <2>2, <2>3 DEF WorkerCopies
<1>8. Origin(p, i, k)'
    BY <1>5, <1>6, <1>7 DEF Origin
<1>9. QED
    BY <1>3, <1>8

\* A write of a plan that is new, or of the same plan, has its origin on the
\* watch.
LEMMA OriginsWritten ==
    ASSUME TypeOK, OriginsInv, FloorInv, NEW pl \in Plans, NEW o \in Object, Write(pl, o),
           cache' = cache,
           w'.pc # "idle" => w.pc # "idle" /\ w'.obj.created = w.obj.created,
           o.exists => \/ o.created = created' /\ created <= created'
                       \/ api[pl].exists /\ o.created = api[pl].created
    PROVE  OriginsInv'
<1>1. PICK n \in Nat : n = Len(stream)
    BY PositionsTyped
<1>2. /\ Len(stream)' = n + 1
      /\ \A p \in Plans, i \in 0 .. n :
            (About(p, i)' <=> About(p, i)) /\ Version(p, i)' = Version(p, i)
      /\ \A p \in Plans : (About(p, n + 1)' <=> p = pl) /\ About(p, n + 2)'
      /\ Version(pl, n + 1)' = o /\ Version(pl, n + 2)' = o
      /\ \A p \in Plans \ {pl} : Version(p, n + 2)' = Version(p, n + 1)
    BY <1>1, PositionsWritten
<1>3. /\ \A p \in Plans : /\ About(p, 0) /\ About(p, n + 1) /\ Version(p, n + 1) = api[p]
      /\ \A p \in Plans, i \in 0 .. n + 1 : Version(p, i).created \in Nat
    BY <1>1, PositionsTyped
<1>4. created \in Nat /\ w.obj.created \in Nat /\ o.created \in Nat
    BY BoundsAssumption DEF TypeOK, Rank, Worker, Object
<1>5. \A p \in Plans, i \in 1 .. n + 1 :
        About(p, i) /\ Version(p, i).exists =>
            \E k \in 0 .. i : k <= n /\ Origin(p, i, k)
    BY <1>1 DEF OriginsInv
<1>6. \A p \in Plans, i \in 0 .. n + 1 :
        About(p, i) /\ Version(p, i).exists => Version(p, i).created <= created
    BY <1>1 DEF FloorInv
\* A version that keeps its timestamp keeps its origin, wherever it is moved to.
<1>7. ASSUME NEW p \in Plans, NEW i \in 1 .. n + 1, NEW m \in i .. n + 2,
             About(p, i), Version(p, i).exists,
             About(p, m)', Version(p, m)'.exists,
             Version(p, m)'.created = Version(p, i).created,
             \A j \in i .. m : About(p, j)' => /\ Version(p, j)'.exists
                                               /\ Version(p, j)'.created = Version(p, i).created
      PROVE  \E k \in 0 .. m : k <= n + 1 /\ Origin(p, m, k)'
    <2>1. PICK k \in 0 .. i : k <= n /\ Origin(p, i, k)
        BY <1>5, <1>7
    <2>2. /\ k \in 0 .. n /\ k \in 0 .. m /\ k <= n + 1
          /\ \A j \in k .. m : j \in i .. m \/ (j \in k .. i /\ j \in 0 .. n)
          /\ \A j \in 0 .. k - 1 : j \in 0 .. n
        BY <2>1
    <2>3. About(p, k)'
        BY <1>2, <2>1, <2>2 DEF Origin
    <2>4. \A j \in k .. m : About(p, j)' => /\ Version(p, j)'.exists
                                            /\ Version(p, j)'.created = Version(p, m)'.created
        BY <1>2, <1>7, <2>1, <2>2 DEF Origin
    <2>5. k > 0 => /\ \A j \in 0 .. k - 1, q \in Plans :
                        About(q, j)' /\ Version(q, j)'.exists
                            => Version(q, j)'.created <= Version(p, m)'.created
                   /\ w'.pc # "idle" => w'.obj.created <= Version(p, m)'.created
        BY <1>2, <1>7, <2>1, <2>2 DEF Origin
    <2>6. Origin(p, m, k)'
        BY <2>3, <2>4, <2>5 DEF Origin
    <2>7. QED
        BY <2>2, <2>6
\* A plan that is created has its origin where it is written.
<1>8. ASSUME o.exists, o.created = created', created <= created', NEW m \in n + 1 .. n + 2
      PROVE  Origin(pl, m, n + 1)'
    <2>1. Version(pl, m)' = o /\ \A j \in n + 1 .. m : Version(pl, j)' = o
        BY <1>2, <1>8
    <2>2. \A j \in 0 .. n, q \in Plans :
            About(q, j)' /\ Version(q, j)'.exists => Version(q, j)'.created <= o.created
        <3>1. \A j \in 0 .. n : j \in 0 .. n + 1
            OBVIOUS
        <3>2. QED
            BY <1>2, <1>3, <1>4, <1>6, <1>8, <3>1
    <2>3. w'.pc # "idle" => w'.obj.created <= o.created
        BY <1>4, <1>8 DEF FloorInv
    <2>4. 0 .. (n + 1) - 1 = 0 .. n
        OBVIOUS
    <2>5. QED
        BY <1>2, <1>8, <2>1, <2>2, <2>3, <2>4 DEF Origin
<1>9. ASSUME NEW p \in Plans, NEW i \in 1 .. n + 2, About(p, i)', Version(p, i)'.exists
      PROVE  \E k \in 0 .. i : k <= n + 1 /\ Origin(p, i, k)'
    <2>1. CASE i \in 1 .. n
        <3>1. i \in 0 .. n /\ i \in 1 .. n + 1 /\ i \in i .. n + 2 /\ \A j \in i .. i : j = i
            BY <2>1
        <3>2. About(p, i) /\ Version(p, i).exists /\ Version(p, i)' = Version(p, i)
            BY <1>2, <1>9, <3>1
        <3>3. QED
            BY <1>7, <1>9, <3>1, <3>2
    <2>2. CASE i \in n + 1 .. n + 2 /\ p = pl
        <3>1. o.exists
            BY <1>2, <1>9, <2>2
        <3>2. CASE o.created = created' /\ created <= created'
            <4>1. Origin(pl, i, n + 1)'
                BY <1>8, <2>2, <3>1, <3>2
            <4>2. n + 1 \in 0 .. i /\ n + 1 <= n + 1
                BY <2>2
            <4>3. QED
                BY <2>2, <4>1, <4>2
        <3>3. CASE api[pl].exists /\ o.created = api[pl].created
            <4>1. /\ n + 1 \in 1 .. n + 1 /\ i \in n + 1 .. n + 2
                  /\ \A j \in n + 1 .. i : j = n + 1 \/ j = n + 2
                BY <2>2
            <4>2. Version(pl, i)' = o /\ \A j \in n + 1 .. i : Version(pl, j)' = o
                BY <1>2, <2>2, <4>1
            <4>3. Version(pl, n + 1).exists /\ Version(pl, n + 1).created = o.created
                  /\ About(pl, n + 1)
                BY <1>3, <3>3
            <4>4. QED
                BY <1>7, <1>9, <2>2, <3>1, <4>1, <4>2, <4>3
        <3>4. QED
            BY <3>1, <3>2, <3>3
    <2>3. CASE i = n + 2 /\ p # pl
        <3>1. n + 1 \in 1 .. n + 1 /\ n + 2 \in n + 1 .. n + 2
              /\ \A j \in n + 1 .. n + 2 : j = n + 1 \/ j = n + 2
            OBVIOUS
        <3>2. About(p, n + 1) /\ Version(p, n + 2)' = Version(p, n + 1) /\ ~About(p, n + 1)'
            BY <1>2, <1>3, <2>3
        <3>3. QED
            BY <1>7, <1>9, <2>3, <3>1, <3>2
    <2>4. i = n + 1 => p = pl
        BY <1>2, <1>9
    <2>5. QED
        BY <2>1, <2>2, <2>3, <2>4
<1>10. Len(stream)' + 1 = n + 2
    BY <1>2
<1>11. QED
    BY <1>2, <1>9, <1>10 DEF OriginsInv

\* A delivery moves the origins along with the versions.
LEMMA OriginsDelivered == ASSUME TypeOK, OriginsInv, Deliver PROVE OriginsInv'
<1>1. PICK n \in Nat \ {0} : n = Len(stream)
    BY PositionsDelivered
<1>2. /\ Len(stream)' = n - 1
      /\ \A p \in Plans, i \in 1 .. n :
            (About(p, i)' <=> About(p, i + 1)) /\ Version(p, i)' = Version(p, i + 1)
      /\ \A p \in Plans : /\ About(p, 0)'
                          /\ Version(p, 0)' = IF About(p, 1) THEN Version(p, 1)
                                              ELSE Version(p, 0)
    BY <1>1, PositionsDelivered
<1>3. \A p \in Plans : About(p, 0)
    BY PositionsTyped
<1>4. w' = w
    BY Delivered
<1>5. ASSUME NEW p \in Plans, NEW i \in 1 .. n, About(p, i)', Version(p, i)'.exists
      PROVE  \E k \in 0 .. i : k <= n - 1 /\ Origin(p, i, k)'
    <2>1. About(p, i + 1) /\ Version(p, i + 1).exists /\ i + 1 \in 1 .. n + 1
        BY <1>2, <1>5
    <2>2. PICK k \in 0 .. i + 1 : k <= n /\ Origin(p, i + 1, k)
        BY <1>1, <2>1 DEF OriginsInv
    <2>3. \A j \in k .. i + 1 : About(p, j) =>
            Version(p, j).exists /\ Version(p, j).created = Version(p, i)'.created
        BY <1>2, <2>2 DEF Origin
    <2>4. CASE k <= 1
        <3>1. About(p, k) /\ i + 1 \in k .. i + 1
            BY <2>2, <2>4 DEF Origin
        <3>2. \A j \in 0 .. i : j = 0 \/ (j \in 1 .. n /\ j + 1 \in k .. i + 1)
            BY <2>4
        <3>3. Version(p, 0)'.exists /\ Version(p, 0)'.created = Version(p, i)'.created
            <4>1. CASE About(p, 1)
                <5>1. 1 \in k .. i + 1
                    BY <2>4
                <5>2. QED
                    BY <1>2, <2>3, <4>1, <5>1
            <4>2. CASE ~About(p, 1)
                <5>1. k = 0 /\ 0 \in k .. i + 1
                    BY <2>4, <3>1, <4>2
                <5>2. QED
                    BY <1>2, <1>3, <2>3, <4>2, <5>1
            <4>3. QED
                BY <4>1, <4>2
        <3>4. \A j \in 0 .. i : About(p, j)' =>
                Version(p, j)'.exists /\ Version(p, j)'.created = Version(p, i)'.created
            BY <1>2, <2>3, <3>2, <3>3
        <3>5. Origin(p, i, 0)'
            BY <1>2, <3>4 DEF Origin
        <3>6. 0 \in 0 .. i /\ 0 <= n - 1
            OBVIOUS
        <3>7. QED
            BY <3>5, <3>6
    <2>5. CASE k > 1
        <3>1. /\ k - 1 \in 0 .. i /\ k - 1 <= n - 1 /\ k - 1 \in 1 .. n /\ (k - 1) + 1 = k
              /\ k - 1 > 0 /\ k > 0
              /\ \A j \in k - 1 .. i : j \in 1 .. n /\ j + 1 \in k .. i + 1
              /\ \A j \in 0 .. (k - 1) - 1 : j = 0 \/ (j \in 1 .. n /\ j + 1 \in 0 .. k - 1)
              /\ 0 \in 0 .. k - 1 /\ 1 \in 0 .. k - 1
            BY <2>2, <2>5
        <3>2. About(p, k - 1)'
            BY <1>2, <2>2, <3>1 DEF Origin
        <3>3. \A j \in k - 1 .. i : About(p, j)' =>
                Version(p, j)'.exists /\ Version(p, j)'.created = Version(p, i)'.created
            BY <1>2, <2>3, <3>1
        <3>4. \A j \in 0 .. k - 1, q \in Plans :
                About(q, j) /\ Version(q, j).exists
                    => Version(q, j).created <= Version(p, i)'.created
            BY <1>2, <2>2, <3>1 DEF Origin
        <3>5. \A j \in 0 .. (k - 1) - 1, q \in Plans :
                About(q, j)' /\ Version(q, j)'.exists
                    => Version(q, j)'.created <= Version(p, i)'.created
            <4> TAKE j \in 0 .. (k - 1) - 1, q \in Plans
            <4>1. CASE j = 0
                BY <1>2, <1>3, <3>1, <3>4, <4>1
            <4>2. CASE j \in 1 .. n /\ j + 1 \in 0 .. k - 1
                BY <1>2, <3>4, <4>2
            <4>3. QED
                BY <3>1, <4>1, <4>2
        <3>6. w'.pc # "idle" => w'.obj.created <= Version(p, i)'.created
            BY <1>2, <1>4, <2>2, <3>1 DEF Origin
        <3>7. Origin(p, i, k - 1)'
            BY <3>2, <3>3, <3>5, <3>6 DEF Origin
        <3>8. QED
            BY <3>1, <3>7
    <2>6. QED
        BY <2>2, <2>4, <2>5
<1>6. Len(stream)' + 1 = n
    BY <1>2
<1>7. QED
    BY <1>2, <1>5, <1>6 DEF OriginsInv

\* A plan in the cache is not older than the copy taken from there.
LEMMA CacheFirst ==
    ASSUME TypeOK, OriginsInv, NEW p \in Plans, NEW i \in 0 .. Len(stream) + 1,
           About(p, i), Version(p, i).exists
    PROVE  \/ cache[p].exists /\ cache[p].created = Version(p, i).created
           \/ /\ \A q \in Plans : cache[q].exists => cache[q].created <= Version(p, i).created
              /\ w.pc # "idle" => w.obj.created <= Version(p, i).created
<1>1. Len(stream) \in Nat /\ \A q \in Plans : About(q, 0) /\ Version(q, 0) = cache[q]
    BY PositionsTyped
<1>2. CASE i = 0
    BY <1>1, <1>2
<1>3. CASE i # 0
    <2>1. i \in 1 .. Len(stream) + 1
        BY <1>1, <1>3
    <2>2. PICK k \in 0 .. i : Origin(p, i, k)
        BY <2>1 DEF OriginsInv
    <2>3. CASE k = 0
        <3>1. 0 \in k .. i
            BY <2>1, <2>3
        <3>2. QED
            BY <1>1, <2>2, <3>1 DEF Origin
    <2>4. CASE k # 0
        <3>1. k > 0 /\ 0 \in 0 .. k - 1
            BY <2>4
        <3>2. QED
            BY <1>1, <2>2, <3>1 DEF Origin
    <2>5. QED
        BY <2>3, <2>4
<1>4. QED
    BY <1>2, <1>3

-----------------------------------------------------------------------------
\* pickActivePlan.

\* A non-empty set of numbers has a smallest one.
LEMMA SmallestNumber ==
    ASSUME NEW S \in SUBSET Nat, S # {}
    PROVE  \E x \in S : \A y \in S : x <= y
<1> DEFINE R == {ss \in Nat \X Nat : ss[1] < ss[2]}
<1>1. IsWellFoundedOn(R, Nat)
    BY NatLessThanWellFounded DEF OpToRel
<1> HIDE DEF R
<1>2. PICK x \in S : \A y \in S : ~(<<y, x>> \in R)
    BY <1>1, WFMin
<1>3. \A y \in S : ~(y < x)
    BY <1>2 DEF R
<1>4. QED
    BY <1>3

\* With plans in the list, pickActivePlan is one of them, and every other is
\* younger or, of the same second, after it by name.
LEMMA ActivePlanFirst ==
    ASSUME NEW objs \in [Plans -> Object], Existing(objs) # {}
    PROVE  /\ pickActivePlan(objs) \in Existing(objs)
           /\ \A q \in Existing(objs) \ {pickActivePlan(objs)} :
                Before(objs, pickActivePlan(objs), q)
<1> DEFINE S == Existing(objs)
           C == {objs[p].created : p \in S}
<1>1. S \subseteq Plans /\ S \subseteq Nat /\ \A p \in S : objs[p].created \in Nat
    <2>1. \A r \in Rank : r \in Nat
        BY BoundsAssumption DEF Rank
    <2>2. QED
        BY <2>1, PlansAssumption DEF Existing, Object
<1>2. PICK c \in C : \A d \in C : c <= d
    <2>1. C \in SUBSET Nat /\ C # {}
        BY <1>1
    <2>2. QED
        BY <2>1, SmallestNumber
<1> DEFINE T == {p \in S : objs[p].created = c}
<1>3. PICK p \in T : \A q \in T : p <= q
    <2>1. T \in SUBSET Nat /\ T # {}
        BY <1>1, <1>2
    <2>2. QED
        BY <2>1, SmallestNumber
<1>4. \A q \in S \ {p} : Before(objs, p, q)
    BY <1>1, <1>2, <1>3 DEF Before
<1>5. \E x \in S : \A q \in S \ {x} : Before(objs, x, q)
    BY <1>3, <1>4
<1>6. pickActivePlan(objs) = CHOOSE x \in S : \A q \in S \ {x} : Before(objs, x, q)
    BY DEF pickActivePlan
<1> HIDE DEF S
<1>7. QED
    BY <1>5, <1>6 DEF S

-----------------------------------------------------------------------------
\* The steps.

\* The operator starts with every plan on the watch of the same age.
LEMMA ActiveInvInit == Init => ActiveInv
<1> SUFFICES ASSUME Init PROVE ActiveInv
    OBVIOUS
<1>1. PlanInv
    BY PlanInvInit
<1>2. /\ stream = <<>> /\ cache = api /\ created = 0 /\ w = Idle
      /\ driver = [plan |-> NoPlan, created |-> 0]
      /\ api \in [Plans -> {Absent, NewPlan(0)}]
    BY DEF Init
<1>3. Len(stream) = 0 /\ w.pc = "idle" /\ driver.plan = NoPlan
    BY <1>2, IdleWorker
<1>4. \A p \in Plans, i \in 0 .. 1 : About(p, i) /\ Version(p, i) = api[p]
    BY <1>2, <1>3 DEF About, Version
<1>5. \A p \in Plans : api[p].exists => api[p].created = 0
    BY <1>2, Constants, NewPlanObject, AbsentObject
<1>6. OriginsInv
    <2>1. ASSUME NEW p \in Plans, NEW i \in 1 .. 1, Version(p, i).exists
          PROVE  0 \in 0 .. i /\ 0 <= 0 /\ Origin(p, i, 0)
        BY <1>4, <2>1 DEF Origin
    <2>2. QED
        BY <1>3, <2>1 DEF OriginsInv
<1>7. FloorInv
    BY <1>2, <1>3, <1>4, <1>5 DEF FloorInv
<1>8. QED
    BY <1>1, <1>6, <1>7 DEF ActiveInv

\* A write of a plan that is new, or of the same plan.
LEMMA WriteKeeps ==
    ASSUME ActiveInv, TypeOK', NEW pl \in Plans, NEW o \in Object, Write(pl, o),
           UNCHANGED <<cache, driver>>, created <= created',
           w'.pc # "idle" => /\ w.pc # "idle" /\ w'.plan = w.plan
                             /\ w'.obj.created = w.obj.created,
           o.exists => \/ o.created = created'
                       \/ api[pl].exists /\ o.created = api[pl].created
    PROVE  OriginsInv' /\ FloorInv'
<1> USE DEF ActiveInv, PlanInv
<1>1. OriginsInv'
    BY OriginsWritten
<1>2. PICK n \in Nat : n = Len(stream)
    BY PositionsTyped
<1>3. /\ Len(stream)' = n + 1
      /\ \A p \in Plans, i \in 0 .. n :
            (About(p, i)' <=> About(p, i)) /\ Version(p, i)' = Version(p, i)
      /\ \A p \in Plans : (About(p, n + 1)' <=> p = pl) /\ About(p, n + 2)'
      /\ Version(pl, n + 1)' = o /\ Version(pl, n + 2)' = o
      /\ \A p \in Plans \ {pl} : Version(p, n + 2)' = Version(p, n + 1)
    BY <1>2, PositionsWritten
<1>4. \A p \in Plans : About(p, n + 1) /\ Version(p, n + 1) = api[p]
    BY <1>2, PositionsTyped
<1>5. ASSUME NEW p \in Plans, NEW i \in 0 .. n + 2, About(p, i)', Version(p, i)'.exists
      PROVE  \/ Version(p, i)'.created = created'
             \/ \E j \in 0 .. n + 1 : /\ About(p, j) /\ Version(p, j).exists
                                      /\ Version(p, j).created = Version(p, i)'.created
    <2>1. CASE i \in 0 .. n
        <3>1. i \in 0 .. n + 1
            BY <2>1
        <3>2. QED
            BY <1>3, <1>5, <2>1, <3>1
    <2>2. CASE p = pl /\ i \in {n + 1, n + 2}
        <3>1. n + 1 \in 0 .. n + 1
            OBVIOUS
        <3>2. QED
            BY <1>3, <1>4, <1>5, <2>2, <3>1
    <2>3. CASE p # pl /\ i = n + 2
        <3>1. n + 1 \in 0 .. n + 1
            OBVIOUS
        <3>2. QED
            BY <1>3, <1>4, <1>5, <2>3, <3>1
    <2>4. i \in 0 .. n \/ i = n + 1 \/ i = n + 2
        OBVIOUS
    <2>5. QED
        BY <1>3, <1>5, <2>1, <2>2, <2>3, <2>4
<1>6. 0 .. Len(stream)' + 1 = 0 .. n + 2
    BY <1>3
<1>7. FloorInv'
    BY <1>2, <1>5, <1>6, FloorKept
<1>8. QED
    BY <1>1, <1>7

\* A delivery brings nothing to the watch.
LEMMA DeliverKeepsActive == ASSUME ActiveInv, Deliver PROVE OriginsInv' /\ FloorInv'
<1> USE DEF ActiveInv, PlanInv
<1>1. OriginsInv'
    BY OriginsDelivered
<1>2. PICK n \in Nat \ {0} : n = Len(stream)
    BY PositionsDelivered
<1>3. /\ Len(stream)' = n - 1
      /\ \A p \in Plans, i \in 1 .. n :
            (About(p, i)' <=> About(p, i + 1)) /\ Version(p, i)' = Version(p, i + 1)
      /\ \A p \in Plans : /\ About(p, 0)'
                          /\ Version(p, 0)' = IF About(p, 1) THEN Version(p, 1)
                                              ELSE Version(p, 0)
    BY <1>2, PositionsDelivered
<1>4. \A p \in Plans : About(p, 0)
    BY PositionsTyped
<1>5. ASSUME NEW p \in Plans, NEW i \in 0 .. n, About(p, i)', Version(p, i)'.exists
      PROVE  \E j \in 0 .. n + 1 : /\ About(p, j) /\ Version(p, j).exists
                                   /\ Version(p, j).created = Version(p, i)'.created
    <2>1. CASE i = 0
        <3>1. 0 \in 0 .. n + 1 /\ 1 \in 0 .. n + 1
            OBVIOUS
        <3>2. QED
            BY <1>3, <1>4, <1>5, <2>1, <3>1
    <2>2. CASE i \in 1 .. n
        <3>1. i + 1 \in 0 .. n + 1
            BY <2>2
        <3>2. QED
            BY <1>3, <1>5, <2>2, <3>1
    <2>3. QED
        BY <2>1, <2>2
<1>6. 0 .. Len(stream)' + 1 = 0 .. n
    BY <1>3
<1>7. TypeOK' /\ created' = created /\ created \in Nat /\ w' = w /\ driver' = driver
    <2>1. created \in Nat
        BY BoundsAssumption DEF TypeOK, Rank
    <2>2. QED
        BY <2>1, DeliverKeeps, Delivered
<1>8. created <= created'
    BY <1>7
<1>9. FloorInv'
    BY <1>2, <1>5, <1>6, <1>7, <1>8, FloorKept
<1>10. QED
    BY <1>1, <1>9

\* Nor does a restart.
LEMMA RestartKeepsActive == ASSUME ActiveInv, Restart PROVE OriginsInv' /\ FloorInv'
<1> USE DEF ActiveInv, PlanInv
<1>1. stream' = <<>> /\ cache' = api /\ api' = api /\ w' = Idle
      /\ UNCHANGED <<created, driver>>
    BY DEF Restart
<1>2. Len(stream)' = 0 /\ w'.pc = "idle"
    BY <1>1, IdleWorker
<1>3. \A p \in Plans, i \in 0 .. 1 : About(p, i)' /\ Version(p, i)' = api[p]
    BY <1>1, <1>2 DEF About, Version
<1>4. OriginsInv'
    <2>1. ASSUME NEW p \in Plans, NEW i \in 1 .. 1, Version(p, i)'.exists
          PROVE  0 \in 0 .. i /\ 0 <= 0 /\ Origin(p, i, 0)'
        BY <1>3, <2>1 DEF Origin
    <2>2. QED
        BY <1>2, <2>1 DEF OriginsInv
<1>5. FloorInv'
    <2>1. PICK n \in Nat : n = Len(stream)
        BY PositionsTyped
    <2>2. n + 1 \in 0 .. n + 1
        OBVIOUS
    <2>3. \A p \in Plans : About(p, n + 1) /\ Version(p, n + 1) = api[p]
        BY <2>1, PositionsTyped
    <2>4. \A p \in Plans, i \in 0 .. Len(stream)' + 1 :
            About(p, i)' /\ Version(p, i)'.exists =>
                \E j \in 0 .. Len(stream) + 1 :
                    /\ About(p, j) /\ Version(p, j).exists
                    /\ Version(p, j).created = Version(p, i)'.created
        BY <1>2, <1>3, <2>1, <2>2, <2>3
    <2>5. created <= created'
        BY <1>1, BoundsAssumption DEF TypeOK, Rank
    <2>6. TypeOK'
        BY RestartKeeps
    <2>7. QED
        BY <1>1, <1>2, <2>4, <2>5, <2>6, FloorKept
<1>6. QED
    BY <1>4, <1>5

\* A step that leaves the watch and the driver alone, in a round that goes on
\* or ends.
LEMMA QuietKeeps ==
    ASSUME ActiveInv, TypeOK', UNCHANGED <<created, driver>>,
           Len(stream)' = Len(stream),
           \A p \in Plans, i \in 0 .. Len(stream) + 1 :
                /\ About(p, i)' <=> About(p, i)
                /\ Version(p, i)'.exists = Version(p, i).exists
                /\ Version(p, i)'.created = Version(p, i).created,
           w'.pc # "idle" => /\ w.pc # "idle" /\ w'.plan = w.plan
                             /\ w'.obj.created = w.obj.created
    PROVE  OriginsInv' /\ FloorInv'
<1> USE DEF ActiveInv, PlanInv
<1>1. WorkerCopies
    BY DEF WorkerCopies
<1>2. OriginsInv'
    BY <1>1, OriginsKept
<1>3. created <= created'
    BY BoundsAssumption DEF TypeOK, Rank
<1>4. \A p \in Plans, i \in 0 .. Len(stream)' + 1 :
        About(p, i)' /\ Version(p, i)'.exists =>
            \E j \in 0 .. Len(stream) + 1 :
                /\ About(p, j) /\ Version(p, j).exists
                /\ Version(p, j).created = Version(p, i)'.created
    OBVIOUS
<1>5. FloorInv'
    BY <1>3, <1>4, FloorKept
<1>6. QED
    BY <1>2, <1>5

\* In particular one that leaves every version alone.
LEMMA StillPositions ==
    ASSUME UNCHANGED <<api, stream, cache>>
    PROVE  /\ Len(stream)' = Len(stream)
           /\ \A p, i : (About(p, i)' <=> About(p, i)) /\ Version(p, i)' = Version(p, i)
BY DEF About, Version

\* Time leaves the order of the plans alone.
LEMMA TickKeepsActive == ASSUME ActiveInv, Tick PROVE OriginsInv' /\ FloorInv'
<1> USE DEF ActiveInv, PlanInv
<1>1. /\ \A pl \in Plans : api'[pl] = Aged(api[pl]) /\ cache'[pl] = Aged(cache[pl])
      /\ Len(stream)' = Len(stream) /\ UNCHANGED <<created, driver>>
      /\ \A i \in 1 .. Len(stream) : /\ stream'[i][1] = stream[i][1]
                                     /\ stream'[i][2] = Aged(stream[i][2])
    BY Ticked
<1>2. \A p \in Plans, i \in 0 .. Len(stream) + 1 : About(p, i)' <=> About(p, i)
    BY <1>1 DEF About
<1>3. \A p \in Plans, i \in 0 .. Len(stream) + 1 : Version(p, i)' = Aged(Version(p, i))
    BY <1>1 DEF Version
<1>4. \A p \in Plans, i \in 0 .. Len(stream) + 1 :
        /\ Version(p, i)'.exists = Version(p, i).exists
        /\ Version(p, i)'.created = Version(p, i).created
    BY <1>3, PositionsTyped, AgedObject
<1>5. w'.plan = w.plan /\ w'.obj.created = w.obj.created /\ w'.pc = w.pc
    <2>1. w \in Worker /\ w.obj \in Object
        BY DEF TypeOK, Worker
    <2>2. w' = [w EXCEPT !.obj = Aged(@), !.age = IF w.pc = "idle" THEN @ ELSE Older(@)]
        BY DEF Tick
    <2>3. w'.plan = w.plan /\ w'.obj = Aged(w.obj) /\ w'.pc = w.pc
        BY <2>1, <2>2 DEF Worker
    <2>4. QED
        BY <2>1, <2>3, AgedObject
<1>6. TypeOK'
    BY TickKeeps
<1>7. QED
    BY <1>1, <1>2, <1>4, <1>5, <1>6, QuietKeeps

\* The copy that a round starts with is not younger than any version of its
\* plan, nor older than the plan that drives.
LEMMA GetFoundKeepsActive ==
    ASSUME ActiveInv, NEW pl \in Plans, GetFound(pl)
    PROVE  OriginsInv' /\ FloorInv'
<1> USE DEF ActiveInv, PlanInv
<1>1. /\ UNCHANGED <<api, stream, cache, created, driver>> /\ cache[pl].exists
      /\ w.pc = "idle"
    BY DEF GetFound, Take, serverVars
<1>2. w'.pc = "list" /\ w'.plan = pl /\ w'.obj = cache[pl]
    BY IdleWorker DEF GetFound, Worker
<1>3. WorkerCopies
    BY <1>1, <1>2 DEF WorkerCopies
<1>4. /\ Len(stream)' = Len(stream)
      /\ \A p, i : (About(p, i)' <=> About(p, i)) /\ Version(p, i)' = Version(p, i)
    BY <1>1, StillPositions
<1>5. OriginsInv'
    BY <1>3, <1>4, OriginsKept
<1>6. /\ 0 \in 0 .. Len(stream) + 1 /\ About(pl, 0) /\ Version(pl, 0) = cache[pl]
      /\ cache[pl].created \in Nat
    BY PositionsTyped
<1>7. ASSUME NEW i \in 0 .. Len(stream) + 1, About(pl, i), Version(pl, i).exists
      PROVE  cache[pl].created <= Version(pl, i).created
    BY <1>1, <1>6, <1>7, CacheFirst, PositionsTyped
<1>8. cache[pl].created <= created
    BY <1>1, <1>6 DEF FloorInv
<1>9. driver.plan # NoPlan => driver.created <= cache[pl].created
    BY <1>1, <1>6 DEF FloorInv, Floor
<1>10. driver.plan # NoPlan => Floor(driver.created)'
    BY <1>1, <1>4 DEF FloorInv, Floor
<1>11. FloorInv'
    BY <1>1, <1>2, <1>4, <1>7, <1>8, <1>9, <1>10 DEF FloorInv
<1>12. QED
    BY <1>5, <1>11

\* The plan that is to drive is the oldest on the watch.
LEMMA DriveIsFloor ==
    ASSUME ActiveInv, w.pc = "list", isActivePlan
    PROVE  /\ Floor(w.obj.created)
           /\ Existing(cache) # {} =>
                /\ w.plan \in Existing(cache) /\ w.obj.created <= cache[w.plan].created
                /\ \A q \in Existing(cache) \ {w.plan} : Before(cache, w.plan, q)
<1> USE DEF ActiveInv, PlanInv
<1>1. /\ cache \in [Plans -> Object] /\ w.plan \in Plans /\ w.obj.created \in Nat
      /\ \A q \in Plans : cache[q].created \in Nat
    <2>1. \A r \in Rank : r \in Nat
        BY BoundsAssumption DEF Rank
    <2>2. cache \in [Plans -> Object] /\ w.plan \in Plans /\ w \in Worker
        BY DEF TypeOK
    <2>3. QED
        BY <2>1, <2>2 DEF Worker, Object
<1>2. /\ Len(stream) \in Nat /\ \A q \in Plans : About(q, 0) /\ Version(q, 0) = cache[q]
      /\ \A p \in Plans, i \in 0 .. Len(stream) + 1 : Version(p, i).created \in Nat
    BY PositionsTyped
<1>3. ASSUME Existing(cache) # {}
      PROVE  /\ w.plan \in Existing(cache) /\ w.obj.created <= cache[w.plan].created
             /\ \A q \in Existing(cache) \ {w.plan} : Before(cache, w.plan, q)
    <2>1. /\ pickActivePlan(cache) \in Existing(cache)
          /\ \A q \in Existing(cache) \ {pickActivePlan(cache)} :
                Before(cache, pickActivePlan(cache), q)
        BY <1>1, <1>3, ActivePlanFirst
    <2>2. pickActivePlan(cache) \in Nat
        BY <2>1, PlansAssumption DEF Existing
    <2>3. pickActivePlan(cache) = w.plan
        BY <2>2, PlansAssumption DEF isActivePlan
    <2>4. cache[w.plan].exists /\ 0 \in 0 .. Len(stream) + 1
        BY <1>2, <2>1, <2>3 DEF Existing
    <2>5. w.obj.created <= cache[w.plan].created
        BY <1>1, <1>2, <2>4 DEF FloorInv
    <2>6. QED
        BY <2>1, <2>3, <2>5
<1>4. \A q \in Plans : cache[q].exists => w.obj.created <= cache[q].created
    <2> TAKE q \in Plans
    <2> HAVE cache[q].exists
    <2>1. q \in Existing(cache)
        BY DEF Existing
    <2>2. CASE q = w.plan
        BY <1>3, <2>1, <2>2
    <2>3. CASE q # w.plan
        <3>1. w.obj.created <= cache[w.plan].created /\ Before(cache, w.plan, q)
            BY <1>3, <2>1, <2>3
        <3>2. QED
            BY <1>1, <3>1 DEF Before
    <2>4. QED
        BY <2>2, <2>3
<1>5. Floor(w.obj.created)
    <2> SUFFICES ASSUME NEW p \in Plans, NEW i \in 0 .. Len(stream) + 1,
                        About(p, i), Version(p, i).exists
                 PROVE  w.obj.created <= Version(p, i).created
        BY DEF Floor
    <2>1. \/ cache[p].exists /\ cache[p].created = Version(p, i).created
          \/ w.obj.created <= Version(p, i).created
        BY CacheFirst
    <2>2. QED
        BY <1>4, <2>1
<1>6. QED
    BY <1>3, <1>5

\* So driving keeps the invariant.
LEMMA DriveKeepsActive == ASSUME ActiveInv, Drive PROVE OriginsInv' /\ FloorInv'
<1> USE DEF ActiveInv, PlanInv
<1>1. /\ w.pc = "list" /\ isActivePlan
      /\ driver' = [plan |-> w.plan, created |-> w.obj.created]
    BY DEF Drive
<1>2. /\ w'.pc # "idle" /\ w'.plan = w.plan /\ w'.obj.created = w.obj.created
      /\ UNCHANGED <<api, stream, created, cache>>
    BY RoundKeeps
<1>3. /\ Len(stream)' = Len(stream)
      /\ \A p, i : (About(p, i)' <=> About(p, i)) /\ Version(p, i)' = Version(p, i)
    BY <1>2, StillPositions
<1>4. WorkerCopies
    BY <1>1, <1>2 DEF WorkerCopies
<1>5. OriginsInv'
    BY <1>3, <1>4, OriginsKept
<1>6. Floor(w.obj.created) /\ driver'.created = w.obj.created
    BY <1>1, DriveIsFloor
<1>7. Floor(driver.created)'
    BY <1>3, <1>6 DEF Floor
<1>8. w.obj.created <= created /\ w.obj.created \in Nat
    <2>1. \A r \in Rank : r \in Nat
        BY BoundsAssumption DEF Rank
    <2>2. QED
        BY <1>1, <2>1 DEF FloorInv, TypeOK, Worker, Object
<1>9. FloorInv'
    BY <1>1, <1>2, <1>3, <1>6, <1>7, <1>8 DEF FloorInv
<1>10. QED
    BY <1>5, <1>9

\* Every step keeps the invariant.
LEMMA ActiveInvNext == ActiveInv /\ [Next]_vars => ActiveInv'
<1> SUFFICES ASSUME ActiveInv, [Next]_vars PROVE OriginsInv' /\ FloorInv'
    BY PlanInvNext DEF ActiveInv
<1>1. PlanInv /\ PlanInv' /\ TypeOK'
    BY PlanInvNext DEF ActiveInv, PlanInv
<1>2. ASSUME UNCHANGED <<api, stream, cache, created, driver>>,
             w'.pc # "idle" => /\ w.pc # "idle" /\ w'.plan = w.plan
                               /\ w'.obj.created = w.obj.created
      PROVE  OriginsInv' /\ FloorInv'
    BY <1>1, <1>2, StillPositions, QuietKeeps
<1>3. CASE UNCHANGED vars
    BY <1>2, <1>3 DEF vars, serverVars, history
<1>4. CASE UserStep
    <2>1. PICK pl \in Plans, o \in Object :
            /\ UserWrite(pl, o)
            /\ \/ /\ ~api[pl].exists /\ o = NewPlan(created')
                  /\ created' \in Rank /\ created <= created'
                  /\ asked' = [asked EXCEPT ![pl] = NotAsked]
               \/ /\ o.exists => /\ api[pl].exists /\ o.created = api[pl].created
                                 /\ o.insightAge = api[pl].insightAge
                  /\ created' = created /\ asked' = asked
        BY <1>1, <1>4, UserWrites
    <2>2. /\ Write(pl, o) /\ UNCHANGED <<cache, driver>>
          /\ w' = IF w.plan = pl THEN [w EXCEPT !.current = FALSE] ELSE w
        BY <2>1 DEF UserWrite
    <2>3. w'.pc = w.pc /\ w'.plan = w.plan /\ w'.obj = w.obj
        <3>1. w \in Worker
            BY <1>1 DEF PlanInv, TypeOK
        <3>2. QED
            BY <2>2, <3>1 DEF Worker
    <2>4. created <= created'
        <3>1. created \in Nat
            BY <1>1, BoundsAssumption DEF PlanInv, TypeOK, Rank
        <3>2. QED
            BY <2>1, <3>1
    <2>5. o.exists => o.created = created' \/ (api[pl].exists /\ o.created = api[pl].created)
        BY <2>1, NewPlanObject
    <2>6. QED
        BY <1>1, <2>2, <2>3, <2>4, <2>5, WriteKeeps
<1>5. CASE UpdateStatus
    <2>1. w' = Idle /\ UNCHANGED <<created, cache, driver>> /\ w'.pc = "idle"
        BY <1>1, <1>5, UpdateStatusKeeps, IdleWorker
    <2>2. CASE UNCHANGED <<api, stream>>
        BY <1>2, <2>1, <2>2
    <2>3. CASE \E o \in Object : /\ Write(w.plan, o) /\ w.plan \in Plans
                                 /\ api[w.plan].exists
                                 /\ o.created = api[w.plan].created
        <3>1. created <= created'
            BY <1>1, <2>1, BoundsAssumption DEF PlanInv, TypeOK, Rank
        <3>2. QED
            BY <1>1, <2>1, <2>3, <3>1, WriteKeeps
    <2>4. QED
        BY <1>1, <1>5, <2>2, <2>3, UpdateStatusKeeps
<1>6. CASE Drive
    BY <1>6, DriveKeepsActive
<1>7. CASE MarkInactive \/ InsightKept \/ NarrativeKept \/ NarrativeRefreshed \/ Publish
    BY <1>1, <1>2, <1>6, <1>7, RoundKeeps
<1>8. CASE InsightRefreshed
    BY <1>1, <1>2, <1>8, InsightRefreshedKeeps
<1>9. CASE ListFails \/ UpdateFails
    BY <1>1, <1>2, <1>9, FailedKeeps, IdleWorker
<1>10. CASE \/ \E r \in Risks : RisksChange(r)
            \/ \E pl \in Plans : TimerFires(pl) \/ GetFails(pl) \/ GetNotFound(pl)
    BY <1>2, <1>10 DEF RisksChange, TimerFires, GetFails, GetNotFound, Take, serverVars, history
<1>11. QED
    BY <1>3, <1>4, <1>5, <1>6, <1>7, <1>8, <1>9, <1>10, DeliverKeepsActive,
       TickKeepsActive, RestartKeepsActive, GetFoundKeepsActive DEF Next, RoundStep

\* Every reachable state satisfies the invariant.
THEOREM ActiveInvariant == Spec => []ActiveInv
BY ActiveInvInit, ActiveInvNext, PTL DEF Spec

\* Only an active plan's round changes who drives.
LEMMA OnlyDriveDrives ==
    ASSUME PlanInv, Next, driver' # driver
    PROVE  Drive
<1>1. CASE RoundStep
    BY <1>1, RoundKeeps, InsightRefreshedKeeps, FailedKeeps, UpdateStatusKeeps DEF RoundStep
<1>2. CASE UserStep
    BY <1>2 DEF UserStep, CreatePlan, EditPlan, DeletePlan, UserWrite
<1>3. CASE \/ Deliver \/ Tick \/ Restart \/ \E r \in Risks : RisksChange(r)
           \/ \E pl \in Plans : TimerFires(pl) \/ GetFails(pl) \/ GetNotFound(pl) \/ GetFound(pl)
    BY <1>3 DEF Deliver, Tick, Restart, RisksChange, TimerFires, GetFails, GetNotFound,
                GetFound, Take, history
<1>4. QED
    BY <1>1, <1>2, <1>3 DEF Next

\* The plan that drives is replaced only when the cache no longer has it, or
\* by one of the same second that comes before it by name.
THEOREM ActivePlanKept == Spec => ActivePlanStays
<1> DEFINE Stays == driver' # driver /\ driver.plan # NoPlan =>
                        \/ ~cache[driver.plan].exists
                        \/ cache[driver.plan].created # driver.created
                        \/ driver'.created = driver.created /\ driver'.plan < driver.plan
<1>1. ASSUME ActiveInv, Next, driver' # driver, driver.plan # NoPlan,
             cache[driver.plan].exists, cache[driver.plan].created = driver.created
      PROVE  driver'.created = driver.created /\ driver'.plan < driver.plan
    <2> USE DEF ActiveInv, PlanInv
    <2>1. Drive
        BY <1>1, OnlyDriveDrives
    <2>2. /\ w.pc = "list" /\ isActivePlan
          /\ driver' = [plan |-> w.plan, created |-> w.obj.created]
        BY <2>1 DEF Drive
    <2>3. /\ driver \in [plan : Plans \cup {NoPlan}, created : Rank]
          /\ driver.plan \in Plans /\ driver.plan \in Existing(cache)
        BY <1>1 DEF TypeOK, Existing
    <2>4. /\ w.plan \in Existing(cache) /\ w.obj.created <= cache[w.plan].created
          /\ \A q \in Existing(cache) \ {w.plan} : Before(cache, w.plan, q)
        BY <1>1, <2>2, <2>3, DriveIsFloor
    <2>5. w.plan \in Plans /\ cache[w.plan].exists
        BY <2>4 DEF Existing
    <2>6. /\ driver.created \in Nat /\ cache[w.plan].created \in Nat /\ w.obj.created \in Nat
        <3>1. \A r \in Rank : r \in Nat
            BY BoundsAssumption DEF Rank
        <3>2. cache \in [Plans -> Object] /\ w \in Worker
            BY <1>1 DEF TypeOK
        <3>3. QED
            BY <2>3, <2>5, <3>1, <3>2 DEF Worker, Object
    <2>7. driver.created <= w.obj.created
        BY <1>1, <2>2 DEF FloorInv
    <2>8. w.plan # driver.plan
        <3> SUFFICES ASSUME w.plan = driver.plan PROVE FALSE
            OBVIOUS
        <3>1. w.obj.created = driver.created
            BY <1>1, <2>4, <2>6, <2>7
        <3>2. driver = [plan |-> driver.plan, created |-> driver.created]
            BY <2>3
        <3>3. QED
            BY <1>1, <2>2, <3>1, <3>2
    <2>9. Before(cache, w.plan, driver.plan)
        BY <2>3, <2>4, <2>8
    <2>10. cache[w.plan].created = driver.created /\ w.plan < driver.plan
        BY <1>1, <2>4, <2>6, <2>7, <2>9 DEF Before
    <2>11. w.obj.created = driver.created
        BY <2>4, <2>6, <2>7, <2>10
    <2>12. QED
        BY <2>2, <2>10, <2>11
<1>2. ActiveInv /\ [Next]_vars => [Stays]_vars
    BY <1>1
<1>3. QED
    BY <1>2, ActiveInvariant, PTL DEF Spec, ActivePlanStays
=============================================================================
