---------------------------- MODULE CapacityPlan ----------------------------
(***************************************************************************)
(* internal/controller/capacityplan_controller.go: which CapacityPlan is   *)
(* the active one, how often the LLM is asked, and what a round of the     *)
(* reconciler leaves in the status of a plan.                              *)
(*                                                                         *)
(* The plans live in the API server (api).  The reconciler reads them from *)
(* the informer's cache, which follows through one watch for all plans     *)
(* (stream, oldest change first); an update with an outdated copy is       *)
(* refused.  The controller has one worker, and no predicate: each change  *)
(* of a plan queues it, the reconciler's own status update included.       *)
(*                                                                         *)
(* The top risks a round computes are one value, which the cluster changes *)
(* at any time.  The status keeps the insight of one PVC, which is in      *)
(* scope throughout.  Times are ages in ticks, up to MaxAge, which also    *)
(* stands for "never"; of lastReconcileTime, written with a resolution of  *)
(* a second, only whether it is this tick's matters.                       *)
(***************************************************************************)
EXTENDS Naturals, Sequences

CONSTANTS
    Plans,         \* names of plans, as numbers in the order of the names
    NoPlan,
    Risks,         \* values of the top risks
    NoRisk,        \* no top risks, or not computed
    LLM,           \* is a provider configured?
    llmInterval,   \* spec.llmInsightsInterval, in ticks; also where ages stop
    MaxEdits,      \* bound: writes by users
    MaxLag,        \* bound: changes the cache may be behind when a round starts
    MaxRestarts    \* bound: crashes of the operator

MaxAge == llmInterval

ASSUME PlansAssumption == Plans \subseteq Nat /\ NoPlan \notin Nat
ASSUME RisksAssumption == NoRisk \in Risks
ASSUME BoundsAssumption ==
    /\ LLM \in BOOLEAN /\ llmInterval \in Nat \ {0}
    /\ MaxEdits \in Nat /\ MaxLag \in Nat /\ MaxRestarts \in Nat

VARIABLES
    api, stream, cache,
    created,     \* the latest creation timestamp given, as a rank
    risks,       \* the top risks of the cluster
    queue, timers,
    w,           \* the worker: where it is in Reconcile, and its locals
    edits, restarts,
    driver,      \* history: the plan of the last active round, and its timestamp
    asked        \* history: the age of each plan's last insight, and what came of it

serverVars == <<api, stream, created>>
queueVars  == <<queue, timers>>
boundVars  == <<edits, restarts>>
history    == <<driver, asked>>
vars == <<serverVars, cache, risks, queueVars, w, boundVars, history>>

Age == 0 .. MaxAge
Rank == 0 .. MaxEdits + 1

Object == [exists : BOOLEAN, created : Rank,
           ready : {"None", "Active", "NotActivePlan"},  \* the Ready condition
           observed : BOOLEAN,   \* status.observedGeneration is the generation
           now : BOOLEAN,        \* status.lastReconcileTime is in this tick
           risks : Risks,        \* status.topRisks and riskSnapshotHash
           changes : BOOLEAN,    \* status.riskChanges is not empty
           insightAge : Age,     \* of the PVC's lastLLMTime
           told : Risks,         \* what llmRiskChangeSummary is about
           toldAge : Age]        \* of lastLLMRiskChangeTime

NewPlan(c) == [exists |-> TRUE, created |-> c, ready |-> "None", observed |-> FALSE,
               now |-> FALSE, risks |-> NoRisk, changes |-> FALSE, insightAge |-> MaxAge,
               told |-> NoRisk, toldAge |-> MaxAge]
Absent == [NewPlan(0) EXCEPT !.exists = FALSE]

Idle == [pc |-> "idle", plan |-> NoPlan, obj |-> Absent, current |-> FALSE,
         age |-> 0, stale |-> FALSE, risks |-> NoRisk]

NotAsked == [age |-> MaxAge, outcome |-> "none"]

Unrecorded(a) == IF a.outcome = "pending" THEN [a EXCEPT !.outcome = "unrecorded"] ELSE a

Existing(objs) == {pl \in Plans : objs[pl].exists}

Init ==
    /\ api \in [Plans -> {Absent, NewPlan(0)}]
    /\ stream = <<>> /\ cache = api
    /\ created = 0
    /\ risks \in Risks
    /\ queue = Existing(api) /\ timers = {}
    /\ w = Idle
    /\ edits = 0 /\ restarts = 0
    /\ driver = [plan |-> NoPlan, created |-> 0]
    /\ asked = [pl \in Plans |-> NotAsked]

-----------------------------------------------------------------------------
\* The API server, the watch and the users.

Write(pl, o) ==
    /\ api' = [api EXCEPT ![pl] = o]
    /\ stream' = Append(stream, <<pl, o>>)

UserWrite(pl, o) ==
    /\ edits < MaxEdits
    /\ edits' = edits + 1
    /\ Len(stream) < MaxLag
    /\ Write(pl, o)
    /\ w' = IF w.plan = pl THEN [w EXCEPT !.current = FALSE] ELSE w
    /\ UNCHANGED <<cache, risks, queueVars, restarts, driver>>

\* Creation timestamps have a resolution of a second: c may be the last one.
CreatePlan(pl, c) ==
    /\ ~api[pl].exists
    /\ c \in {created, created + 1}
    /\ created' = c
    /\ UserWrite(pl, NewPlan(c))
    /\ asked' = [asked EXCEPT ![pl] = NotAsked]

EditPlan(pl) ==
    /\ api[pl].exists
    /\ UserWrite(pl, [api[pl] EXCEPT !.observed = FALSE])
    /\ UNCHANGED <<created, asked>>

DeletePlan(pl) ==
    /\ api[pl].exists
    /\ UserWrite(pl, Absent)
    /\ UNCHANGED <<created, asked>>

Deliver ==
    /\ stream # <<>>
    /\ cache' = [cache EXCEPT ![Head(stream)[1]] = Head(stream)[2]]
    /\ queue' = queue \cup {Head(stream)[1]}
    /\ stream' = Tail(stream)
    /\ UNCHANGED <<api, created, risks, timers, w, boundVars, history>>

TimerFires(pl) ==
    /\ pl \in timers
    /\ timers' = timers \ {pl}
    /\ queue' = queue \cup {pl}
    /\ UNCHANGED <<serverVars, cache, risks, w, boundVars, driver, asked>>

RisksChange(r) ==
    /\ r # risks
    /\ risks' = r
    /\ UNCHANGED <<serverVars, cache, queueVars, w, boundVars, history>>

Older(a) == IF a < MaxAge THEN a + 1 ELSE a
Aged(o) == [o EXCEPT !.insightAge = Older(@), !.toldAge = Older(@), !.now = FALSE]

Tick ==
    /\ api' = [pl \in Plans |-> Aged(api[pl])]
    /\ cache' = [pl \in Plans |-> Aged(cache[pl])]
    /\ stream' = [i \in 1 .. Len(stream) |-> <<stream[i][1], Aged(stream[i][2])>>]
    /\ w' = [w EXCEPT !.obj = Aged(@), !.age = IF w.pc = "idle" THEN @ ELSE Older(@)]
    /\ asked' = [pl \in Plans |-> [asked[pl] EXCEPT !.age = Older(@)]]
    /\ UNCHANGED <<created, risks, queueVars, boundVars, driver>>

Restart ==
    /\ restarts < MaxRestarts
    /\ restarts' = restarts + 1
    /\ stream' = <<>>
    /\ cache' = api
    /\ queue' = Existing(api)
    /\ timers' = {}
    /\ w' = Idle
    /\ asked' = [pl \in Plans |-> Unrecorded(asked[pl])]
    /\ UNCHANGED <<api, created, risks, edits, driver>>

-----------------------------------------------------------------------------
\* Reconcile.

Take(pl) ==
    /\ w.pc = "idle"
    /\ Len(stream) <= MaxLag
    /\ pl \in queue
    /\ queue' = queue \ {pl}
    /\ UNCHANGED <<serverVars, cache, risks, boundVars, driver, asked>>

GetFails(pl) ==
    /\ Take(pl)
    /\ timers' = timers \cup {pl}
    /\ UNCHANGED w

GetNotFound(pl) ==
    /\ Take(pl)
    /\ ~cache[pl].exists
    /\ UNCHANGED <<timers, w>>

\* Mutant: the branch for a missing plan does not return.
GetFoundAnyway(pl) ==
    /\ Take(pl)
    /\ w' = [Idle EXCEPT !.pc = "list", !.plan = pl, !.obj = cache[pl], !.current = TRUE]
    /\ UNCHANGED timers

GetFound(pl) ==
    /\ Take(pl)
    /\ cache[pl].exists
    /\ w' = [Idle EXCEPT !.pc = "list", !.plan = pl, !.obj = cache[pl],
                         !.current = \A i \in 1 .. Len(stream) : stream[i][1] # pl]
    /\ UNCHANGED timers

\* The oldest plan, then the first by name.
Before(objs, p, q) ==
    \/ objs[p].created < objs[q].created
    \/ objs[p].created = objs[q].created /\ p < q

\* Mutant: the newest plan is active.
pickNewestPlan(objs) ==
    IF Existing(objs) = {} THEN NoPlan
    ELSE CHOOSE p \in Existing(objs) : \A q \in Existing(objs) \ {p} : Before(objs, q, p)

pickActivePlan(objs) ==
    IF Existing(objs) = {} THEN NoPlan
    ELSE CHOOSE p \in Existing(objs) : \A q \in Existing(objs) \ {p} : Before(objs, p, q)

\* isActivePlan; with no plan in the list, any plan is.
isActivePlan == pickActivePlan(cache) \in {NoPlan, w.plan}

\* The list of plans or of PVCs fails: retried with backoff.
ListFails ==
    /\ w.pc = "list"
    /\ timers' = timers \cup {w.plan}
    /\ w' = Idle
    /\ UNCHANGED <<serverVars, cache, risks, queue, boundVars, history>>

\* markPlanInactive, up to its update.
MarkInactive ==
    /\ w.pc = "list"
    /\ ~isActivePlan
    /\ w' = [w EXCEPT !.pc = "update",
                      !.obj = [NewPlan(w.obj.created) EXCEPT !.ready = "NotActivePlan",
                                                             !.observed = TRUE]]
    /\ UNCHANGED <<serverVars, cache, risks, queueVars, boundVars, history>>

\* The active plan's round begins: the watcher is configured, PVCs are listed.
Drive ==
    /\ w.pc = "list"
    /\ isActivePlan
    /\ w' = [w EXCEPT !.pc = "insight", !.age = 0, !.stale = (w.obj.toldAge >= llmInterval)]
    /\ driver' = [plan |-> w.plan, created |-> w.obj.created]
    /\ UNCHANGED <<serverVars, cache, risks, queueVars, boundVars, asked>>

Local(pc) ==
    /\ w.pc = pc
    /\ UNCHANGED <<serverVars, cache, risks, queueVars, boundVars, driver>>

\* Mutant: asked again one tick early.
NeedsRefreshEarly(o) == o.insightAge + 1 >= llmInterval

\* buildSummary: is the PVC's insight as old as the interval?
NeedsRefresh(o) == o.insightAge >= llmInterval

\* No provider (disabled, or its configuration failed), a PVC that does not
\* alert under onlyAlertingPVCs, an insight that is recent, or the LLM failed.
InsightKept ==
    /\ Local("insight")
    /\ w' = [w EXCEPT !.pc = "narrate", !.risks = risks]
    /\ UNCHANGED asked

InsightRefreshed ==
    /\ Local("insight")
    /\ LLM
    /\ NeedsRefresh(w.obj)
    /\ w' = [w EXCEPT !.pc = "narrate", !.risks = risks, !.obj = [@ EXCEPT !.insightAge = 0]]
    /\ asked' = [asked EXCEPT ![w.plan] = [age |-> 0, outcome |-> "pending"]]

\* Mutant: only a new snapshot is told.
shouldRefreshOnChange == w.obj.risks # w.risks

shouldRefresh == w.obj.risks # w.risks \/ w.stale

\* refreshPlanRiskChangeInsight keeps the text (or, with none, takes the
\* counts, which tell of no risk): no provider, none that executes prompts,
\* no need to, or the LLM failed.
NarrativeKept ==
    /\ Local("narrate")
    /\ w' = [w EXCEPT !.pc = "publish"]
    /\ UNCHANGED asked

NarrativeRefreshed ==
    /\ Local("narrate")
    /\ LLM
    /\ shouldRefresh
    /\ w' = [w EXCEPT !.pc = "publish",
                      !.obj = [@ EXCEPT !.told = w.risks, !.toldAge = w.age]]
    /\ UNCHANGED asked

\* The gauges, the child resources (whose errors are only logged), and the
\* new status.
Publish ==
    /\ Local("publish")
    /\ w' = [w EXCEPT !.pc = "update",
                      !.obj = [@ EXCEPT !.ready = "Active", !.observed = TRUE,
                                        !.changes = (w.risks # w.obj.risks),
                                        !.risks = w.risks]]
    /\ UNCHANGED asked

\* lastReconcileTime is written in this tick.  An update that changes nothing,
\* the data left out here included, makes no new version.
UpdateStatus ==
    /\ w.pc = "update"
    /\ w.current
    /\ LET o == [w.obj EXCEPT !.now = TRUE]
       IN \/ Write(w.plan, o)
          \/ o = api[w.plan] /\ UNCHANGED <<api, stream>>
    /\ asked' = [asked EXCEPT ![w.plan] =
                    IF w.obj.ready # "Active" THEN NotAsked
                    ELSE IF @.outcome = "pending" THEN [@ EXCEPT !.outcome = "recorded"] ELSE @]
    /\ timers' = timers \cup {w.plan}
    /\ w' = Idle
    /\ UNCHANGED <<created, cache, risks, queue, boundVars, driver>>

\* Mutant: a failed update is not retried.
UpdateFailsGivesUp ==
    /\ w.pc = "update"
    /\ asked' = [asked EXCEPT ![w.plan] = Unrecorded(@)]
    /\ w' = Idle
    /\ UNCHANGED <<serverVars, cache, risks, queueVars, boundVars, driver>>

UpdateFails ==
    /\ w.pc = "update"
    /\ timers' = timers \cup {w.plan}
    /\ asked' = [asked EXCEPT ![w.plan] = Unrecorded(@)]
    /\ w' = Idle
    /\ UNCHANGED <<serverVars, cache, risks, queue, boundVars, driver>>

-----------------------------------------------------------------------------
UserStep ==
    \E pl \in Plans : \/ \E c \in Rank : CreatePlan(pl, c)
                      \/ EditPlan(pl)
                      \/ DeletePlan(pl)

RoundStep ==
    \/ ListFails \/ MarkInactive \/ Drive \/ InsightKept \/ InsightRefreshed
    \/ NarrativeKept \/ NarrativeRefreshed \/ Publish \/ UpdateStatus \/ UpdateFails

Next ==
    \/ UserStep
    \/ Deliver
    \/ \E r \in Risks : RisksChange(r)
    \/ Tick
    \/ Restart
    \/ \E pl \in Plans : TimerFires(pl) \/ GetFails(pl) \/ GetNotFound(pl) \/ GetFound(pl)
    \/ RoundStep

Spec == Init /\ [][Next]_vars

\* The goroutines run and time passes; the watch delivers; calls end within
\* their timeouts; cached reads and updates of the newest version do not fail
\* forever.
Fairness ==
    /\ WF_vars(Deliver) /\ WF_vars(Tick) /\ WF_vars(RoundStep)
    /\ \A pl \in Plans :
        /\ WF_vars(TimerFires(pl))
        /\ SF_vars(GetFound(pl) \/ GetNotFound(pl))
        /\ SF_vars(w.plan = pl /\ (MarkInactive \/ Drive))
        /\ SF_vars(w.plan = pl /\ UpdateStatus)

FairSpec == Spec /\ Fairness

\* Moreover the provider does not fail in every round that has the newest
\* version, nor do the updates of all rounds in which it answered.
LLMFairSpec ==
    /\ FairSpec
    /\ \A pl \in Plans : /\ SF_vars(w.plan = pl /\ w.current /\ NarrativeRefreshed)
                        /\ SF_vars(w.plan = pl /\ w.obj.told = w.risks /\ UpdateStatus)

-----------------------------------------------------------------------------
Worker == [pc : {"idle", "list", "insight", "narrate", "publish", "update"},
           plan : Plans \cup {NoPlan}, obj : Object, current : BOOLEAN, age : Age,
           stale : BOOLEAN, risks : Risks]
Asked == [age : Age, outcome : {"none", "unrecorded", "pending", "recorded"}]

TypeOK ==
    /\ api \in [Plans -> Object] /\ cache \in [Plans -> Object]
    /\ stream \in Seq(Plans \X Object) /\ Len(stream) <= MaxLag + 1
    /\ created \in Rank
    /\ risks \in Risks
    /\ queue \subseteq Plans /\ timers \subseteq Plans
    /\ w \in Worker
    /\ w.pc # "idle" => w.obj.exists /\ w.plan \in Plans
    /\ edits \in 0 .. MaxEdits /\ restarts \in 0 .. MaxRestarts
    /\ driver \in [plan : Plans \cup {NoPlan}, created : Rank]
    /\ asked \in [Plans -> Asked]

\* "The controller selects the active plan deterministically (oldest creation
\* timestamp, then name)": a plan that drives the watcher keeps doing so while
\* it exists, whatever plans are created, edited or deleted beside it, unless
\* one of the same second comes before it by name.
ActivePlanStays ==
    [][driver' # driver /\ driver.plan # NoPlan =>
        \/ ~cache[driver.plan].exists
        \/ cache[driver.plan].created # driver.created
        \/ driver'.created = driver.created /\ driver'.plan < driver.plan]_vars

\* "LLM calls are rate-limited by this interval", as far as the design can
\* keep it: an insight is replaced within the interval only when the status
\* update that would have recorded it failed, or the cache does not have that
\* update yet (buildSummary, needsRefresh).
RateLimitWhenRecorded ==
    [][InsightRefreshed /\ asked[w.plan].outcome = "recorded" /\ w.current
        => asked[w.plan].age >= llmInterval]_vars

\* "ReconcileInterval controls how often the CapacityPlan reconcile loop runs":
\* what queues a plan is a timer, a user who changed it, or a restart, and not
\* the status that the last round wrote (SetupWithManager).
IntervalControls ==
    [][\A pl \in queue' \ queue :
        pl \in timers \ timers' \/ ~cache'[pl].observed \/ restarts' # restarts]_vars

\* "Exactly one active CapacityPlan is enforced", in the end: when plans stop
\* coming and going, the oldest is the one whose status says so, although
\* nothing wakes a plan when the one before it is deleted.
ActivationSettles ==
    \A pl \in Plans :
        <>[](pickActivePlan(api) = pl) =>
            <>[](\A q \in Existing(api) : api[q].ready = "Active" <=> q = pl)

\* The narrative about risks catches up with the risks, although a failed
\* refresh stores the new snapshot's hash with the old text.
NarrativeCatchesUp ==
    \A pl \in Plans, r \in Risks :
        <>[](pickActivePlan(api) = pl /\ risks = r) => <>[](api[pl].told = r)
=============================================================================
