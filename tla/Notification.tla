---------------------------- MODULE Notification ----------------------------
(***************************************************************************)
(* internal/controller/capacityplannotification_controller.go: the         *)
(* reconciler that sends the risk digest of a CapacityPlan to Slack and by *)
(* e-mail, and remembers in the status of the CapacityPlanNotification     *)
(* what it sent and when.  One object; the controller has one worker, and  *)
(* the objects share nothing else.                                         *)
(*                                                                         *)
(* The object lives in the API server (api).  The reconciler reads it from *)
(* the informer's cache, which follows through a watch (stream, oldest     *)
(* version first).  Status().Update is refused when the copy it writes is  *)
(* not of the newest version, and may fail for any other reason.  Between  *)
(* the read and the update there are two sends over the network; users     *)
(* edit the object, the plan changes, time passes and the process crashes  *)
(* at any point of this.                                                   *)
(*                                                                         *)
(* Time is counted in ticks, as the age of what happened, up to MaxAge,    *)
(* which is past every cooldown: MaxAge also stands for "never".           *)
(***************************************************************************)
EXTENDS Naturals, Sequences

CONSTANTS
    Hashes,           \* non-empty values of the plan's risk snapshot hash
    NoHash,           \* history variable only: nothing was sent yet
    NoPlan,           \* the plan planRefName names does not exist
    Specs,            \* the specs users give the object
    DefaultCooldown,  \* 30m in the code
    MaxAge,           \* bound: ages are counted up to here
    MaxEdits,         \* bound: writes by users
    MaxLag            \* bound: versions the cache may be behind

Channel == {"slack", "email"}
SpecFields ==
    [ref : BOOLEAN,           \* planRefName is not blank
     cooldown : Nat,          \* 0 when not set
     onChangeOnly : BOOLEAN,
     dryRun : BOOLEAN,
     channels : SUBSET Channel]

ASSUME SpecsAssumption == Specs \subseteq SpecFields /\ Specs # {}
ASSUME HashesAssumption == "" \notin Hashes /\ NoHash \notin Hashes \cup {""}
                           /\ NoPlan \notin Hashes \cup {""}
ASSUME BoundsAssumption ==
    /\ DefaultCooldown \in Nat \ {0} /\ MaxAge \in Nat /\ MaxEdits \in Nat
    /\ MaxLag \in Nat \ {0}
    /\ DefaultCooldown <= MaxAge /\ \A s \in Specs : s.cooldown <= MaxAge

VARIABLES
    api,       \* the object in the API server
    stream,    \* versions of it the cache has not seen yet
    cache,     \* the object in the informer's cache
    plan,      \* the plan's risk snapshot hash, or NoPlan
    queued,    \* the object's key is ready in the work queue
    timer,     \* the queue will add it after a delay
    w,         \* the worker: where it is in Reconcile, and its locals
    edits,
    sent       \* history: the last attempt to notify, as the world saw it

clusterVars == <<api, stream>>
queueVars   == <<queued, timer>>
vars == <<clusterVars, cache, plan, queueVars, w, edits, sent>>

Reason == {"None", "InvalidSpec", "PlanNotFound", "NoChange", "Cooldown",
           "NoChannelsConfigured", "DryRun", "DeliveryFailed", "Delivered"}
Age == 0 .. MaxAge
\* observed: the condition's observedGeneration is the object's generation.
Object == [exists : BOOLEAN, spec : Specs, sentAge : Age, lastHash : Hashes \cup {""},
           reason : Reason, observed : BOOLEAN]

NewObject(s) == [exists |-> TRUE, spec |-> s, sentAge |-> MaxAge, lastHash |-> "",
                 reason |-> "None", observed |-> FALSE]

Absent == [exists |-> FALSE, spec |-> CHOOSE s \in Specs : TRUE, sentAge |-> MaxAge,
           lastHash |-> "", reason |-> "None", observed |-> FALSE]

\* current: nobody has written the object since the version in obj; attempt:
\* this round sends; age: since the round's time.Now(); todo: channels still to
\* send to.
Idle == [pc |-> "idle", obj |-> Absent, current |-> FALSE, hash |-> "", attempt |-> FALSE,
         age |-> 0, todo |-> {}, failed |-> FALSE]

NeverSent == [age |-> MaxAge, hash |-> NoHash, recorded |-> TRUE, failed |-> FALSE]

Init ==
    /\ api \in {NewObject(s) : s \in Specs} \cup {Absent}
    /\ stream = <<>> /\ cache = api
    /\ plan \in Hashes \cup {"", NoPlan}
    /\ queued = api.exists /\ timer = FALSE
    /\ w = Idle
    /\ edits = 0
    /\ sent = NeverSent

-----------------------------------------------------------------------------
\* The API server, the watch and the users.

\* A write makes a new version; every copy read before is now outdated.
Write(o) ==
    /\ Len(stream) < MaxLag
    /\ api' = o
    /\ stream' = Append(stream, o)

UserWrite(o) ==
    /\ edits < MaxEdits
    /\ edits' = edits + 1
    /\ Write(o)
    /\ w' = [w EXCEPT !.current = FALSE]
    /\ UNCHANGED <<cache, plan, queueVars>>

CreateObject(s) ==
    /\ ~api.exists
    /\ UserWrite(NewObject(s))
    /\ sent' = NeverSent

EditSpec(s) ==
    /\ api.exists
    /\ s # api.spec
    /\ UserWrite([api EXCEPT !.spec = s, !.observed = FALSE])
    /\ UNCHANGED sent

DeleteObject ==
    /\ api.exists
    /\ UserWrite(Absent)
    /\ UNCHANGED sent

\* The watch delivers a version to the cache, and the event queues the key.
Deliver ==
    /\ stream # <<>>
    /\ cache' = Head(stream)
    /\ stream' = Tail(stream)
    /\ queued' = TRUE
    /\ UNCHANGED <<api, plan, timer, w, edits, sent>>

\* The plan reconciler publishes another risk snapshot, or the plan goes.
\* The notification controller does not watch plans.
PlanChanges(p) ==
    /\ p # plan
    /\ plan' = p
    /\ UNCHANGED <<clusterVars, cache, queueVars, w, edits, sent>>

TimerFires ==
    /\ timer
    /\ timer' = FALSE
    /\ queued' = TRUE
    /\ UNCHANGED <<clusterVars, cache, plan, w, edits, sent>>

Older(a) == IF a < MaxAge THEN a + 1 ELSE a
Aged(o) == [o EXCEPT !.sentAge = Older(@)]

Tick ==
    /\ api' = Aged(api)
    /\ stream' = [i \in 1 .. Len(stream) |-> Aged(stream[i])]
    /\ cache' = Aged(cache)
    /\ w' = [w EXCEPT !.obj = Aged(@), !.age = IF w.attempt THEN Older(@) ELSE @]
    /\ sent' = [sent EXCEPT !.age = Older(@)]
    /\ UNCHANGED <<plan, queueVars, edits>>

\* The process dies and starts again with a fresh cache.
Restart ==
    /\ stream' = <<>>
    /\ cache' = api
    /\ queued' = api.exists
    /\ timer' = FALSE
    /\ w' = Idle
    /\ UNCHANGED <<api, plan, edits, sent>>

-----------------------------------------------------------------------------
\* Reconcile.

\* The worker takes the key and reads the object from the cache.
Take ==
    /\ w.pc = "idle"
    /\ queued
    /\ queued' = FALSE
    /\ UNCHANGED <<clusterVars, cache, plan, edits>>

\* A Get fails for another reason than NotFound: retried with backoff.
GetFails ==
    /\ Take
    /\ timer' = TRUE
    /\ UNCHANGED <<w, sent>>

GetNotFound ==
    /\ Take
    /\ ~cache.exists
    /\ UNCHANGED <<timer, w, sent>>

\* setNotificationCondition.
Condition(o, reason) == [o EXCEPT !.reason = reason, !.observed = TRUE]

\* A round that sends nothing and goes on to update the status.
Skip(reason) ==
    /\ w' = [Idle EXCEPT !.pc = "update", !.obj = Condition(cache, reason),
                         !.current = (stream = <<>>)]
    /\ UNCHANGED <<timer, sent>>

InvalidSpec ==
    /\ Take
    /\ cache.exists
    /\ ~cache.spec.ref
    /\ Skip("InvalidSpec")

PlanNotFound ==
    /\ Take
    /\ cache.exists
    /\ cache.spec.ref
    /\ plan = NoPlan
    /\ Skip("PlanNotFound")

\* Mutant: the branch for a missing plan does not return.
ReadyAnyway ==
    /\ Take
    /\ cache.exists
    /\ cache.spec.ref

\* The rounds that go on to the checks.
Ready ==
    /\ Take
    /\ cache.exists
    /\ cache.spec.ref
    /\ plan # NoPlan

\* Mutant: compare with the snapshot of an object that never sent anything.
UnchangedNever(o, h) == o.spec.onChangeOnly /\ h # "" /\ o.lastHash = ""

Unchanged(o, h) == o.spec.onChangeOnly /\ h # "" /\ h = o.lastHash

CooldownOf(s) == IF s.cooldown = 0 THEN DefaultCooldown ELSE s.cooldown

\* Mutant: no default.
CoolingNoDefault(o) == o.sentAge < o.spec.cooldown

Cooling(o) == o.sentAge < CooldownOf(o.spec)

SkipNoChange ==
    /\ Ready
    /\ Unchanged(cache, plan)
    /\ Skip("NoChange")

SkipCooldown ==
    /\ Ready
    /\ ~Unchanged(cache, plan)
    /\ Cooling(cache)
    /\ Skip("Cooldown")

NoChannels ==
    /\ Ready
    /\ ~Unchanged(cache, plan)
    /\ ~Cooling(cache)
    /\ cache.spec.channels = {}
    /\ Skip("NoChannelsConfigured")

\* A dry run sends nothing and is recorded as if it had.
Attempt ==
    /\ Ready
    /\ ~Unchanged(cache, plan)
    /\ ~Cooling(cache)
    /\ cache.spec.channels # {}
    /\ w' = [Idle EXCEPT !.pc = "update", !.obj = cache, !.current = (stream = <<>>),
                         !.hash = plan, !.attempt = TRUE,
                         !.todo = IF cache.spec.dryRun THEN {} ELSE cache.spec.channels]
    /\ sent' = [age |-> 0, hash |-> plan, recorded |-> FALSE, failed |-> FALSE]
    /\ UNCHANGED timer

\* Mutant: the second channel's result replaces the first's.
SendForgets(c, ok) ==
    /\ c \in w.todo
    /\ c = "email" => "slack" \notin w.todo
    /\ w' = [w EXCEPT !.todo = @ \ {c}, !.failed = ~ok]
    /\ sent' = [sent EXCEPT !.failed = @ \/ ~ok]
    /\ UNCHANGED <<clusterVars, cache, plan, queueVars, edits>>

\* sendSlack, then sendEmail; a failure is kept, and the next channel is tried.
Send(c, ok) ==
    /\ c \in w.todo
    /\ c = "email" => "slack" \notin w.todo
    /\ w' = [w EXCEPT !.todo = @ \ {c}, !.failed = @ \/ ~ok]
    /\ sent' = [sent EXCEPT !.failed = @ \/ ~ok]
    /\ UNCHANGED <<clusterVars, cache, plan, queueVars, edits>>

\* The status after an attempt, whether or not anything was delivered.
Recorded(o) ==
    [exists |-> o.exists, spec |-> o.spec, sentAge |-> w.age, lastHash |-> w.hash,
     reason |-> IF o.spec.dryRun THEN "DryRun"
                ELSE IF w.failed THEN "DeliveryFailed" ELSE "Delivered",
     observed |-> TRUE]

Updating == w.pc = "update" /\ w.todo = {}

\* Mutant: the status is forced in, whatever version was read.
UpdateStatusForced ==
    /\ Updating
    /\ api.exists
    /\ Write(IF w.attempt THEN Recorded(w.obj) ELSE w.obj)
    /\ timer' = TRUE
    /\ w' = Idle
    /\ sent' = [sent EXCEPT !.recorded = @ \/ w.attempt]
    /\ UNCHANGED <<cache, plan, queued, edits>>

\* Every round whose update went through ends with RequeueAfter 5m.
UpdateStatus ==
    /\ Updating
    /\ w.current
    /\ LET o == IF w.attempt THEN Recorded(w.obj) ELSE w.obj
       IN IF w.attempt \/ o # api THEN Write(o) ELSE UNCHANGED clusterVars
    /\ timer' = TRUE
    /\ w' = Idle
    /\ sent' = [sent EXCEPT !.recorded = @ \/ w.attempt]
    /\ UNCHANGED <<cache, plan, queued, edits>>

\* Mutant: the error is dropped, and the key with it.
UpdateFailsGivesUp ==
    /\ Updating
    /\ w' = Idle
    /\ UNCHANGED <<clusterVars, cache, plan, queueVars, edits, sent>>

\* A conflict, the object is gone, or the API server fails.  The error is
\* ignored or returned; the key comes back either way.
UpdateFails ==
    /\ Updating
    /\ timer' = TRUE
    /\ w' = Idle
    /\ UNCHANGED <<clusterVars, cache, plan, queued, edits, sent>>

-----------------------------------------------------------------------------
UserStep ==
    \/ \E s \in Specs : CreateObject(s) \/ EditSpec(s)
    \/ DeleteObject

TakeStep ==
    \/ GetNotFound \/ InvalidSpec \/ PlanNotFound \/ SkipNoChange \/ SkipCooldown
    \/ NoChannels \/ Attempt

Next ==
    \/ UserStep
    \/ Deliver
    \/ \E p \in Hashes \cup {"", NoPlan} : PlanChanges(p)
    \/ TimerFires
    \/ Tick
    \/ Restart
    \/ GetFails
    \/ TakeStep
    \/ \E c \in Channel, ok \in BOOLEAN : Send(c, ok)
    \/ UpdateStatus
    \/ UpdateFails

Spec == Init /\ [][Next]_vars

\* The goroutines run and time passes; the watch delivers; a post to Slack ends
\* within the client's timeout (smtp.SendMail has none, so nothing is assumed
\* of mail); a cached read, and a status update of the newest version, do not
\* fail forever; the process does not crash forever.
Fairness ==
    /\ WF_vars(Deliver) /\ WF_vars(TimerFires) /\ WF_vars(Tick)
    /\ SF_vars(TakeStep)
    /\ WF_vars(\E ok \in BOOLEAN : Send("slack", ok))
    /\ WF_vars(UpdateStatus \/ UpdateFails) /\ SF_vars(UpdateStatus)
    /\ <>[][~Restart]_vars

FairSpec == Spec /\ Fairness

-----------------------------------------------------------------------------
Worker == [pc : {"idle", "update"}, obj : Object, current : BOOLEAN,
           hash : Hashes \cup {""}, attempt : BOOLEAN, age : Age,
           todo : SUBSET Channel, failed : BOOLEAN]
Sent == [age : Age, hash : Hashes \cup {"", NoHash}, recorded : BOOLEAN,
         failed : BOOLEAN]

TypeOK ==
    /\ api \in Object /\ cache \in Object
    /\ stream \in Seq(Object) /\ Len(stream) <= MaxLag
    /\ plan \in Hashes \cup {"", NoPlan}
    /\ queued \in BOOLEAN /\ timer \in BOOLEAN
    /\ w \in Worker
    /\ edits \in 0 .. MaxEdits
    /\ sent \in Sent

\* A round starts sending.
Attempting == ~w.attempt /\ w'.attempt

\* The worker sees everything that was sent: the last attempt reached the
\* status, and the cache has it.
Informed == sent.recorded /\ stream = <<>>

\* "Cooldown is the minimum time between notifications", as far as the design
\* can keep it: an attempt within the cooldown of the last one, through
\* edits, deletions and failed updates, happens only when the last attempt's
\* status was lost or the cache does not have it yet.
CooldownWhenInformed ==
    [][Attempting /\ Informed => sent.age >= CooldownOf(w'.obj.spec)]_vars

\* "OnChangeOnly sends notifications only when risk snapshot hash changes",
\* likewise, for a plan that has risks at all.
ChangeWhenInformed ==
    [][Attempting /\ Informed /\ w'.obj.spec.onChangeOnly /\ w'.hash # ""
        => w'.hash # sent.hash]_vars

\* Status().Update with the version that was read: what the status says of
\* the last notification is never replaced by something older, whoever wrote
\* the object between the read and the update, two sends later.
SentTimeNeverGoesBack ==
    [][api.exists /\ api'.exists => api'.sentAge <= api.sentAge \/ api' = Aged(api)]_vars

\* The Delivered condition is true of the attempt that is on record: no
\* channel of it failed.
DeliveredTruthful ==
    api.reason = "Delivered" /\ sent.recorded => ~sent.failed

\* A risk snapshot that stays gets reported: once the object is one that can
\* be sent, its status ends up with the plan's hash, through crashes, edits,
\* conflicts and cooldowns.
SnapshotReported ==
    \A h \in Hashes :
        <>[](plan = h /\ api.exists /\ api.spec.ref /\ api.spec.channels # {})
            => <>[](api.lastHash = h)

\* A missing plan ends up in the status, although the errors of that update
\* are ignored.
MissingPlanReported ==
    <>[](plan = NoPlan /\ api.exists /\ api.spec.ref) => <>[](api.reason = "PlanNotFound")

\* The worker waits for smtp.SendMail.
Mailing == "email" \in w.todo /\ "slack" \notin w.todo

\* Whatever stays, a snapshot of the plan or its absence, ends up in the
\* status, unless a mail server keeps the worker in smtp.SendMail for ever:
\* nothing else that fails, hangs or comes in between stops the reports.
OutcomeReported == <>[]Mailing \/ (SnapshotReported /\ MissingPlanReported)
=============================================================================
