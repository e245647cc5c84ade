---------------------------- MODULE Integration ----------------------------
(***************************************************************************)
(* internal/cirunner/integration.go, with the waits, applies and port      *)
(* forwards it uses: the run of "ci-runner integration" against a cluster  *)
(* that may be new or may still hold what an earlier run left.             *)
(*                                                                         *)
(* A stage is a sequence of steps.  A step names what it does; its effect  *)
(* is in the action for its kind.  A step may always fail: a command or a  *)
(* request returns an error, a wait times out.  The cluster is modelled    *)
(* where the checks depend on it: the manager's Deployment, the plan's     *)
(* status and Alertmanager's counters.                                     *)
(***************************************************************************)
EXTENDS Integers, Sequences, FiniteSets, SequencesExt

CONSTANTS
    Configs,          \* values of Config
    MaxPullAttempts,  \* maxPullAttempts
    MaxUpdates,       \* steps of retry.DefaultRetry
    TrendObserve,     \* TrendObserveSeconds
    DefaultInterval,  \* of snapshots, 60 seconds
    MinSnapshots,     \* MinTrendSnapshots
    MinGrowing,       \* MinGrowingPVCs
    CIWorkloads,      \* CIWorkloads
    Leftovers,        \* what earlier runs may leave at Alertmanager and the receiver
    MaxReconciles,    \* bound: reconciles of the plan
    MaxSent           \* bound: labels tried, with the notifications of one

\* What the checks depend on: ValidationSoftFail, LLMEnabled with LLMProvider,
\* LLMSoftFail, LLMTimeoutHardFail, AlertmanagerExpectedIntegration and
\* UsageSnapshotInterval.
Config == [softFail : BOOLEAN, llm : {"off", "ollama", "unsupported"}, llmSoft : BOOLEAN,
           llmHard : BOOLEAN, integration : {"webhook", "other"}, interval : Int]

\* The labels of a counter: the expected receiver and integration, that receiver with
\* another integration, another receiver with an integration of that prefix, neither.
Labels == {"exact", "receiver", "prefix", "other"}
Counter == [total : Nat, failed : Nat]
Leftover == [counters : [Labels -> Counter], bad : BOOLEAN, holds : SUBSET CIWorkloads]

ASSUME ConfigAssumption ==
    /\ Configs \subseteq Config
    /\ Leftovers \subseteq Leftover
    /\ \A o \in Leftovers : \A l \in Labels : o.counters[l].failed <= o.counters[l].total
    /\ {MaxPullAttempts, MaxUpdates, TrendObserve, DefaultInterval} \subseteq Nat \ {0}
    /\ {MinSnapshots, MinGrowing} \subseteq Int

VARIABLES
    cfg,
    run,       \* the step it is at, its tries, the phase, warnings and result
    checks,    \* the check... fields of integrationState
    pf,        \* the port forwards
    seen,      \* what the runner has learned: trends, alerts, times, deliveries
    report,    \* the rendered report
    dep,       \* the manager's Deployment and its pods
    copy,      \* the runner's copy of it: none, current or stale
    plan,      \* the plan's lastReconcileTime, and whether it is that of the applied spec
    sent       \* Alertmanager's counters, the receiver's records and their history

cluster == <<dep, copy, plan, sent>>
ivars == <<cfg, run, checks, pf, seen, report, cluster>>

Checks == {"context", "promEndpoint", "managerRollout", "planReconcile", "trendSignal",
           "growthCompare", "promRule", "managerMetrics", "llmInsights", "promAlerts",
           "workloadAlerts", "alertmanager"}
Forwards == {"prometheus", "llm", "manager", "alertmanager", "receiver"}
Templates == {"manifest", "configured"}

llmEnabled == cfg.llm # "off"
webhook == cfg.integration = "webhook"

\* The steps of a function, as kind and name.
Calls(names) == [i \in DOMAIN names |-> <<"call", names[i]>>]
Waits(names) == [i \in DOMAIN names |-> <<"wait", names[i]>>]
Passed(check) == <<<<"pass", check>>>>

waitForKubeSystemBootstrap == Waits(<<"kube-system">>)
waitForCRDsEstablished == Waits(<<"CRDs">>)
waitForStatefulSetRollout == Waits(<<"stateful sets">>)
waitForPVCsBound == Waits(<<"bound">>)
waitForPodsScheduled == Waits(<<"scheduled">>)

installKubePrometheusStack == Calls(<<"helm">>)
ApplyAlertReceiverManifests == Calls(<<"receiver manifests">>)
ApplyLLMManifests == Calls(<<"llm manifests">>)

startPrometheusPortForward == <<<<"forward", "prometheus">>>> \o Waits(<<"prometheus">>)
startManagerMetricsPortForward ==
    Calls(<<"manager pod">>) \o <<<<"forward", "manager">>>> \o Waits(<<"metrics">>)
startAlertmanagerPortForward == <<<<"forward", "alertmanager">>>> \o Waits(<<"alertmanager">>)
startAlertReceiverPortForward ==
    Calls(<<"receiver pod">>) \o <<<<"forward", "receiver">>>> \o Waits(<<"/healthz">>)

\* selectProvisioningNode to prepareDedicatedPVCBackends.
dedicatePVCBackends ==
    Calls(<<"annotate">>) \o waitForPVCsBound \o Calls(<<"mount">>)

verifyAlerts ==
    <<<<"seen", "alerts">>>> \o Passed("promAlerts") \o <<<<"poll", "workload alerts">>>>
    \o Calls(<<"each workload">>) \o Passed("workloadAlerts")
    \o <<<<"poll", "alertmanager">>, <<"wait", "route">>, <<"deliver", "receiver">>>>
    \o Calls(<<"alertDetails">>) \o Passed("alertmanager")

\* The stages.
Stage(name, steps) ==
    [i \in DOMAIN steps |-> [stage |-> name, kind |-> steps[i][1], what |-> steps[i][2]]]

validateContext == Stage("context", Calls(<<"context">>) \o Passed("context"))

setupMonitoring == Stage("monitoring",
    waitForKubeSystemBootstrap \o installKubePrometheusStack \o ApplyAlertReceiverManifests
    \o Waits(<<"receiver">>) \o waitForCRDsEstablished \o Waits(<<"prometheus operator">>)
    \o waitForStatefulSetRollout \o startPrometheusPortForward \o Passed("promEndpoint"))

deployOperator == Stage("operator",
    Calls(<<"CRDs">>) \o <<<<"apply", "manager">>>> \o Calls(<<"find manager">>)
    \o <<<<"ensure", "manager">>, <<"wait", "manager">>>> \o Passed("managerRollout"))

deployLLMBackend(c) == Stage("llm",
    CASE c.llm = "off" -> <<<<"skip", "llmInsights">>>>
      [] c.llm = "unsupported" -> <<<<"refuse", "provider">>>>
      [] c.llm = "ollama" ->
           ApplyLLMManifests \o Waits(<<"llm">>) \o Calls(<<"llm pod">>)
           \o <<<<"forward", "llm">>, <<"wait", "/api/tags">>, <<"pull", "model">>, <<"wait", "model">>>>
           \o Calls(<<"smoke prompts">>))

deployWorkloadAndPlan(c) == deployLLMBackend(c) \o Stage("workload",
    Calls(<<"storage">>) \o dedicatePVCBackends \o Calls(<<"pods">>) \o waitForPodsScheduled
    \o <<<<"plan", "apply">>, <<"wait", "plan">>>> \o Passed("planReconcile"))

runTrendAndPolicyChecks == Stage("trend",
    <<<<"try", "series">>, <<"observe", "trend">>, <<"compare", "growth">>, <<"conditions", "plan">>>>
    \o Calls(<<"rule content">>) \o Passed("promRule")
    \o startManagerMetricsPortForward \o Passed("managerMetrics") \o <<<<"insights", "llm">>>>)

verifyAlertPipeline(c) == Stage("alerts",
    startAlertmanagerPortForward
    \o (IF c.integration = "webhook" THEN startAlertReceiverPortForward ELSE <<>>)
    \o verifyAlerts)

Run == [c \in Configs |->
           validateContext \o setupMonitoring \o deployOperator \o deployWorkloadAndPlan(c)
           \o runTrendAndPolicyChecks \o verifyAlertPipeline(c)]

-----------------------------------------------------------------------------
NoObservation == [remaining |-> 0, snapshots |-> 0, growing |-> 0, nonzero |-> FALSE]
NoPods == [t \in Templates |-> "none"]
NoDeployment ==
    [generation |-> 0, template |-> "manifest", pods |-> NoPods, observed |-> 0,
     updated |-> 0, available |-> 0, unavailable |-> 0, set |-> FALSE, served |-> FALSE]
EarlierDeployment ==
    [generation |-> 1, template |-> "configured",
     pods |-> [NoPods EXCEPT !["configured"] = "available"], observed |-> 1,
     updated |-> 1, available |-> 1, unavailable |-> 0, set |-> FALSE, served |-> FALSE]

NoCounters == [l \in Labels |-> [total |-> 0, failed |-> 0]]
NoLeftover == [counters |-> NoCounters, bad |-> FALSE, holds |-> {}]

\* The counters; whether a record cannot be decoded or names another receiver; the
\* workloads whose alerts are on record.  History: the labels tried and the workloads
\* recorded in this run, and those that are left of earlier ones.
Delivery(o) ==
    [counters |-> o.counters, bad |-> o.bad, holds |-> o.holds, tried |-> {}, reached |-> {},
     counted |-> {l \in Labels : o.counters[l].total > 0}, held |-> o.holds]

\* The cluster is new, or an earlier run got as far as its plan, and perhaps further.
IntegrationInit ==
    /\ cfg \in Configs
    /\ run = [at |-> 1, tries |-> 0, phase |-> "running", warnings |-> {}, result |-> "none"]
    /\ checks = [c \in Checks |-> "pending"]
    /\ pf = [f \in Forwards |-> "none"]
    /\ seen = [obs |-> NoObservation, alerts |-> FALSE, first |-> 0, delivery |-> "none"]
    /\ report = [checks |-> checks, alertmanager |-> "none"]
    /\ \E earlier \in BOOLEAN :
         /\ dep = IF earlier THEN EarlierDeployment ELSE NoDeployment
         /\ plan = [time |-> IF earlier THEN 1 ELSE 0, ours |-> FALSE]
         /\ \E o \in IF earlier THEN Leftovers ELSE {NoLeftover} : sent = Delivery(o)
    /\ copy = "none"

-----------------------------------------------------------------------------
\* How a step ends.
Left == run.at <= Len(Run[cfg])
Step == Run[cfg][run.at]
What == Step.what
InStage == Step.stage
At(kind) == run.phase = "running" /\ Left /\ Step.kind = kind

Advance == run' = [run EXCEPT !.at = @ + 1, !.tries = 0]
TryAgain == run' = [run EXCEPT !.tries = @ + 1]
EndStage ==
    [run EXCEPT !.at = @ + Cardinality({i \in run.at .. Len(Run[cfg]) : Run[cfg][i].stage = InStage}),
                !.tries = 0]

shouldHardFailLLMError(err) == IF err = "timeout" THEN cfg.llmHard ELSE ~cfg.llmSoft

\* Mutant: an error of any stage may be a warning.
ErrorSoftly(err) ==
    IF cfg.softFail
    THEN run' = [EndStage EXCEPT !.warnings = @ \cup {InStage}] /\ UNCHANGED checks
    ELSE /\ run' = [run EXCEPT !.tries = 0, !.phase = "reporting", !.result = "failed"]
         /\ UNCHANGED checks

\* An error of the LLM's backend and, with ValidationSoftFail, one of the last two
\* stages is a warning that ends the stage; any other ends the run.
Error(err) ==
    CASE InStage = "llm" /\ ~shouldHardFailLLMError(err) ->
           run' = EndStage /\ checks' = [checks EXCEPT !["llmInsights"] = "warn"]
      [] InStage \in {"trend", "alerts"} /\ cfg.softFail ->
           run' = [EndStage EXCEPT !.warnings = @ \cup {InStage}] /\ UNCHANGED checks
      [] OTHER ->
           /\ run' = [run EXCEPT !.tries = 0, !.phase = "reporting",
                                 !.result = "failed"]
           /\ UNCHANGED checks

Succeeds == Advance /\ UNCHANGED <<cfg, checks, pf, seen, report, cluster>>
Fails(err) == Error(err) /\ UNCHANGED <<cfg, pf, seen, report, cluster>>
Mark(check, value) ==
    Advance /\ checks' = [checks EXCEPT ![check] = value] /\ UNCHANGED <<cfg, pf, report, cluster>>

Call == At("call") /\ (Succeeds \/ \E err \in {"other", "timeout"} : Fails(err))

\* Mutant: the status of an older generation will do.
waitForDeploymentRolloutStale ==
    dep.generation > 0 /\ dep.updated >= 1 /\ dep.available >= 1 /\ dep.unavailable = 0

\* Of one replica.
waitForDeploymentRollout ==
    /\ dep.generation > 0 /\ dep.observed >= dep.generation
    /\ dep.updated >= 1 /\ dep.available >= 1 /\ dep.unavailable = 0

waitForCapacityPlanReconcile == plan.time > 0

\* waitUntil: a poll that fails counts as one that is not satisfied; running out of
\* time is an error, and not one that isTimeoutErr recognises.
waitUntil ==
    /\ At("wait")
    /\ \/ /\ What = "manager" => waitForDeploymentRollout
          /\ What = "plan" => waitForCapacityPlanReconcile
          /\ seen' = IF What = "plan" THEN [seen EXCEPT !.first = plan.time] ELSE seen
          /\ Advance
          /\ UNCHANGED <<cfg, checks, pf, report, cluster>>
       \/ Fails("other")

\* civerify.WaitUntil: a query that fails ends the wait as well; callers report both
\* as a timeout.
WaitUntil == At("poll") /\ (Succeeds \/ Fails("other"))

\* waitForOperatorPVCMetricsSeries: its error is only printed.
waitForSeries == At("try") /\ Succeeds

\* Nothing looks at the Deployment after its rollout: its state is dropped there.
Pass ==
    /\ At("pass") /\ Advance
    /\ checks' = [checks EXCEPT ![What] = "pass"]
    /\ dep' = IF What = "managerRollout" THEN [NoDeployment EXCEPT !.served = dep.served] ELSE dep
    /\ UNCHANGED <<cfg, pf, seen, report, copy, plan, sent>>

\* The LLM is off, or is none that the runner can deploy.
SkipLLM == At("skip") /\ Mark(What, "skipped") /\ UNCHANGED seen
Refuse == At("refuse") /\ Fails("other")

\* The session is kept, and then becomes ready or not.
OpenForward ==
    /\ At("forward")
    /\ pf' = [pf EXCEPT ![What] = "open"]
    /\ (Advance /\ UNCHANGED checks) \/ Error("other")
    /\ UNCHANGED <<cfg, seen, report, cluster>>

OpenForwardFails == At("forward") /\ Fails("other")

-----------------------------------------------------------------------------
\* The manager's Deployment.  History: this run has set the configured template, and a
\* pod of it was available then or later; it may be the pod of an earlier run.
SetTemplate(t) ==
    dep' = [dep EXCEPT !.generation = IF @ = 0 \/ dep.template # t THEN @ + 1 ELSE @,
                       !.template = t,
                       !.set = @ \/ t = "configured",
                       !.served = @ \/ (t = "configured" /\ dep.pods[t] = "available")]

\* applyObject: get, then create or update.
ApplyOperatorManifests ==
    /\ At("apply")
    /\ \/ /\ SetTemplate("manifest") /\ Advance
          /\ UNCHANGED <<cfg, checks, pf, seen, report, copy, plan, sent>>
       \/ Fails("other")

\* ensureManagerDeployment: get and update, once more when the update conflicts.
GetDeployment ==
    /\ At("ensure") /\ copy = "none"
    /\ \/ copy' = "current" /\ UNCHANGED <<cfg, run, checks, pf, seen, report, dep, plan, sent>>
       \/ Fails("other")

UpdateDeployment ==
    /\ At("ensure") /\ copy = "current"
    /\ copy' = "none"
    /\ \/ SetTemplate("configured") /\ Advance /\ UNCHANGED checks
       \/ Error("other") /\ UNCHANGED dep
    /\ UNCHANGED <<cfg, pf, seen, report, plan, sent>>

UpdateConflicts ==
    /\ At("ensure") /\ copy = "stale"
    /\ copy' = "none"
    /\ IF run.tries + 1 < MaxUpdates THEN TryAgain /\ UNCHANGED checks ELSE Error("other")
    /\ UNCHANGED <<cfg, pf, seen, report, dep, plan, sent>>

ApplyCapacityPlan ==
    /\ At("plan")
    /\ \/ /\ plan' = [plan EXCEPT !.ours = FALSE] /\ Advance
          /\ UNCHANGED <<cfg, checks, pf, seen, report, dep, copy, sent>>
       \/ Fails("other")

\* Up to three attempts to pull the model, while the error is one that may go away;
\* a timeout is.
PullModel ==
    /\ At("pull")
    /\ \/ Succeeds
       \/ /\ run.tries + 1 < MaxPullAttempts /\ TryAgain
          /\ UNCHANGED <<cfg, checks, pf, seen, report, cluster>>
       \/ Fails("other")
       \/ run.tries + 1 = MaxPullAttempts /\ Fails("timeout")

-----------------------------------------------------------------------------
\* runTrendAndPolicyChecks.

trendIntervalSeconds(remaining) ==
    LET interval == IF cfg.interval <= 0 THEN DefaultInterval ELSE cfg.interval
    IN  IF interval > remaining THEN remaining ELSE interval

newTrendObservation ==
    [NoObservation EXCEPT !.remaining = IF TrendObserve <= 0 THEN 1 ELSE TrendObserve]

Confirmed(o) == o.nonzero /\ o.growing >= MinGrowing

\* late: MinTrendObserveSeconds have passed.
shouldStopTrendObservation(o, late) == o.snapshots >= MinSnapshots /\ late /\ Confirmed(o)

\* observeTrends: snapshots until the time is over, or enough of them confirm the
\* trend.
captureTrendSnapshot ==
    /\ At("observe")
    /\ \E growing \in 0 .. MinGrowing, nonzero \in BOOLEAN, alerts \in BOOLEAN, late \in BOOLEAN :
         LET o == IF seen.obs = NoObservation THEN newTrendObservation ELSE seen.obs
             n == [remaining |-> o.remaining - trendIntervalSeconds(o.remaining),
                   snapshots |-> o.snapshots + 1,
                   growing |-> IF growing > o.growing THEN growing ELSE o.growing,
                   nonzero |-> o.nonzero \/ nonzero]
             over == n.remaining = 0 \/ shouldStopTrendObservation(n, late)
         IN  /\ seen' = [seen EXCEPT !.alerts = @ \/ alerts,
                                     !.obs = IF over THEN NoObservation ELSE n]
             /\ CASE ~over -> UNCHANGED <<cfg, run, checks, pf, report, cluster>>
                  [] over /\ Confirmed(n) -> Mark("trendSignal", "pass")
                  [] over /\ ~Confirmed(n) -> Error("other") /\ UNCHANGED <<cfg, pf, report, cluster>>

\* The plan cannot be read, or has an impossible ratio.
SnapshotFails ==
    /\ At("observe")
    /\ \E alerts \in BOOLEAN : seen' = [seen EXCEPT !.alerts = @ \/ alerts, !.obs = NoObservation]
    /\ Error("other")
    /\ UNCHANGED <<cfg, pf, report, cluster>>

\* compareGrowthCalculations: once more, with a wider window, when most of the rates
\* of Prometheus are zero.
compareGrowthCalculations ==
    /\ At("compare")
    /\ \/ Mark("growthCompare", "pass") /\ UNCHANGED seen
       \/ run.tries = 0 /\ TryAgain /\ UNCHANGED <<cfg, checks, pf, seen, report, cluster>>
       \/ Fails("other")

validateCapacityPlanConditions == plan.time > 0 /\ plan.time # seen.first

checkCapacityPlanPostConditions ==
    /\ At("conditions")
    /\ (validateCapacityPlanConditions /\ Succeeds) \/ Fails("other")

\* verifyLLMInsights and what becomes of its error.
InsightsError(err) ==
    IF shouldHardFailLLMError(err) THEN Error(err) /\ UNCHANGED <<cfg, pf, report, cluster>>
    ELSE Mark("llmInsights", "warn")

InsightsPresent ==
    /\ At("insights")
    /\ Mark("llmInsights", IF llmEnabled THEN "pass" ELSE "skipped")
    /\ UNCHANGED seen

\* The model timed out, by the operator's metrics, or it did not.
InsightsMissing ==
    /\ At("insights") /\ llmEnabled
    /\ \E timeouts \in BOOLEAN :
         IF (timeouts /\ cfg.llmHard) \/ ~cfg.llmSoft THEN InsightsError("other")
         ELSE Mark("llmInsights", "warn")
    /\ UNCHANGED seen

InsightsUnread ==
    /\ At("insights") /\ llmEnabled
    /\ \E err \in {"other", "timeout"} : InsightsError(err)
    /\ UNCHANGED seen

-----------------------------------------------------------------------------
\* verifyAlerts: alerts seen during the trend observation are not waited for.
PrometheusHasCapacityAlerts == At("seen") /\ (Succeeds \/ (~seen.alerts /\ Fails("other")))

\* The counters of the expected receiver and integration or, while there are none, of
\* the receiver, of the integrations with that prefix, of all.
resolveAlertmanagerNotificationCounters ==
    LET c == sent.counters
        Plus(a, b) == [total |-> a.total + b.total, failed |-> a.failed + b.failed]
        Some(a) == a.total > 0 \/ a.failed > 0
        ofReceiver == Plus(c["exact"], c["receiver"])
        ofPrefix == Plus(c["exact"], c["prefix"])
    IN  IF Some(c["exact"]) THEN [sum |-> c["exact"], basis |-> "exact"]
        ELSE IF Some(ofReceiver) THEN [sum |-> ofReceiver, basis |-> "receiver_only"]
        ELSE IF Some(ofPrefix) THEN [sum |-> ofPrefix, basis |-> "integration_prefix"]
        ELSE [sum |-> Plus(ofReceiver, Plus(c["prefix"], c["other"])), basis |-> "any"]

deliveredByMetrics(m) == m.total > 0 /\ m.failed = 0

\* All records are decoded and are the expected receiver's, and every workload is in
\* one of them.
deliveredByPayload == webhook /\ ~sent.bad /\ CIWorkloads \subseteq sent.holds

Delivered ==
    /\ At("deliver")
    /\ LET m == resolveAlertmanagerNotificationCounters
       IN  \/ deliveredByMetrics(m.sum) /\ seen' = [seen EXCEPT !.delivery = m.basis]
           \/ deliveredByPayload /\ seen' = [seen EXCEPT !.delivery = "payload"]
    /\ Advance
    /\ UNCHANGED <<cfg, checks, pf, report, cluster>>

NotDelivered == At("deliver") /\ Fails("other")

-----------------------------------------------------------------------------
\* The end of Run, and its deferred calls.
Finish ==
    /\ run.phase = "running" /\ ~Left
    /\ run' = [run EXCEPT !.phase = "reporting",
                          !.result = IF run.warnings = {} THEN "passed" ELSE "warned"]
    /\ UNCHANGED <<cfg, checks, pf, seen, report, cluster>>

\* The report asks Alertmanager for its alerts, through the forward.
printAlertmanagerInsights(forwards) == forwards["alertmanager"]

renderValidationReport ==
    /\ run.phase = "reporting"
    /\ run' = [run EXCEPT !.phase = "closing"]
    /\ report' = [checks |-> checks, alertmanager |-> printAlertmanagerInsights(pf)]
    /\ UNCHANGED <<cfg, checks, pf, seen, cluster>>

closePortForwards ==
    /\ run.phase = "closing"
    /\ run' = [run EXCEPT !.phase = "ended"]
    /\ pf' = [f \in Forwards |-> IF pf[f] = "open" THEN "closed" ELSE pf[f]]
    /\ UNCHANGED <<cfg, checks, seen, report, cluster>>

Runner ==
    \/ Call \/ waitUntil \/ WaitUntil \/ waitForSeries \/ Pass \/ SkipLLM \/ Refuse
    \/ OpenForward \/ OpenForwardFails
    \/ ApplyOperatorManifests \/ GetDeployment \/ UpdateDeployment \/ UpdateConflicts
    \/ ApplyCapacityPlan \/ PullModel
    \/ captureTrendSnapshot \/ SnapshotFails \/ compareGrowthCalculations
    \/ checkCapacityPlanPostConditions
    \/ InsightsPresent \/ InsightsMissing \/ InsightsUnread
    \/ PrometheusHasCapacityAlerts \/ Delivered \/ NotDelivered
    \/ Finish \/ renderValidationReport \/ closePortForwards

-----------------------------------------------------------------------------
\* The cluster.  It is followed only while the runner is at a step that depends on it.
Rolling == dep.generation > 0 /\ (At("ensure") \/ (At("wait") /\ What = "manager"))
Watched == At("conditions") \/ (At("wait") /\ What = "plan")

\* The Deployment controller replaces pods and writes the status.
ScaleDeployment ==
    /\ Rolling
    /\ dep' = IF dep.pods[dep.template] = "available"
              THEN [dep EXCEPT !.pods = [NoPods EXCEPT ![dep.template] = "available"]]
              ELSE [dep EXCEPT !.pods[dep.template] = "starting"]
    /\ dep' # dep
    /\ UNCHANGED <<cfg, run, checks, pf, seen, report, copy, plan, sent>>

PodChanges(t) ==
    /\ Rolling
    /\ \/ dep.pods[t] = "starting" /\ dep' = [dep EXCEPT !.pods[t] = "available", 
                                               !.served = @ \/ (dep.set /\ t = "configured")]
       \/ dep.pods[t] = "available" /\ dep' = [dep EXCEPT !.pods[t] = "starting"]
    /\ UNCHANGED <<cfg, run, checks, pf, seen, report, copy, plan, sent>>

SyncDeployment ==
    /\ Rolling
    /\ LET has(t) == IF dep.pods[t] = "none" THEN 0 ELSE 1
           up(t) == IF dep.pods[t] = "available" THEN 1 ELSE 0
           all == has("manifest") + has("configured")
           available == up("manifest") + up("configured")
       IN  dep' = [dep EXCEPT !.observed = dep.generation, !.updated = has(dep.template),
                              !.available = available, !.unavailable = all - available]
    /\ dep' # dep
    /\ copy' = IF copy = "current" THEN "stale" ELSE copy
    /\ UNCHANGED <<cfg, run, checks, pf, seen, report, plan, sent>>

\* The operator reconciles the plan; an update from an older copy would be refused.
PlanReconciled ==
    /\ Watched /\ plan.time < MaxReconciles
    /\ plan' = [time |-> plan.time + 1, ours |-> TRUE]
    /\ UNCHANGED <<cfg, run, checks, pf, seen, report, dep, copy, sent>>

\* Alertmanager counts a notification when it starts, and a failure when it gives up.
Notify(l) ==
    /\ At("deliver") /\ Cardinality(sent.tried) + sent.counters[l].total < MaxSent
    /\ sent' = [sent EXCEPT !.counters[l].total = @ + 1, !.tried = @ \cup {l}]
    /\ UNCHANGED <<cfg, run, checks, pf, seen, report, dep, copy, plan>>

NotifyFails(l) ==
    /\ At("deliver") /\ sent.counters[l].failed < sent.counters[l].total
    /\ sent' = [sent EXCEPT !.counters[l].failed = @ + 1]
    /\ UNCHANGED <<cfg, run, checks, pf, seen, report, dep, copy, plan>>

\* A notification of the expected receiver is recorded, whether or not it is answered,
\* with the alerts of some workloads; or a record is torn, or another's.
Recorded(workloads) ==
    /\ At("deliver") /\ webhook /\ \E l \in {"exact", "receiver"} : sent.counters[l].total > 0
    /\ sent' = [sent EXCEPT !.holds = @ \cup workloads, !.reached = @ \cup workloads]
    /\ UNCHANGED <<cfg, run, checks, pf, seen, report, dep, copy, plan>>

RecordedBadly ==
    /\ At("deliver") /\ webhook /\ \E l \in Labels : sent.counters[l].total > 0
    /\ sent' = [sent EXCEPT !.bad = TRUE]
    /\ UNCHANGED <<cfg, run, checks, pf, seen, report, dep, copy, plan>>

Cluster ==
    \/ ScaleDeployment \/ SyncDeployment \/ PlanReconciled
    \/ \E t \in Templates : PodChanges(t)
    \/ \E l \in Labels : Notify(l) \/ NotifyFails(l)
    \/ \E workloads \in SUBSET CIWorkloads : Recorded(workloads)
    \/ RecordedBadly

IntegrationNext == Runner \/ Cluster

-----------------------------------------------------------------------------
\* Type invariant.
IntegrationTypeOK ==
    /\ cfg \in Configs
    /\ run.phase \in {"running", "reporting", "closing", "ended"}
    /\ run.result \in {"none", "failed", "warned", "passed"}
    /\ run.warnings \subseteq {"trend", "alerts"} /\ run.tries \in Nat
    /\ checks \in [Checks -> {"pending", "pass", "warn", "skipped"}]
    /\ pf \in [Forwards -> {"none", "open", "closed"}]
    /\ seen.obs.remaining \in 0 .. TrendObserve
    /\ seen.delivery \in {"none", "exact", "receiver_only", "integration_prefix", "any", "payload"}
    /\ copy \in {"none", "current", "stale"}
    /\ copy # "none" => At("ensure")
    /\ \A l \in Labels : sent.counters[l].failed <= sent.counters[l].total

\* The report tells the result, whichever stage failed and however softly: no check
\* is pending in the report of a run that passes, the report of any other shows a
\* check that is pending or a warning, and what must be set up before the
\* validation is never excused.
ReportTellsResult ==
    run.phase = "ended" =>
        /\ run.result = "passed" => \A c \in Checks : report.checks[c] # "pending"
        /\ run.result # "passed" => \E c \in Checks : report.checks[c] \in {"pending", "warn"}
        /\ run.result # "failed" =>
             \A c \in {"context", "promEndpoint", "managerRollout", "planReconcile"} :
                report.checks[c] = "pass"

\* Whatever fails, no forward is left open when the run ends, and the report
\* was rendered before they were closed.
ForwardsClosedLast ==
    /\ run.phase = "ended" => \A f \in Forwards : pf[f] \in {"none", "closed"}
    /\ report.alertmanager \in {"none", "open"}

\* The rollout of the manager is accepted only when a pod of the configured template
\* has been available since this run configured it, though an earlier run's Deployment
\* was available before, the manifests were applied with another template in between
\* and the status lags behind (waitForDeploymentRollout).
RolloutIsCurrent == checks["managerRollout"] = "pass" => dep.served

\* A run that passes has seen the operator reconcile the plan it applied, though
\* waitForCapacityPlanReconcile accepts a time that an earlier run left.
ReconciledSinceApply == run.result = "passed" => plan.ours

\* In strict mode missing insights, and a plan that cannot be read, fail the run.
InsightsRequired ==
    run.result = "passed" /\ llmEnabled /\ cfg.llmHard /\ ~cfg.llmSoft
        => checks["llmInsights"] = "pass"

\* A delivery is accepted despite a failure at the expected receiver only on account of
\* payloads; on account of that receiver's counters only when Alertmanager has tried to
\* notify it; on account of payloads only when every workload's alert has reached it.
\* The trials and alerts are those of this run or, the runner taking no baseline, those
\* that earlier runs left: none in a new cluster.
DeliveryIsReal ==
    checks["alertmanager"] = "pass" =>
        /\ seen.delivery # "payload" => sent.counters["exact"].failed = 0
        /\ seen.delivery \in {"exact", "receiver_only"} =>
             {"exact", "receiver"} \cap (sent.tried \cup sent.counted) # {}
        /\ seen.delivery = "payload" => CIWorkloads \subseteq sent.reached \cup sent.held
=============================================================================
