# TLA+ models of the capacity planning operator

The operator watches the PersistentVolumeClaims of a Kubernetes cluster, samples
their usage from Prometheus, fits growth rates, keeps the result in the status of
a `CapacityPlan`, asks an LLM for insights about it, and sends notifications about
the risks. This directory holds TLA+ models of its control: what the goroutines
share, in which order they touch it, and what they promise one another.

`PROJECT.json` lists components, runs, the lines each definition models, the
hazards and the theorems. `tlc -config X.cfg M` checks a run and
`tlapm M.tla` the proofs of a `*Proofs` module.

## 1. Inventory

| Part | State | Operations | Talks to |
|---|---|---|---|
| Sample ring buffer (`internal/analysis/ringbuffer.go`) | `buf`, `head`, `count` under its own mutex | `Push`, `Snapshot`, `Len`, `Reset` | the watcher pushes, the plan reconciler takes snapshots |
| PVC watcher (`internal/controller/pvcwatcher_controller.go`) | `pvcStates` per namespaced name (UID, buffer, last capacity), `retention`, the metrics client, the exported usage series; the map under `mu` | `Reconcile`, `ensureState`, `deleteState`, `Configure`, `BackfillAllPVCs` | Prometheus, the informer cache, the gauges; configured and read by the plan reconciler |
| Metrics client (`internal/metrics`) | none | `GetUsage`, `GetUsageRange` | Prometheus |
| Capacity plan reconciler (`internal/controller/capacityplan_controller.go`) | the plan's status, which is its only memory; growth series; a cache of LLM clients | activation, `Configure` of the watcher, PVC summaries, insights, risk snapshot and narrative, budgets, child resources, status update | the watcher, the API server, the LLM |
| Notification reconciler (`internal/controller/capacityplannotification_controller.go`) | its object's status (`lastSentTime`, `lastDigestHash`, reason and message) | validation, lookup of the plan, cooldown and on-change checks, Slack, e-mail, status update | the plan's status, the channels |
| FastAPI client (`internal/llm/fastapi_client.go`) | `consecutiveFails`, `degradedUntil` under `mu` | `GenerateInsight` and its kin, the health probe | the LLM service |
| LLM client cache (`capacityplan_controller.go:744-1087`) | clients by settings and version of the Secret | resolve the plan's client: fail, disable, reuse, make | the providers, Secrets |
| Other LLM providers (`internal/llm`) | none | build a request, parse an answer | HTTP APIs |
| Growth and risk analysis (`internal/analysis/growth.go`, the pure part of the plan reconciler) | none | regression, days until full, alerts, top risks, risk changes, anomalies, workloads, budgets | the plan's round |
| Published report | the plan's status, gauges, the `PrometheusRule`, the dashboard `ConfigMap` | publish, update, mark inactive | API server, Prometheus |
| Metrics registry (`internal/operator/metrics.go`) | label sets and values of the gauges | set, delete, reset | watcher, plan reconciler |
| `cmd/main.go` | wiring | backfill, then `mgr.Start` | everything |
| Alert receiver (`internal/alertreceiver`) | a file of records | append, read | Alertmanager, the CI runner |
| CI integration run (`internal/cirunner/integration.go`, `waits.go`, `apply.go`, `portforward.go`) | checks, warnings, port forwards, observations | six stages, a report, closing of forwards | a cluster, Helm, Prometheus, Alertmanager, Ollama |
| CI nightly delivery (`nightly_alert_delivery.go`) | a baseline of records | apply a rule, wait for its alert | the receiver |
| CI image import (`import_image.go`) | retries | pull, import, verify | docker, k3d |
| CI diagnostics and verification (`diagnostics.go`, `internal/civerify`) | none | collect, query, compare | the cluster |

Every controller has one worker (controller-runtime's default), so two rounds of
one controller never overlap; rounds of *different* controllers do, and they share
`pvcStates` and the gauges.

What is hard here, and hardly reached by the tests of the repository:

- the watcher's worker and the plan reconciler's `Configure` work on the same
  buffers, and the lock covers only part of that;
- a PVC can be deleted and created again under its name between two rounds, while
  everything is kept by name;
- all reads come from a cache that lags behind the API server, and all memory of
  what was sent or asked is in a status whose update may fail;
- a crash loses everything except the objects;
- timers, own status updates and error back-off each start a round, and nothing
  else does: a branch that asks for none forgets its object for ever;
- what a round reports is a difference from a report it read, which may not be the
  one that its own replaces; gauges and rules of earlier rounds stay until something
  replaces them;
- a regression may have no denominator, a projection may not fit a `time.Duration`,
  a list is cut at three entries, a log line at 8 MiB;
- the CI runner judges a cluster that an earlier run may have left behind, by
  statuses that lag, with errors that are warnings under some settings.

The properties that answer these, component by component:

- ring buffer: it is the bounded window of the newest samples; resizing loses only
  what does not fit;
- watcher: an existing PVC is polled for ever, a deleted one loses its series; no
  series outlives its state; buffers obey the retention; what was sampled for one PVC
  does not stay for its successor (the first answer for the successor may still be
  its predecessor's usage);
- plan: the plan that drives the watcher is not displaced; exactly the oldest ends
  up active; the LLM is not asked more often than the spec allows; the narrative
  catches up with the risks; the status converges to the PVCs and their usage;
- notifications: no notification within the cooldown and none for an unchanged
  snapshot, as far as the round knew; the status tells the truth about deliveries
  and never goes back in time; a snapshot that stays is reported;
- FastAPI client: failing requests are bounded whatever the callers' interleaving,
  traffic resumes only through a probe, and degraded mode ends;
- client cache: no round uses outdated settings or credentials, and no round gets
  around degraded mode by making a new client;
- report: risk changes add up from one report to the next, an escalation has a
  reason, an alert is visible, budgets are charged once, gauges say what the report
  says, status and rule converge;
- receiver and CI runner: what was answered is in every answer of `/records`, and
  `/records` answers while no write has failed and every line fits; a check that passes
  has seen what `PassMeansSeen` says of it; the report tells the result; forwards
  are closed; every command ends.

## 2. Modules

```
Windows         Newest, RecordIn: keep the newest samples
SampleWindow    abstract: a bounded window with a capacity
RingBuffer      the array, head and count, and Configure's copy  -- implements SampleWindow
PVCWatcher      the watcher, its queue, its cluster, crashes     -- uses windows
Operator        EXTENDS PVCWatcher with the plan's round         -- implements PVCWatcher
CapacityPlan    activation, insights, narrative, status update
Notification    the notification reconciler
FastAPIBreaker  degraded mode with any number of callers
LLMClients      EXTENDS FastAPIBreaker with rounds and the cache -- implements FastAPIBreaker
RiskAnalysis    operators: from samples to risks, changes, anomalies, budgets
PlanReport      EXTENDS RiskAnalysis: rounds that publish a report
Integration     the CI runner's integration command and its cluster
AlertDelivery   the alert receiver and the nightly command
ImageImport     the image import command
CIRunner        one process, one of the three commands
MC*             instances for TLC
*Proofs         theorems
```

The layering is deliberate. `RingBuffer` works with arrays and indices, and it is
shown to be a `SampleWindow`; `PVCWatcher` therefore keeps a sequence of samples
for each buffer, and pays for array slots nowhere. `Operator` composes watcher and
plan rounds and is shown to implement `PVCWatcher`, so whatever is shown of the
watcher alone holds when the plan reconciler runs beside it. In the same way
`LLMClients` implements `FastAPIBreaker`, so the theorems about one client's
degraded mode hold for the client that rounds share. `CapacityPlan` and
`PlanReport` are two views of the same round: the first has the interleaving of two
plans and the calls of the LLM, and of a report only a risk snapshot; the second has
one plan and the report.

### RingBuffer and SampleWindow

A ring is a record `[buf, head, count, capacity]`; `Push`, `Snapshot`, `Reset` and
`NewRingBuffer` are the methods, each a single step because each takes the buffer's
mutex. `Configure` allocates a buffer, takes the newest samples of the old one and
pushes them one at a time: `BeginResize`, `CopyOne`, `InstallResized`. (What the
watcher's worker does to the old buffer meanwhile is `PVCWatcher`'s subject.) The
capacities include 0, which `NewRingBuffer` clamps to 1 and `Configure` replaces by
the default. `SampleWindow` says what is promised: the newest samples, at most as
many as the retention, and a resize that drops only what does not fit.

### PVCWatcher

State: `pvc` (what the informer's cache shows), `pvcStates`, `retention`,
`exported` (label sets of the usage gauges), the work queue and the timers of the
controller, the worker `w`, a `Configure` in progress `cfg`, the phase of startup.
A sample is `[asked, uid]`: the PVC it was asked for and the PVC whose usage it is. The
two differ because queries go by namespace and name: `oldest` is the first PVC of a name
for which Prometheus still has an answer, and `SeriesExpire` is the scrape, or the end of
the lookback, after which it has none for those that are gone. A range query may return usage of any
PVC the name has had. No series at all is a sample of 0 bytes, as in `queryInstant`.

`Reconcile` is cut where another goroutine can come between: the cached read
(`GetFails`, `GetFound`, `GetNotFound`), `deleteState`'s removal of the state under
the lock and of the series after it, `ensureState`, the two queries, the load of
`state.Buffer`, the push, the gauges and the requeue. Load and push are separate,
because the code reads the field without `mu` and pushes afterwards, and `Configure`
may install another buffer between the two. `Configure` proceeds buffer by buffer.
`BackfillAllPVCs` runs before the controllers; its list fails with a client whose
cache is not started, and succeeds with one that reads the API server: both are in
the model. A crash empties everything in memory and keeps the PVCs.

### Operator

Adds the round of the plan: `Configure` with the spec's retention and metrics
client, the list of PVCs, one summary per PVC, the growth gauges, the status. The
list is taken before the summaries, and the LLM is called in between, so PVCs come
and go during a round. The summary without samples that carries over the previous
status is in the model.

### CapacityPlan

Two plans may exist. The API server's objects and the cache are separate, joined by
a stream of at most `MaxLag` undelivered versions; reads come from the cache, a
status update succeeds only for the newest version. A round reads the plan, lists
the plans, marks itself inactive or drives the watcher, asks for an insight if the
last is old enough, refreshes the narrative on a change or by age, and updates the
status. Each of these may fail the way the code lets it fail. Plans are numbered
in the order of their names, which breaks ties between equal creation times. Ages are counted up to the interval, beyond which they make no difference.

### Notification

As above with one object: the cache, the stream, the conflicts and the crash, all
branches of `Reconcile`, the channels one after another, each succeeding or failing.
`sent` is a history variable: which snapshot the last attempt was about, how long
ago it was, whether each channel failed, and whether it was recorded. The process may crash
any number of times. A post to Slack ends, since its client has a timeout; of
`smtp.SendMail`, which has none, nothing is assumed: the worker may stay in it for ever.

### FastAPIBreaker

The lock protects the counter and the deadline, and each caller acts on what it read
after releasing it. `left` is the time until `degradedUntil`, and `age` how long ago
a caller read the clock, since a failed probe sets the deadline from the time
before the probe.

### LLMClients

A round resolves its client the way `resolvePlanLLMClient` does: an unknown provider
or an unusable Secret makes the round one without insights, `disabled` too, a key that is
cached gives the old client, any other makes one. A key has all settings and
the `resourceVersion` of a Secret that is read. The variables of `FastAPIBreaker` are
those of one client, the one `Followed`, over all rounds; other clients are values.
The code makes the calls of a round one after another; the model lets
several be out at once, which the lock of the client is there for.

### RiskAnalysis and PlanReport

`RiskAnalysis` has the functions of the code under their names. A `float64` is an
exact fraction: rounding is left out, comparisons at a boundary are not. A sorted list
that is cut has at each place the element with that many ahead of it. Dates count
days from now, so the passing of a day moves every stored date. A projection longer
than a `time.Duration` (about 106,751 days) becomes its most negative value on
amd64 and its most positive on arm64: `Wraps` has the dates of the platforms considered,
and `Init` chooses one of them. Workload budgets are matched as in
`buildBudgetForecasts`: kinds are compared up to case (`Fold`), and a budget with an empty kind or
name is skipped (`Usable`).

`PlanReport` runs rounds over it. `Analyse` takes the cached plan, its PVCs and the workload
index and builds the report at once (that PVCs come and go meanwhile is
`Operator`'s subject); `Publish` sets the gauges, the rule and the dashboard, each of
the last two failing on its own. A gauge is identified by the labels that the code gives
it, the namespace or the namespace, kind and name of a workload: of two budgets with
the same labels the series shows the one that is breached last in the list. The status update is refused when the plan
was written since it was read. Volumes, owners, spec, activity, CRDs and
the answers of the provider change under it, and the process restarts, which loses
the gauges and looks for the Prometheus operator again.

### Integration, AlertDelivery, ImageImport, CIRunner

A run of `integration` is a sequence of steps per configuration (`Run`), built from
one definition per function of the code; a step has a kind, and each kind one or more
actions. Consecutive calls of one function whose order matters to nothing are one named step.
Any step may fail. `Error` has the policy for failures: what is a
warning that ends its stage, and what ends the run. The cluster is modelled where a
check depends on it: the Deployment with its generation, its lagging status and the
pods of two templates; the plan's `lastReconcileTime`; Alertmanager's counters for four
classes of labels (the expected receiver and integration, that receiver with another
integration, another receiver with an integration of that prefix, neither), which
`resolveAlertmanagerDeliveryStats` tries in this order; the records of the receiver
(whether one cannot be decoded or is another's, which workloads are in them). The
cluster is new, or an earlier run left its Deployment, its plan and one of `Leftovers`,
counters and records, since the runner takes no baseline of either. Alertmanager counts
a notification when it starts and a failure when it gives up, so its counters show trials and
not deliveries. History variables say which labels were tried and which
workloads were recorded in this run, and whether a pod of the configured template has been
available since this run configured it. That pod may be the earlier run's, when the
template is the same. Restarts of Alertmanager and of the receiver during the delivery
step, and an empty name of the expected receiver, are not modelled; the list of workloads
is not empty (`config.go:137-139`).

`AlertDelivery` keeps the receiver's log as lines of writes, so that a write that
stops half-way leaves an open line and the next is fused with it; what a torn write
leaves counts as one byte. `Records` is the scan: it fails, and `/records` answers with an
error, when a line fills the scanner's buffer; a fused line is returned as it is. The nightly run takes a baseline,
applies its rule and waits. `ImageImport` has imports that do part of
their work, nodes that come and go, and images that are dropped. `Accepted` has the
references that `nodeHasImage` takes for an image, the same name and tag of another registry
included (`import_image.go:127`); nodes may hold such `Others`. `CIRunner` is the
process: the command it was given, and the fact that it ends.

## 3. Runs

Passing runs:

| Run | What it shows | Bounds, and why they are enough |
|---|---|---|
| `ring` | indices stay in range, the copy loses and repeats nothing, the ring is a window | capacities 0 (clamped), 2, 3, 4 and two samples: wrap-around, growing, shrinking, shrinking below what is held |
| `watcher` | type invariant; nobody is forgotten; no series without state; retention; no sample asked for a deleted PVC stays for its successor | one name with three lives, one point of history, one crash, retention default or 1: every reset happens beside every stage of `Configure` and of a backfill. What is proved covers any number of names |
| `operator` | the operator implements the watcher | one name, two lives, one edit of the plan, one crash |
| `operator_live` | the status converges, polling continues, series go | one name, two lives: the status can hold the summary of the first when the second comes. Further names only compete for the worker, which fairness settles |
| `plan` | the plan that drives the watcher is not displaced; exactly the oldest plan ends up active | two plans, one change by a user after the start, one crash, the cache one version behind: enough for a plan to be deleted, created, or displaced while a round of either is at any point |
| `plan_narrative` | insights are rate-limited as far as the status was recorded and seen; the narrative catches up | one plan, two risk snapshots that change any number of times, every failure of provider and update |
| `notify` | truthfulness; cooldown, change and time order; a snapshot that stays is reported, a missing plan too | one snapshot beside the empty one and no plan, specs for every branch, a cache one version behind, an edit (or a deletion), and crashes without limit |
| `llm` | bound on failures, deadlines and probes, for the client that rounds share; settings and credentials are current; the service is used again | two callers with threshold 2, so that one overtakes the other; five specs, one for each outcome of `resolvePlanLLMClient`; two changes, so that settings and credentials can be put back |
| `risk` | the report and what is published, as above | three PVCs in two namespaces with two places on each list, so that one is displaced; seven volumes: steady, spiking, unstable, full, slow beyond a `Duration`, without samples, without capacity; two specs, with budgets whose kinds differ in case and whose labels are equal; one change or restart and one day, at any point of any round |
| `ci` | the three commands and the receiver | six configurations that reach every policy for failures; a new cluster and one with an earlier run and three kinds of leftovers; two reconciles, a first and a later one; five kinds of bodies around the two limits; two images, one with a namesake in another registry, on two nodes; a negative and a positive number of retries |

Deadlock is checked in all of them; a CI command that has ended stutters (`Stopped`).
No symmetry is used, since most runs have a liveness property.

Some properties are conjunctions of named parts, one run's worth of one question:
`NamesServed` (polling, clean-up), `OutcomeReported` (a snapshot, a missing plan), `ReportConsistent`
(`AlertIsVisible`, `WorkloadsWithinNamespace`, `GaugesFollowReport`), `ReportSettles` (status, rule),
`EndsProperly` (`ReportTellsResult`, `ForwardsClosedLast`), `RecordsKept`
(`AnsweredIsRecorded`, `LogReadable`) and `PassMeansSeen` (`RolloutIsCurrent`,
`ReconciledSinceApply`, `InsightsRequired`, `DeliveryIsReal`, `ConfirmedIsNew`,
`PassedIsComplete`).

`CooldownWhenInformed`, `ChangeWhenInformed` and `RateLimitWhenRecorded` state the
strongest version of a documented limit that the code keeps: a round that
saw everything earlier rounds did, and whose predecessors recorded what they did,
respects it. Where the limit is exceeded, the reason is a lost or unseen
status update (or, for `onChangeOnly`, a plan without risks), and nothing else.
In the same way `HistoryIsOwn` is about what was asked for a PVC, whoever's usage the
answer is; `OutcomeReported` leaves out a worker that never returns from
`smtp.SendMail`; and `RecoveryProbes` allows for the good answer of a request sent before degraded mode.
`EscalationReal` excludes projections that do not fit a `Duration`, `LogReadable` logs
with a failed write and bodies whose encoding passes the line limit, `ConfirmedIsNew`
baselines that already hold the synthetic alert, `InsightsRequired` all but the strict settings,
`RuleCurrent` an operator that found no Prometheus operator when it started. In each
case the excluded one does fail; the next tables say how. `DeliveryIsReal` states, for each
basis on which a delivery is accepted, what there was to see, in this run or in what earlier runs left,
and nothing for counters of other receivers. `GaugesFollowReport` compares the budget
gauges with the last of the budgets that share their labels.

### Disagreements between code and documentation

Two are runs that TLC refutes, with a finding in `PROJECT.json`:

- `operator_orphan`: a round of the plan that listed a PVC sets its growth gauges
  after the watcher has deleted its series, and nothing removes them any more;
- `plan_interval`: each round's status update changes `lastReconcileTime` and so
  starts the next round, whatever `reconcileInterval` says.

Others, met while modelling. They follow from the lines named and from the model's
actions, and no run is spent on them:

| Where | Documented | Code |
|---|---|---|
| `prometheus_client.go:42` | a re-created PVC starts without old history (`ringbuffer.go:80-82`) | queries and the backfill (`pvcwatcher_controller.go:206`) ask by name: Prometheus may still answer with the predecessor's usage |
| `pvcwatcher_controller.go:279` | state is reset on a UID change (line 87) | `LastCapacityBytes` is kept until the next good query |
| `prometheus_client.go:114` | no data is an error (`interface.go:42`) | no data is a sample of 0 bytes |
| `pvcwatcher_controller.go:108` | a reconcile records a sample (line 69) | `Configure` can discard the buffer it goes into |
| `capacityplan_controller.go:353` | insights are rate-limited by the interval (`capacityplan_types.go:55`) | a failed status update forgets that one was asked |
| `capacityplannotification_controller.go:148` | the cooldown is a minimum (`capacityplannotification_types.go:16`) | a failed status update sends again |
| `capacityplannotification_controller.go:89` | sent only when the hash changes (`capacityplannotification_types.go:21`) | an empty snapshot is sent after every cooldown |
| `capacityplannotification_controller.go:134` | `lastSentTime` is when one was sent (`capacityplannotification_types.go:109`) | it is set when all channels failed |
| `integration.go:1590` | counters show notifications and no failures, and payloads have every workload (`README.md:279-280`) | either is enough; without counters of the expected receiver those of any receiver (line 2465); no baseline, so an earlier run's count |
| `alertreceiver/server.go:84` | the line limit has headroom for an escaped body (line 83) | a control character takes six bytes: 2 MiB of them pass 8 MiB, and then no record can be read. JSON as Alertmanager writes it at most doubles, and fits |
| `capacityplan_controller.go:150` | `daysUntilFull` 0 disables the check (`capacityplan_types.go:217`) | 0 is replaced by 7 |

Limits of the code that no document contradicts, also visible in the models:

| Where | What |
|---|---|
| `capacityplan_controller.go:1335` | a projection past `time.Duration` has a date in the past on amd64, and the risk counts as escalated |
| `capacityplan_controller.go:1186` | a PVC displaced from the top risks is reported as recovered |
| `capacityplan_controller.go:299` | gauges of a plan that is no longer active, and of PVCs no longer in scope, stay |
| `capacityplan_controller.go:295` | the counter of risk changes is incremented before an update that may fail, and again by the next round |
| `capacityplan_controller.go:842` | clients are never removed from the cache |
| `capacityplan_controller.go:2079` | the Prometheus operator is looked for only at start |
| `capacityplan_controller.go:2123` | the alert rule compares with `>` and a threshold of two decimals, where the status uses `>=` and the exact ratio |
| `nightly_alert_delivery.go:199` | with a synthetic alert in the baseline any new record confirms |
| `import_image.go:127` | the same name and tag of another registry counts as the image |
| `capacityplan_controller.go:306`, `:314` | budgets of one namespace, or of one workload, share a series |
| `integration.go:2641` | a timeout in `verifyLLMInsights` is not one that `shouldHardFailLLMError` recognises |
| `civerify/alerts.go:45` | one failed query ends a wait, and is reported as a timeout |

## 4. Fairness

- Weak fairness of the goroutines' own steps, of timers, of time and of the watch:
  the Go scheduler runs what is runnable, `RequeueAfter` fires, the informer
  delivers. HTTP calls and the LLM's end, since the clients have timeouts. (SMTP has
  none, and no fairness: `OutcomeReported` says that a worker that stays in
  `smtp.SendMail` is the only thing that stops the reports.)
- Strong fairness of taking a given key: the work queue is first in, first out, and
  the models keep a set.
- Strong fairness of success, where a step may fail or succeed: a cached read, a
  query, an update *of the newest version* of an object. Without it the system
  retries for ever, as it should. Updates of outdated versions are never assumed to
  succeed: the models have to get to a current one by themselves.
- `plan_narrative` also assumes that the provider does not fail in every
  round that has the newest version, nor the updates of all rounds in which it
  answered. Two independent services that fail in turn could otherwise
  starve the narrative.

- `notify` lets the process crash without limit, and its liveness properties speak of
  behaviours with finitely many crashes: one that crashes in every round gets
  nowhere.
- `llm`: rounds follow each other and end, requests end within the client's timeout,
  and a plan that uses the client asks it again and again.
- `risk`: weak fairness of rounds and of the watch; strong fairness of publishing
  without an error and of an accepted update.
- `ci`: the process is not stopped and its calls return. HTTP requests and waits have
  timeouts; commands such as `helm`, `docker` and `k3d` run under a background
  context (`cmd/ci-runner/main.go:30`), so that they return is an assumption.
  Nothing is assumed of the cluster.

The other safety runs and all theorems use no fairness.

## 5. Proofs

All theorems hold for every value of the constants that the named assumptions
allow, that is for any number of PVCs, plans, callers, images and alerts and for
every bound. The assumptions are: retentions are integers, and the default is positive;
`NoKey`, `NoPlan` and the like are no key, no plan; bounds are natural numbers; the
threshold, the cooldown and the insight interval are positive (the code replaces
others); the callers, images and nodes are finitely many; the longest cooldown
of a spec is within `MaxAge` and the retries of an import within `MaxImports` (the ages
and imports are counted no further); the followed LLM client is a FastAPI client
without a key whose settings are complete. Of what plans report: capacities, uses and
ages of samples are natural numbers; usage thresholds are from 0 to 1 and days until
full not negative, as the CRD's validation has it (`UsageRatio`, `DaysUntilFull` in
`capacityplan_types.go`), an unset or unreadable threshold being `None`; a plan has
finitely many budgets; a nil pointer is no number. Of the CI runner:
leftover counters have no more failures than notifications, and an image is among the references
that are accepted for it. TLC evaluates all of them on the runs.

- **RingBufferProofs.** `RingInv` is `TypeOK /\ CopyInv`. `TypeOK` covers
  both the buffer in use and the copy, since `InstallResized` makes the one the other;
  `CopyInv` says that what is copied and what is left to copy is the newest part of
  the old buffer, without which installing the copy would be no step of the window. The core
  is `PushSnapshot`: the snapshot after a push is the snapshot before it with the
  sample recorded. It rests on arithmetic modulo the capacity (`ModBelowTwice`, `SlotOf`)
  and on the two cases of an open and a full ring. From it follow `RingTypeOK`,
  `RingCopyInv` and the refinement `RingImplementsWindow`.
- **OperatorProofs**, first part, the watcher. `WatcherInv` adds two parts to the
  invariants the runs check.
  `WorkerInv` ties the worker's program counter to the state: whatever it
  holds after `ensureState` still has a state, and a key it found deleted that has
  come back is queued again. Without it `NeverForgotten` is not inductive, since
  the event of the new PVC arrives while the worker still deletes the old one's
  state. `ConfigureInv` says which buffers are still to be replaced and that a copy
  fits. There is one lemma per action; results are `WatcherTypeOK`,
  `WatcherNeverForgets`, `WatcherExportsTracked` and `WatcherHonoursRetention`.
  `HistoryInv` adds that the worker holds a sample asked for the PVC whose state it
  ensured; from it follows the invariant `HistoryIsOwn` (`WatcherKeepsHistoryApart`),
  though samples are pushed without `r.mu` while `Configure` copies and replaces buffers.
- **OperatorProofs**, second part. Every step of the operator is a step of the watcher
  or leaves it alone, whence `OperatorImplementsWatcher`, and with it the watcher's
  theorems (`OperatorNeverForgets`); `OperatorTypeOK` for the plan's own state.
- **LLMClientsProofs.** `BreakerInv`, about `FastAPIBreaker` alone, contains
  `StreakCounted`: below the threshold every failed request has been counted.
  `BreakerFailuresBounded` follows by counting the callers that still have a request
  out. `BreakerRecoveryProbes` is an action property: of all steps, only a good probe
  and a good answer lower the counter. For the cache, `LLMInv` says that an
  entry is what its key says (`CacheInv`) and that the followed client is made at most
  once (`FollowedInv`): `RoundClientIsCurrent` rests on the first,
  the refinement `CacheImplementsBreaker` on the second, and `CachedClientSafe`
  carries the breaker's theorems over to the client that rounds share.
- **NotificationProofs.** The reconciler decides on a copy and records the outcome two
  sends later. `NotificationInv` therefore has what the copy is worth (`CopyInv`: while
  it is current, its spec and record are the API's), what the attempt in progress has
  to do with the last one that anybody received (`AttemptInv`), and that the status is the
  record of that one once its update went through (`RecordInv`). Results:
  `NotificationTypes`, `DeliveredIsTrue`, `CooldownKept`, `ChangeKept`, `SentTimeKept`.
- **CapacityPlanProofs.** `PlanInv` is of the same kind and gives `PlanTypes` and
  `RateLimitKept`. `ActivePlanKept` needs more: the worker picks the oldest plan of a
  cache that lags, so another plan could show up there later and be older. `ActiveInv`
  numbers the positions of the watch from the cache to the API and says where on it
  the object of each version first appears, not older than anything before it
  (`OriginsInv`), and that nothing anywhere on it is older than the plan that
  drives the watcher (`FloorInv`).
- **PlanReportProofs**, first part, the functions of `RiskAnalysis`. Sums, selections
  and joined lists are recursive functions; what they give is shown by induction over
  their places (`PlacesInduction`, from the least place at which it would fail, since the
  library's induction theorems cannot be used here). From this: the regression has
  a positive denominator or is not computed (`SquaresBound`, the inequality of Cauchy
  and Schwarz for integers, and `GrowthType`); with ties broken every rank
  of a sorted list is taken (`RanksTaken`), so that the list by usage begins with the PVC
  that is used most and the list by days with the one that is full soonest, and one of
  the two alerts when any PVC does (`AlertShown`); the workloads of a namespace have disjoint shares
  of it (`WorkloadsShare`); less use and slower growth never bring a projection closer
  (`RemainingGrows`), so an escalated risk has a reason (`EscalatedFor`).
- **PlanReportProofs**, second part. `ReportOK` is what a report holds: besides
  its types, that two summaries of one PVC are the same (a namespace may be listed twice)
  and that no date of a risk lies after what its growth leaves, which aging keeps, since
  it only brings dates closer. `ChangesInv`: the plan, the copy and the round
  hold such reports, a copy that is the latest is the plan, and the
  report of a round that nobody has overtaken leads from the plan's present status,
  through the days that pass meanwhile. `PublishedInv`: gauges that a round has set
  are those of its report until the round ends. Results: `ReportTypes`,
  `ReportsHoldTogether`, `ChangesAccounted` (with `ChangesFound`: an accepted report
  accounts for the step from the one it replaces) and `EscalationsReal`.
- **IntegrationProofs** and **CIRunnerProofs.** The steps of an integration run are a
  sequence that depends on the configuration. The first part of `IntegrationProofs` shows
  of every configuration that the stages come in order (`Sorted`) and that what a check
  rests on comes right before it, in its stage and once (`Arranged`). The second part
  is `IntegrationInv`: every step behind the run is marked, unless a warning excused
  its stage (`ResultInv`); a status of the Deployment that is current and complete is
  that of a pod of the configured template, available since this run set it (`RolloutInv`); a reconcile time other than the one read
  first is that of a reconcile since (`PlanInv`); counters are positive only for labels
  that were tried or left, workloads are on record only if they were recorded or left,
  and counters and records bear out what was accepted on their account (`SentInv`, `Supported`); forwards are closed by the end
  (`ReportInv`). `CIRunnerProofs` adds `ImportInv` (every node a verified import is judged by has a
  reference that is accepted for the image) and `DeliveryInv` (what was answered is whole in the log; until
  a write fails every line is one whole body that was answered, whence a scan that
  fails has met a body that does not fit, `RecordsFacts` and `RecordsOfLog`; a synthetic alert
  that is in the log and was not in the baseline arrived after it) and concludes `CommandTypes`, `RunEndsProperly`,
  `CommandsPassWhatTheySaw` and `ReceiverRecordsKept`.

Only model-checked:

- all liveness (`StatusConverges`, `NamesServed`, `ActivationSettles`,
  `NarrativeCatchesUp`, `OutcomeReported`, `SelectedRecovers`, `ReportSettles`,
  `CommandEnds`): fairness and `ENABLED` are beyond the proof system;
- of the functions of `RiskAnalysis`, what the theorems above do not need: the full
  order of the lists, and the workload that `resolvePVCWorkload` picks.

## 6. Not modelled

- rounding of `float64`;
- the texts of prompts, insights, digests, conditions and e-mails, and the workload
  named beside a top risk, which nothing decides on;
- the queries to Prometheus and the decoding of its answers; the requests and answers
  of the LLM providers, which keep no state;
- the content of dashboard, manifests and Helm values; the columns of the CI reports;
- CI diagnostics: copies what it can read into files and ignores every error;
- leader election: one process runs, as with the manifests of the repository;
- counters and histograms of the metrics registry, the two `*_total` counters of risk changes
  and anomalies among them;
- the fields and defaults of the API types that no decision reads, the scaffolded
  sample controller, generated code.

Bounds that stand for no limit in the code: `MaxUID`, `MaxRestarts`, `MaxEdits`,
`MaxPoints`, `MaxLag`, `MaxAge`, `MaxChanges`, `MaxDays`, `MaxReconciles`, `MaxSent`,
`MaxLines`, `MaxImports`. They appear in guards of the environment's actions.
`MaxLag` also delays the code: in `CapacityPlan` a round begins only while at most
`MaxLag` versions are undelivered, and in `Notification` an object is written only
when the watch has room, which the fair delivery of the watch brings about.

## 7. Plan

Done: the modules above, and a theorem for every safety property that the passing
runs check. Next: two keys in `Operator`, where the order of summaries matters.
