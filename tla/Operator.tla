------------------------------ MODULE Operator ------------------------------
(***************************************************************************)
(* The operator's two loops over the same PVCs: the watcher of             *)
(* PVCWatcher.tla, and the reconciler of the active CapacityPlan           *)
(* (internal/controller/capacityplan_controller.go), which configures the  *)
(* watcher, lists the PVCs, reads their buffers one after another with a   *)
(* call to the LLM between them, sets the growth gauges, and writes the    *)
(* status.  Configure is now called by that loop alone.                    *)
(*                                                                         *)
(* Of a plan's summary of a PVC the model keeps whose usage it reports     *)
(* (UsedBytes), as the UID of that PVC; 0 when there is no summary, or no  *)
(* usage in it.                                                            *)
(***************************************************************************)
EXTENDS PVCWatcher

CONSTANTS
    PlanSpecs,   \* specs of the plan: sampleRetention, and the client it selects
    MaxEdits     \* bound: edits of the plan's spec

ASSUME PlanSpecsAssumption ==
    /\ PlanSpecs \subseteq [retention : Retentions, client : {StartupClient, "prom"}]
    /\ MaxEdits \in Nat

VARIABLES
    spec,      \* the plan's spec
    edits,
    status,    \* status.pvcs: whose usage each summary reports
    growth,    \* keys with growth, days-until-full, projection and anomaly series
    p          \* the plan reconciler: where it is, and its locals

planVars == <<spec, edits, status, growth, p>>
opVars   == <<vars, planVars>>

Reports == [Keys -> 0 .. MaxUID]
NoReport == [k \in Keys |-> 0]

\* todo: <<key, uid>> pairs of listed PVCs still to visit, then keys whose
\* gauges are still to be set; sums: the summaries so far.
IdlePlan == [pc |-> "idle", todo |-> {}, sums |-> NoReport, seen |-> {}]

OpInit ==
    /\ Init
    /\ spec \in PlanSpecs
    /\ edits = 0
    /\ status = NoReport
    /\ growth = {}
    /\ p = IdlePlan

-----------------------------------------------------------------------------
\* The watcher's steps.  deleteState also removes the plan's series.

DeleteAllSeries ==
    /\ DeleteSeries
    /\ growth' = growth \ {w.key}
    /\ UNCHANGED <<spec, edits, status, p>>

WatchStep ==
    /\ w.pc # "series"
    /\ ReconcileStep
    /\ UNCHANGED planVars

LookupStep(k) ==
    /\ TimerFires(k) \/ GetFails(k) \/ GetFound(k) \/ GetNotFound(k)
    /\ UNCHANGED planVars

OtherStep ==
    /\ ClusterStep \/ StartupStep \/ ConfigureStep
    /\ UNCHANGED planVars

\* The registry of metrics is memory, too; the status is not.
OpRestart ==
    /\ Restart
    /\ growth' = {}
    /\ p' = IdlePlan
    /\ UNCHANGED <<spec, edits, status>>

-----------------------------------------------------------------------------
\* The plan.

EditPlan(s) ==
    /\ edits < MaxEdits
    /\ edits' = edits + 1
    /\ s # spec
    /\ spec' = s
    /\ UNCHANGED <<vars, status, growth, p>>

\* Reconcile starts on the active plan: configureWatcherForPlan.
PlanConfigure ==
    /\ p.pc = "idle"
    /\ Configure(spec.retention, spec.client)
    /\ p' = [p EXCEPT !.pc = "list"]
    /\ UNCHANGED <<spec, edits, status, growth>>

\* Mutant: PVCs that are gone are listed, too.
PlanListAll ==
    /\ p.pc = "list"
    /\ MuFree
    /\ p' = [p EXCEPT !.pc = "summarise", !.todo = {<<k, pvc[k]>> : k \in Keys},
                      !.seen = Queued(pvc)]
    /\ UNCHANGED <<vars, spec, edits, status, growth>>

\* Mutant: the watcher's states of PVCs that are not listed are dropped, too.
PlanListPrunes ==
    /\ p.pc = "list"
    /\ MuFree
    /\ p' = [p EXCEPT !.pc = "summarise", !.todo = {<<k, pvc[k]>> : k \in Queued(pvc)},
                      !.seen = Queued(pvc)]
    /\ pvcStates' = [k \in DOMAIN pvcStates \cap Queued(pvc) |-> pvcStates[k]]
    /\ UNCHANGED <<clusterVars, queueVars, retention, client, exported, w, cfg, bootVars,
                   spec, edits, status, growth>>

\* listScopedPVCs, once Configure has returned.
PlanList ==
    /\ p.pc = "list"
    /\ MuFree
    /\ p' = [p EXCEPT !.pc = "summarise", !.todo = {<<k, pvc[k]>> : k \in Queued(pvc)},
                      !.seen = Queued(pvc)]
    /\ UNCHANGED <<vars, spec, edits, status, growth>>

\* An error of the list ends the round; it is retried with backoff.
PlanListFails ==
    /\ p.pc = "list"
    /\ MuFree
    /\ p' = IdlePlan
    /\ UNCHANGED <<vars, spec, edits, status, growth>>

\* Mutant: the summary keeps the usage it had while there is one.
ReportKeepsPrevious(k) ==
    IF status[k] # 0 THEN status[k]
    ELSE IF k \in DOMAIN pvcStates /\ pvcStates[k].window # <<>>
    THEN pvcStates[k].window[Len(pvcStates[k].window)].uid
    ELSE 0

\* The newest sample of GetSnapshot, or else the usage of the last summary of
\* that name.
Report(k) ==
    IF k \in DOMAIN pvcStates /\ pvcStates[k].window # <<>>
    THEN pvcStates[k].window[Len(pvcStates[k].window)].uid
    ELSE status[k]

\* buildSummary, the call of the LLM included.
Summarise(k, uid) ==
    /\ p.pc = "summarise"
    /\ <<k, uid>> \in p.todo
    /\ p' = [p EXCEPT !.todo = @ \ {<<k, uid>>}, !.sums = [@ EXCEPT ![k] = Report(k)]]
    /\ UNCHANGED <<vars, spec, edits, status, growth>>

\* The insights about the whole plan, from the LLM.
PlanInsights ==
    /\ p.pc = "summarise"
    /\ p.todo = {}
    /\ p' = [p EXCEPT !.pc = "publish"]
    /\ UNCHANGED <<vars, spec, edits, status, growth>>

\* The gauges of one summary.
PublishGrowth(k) ==
    /\ p.pc = "publish"
    /\ k \in p.seen
    /\ growth' = growth \cup {k}
    /\ p' = [p EXCEPT !.seen = @ \ {k}]
    /\ UNCHANGED <<vars, spec, edits, status>>

PublishDone == p.pc = "publish" /\ p.seen = {}

\* Child resources (their errors are only logged), then Status().Update.
PlanStatus ==
    /\ PublishDone
    /\ status' = p.sums
    /\ p' = IdlePlan
    /\ UNCHANGED <<vars, spec, edits, growth>>

PlanStatusFails ==
    /\ PublishDone
    /\ p' = IdlePlan
    /\ UNCHANGED <<vars, spec, edits, status, growth>>

SummariseStep == \E k \in Keys, u \in UID : Summarise(k, u)
PublishStep == \E k \in Keys : PublishGrowth(k)

PlanStep ==
    \/ PlanConfigure \/ PlanList \/ PlanListFails \/ SummariseStep \/ PlanInsights
    \/ PublishStep \/ PlanStatus \/ PlanStatusFails

OpNext ==
    \/ DeleteAllSeries
    \/ WatchStep
    \/ \E k \in Keys : LookupStep(k)
    \/ OtherStep
    \/ OpRestart
    \/ \E s \in PlanSpecs : EditPlan(s)
    \/ PlanStep

OpSpec == OpInit /\ [][OpNext]_opVars

\* The goroutines run; an HTTP request ends within the client's timeout; a
\* sync.RWMutex does not starve a waiter; a FIFO work queue passes no key
\* over forever; the plan's timer comes round.  On the way of a sample into a
\* buffer, and from there into the status, neither cached reads nor
\* Prometheus nor the API server fail forever; Prometheus drops the series of
\* a PVC that is gone.
OpFairness ==
    /\ WF_opVars((StartupStep \/ ConfigureStep) /\ UNCHANGED planVars)
    /\ SF_opVars(WatchStep) /\ WF_opVars(DeleteAllSeries)
    /\ \A k \in Keys :
        /\ WF_opVars(TimerFires(k) /\ UNCHANGED planVars)
        /\ SF_opVars((GetFound(k) \/ GetNotFound(k)) /\ UNCHANGED planVars)
        /\ SF_opVars(w.key = k /\ (\E s \in Sample : QueryUsed(s)) /\ UNCHANGED planVars)
        /\ SF_opVars(w.key = k /\ QueryCapacity /\ UNCHANGED planVars)
        /\ WF_opVars(SeriesExpire(k) /\ UNCHANGED planVars)
    /\ WF_opVars(PlanStep) /\ SF_opVars(PlanList) /\ SF_opVars(PlanStatus)

OpFairSpec == OpSpec /\ OpFairness

-----------------------------------------------------------------------------
OpTypeOK ==
    /\ spec \in PlanSpecs
    /\ edits \in 0 .. MaxEdits
    /\ status \in Reports
    /\ growth \subseteq Keys
    /\ p \in [pc : {"idle", "list", "summarise", "publish"}, todo : SUBSET (Keys \X UID),
              sums : Reports, seen : SUBSET Keys]

\* Put together, the two loops are the watcher of PVCWatcher: everything
\* shown of it holds of the operator.
ImplementsWatcher == Spec

\* deleteState deletes the series "so stale data is not exported after a PVC
\* is deleted": between two rounds of the plan, series of a PVC that is gone
\* are still going to be removed.
NoOrphanedGrowth ==
    phase = "running" /\ p.pc = "idle" =>
        \A k \in growth : pvc[k] # 0 \/ k \in queue \cup timers \cup {w.key}

\* The status catches up with the cluster: when PVCs stop coming and going,
\* every summary ends up reporting the usage of the PVC that exists, and no
\* summary of one that is gone stays, through failures of Prometheus and of
\* the API server, and although a summary without samples repeats the last.
StatusConverges ==
    \A k \in Keys, u \in 0 .. MaxUID :
        <>[](pvc[k] = u /\ client = "prom") => <>[](status[k] = u)
=============================================================================
