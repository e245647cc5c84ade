----------------------------- MODULE PlanReport -----------------------------
(***************************************************************************)
(* CapacityPlanReconciler.Reconcile for one plan, seen from what it        *)
(* reports: the status of the plan, the gauges of internal/operator, the   *)
(* PrometheusRule and the dashboard.  RiskAnalysis computes the report;    *)
(* here rounds read the plan from a cache that lags, write to an API that  *)
(* fails, and are cut short by restarts.                                   *)
(*                                                                         *)
(* Which plan is active and how insights are rate limited is the subject   *)
(* of CapacityPlan, the sampling of PVCs that of PVCWatcher.               *)
(***************************************************************************)
EXTENDS RiskAnalysis

CONSTANTS
    Volumes,      \* capacity and samples that a PVC may have
    Start,        \* what the PVCs hold at first
    Specs,        \* values of spec
    PodsOf,       \* the pods that use each PVC
    LLMInterval,  \* spec.llmInsightsInterval, in days
    MaxChanges,   \* bound: changes of PVCs, plan and cluster, and restarts
    MaxDays       \* bound: days that pass

Volume == [cap : Nat, samples : Seq([age : Nat, used : Nat])]

ASSUME VolumesAssumption ==
    /\ Volumes \subseteq Volume
    /\ Start \in [PVCs -> Volume \cup {None}]

\* The CRD has thresholds from 0 to 1.
ASSUME SpecsAssumption ==
    /\ LLMInterval \in Nat
    /\ \A s \in Specs :
         /\ s.usage = None \/ (s.usage \in Fraction /\ s.usage[1] \in 0 .. s.usage[2])
         /\ s.days \in Nat /\ s.namespaces \in Seq(STRING)
         /\ IsFiniteSet(s.budgets) /\ \A b \in s.budgets : b.bytes \in Int

VARIABLES
    vol,       \* each PVC's capacity and samples, or None
    plan,      \* the plan in the API: spec, active, status
    cache,     \* the copy the operator reads
    fresh,     \* whether that copy is the latest
    w,         \* the worker's round
    gauges,    \* the series that the operator exports
    rule,      \* the PrometheusRule, or None
    boards,    \* namespaces with the dashboard ConfigMap
    crds,      \* the Prometheus operator is installed
    refs,      \* the workload index that lookups of pods and owners give now
    answers,   \* whether the LLM provider answers now
    wrapped,   \* what a duration that does not fit becomes on this platform
    hasPrometheusOperator,
    counts     \* changes and days so far

cluster == <<vol, crds, refs, answers, wrapped>>
published == <<gauges, rule, boards>>
vars == <<cluster, plan, cache, fresh, w, published, hasPrometheusOperator, counts>>

NoRecs == [text |-> "none", age |-> None]
Cleared == [ready |-> "False", pvcs |-> <<>>, summary |-> None, topRisks |-> <<>>,
            changes |-> {}, forecasts |-> {}, recs |-> NoRecs, anomalies |-> {}]
Unreported == [Cleared EXCEPT !.ready = "Unknown"]
NoGauges == [pvc |-> <<>>, budget |-> <<>>]
Idle == [pc |-> "idle"]

\* The workload indexes the API may lead to: its answer to lookups of ReplicaSets
\* and Jobs is looked, or the pods cannot be listed.  A PVC that is not in the
\* index is treated by its readers as one with an empty ref.
WorkloadIndexes(looked) ==
    LET RefsOf(p) == IF looked = "unlisted" THEN {NoRef}
                     ELSE resolvePVCWorkload(PodsOf[p], looked)
    IN  {f \in [PVCs -> UNION {RefsOf(p) : p \in PVCs}] : \A p \in PVCs : f[p] \in RefsOf(p)}

Init ==
    /\ vol = Start
    /\ plan \in [spec : Specs, active : BOOLEAN, status : {Unreported}]
    /\ cache = plan /\ fresh = TRUE
    /\ w = Idle /\ gauges = NoGauges /\ rule = None /\ boards = {}
    /\ crds \in BOOLEAN /\ hasPrometheusOperator = crds
    /\ refs \in WorkloadIndexes("found") /\ answers = TRUE /\ wrapped \in Wraps
    /\ counts = [changes |-> 0, days |-> 0]

-----------------------------------------------------------------------------
\* The cluster and its users.
Count(what, most) ==
    /\ counts[what] < most
    /\ counts' = [counts EXCEPT ![what] = @ + 1]

\* What a worker holds is older than the API once someone else writes the plan.
Overtaken == IF w = Idle THEN w ELSE [w EXCEPT !.current = FALSE]

VolumeChanges ==
    /\ Count("changes", MaxChanges)
    /\ \E p \in PVCs, v \in Volumes \cup {None} : v # vol[p] /\ vol' = [vol EXCEPT ![p] = v]
    /\ UNCHANGED <<crds, refs, answers, wrapped, plan, cache, fresh, w, published,
                   hasPrometheusOperator>>

EditPlan ==
    /\ Count("changes", MaxChanges)
    /\ \E s \in Specs \ {plan.spec} : plan' = [plan EXCEPT !.spec = s]
    /\ fresh' = FALSE /\ w' = Overtaken
    /\ UNCHANGED <<cache, cluster, published, hasPrometheusOperator>>

\* Another plan is created before this one, or it is deleted.
Supersede ==
    /\ Count("changes", MaxChanges)
    /\ plan' = [plan EXCEPT !.active = ~@]
    /\ cache' = [cache EXCEPT !.active = ~@]
    /\ UNCHANGED <<fresh, cluster, w, published, hasPrometheusOperator>>

InstallCRDs ==
    /\ Count("changes", MaxChanges)
    /\ ~crds /\ crds' = TRUE
    /\ UNCHANGED <<vol, refs, answers, wrapped, plan, cache, fresh, w, published,
                   hasPrometheusOperator>>

\* Lookups begin or cease to fail, pods get other owners; the provider goes or returns.
LookupsChange ==
    /\ Count("changes", MaxChanges)
    /\ \E looked \in {"found", "gone", "error", "unlisted"} : refs' \in WorkloadIndexes(looked) \ {refs}
    /\ UNCHANGED <<vol, crds, answers, wrapped, plan, cache, fresh, w, published,
                   hasPrometheusOperator>>

ProviderChanges ==
    /\ Count("changes", MaxChanges)
    /\ answers' = ~answers
    /\ UNCHANGED <<vol, crds, refs, wrapped, plan, cache, fresh, w, published,
                   hasPrometheusOperator>>

Sync ==
    /\ ~fresh
    /\ cache' = plan /\ fresh' = TRUE
    /\ UNCHANGED <<cluster, plan, w, published, hasPrometheusOperator, counts>>

\* A day passes: dates come closer, recommendations age.
Closer(at) == IF at = None THEN None ELSE Plus(at, <<-1, 1>>)
Older(risks) == [i \in DOMAIN risks |-> [risks[i] EXCEPT !.at = Closer(@)]]
Aged(st) ==
    [st EXCEPT !.topRisks = Older(@),
               !.recs.age = IF @ = None \/ @ = LLMInterval THEN @ ELSE @ + 1]

Day ==
    /\ Count("days", MaxDays)
    /\ plan' = [plan EXCEPT !.status = Aged(@)]
    /\ cache' = [cache EXCEPT !.status = Aged(@)]
    /\ w' = IF w = Idle THEN w ELSE [w EXCEPT !.report = Aged(@), !.riskByKey = Older(@)]
    /\ gauges' = [gauges EXCEPT !.pvc = Older(@)]
    /\ UNCHANGED <<cluster, fresh, rule, boards, hasPrometheusOperator>>

\* SetupWithManager looks for the Prometheus operator once.
Restart ==
    /\ Count("changes", MaxChanges)
    /\ w' = Idle /\ gauges' = NoGauges
    /\ hasPrometheusOperator' = crds
    /\ cache' = plan /\ fresh' = TRUE
    /\ UNCHANGED <<cluster, plan, rule, boards>>

-----------------------------------------------------------------------------
\* A round.  An error and a success are both followed by another round; a list of
\* the PVCs that fails leaves everything as it is.
\* Thresholds.UsageRatio, None when it does not parse; DaysUntilFull 0 is 7.
Thresholds(spec) ==
    [usage |-> IF spec.usage = None THEN <<17, 20>> ELSE spec.usage,
     days |-> IF spec.days = 0 THEN <<7, 1>> ELSE <<spec.days, 1>>]

listScopedPVCs(namespaces) ==
    LET In(S) == Picked([p \in PVCs |-> p], {p \in PVCs : vol[p] # None /\ Namespace[p] \in S})
    IN  IF namespaces = <<>> THEN In({Namespace[p] : p \in PVCs})
        ELSE Joined([i \in DOMAIN namespaces |-> In({namespaces[i]})])

Trends == [v \in Volumes \cup {Start[p] : p \in PVCs} |-> Trend(v)]

PrevUsed(st, p) ==
    LET mine == Passing(st.pvcs, LAMBDA s : s.pvc = p)
    IN  IF mine = <<>> THEN 0 ELSE Last(mine).used

Summaries(listed, spec, st) ==
    Collect(listed, LAMBDA p : buildSummary(p, vol[p], Trends[vol[p]].all, Thresholds(spec),
                                            PrevUsed(st, p)))

\* What the status keeps of a top risk; wide: its projection does not fit.
Kept(risks) ==
    Collect(risks, LAMBDA r : [pvc |-> r.pvc, used |-> r.used, cap |-> r.cap,
                               weekly |-> r.weekly, at |-> r.at, alert |-> r.alert,
                               wide |-> r.days # None /\ Less(<<MaxDuration, 1>>, r.days)])

\* spec.llm: off (or not configured), or a client that can, or cannot, answer a
\* prompt about the whole plan.
refreshRecommendations(llm, prev, forecasts) ==
    LET due == \/ forecasts # prev.forecasts
               \/ prev.recs.age = None
               \/ prev.recs.age >= LLMInterval
    IN  CASE llm = "off" -> prev.recs
          [] llm # "off" /\ forecasts = {} -> NoRecs
          [] llm = "prompt" /\ forecasts # {} /\ due /\ answers ->
                 [text |-> "llm", age |-> 0]
          [] OTHER -> [prev.recs EXCEPT !.text = IF @ = "none" THEN "fallback" ELSE @]

BuildReport(spec, st, items, signals, top, forecasts) ==
    [ready |-> "True", pvcs |-> items, summary |-> buildStatusSummary(items),
     topRisks |-> top, changes |-> detectRiskChanges(st.topRisks, top),
     forecasts |-> forecasts, recs |-> refreshRecommendations(spec.llm, st, forecasts),
     anomalies |-> detectPVCAnomalies(signals)]

Signals(items) ==
    Collect(items, LAMBDA s : buildPVCRiskSignal(s, Trends[vol[s.pvc]], wrapped))

\* riskByKey, as far as the gauges need it.
riskMap(signals) ==
    [p \in Named(signals) |->
        LET s == CHOOSE x \in ToSet(signals) : x.pvc = p
        IN  [accel |-> s.accel, at |-> s.at]]

\* Mutant: a plan that is not active is left as it is.
TakeInactiveSkips ==
    /\ w.pc = "idle" /\ ~cache.active
    /\ UNCHANGED vars

\* A plan that is not the active one has its status cleared; of the active one the
\* PVCs are listed and analysed.
TakeInactive ==
    /\ w.pc = "idle" /\ ~cache.active
    /\ w' = [pc |-> "inactive", current |-> fresh, report |-> Cleared, riskByKey |-> <<>>]
    /\ UNCHANGED <<cluster, plan, cache, fresh, published, hasPrometheusOperator, counts>>

Analyse ==
    /\ w.pc = "idle" /\ cache.active
    /\ UNCHANGED <<cluster, plan, cache, fresh, published, hasPrometheusOperator, counts>>
    /\ \E listed \in {listScopedPVCs(cache.spec.namespaces)} :
       \E items \in {Summaries(listed, cache.spec, cache.status)} :
       \E signals \in {Signals(items)} :
       \E top \in {Kept(buildTopRisks(signals))},
          forecasts \in {buildBudgetForecasts(cache.spec.budgets, items, signals, refs)} :
         w' = [pc |-> "publish", current |-> fresh, spec |-> cache.spec,
               riskByKey |-> riskMap(signals),
               report |-> BuildReport(cache.spec, cache.status, items, signals, top, forecasts)]

\* Every PVC of the report has its gauges set, its anomalies after a zero for each
\* type.  The budgets are cleared and those of the report set, one series for all
\* forecasts with the same labels.
PVCGauges(s) ==
    [growth |-> s.growth, days |-> s.days,
     accel |-> w.riskByKey[s.pvc].accel, at |-> w.riskByKey[s.pvc].at,
     anomalies |-> {a.type : a \in {x \in w.report.anomalies : x.pvc = s.pvc}}]

BudgetGauges(forecasts) ==
    [l \in {Labels(f.budget) : f \in forecasts} |->
        (CHOOSE f \in forecasts : Labels(f.budget) = l /\ Remains(f, forecasts)).days]

SetGauges ==
    gauges' =
         [pvc |-> [p \in DOMAIN gauges.pvc \cup Named(w.report.pvcs) |->
                      IF p \in Named(w.report.pvcs)
                      THEN PVCGauges(CHOOSE s \in ToSet(w.report.pvcs) : s.pvc = p)
                      ELSE gauges.pvc[p]],
          budget |-> BudgetGauges(w.report.forecasts)]

\* The rule has the usage threshold in hundredths and the digest of the risks.
Hundredths(a) == (200 * a[1] + a[2]) \div (2 * a[2])
buildPrometheusRule(spec, top) ==
    [usage |-> Hundredths(Thresholds(spec).usage), days |-> Thresholds(spec).days[1],
     digest |-> Collect(top, LAMBDA r : r.pvc)]

\* The rule, then the dashboard; an error of either is logged and the round goes on.
ReconcileRule(failed) ==
    rule' = IF hasPrometheusOperator /\ "rule" \notin failed
            THEN buildPrometheusRule(w.spec, w.report.topRisks) ELSE rule

ReconcileDashboard(failed) ==
    boards' = IF "dashboard" \in failed THEN boards ELSE boards \cup {w.spec.board}

Publish(failed) ==
    /\ w.pc = "publish"
    /\ w' = [w EXCEPT !.pc = "update"]
    /\ SetGauges /\ ReconcileRule(failed) /\ ReconcileDashboard(failed)
    /\ UNCHANGED <<cluster, plan, cache, fresh, hasPrometheusOperator, counts>>

PublishPartly == \E failed \in (SUBSET {"rule", "dashboard"}) \ {{}} : Publish(failed)

\* Mutant: the last writer wins.
AcceptedAlways == TRUE

\* The API refuses the status of a plan that is not the latest; one it accepts is
\* a new version, if only by lastReconcileTime.
Accepted == w.current

Persist(status) ==
    /\ plan' = [plan EXCEPT !.status = status]
    /\ fresh' = FALSE
    /\ w' = Idle
    /\ UNCHANGED <<cache, cluster, published, hasPrometheusOperator, counts>>

UpdateStatus == w.pc = "update" /\ Accepted /\ Persist(w.report)
MarkInactive == w.pc = "inactive" /\ Accepted /\ Persist(w.report)

UpdateFails ==
    /\ w.pc \in {"update", "inactive"}
    /\ w' = Idle
    /\ UNCHANGED <<cluster, plan, cache, fresh, published, hasPrometheusOperator, counts>>

Round ==
    \/ UpdateFails \/ UpdateStatus \/ MarkInactive
    \/ TakeInactive \/ Publish({}) \/ PublishPartly \/ Analyse

Next ==
    \/ VolumeChanges \/ EditPlan \/ Supersede \/ InstallCRDs \/ LookupsChange
    \/ ProviderChanges \/ Sync \/ Day \/ Restart
    \/ Round

Spec == Init /\ [][Next]_vars

\* The worker always goes on; a request to the API that is made again and again
\* is answered in the end.
FairSpec ==
    /\ Spec
    /\ WF_vars(Sync)
    /\ WF_vars(Round)
    /\ SF_vars(Publish({}))
    /\ SF_vars(UpdateStatus \/ MarkInactive)
-----------------------------------------------------------------------------
\* What a report, a worker and the published state look like.
Optional(x) == x = None \/ x \in Fraction
StatusOK(st) ==
    /\ st.ready \in {"True", "False", "Unknown"}
    /\ \A i \in DOMAIN st.pvcs :
         /\ st.pvcs[i].pvc \in PVCs /\ st.pvcs[i].alert \in BOOLEAN
         /\ {st.pvcs[i].ratio, st.pvcs[i].growth, st.pvcs[i].r2} \subseteq Fraction
         /\ Optional(st.pvcs[i].days)
    /\ Len(st.topRisks) <= TopN /\ \A i \in DOMAIN st.topRisks : Optional(st.topRisks[i].at)
    /\ st.changes \subseteq [pvc : PVCs, type : {"new", "escalated", "recovered"}]
    /\ st.anomalies \subseteq [pvc : PVCs, type : AnomalyTypes, severity : {"warning", "critical"}]
    /\ \A f \in st.forecasts : f.budget.bytes > 0 /\ f.used >= 0 /\ Optional(f.days)
    /\ st.recs.text \in {"none", "fallback", "llm"}
    /\ st.recs.age = None \/ st.recs.age \in 0 .. LLMInterval

\* Type invariant of the plan, the worker and what is published.
ReportTypeOK ==
    /\ StatusOK(plan.status) /\ StatusOK(cache.status)
    /\ plan.spec \in Specs /\ cache.spec \in Specs /\ fresh \in BOOLEAN
    /\ w.pc \in {"idle", "inactive", "publish", "update"}
    /\ w # Idle => StatusOK(w.report)
    /\ \A p \in DOMAIN gauges.pvc : gauges.pvc[p].anomalies \subseteq AnomalyTypes
    /\ rule # None => rule.usage \in 0 .. 100
    /\ hasPrometheusOperator => crds

\* The risk changes of a report account for the step from the report before it, also
\* when rounds in between failed, read an old plan or were cut short: the PVCs that
\* entered and left the top risks are exactly the new and the recovered ones.
Of(changes, type) == {c.pvc : c \in {x \in changes : x.type = type}}
Replaced(old, new) ==
    /\ new.ready = "True"
    /\ <<new.changes, Named(new.topRisks)>> # <<old.changes, Named(old.topRisks)>>
ChangesAddUp ==
    [][LET old == plan.status
           new == plan'.status
       IN  Replaced(old, new) =>
             /\ Of(new.changes, "new") = Named(new.topRisks) \ Named(old.topRisks)
             /\ Of(new.changes, "recovered") = Named(old.topRisks) \ Named(new.topRisks)]_vars

\* A risk is escalated for a reason: since the last report the PVC grew faster, holds
\* more, has another capacity or has begun to alert.  Passing time is no reason.  (A
\* projection past what a Duration holds is excluded: on amd64 its date wraps.)
EscalationReal ==
    [][LET old == plan.status
           new == plan'.status
       IN  Replaced(old, new) =>
             \A p \in Of(new.changes, "escalated") :
               \E o \in ToSet(old.topRisks), n \in ToSet(new.topRisks) :
                 /\ o.pvc = p /\ n.pvc = p
                 /\ \/ Less(o.weekly, n.weekly) \/ n.used > o.used \/ n.cap # o.cap
                    \/ (~o.alert /\ n.alert)
                    \/ n.wide \/ o.wide]_vars

\* The short lists of the summary are cut at TopN, but when a PVC alerts one that
\* does is on the list by usage or on the list by days until full.
AlertIsVisible ==
    LET sum == plan.status.summary
    IN  sum # None /\ sum.alerting > 0 =>
            \E s \in ToSet(sum.topByUsage) \cup ToSet(sum.topBySoonest) : s.alert

\* The workloads of a namespace never use more than the namespace, whatever the
\* lookups of pods and owners answered: a PVC is charged to one workload.  (Of two
\* budgets of one workload, which nothing forbids and which may spell its kind in two
\* ways, both forecasts say what it uses.)
WorkloadsWithinNamespace ==
    \A f \in {x \in plan.status.forecasts : x.budget.kind = None} :
        LET theirs == {[kind |-> Fold(x.budget.kind), name |-> x.budget.name, used |-> x.used] :
                          x \in {y \in plan.status.forecasts :
                                    y.budget.kind # None /\ y.budget.ns = f.budget.ns}}
        IN  Total(SetToSeq(theirs), LAMBDA x : x.used) <= f.used

\* Once a round has set the gauges they say what its report says of every PVC in it,
\* also when a PVC is listed twice, and of its budgets and no others.  One series
\* stands for all budgets of a namespace, or of a workload whose kind is spelled the
\* same: it shows a forecast of theirs, and none of them is breached later.
GaugesFollowReport ==
    w.pc = "update" =>
        /\ \A s \in ToSet(w.report.pvcs) :
             s.pvc \in DOMAIN gauges.pvc /\ gauges.pvc[s.pvc] = PVCGauges(s)
        /\ DOMAIN gauges.budget = {Labels(f.budget) : f \in w.report.forecasts}
        /\ \A l \in DOMAIN gauges.budget :
             \E f \in w.report.forecasts :
                /\ Labels(f.budget) = l /\ gauges.budget[l] = f.days
                /\ Remains(f, w.report.forecasts)

\* What a round reports holds together, though its lists are cut, lookups failed and
\* earlier rounds left gauges behind.
ReportConsistent == AlertIsVisible /\ WorkloadsWithinNamespace /\ GaugesFollowReport

\* The status is the report of the PVCs as they are, or empty when the plan is not
\* the active one.
Settled ==
    IF plan.active
    THEN /\ plan.status.ready = "True"
         /\ plan.status.pvcs = Summaries(listScopedPVCs(plan.spec.namespaces), plan.spec, plan.status)
    ELSE plan.status = Cleared

\* With an operator that found the Prometheus operator when it started, the rule has
\* the thresholds of the plan and its current risks.
RuleCurrent ==
    hasPrometheusOperator /\ plan.active =>
        /\ rule # None
        /\ rule.usage = Hundredths(Thresholds(plan.spec).usage)
        /\ rule.days = Thresholds(plan.spec).days[1]
        /\ ToSet(rule.digest) = Named(plan.status.topRisks)

\* When the cluster is left alone, status and rule end up as they should be, through
\* failed updates, conflicts, errors that are only logged, and restarts.
ReportSettles == <>[](Settled /\ RuleCurrent)
=============================================================================
