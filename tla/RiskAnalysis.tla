---------------------------- MODULE RiskAnalysis ----------------------------
(***************************************************************************)
(* What a round of the active plan computes: internal/analysis/growth.go   *)
(* and the pure part of internal/controller/capacityplan_controller.go,    *)
(* from the samples of each PVC to the summaries, the risks, the changes   *)
(* since the last report, the anomalies and the budget forecasts.          *)
(*                                                                         *)
(* A float64 is an exact fraction <<n, d>>, d > 0.  A sample carries its   *)
(* age and a date is counted from now, both in days.  PVCs are numbered in *)
(* the order of their namespace/name.                                      *)
(***************************************************************************)
EXTENDS Integers, Sequences, FiniteSets, SequencesExt

CONSTANTS
    Namespace,     \* the namespace of each PVC
    Fold(_),       \* a kind without its case: EqualFold(a, b) is Fold(a) = Fold(b)
    None,          \* a nil pointer, an absent value
    TopN,          \* statusSummaryTopN
    TrendWindow,   \* riskTrendWindow
    AccelWindow,   \* riskAccelerationWindow
    MaxDuration,   \* days that a time.Duration can hold
    Wraps,         \* what a longer one becomes, on the platforms of the operator
    Steep,         \* 10 MiB per day
    SuddenFloor    \* 100 MiB per day

ASSUME WindowsAssumption ==
    /\ TopN \in Nat \ {0} /\ MaxDuration \in Nat \ {0}
    /\ AccelWindow \in Nat /\ TrendWindow \in Nat /\ AccelWindow <= TrendWindow
    /\ Wraps \subseteq {-MaxDuration, MaxDuration}

ASSUME NamespaceAssumption == Namespace \in Seq(STRING)

PVCs == DOMAIN Namespace

Fraction == {f \in Seq(Int) : Len(f) = 2 /\ f[2] > 0}
ASSUME NoneAssumption == None \notin Fraction

Zero == <<0, 1>>
Less(a, b) == a[1] * b[2] < b[1] * a[2]
Same(a, b) == a[1] * b[2] = b[1] * a[2]
Plus(a, b) == <<a[1] * b[2] + b[1] * a[2], a[2] * b[2]>>
Times(a, b) == <<a[1] * b[1], a[2] * b[2]>>
Positive(a) == a[1] > 0
Abs(a) == IF a[1] < 0 THEN <<-a[1], a[2]>> ELSE a
Collect(s, f(_)) == [i \in DOMAIN s |-> f(s[i])]

\* The sum of a sequence of integers, and of one of fractions.
Added(s) ==
    LET upTo[i \in 0 .. Len(s)] == IF i = 0 THEN 0 ELSE upTo[i - 1] + s[i]
    IN  upTo[Len(s)]
PlusAll(s) ==
    LET upTo[i \in 0 .. Len(s)] == IF i = 0 THEN Zero ELSE Plus(upTo[i - 1], s[i])
    IN  upTo[Len(s)]
Total(s, f(_)) == Added(Collect(s, f))

\* The sequences of ss one after the other; the elements of s at some places, and
\* those that pass a test.
Joined(ss) ==
    LET upTo[i \in 0 .. Len(ss)] == IF i = 0 THEN <<>> ELSE upTo[i - 1] \o ss[i]
    IN  upTo[Len(ss)]
Picked(s, places) ==
    LET upTo[i \in 0 .. Len(s)] ==
            IF i = 0 THEN <<>>
            ELSE IF i \in places THEN Append(upTo[i - 1], s[i]) ELSE upTo[i - 1]
    IN  upTo[Len(s)]
Passing(s, test(_)) == Picked(s, {i \in DOMAIN s : test(s[i])})

-----------------------------------------------------------------------------
\* analysis.CalculateGrowth: least squares over s, oldest sample first.
NoGrowth == [growth |-> Zero, r2 |-> Zero, days |-> None]

Remaining(cap, used, growth) ==
    IF used >= cap THEN Zero ELSE <<(cap - used) * growth[2], growth[1]>>

\* Mutant: too few samples, or samples of one moment, are not told apart.
NeverUndetermined(n, denom) == FALSE

Undetermined(n, denom) == n < 2 \/ denom = 0

CalculateGrowth(s, cap) ==
    LET x(a) == s[1].age - a.age
        n == Len(s)
        sx == Total(s, x)
        sy == Total(s, LAMBDA a : a.used)
        denom == n * Total(s, LAMBDA a : x(a) * x(a)) - sx * sx
        cov == n * Total(s, LAMBDA a : x(a) * a.used) - sx * sy
        varY == n * Total(s, LAMBDA a : a.used * a.used) - sy * sy
        slope == <<cov, denom>>
    IN  IF Undetermined(n, denom) THEN NoGrowth
        ELSE [growth |-> slope,
              r2 |-> IF varY > 0 THEN <<cov * cov, denom * varY>> ELSE Zero,
              days |-> IF Positive(slope) /\ cap > 0
                       THEN Remaining(cap, s[n].used, slope) ELSE None]

-----------------------------------------------------------------------------
samplesSince(s, age) == Passing(s, LAMBDA a : a.age <= age)

growthAcceleration(weekly, daily) ==
    IF weekly[1] = 0 THEN Zero
    ELSE LET step == Plus(daily, <<-weekly[1], weekly[2]>>)
             scale == Abs(weekly)
         IN  Times(step, <<scale[2], scale[1]>>)

\* The regressions over the samples of a PVC: all, those of the trend window, those
\* of the last day.  A window with less than two samples falls back.
Trend(v) ==
    LET all == CalculateGrowth(v.samples, v.cap)
        week == samplesSince(v.samples, TrendWindow)
        weekly == IF Len(week) < 2 THEN all ELSE CalculateGrowth(week, v.cap)
        day == samplesSince(v.samples, AccelWindow)
        daily == IF Len(day) < 2 THEN weekly ELSE CalculateGrowth(day, v.cap)
    IN  [all |-> all, weekly |-> weekly.growth, weeklyR2 |-> weekly.r2,
         daily |-> daily.growth,
         accel |-> growthAcceleration(weekly.growth, daily.growth)]

\* The summary of PVC p, without its insight.  prevUsed is what the last report
\* said; thr has the two thresholds.
buildSummary(p, v, g, thr, prevUsed) ==
    LET used == IF v.samples = <<>> THEN prevUsed ELSE Last(v.samples).used
        ratio == IF v.cap > 0 THEN <<used, v.cap>> ELSE Zero
    IN  [pvc |-> p, cap |-> v.cap, used |-> used, ratio |-> ratio,
         growth |-> g.growth, r2 |-> g.r2, days |-> g.days,
         alert |-> \/ ~Less(ratio, thr.usage)
                   \/ (g.days # None /\ Less(g.days, thr.days))]

\* The date days from now.  A longer duration than int64 nanoseconds hold wraps:
\* the conversion gives the most negative duration on amd64, the most positive
\* one on arm64.
DateAfter(days, wrapped) ==
    IF Less(<<MaxDuration, 1>>, days) THEN <<wrapped, 1>> ELSE days

projectedFullFromGrowth(used, cap, growth, wrapped) ==
    IF ~Positive(growth) \/ cap <= 0 THEN [days |-> None, at |-> None]
    ELSE LET d == Remaining(cap, used, growth)
         IN  [days |-> d, at |-> DateAfter(d, wrapped)]

buildPVCRiskSignal(s, t, wrapped) ==
    LET full == projectedFullFromGrowth(s.used, s.cap, t.weekly, wrapped)
    IN  [pvc |-> s.pvc, used |-> s.used, cap |-> s.cap, alert |-> s.alert,
         r2 |-> t.weeklyR2, weekly |-> t.weekly, daily |-> t.daily, accel |-> t.accel,
         days |-> full.days, at |-> full.at]

-----------------------------------------------------------------------------
\* The elements of s that pass the test, sorted, and cut at TopN.
First(s, test(_), before(_, _)) ==
    LET places == {i \in DOMAIN s : test(s[i])}
        ahead(i, j) == before(s[i], s[j]) \/ (~before(s[j], s[i]) /\ i < j)
        nth(k) == CHOOSE i \in places : Cardinality({j \in places : ahead(j, i)}) = k - 1
        n == Cardinality(places)
    IN  [k \in 1 .. IF n < TopN THEN n ELSE TopN |-> s[nth(k)]]

\* Orders by a fraction, then by namespace and name.
Lower(a, b, f(_)) == Less(f(a), f(b)) \/ (Same(f(a), f(b)) /\ a.pvc < b.pvc)
Higher(a, b, f(_)) == Less(f(b), f(a)) \/ (Same(f(a), f(b)) /\ a.pvc < b.pvc)

\* Signals that grow have days until full unless their capacity is unknown.
buildTopRisks(signals) ==
    LET later(a, b) == b.days # None /\ (a.days = None \/ Less(b.days, a.days))
        before(a, b) == \/ Less(b.weekly, a.weekly)
                        \/ /\ Same(a.weekly, b.weekly)
                           /\ later(b, a) \/ (~later(a, b) /\ a.pvc < b.pvc)
    IN  First(signals, LAMBDA s : Positive(s.weekly), before)

\* Mutant: the least used PVCs are listed first.
buildStatusSummaryAscending(items) ==
    [total |-> Len(items),
     alerting |-> Cardinality({i \in DOMAIN items : items[i].alert}),
     topByUsage |-> First(items, LAMBDA s : TRUE,
                          LAMBDA a, b : Lower(a, b, LAMBDA s : s.ratio)),
     topBySoonest |-> First(items, LAMBDA s : s.days # None,
                            LAMBDA a, b : Lower(a, b, LAMBDA s : s.days)),
     topByGrowth |-> <<>>]

buildStatusSummary(items) ==
    [total |-> Len(items),
     alerting |-> Cardinality({i \in DOMAIN items : items[i].alert}),
     topByUsage |-> First(items, LAMBDA s : TRUE,
                          LAMBDA a, b : Higher(a, b, LAMBDA s : s.ratio)),
     topBySoonest |-> First(items, LAMBDA s : s.days # None,
                            LAMBDA a, b : Lower(a, b, LAMBDA s : s.days)),
     topByGrowth |-> First(items, LAMBDA s : Positive(s.growth),
                           LAMBDA a, b : Higher(a, b, LAMBDA s : s.growth))]

-----------------------------------------------------------------------------
\* Changes between the top risks of two reports.
Named(risks) == {r.pvc : r \in ToSet(risks)}

\* Mutant: the day of grace has the wrong sign.
SoonerOrAlike(curr, prev) ==
    /\ prev.at # None /\ curr.at # None
    /\ Less(curr.at, Plus(prev.at, <<1, 1>>))

Sooner(curr, prev) ==
    /\ prev.at # None /\ curr.at # None
    /\ Less(Plus(curr.at, <<1, 1>>), prev.at)

isEscalatedRisk(prev, curr) ==
    \/ (Positive(prev.weekly) /\ Less(Times(prev.weekly, <<6, 5>>), curr.weekly))
    \/ Sooner(curr, prev)
    \/ (~prev.alert /\ curr.alert)

detectRiskChanges(prev, curr) ==
    {[pvc |-> p, type |-> "new"] : p \in Named(curr) \ Named(prev)}
    \cup {[pvc |-> p, type |-> "recovered"] : p \in Named(prev) \ Named(curr)}
    \cup {[pvc |-> c.pvc, type |-> "escalated"] :
              c \in {r \in ToSet(curr) :
                        \E q \in ToSet(prev) : q.pvc = r.pvc /\ isEscalatedRisk(q, r)}}

\* Severities of the anomalies of a signal.
AnomalyTypes == {"acceleration_spike", "trend_instability", "sudden_growth"}

Anomaly(s, type) ==
    CASE type = "acceleration_spike" ->
            Positive(s.weekly) /\ ~Less(s.accel, <<3, 4>>)
      [] type = "trend_instability" ->
            Less(Steep, Abs(s.weekly)) /\ Positive(s.r2) /\ Less(s.r2, <<7, 20>>)
      [] type = "sudden_growth" ->
            /\ Positive(s.weekly) /\ Less(Times(s.weekly, <<5, 2>>), s.daily)
            /\ Less(SuddenFloor, s.daily)

severity(s, type) ==
    IF type = "sudden_growth" \/ (type = "acceleration_spike" /\ ~Less(s.accel, <<3, 2>>))
    THEN "critical" ELSE "warning"

detectPVCAnomalies(signals) ==
    {[pvc |-> q[1].pvc, type |-> q[2], severity |-> severity(q[1], q[2])] :
        q \in {x \in ToSet(signals) \X AnomalyTypes : Anomaly(x[1], x[2])}}

-----------------------------------------------------------------------------
\* Owners of the pods that use a PVC.  A pod names its own controller and, when
\* that is a ReplicaSet or a Job, the parent that owns it; looked is what the API
\* said of the ReplicaSet or the Job.
ownerKindRank ==
    [StatefulSet |-> 1, Deployment |-> 2, DaemonSet |-> 3, CronJob |-> 4, Job |-> 5,
     ReplicaSet |-> 6, Pod |-> 7]
Rank(kind) == IF kind \in DOMAIN ownerKindRank THEN ownerKindRank[kind] ELSE 10

resolvePodOwner(pod, looked) ==
    CASE pod.kind \in {"ReplicaSet", "Job"} /\ looked = "error" -> None
      [] /\ looked = "found"
         /\ <<pod.kind, pod.parent.kind>> \in {<<"ReplicaSet", "Deployment">>, <<"Job", "CronJob">>}
           -> pod.parent
      [] OTHER -> [kind |-> pod.kind, name |-> pod.name]

\* The refs resolvePVCWorkload may return: the list has no fixed order.
NoRef == [kind |-> "", name |-> ""]
resolvePVCWorkload(pods, looked) ==
    LET refs == {resolvePodOwner(pod, looked) : pod \in pods} \ {None}
        best == {r \in refs : \A q \in refs : Rank(r.kind) <= Rank(q.kind)}
    IN  IF best = {} THEN {NoRef} ELSE best

budgetBreachProjection(used, budget, growth) ==
    IF used >= budget THEN Zero
    ELSE IF Positive(growth) THEN Remaining(budget, used, growth) ELSE None

\* b.kind = None is a budget of the whole namespace.  The kind of another one is
\* spelled as its author likes.
Charged(b, p, refs) ==
    /\ Namespace[p] = b.ns
    /\ b.kind # None => Fold(refs[p].kind) = Fold(b.kind) /\ refs[p].name = b.name

\* Budgets without a namespace, a kind, a name or a size are passed over.
Usable(b) ==
    /\ b.ns # "" /\ b.bytes > 0
    /\ b.kind # None => b.kind # "" /\ b.name # ""

buildBudgetForecasts(budgets, items, signals, refs) ==
    LET forecast(b) ==
            LET used == Total(items, LAMBDA s : IF Charged(b, s.pvc, refs) THEN s.used ELSE 0)
                growth == PlusAll(Collect(signals, LAMBDA s :
                              IF Charged(b, s.pvc, refs) THEN s.weekly ELSE Zero))
            IN  [budget |-> b, used |-> used, growth |-> growth,
                 days |-> budgetBreachProjection(used, b.bytes, growth)]
    IN  {forecast(b) : b \in {x \in budgets : Usable(x)}}

\* The labels of a forecast's gauge, and what the gauge shows: the forecasts are
\* sorted by days until breach, those without last (forecastSortLess), and of
\* several with the same labels the last one set remains.
Labels(b) == IF b.kind = None THEN <<b.ns>> ELSE <<b.ns, b.kind, b.name>>
Later(a, b) == b # None /\ (a = None \/ Less(b, a))
Remains(f, forecasts) ==
    \A g \in forecasts : Labels(g.budget) = Labels(f.budget) => ~Later(g.days, f.days)
=============================================================================
