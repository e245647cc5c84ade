-------------------------- MODULE IntegrationProofs --------------------------
(***************************************************************************)
(* Proofs about an integration run, for every set of configurations, every *)
(* number of retries and of snapshots.                                     *)
(*                                                                         *)
(* The first part is about the steps of a run: for every configuration the *)
(* stages come in order (Sorted), and what a check rests on is done right  *)
(* before it, what must be there is there, and only once (Arranged).       *)
(*                                                                         *)
(* The second part is the invariant (IntegrationInv).  Of the run: every   *)
(* step behind it is marked, unless its stage was excused by a warning.    *)
(* Of the rollout: once this run has configured the Deployment, a status   *)
(* that is current and complete is that of a pod that has served since.    *)
(* Of the plan: a time other than the one that was read first is that of a *)
(* reconcile since.  Of the deliveries: what is counted has been tried,    *)
(* and what is on record has reached the receiver, in this run or earlier. *)
(***************************************************************************)
EXTENDS Integration, FiniteSetTheorems, TLAPS

-----------------------------------------------------------------------------
\* The steps of an integration run, for every configuration.

Stages == {"context", "monitoring", "operator", "llm", "workload", "trend", "alerts"}

Rank(stage) ==
    CASE stage = "context" -> 1 [] stage = "monitoring" -> 2 [] stage = "operator" -> 3
      [] stage = "llm" -> 4 [] stage = "workload" -> 5 [] stage = "trend" -> 6
      [] stage = "alerts" -> 7

\* Calls and waits that leave the state as it is.
PlainNames ==
    {"context", "kube-system", "helm", "receiver manifests", "receiver", "CRDs",
     "prometheus operator", "stateful sets", "prometheus", "alertmanager", "find manager",
     "llm manifests", "llm", "llm pod", "/api/tags", "model", "smoke prompts", "storage",
     "annotate", "bound", "mount", "pods", "scheduled", "rule content", "manager pod",
     "metrics", "receiver pod", "/healthz", "each workload", "route"}
Plain == {"call", "wait"} \X PlainNames

\* The checks that a step "pass" passes, and the stage of that step.
PassChecks == Checks \ {"trendSignal", "growthCompare", "llmInsights"}
StageOfCheck(check) ==
    CASE check = "context" -> "context"
      [] check = "promEndpoint" -> "monitoring"
      [] check = "managerRollout" -> "operator"
      [] check = "planReconcile" -> "workload"
      [] check \in {"promRule", "managerMetrics"} -> "trend"
      [] check \in {"promAlerts", "workloadAlerts", "alertmanager"} -> "alerts"

\* The other kinds of steps, and their stage.
OtherKinds ==
    {"apply", "ensure", "refuse", "pull", "plan", "try", "observe", "compare", "conditions",
     "insights", "seen", "poll", "deliver"}
StageOfKind(kind) ==
    CASE kind \in {"apply", "ensure"} -> "operator"
      [] kind \in {"refuse", "pull"} -> "llm"
      [] kind = "plan" -> "workload"
      [] kind \in {"try", "observe", "compare", "conditions", "insights"} -> "trend"
      [] kind \in {"seen", "poll", "deliver"} -> "alerts"

Names == PlainNames \cup Checks \cup Forwards
         \cup {"manager", "plan", "alertDetails", "provider", "apply", "series", "trend",
               "growth", "alerts", "workload alerts"}
Kinds == {"call", "wait", "forward", "pass", "skip"} \cup OtherKinds

AStep(stage, p) == [stage |-> stage, kind |-> p[1], what |-> p[2]]

\* The steps that a run with configuration c may have, each where it belongs.
StepsOf(c) ==
    {s \in [stage : Stages, kind : Kinds, what : Names] :
        \/ s.kind \in {"call", "wait"} /\ s.what \in PlainNames
        \/ s.kind = "forward" /\ s.what \in Forwards
        \/ s.kind = "pass" /\ s.what \in PassChecks /\ s.stage = StageOfCheck(s.what)
        \/ s.kind \in OtherKinds /\ s.stage = StageOfKind(s.kind)
        \/ s.kind = "skip" /\ s.what = "llmInsights" /\ s.stage = "llm" /\ c.llm = "off"
        \/ s.kind = "wait" /\ s.what = "manager" /\ s.stage = "operator"
        \/ s.kind = "wait" /\ s.what = "plan" /\ s.stage = "workload"
        \/ s.kind = "call" /\ s.what = "alertDetails" /\ s.stage = "alerts"}

\* Each of the steps is one of them.
LEMMA StepsPlaced ==
    ASSUME NEW c
    PROVE  /\ \A n \in Stages : \A p \in Plain : AStep(n, p) \in StepsOf(c)
           /\ \A n \in Stages : \A f \in Forwards : AStep(n, <<"forward", f>>) \in StepsOf(c)
           /\ \A n \in PassChecks : AStep(StageOfCheck(n), <<"pass", n>>) \in StepsOf(c)
           /\ \A k \in OtherKinds : \A w \in Names : AStep(StageOfKind(k), <<k, w>>) \in StepsOf(c)
           /\ c.llm = "off" => AStep("llm", <<"skip", "llmInsights">>) \in StepsOf(c)
           /\ AStep("operator", <<"wait", "manager">>) \in StepsOf(c)
           /\ AStep("workload", <<"wait", "plan">>) \in StepsOf(c)
           /\ AStep("alerts", <<"call", "alertDetails">>) \in StepsOf(c)
<1>1. ASSUME NEW n \in Stages, NEW p \in Plain PROVE AStep(n, p) \in StepsOf(c)
    <2>1. p[1] \in {"call", "wait"} /\ p[2] \in PlainNames
        BY DEF Plain
    <2>2. QED
        BY <2>1 DEF AStep, StepsOf, Names, Kinds
<1>2. ASSUME NEW n \in Stages, NEW f \in Forwards PROVE AStep(n, <<"forward", f>>) \in StepsOf(c)
    BY DEF AStep, StepsOf, Names, Kinds
<1>3. ASSUME NEW n \in PassChecks PROVE AStep(StageOfCheck(n), <<"pass", n>>) \in StepsOf(c)
    <2>1. StageOfCheck(n) \in Stages /\ n \in Names
        BY DEF StageOfCheck, PassChecks, Checks, Stages, Names
    <2>2. QED
        BY <2>1 DEF AStep, StepsOf, Kinds
<1>4. ASSUME NEW k \in OtherKinds, NEW w \in Names
      PROVE  AStep(StageOfKind(k), <<k, w>>) \in StepsOf(c)
    <2>1. StageOfKind(k) \in Stages
        BY DEF StageOfKind, OtherKinds, Stages
    <2>2. QED
        BY <2>1 DEF AStep, StepsOf, Kinds
<1>5. /\ c.llm = "off" => AStep("llm", <<"skip", "llmInsights">>) \in StepsOf(c)
      /\ AStep("operator", <<"wait", "manager">>) \in StepsOf(c)
      /\ AStep("workload", <<"wait", "plan">>) \in StepsOf(c)
      /\ AStep("alerts", <<"call", "alertDetails">>) \in StepsOf(c)
    BY DEF AStep, StepsOf, Stages, Kinds, Names, Checks
<1>6. QED
    BY <1>1, <1>2, <1>3, <1>4, <1>5

\* Calls and waits are sequences of plain steps.
LEMMA PlainSteps ==
    \A names \in Seq(PlainNames) : Calls(names) \in Seq(Plain) /\ Waits(names) \in Seq(Plain)
<1> SUFFICES ASSUME NEW names \in Seq(PlainNames)
             PROVE  Calls(names) \in Seq(Plain) /\ Waits(names) \in Seq(Plain)
    OBVIOUS
<1>1. \A n \in PlainNames : <<"call", n>> \in Plain /\ <<"wait", n>> \in Plain
    BY DEF Plain
<1>2. /\ DOMAIN names = 1 .. Len(names) /\ Len(names) \in Nat
      /\ \A i \in DOMAIN names : names[i] \in PlainNames
    OBVIOUS
<1>3. Calls(names) \in [1 .. Len(names) -> Plain] /\ Waits(names) \in [1 .. Len(names) -> Plain]
    BY <1>1, <1>2 DEF Calls, Waits
<1>4. QED
    BY <1>2, <1>3

\* One call or wait, as a step of a larger set.
LEMMA PlainOf ==
    ASSUME NEW K, Plain \subseteq K
    PROVE  \A x \in PlainNames : Calls(<<x>>) \in Seq(K) /\ Waits(<<x>>) \in Seq(K)
<1>1. Seq(Plain) \subseteq Seq(K)
    OBVIOUS
<1>2. \A x \in PlainNames : <<x>> \in Seq(PlainNames)
    OBVIOUS
<1>3. QED
    BY <1>1, <1>2, PlainSteps

\* Concatenation: where the elements of the two parts are.
LEMMA Join ==
    ASSUME NEW S, NEW s \in Seq(S), NEW t \in Seq(S)
    PROVE  /\ s \o t \in Seq(S)
           /\ DOMAIN s = 1 .. Len(s) /\ DOMAIN t = 1 .. Len(t) /\ Len(s) \in Nat /\ Len(t) \in Nat
           /\ DOMAIN (s \o t) = 1 .. Len(s \o t) /\ Len(s \o t) = Len(s) + Len(t)
           /\ \A i \in DOMAIN s : i \in DOMAIN (s \o t) /\ (s \o t)[i] = s[i]
           /\ \A i \in DOMAIN t : Len(s) + i \in DOMAIN (s \o t) /\ (s \o t)[Len(s) + i] = t[i]
           /\ \A i \in DOMAIN (s \o t) :
                i \in DOMAIN s \/ (i - Len(s) \in DOMAIN t /\ (s \o t)[i] = t[i - Len(s)])
    OBVIOUS

\* Concatenations of steps of K are such.
LEMMA Joins == \A S : \A s, t \in Seq(S) : s \o t \in Seq(S)
    OBVIOUS

\* Sequences written out.
LEMMA Tuples ==
    \A S : \A x, y, z, v \in S :
        /\ <<x>> \in Seq(S) /\ Len(<<x>>) = 1 /\ <<x>>[1] = x
        /\ <<x, y>> \in Seq(S) /\ Len(<<x, y>>) = 2 /\ <<x, y>>[1] = x /\ <<x, y>>[2] = y
        /\ <<x, y, z>> \in Seq(S) /\ Len(<<x, y, z>>) = 3
        /\ <<x, y, z>>[1] = x /\ <<x, y, z>>[2] = y /\ <<x, y, z>>[3] = z
        /\ <<x, y, z, v>> \in Seq(S) /\ Len(<<x, y, z, v>>) = 4
        /\ <<x, y, z, v>>[1] = x /\ <<x, y, z, v>>[2] = y /\ <<x, y, z, v>>[3] = z
        /\ <<x, y, z, v>>[4] = v
    OBVIOUS

\* x is an element of s.
Has(s, x) == \E i \in DOMAIN s : s[i] = x

\* What a part has, the whole has.
LEMMA HasJoin ==
    ASSUME NEW S, NEW s \in Seq(S), NEW t \in Seq(S), NEW x
    PROVE  Has(s, x) \/ Has(t, x) => Has(s \o t, x)
<1> DEFINE r == s \o t
<1>1. /\ \A i \in DOMAIN s : i \in DOMAIN r /\ r[i] = s[i]
      /\ \A i \in DOMAIN t : Len(s) + i \in DOMAIN r /\ r[Len(s) + i] = t[i]
    BY Join
<1> HIDE DEF r
<1>2. Has(s, x) \/ Has(t, x) => Has(r, x)
    BY <1>1 DEF Has
<1>3. QED
    BY <1>2 DEF r

\* A passed check is one step.
LEMMA PassedStep ==
    ASSUME NEW K, NEW check, <<"pass", check>> \in K
    PROVE  /\ Passed(check) \in Seq(K) /\ Len(Passed(check)) = 1
           /\ Passed(check)[1] = <<"pass", check>> /\ Has(Passed(check), <<"pass", check>>)
<1> DEFINE x == <<"pass", check>>
<1>1. Passed(check) = <<x>> /\ x \in K
    BY DEF Passed
<1> HIDE DEF x
<1>2. Passed(check) \in Seq(K) /\ Len(Passed(check)) = 1 /\ Passed(check)[1] = x
    BY <1>1
<1>3. Has(Passed(check), x)
    BY <1>2 DEF Has
<1>4. QED
    BY <1>2, <1>3 DEF x

\* All steps of s are of stages in A.
Only(s, A) == \A i \in DOMAIN s : s[i].stage \in A

\* A stage has the steps it was given, under its name.
LEMMA StageSteps ==
    ASSUME NEW S, NEW K, NEW name, NEW steps \in Seq(K), \A p \in K : AStep(name, p) \in S
    PROVE  /\ Stage(name, steps) \in Seq(S) /\ Len(Stage(name, steps)) = Len(steps)
           /\ DOMAIN Stage(name, steps) = DOMAIN steps /\ DOMAIN steps = 1 .. Len(steps)
           /\ \A i \in DOMAIN steps : Stage(name, steps)[i] = AStep(name, steps[i])
           /\ Only(Stage(name, steps), {name})
           /\ \A p : Has(steps, p) => Has(Stage(name, steps), AStep(name, p))
<1>1. /\ Stage(name, steps) \in Seq(S) /\ Len(Stage(name, steps)) = Len(steps)
      /\ DOMAIN Stage(name, steps) = DOMAIN steps /\ DOMAIN steps = 1 .. Len(steps)
      /\ \A i \in DOMAIN steps : Stage(name, steps)[i] = AStep(name, steps[i])
    BY DEF Stage, AStep
<1>2. \A p : AStep(name, p).stage = name
    BY DEF AStep
<1>3. QED
    BY <1>1, <1>2 DEF Only, Has

\* The same, by position.
LEMMA StageShape ==
    \A K : \A steps \in Seq(K) : \A name :
        /\ Len(Stage(name, steps)) = Len(steps) /\ Only(Stage(name, steps), {name})
        /\ \A i \in 1 .. Len(steps) : Stage(name, steps)[i] = AStep(name, steps[i])
<1> SUFFICES ASSUME NEW K, NEW steps \in Seq(K), NEW name
             PROVE  /\ Len(Stage(name, steps)) = Len(steps) /\ Only(Stage(name, steps), {name})
                    /\ \A i \in 1 .. Len(steps) : Stage(name, steps)[i] = AStep(name, steps[i])
    OBVIOUS
<1>1. DOMAIN steps = 1 .. Len(steps) /\ Len(steps) \in Nat
    OBVIOUS
<1>2. QED
    BY <1>1 DEF Stage, Only, AStep

\* The stages come in order.
Sorted(s) == \A i, j \in DOMAIN s : i <= j => Rank(s[i].stage) <= Rank(s[j].stage)

\* The steps of a stage in s are those of p, in one piece, after the first n.
Located(s, stage, n, p) ==
    /\ n \in Nat /\ Len(p) \in Nat /\ DOMAIN p = 1 .. Len(p)
    /\ \A i \in DOMAIN p : n + i \in DOMAIN s /\ s[n + i] = p[i]
    /\ \A i \in DOMAIN s : s[i].stage = stage => i - n \in DOMAIN p

\* Joining two sorted sequences.
LEMMA SortedJoin ==
    ASSUME NEW S, NEW s \in Seq(S), NEW t \in Seq(S), NEW A, NEW B, Only(s, A), Only(t, B),
           Sorted(s), Sorted(t), \A a \in A, b \in B : Rank(a) <= Rank(b)
    PROVE  Sorted(s \o t) /\ Only(s \o t, A \cup B)
<1> DEFINE r == s \o t
<1>1. /\ \A i \in DOMAIN s : i \in DOMAIN r /\ r[i] = s[i]
      /\ \A i \in DOMAIN r : i \in DOMAIN s \/ (i - Len(s) \in DOMAIN t /\ r[i] = t[i - Len(s)])
      /\ DOMAIN s = 1 .. Len(s) /\ DOMAIN t = 1 .. Len(t) /\ Len(s) \in Nat /\ Len(t) \in Nat
      /\ DOMAIN r = 1 .. Len(r) /\ Len(r) = Len(s) + Len(t)
    BY Join
<1> HIDE DEF r
<1>2. Only(r, A \cup B)
    BY <1>1 DEF Only
<1>3. Sorted(r)
    <2>1. SUFFICES ASSUME NEW i \in DOMAIN r, NEW j \in DOMAIN r, i <= j
                   PROVE  Rank(r[i].stage) <= Rank(r[j].stage)
        BY DEF Sorted
    <2>2. CASE j \in DOMAIN s
        <3>1. i \in DOMAIN s
            BY <1>1, <2>1, <2>2
        <3>2. QED
            BY <1>1, <2>1, <2>2, <3>1 DEF Sorted
    <2>3. CASE i \notin DOMAIN s
        <3>1. j \notin DOMAIN s
            BY <1>1, <2>1, <2>3
        <3>2. /\ i - Len(s) \in DOMAIN t /\ r[i] = t[i - Len(s)]
              /\ j - Len(s) \in DOMAIN t /\ r[j] = t[j - Len(s)]
            BY <1>1, <2>3, <3>1
        <3>3. i - Len(s) <= j - Len(s)
            BY <1>1, <2>1
        <3>4. QED
            BY <3>2, <3>3 DEF Sorted
    <2>4. CASE i \in DOMAIN s /\ j \notin DOMAIN s
        BY <1>1, <2>4 DEF Only
    <2>5. QED
        BY <2>2, <2>3, <2>4
<1>4. QED
    BY <1>2, <1>3 DEF r

\* Joining more steps, of other stages, after or before those of a stage.
LEMMA LocatedJoin ==
    ASSUME NEW S, NEW s \in Seq(S), NEW t \in Seq(S), NEW A, NEW B, Only(s, A), Only(t, B),
           NEW stage, NEW n, NEW p
    PROVE  /\ Located(s, stage, n, p) /\ stage \notin B => Located(s \o t, stage, n, p)
           /\ Located(t, stage, n, p) /\ stage \notin A => Located(s \o t, stage, Len(s) + n, p)
<1> DEFINE r == s \o t
<1>1. /\ \A i \in DOMAIN s : i \in DOMAIN r /\ r[i] = s[i]
      /\ \A i \in DOMAIN t : Len(s) + i \in DOMAIN r /\ r[Len(s) + i] = t[i]
      /\ \A i \in DOMAIN r : i \in DOMAIN s \/ (i - Len(s) \in DOMAIN t /\ r[i] = t[i - Len(s)])
      /\ DOMAIN s = 1 .. Len(s) /\ DOMAIN t = 1 .. Len(t) /\ Len(s) \in Nat /\ Len(t) \in Nat
      /\ DOMAIN r = 1 .. Len(r) /\ Len(r) = Len(s) + Len(t)
    BY Join
<1> HIDE DEF r
<1>2. ASSUME Located(s, stage, n, p), stage \notin B PROVE Located(r, stage, n, p)
    BY <1>1, <1>2 DEF Located, Only
<1>3. ASSUME Located(t, stage, n, p), stage \notin A PROVE Located(r, stage, Len(s) + n, p)
    <2>0. n \in Nat /\ Len(p) \in Nat /\ DOMAIN p = 1 .. Len(p) /\ Len(s) + n \in Nat
        BY <1>1, <1>3 DEF Located
    <2>1. ASSUME NEW i \in DOMAIN p PROVE (Len(s) + n) + i \in DOMAIN r /\ r[(Len(s) + n) + i] = p[i]
        <3>1. n + i \in DOMAIN t /\ t[n + i] = p[i]
            BY <1>3 DEF Located
        <3>2. Len(s) + (n + i) \in DOMAIN r /\ r[Len(s) + (n + i)] = p[i]
            BY <1>1, <3>1
        <3>3. (Len(s) + n) + i = Len(s) + (n + i)
            BY <1>1, <2>0
        <3>4. QED
            BY <3>2, <3>3
    <2>2. ASSUME NEW i \in DOMAIN r, r[i].stage = stage PROVE i - (Len(s) + n) \in DOMAIN p
        <3>1. i \notin DOMAIN s
            BY <1>1, <1>3, <2>2 DEF Only
        <3>2. i - Len(s) \in DOMAIN t /\ t[i - Len(s)].stage = stage
            BY <1>1, <2>2, <3>1
        <3>3. (i - Len(s)) - n \in DOMAIN p
            BY <1>3, <3>2 DEF Located
        <3>4. (i - Len(s)) - n = i - (Len(s) + n)
            BY <1>1, <2>0
        <3>5. QED
            BY <3>3, <3>4
    <2>3. QED
        BY <2>0, <2>1, <2>2 DEF Located
<1>4. QED
    BY <1>2, <1>3 DEF r

\* The context is checked.
LEMMA ContextSteps ==
    ASSUME NEW c
    PROVE  /\ validateContext \in Seq(StepsOf(c)) /\ Only(validateContext, {"context"})
           /\ Has(validateContext, AStep("context", <<"pass", "context">>))
<1> DEFINE K == Plain \cup {<<"pass", "context">>}
           s == Calls(<<"context">>) \o Passed("context")
<1>1. Plain \subseteq K /\ <<"pass", "context">> \in K /\ "context" \in PlainNames
    BY DEF PlainNames
<1>2. \A p \in K : AStep("context", p) \in StepsOf(c)
    <2>1. AStep("context", <<"pass", "context">>) \in StepsOf(c)
        BY StepsPlaced DEF PassChecks, Checks, StageOfCheck
    <2>2. QED
        BY <2>1, StepsPlaced DEF Stages
<1> HIDE DEF K
<1>3. Calls(<<"context">>) \in Seq(K) /\ Passed("context") \in Seq(K)
      /\ Has(Passed("context"), <<"pass", "context">>)
    BY <1>1, PlainOf, PassedStep
<1>4. s \in Seq(K) /\ Has(s, <<"pass", "context">>)
    BY <1>3, Joins, HasJoin
<1> HIDE DEF s
<1>5. /\ Stage("context", s) \in Seq(StepsOf(c)) /\ Only(Stage("context", s), {"context"})
      /\ Has(Stage("context", s), AStep("context", <<"pass", "context">>))
    BY <1>2, <1>4, StageSteps
<1>6. QED
    BY <1>5 DEF validateContext, s

\* Prometheus is set up.
LEMMA MonitoringSteps ==
    ASSUME NEW c
    PROVE  /\ setupMonitoring \in Seq(StepsOf(c)) /\ Only(setupMonitoring, {"monitoring"})
           /\ Has(setupMonitoring, AStep("monitoring", <<"pass", "promEndpoint">>))
<1> DEFINE f == <<"forward", "prometheus">>
           g == <<"pass", "promEndpoint">>
           K == Plain \cup {f, g}
           s == waitForKubeSystemBootstrap \o installKubePrometheusStack \o ApplyAlertReceiverManifests
                \o Waits(<<"receiver">>) \o waitForCRDsEstablished \o Waits(<<"prometheus operator">>)
                \o waitForStatefulSetRollout \o startPrometheusPortForward \o Passed("promEndpoint")
<1>1. Plain \subseteq K /\ g \in K /\ f \in K
    OBVIOUS
<1>2. {"kube-system", "helm", "receiver manifests", "receiver", "CRDs", "prometheus operator",
       "stateful sets", "prometheus"}
        \subseteq PlainNames
    BY DEF PlainNames
<1>3. \A p \in K : AStep("monitoring", p) \in StepsOf(c)
    <2>1. AStep("monitoring", g) \in StepsOf(c) /\ AStep("monitoring", f) \in StepsOf(c)
        BY StepsPlaced DEF PassChecks, Checks, StageOfCheck, Stages, Forwards
    <2>2. QED
        BY <2>1, StepsPlaced DEF Stages
<1>4. Passed("promEndpoint") \in Seq(K) /\ Has(Passed("promEndpoint"), g)
    BY <1>1, PassedStep
<1> HIDE DEF K, f, g
<1>5. /\ waitForKubeSystemBootstrap \in Seq(K) /\ installKubePrometheusStack \in Seq(K)
      /\ ApplyAlertReceiverManifests \in Seq(K) /\ Waits(<<"receiver">>) \in Seq(K)
      /\ waitForCRDsEstablished \in Seq(K) /\ Waits(<<"prometheus operator">>) \in Seq(K)
      /\ waitForStatefulSetRollout \in Seq(K) /\ Waits(<<"prometheus">>) \in Seq(K)
    BY <1>1, <1>2, PlainOf DEF waitForKubeSystemBootstrap, installKubePrometheusStack,
       ApplyAlertReceiverManifests, waitForCRDsEstablished, waitForStatefulSetRollout
<1>6. startPrometheusPortForward \in Seq(K)
    <2>1. <<f>> \in Seq(K)
        BY <1>1
    <2>2. QED
        BY <1>5, <2>1, Joins DEF startPrometheusPortForward, f
<1>7. s \in Seq(K) /\ Has(s, g)
    <2> DEFINE h == waitForKubeSystemBootstrap \o installKubePrometheusStack
                    \o ApplyAlertReceiverManifests \o Waits(<<"receiver">>) \o waitForCRDsEstablished
                    \o Waits(<<"prometheus operator">>) \o waitForStatefulSetRollout
                    \o startPrometheusPortForward
    <2>1. h \in Seq(K)
        BY <1>5, <1>6, Joins
    <2> HIDE DEF h
    <2>2. h \o Passed("promEndpoint") \in Seq(K) /\ Has(h \o Passed("promEndpoint"), g)
        BY <1>4, <2>1, Joins, HasJoin
    <2>3. QED
        BY <2>2 DEF h
<1> HIDE DEF s
<1>8. /\ Stage("monitoring", s) \in Seq(StepsOf(c)) /\ Only(Stage("monitoring", s), {"monitoring"})
      /\ Has(Stage("monitoring", s), AStep("monitoring", g))
    BY <1>3, <1>7, StageSteps
<1>9. QED
    BY <1>8 DEF setupMonitoring, s, g

\* A sequence of steps of H, and then two or three others.
LEMMA Ending ==
    ASSUME NEW H, NEW K, H \subseteq K, NEW h \in Seq(H), NEW x \in K, NEW y \in K, NEW z \in K
    PROVE  /\ Len(h) \in Nat
           /\ LET r == h \o <<x>> \o <<y>>
              IN  /\ r \in Seq(K) /\ Len(r) = Len(h) + 2 /\ \A i \in 1 .. Len(h) : r[i] \in H
                  /\ r[Len(h) + 1] = x /\ r[Len(h) + 2] = y
           /\ LET r == h \o <<x, y>> \o <<z>>
              IN  /\ r \in Seq(K) /\ Len(r) = Len(h) + 3 /\ \A i \in 1 .. Len(h) : r[i] \in H
                  /\ r[Len(h) + 1] = x /\ r[Len(h) + 2] = y /\ r[Len(h) + 3] = z
<1>1. h \in Seq(K) /\ Len(h) \in Nat /\ \A i \in 1 .. Len(h) : h[i] \in H
    OBVIOUS
<1>2. ASSUME NEW s \in Seq(K), NEW v \in K
      PROVE  /\ s \o <<v>> \in Seq(K) /\ Len(s \o <<v>>) = Len(s) + 1 /\ (s \o <<v>>)[Len(s) + 1] = v
             /\ \A i \in 1 .. Len(s) : (s \o <<v>>)[i] = s[i]
    OBVIOUS
<1> DEFINE q == h \o <<x>>
           r == q \o <<y>>
<1>3. /\ q \in Seq(K) /\ Len(q) = Len(h) + 1 /\ q[Len(h) + 1] = x
      /\ \A i \in 1 .. Len(h) : q[i] = h[i]
    BY <1>1, <1>2
<1> HIDE DEF q
<1>4. /\ r \in Seq(K) /\ Len(r) = Len(q) + 1 /\ r[Len(q) + 1] = y
      /\ \A i \in 1 .. Len(q) : r[i] = q[i]
    BY <1>2, <1>3
<1> HIDE DEF r
<1>5. /\ r \in Seq(K) /\ Len(r) = Len(h) + 2 /\ \A i \in 1 .. Len(h) : r[i] \in H
      /\ r[Len(h) + 1] = x /\ r[Len(h) + 2] = y
    BY <1>1, <1>3, <1>4
<1> DEFINE u == h \o <<x, y>>
           t == u \o <<z>>
<1>6. /\ u \in Seq(K) /\ Len(u) = Len(h) + 2 /\ u[Len(h) + 1] = x /\ u[Len(h) + 2] = y
      /\ \A i \in 1 .. Len(h) : u[i] = h[i]
    BY <1>1
<1> HIDE DEF u
<1>7. /\ t \in Seq(K) /\ Len(t) = Len(u) + 1 /\ t[Len(u) + 1] = z
      /\ \A i \in 1 .. Len(u) : t[i] = u[i]
    BY <1>2, <1>6
<1> HIDE DEF t
<1>8. /\ t \in Seq(K) /\ Len(t) = Len(h) + 3 /\ \A i \in 1 .. Len(h) : t[i] \in H
      /\ t[Len(h) + 1] = x /\ t[Len(h) + 2] = y /\ t[Len(h) + 3] = z
    BY <1>1, <1>6, <1>7
<1>9. QED
    BY <1>1, <1>5, <1>8 DEF q, r, u, t

\* What is not among the plain steps.
LEMMA PlainKinds ==
    /\ \A p \in Plain : p[1] \in {"call", "wait"} /\ p[2] \in PlainNames
    /\ {"manager", "plan", "alertDetails"} \cap PlainNames = {}
<1>1. {"manager", "plan", "alertDetails"} \cap PlainNames = {}
    BY DEF PlainNames
<1>2. QED
    BY <1>1 DEF Plain

\* The manager is deployed: its manifests are applied, then its Deployment is
\* configured, its rollout waited for and the check passed one right after the other,
\* and only there.
LEMMA OperatorSteps ==
    ASSUME NEW c
    PROVE  /\ deployOperator \in Seq(StepsOf(c)) /\ Only(deployOperator, {"operator"})
           /\ \E n \in Nat :
                /\ Len(deployOperator) = n + 3
                /\ deployOperator[n + 1] = AStep("operator", <<"ensure", "manager">>)
                /\ deployOperator[n + 2] = AStep("operator", <<"wait", "manager">>)
                /\ deployOperator[n + 3] = AStep("operator", <<"pass", "managerRollout">>)
                /\ \A i \in 1 .. n : /\ deployOperator[i].kind \in {"call", "wait", "apply"}
                                     /\ deployOperator[i].kind = "wait" => deployOperator[i].what # "manager"
                /\ \E i \in 1 .. n : deployOperator[i].kind = "apply"
<1> DEFINE e == <<"ensure", "manager">>
           w == <<"wait", "manager">>
           g == <<"pass", "managerRollout">>
           a == <<"apply", "manager">>
           H == Plain \cup {a}
           K == H \cup {e, w, g}
           h == Calls(<<"CRDs">>) \o <<a>> \o Calls(<<"find manager">>)
           s == h \o <<e, w>> \o <<g>>
           d == Stage("operator", s)
<1>1. \A p \in K : AStep("operator", p) \in StepsOf(c)
    <2>1. /\ AStep("operator", e) \in StepsOf(c) /\ AStep("operator", w) \in StepsOf(c)
          /\ AStep("operator", g) \in StepsOf(c) /\ AStep("operator", a) \in StepsOf(c)
        BY StepsPlaced DEF PassChecks, Checks, StageOfCheck, StageOfKind, OtherKinds, Names
    <2>2. QED
        BY <2>1, StepsPlaced DEF Stages
<1>2. \A p \in H : p[1] \in {"call", "wait", "apply"} /\ (p[1] = "wait" => p[2] # "manager")
    <2>1. a[1] = "apply"
        OBVIOUS
    <2>2. QED
        BY <2>1, PlainKinds
<1>3. h \in Seq(H)
    <2>1. {"CRDs", "find manager"} \subseteq PlainNames
        BY DEF PlainNames
    <2>2. Plain \subseteq H /\ a \in H
        OBVIOUS
    <2> HIDE DEF H, a
    <2>3. <<a>> \in Seq(H)
        BY <2>2
    <2>4. QED
        BY <2>1, <2>2, <2>3, PlainOf, Joins
<1>3a. Has(h, a)
    <2> DEFINE x == Calls(<<"CRDs">>)
               y == Calls(<<"find manager">>)
    <2>1. {"CRDs", "find manager"} \subseteq PlainNames
        BY DEF PlainNames
    <2>2. Plain \subseteq H /\ a \in H
        OBVIOUS
    <2> HIDE DEF H, a
    <2>3. <<a>> \in Seq(H) /\ Has(<<a>>, a)
        BY <2>2 DEF Has
    <2>4. x \in Seq(H) /\ y \in Seq(H)
        BY <2>1, <2>2, PlainOf
    <2> HIDE DEF x, y
    <2>5. x \o <<a>> \in Seq(H) /\ Has(x \o <<a>>, a)
        BY <2>3, <2>4, Joins, HasJoin
    <2>6. Has((x \o <<a>>) \o y, a)
        BY <2>4, <2>5, HasJoin
    <2>7. QED
        BY <2>6 DEF x, y
<1>3b. a[1] = "apply"
    OBVIOUS
<1>4. deployOperator = d
    BY DEF deployOperator, Passed
<1>5. H \subseteq K /\ e \in K /\ w \in K /\ g \in K
    OBVIOUS
<1> HIDE DEF K, H, a, e, w, g, h
<1>6. /\ Len(h) \in Nat
      /\ s \in Seq(K) /\ Len(s) = Len(h) + 3 /\ \A i \in 1 .. Len(h) : s[i] \in H
      /\ s[Len(h) + 1] = e /\ s[Len(h) + 2] = w /\ s[Len(h) + 3] = g
    BY <1>3, <1>5, Ending
<1> HIDE DEF s
<1>7. /\ d \in Seq(StepsOf(c)) /\ Only(d, {"operator"}) /\ Len(d) = Len(s)
      /\ \A i \in 1 .. Len(s) : d[i] = AStep("operator", s[i])
    <2>1. s \in Seq(K)
        BY <1>6
    <2>2. QED
        BY <1>1, <2>1, StageSteps, StageShape
<1> HIDE DEF d
<1>8. \A i \in 1 .. Len(h) : /\ d[i].kind \in {"call", "wait", "apply"}
                             /\ d[i].kind = "wait" => d[i].what # "manager"
    <2>1. TAKE i \in 1 .. Len(h)
    <2>2. d[i] = AStep("operator", s[i]) /\ s[i] \in H
        BY <1>6, <1>7
    <2>3. QED
        BY <1>2, <2>2 DEF AStep
<1>9. /\ d[Len(h) + 1] = AStep("operator", e) /\ d[Len(h) + 2] = AStep("operator", w)
      /\ d[Len(h) + 3] = AStep("operator", g)
    BY <1>6, <1>7
<1>10. \E i \in 1 .. Len(h) : d[i].kind = "apply"
    <2>1. PICK i \in DOMAIN h : h[i] = a
        BY <1>3a DEF Has
    <2>2. i \in 1 .. Len(h) /\ s[i] = h[i]
        BY <1>3, <2>1 DEF s
    <2>3. d[i] = AStep("operator", a)
        BY <1>6, <1>7, <2>1, <2>2
    <2>4. QED
        BY <1>3b, <2>2, <2>3 DEF AStep
<1>11. QED
    BY <1>4, <1>6, <1>7, <1>8, <1>9, <1>10 DEF e, w, g

\* The LLM's backend is deployed, or is skipped or refused.
LEMMA LLMSteps ==
    ASSUME NEW c \in Configs
    PROVE  deployLLMBackend(c) \in Seq(StepsOf(c)) /\ Only(deployLLMBackend(c), {"llm"})
<1>1. c.llm \in {"off", "ollama", "unsupported"}
    BY ConfigAssumption DEF Config
<1>2. ASSUME NEW K, NEW s \in Seq(K), \A p \in K : AStep("llm", p) \in StepsOf(c),
             deployLLMBackend(c) = Stage("llm", s)
      PROVE  deployLLMBackend(c) \in Seq(StepsOf(c)) /\ Only(deployLLMBackend(c), {"llm"})
    <2>1. Stage("llm", s) \in Seq(StepsOf(c))
        BY <1>2, StageSteps
    <2>2. Only(Stage("llm", s), {"llm"})
        BY <1>2, StageShape
    <2>3. QED
        BY <1>2, <2>1, <2>2
<1>3. CASE c.llm = "off"
    <2> DEFINE k == <<"skip", "llmInsights">>
               K == {k}
    <2>1. deployLLMBackend(c) = Stage("llm", <<k>>)
        BY <1>3 DEF deployLLMBackend
    <2>2. AStep("llm", k) \in StepsOf(c)
        BY <1>3, StepsPlaced
    <2> HIDE DEF k
    <2>3. <<k>> \in Seq(K) /\ \A p \in K : AStep("llm", p) \in StepsOf(c)
        BY <2>2
    <2> HIDE DEF K
    <2>4. QED
        BY <1>2, <2>1, <2>3
<1>4. CASE c.llm = "unsupported"
    <2> DEFINE k == <<"refuse", "provider">>
               K == {k}
    <2>1. deployLLMBackend(c) = Stage("llm", <<k>>)
        BY <1>4 DEF deployLLMBackend
    <2>2. AStep("llm", k) \in StepsOf(c)
        BY <1>4, StepsPlaced DEF OtherKinds, StageOfKind, Names
    <2> HIDE DEF k
    <2>3. <<k>> \in Seq(K) /\ \A p \in K : AStep("llm", p) \in StepsOf(c)
        BY <2>2
    <2> HIDE DEF K
    <2>4. QED
        BY <1>2, <2>1, <2>3
<1>5. CASE c.llm = "ollama"
    <2> DEFINE f == <<"forward", "llm">>
               t == <<"wait", "/api/tags">>
               m == <<"pull", "model">>
               w == <<"wait", "model">>
               K == Plain \cup {f, m}
               s == ApplyLLMManifests \o Waits(<<"llm">>) \o Calls(<<"llm pod">>)
                    \o <<f, t, m, w>> \o Calls(<<"smoke prompts">>)
    <2>1. deployLLMBackend(c) = Stage("llm", s)
        BY <1>5 DEF deployLLMBackend
    <2>2. {"llm manifests", "llm", "llm pod", "/api/tags", "model", "smoke prompts"}
            \subseteq PlainNames
        BY DEF PlainNames
    <2>3. t \in Plain /\ w \in Plain
        BY <2>2 DEF Plain
    <2>4. f \in K /\ t \in K /\ m \in K /\ w \in K /\ Plain \subseteq K
        BY <2>3
    <2>5. AStep("llm", f) \in StepsOf(c) /\ AStep("llm", m) \in StepsOf(c)
        BY StepsPlaced DEF OtherKinds, StageOfKind, Names, PlainNames, Forwards, Stages
    <2>6. \A p \in K : AStep("llm", p) \in StepsOf(c)
        BY <2>5, StepsPlaced DEF Stages
    <2> HIDE DEF f, t, m, w, K
    <2>7. <<f, t, m, w>> \in Seq(K)
        BY <2>4
    <2>8. /\ ApplyLLMManifests \in Seq(K) /\ Waits(<<"llm">>) \in Seq(K)
          /\ Calls(<<"llm pod">>) \in Seq(K) /\ Calls(<<"smoke prompts">>) \in Seq(K)
        BY <2>2, <2>4, PlainOf DEF ApplyLLMManifests
    <2>9. s \in Seq(K)
        BY <2>7, <2>8, Joins
    <2> HIDE DEF s
    <2>10. QED
        BY <1>2, <2>1, <2>6, <2>9
<1>6. QED
    BY <1>1, <1>3, <1>4, <1>5

WorkloadStage == Stage("workload",
    Calls(<<"storage">>) \o dedicatePVCBackends \o Calls(<<"pods">>) \o waitForPodsScheduled
    \o <<<<"plan", "apply">>, <<"wait", "plan">>>> \o Passed("planReconcile"))

\* The workload is deployed and then the plan: applied, waited for, passed.
LEMMA WorkloadSteps ==
    ASSUME NEW c
    PROVE  /\ WorkloadStage \in Seq(StepsOf(c)) /\ Only(WorkloadStage, {"workload"})
           /\ \E n \in Nat :
                /\ Len(WorkloadStage) = n + 3
                /\ WorkloadStage[n + 1] = AStep("workload", <<"plan", "apply">>)
                /\ WorkloadStage[n + 2] = AStep("workload", <<"wait", "plan">>)
                /\ WorkloadStage[n + 3] = AStep("workload", <<"pass", "planReconcile">>)
                /\ \A i \in 1 .. n : /\ WorkloadStage[i].kind \in {"call", "wait"}
                                     /\ WorkloadStage[i].what # "plan"
<1> DEFINE e == <<"plan", "apply">>
           w == <<"wait", "plan">>
           g == <<"pass", "planReconcile">>
           H == Plain
           K == H \cup {e, w, g}
           h == Calls(<<"storage">>) \o dedicatePVCBackends \o Calls(<<"pods">>) \o waitForPodsScheduled
           s == h \o <<e, w>> \o <<g>>
           d == Stage("workload", s)
<1>1. \A p \in K : AStep("workload", p) \in StepsOf(c)
    <2>1. /\ AStep("workload", e) \in StepsOf(c) /\ AStep("workload", w) \in StepsOf(c)
          /\ AStep("workload", g) \in StepsOf(c)
        BY StepsPlaced DEF PassChecks, Checks, StageOfCheck, StageOfKind, OtherKinds, Names
    <2>2. QED
        BY <2>1, StepsPlaced DEF Stages
<1>2. \A p \in H : p[1] \in {"call", "wait"} /\ p[2] # "plan"
    BY PlainKinds
<1>3. h \in Seq(H)
    <2>1. {"storage", "pods", "scheduled", "bound", "annotate", "mount"} \subseteq PlainNames
        BY DEF PlainNames
    <2>2. Plain \subseteq H
        OBVIOUS
    <2> HIDE DEF H
    <2>3. dedicatePVCBackends \in Seq(H)
        BY <2>1, <2>2, PlainOf, Joins DEF dedicatePVCBackends, waitForPVCsBound
    <2>4. QED
        BY <2>1, <2>2, <2>3, PlainOf, Joins DEF waitForPodsScheduled
<1>4. WorkloadStage = d
    BY DEF WorkloadStage, Passed
<1>5. H \subseteq K /\ e \in K /\ w \in K /\ g \in K
    OBVIOUS
<1> HIDE DEF K, H, e, w, g, h
<1>6. /\ Len(h) \in Nat
      /\ s \in Seq(K) /\ Len(s) = Len(h) + 3 /\ \A i \in 1 .. Len(h) : s[i] \in H
      /\ s[Len(h) + 1] = e /\ s[Len(h) + 2] = w /\ s[Len(h) + 3] = g
    BY <1>3, <1>5, Ending
<1> HIDE DEF s
<1>7. /\ d \in Seq(StepsOf(c)) /\ Only(d, {"workload"}) /\ Len(d) = Len(s)
      /\ \A i \in 1 .. Len(s) : d[i] = AStep("workload", s[i])
    <2>1. s \in Seq(K)
        BY <1>6
    <2>2. QED
        BY <1>1, <2>1, StageSteps, StageShape
<1> HIDE DEF d
<1>8. \A i \in 1 .. Len(h) : d[i].kind \in {"call", "wait"} /\ d[i].what # "plan"
    <2>1. TAKE i \in 1 .. Len(h)
    <2>2. d[i] = AStep("workload", s[i]) /\ s[i] \in H
        BY <1>6, <1>7
    <2>3. QED
        BY <1>2, <2>2 DEF AStep
<1>9. /\ d[Len(h) + 1] = AStep("workload", e) /\ d[Len(h) + 2] = AStep("workload", w)
      /\ d[Len(h) + 3] = AStep("workload", g)
    BY <1>6, <1>7
<1>10. QED
    BY <1>4, <1>6, <1>7, <1>8, <1>9 DEF e, w, g

\* The trend is observed and compared, the plan and the rule looked at, and last
\* the metrics and the insights.
LEMMA TrendSteps ==
    ASSUME NEW c
    PROVE  /\ runTrendAndPolicyChecks \in Seq(StepsOf(c)) /\ Only(runTrendAndPolicyChecks, {"trend"})
           /\ Has(runTrendAndPolicyChecks, AStep("trend", <<"observe", "trend">>))
           /\ Has(runTrendAndPolicyChecks, AStep("trend", <<"compare", "growth">>))
           /\ Has(runTrendAndPolicyChecks, AStep("trend", <<"conditions", "plan">>))
           /\ Has(runTrendAndPolicyChecks, AStep("trend", <<"pass", "promRule">>))
           /\ \E n \in Nat :
                /\ Len(runTrendAndPolicyChecks) = n + 2
                /\ runTrendAndPolicyChecks[n + 1] = AStep("trend", <<"pass", "managerMetrics">>)
                /\ runTrendAndPolicyChecks[n + 2] = AStep("trend", <<"insights", "llm">>)
                /\ \A i \in 1 .. n : /\ runTrendAndPolicyChecks[i].kind # "insights"
                                     /\ runTrendAndPolicyChecks[i].what # "managerMetrics"
<1> DEFINE a == <<"try", "series">>
           o == <<"observe", "trend">>
           v == <<"compare", "growth">>
           b == <<"conditions", "plan">>
           f == <<"forward", "manager">>
           r == <<"pass", "promRule">>
           g == <<"pass", "managerMetrics">>
           x == <<"insights", "llm">>
           H == Plain \cup {a, o, v, b, f, r}
           K == H \cup {g, x}
           p1 == <<a, o, v, b>> \o Calls(<<"rule content">>)
           p2 == p1 \o Passed("promRule")
           h == p2 \o startManagerMetricsPortForward
           s == h \o <<g>> \o <<x>>
           d == Stage("trend", s)
<1>1. \A p \in K : AStep("trend", p) \in StepsOf(c)
    <2>1. /\ AStep("trend", a) \in StepsOf(c) /\ AStep("trend", o) \in StepsOf(c)
          /\ AStep("trend", v) \in StepsOf(c) /\ AStep("trend", b) \in StepsOf(c)
          /\ AStep("trend", x) \in StepsOf(c)
        BY StepsPlaced DEF StageOfKind, OtherKinds, Names, PlainNames
    <2>2. /\ AStep("trend", f) \in StepsOf(c) /\ AStep("trend", r) \in StepsOf(c)
          /\ AStep("trend", g) \in StepsOf(c)
        BY StepsPlaced DEF PassChecks, Checks, StageOfCheck, Stages, Forwards
    <2>3. QED
        BY <2>1, <2>2, StepsPlaced DEF Stages
<1>2. \A p \in H : p[1] # "insights" /\ p[2] # "managerMetrics"
    <2>1. "managerMetrics" \notin PlainNames
        BY DEF PlainNames
    <2>2. \A p \in Plain : p[1] # "insights" /\ p[2] # "managerMetrics"
        BY <2>1, PlainKinds
    <2>3. \A p \in {a, o, v, b, f, r} : p[1] # "insights" /\ p[2] # "managerMetrics"
        OBVIOUS
    <2>4. QED
        BY <2>2, <2>3
<1>3. {"rule content", "manager pod", "metrics"} \subseteq PlainNames
    BY DEF PlainNames
<1>4. /\ Plain \subseteq H /\ a \in H /\ o \in H /\ v \in H /\ b \in H /\ f \in H /\ r \in H
      /\ H \subseteq K /\ g \in K /\ x \in K
    OBVIOUS
<1>5. runTrendAndPolicyChecks = d
    BY DEF runTrendAndPolicyChecks, Passed
<1>6. startManagerMetricsPortForward = Calls(<<"manager pod">>) \o <<f>> \o Waits(<<"metrics">>)
    BY DEF startManagerMetricsPortForward
<1>7. Passed("promRule") = <<r>>
    BY DEF Passed
<1> HIDE DEF a, o, v, b, f, r, g, x, H, K
<1>8. /\ <<a, o, v, b>> \in Seq(H) /\ <<f>> \in Seq(H) /\ <<r>> \in Seq(H)
      /\ Has(<<a, o, v, b>>, o) /\ Has(<<a, o, v, b>>, v) /\ Has(<<a, o, v, b>>, b) /\ Has(<<r>>, r)
    <2>1. /\ <<a, o, v, b>> \in Seq(H) /\ <<f>> \in Seq(H) /\ <<r>> \in Seq(H)
        BY <1>4
    <2>2. Has(<<a, o, v, b>>, o) /\ Has(<<a, o, v, b>>, v) /\ Has(<<a, o, v, b>>, b) /\ Has(<<r>>, r)
        <3>1. /\ 2 \in DOMAIN <<a, o, v, b>> /\ 3 \in DOMAIN <<a, o, v, b>> /\ 4 \in DOMAIN <<a, o, v, b>>
              /\ <<a, o, v, b>>[2] = o /\ <<a, o, v, b>>[3] = v /\ <<a, o, v, b>>[4] = b
              /\ 1 \in DOMAIN <<r>> /\ <<r>>[1] = r
            OBVIOUS
        <3>2. QED
            BY <3>1, Zenon DEF Has
    <2>3. QED
        BY <2>1, <2>2
<1>9. /\ Calls(<<"rule content">>) \in Seq(H) /\ Calls(<<"manager pod">>) \in Seq(H)
      /\ Waits(<<"metrics">>) \in Seq(H)
    BY <1>3, <1>4, PlainOf
<1>10. p1 \in Seq(H) /\ Has(p1, o) /\ Has(p1, v) /\ Has(p1, b)
    BY <1>8, <1>9, Joins, HasJoin
<1> HIDE DEF p1
<1>11. p2 \in Seq(H) /\ Has(p2, o) /\ Has(p2, v) /\ Has(p2, b) /\ Has(p2, r)
    BY <1>7, <1>8, <1>10, Joins, HasJoin
<1> HIDE DEF p2
<1>12. startManagerMetricsPortForward \in Seq(H)
    BY <1>6, <1>8, <1>9, Joins
<1>13. h \in Seq(H) /\ Has(h, o) /\ Has(h, v) /\ Has(h, b) /\ Has(h, r)
    BY <1>11, <1>12, Joins, HasJoin
<1> HIDE DEF h
<1>14. /\ Len(h) \in Nat
       /\ s \in Seq(K) /\ Len(s) = Len(h) + 2 /\ \A i \in 1 .. Len(h) : s[i] \in H
       /\ s[Len(h) + 1] = g /\ s[Len(h) + 2] = x
    BY <1>4, <1>13, Ending
<1>15. Has(s, o) /\ Has(s, v) /\ Has(s, b) /\ Has(s, r)
    <2>1. h \in Seq(K) /\ <<g>> \in Seq(K) /\ <<x>> \in Seq(K)
        BY <1>4, <1>13
    <2>2. h \o <<g>> \in Seq(K)
        BY <2>1, Joins
    <2>3. Has(h \o <<g>>, o) /\ Has(h \o <<g>>, v) /\ Has(h \o <<g>>, b) /\ Has(h \o <<g>>, r)
        BY <1>13, <2>1, HasJoin
    <2>4. QED
        BY <2>1, <2>2, <2>3, HasJoin
<1> HIDE DEF s
<1>16. s \in Seq(K)
    BY <1>14
<1>17. /\ d \in Seq(StepsOf(c)) /\ Only(d, {"trend"}) /\ Len(d) = Len(s)
       /\ \A i \in 1 .. Len(s) : d[i] = AStep("trend", s[i])
    BY <1>1, <1>16, StageSteps, StageShape
<1>18. /\ Has(d, AStep("trend", o)) /\ Has(d, AStep("trend", v)) /\ Has(d, AStep("trend", b))
       /\ Has(d, AStep("trend", r))
    BY <1>1, <1>15, <1>16, StageSteps
<1> HIDE DEF d
<1>19. \A i \in 1 .. Len(h) : d[i].kind # "insights" /\ d[i].what # "managerMetrics"
    <2>1. TAKE i \in 1 .. Len(h)
    <2>2. d[i] = AStep("trend", s[i]) /\ s[i] \in H
        BY <1>14, <1>17
    <2>3. QED
        BY <1>2, <2>2 DEF AStep
<1>20. d[Len(h) + 1] = AStep("trend", g) /\ d[Len(h) + 2] = AStep("trend", x)
    BY <1>14, <1>17
<1>21. QED
    BY <1>5, <1>14, <1>17, <1>18, <1>19, <1>20 DEF o, v, b, r, g, x

\* One call.
LEMMA OneCall == \A n : Calls(<<n>>) = <<<<"call", n>>>>
    BY DEF Calls

\* r begins with q, goes on with two more steps of H, and ends with x, y and z.
Finishes(r, q, H, K, x, y, z) ==
    /\ Len(q) + 2 \in Nat /\ r \in Seq(K) /\ Len(r) = (Len(q) + 2) + 3
    /\ \A i \in 1 .. Len(q) + 2 : r[i] \in H
    /\ r[(Len(q) + 2) + 1] = x /\ r[(Len(q) + 2) + 2] = y /\ r[(Len(q) + 2) + 3] = z
    /\ \A u : Has(q, u) => Has(r, u)

\* A sequence of steps of H, two more of them, and then three others.
LEMMA LongEnding ==
    ASSUME NEW H, NEW K, H \subseteq K, NEW q \in Seq(H), NEW v \in H, NEW w \in H,
           NEW x \in K, NEW y \in K, NEW z \in K
    PROVE  Finishes(q \o <<v, w, x>> \o <<y>> \o <<z>>, q, H, K, x, y, z)
<1>1. q \in Seq(K) /\ Len(q) \in Nat /\ \A i \in 1 .. Len(q) : q[i] \in H
    OBVIOUS
<1>2. ASSUME NEW s \in Seq(K), NEW u \in K
      PROVE  /\ s \o <<u>> \in Seq(K) /\ Len(s \o <<u>>) = Len(s) + 1 /\ (s \o <<u>>)[Len(s) + 1] = u
             /\ \A i \in 1 .. Len(s) : (s \o <<u>>)[i] = s[i]
    OBVIOUS
<1> DEFINE a == q \o <<v, w, x>>
           b == a \o <<y>>
           r == b \o <<z>>
<1>3. /\ a \in Seq(K) /\ Len(a) = Len(q) + 3
      /\ a[Len(q) + 1] = v /\ a[Len(q) + 2] = w /\ a[Len(q) + 3] = x
      /\ \A i \in 1 .. Len(q) : a[i] = q[i]
    <2>1. v \in K /\ w \in K
        OBVIOUS
    <2>2. QED
        BY <1>1, <2>1
<1> HIDE DEF a
<1>4. /\ b \in Seq(K) /\ Len(b) = Len(a) + 1 /\ b[Len(a) + 1] = y
      /\ \A i \in 1 .. Len(a) : b[i] = a[i]
    BY <1>2, <1>3
<1> HIDE DEF b
<1>5. /\ r \in Seq(K) /\ Len(r) = Len(b) + 1 /\ r[Len(b) + 1] = z
      /\ \A i \in 1 .. Len(b) : r[i] = b[i]
    BY <1>2, <1>4
<1> HIDE DEF r
<1> DEFINE n == Len(q) + 2
<1>6. /\ n \in Nat /\ r \in Seq(K) /\ Len(r) = n + 3
      /\ r[n + 1] = x /\ r[n + 2] = y /\ r[n + 3] = z
    <2>1. Len(a) = n + 1 /\ Len(b) = n + 2 /\ Len(r) = n + 3 /\ n \in Nat
        BY <1>1, <1>3, <1>4, <1>5
    <2>2. a[n + 1] = x
        BY <1>1, <1>3
    <2> HIDE DEF n
    <2>3. n + 1 \in 1 .. Len(a) /\ n + 1 \in 1 .. Len(b) /\ n + 2 \in 1 .. Len(b)
        BY <2>1
    <2>4. r[n + 1] = a[n + 1]
        BY <1>4, <1>5, <2>3
    <2>5. b[n + 2] = y /\ r[n + 3] = z
        <3>1. (n + 1) + 1 = n + 2 /\ (n + 2) + 1 = n + 3
            BY <2>1
        <3>2. QED
            BY <1>4, <1>5, <2>1, <3>1
    <2>6. r[n + 2] = b[n + 2]
        BY <1>5, <2>3
    <2>7. QED
        BY <1>5, <2>1, <2>2, <2>4, <2>5, <2>6
<1>7. \A i \in 1 .. Len(q) : r[i] = q[i]
    BY <1>1, <1>3, <1>4, <1>5
<1>8. \A i \in 1 .. n : r[i] \in H
    <2>1. Len(q) + 1 \in 1 .. Len(a) /\ Len(q) + 2 \in 1 .. Len(a)
        BY <1>1, <1>3
    <2>2. \A i \in 1 .. Len(a) : r[i] = a[i]
        BY <1>3, <1>4, <1>5
    <2>3. r[Len(q) + 1] = v /\ r[Len(q) + 2] = w
        BY <1>3, <2>1, <2>2
    <2>4. \A i \in 1 .. n : i \in 1 .. Len(q) \/ i = Len(q) + 1 \/ i = Len(q) + 2
        BY <1>1
    <2>5. QED
        BY <1>1, <1>7, <2>3, <2>4
<1>9. \A u : Has(q, u) => Has(r, u)
    <2>1. DOMAIN q = 1 .. Len(q) /\ DOMAIN r = 1 .. Len(r) /\ Len(q) <= Len(r)
        BY <1>1, <1>6
    <2>2. \A i \in DOMAIN q : i \in DOMAIN r /\ r[i] = q[i]
        BY <1>1, <1>6, <1>7, <2>1
    <2>3. QED
        BY <2>2, Zenon DEF Has
<1>10. QED
    BY <1>6, <1>8, <1>9 DEF r, b, a, Finishes

\* The alerts are verified: their delivery, their details and the last check
\* come last, in that order, and only there.
LEMMA VerifyAlertsSteps ==
    \E H, K :
        /\ H \subseteq K
        /\ \A p \in H : /\ p[1] # "deliver" /\ p[2] # "alertDetails"
                        /\ ~(p[1] = "pass" /\ p[2] = "alertmanager")
        /\ \A c : \A p \in K : AStep("alerts", p) \in StepsOf(c)
        /\ Plain \subseteq H /\ \A f \in Forwards : <<"forward", f>> \in H
        /\ verifyAlerts \in Seq(K)
        /\ Has(verifyAlerts, <<"pass", "promAlerts">>) /\ Has(verifyAlerts, <<"pass", "workloadAlerts">>)
        /\ \E n \in Nat :
            /\ Len(verifyAlerts) = n + 3 /\ \A i \in 1 .. n : verifyAlerts[i] \in H
            /\ verifyAlerts[n + 1] = <<"deliver", "receiver">>
            /\ verifyAlerts[n + 2] = <<"call", "alertDetails">>
            /\ verifyAlerts[n + 3] = <<"pass", "alertmanager">>
<1> DEFINE a == <<"seen", "alerts">>
           b == <<"pass", "promAlerts">>
           f == <<"poll", "workload alerts">>
           g == <<"pass", "workloadAlerts">>
           m == <<"poll", "alertmanager">>
           w == <<"wait", "route">>
           x == <<"deliver", "receiver">>
           y == <<"call", "alertDetails">>
           z == <<"pass", "alertmanager">>
           Fs == {<<"forward", n>> : n \in Forwards}
           H == Plain \cup Fs \cup {a, b, f, g, m, w}
           K == H \cup {x, y, z}
           p1 == <<a>> \o <<b>>
           p2 == p1 \o <<f>> \o Calls(<<"each workload">>)
           p3 == p2 \o <<g>>
           s == p3 \o <<m, w, x>> \o <<y>> \o <<z>>
<1>1. \A c : \A p \in K : AStep("alerts", p) \in StepsOf(c)
    <2> TAKE c
    <2>1. /\ AStep("alerts", a) \in StepsOf(c) /\ AStep("alerts", f) \in StepsOf(c)
          /\ AStep("alerts", m) \in StepsOf(c) /\ AStep("alerts", x) \in StepsOf(c)
        BY StepsPlaced DEF StageOfKind, OtherKinds, Names, PlainNames
    <2>2. /\ AStep("alerts", b) \in StepsOf(c) /\ AStep("alerts", g) \in StepsOf(c)
          /\ AStep("alerts", z) \in StepsOf(c) /\ AStep("alerts", y) \in StepsOf(c)
        BY StepsPlaced DEF PassChecks, Checks, StageOfCheck
    <2>3. AStep("alerts", w) \in StepsOf(c) /\ \A p \in Plain : AStep("alerts", p) \in StepsOf(c)
        <3>1. w \in Plain /\ "alerts" \in Stages
            BY DEF Plain, PlainNames, Stages
        <3>2. QED
            BY <3>1, StepsPlaced
    <2>4. \A p \in Fs : AStep("alerts", p) \in StepsOf(c)
        BY StepsPlaced DEF Stages
    <2>5. QED
        BY <2>1, <2>2, <2>3, <2>4
<1>2. \A p \in H : /\ p[1] # "deliver" /\ p[2] # "alertDetails"
                   /\ ~(p[1] = "pass" /\ p[2] = "alertmanager")
    <2>1. \A p \in Plain : p[1] # "deliver" /\ p[2] # "alertDetails" /\ p[1] # "pass"
        BY PlainKinds
    <2>2. \A p \in Fs : p[1] # "deliver" /\ p[2] # "alertDetails" /\ p[1] # "pass"
        <3>1. TAKE p \in Fs
        <3>2. PICK n \in Forwards : p = <<"forward", n>>
            OBVIOUS
        <3>3. p[1] = "forward" /\ p[2] = n
            BY <3>2
        <3>4. QED
            BY <3>3 DEF Forwards
    <2>3. \A p \in {a, b, f, g, m, w} : /\ p[1] # "deliver" /\ p[2] # "alertDetails"
                                        /\ ~(p[1] = "pass" /\ p[2] = "alertmanager")
        <3>1. /\ a[1] = "seen" /\ a[2] = "alerts" /\ b[1] = "pass" /\ b[2] = "promAlerts"
              /\ f[1] = "poll" /\ f[2] = "workload alerts" /\ g[1] = "pass" /\ g[2] = "workloadAlerts"
              /\ m[1] = "poll" /\ m[2] = "alertmanager" /\ w[1] = "wait" /\ w[2] = "route"
            OBVIOUS
        <3> HIDE DEF a, b, f, g, m, w
        <3>2. QED
            BY <3>1
    <2>4. QED
        BY <2>1, <2>2, <2>3
<1>3. /\ Plain \subseteq H /\ Fs \subseteq H /\ H \subseteq K
      /\ a \in H /\ b \in H /\ f \in H /\ g \in H /\ m \in H /\ w \in H
      /\ x \in K /\ y \in K /\ z \in K
    OBVIOUS
<1>4. "each workload" \in PlainNames
    BY DEF PlainNames
<1>5. verifyAlerts =
        <<a>> \o <<b>> \o <<f>> \o Calls(<<"each workload">>) \o <<g>> \o <<m, w, x>> \o <<y>> \o <<z>>
    <2>1. Calls(<<"alertDetails">>) = <<y>>
        BY OneCall
    <2>2. QED
        BY <2>1 DEF verifyAlerts, Passed
<1>6. \A n \in Forwards : <<"forward", n>> \in H
    BY <1>3
<1> HIDE DEF a, b, f, g, m, w, x, y, z, Fs, H, K
<1>7. /\ <<a>> \in Seq(H) /\ <<b>> \in Seq(H) /\ <<f>> \in Seq(H) /\ <<g>> \in Seq(H)
      /\ <<m, w>> \in Seq(H)
    BY <1>3
<1>8. Calls(<<"each workload">>) \in Seq(H)
    BY <1>3, <1>4, PlainOf
<1>9. Has(<<b>>, b) /\ Has(<<g>>, g)
    <2>1. 1 \in DOMAIN <<b>> /\ <<b>>[1] = b /\ 1 \in DOMAIN <<g>> /\ <<g>>[1] = g
        OBVIOUS
    <2>2. QED
        BY <2>1, Zenon DEF Has
<1>10. p1 \in Seq(H) /\ Has(p1, b)
    BY <1>7, <1>9, Joins, HasJoin
<1> HIDE DEF p1
<1>11. p1 \o <<f>> \in Seq(H) /\ Has(p1 \o <<f>>, b)
    BY <1>7, <1>10, Joins, HasJoin
<1>12. p2 \in Seq(H) /\ Has(p2, b)
    BY <1>8, <1>11, Joins, HasJoin
<1> HIDE DEF p2
<1>13. p3 \in Seq(H) /\ Has(p3, b) /\ Has(p3, g)
    BY <1>7, <1>9, <1>12, Joins, HasJoin
<1>14. s = verifyAlerts
    BY <1>5 DEF p1, p2
<1> HIDE DEF p3
<1>15. Finishes(s, p3, H, K, x, y, z)
    <2>1. p3 \in Seq(H) /\ H \subseteq K /\ m \in H /\ w \in H /\ x \in K /\ y \in K /\ z \in K
        BY <1>3, <1>13
    <2>2. QED
        BY <2>1, LongEnding, Zenon
<1> DEFINE n == Len(p3) + 2
<1>16. /\ n \in Nat /\ verifyAlerts \in Seq(K) /\ Len(verifyAlerts) = n + 3
       /\ \A i \in 1 .. n : verifyAlerts[i] \in H
       /\ verifyAlerts[n + 1] = x /\ verifyAlerts[n + 2] = y /\ verifyAlerts[n + 3] = z
       /\ Has(verifyAlerts, b) /\ Has(verifyAlerts, g)
    BY <1>13, <1>14, <1>15 DEF Finishes
<1> HIDE DEF n, s
<1>17. QED
    <2>1. \E k \in Nat :
            /\ Len(verifyAlerts) = k + 3 /\ \A i \in 1 .. k : verifyAlerts[i] \in H
            /\ verifyAlerts[k + 1] = x /\ verifyAlerts[k + 2] = y /\ verifyAlerts[k + 3] = z
        BY <1>16
    <2>2. QED
        BY <1>1, <1>2, <1>3, <1>6, <1>16, <2>1, Zenon DEF b, g, x, y, z

\* One of the last three steps.
OddStep(p) == \/ p.kind = "deliver" \/ p.what = "alertDetails"
              \/ (p.kind = "pass" /\ p.what = "alertmanager")

\* The alert pipeline ends with the delivery, the details and the last check.
LEMMA AlertsSteps ==
    ASSUME NEW c
    PROVE  /\ verifyAlertPipeline(c) \in Seq(StepsOf(c)) /\ Only(verifyAlertPipeline(c), {"alerts"})
           /\ Has(verifyAlertPipeline(c), AStep("alerts", <<"pass", "promAlerts">>))
           /\ Has(verifyAlertPipeline(c), AStep("alerts", <<"pass", "workloadAlerts">>))
           /\ \E n \in Nat :
                /\ Len(verifyAlertPipeline(c)) = n + 3
                /\ verifyAlertPipeline(c)[n + 1] = AStep("alerts", <<"deliver", "receiver">>)
                /\ verifyAlertPipeline(c)[n + 2] = AStep("alerts", <<"call", "alertDetails">>)
                /\ verifyAlertPipeline(c)[n + 3] = AStep("alerts", <<"pass", "alertmanager">>)
                /\ \A i \in 1 .. n : ~OddStep(verifyAlertPipeline(c)[i])
<1> DEFINE q == startAlertmanagerPortForward
                \o (IF c.integration = "webhook" THEN startAlertReceiverPortForward ELSE <<>>)
           s == q \o verifyAlerts
           d == Stage("alerts", s)
           b == <<"pass", "promAlerts">>
           g == <<"pass", "workloadAlerts">>
           x == <<"deliver", "receiver">>
           y == <<"call", "alertDetails">>
           z == <<"pass", "alertmanager">>
           Odd(p) == p[1] = "deliver" \/ p[2] = "alertDetails" \/ (p[1] = "pass" /\ p[2] = "alertmanager")
<1>1. PICK H, K :
        /\ H \subseteq K /\ \A p \in H : ~Odd(p)
        /\ \A e : \A p \in K : AStep("alerts", p) \in StepsOf(e)
        /\ Plain \subseteq H /\ \A f \in Forwards : <<"forward", f>> \in H
        /\ verifyAlerts \in Seq(K) /\ Has(verifyAlerts, b) /\ Has(verifyAlerts, g)
        /\ \E n \in Nat :
            /\ Len(verifyAlerts) = n + 3 /\ \A i \in 1 .. n : verifyAlerts[i] \in H
            /\ verifyAlerts[n + 1] = x /\ verifyAlerts[n + 2] = y /\ verifyAlerts[n + 3] = z
    BY VerifyAlertsSteps, Zenon
<1>2. \A p : Odd(p) <=> OddStep(AStep("alerts", p))
    BY DEF AStep, OddStep
<1>3. verifyAlertPipeline(c) = d
    BY DEF verifyAlertPipeline
<1>4. q \in Seq(H)
    <2> DEFINE f1 == <<"forward", "alertmanager">>
               f2 == <<"forward", "receiver">>
    <2>1. {"alertmanager", "receiver pod", "/healthz"} \subseteq PlainNames
        BY DEF PlainNames
    <2>2. f1 \in H /\ f2 \in H /\ Plain \subseteq H
        BY <1>1 DEF Forwards
    <2>3. /\ startAlertmanagerPortForward = <<f1>> \o Waits(<<"alertmanager">>)
          /\ startAlertReceiverPortForward = Calls(<<"receiver pod">>) \o <<f2>> \o Waits(<<"/healthz">>)
        BY DEF startAlertmanagerPortForward, startAlertReceiverPortForward
    <2> HIDE DEF f1, f2
    <2>4. <<f1>> \in Seq(H) /\ <<f2>> \in Seq(H) /\ <<>> \in Seq(H)
        BY <2>2
    <2>5. /\ Waits(<<"alertmanager">>) \in Seq(H) /\ Calls(<<"receiver pod">>) \in Seq(H)
          /\ Waits(<<"/healthz">>) \in Seq(H)
        BY <2>1, <2>2, PlainOf
    <2>6. startAlertmanagerPortForward \in Seq(H) /\ startAlertReceiverPortForward \in Seq(H)
        BY <2>3, <2>4, <2>5, Joins
    <2>7. QED
        BY <2>4, <2>6, Joins
<1> HIDE DEF Odd, b, g, x, y, z, q
<1>5. PICK n \in Nat :
        /\ Len(verifyAlerts) = n + 3 /\ \A i \in 1 .. n : verifyAlerts[i] \in H
        /\ verifyAlerts[n + 1] = x /\ verifyAlerts[n + 2] = y /\ verifyAlerts[n + 3] = z
    BY <1>1
<1>6. q \in Seq(K) /\ verifyAlerts \in Seq(K)
    <2>1. H \subseteq K
        BY <1>1
    <2>2. QED
        BY <1>1, <1>4, <2>1
<1> DEFINE k == Len(q) + n
<1>7. /\ s \in Seq(K) /\ Has(s, b) /\ Has(s, g)
    BY <1>1, <1>6, Joins, HasJoin
<1>8. /\ Len(q) \in Nat /\ Len(s) = Len(q) + (n + 3)
      /\ \A i \in 1 .. Len(q) : s[i] = q[i]
      /\ \A i \in 1 .. n + 3 : s[Len(q) + i] = verifyAlerts[i]
    BY <1>5, <1>6
<1> HIDE DEF s
<1>9. /\ k \in Nat /\ Len(s) = k + 3
      /\ s[k + 1] = x /\ s[k + 2] = y /\ s[k + 3] = z
    <2>1. s[Len(q) + (n + 1)] = x /\ s[Len(q) + (n + 2)] = y /\ s[Len(q) + (n + 3)] = z
        BY <1>5, <1>8
    <2>2. k + 1 = Len(q) + (n + 1) /\ k + 2 = Len(q) + (n + 2) /\ k + 3 = Len(q) + (n + 3)
        BY <1>8
    <2>3. QED
        BY <1>8, <2>1, <2>2
<1>10. \A i \in 1 .. k : s[i] \in H
    <2>1. TAKE i \in 1 .. k
    <2>2. CASE i \in 1 .. Len(q)
        BY <1>4, <1>8, <2>2
    <2>3. CASE i \notin 1 .. Len(q)
        <3>1. i - Len(q) \in 1 .. n /\ Len(q) + (i - Len(q)) = i
            BY <1>8, <2>3
        <3>2. s[i] = verifyAlerts[i - Len(q)]
            BY <1>8, <3>1
        <3>3. QED
            BY <1>5, <3>1, <3>2
    <2>4. QED
        BY <2>2, <2>3
<1>11. \A p \in K : AStep("alerts", p) \in StepsOf(c)
    BY <1>1
<1>12. s \in Seq(K)
    BY <1>7
<1>13. /\ d \in Seq(StepsOf(c)) /\ Only(d, {"alerts"}) /\ Len(d) = Len(s)
       /\ \A i \in 1 .. Len(s) : d[i] = AStep("alerts", s[i])
    BY <1>11, <1>12, StageSteps, StageShape
<1>14. Has(d, AStep("alerts", b)) /\ Has(d, AStep("alerts", g))
    BY <1>7, <1>11, <1>12, StageSteps
<1> HIDE DEF d, k
<1>15. \A i \in 1 .. k : ~OddStep(d[i])
    <2>1. TAKE i \in 1 .. k
    <2>2. d[i] = AStep("alerts", s[i]) /\ s[i] \in H
        BY <1>9, <1>10, <1>13
    <2>3. QED
        BY <1>1, <1>2, <2>2
<1>16. /\ d[k + 1] = AStep("alerts", x) /\ d[k + 2] = AStep("alerts", y)
       /\ d[k + 3] = AStep("alerts", z) /\ Len(d) = k + 3
    BY <1>9, <1>13
<1>17. \E j \in Nat : /\ Len(d) = j + 3
                      /\ d[j + 1] = AStep("alerts", x) /\ d[j + 2] = AStep("alerts", y)
                      /\ d[j + 3] = AStep("alerts", z) /\ \A i \in 1 .. j : ~OddStep(d[i])
    BY <1>9, <1>15, <1>16
<1>18. QED
    BY <1>3, <1>13, <1>14, <1>17 DEF b, g, x, y, z

\* A sequence of steps of one stage is sorted, and is where that stage is.
LEMMA OneStage ==
    ASSUME NEW S, NEW s \in Seq(S), NEW stage \in Stages, Only(s, {stage})
    PROVE  Sorted(s) /\ Located(s, stage, 0, s)
<1>1. DOMAIN s = 1 .. Len(s) /\ Len(s) \in Nat
    OBVIOUS
<1>2. Rank(stage) \in Nat
    BY DEF Stages, Rank
<1>3. \A i \in DOMAIN s : s[i].stage = stage
    BY DEF Only
<1>4. Sorted(s)
    BY <1>2, <1>3 DEF Sorted
<1>5. Located(s, stage, 0, s)
    <2>1. \A i \in DOMAIN s : 0 + i = i /\ i - 0 = i
        BY <1>1
    <2>2. QED
        BY <1>1, <2>1 DEF Located
<1>6. QED
    BY <1>4, <1>5

\* Nothing comes after p, which is after the first n.
AtEnd(s, n, p) == Len(s) = n + Len(p)

\* Where the parts of a run are.
LEMMA RunParts ==
    ASSUME NEW c \in Configs
    PROVE  LET R == Run[c]
               d == verifyAlertPipeline(c)
           IN  /\ R \in Seq(StepsOf(c)) /\ Sorted(R)
               /\ Has(R, AStep("context", <<"pass", "context">>))
               /\ Has(R, AStep("monitoring", <<"pass", "promEndpoint">>))
               /\ \E n : Located(R, "operator", n, deployOperator)
               /\ \E n : Located(R, "workload", n, WorkloadStage)
               /\ \E n : Located(R, "trend", n, runTrendAndPolicyChecks)
               /\ \E n \in Nat : Located(R, "alerts", n, d) /\ AtEnd(R, n, d)
<1> DEFINE S == StepsOf(c)
           a == validateContext
           b == setupMonitoring
           e == deployOperator
           l == deployLLMBackend(c)
           w == WorkloadStage
           t == runTrendAndPolicyChecks
           d == verifyAlertPipeline(c)
           x == AStep("context", <<"pass", "context">>)
           y == AStep("monitoring", <<"pass", "promEndpoint">>)
           ab == a \o b
           abe == ab \o e
           lw == l \o w
           q == abe \o lw
           r == q \o t
           R == r \o d
<1>1. /\ a \in Seq(S) /\ Only(a, {"context"}) /\ Has(a, x)
      /\ b \in Seq(S) /\ Only(b, {"monitoring"}) /\ Has(b, y)
      /\ e \in Seq(S) /\ Only(e, {"operator"})
      /\ l \in Seq(S) /\ Only(l, {"llm"})
    BY ContextSteps, MonitoringSteps, OperatorSteps, LLMSteps
<1>2. /\ w \in Seq(S) /\ Only(w, {"workload"})
      /\ t \in Seq(S) /\ Only(t, {"trend"})
      /\ d \in Seq(S) /\ Only(d, {"alerts"})
    BY WorkloadSteps, TrendSteps, AlertsSteps
<1>3. Run[c] = R
    BY DEF Run, deployWorkloadAndPlan, WorkloadStage
<1> HIDE DEF S, a, b, e, l, w, t, d, x, y
<1>4. {"context", "monitoring", "operator", "llm", "workload", "trend", "alerts"} \subseteq Stages
    BY DEF Stages
<1>5. /\ Sorted(a) /\ Sorted(b) /\ Sorted(e) /\ Sorted(l) /\ Sorted(w) /\ Sorted(t) /\ Sorted(d)
      /\ Located(e, "operator", 0, e) /\ Located(w, "workload", 0, w)
      /\ Located(t, "trend", 0, t) /\ Located(d, "alerts", 0, d)
    BY <1>1, <1>2, <1>4, OneStage
<1> DEFINE A2 == {"context"} \cup {"monitoring"}
           A3 == A2 \cup {"operator"}
           B2 == {"llm"} \cup {"workload"}
           A5 == A3 \cup B2
           A6 == A5 \cup {"trend"}
<1>6. /\ \A i \in {"context"}, j \in {"monitoring"} : Rank(i) <= Rank(j)
      /\ \A i \in A2, j \in {"operator"} : Rank(i) <= Rank(j)
      /\ \A i \in {"llm"}, j \in {"workload"} : Rank(i) <= Rank(j)
      /\ \A i \in A3, j \in B2 : Rank(i) <= Rank(j)
      /\ \A i \in A5, j \in {"trend"} : Rank(i) <= Rank(j)
      /\ \A i \in A6, j \in {"alerts"} : Rank(i) <= Rank(j)
    BY DEF Rank
<1>7. /\ "operator" \notin A2 /\ "operator" \notin B2 /\ "workload" \notin {"llm"}
      /\ "workload" \notin A3 /\ "operator" \notin {"trend"} /\ "workload" \notin {"trend"}
      /\ "operator" \notin {"alerts"} /\ "workload" \notin {"alerts"} /\ "trend" \notin {"alerts"}
      /\ "trend" \notin A5 /\ "alerts" \notin A6
    OBVIOUS
<1> HIDE DEF A2, A3, B2, A5, A6
<1>8. ab \in Seq(S) /\ Sorted(ab) /\ Only(ab, A2) /\ Has(ab, x) /\ Has(ab, y)
    <2>1. ab \in Seq(S) /\ Has(ab, x) /\ Has(ab, y)
        BY <1>1, Joins, HasJoin
    <2>2. Sorted(ab) /\ Only(ab, A2)
        BY <1>1, <1>5, <1>6, SortedJoin DEF A2
    <2>3. QED
        BY <2>1, <2>2
<1> HIDE DEF ab
<1>9. abe \in Seq(S) /\ Sorted(abe) /\ Only(abe, A3) /\ Has(abe, x) /\ Has(abe, y)
    <2>1. abe \in Seq(S) /\ Has(abe, x) /\ Has(abe, y)
        BY <1>1, <1>8, Joins, HasJoin
    <2>2. Sorted(abe) /\ Only(abe, A3)
        BY <1>1, <1>5, <1>6, <1>8, SortedJoin DEF A3
    <2>3. QED
        BY <2>1, <2>2
<1>10. Located(abe, "operator", Len(ab) + 0, e)
    BY <1>1, <1>5, <1>7, <1>8, LocatedJoin
<1>11. lw \in Seq(S) /\ Sorted(lw) /\ Only(lw, B2)
    <2>1. lw \in Seq(S)
        BY <1>1, <1>2, Joins
    <2>2. Sorted(lw) /\ Only(lw, B2)
        BY <1>1, <1>2, <1>5, <1>6, SortedJoin DEF B2
    <2>3. QED
        BY <2>1, <2>2
<1>12. Located(lw, "workload", Len(l) + 0, w)
    BY <1>1, <1>2, <1>5, <1>7, LocatedJoin
<1> HIDE DEF abe, lw
<1>13. q \in Seq(S) /\ Sorted(q) /\ Only(q, A5) /\ Has(q, x) /\ Has(q, y)
    <2>1. q \in Seq(S) /\ Has(q, x) /\ Has(q, y)
        BY <1>9, <1>11, Joins, HasJoin
    <2>2. Sorted(q) /\ Only(q, A5)
        BY <1>6, <1>9, <1>11, SortedJoin DEF A5
    <2>3. QED
        BY <2>1, <2>2
<1>14. \E n : Located(q, "operator", n, e)
    BY <1>7, <1>9, <1>10, <1>11, LocatedJoin
<1>15. \E n : Located(q, "workload", n, w)
    BY <1>7, <1>9, <1>11, <1>12, LocatedJoin
<1> HIDE DEF q
<1>16. r \in Seq(S) /\ Sorted(r) /\ Only(r, A6) /\ Has(r, x) /\ Has(r, y)
    <2>1. r \in Seq(S) /\ Has(r, x) /\ Has(r, y)
        BY <1>2, <1>13, Joins, HasJoin
    <2>2. Sorted(r) /\ Only(r, A6)
        BY <1>2, <1>5, <1>6, <1>13, SortedJoin DEF A6
    <2>3. QED
        BY <2>1, <2>2
<1>17. (\E n : Located(r, "operator", n, e)) /\ (\E n : Located(r, "workload", n, w))
    BY <1>2, <1>7, <1>13, <1>14, <1>15, LocatedJoin
<1>18. \E n : Located(r, "trend", n, t)
    BY <1>2, <1>5, <1>7, <1>13, LocatedJoin
<1> HIDE DEF r
<1>19. R \in Seq(S) /\ Sorted(R) /\ Has(R, x) /\ Has(R, y)
    <2>1. R \in Seq(S) /\ Has(R, x) /\ Has(R, y)
        BY <1>2, <1>16, Joins, HasJoin
    <2>2. Sorted(R) /\ Only(R, A6 \cup {"alerts"})
        BY <1>2, <1>5, <1>6, <1>16, SortedJoin
    <2>3. QED
        BY <2>1, <2>2
<1>20. /\ \E n : Located(R, "operator", n, e)
       /\ \E n : Located(R, "workload", n, w)
       /\ \E n : Located(R, "trend", n, t)
    BY <1>2, <1>7, <1>16, <1>17, <1>18, LocatedJoin
<1>21. \E n \in Nat : Located(R, "alerts", n, d) /\ AtEnd(R, n, d)
    <2>1. Located(R, "alerts", Len(r) + 0, d)
        BY <1>2, <1>5, <1>7, <1>16, LocatedJoin
    <2>2. Len(R) = (Len(r) + 0) + Len(d)
        BY <1>2, <1>16
    <2>3. Len(r) + 0 \in Nat
        BY <1>16
    <2>4. QED
        BY <2>1, <2>2, <2>3 DEF AtEnd
<1> HIDE DEF R
<1>22. QED
    BY <1>3, <1>19, <1>20, <1>21 DEF S, e, w, t, d, x, y

\* The steps of a stage are those of its part.
LEMMA LocatedAt ==
    ASSUME NEW S, NEW s \in Seq(S), NEW stage, NEW n, NEW p, Located(s, stage, n, p)
    PROVE  /\ \A i \in DOMAIN s : s[i].stage = stage =>
                i - n \in 1 .. Len(p) /\ s[i] = p[i - n] /\ n + (i - n) = i
           /\ \A k \in 1 .. Len(p) : n + k \in DOMAIN s /\ s[n + k] = p[k]
           /\ n \in Nat
<1>1. n \in Nat /\ DOMAIN p = 1 .. Len(p) /\ DOMAIN s \subseteq Int
    BY DEF Located
<1>2. \A i \in DOMAIN s : n + (i - n) = i
    BY <1>1
<1>3. QED
    BY <1>1, <1>2 DEF Located

Is(s, kind, what) == s.kind = kind /\ s.what = what

\* Step i is not the first of its stage in R.
Inner(R, i) == i - 1 \in DOMAIN R /\ R[i - 1].stage = R[i].stage

\* What the order of the steps guarantees: what a check waits for is done right
\* before it, what must be there is there, and only once.
Arranged(R) ==
    /\ \A check \in PassChecks : \E i \in DOMAIN R : Is(R[i], "pass", check)
    /\ \A kind \in {"observe", "compare", "conditions", "insights"} :
         \E i \in DOMAIN R : R[i].kind = kind
    /\ \E i \in DOMAIN R : Is(R[i], "wait", "plan")
    /\ \A i \in DOMAIN R :
         /\ R[i].kind = "ensure" => \E j \in DOMAIN R : j < i /\ R[j].kind = "apply"
         /\ Is(R[i], "wait", "manager") => Inner(R, i) /\ R[i - 1].kind = "ensure"
         /\ Is(R[i], "pass", "managerRollout") => Inner(R, i) /\ Is(R[i - 1], "wait", "manager")
         /\ Is(R[i], "call", "alertDetails") => Inner(R, i) /\ R[i - 1].kind = "deliver"
         /\ Is(R[i], "pass", "alertmanager") =>
              Inner(R, i) /\ Is(R[i - 1], "call", "alertDetails") /\ i = Len(R)
         /\ R[i].stage = "trend" /\ R[i].kind # "insights" =>
              \E j \in DOMAIN R : i <= j /\ Is(R[j], "pass", "managerMetrics")
         /\ \A j \in DOMAIN R :
              /\ R[i].kind = "plan" /\ Is(R[j], "wait", "plan") => i < j
              /\ Is(R[i], "pass", "managerMetrics") /\ Is(R[j], "pass", "managerMetrics") => i = j
              /\ R[i].kind = "insights" /\ R[j].kind = "insights" => i = j
              /\ R[i].kind = "deliver" /\ R[j].kind = "deliver" => i = j

\* The fields of a step.
LEMMA StepFields ==
    \A n, k, v : LET s == AStep(n, <<k, v>>) IN s.stage = n /\ s.kind = k /\ s.what = v
    BY DEF AStep

\* The stage of a step, by what it is.
LEMMA StepStage ==
    ASSUME NEW c, NEW s \in StepsOf(c)
    PROVE  /\ s.stage \in Stages /\ s.kind \in Kinds /\ s.what \in Names
           /\ s.kind = "pass" => s.what \in PassChecks /\ s.stage = StageOfCheck(s.what)
           /\ s.kind \in OtherKinds => s.stage = StageOfKind(s.kind)
           /\ s.kind = "forward" => s.what \in Forwards
           /\ s.kind = "skip" => s.what = "llmInsights" /\ s.stage = "llm" /\ c.llm = "off"
           /\ Is(s, "wait", "manager") => s.stage = "operator"
           /\ Is(s, "wait", "plan") => s.stage = "workload"
           /\ Is(s, "call", "alertDetails") => s.stage = "alerts"
<1>1. "manager" \notin PlainNames /\ "plan" \notin PlainNames /\ "alertDetails" \notin PlainNames
    BY DEF PlainNames
<1>2. "pass" \notin OtherKinds /\ "forward" \notin OtherKinds /\ "skip" \notin OtherKinds
      /\ "wait" \notin OtherKinds /\ "call" \notin OtherKinds
    BY DEF OtherKinds
<1>3. QED
    BY <1>1, <1>2 DEF StepsOf, Is

\* What has an element somewhere, has it at a place.
LEMMA HasStep ==
    ASSUME NEW R, NEW n, NEW k, NEW v, Has(R, AStep(n, <<k, v>>))
    PROVE  \E i \in DOMAIN R : R[i].stage = n /\ Is(R[i], k, v)
    BY StepFields DEF Has, Is

\* The stages of the steps that matter.
LEMMA StepPlaces ==
    ASSUME NEW c, NEW s \in StepsOf(c)
    PROVE  /\ Is(s, "pass", "managerRollout") => s.stage = "operator"
           /\ Is(s, "pass", "alertmanager") => s.stage = "alerts"
           /\ Is(s, "pass", "managerMetrics") => s.stage = "trend"
           /\ s.kind \in {"observe", "compare", "conditions", "insights", "try"} => s.stage = "trend"
           /\ s.kind = "deliver" => s.stage = "alerts"
           /\ s.kind = "plan" => s.stage = "workload"
           /\ s.kind \in {"apply", "ensure"} => s.stage = "operator"
<1>1. StageOfCheck("managerRollout") = "operator" /\ StageOfCheck("alertmanager") = "alerts"
      /\ StageOfCheck("managerMetrics") = "trend"
    BY DEF StageOfCheck
<1>2. {"observe", "compare", "conditions", "insights", "try", "deliver", "plan", "apply", "ensure"}
        \subseteq OtherKinds
    BY DEF OtherKinds
<1>3. /\ \A k \in {"observe", "compare", "conditions", "insights", "try"} : StageOfKind(k) = "trend"
      /\ StageOfKind("deliver") = "alerts" /\ StageOfKind("plan") = "workload"
      /\ \A k \in {"apply", "ensure"} : StageOfKind(k) = "operator"
    BY DEF StageOfKind
<1>4. QED
    BY <1>1, <1>2, <1>3, StepStage DEF Is

\* The part of a run that deploys the manager.
LEMMA OperatorArranged ==
    ASSUME NEW c, NEW R \in Seq(StepsOf(c)), NEW m, Located(R, "operator", m, deployOperator)
    PROVE  /\ \E i \in DOMAIN R : Is(R[i], "pass", "managerRollout")
           /\ \A i \in DOMAIN R :
                /\ R[i].kind = "ensure" => \E j \in DOMAIN R : j < i /\ R[j].kind = "apply"
                /\ Is(R[i], "wait", "manager") => Inner(R, i) /\ R[i - 1].kind = "ensure"
                /\ Is(R[i], "pass", "managerRollout") => Inner(R, i) /\ Is(R[i - 1], "wait", "manager")
<1> DEFINE p == deployOperator
<1>1. PICK n \in Nat :
        /\ Len(p) = n + 3
        /\ p[n + 1] = AStep("operator", <<"ensure", "manager">>)
        /\ p[n + 2] = AStep("operator", <<"wait", "manager">>)
        /\ p[n + 3] = AStep("operator", <<"pass", "managerRollout">>)
        /\ \A i \in 1 .. n : p[i].kind \in {"call", "wait", "apply"} /\ (p[i].kind = "wait" => p[i].what # "manager")
        /\ \E i \in 1 .. n : p[i].kind = "apply"
    BY OperatorSteps
<1>2. /\ p[n + 1].kind = "ensure" /\ Is(p[n + 2], "wait", "manager") /\ Is(p[n + 3], "pass", "managerRollout")
      /\ p[n + 1].stage = "operator" /\ p[n + 2].stage = "operator" /\ p[n + 3].stage = "operator"
    BY <1>1, StepFields DEF Is
<1> HIDE DEF p
<1>3. /\ \A i \in DOMAIN R : R[i].stage = "operator" =>
           i - m \in 1 .. Len(p) /\ R[i] = p[i - m] /\ m + (i - m) = i
      /\ \A k \in 1 .. Len(p) : m + k \in DOMAIN R /\ R[m + k] = p[k]
      /\ m \in Nat
    BY LocatedAt DEF p
<1>4. m \in Int /\ n \in Nat /\ Len(p) = n + 3
    BY <1>1, <1>3
<1>5. \A k \in 1 .. Len(p) : k \in 1 .. n \/ k = n + 1 \/ k = n + 2 \/ k = n + 3
    BY <1>4
<1>6. /\ \A k \in 1 .. Len(p) : Is(p[k], "wait", "manager") => k = n + 2
      /\ \A k \in 1 .. Len(p) : Is(p[k], "pass", "managerRollout") => k = n + 3
    BY <1>1, <1>2, <1>5 DEF Is
<1>7. ASSUME NEW i \in DOMAIN R, Is(R[i], "wait", "manager")
      PROVE  Inner(R, i) /\ R[i - 1].kind = "ensure"
    <2>1. R[i] \in StepsOf(c) /\ i \in Int
        OBVIOUS
    <2>2. R[i].stage = "operator"
        BY <1>7, <2>1, StepStage
    <2>3. i - m = n + 2
        BY <1>3, <1>6, <1>7, <2>2
    <2>4. i - 1 = m + (n + 1) /\ n + 1 \in 1 .. Len(p)
        BY <1>4, <2>1, <2>3
    <2>5. i - 1 \in DOMAIN R /\ R[i - 1] = p[n + 1]
        BY <1>3, <2>4
    <2>6. QED
        BY <1>2, <2>2, <2>5 DEF Inner
<1>8. ASSUME NEW i \in DOMAIN R, Is(R[i], "pass", "managerRollout")
      PROVE  Inner(R, i) /\ Is(R[i - 1], "wait", "manager")
    <2>1. R[i] \in StepsOf(c) /\ i \in Int
        OBVIOUS
    <2>2. R[i].stage = "operator"
        BY <1>8, <2>1, StepPlaces
    <2>3. i - m = n + 3
        BY <1>3, <1>6, <1>8, <2>2
    <2>4. i - 1 = m + (n + 2) /\ n + 2 \in 1 .. Len(p)
        BY <1>4, <2>1, <2>3
    <2>5. i - 1 \in DOMAIN R /\ R[i - 1] = p[n + 2]
        BY <1>3, <2>4
    <2>6. QED
        BY <1>2, <2>2, <2>5 DEF Inner
<1>9. \E i \in DOMAIN R : Is(R[i], "pass", "managerRollout")
    <2>1. n + 3 \in 1 .. Len(p)
        BY <1>1
    <2>2. QED
        BY <1>2, <1>3, <2>1
<1>10. ASSUME NEW i \in DOMAIN R, R[i].kind = "ensure"
       PROVE  \E j \in DOMAIN R : j < i /\ R[j].kind = "apply"
    <2>1. R[i] \in StepsOf(c) /\ i \in Int
        OBVIOUS
    <2>2. R[i].stage = "operator"
        BY <1>10, <2>1, StepPlaces
    <2>3. i - m \in 1 .. Len(p) /\ p[i - m].kind = "ensure"
        BY <1>3, <1>10, <2>2
    <2>4. i - m \notin 1 .. n
        BY <1>1, <2>3
    <2>5. PICK k \in 1 .. n : p[k].kind = "apply"
        BY <1>1
    <2>6. k \in 1 .. Len(p) /\ m + k < i
        BY <1>4, <2>1, <2>3, <2>4
    <2>7. m + k \in DOMAIN R /\ R[m + k] = p[k]
        BY <1>3, <2>6
    <2>8. QED
        BY <2>5, <2>6, <2>7
<1>11. QED
    BY <1>7, <1>8, <1>9, <1>10

\* The part that applies the plan.
LEMMA WorkloadArranged ==
    ASSUME NEW c, NEW R \in Seq(StepsOf(c)), NEW m, Located(R, "workload", m, WorkloadStage)
    PROVE  /\ \E i \in DOMAIN R : Is(R[i], "pass", "planReconcile")
           /\ \E i \in DOMAIN R : Is(R[i], "wait", "plan")
           /\ \A i, j \in DOMAIN R : R[i].kind = "plan" /\ Is(R[j], "wait", "plan") => i < j
<1> DEFINE p == WorkloadStage
<1>1. PICK n \in Nat :
        /\ Len(p) = n + 3
        /\ p[n + 1] = AStep("workload", <<"plan", "apply">>)
        /\ p[n + 2] = AStep("workload", <<"wait", "plan">>)
        /\ p[n + 3] = AStep("workload", <<"pass", "planReconcile">>)
        /\ \A i \in 1 .. n : p[i].kind \in {"call", "wait"} /\ p[i].what # "plan"
    BY WorkloadSteps
<1>2. p[n + 1].kind = "plan" /\ Is(p[n + 2], "wait", "plan") /\ Is(p[n + 3], "pass", "planReconcile")
    BY <1>1, StepFields DEF Is
<1> HIDE DEF p
<1>3. /\ \A i \in DOMAIN R : R[i].stage = "workload" =>
           i - m \in 1 .. Len(p) /\ R[i] = p[i - m] /\ m + (i - m) = i
      /\ \A k \in 1 .. Len(p) : m + k \in DOMAIN R /\ R[m + k] = p[k]
      /\ m \in Nat
    BY LocatedAt DEF p
<1>4. \A k \in 1 .. Len(p) : k \in 1 .. n \/ k = n + 1 \/ k = n + 2 \/ k = n + 3
    BY <1>1
<1>5. /\ \A k \in 1 .. Len(p) : Is(p[k], "wait", "plan") => k = n + 2
      /\ \A k \in 1 .. Len(p) : p[k].kind = "plan" => k = n + 1
    BY <1>1, <1>2, <1>4 DEF Is
<1>6. ASSUME NEW i \in DOMAIN R, NEW j \in DOMAIN R, R[i].kind = "plan", Is(R[j], "wait", "plan")
      PROVE  i < j
    <2>1. R[i] \in StepsOf(c) /\ R[j] \in StepsOf(c) /\ i \in Int /\ j \in Int
        OBVIOUS
    <2>2. R[i].stage = "workload"
        BY <1>6, <2>1, StepPlaces
    <2>3. R[j].stage = "workload"
        BY <1>6, <2>1, StepStage
    <2>4. i - m = n + 1 /\ j - m = n + 2
        <3>1. i - m \in 1 .. Len(p) /\ p[i - m].kind = "plan"
            BY <1>3, <1>6, <2>2
        <3>2. j - m \in 1 .. Len(p) /\ Is(p[j - m], "wait", "plan")
            BY <1>3, <1>6, <2>3
        <3>3. QED
            BY <1>5, <3>1, <3>2
    <2>5. QED
        BY <1>3, <2>1, <2>4
<1>7. n + 3 \in 1 .. Len(p) /\ n + 2 \in 1 .. Len(p)
    BY <1>1
<1>8. \E i \in DOMAIN R : Is(R[i], "pass", "planReconcile")
    BY <1>2, <1>3, <1>7
<1>9. \E i \in DOMAIN R : Is(R[i], "wait", "plan")
    BY <1>2, <1>3, <1>7
<1>10. QED
    BY <1>6, <1>8, <1>9

\* The part that observes the trend.
LEMMA TrendArranged ==
    ASSUME NEW c, NEW R \in Seq(StepsOf(c)), NEW m, Located(R, "trend", m, runTrendAndPolicyChecks)
    PROVE  /\ \A check \in {"promRule", "managerMetrics"} : \E i \in DOMAIN R : Is(R[i], "pass", check)
           /\ \A kind \in {"observe", "compare", "conditions", "insights"} :
                \E i \in DOMAIN R : R[i].kind = kind
           /\ \A i \in DOMAIN R : R[i].stage = "trend" /\ R[i].kind # "insights" =>
                \E j \in DOMAIN R : i <= j /\ Is(R[j], "pass", "managerMetrics")
           /\ \A i, j \in DOMAIN R :
                /\ Is(R[i], "pass", "managerMetrics") /\ Is(R[j], "pass", "managerMetrics") => i = j
                /\ R[i].kind = "insights" /\ R[j].kind = "insights" => i = j
<1> DEFINE p == runTrendAndPolicyChecks
<1>1. PICK n \in Nat :
        /\ Len(p) = n + 2
        /\ p[n + 1] = AStep("trend", <<"pass", "managerMetrics">>)
        /\ p[n + 2] = AStep("trend", <<"insights", "llm">>)
        /\ \A i \in 1 .. n : p[i].kind # "insights" /\ p[i].what # "managerMetrics"
    BY TrendSteps
<1>2. Is(p[n + 1], "pass", "managerMetrics") /\ Is(p[n + 2], "insights", "llm")
    BY <1>1, StepFields DEF Is
<1>3. /\ \E k \in DOMAIN p : Is(p[k], "observe", "trend")
      /\ \E k \in DOMAIN p : Is(p[k], "compare", "growth")
      /\ \E k \in DOMAIN p : Is(p[k], "conditions", "plan")
      /\ \E k \in DOMAIN p : Is(p[k], "pass", "promRule")
    BY TrendSteps, HasStep
<1>4. DOMAIN p = 1 .. Len(p)
    BY DEF Located
<1> HIDE DEF p
<1>5. /\ \A i \in DOMAIN R : R[i].stage = "trend" =>
           i - m \in 1 .. Len(p) /\ R[i] = p[i - m] /\ m + (i - m) = i
      /\ \A k \in 1 .. Len(p) : m + k \in DOMAIN R /\ R[m + k] = p[k]
      /\ m \in Nat
    BY LocatedAt DEF p
<1>6. \A k \in 1 .. Len(p) : k \in 1 .. n \/ k = n + 1 \/ k = n + 2
    BY <1>1
<1>7. /\ \A k \in 1 .. Len(p) : Is(p[k], "pass", "managerMetrics") => k = n + 1
      /\ \A k \in 1 .. Len(p) : p[k].kind = "insights" => k = n + 2
    BY <1>1, <1>2, <1>6 DEF Is
<1>8. n + 1 \in 1 .. Len(p) /\ n + 2 \in 1 .. Len(p)
    BY <1>1
<1>9. /\ \E i \in DOMAIN R : Is(R[i], "observe", "trend")
      /\ \E i \in DOMAIN R : Is(R[i], "compare", "growth")
      /\ \E i \in DOMAIN R : Is(R[i], "conditions", "plan")
      /\ \E i \in DOMAIN R : Is(R[i], "pass", "promRule")
    BY <1>3, <1>4, <1>5
<1>10. /\ \E i \in DOMAIN R : Is(R[i], "pass", "managerMetrics")
       /\ \E i \in DOMAIN R : Is(R[i], "insights", "llm")
    BY <1>2, <1>5, <1>8
<1>11. ASSUME NEW i \in DOMAIN R, R[i].stage = "trend", R[i].kind # "insights"
       PROVE  \E j \in DOMAIN R : i <= j /\ Is(R[j], "pass", "managerMetrics")
    <2>1. i - m \in 1 .. Len(p) /\ p[i - m].kind # "insights" /\ i \in Int
        BY <1>5, <1>11
    <2>2. i - m # n + 2
        BY <1>2, <2>1 DEF Is
    <2>3. i <= m + (n + 1)
        BY <1>1, <1>5, <2>1, <2>2, SMTT(40)
    <2>4. m + (n + 1) \in DOMAIN R /\ Is(R[m + (n + 1)], "pass", "managerMetrics")
        BY <1>2, <1>5, <1>8
    <2>5. QED
        BY <2>3, <2>4
<1>12. ASSUME NEW i \in DOMAIN R, Is(R[i], "pass", "managerMetrics") PROVE i = m + (n + 1)
    <2>1. R[i] \in StepsOf(c)
        OBVIOUS
    <2>2. R[i].stage = "trend"
        BY <1>12, <2>1, StepPlaces
    <2>3. i - m \in 1 .. Len(p) /\ Is(p[i - m], "pass", "managerMetrics") /\ m + (i - m) = i
        BY <1>5, <1>12, <2>2
    <2>4. QED
        BY <1>7, <2>3
<1>13. ASSUME NEW i \in DOMAIN R, R[i].kind = "insights" PROVE i = m + (n + 2)
    <2>1. R[i] \in StepsOf(c)
        OBVIOUS
    <2>2. R[i].stage = "trend"
        BY <1>13, <2>1, StepPlaces
    <2>3. i - m \in 1 .. Len(p) /\ p[i - m].kind = "insights" /\ m + (i - m) = i
        BY <1>5, <1>13, <2>2
    <2>4. QED
        BY <1>7, <2>3
<1>14. \A kind \in {"observe", "compare", "conditions", "insights"} : \E i \in DOMAIN R : R[i].kind = kind
    BY <1>9, <1>10 DEF Is
<1>15. QED
    BY <1>9, <1>10, <1>11, <1>12, <1>13, <1>14

\* The part that verifies the alerts, at the end.
LEMMA AlertsArranged ==
    ASSUME NEW c, NEW R \in Seq(StepsOf(c)), NEW m \in Nat, NEW p, p = verifyAlertPipeline(c),
           Located(R, "alerts", m, p), AtEnd(R, m, p)
    PROVE  /\ \A check \in {"promAlerts", "workloadAlerts", "alertmanager"} :
                \E i \in DOMAIN R : Is(R[i], "pass", check)
           /\ \A i \in DOMAIN R :
                /\ Is(R[i], "call", "alertDetails") => Inner(R, i) /\ R[i - 1].kind = "deliver"
                /\ Is(R[i], "pass", "alertmanager") =>
                     Inner(R, i) /\ Is(R[i - 1], "call", "alertDetails") /\ i = Len(R)
           /\ \A i, j \in DOMAIN R : R[i].kind = "deliver" /\ R[j].kind = "deliver" => i = j
<1>1. PICK n \in Nat :
        /\ Len(p) = n + 3
        /\ p[n + 1] = AStep("alerts", <<"deliver", "receiver">>)
        /\ p[n + 2] = AStep("alerts", <<"call", "alertDetails">>)
        /\ p[n + 3] = AStep("alerts", <<"pass", "alertmanager">>)
        /\ \A i \in 1 .. n : /\ p[i].kind # "deliver" /\ p[i].what # "alertDetails"
                             /\ ~Is(p[i], "pass", "alertmanager")
    BY AlertsSteps DEF OddStep, Is
<1>2. /\ Is(p[n + 1], "deliver", "receiver") /\ Is(p[n + 2], "call", "alertDetails")
      /\ Is(p[n + 3], "pass", "alertmanager")
      /\ p[n + 1].stage = "alerts" /\ p[n + 2].stage = "alerts" /\ p[n + 3].stage = "alerts"
    BY <1>1, StepFields DEF Is
<1>3. /\ \E k \in DOMAIN p : Is(p[k], "pass", "promAlerts")
      /\ \E k \in DOMAIN p : Is(p[k], "pass", "workloadAlerts")
    BY AlertsSteps, HasStep
<1>4. DOMAIN p = 1 .. Len(p) /\ Len(R) = m + Len(p)
    BY DEF Located, AtEnd
<1>5. /\ \A i \in DOMAIN R : R[i].stage = "alerts" =>
           i - m \in 1 .. Len(p) /\ R[i] = p[i - m] /\ m + (i - m) = i
      /\ \A k \in 1 .. Len(p) : m + k \in DOMAIN R /\ R[m + k] = p[k]
      /\ m \in Nat
    BY LocatedAt
<1>6. \A k \in 1 .. Len(p) : k \in 1 .. n \/ k = n + 1 \/ k = n + 2 \/ k = n + 3
    BY <1>1
<1>7. /\ \A k \in 1 .. Len(p) : p[k].kind = "deliver" => k = n + 1
      /\ \A k \in 1 .. Len(p) : Is(p[k], "call", "alertDetails") => k = n + 2
      /\ \A k \in 1 .. Len(p) : Is(p[k], "pass", "alertmanager") => k = n + 3
    BY <1>1, <1>2, <1>6 DEF Is, OddStep
<1>8. n + 1 \in 1 .. Len(p) /\ n + 2 \in 1 .. Len(p) /\ n + 3 \in 1 .. Len(p)
    BY <1>1
<1>9. /\ \E i \in DOMAIN R : Is(R[i], "pass", "promAlerts")
      /\ \E i \in DOMAIN R : Is(R[i], "pass", "workloadAlerts")
      /\ \E i \in DOMAIN R : Is(R[i], "pass", "alertmanager")
    BY <1>2, <1>3, <1>4, <1>5, <1>8
<1>10. ASSUME NEW i \in DOMAIN R, Is(R[i], "call", "alertDetails")
       PROVE  Inner(R, i) /\ R[i - 1].kind = "deliver"
    <2>1. R[i] \in StepsOf(c) /\ i \in Int
        OBVIOUS
    <2>2. R[i].stage = "alerts"
        BY <1>10, <2>1, StepStage
    <2>3. i - m = n + 2
        BY <1>5, <1>7, <1>10, <2>2
    <2>4. i - 1 = m + (n + 1)
        BY <1>5, <2>1, <2>3
    <2>5. i - 1 \in DOMAIN R /\ R[i - 1] = p[n + 1]
        BY <1>5, <1>8, <2>4
    <2>6. QED
        BY <1>2, <2>2, <2>5 DEF Inner, Is
<1>11. ASSUME NEW i \in DOMAIN R, Is(R[i], "pass", "alertmanager")
       PROVE  Inner(R, i) /\ Is(R[i - 1], "call", "alertDetails") /\ i = Len(R)
    <2>1. R[i] \in StepsOf(c) /\ i \in Int
        OBVIOUS
    <2>2. R[i].stage = "alerts"
        BY <1>11, <2>1, StepPlaces
    <2>3. i - m = n + 3
        BY <1>5, <1>7, <1>11, <2>2
    <2>4. i - 1 = m + (n + 2) /\ i = Len(R)
        <3>1. Len(R) = m + (n + 3)
            BY <1>1, <1>4
        <3>2. QED
            BY <2>1, <2>3, <3>1
    <2>5. i - 1 \in DOMAIN R /\ R[i - 1] = p[n + 2]
        BY <1>5, <1>8, <2>4
    <2>6. QED
        BY <1>2, <2>2, <2>4, <2>5 DEF Inner
<1>12. ASSUME NEW i \in DOMAIN R, R[i].kind = "deliver" PROVE i = m + (n + 1)
    <2>1. R[i] \in StepsOf(c)
        OBVIOUS
    <2>2. R[i].stage = "alerts"
        BY <1>12, <2>1, StepPlaces
    <2>3. i - m \in 1 .. Len(p) /\ p[i - m].kind = "deliver" /\ m + (i - m) = i
        BY <1>5, <1>12, <2>2
    <2>4. QED
        BY <1>7, <2>3
<1>13. \A check \in {"promAlerts", "workloadAlerts", "alertmanager"} :
          \E i \in DOMAIN R : Is(R[i], "pass", check)
    BY <1>9
<1>14. QED
    BY <1>10, <1>11, <1>12, <1>13

\* The steps of every run are arranged.
LEMMA RunArranged ==
    ASSUME NEW c \in Configs
    PROVE  Run[c] \in Seq(StepsOf(c)) /\ Sorted(Run[c]) /\ Arranged(Run[c])
<1> DEFINE R == Run[c]
           x == AStep("context", <<"pass", "context">>)
           y == AStep("monitoring", <<"pass", "promEndpoint">>)
           d == verifyAlertPipeline(c)
<1>1. /\ R \in Seq(StepsOf(c)) /\ Sorted(R) /\ Has(R, x) /\ Has(R, y)
      /\ \E n : Located(R, "operator", n, deployOperator)
      /\ \E n : Located(R, "workload", n, WorkloadStage)
      /\ \E n : Located(R, "trend", n, runTrendAndPolicyChecks)
      /\ \E n \in Nat : Located(R, "alerts", n, d) /\ AtEnd(R, n, d)
    BY RunParts, Zenon
<1> HIDE DEF R
<1>2. /\ \E i \in DOMAIN R : Is(R[i], "pass", "managerRollout")
      /\ \A i \in DOMAIN R :
           /\ R[i].kind = "ensure" => \E j \in DOMAIN R : j < i /\ R[j].kind = "apply"
           /\ Is(R[i], "wait", "manager") => Inner(R, i) /\ R[i - 1].kind = "ensure"
           /\ Is(R[i], "pass", "managerRollout") => Inner(R, i) /\ Is(R[i - 1], "wait", "manager")
    BY <1>1, OperatorArranged
<1>3. /\ \E i \in DOMAIN R : Is(R[i], "pass", "planReconcile")
      /\ \E i \in DOMAIN R : Is(R[i], "wait", "plan")
      /\ \A i, j \in DOMAIN R : R[i].kind = "plan" /\ Is(R[j], "wait", "plan") => i < j
    BY <1>1, WorkloadArranged
<1>4. /\ \A check \in {"promRule", "managerMetrics"} : \E i \in DOMAIN R : Is(R[i], "pass", check)
      /\ \A kind \in {"observe", "compare", "conditions", "insights"} :
           \E i \in DOMAIN R : R[i].kind = kind
      /\ \A i \in DOMAIN R : R[i].stage = "trend" /\ R[i].kind # "insights" =>
           \E j \in DOMAIN R : i <= j /\ Is(R[j], "pass", "managerMetrics")
      /\ \A i, j \in DOMAIN R :
           /\ Is(R[i], "pass", "managerMetrics") /\ Is(R[j], "pass", "managerMetrics") => i = j
           /\ R[i].kind = "insights" /\ R[j].kind = "insights" => i = j
    BY <1>1, TrendArranged
<1>5. /\ \A check \in {"promAlerts", "workloadAlerts", "alertmanager"} :
           \E i \in DOMAIN R : Is(R[i], "pass", check)
      /\ \A i \in DOMAIN R :
           /\ Is(R[i], "call", "alertDetails") => Inner(R, i) /\ R[i - 1].kind = "deliver"
           /\ Is(R[i], "pass", "alertmanager") =>
                Inner(R, i) /\ Is(R[i - 1], "call", "alertDetails") /\ i = Len(R)
      /\ \A i, j \in DOMAIN R : R[i].kind = "deliver" /\ R[j].kind = "deliver" => i = j
    BY <1>1, AlertsArranged
<1>6. /\ \E i \in DOMAIN R : Is(R[i], "pass", "context")
      /\ \E i \in DOMAIN R : Is(R[i], "pass", "promEndpoint")
    BY <1>1, HasStep
<1>7. \A check \in PassChecks : \E i \in DOMAIN R : Is(R[i], "pass", check)
    <2> DEFINE Q(check) == \E i \in DOMAIN R : Is(R[i], "pass", check)
    <2>1. /\ Q("context") /\ Q("promEndpoint") /\ Q("managerRollout") /\ Q("planReconcile")
          /\ Q("promRule") /\ Q("managerMetrics") /\ Q("promAlerts") /\ Q("workloadAlerts")
          /\ Q("alertmanager")
        BY <1>2, <1>3, <1>4, <1>5, <1>6
    <2> HIDE DEF Q
    <2>2. \A check \in PassChecks : Q(check)
        BY <2>1 DEF PassChecks, Checks
    <2>3. QED
        BY <2>2 DEF Q
<1>8. Arranged(R)
    BY <1>2, <1>3, <1>4, <1>5, <1>7, Zenon DEF Arranged
<1>9. QED
    BY <1>1, <1>8 DEF R

\* No two stages have the same rank.
LEMMA Ranks ==
    /\ \A x \in Stages : Rank(x) \in Nat
    /\ \A x, y \in Stages : Rank(x) = Rank(y) => x = y
<1>1. /\ Rank("context") = 1 /\ Rank("monitoring") = 2 /\ Rank("operator") = 3 /\ Rank("llm") = 4
      /\ Rank("workload") = 5 /\ Rank("trend") = 6 /\ Rank("alerts") = 7
    BY DEF Rank
<1>2. QED
    BY <1>1 DEF Stages

\* The steps that are left of a stage are in one piece: EndStage goes to the first
\* step of the next.
LEMMA StageLeft ==
    ASSUME NEW c, NEW R \in Seq(StepsOf(c)), Sorted(R), NEW a \in 1 .. Len(R)
    PROVE  LET k == Cardinality({i \in a .. Len(R) : R[i].stage = R[a].stage})
           IN  /\ k \in Nat /\ 1 <= k /\ a + k <= Len(R) + 1
               /\ \A i \in a .. a + k - 1 : R[i].stage = R[a].stage
               /\ \A i \in a + k .. Len(R) : Rank(R[i].stage) > Rank(R[a].stage)
<1> DEFINE N == Len(R)
           Z == {i \in a .. N : R[i].stage = R[a].stage}
           k == Cardinality(Z)
<1>1. N \in Nat /\ DOMAIN R = 1 .. N /\ a \in Nat /\ 1 <= a /\ a <= N
    OBVIOUS
<1>2. \A i \in 1 .. N : R[i].stage \in Stages
    <2>1. \A i \in 1 .. N : R[i] \in StepsOf(c)
        OBVIOUS
    <2>2. QED
        BY <2>1, StepStage
<1>3. /\ \A x \in Stages : Rank(x) \in Nat
      /\ \A x, y \in Stages : Rank(x) = Rank(y) => x = y
    BY Ranks
<1>4. \A i, j \in 1 .. N : i <= j => Rank(R[i].stage) <= Rank(R[j].stage)
    BY <1>1 DEF Sorted
<1> HIDE DEF N
<1>5. \A i \in Z : \A j \in a .. i : j \in Z
    <2>1. SUFFICES ASSUME NEW i \in Z, NEW j \in a .. i PROVE j \in Z
        OBVIOUS
    <2>2. i \in a .. N /\ R[i].stage = R[a].stage
        OBVIOUS
    <2>3. i \in 1 .. N /\ j \in 1 .. N /\ a \in 1 .. N /\ a <= j /\ j <= i /\ j \in a .. N
        BY <1>1, <2>2
    <2>4. Rank(R[a].stage) <= Rank(R[j].stage) /\ Rank(R[j].stage) <= Rank(R[i].stage)
        BY <1>4, <2>3
    <2>5. /\ R[a].stage \in Stages /\ R[j].stage \in Stages
          /\ Rank(R[a].stage) \in Nat /\ Rank(R[j].stage) \in Nat
        BY <1>2, <1>3, <2>3
    <2>6. Rank(R[j].stage) = Rank(R[a].stage)
        BY <2>2, <2>4, <2>5
    <2>7. R[j].stage = R[a].stage
        BY <1>3, <2>5, <2>6
    <2>8. QED
        BY <2>3, <2>7
<1>6. \A x, y \in Int : x <= y => IsFiniteSet(x .. y) /\ Cardinality(x .. y) = y - x + 1
    BY FS_Interval
<1>7. Z \subseteq a .. N /\ IsFiniteSet(Z) /\ k \in Nat /\ a \in Z
    <2>1. Z \subseteq a .. N /\ a \in Z
        BY <1>1
    <2>2. IsFiniteSet(a .. N)
        BY <1>1, <1>6
    <2>3. IsFiniteSet(Z)
        BY <2>1, <2>2, FS_Subset
    <2>4. QED
        BY <2>1, <2>3, FS_CardinalityType
<1>8. \A i \in Z : i \in Int /\ i <= a + k - 1
    <2>1. SUFFICES ASSUME NEW i \in Z PROVE i \in Int /\ i <= a + k - 1
        OBVIOUS
    <2>2. i \in Int /\ a <= i
        BY <1>1, <1>7
    <2>3. a .. i \subseteq Z
        BY <1>5
    <2>4. Cardinality(a .. i) = i - a + 1
        BY <1>1, <1>6, <2>2
    <2>5. Cardinality(a .. i) <= k
        BY <1>7, <2>3, FS_Subset
    <2>6. QED
        BY <1>1, <1>7, <2>2, <2>4, <2>5
<1> DEFINE Y == a .. a + k - 1
<1>9. 1 <= k
    BY <1>1, <1>7, <1>8
<1>10. Z \subseteq Y
    BY <1>1, <1>7, <1>8
<1>11. IsFiniteSet(Y) /\ Cardinality(Y) = k
    <2>1. a + k - 1 \in Int /\ a <= a + k - 1 /\ (a + k - 1) - a + 1 = k
        BY <1>1, <1>7, <1>9
    <2>2. QED
        BY <1>1, <1>6, <2>1
<1>12. Z = Y
    BY <1>7, <1>10, <1>11, FS_Subset
<1> HIDE DEF k
<1>13. a + k <= N + 1
    <2>1. a + k - 1 \in Z
        BY <1>1, <1>7, <1>9, <1>12
    <2>2. a + k - 1 <= N
        BY <1>1, <1>7, <2>1
    <2>3. QED
        BY <1>1, <1>7, <2>2
<1>14. \A i \in Y : R[i].stage = R[a].stage
    BY <1>12
<1>15. ASSUME NEW i \in a + k .. N PROVE Rank(R[i].stage) > Rank(R[a].stage)
    <2>1. i \in 1 .. N /\ a \in 1 .. N /\ a <= i /\ i \in a .. N /\ i \notin Y
        BY <1>1, <1>7
    <2>2. R[i].stage # R[a].stage
        BY <1>12, <2>1
    <2>3. R[i].stage \in Stages /\ R[a].stage \in Stages /\ Rank(R[a].stage) <= Rank(R[i].stage)
        BY <1>2, <1>4, <2>1
    <2>4. QED
        BY <1>3, <2>2, <2>3
<1>16. QED
    BY <1>7, <1>9, <1>13, <1>14, <1>15 DEF N, k

-----------------------------------------------------------------------------
\* integration.

RunState == [at : Nat, tries : Nat, phase : {"running", "reporting", "closing", "ended"},
             warnings : SUBSET {"trend", "alerts"}, result : {"none", "failed", "warned", "passed"}]
Marks == {"pending", "pass", "warn", "skipped"}
Observation == [remaining : 0 .. TrendObserve, snapshots : Nat, growing : Int, nonzero : BOOLEAN]
Bases == {"exact", "receiver_only", "integration_prefix", "any", "payload"}
Knowledge == [obs : Observation, alerts : BOOLEAN, first : Nat,
              delivery : Bases \cup {"none"}]
Deployment == [generation : Nat, template : Templates,
               pods : [Templates -> {"none", "starting", "available"}], observed : Nat,
               updated : Nat, available : Nat, unavailable : Int, set : BOOLEAN, served : BOOLEAN]
DeliveryState ==
    [counters : [Labels -> Counter], bad : BOOLEAN, holds : SUBSET CIWorkloads,
     tried : SUBSET Labels, reached : SUBSET CIWorkloads,
     counted : SUBSET Labels, held : SUBSET CIWorkloads]

\* The steps before the one that the run is at, and those from there on.
Behind == 1 .. run.at - 1
Ahead == run.at .. Len(Run[cfg])

\* What a step that was not skipped has marked.
Marked(marks, c, step) ==
    /\ step.kind = "pass" => marks[step.what] = "pass"
    /\ step.kind = "observe" => marks["trendSignal"] = "pass"
    /\ step.kind = "compare" => marks["growthCompare"] = "pass"
    /\ step.kind = "insights" =>
         /\ marks["llmInsights"] # "pending"
         /\ c.llm # "off" /\ c.llmHard /\ ~c.llmSoft => marks["llmInsights"] = "pass"

\* The result: what was done is marked unless its stage is among the warnings, the
\* stages ahead come after those, and what a failure or a warning leaves pending
\* (or warned of) stays so.
ResultInv ==
    /\ cfg \in Configs /\ run \in RunState /\ checks \in [Checks -> Marks]
    /\ run.at \in 1 .. Len(Run[cfg]) + 1
    /\ run.phase = "running" <=> run.result = "none"
    /\ run.result \in {"passed", "warned"} => ~Left
    /\ run.result = "passed" => run.warnings = {}
    /\ run.result = "warned" => run.warnings # {}
    /\ \A i \in Behind : Run[cfg][i].stage \notin run.warnings => Marked(checks, cfg, Run[cfg][i])
    /\ \A stage \in run.warnings : \A i \in Ahead : Rank(Run[cfg][i].stage) > Rank(stage)
    /\ checks["alertmanager"] # "pending" =>
         ~Left /\ "alerts" \notin run.warnings /\ run.result # "failed"
    /\ "trend" \in run.warnings =>
         checks["managerMetrics"] = "pending" \/ checks["llmInsights"] \in {"pending", "warn"}
    /\ \A i \in Ahead :
         /\ Is(Run[cfg][i], "pass", "managerMetrics") => checks["managerMetrics"] = "pending"
         /\ Run[cfg][i].kind = "insights" /\ llmEnabled => checks["llmInsights"] \in {"pending", "warn"}

\* The manifests have been applied since an earlier run, or this run has already
\* configured the Deployment.
Fresh(d) == d.template = "manifest" \/ d.set
Applied == \A i \in Behind : Run[cfg][i].kind = "apply" => Fresh(dep)

\* The rollout: once this run has configured the Deployment, a status that is current
\* and complete is that of a pod that has served since, and the template is the
\* configured one when the rollout is waited for.
RolloutInv ==
    /\ dep \in Deployment
    /\ dep.observed <= dep.generation
    /\ dep.set /\ dep.pods["configured"] = "available" => dep.served
    /\ dep.set /\ dep.template = "configured" /\ waitForDeploymentRollout => dep.served
    /\ Applied
    /\ Left /\ Is(Step, "wait", "manager") => dep.template = "configured" /\ dep.set
    /\ Left /\ Is(Step, "pass", "managerRollout") => dep.served
    /\ RolloutIsCurrent

\* The runner holds a copy of the Deployment only while it updates it.
CopyInv ==
    /\ copy \in {"none", "current", "stale"}
    /\ copy # "none" => At("ensure")

\* The plan: once its time has been read, a later one is that of a reconcile since.
PlanInv ==
    /\ plan \in [time : Nat, ours : BOOLEAN]
    /\ \A i \in Behind : Is(Run[cfg][i], "wait", "plan") =>
         seen.first <= plan.time /\ (plan.time # seen.first => plan.ours)
    /\ \A i \in Behind :
         Run[cfg][i].kind = "conditions" /\ Run[cfg][i].stage \notin run.warnings => plan.ours

\* What a delivery that is accepted on basis d shows.
Shows(d) ==
    /\ d # "payload" => sent.counters["exact"].failed = 0
    /\ d \in {"exact", "receiver_only"} =>
         {"exact", "receiver"} \cap (sent.tried \cup sent.counted) # {}
    /\ d = "payload" => CIWorkloads \subseteq sent.reached \cup sent.held

\* What is counted was tried and what is on record was received, in this run or before.
Sourced(d) ==
    /\ d \in DeliveryState
    /\ \A l \in Labels :
         /\ d.counters[l].failed <= d.counters[l].total
         /\ d.counters[l].total > 0 => l \in d.tried \cup d.counted
    /\ d.holds \subseteq d.reached \cup d.held

\* What was accepted is shown.
Supported == seen.delivery # "none" => Shows(seen.delivery)

\* The delivery is accepted once, on what counters and records say then.
SentInv ==
    /\ Sourced(sent)
    /\ Supported
    /\ \A i \in Ahead : Run[cfg][i].kind = "deliver" => seen.delivery = "none"
    /\ Left /\ Is(Step, "call", "alertDetails") => seen.delivery # "none"
    /\ Left /\ Is(Step, "pass", "alertmanager") => seen.delivery # "none"
    /\ checks["alertmanager"] = "pass" => seen.delivery # "none"

\* The report is rendered, then the forwards are closed.
ReportInv ==
    /\ pf \in [Forwards -> {"none", "open", "closed"}]
    /\ \A f \in Forwards : pf[f] # IF run.phase = "ended" THEN "open" ELSE "closed"
    /\ report \in [checks : [Checks -> Marks], alertmanager : {"none", "open"}]
    /\ run.phase \in {"closing", "ended"} => report.checks = checks

IntegrationInv ==
    /\ ResultInv /\ RolloutInv /\ CopyInv /\ PlanInv /\ SentInv /\ ReportInv
    /\ seen \in Knowledge

\* The steps of the run.
LEMMA RunFacts ==
    ASSUME cfg \in Configs
    PROVE  /\ Run[cfg] \in Seq(StepsOf(cfg)) /\ Sorted(Run[cfg]) /\ Arranged(Run[cfg])
           /\ Len(Run[cfg]) \in Nat /\ DOMAIN Run[cfg] = 1 .. Len(Run[cfg])
           /\ \A i \in 1 .. Len(Run[cfg]) : Run[cfg][i] \in StepsOf(cfg)
<1> DEFINE R == Run[cfg]
<1>1. R \in Seq(StepsOf(cfg)) /\ Sorted(R) /\ Arranged(R)
    BY RunArranged
<1> HIDE DEF R
<1>2. Len(R) \in Nat /\ DOMAIN R = 1 .. Len(R) /\ \A i \in 1 .. Len(R) : R[i] \in StepsOf(cfg)
    BY <1>1
<1>3. QED
    BY <1>1, <1>2 DEF R

\* How a step moves the run: it stays where it is, goes on to the next step, or
\* leaves out the rest of its stage.
Stays == run'.at = run.at /\ run'.warnings = run.warnings
Moves == Left /\ run'.at = run.at + 1 /\ run'.warnings = run.warnings
Skips ==
    /\ Left /\ run'.at \in run.at + 1 .. Len(Run[cfg]) + 1
    /\ \A i \in run.at .. run'.at - 1 : Run[cfg][i].stage = InStage
    /\ \A i \in run'.at .. Len(Run[cfg]) : Rank(Run[cfg][i].stage) > Rank(InStage)
    /\ InStage \in {"llm", "trend", "alerts"}
    /\ run'.warnings = run.warnings \cup ({InStage} \cap {"trend", "alerts"})

\* The end of a stage.
LEMMA EndStageEffect ==
    ASSUME ResultInv, Left
    PROVE  /\ EndStage = [run EXCEPT !.at = EndStage.at, !.tries = 0]
           /\ EndStage.at \in run.at + 1 .. Len(Run[cfg]) + 1
           /\ \A i \in run.at .. EndStage.at - 1 : Run[cfg][i].stage = InStage
           /\ \A i \in EndStage.at .. Len(Run[cfg]) : Rank(Run[cfg][i].stage) > Rank(InStage)
<1> DEFINE R == Run[cfg]
           k == Cardinality({i \in run.at .. Len(R) : R[i].stage = InStage})
<1>1. R \in Seq(StepsOf(cfg)) /\ Sorted(R) /\ Len(R) \in Nat
    BY RunFacts DEF ResultInv
<1>2. run.at \in 1 .. Len(R) /\ run \in RunState
    BY <1>1 DEF ResultInv, Left
<1>3. InStage = R[run.at].stage
    BY DEF InStage, Step
<1> HIDE DEF R
<1>4. /\ k \in Nat /\ 1 <= k /\ run.at + k <= Len(R) + 1
      /\ \A i \in run.at .. run.at + k - 1 : R[i].stage = R[run.at].stage
      /\ \A i \in run.at + k .. Len(R) : Rank(R[i].stage) > Rank(R[run.at].stage)
    BY <1>1, <1>2, <1>3, StageLeft
<1>5. EndStage = [run EXCEPT !.at = run.at + k, !.tries = 0]
    BY DEF EndStage, R
<1> HIDE DEF k
<1>6. EndStage.at = run.at + k
    BY <1>2, <1>5 DEF RunState
<1> DEFINE n == EndStage.at
<1>7. n \in run.at + 1 .. Len(R) + 1
    BY <1>1, <1>2, <1>4, <1>6
<1>8. EndStage = [run EXCEPT !.at = n, !.tries = 0]
    BY <1>5, <1>6
<1> HIDE DEF n
<1>9. n = run.at + k
    BY <1>6 DEF n
<1>10. \A i \in run.at .. n - 1 : R[i].stage = InStage
    <2>1. TAKE i \in run.at .. n - 1
    <2>2. i \in run.at .. run.at + k - 1
        <3>1. run.at \in Int /\ k \in Int
            BY <1>2, <1>4
        <3>2. QED
            BY <1>9, <3>1
    <2>3. QED
        BY <1>3, <1>4, <2>2
<1>11. \A i \in n .. Len(R) : Rank(R[i].stage) > Rank(InStage)
    <2>1. TAKE i \in n .. Len(R)
    <2>2. i \in run.at + k .. Len(R)
        BY <1>9
    <2>3. QED
        BY <1>3, <1>4, <2>2
<1>12. QED
    BY <1>7, <1>8, <1>10, <1>11 DEF R, n

\* An error leaves out the rest of the stage, or fails the run.
LEMMA ErrorEffect ==
    ASSUME ResultInv, Left, run.phase = "running", NEW err, Error(err)
    PROVE  /\ run' \in RunState
           /\ \/ /\ Skips /\ run'.phase = "running" /\ run'.result = "none"
                 /\ checks' = IF InStage = "llm" THEN [checks EXCEPT !["llmInsights"] = "warn"] ELSE checks
              \/ /\ Stays /\ run'.phase = "reporting" /\ run'.result = "failed"
                 /\ checks' = checks
<1> DEFINE e == EndStage
           n == EndStage.at
<1>1. run \in RunState /\ run.result = "none" /\ run.at \in Nat /\ Len(Run[cfg]) \in Nat
    BY RunFacts DEF ResultInv, RunState
<1>2. /\ e = [run EXCEPT !.at = n, !.tries = 0]
      /\ n \in run.at + 1 .. Len(Run[cfg]) + 1
      /\ \A i \in run.at .. n - 1 : Run[cfg][i].stage = InStage
      /\ \A i \in n .. Len(Run[cfg]) : Rank(Run[cfg][i].stage) > Rank(InStage)
    BY EndStageEffect
<1>3. Error(err) <=>
        CASE InStage = "llm" /\ ~shouldHardFailLLMError(err) ->
               run' = e /\ checks' = [checks EXCEPT !["llmInsights"] = "warn"]
          [] InStage \in {"trend", "alerts"} /\ cfg.softFail ->
               run' = [e EXCEPT !.warnings = @ \cup {InStage}] /\ UNCHANGED checks
          [] OTHER ->
               /\ run' = [run EXCEPT !.tries = 0, !.phase = "reporting", !.result = "failed"]
               /\ UNCHANGED checks
    BY DEF Error
<1> HIDE DEF e, n
<1>4. n \in Nat
    BY <1>1, <1>2
<1>5. CASE InStage = "llm" /\ ~shouldHardFailLLMError(err)
    <2>1. run' = [run EXCEPT !.at = n, !.tries = 0] /\ checks' = [checks EXCEPT !["llmInsights"] = "warn"]
        BY <1>2, <1>3, <1>5
    <2>2. /\ run' \in RunState /\ run'.at = n /\ run'.warnings = run.warnings
          /\ run'.phase = "running" /\ run'.result = "none"
        BY <1>1, <1>4, <2>1 DEF RunState
    <2>3. {InStage} \cap {"trend", "alerts"} = {}
        BY <1>5
    <2>4. run'.warnings = run.warnings \cup ({InStage} \cap {"trend", "alerts"})
        BY <2>2, <2>3
    <2>5. Skips
        BY <1>2, <1>5, <2>2, <2>4 DEF Skips
    <2>6. QED
        BY <1>5, <2>1, <2>2, <2>5
<1>6. CASE InStage \in {"trend", "alerts"} /\ cfg.softFail
    <2>1. InStage # "llm"
        BY <1>6
    <2>2. run' = [e EXCEPT !.warnings = @ \cup {InStage}] /\ checks' = checks
        BY <1>3, <1>6, <2>1
    <2>3. run' = [run EXCEPT !.at = n, !.tries = 0, !.warnings = run.warnings \cup {InStage}]
        BY <1>1, <1>2, <2>2 DEF RunState
    <2>4. /\ run' \in RunState /\ run'.at = n /\ run'.warnings = run.warnings \cup {InStage}
          /\ run'.phase = "running" /\ run'.result = "none"
        BY <1>1, <1>4, <1>6, <2>3 DEF RunState
    <2>5. {InStage} \cap {"trend", "alerts"} = {InStage}
        BY <1>6
    <2>6. Skips
        BY <1>2, <1>6, <2>4, <2>5 DEF Skips
    <2>7. QED
        BY <2>1, <2>2, <2>4, <2>6
<1>7. CASE /\ ~(InStage = "llm" /\ ~shouldHardFailLLMError(err))
           /\ ~(InStage \in {"trend", "alerts"} /\ cfg.softFail)
    <2>1. run' = [run EXCEPT !.tries = 0, !.phase = "reporting", !.result = "failed"] /\ checks' = checks
        BY <1>3, <1>7
    <2>2. /\ run' \in RunState /\ run'.at = run.at /\ run'.warnings = run.warnings
          /\ run'.phase = "reporting" /\ run'.result = "failed"
        BY <1>1, <2>1 DEF RunState
    <2>3. QED
        BY <2>1, <2>2 DEF Stays
<1>8. QED
    BY <1>5, <1>6, <1>7

\* What a step does to the checks.
StepMarks ==
    CASE Step.kind = "pass" -> checks' = [checks EXCEPT ![What] = "pass"]
      [] Step.kind = "observe" -> checks' = [checks EXCEPT !["trendSignal"] = "pass"]
      [] Step.kind = "compare" -> checks' = [checks EXCEPT !["growthCompare"] = "pass"]
      [] Step.kind = "insights" ->
           \E v \in {"pass", "warn", "skipped"} :
             /\ checks' = [checks EXCEPT !["llmInsights"] = v]
             /\ llmEnabled /\ cfg.llmHard /\ ~cfg.llmSoft => v = "pass"
      [] Step.kind = "skip" -> checks' = [checks EXCEPT !["llmInsights"] = "skipped"]
      [] OTHER -> checks' = checks

\* A step that is marked stays so while llmInsights does.
LEMMA MarkedKept ==
    ASSUME NEW old, NEW new,
           \A check \in Checks \ {"llmInsights"} : old[check] = "pass" => new[check] = "pass",
           NEW c, NEW s \in StepsOf(c), Marked(old, c, s),
           s.kind = "insights" => new["llmInsights"] = old["llmInsights"]
    PROVE  Marked(new, c, s)
<1>1. s.kind = "pass" => s.what \in Checks \ {"llmInsights"}
    BY StepStage DEF PassChecks
<1>2. "trendSignal" \in Checks \ {"llmInsights"} /\ "growthCompare" \in Checks \ {"llmInsights"}
    BY DEF Checks
<1>3. QED
    BY <1>1, <1>2 DEF Marked

\* An error keeps the invariant of the result.
LEMMA ErrorKeepsResult ==
    ASSUME ResultInv, Left, run.phase = "running", NEW err, Error(err), cfg' = cfg,
           Step.kind = "insights" => llmEnabled
    PROVE  ResultInv'
<1> DEFINE R == Run[cfg]
           N == Len(R)
           a == run.at
           b == run'.at
           st == InStage
<1>1. /\ R \in Seq(StepsOf(cfg)) /\ Sorted(R) /\ Arranged(R) /\ N \in Nat /\ DOMAIN R = 1 .. N
      /\ \A i \in 1 .. N : R[i] \in StepsOf(cfg)
    BY RunFacts DEF ResultInv
<1>2. run' \in RunState /\ run \in RunState /\ checks \in [Checks -> Marks] /\ a \in 1 .. N
    BY <1>1, ErrorEffect DEF ResultInv, Left
<1>3. Run[cfg'] = R /\ Step = R[a] /\ st = R[a].stage
    BY DEF Step, InStage
<1>4. CASE Stays /\ run'.phase = "reporting" /\ run'.result = "failed" /\ checks' = checks
    <2>1. b = a /\ run'.warnings = run.warnings /\ llmEnabled' = llmEnabled
        BY <1>4 DEF Stays, llmEnabled
    <2>2. (Behind = Behind') /\ (Ahead = Ahead') /\ (Left' = Left)
        BY <1>3, <2>1 DEF Behind, Ahead, Left
    <2>3. checks["alertmanager"] = "pending"
        BY DEF ResultInv
    <2>4. QED
        BY <1>2, <1>3, <1>4, <2>1, <2>2, <2>3 DEF ResultInv
<1>5. CASE /\ Skips /\ run'.phase = "running" /\ run'.result = "none"
           /\ checks' = IF st = "llm" THEN [checks EXCEPT !["llmInsights"] = "warn"] ELSE checks
    <2>1. /\ b \in a + 1 .. N + 1
          /\ \A i \in a .. b - 1 : R[i].stage = st
          /\ \A i \in b .. N : Rank(R[i].stage) > Rank(st)
          /\ st \in {"llm", "trend", "alerts"}
          /\ run'.warnings = run.warnings \cup ({st} \cap {"trend", "alerts"})
        BY <1>5 DEF Skips
    <2>2. /\ checks' \in [Checks -> Marks]
          /\ \A check \in Checks \ {"llmInsights"} : checks'[check] = checks[check]
          /\ st # "llm" => checks' = checks
          /\ checks'["llmInsights"] \in {checks["llmInsights"], "warn"}
        BY <1>2, <1>5 DEF Marks, Checks
    <2>3. /\ "alertmanager" \in Checks \ {"llmInsights"} /\ "managerMetrics" \in Checks \ {"llmInsights"}
          /\ checks["alertmanager"] = "pending"
        BY DEF Checks, ResultInv
    <2>4. checks'["alertmanager"] = "pending" /\ checks'["managerMetrics"] = checks["managerMetrics"]
        BY <2>2, <2>3
    <2>5. b \in 1 .. N + 1 /\ b - 1 \in Nat /\ a < b
        BY <1>1, <1>2, <2>1
    <2>6. ASSUME NEW i \in 1 .. b - 1, R[i].stage \notin run'.warnings PROVE Marked(checks', cfg, R[i])
        <3>1. i \in 1 .. N
            BY <1>1, <2>5
        <3>2. R[i] \in StepsOf(cfg)
            BY <1>1, <3>1
        <3>3. CASE i \in 1 .. a - 1
            <4>1. Marked(checks, cfg, R[i])
                BY <1>3, <2>1, <2>6, <3>3 DEF ResultInv, Behind
            <4>2. R[i].kind = "insights" => checks'["llmInsights"] = checks["llmInsights"]
                <5>1. SUFFICES ASSUME R[i].kind = "insights", st = "llm" PROVE FALSE
                    BY <2>2
                <5>2. R[i].stage = "trend" /\ R[a].stage = "llm"
                    BY <1>3, <3>2, <5>1, StepPlaces
                <5>3. Rank("trend") <= Rank("llm")
                    <6>1. i <= a /\ i \in DOMAIN R /\ a \in DOMAIN R
                        BY <1>1, <1>2, <3>1, <3>3
                    <6>2. QED
                        BY <1>1, <5>2, <6>1 DEF Sorted
                <5>4. QED
                    BY <5>3 DEF Rank
            <4>3. QED
                BY <1>2, <2>2, <3>2, <4>1, <4>2, MarkedKept
        <3>4. CASE i \notin 1 .. a - 1
            <4>1. i \in a .. b - 1
                BY <1>2, <2>5, <3>4
            <4>2. R[i].stage = "llm"
                BY <2>1, <2>6, <4>1
            <4>3. R[i].kind \notin {"pass", "observe", "compare", "insights"}
                <5>1. R[i].kind = "pass" => R[i].stage # "llm"
                    <6>1. \A check \in PassChecks : StageOfCheck(check) # "llm"
                        BY DEF PassChecks, Checks, StageOfCheck
                    <6>2. QED
                        BY <3>2, <6>1, StepStage
                <5>2. QED
                    BY <3>2, <4>2, <5>1, StepPlaces
            <4>4. QED
                BY <4>3 DEF Marked
        <3>5. QED
            BY <3>3, <3>4
    <2>7. ASSUME NEW w \in run'.warnings, NEW i \in b .. N PROVE Rank(R[i].stage) > Rank(w)
        <3>1. w \in run.warnings \/ w = st
            BY <2>1
        <3>2. i \in a .. N
            BY <1>2, <2>5
        <3>3. QED
            BY <1>3, <2>1, <3>1, <3>2 DEF ResultInv, Ahead
    <2>8. "trend" \in run'.warnings =>
             checks'["managerMetrics"] = "pending" \/ checks'["llmInsights"] \in {"pending", "warn"}
        <3>1. CASE "trend" \in run.warnings
            BY <2>2, <2>4, <3>1 DEF ResultInv
        <3>2. CASE st = "trend" /\ Step.kind # "insights"
            <4>1. PICK j \in DOMAIN R : a <= j /\ Is(R[j], "pass", "managerMetrics")
                <5>1. a \in DOMAIN R /\ R[a].stage = "trend" /\ R[a].kind # "insights"
                    BY <1>1, <1>2, <1>3, <3>2
                <5>2. QED
                    BY <1>1, <5>1 DEF Arranged
            <4>2. j \in a .. N
                BY <1>1, <1>2, <4>1
            <4>3. checks["managerMetrics"] = "pending"
                BY <4>1, <4>2 DEF ResultInv, Ahead
            <4>4. QED
                BY <2>4, <4>3
        <3>3. CASE st = "trend" /\ Step.kind = "insights"
            <4>1. a \in a .. N /\ llmEnabled /\ R[a].kind = "insights"
                BY <1>1, <1>2, <1>3, <3>3
            <4>2. checks["llmInsights"] \in {"pending", "warn"}
                BY <4>1 DEF ResultInv, Ahead
            <4>3. QED
                BY <2>2, <4>2
        <3>4. CASE "trend" \notin run.warnings /\ st # "trend"
            BY <2>1, <3>4
        <3>5. QED
            BY <3>1, <3>2, <3>3, <3>4
    <2>9. ASSUME NEW i \in b .. N
          PROVE  /\ Is(R[i], "pass", "managerMetrics") => checks'["managerMetrics"] = "pending"
                 /\ R[i].kind = "insights" /\ llmEnabled => checks'["llmInsights"] \in {"pending", "warn"}
        <3>1. i \in a .. N
            BY <1>2, <2>5
        <3>2. /\ Is(R[i], "pass", "managerMetrics") => checks["managerMetrics"] = "pending"
              /\ R[i].kind = "insights" /\ llmEnabled => checks["llmInsights"] \in {"pending", "warn"}
            BY <3>1 DEF ResultInv, Ahead
        <3>3. QED
            BY <2>2, <2>4, <3>2
    <2>10. run'.at = b /\ llmEnabled' = llmEnabled /\ cfg' \in Configs
        BY DEF llmEnabled, ResultInv
    <2> HIDE DEF R, N, a, b, st
    <2>11. \A i \in Behind' : Run[cfg'][i].stage \notin run'.warnings => Marked(checks', cfg', Run[cfg'][i])
        BY <1>3, <2>6 DEF Behind, b
    <2>12. \A stage \in run'.warnings : \A i \in Ahead' : Rank(Run[cfg'][i].stage) > Rank(stage)
        BY <1>3, <2>7 DEF Ahead, b, N
    <2>13. \A i \in Ahead' :
             /\ Is(Run[cfg'][i], "pass", "managerMetrics") => checks'["managerMetrics"] = "pending"
             /\ Run[cfg'][i].kind = "insights" /\ llmEnabled' => checks'["llmInsights"] \in {"pending", "warn"}
        BY <1>3, <2>9, <2>10 DEF Ahead, b, N
    <2>14. run'.at \in 1 .. Len(Run[cfg']) + 1
        BY <1>3, <2>5, <2>10 DEF N
    <2>15. QED
        BY <1>2, <1>5, <2>2, <2>4, <2>8, <2>10, <2>11, <2>12, <2>13, <2>14 DEF ResultInv
<1>6. QED
    BY <1>4, <1>5, ErrorEffect

\* A step marks what it is there to mark, and nothing else.
LEMMA StepMarksEffect ==
    ASSUME NEW c, NEW s \in StepsOf(c), s = Step, c = cfg, checks \in [Checks -> Marks], StepMarks
    PROVE  /\ checks' \in [Checks -> Marks]
           /\ \A check \in Checks \ {"llmInsights"} :
                \/ checks'[check] = checks[check]
                \/ checks'[check] = "pass" /\ (check \in PassChecks => Is(s, "pass", check))
           /\ s.kind \notin {"insights", "skip"} => checks'["llmInsights"] = checks["llmInsights"]
           /\ Marked(checks', c, s)
<1>1. What = s.what /\ (llmEnabled <=> c.llm # "off")
    BY DEF What, llmEnabled
<1>2. /\ "trendSignal" \in Checks \ {"llmInsights"} /\ "growthCompare" \in Checks \ {"llmInsights"}
      /\ "llmInsights" \in Checks /\ "trendSignal" # "growthCompare"
      /\ "trendSignal" \notin PassChecks /\ "growthCompare" \notin PassChecks
      /\ "llmInsights" \notin PassChecks /\ PassChecks \subseteq Checks
      /\ {"pass", "warn", "skipped"} \subseteq Marks
    BY DEF Checks, PassChecks, Marks
<1>3. CASE s.kind = "pass"
    <2>1. checks' = [checks EXCEPT ![s.what] = "pass"] /\ s.what \in PassChecks
        BY <1>1, <1>3, StepStage DEF StepMarks
    <2>2. QED
        BY <1>2, <1>3, <2>1 DEF Marked, Is
<1>4. CASE s.kind = "observe"
    <2>1. checks' = [checks EXCEPT !["trendSignal"] = "pass"]
        BY <1>4 DEF StepMarks
    <2>2. QED
        BY <1>2, <1>4, <2>1 DEF Marked
<1>5. CASE s.kind = "compare"
    <2>1. checks' = [checks EXCEPT !["growthCompare"] = "pass"]
        BY <1>5 DEF StepMarks
    <2>2. QED
        BY <1>2, <1>5, <2>1 DEF Marked
<1>6. CASE s.kind = "insights"
    <2>1. PICK v \in {"pass", "warn", "skipped"} :
            /\ checks' = [checks EXCEPT !["llmInsights"] = v]
            /\ c.llm # "off" /\ c.llmHard /\ ~c.llmSoft => v = "pass"
        BY <1>1, <1>6 DEF StepMarks
    <2>2. /\ checks' \in [Checks -> Marks] /\ checks'["llmInsights"] = v
          /\ \A check \in Checks \ {"llmInsights"} : checks'[check] = checks[check]
        BY <1>2, <2>1
    <2>3. QED
        BY <1>6, <2>1, <2>2 DEF Marked
<1>7. CASE s.kind = "skip"
    <2>1. checks' = [checks EXCEPT !["llmInsights"] = "skipped"]
        BY <1>7 DEF StepMarks
    <2>2. QED
        BY <1>2, <1>7, <2>1 DEF Marked
<1>8. CASE s.kind \notin {"pass", "observe", "compare", "insights", "skip"}
    <2>1. checks' = checks
        BY <1>8 DEF StepMarks
    <2>2. QED
        BY <1>8, <2>1 DEF Marked
<1>9. QED
    BY <1>3, <1>4, <1>5, <1>6, <1>7, <1>8

\* The same step again, another try or the next phase: nothing else changes.
LEMMA StayKeepsResult ==
    ASSUME ResultInv, Stays, run' \in RunState, checks' = checks, cfg' = cfg,
           run'.phase = run.phase /\ run'.result = run.result
    PROVE  ResultInv'
<1>1. /\ Behind' = Behind /\ Ahead' = Ahead /\ (Left' <=> Left) /\ (llmEnabled' <=> llmEnabled)
      /\ run'.at = run.at /\ run'.warnings = run.warnings /\ Run[cfg'] = Run[cfg]
    BY DEF Stays, Behind, Ahead, Left, llmEnabled
<1>2. QED
    BY <1>1 DEF ResultInv

\* The insights are verified once.
LEMMA InsightsOnce ==
    ASSUME NEW R, Arranged(R)
    PROVE  \A j, k \in DOMAIN R : R[j].kind = "insights" /\ R[k].kind = "insights" => j = k
    BY Z3 DEF Arranged, Is, Inner

\* A step that succeeds keeps the invariant of the result.
LEMMA AdvanceKeepsResult ==
    ASSUME ResultInv, Left, run.phase = "running", Advance, StepMarks, cfg' = cfg
    PROVE  ResultInv' /\ Moves /\ run' \in RunState /\ run'.phase = "running" /\ run'.result = "none"
<1> DEFINE R == Run[cfg]
           N == Len(R)
           a == run.at
           s == R[a]
<1>1. /\ R \in Seq(StepsOf(cfg)) /\ Sorted(R) /\ Arranged(R) /\ N \in Nat /\ DOMAIN R = 1 .. N
      /\ \A i \in 1 .. N : R[i] \in StepsOf(cfg)
    BY RunFacts DEF ResultInv
<1>2. run \in RunState /\ checks \in [Checks -> Marks] /\ a \in 1 .. N /\ run.result = "none"
    BY <1>1 DEF ResultInv, Left
<1>3. Run[cfg'] = R /\ Step = s /\ s \in StepsOf(cfg) /\ (llmEnabled' <=> llmEnabled)
      /\ (llmEnabled <=> cfg.llm # "off")
    BY <1>1, <1>2 DEF Step, llmEnabled
<1>4. /\ run' \in RunState /\ run'.at = a + 1 /\ run'.warnings = run.warnings
      /\ run'.phase = "running" /\ run'.result = "none"
    <2>1. run' = [run EXCEPT !.at = run.at + 1, !.tries = 0]
        BY DEF Advance
    <2>2. run \in RunState /\ run.at \in Nat /\ run.at + 1 \in Nat
        BY <1>2 DEF RunState
    <2>3. QED
        BY <1>2, <2>1, <2>2 DEF RunState
<1>5. Moves
    BY <1>4 DEF Moves
<1>6. /\ checks' \in [Checks -> Marks]
      /\ \A check \in Checks \ {"llmInsights"} :
           \/ checks'[check] = checks[check]
           \/ checks'[check] = "pass" /\ (check \in PassChecks => Is(s, "pass", check))
      /\ s.kind \notin {"insights", "skip"} => checks'["llmInsights"] = checks["llmInsights"]
      /\ Marked(checks', cfg, s)
    BY <1>2, <1>3, StepMarksEffect
<1>7. /\ s.kind = "insights" => s.stage = "trend"
      /\ s.kind = "skip" => s.stage = "llm" /\ cfg.llm = "off"
      /\ Is(s, "pass", "managerMetrics") => s.stage = "trend"
    BY <1>3, StepStage, StepPlaces
<1>8. /\ {"alertmanager", "managerMetrics"} \subseteq Checks \ {"llmInsights"}
      /\ {"alertmanager", "managerMetrics"} \subseteq PassChecks
      /\ Rank("llm") = 4 /\ Rank("trend") = 6 /\ Rank("alerts") = 7
    BY DEF Checks, PassChecks, Rank
<1>9. a \in Ahead /\ a \in DOMAIN R
    BY <1>1, <1>2 DEF Ahead
<1> HIDE DEF s
<1>10. ASSUME NEW i \in 1 .. a, R[i].stage \notin run.warnings PROVE Marked(checks', cfg, R[i])
    <2>1. CASE i = a
        BY <1>6, <2>1 DEF s
    <2>2. CASE i # a
        <3>1. i \in 1 .. a - 1 /\ i \in DOMAIN R /\ R[i] \in StepsOf(cfg)
            BY <1>1, <1>2, <2>2
        <3>2. Marked(checks, cfg, R[i])
            BY <1>10, <3>1 DEF ResultInv, Behind
        <3>3. R[i].kind = "insights" => checks'["llmInsights"] = checks["llmInsights"]
            <4>1. SUFFICES ASSUME R[i].kind = "insights" PROVE s.kind \notin {"insights", "skip"}
                BY <1>6
            <4>2. s.kind # "insights"
                <5>1. \A j, k \in DOMAIN R : R[j].kind = "insights" /\ R[k].kind = "insights" => j = k
                    BY <1>1, InsightsOnce
                <5>2. QED
                    BY <1>9, <2>2, <3>1, <4>1, <5>1 DEF s
            <4>3. R[i].stage = "trend"
                BY <3>1, <4>1, StepPlaces
            <4>4. Rank(R[i].stage) <= Rank(R[a].stage)
                BY <1>1, <1>9, <3>1, SMTT(40) DEF Sorted
            <4>5. s.kind # "skip"
                BY <1>7, <1>8, <4>3, <4>4 DEF s
            <4>6. QED
                BY <4>2, <4>5
        <3>4. \A check \in Checks \ {"llmInsights"} : checks[check] = "pass" => checks'[check] = "pass"
            BY <1>6
        <3>5. QED
            BY <3>1, <3>2, <3>3, <3>4, MarkedKept
    <2>3. QED
        BY <2>1, <2>2
<1>11. ASSUME NEW w \in run.warnings, NEW i \in a + 1 .. N PROVE Rank(R[i].stage) > Rank(w)
    <2>1. i \in a .. N
        BY <1>2
    <2>2. QED
        BY <2>1 DEF ResultInv, Ahead
<1>12. ASSUME NEW w \in run.warnings PROVE Rank(s.stage) > Rank(w)
    BY <1>9 DEF ResultInv, s
<1>13. checks'["alertmanager"] # "pending" => ~(a + 1 <= N) /\ "alerts" \notin run.warnings
    <2>1. SUFFICES ASSUME checks'["alertmanager"] # "pending"
                   PROVE  ~(a + 1 <= N) /\ "alerts" \notin run.warnings
        OBVIOUS
    <2>2. checks["alertmanager"] = "pending"
        BY DEF ResultInv
    <2>3. Is(s, "pass", "alertmanager")
        BY <1>6, <1>8, <2>1, <2>2
    <2>4. a = N
        BY <1>1, <1>9, <2>3 DEF Arranged, s
    <2>5. s.stage = "alerts"
        BY <1>3, <2>3, StepPlaces
    <2>6. "alerts" \notin run.warnings
        BY <1>8, <1>12, <2>5
    <2>7. QED
        BY <1>1, <2>4, <2>6
<1>14. "trend" \in run.warnings =>
         checks'["managerMetrics"] = "pending" \/ checks'["llmInsights"] \in {"pending", "warn"}
    <2>1. SUFFICES ASSUME "trend" \in run.warnings
                   PROVE  /\ checks'["managerMetrics"] = checks["managerMetrics"]
                          /\ checks'["llmInsights"] = checks["llmInsights"]
        BY DEF ResultInv
    <2>2. s.stage # "trend" /\ s.stage # "llm"
        BY <1>8, <1>12, <2>1
    <2>3. QED
        BY <1>6, <1>7, <1>8, <2>2
<1>15. ASSUME NEW i \in a + 1 .. N
       PROVE  /\ Is(R[i], "pass", "managerMetrics") => checks'["managerMetrics"] = "pending"
              /\ R[i].kind = "insights" /\ llmEnabled => checks'["llmInsights"] \in {"pending", "warn"}
    <2>1. i \in a .. N /\ i \in DOMAIN R /\ i # a
        BY <1>1, <1>2
    <2>2. /\ Is(R[i], "pass", "managerMetrics") => checks["managerMetrics"] = "pending"
          /\ R[i].kind = "insights" /\ llmEnabled => checks["llmInsights"] \in {"pending", "warn"}
        BY <2>1 DEF ResultInv, Ahead
    <2>3. ASSUME Is(R[i], "pass", "managerMetrics")
          PROVE  checks'["managerMetrics"] = checks["managerMetrics"]
        <3>1. ~Is(s, "pass", "managerMetrics")
            BY <1>1, <1>9, <2>1, <2>3 DEF Arranged, s
        <3>2. QED
            BY <1>6, <1>8, <3>1
    <2>4. ASSUME R[i].kind = "insights", llmEnabled
          PROVE  checks'["llmInsights"] = checks["llmInsights"]
        <3>1. s.kind # "insights"
            BY <1>1, <1>9, <2>1, <2>4, SMTT(40) DEF Arranged, s
        <3>2. s.kind # "skip"
            BY <1>3, <1>7, <2>4
        <3>3. QED
            BY <1>6, <3>1, <3>2
    <2>5. QED
        BY <2>2, <2>3, <2>4
<1> HIDE DEF R, N, a
<1>16. \A i \in Behind' : Run[cfg'][i].stage \notin run'.warnings => Marked(checks', cfg', Run[cfg'][i])
    <2>1. Behind' = 1 .. a
        BY <1>2, <1>4 DEF Behind
    <2>2. QED
        BY <1>3, <1>4, <1>10, <2>1
<1>17. \A stage \in run'.warnings : \A i \in Ahead' : Rank(Run[cfg'][i].stage) > Rank(stage)
    BY <1>3, <1>4, <1>11 DEF Ahead, N
<1>18. \A i \in Ahead' :
         /\ Is(Run[cfg'][i], "pass", "managerMetrics") => checks'["managerMetrics"] = "pending"
         /\ Run[cfg'][i].kind = "insights" /\ llmEnabled' => checks'["llmInsights"] \in {"pending", "warn"}
    BY <1>3, <1>4, <1>15 DEF Ahead, N
<1>19. run'.at \in 1 .. Len(Run[cfg']) + 1
    BY <1>1, <1>2, <1>3, <1>4 DEF N
<1>20. cfg' \in Configs /\ (Left' <=> a + 1 <= N)
    BY <1>3, <1>4 DEF ResultInv, Left, N
<1>21. ResultInv'
    BY <1>4, <1>6, <1>13, <1>14, <1>16, <1>17, <1>18, <1>19, <1>20 DEF ResultInv
<1>22. QED
    BY <1>4, <1>5, <1>21

\* A step that is not the first of its stage is reached only from the one before.
LEMMA Arrival ==
    ASSUME ResultInv, Stays \/ Moves \/ Skips, NEW b, b = run'.at,
           b \in DOMAIN Run[cfg], Inner(Run[cfg], b)
    PROVE  Stays \/ (Moves /\ ~Skips /\ b - 1 = run.at)
<1> DEFINE R == Run[cfg]
<1>1. Len(R) \in Nat /\ DOMAIN R = 1 .. Len(R) /\ run.at \in Nat /\ b \in Nat
    BY RunFacts DEF ResultInv
<1>2. CASE Moves /\ ~Skips
    BY <1>1, <1>2 DEF Moves
<1>3. CASE Skips
    <2>1. /\ b \in run.at + 1 .. Len(R) + 1 /\ \A i \in run.at .. b - 1 : R[i].stage = InStage
          /\ \A i \in b .. Len(R) : Rank(R[i].stage) > Rank(InStage)
        BY <1>3 DEF Skips
    <2>2. b - 1 \in run.at .. b - 1 /\ b \in b .. Len(R)
        BY <1>1, <2>1
    <2>3. R[b - 1].stage = InStage /\ Rank(R[b].stage) > Rank(InStage)
        BY <2>1, <2>2
    <2>4. R[b].stage = R[b - 1].stage
        BY DEF Inner
    <2>5. R[b].stage \in Stages /\ Rank(R[b].stage) \in Nat
        <3>1. R[b] \in StepsOf(cfg)
            BY <1>1, RunFacts DEF ResultInv
        <3>2. QED
            BY <3>1, StepStage, Ranks
    <2>6. QED
        BY <2>3, <2>4, <2>5
<1>4. QED
    BY <1>2, <1>3

\* The steps that a move leaves behind, and those that are still ahead.
LEMMA MoveFacts ==
    ASSUME ResultInv, Stays \/ Moves \/ Skips
    PROVE  /\ run'.at \in Nat /\ run.at <= run'.at /\ run.warnings \subseteq run'.warnings
           /\ \A i \in 1 .. run'.at - 1 :
                \/ i \in Behind
                \/ Moves /\ i = run.at
                \/ Skips /\ i \in 1 .. Len(Run[cfg]) /\ Run[cfg][i].stage = InStage
           /\ \A i \in run'.at .. Len(Run[cfg]) : i \in Ahead
<1> DEFINE N == Len(Run[cfg])
<1>1. N \in Nat /\ run.at \in Nat /\ run.at >= 1
    BY RunFacts DEF ResultInv
<1>2. CASE Stays
    BY <1>1, <1>2 DEF Stays, Behind, Ahead
<1>3. CASE Moves
    BY <1>1, <1>3 DEF Moves, Behind, Ahead
<1>4. CASE Skips
    <2>1. /\ run'.at \in run.at + 1 .. N + 1 /\ run.warnings \subseteq run'.warnings
          /\ \A i \in run.at .. run'.at - 1 : Run[cfg][i].stage = InStage
        BY <1>4 DEF Skips
    <2>2. run'.at \in Nat /\ run.at <= run'.at /\ run'.at <= N + 1
        BY <1>1, <2>1
    <2>3. \A i \in 1 .. run'.at - 1 : i \in Behind \/ (i \in 1 .. N /\ i \in run.at .. run'.at - 1)
        BY <1>1, <2>2 DEF Behind
    <2>4. \A i \in run'.at .. N : i \in Ahead
        BY <1>1, <2>2 DEF Ahead
    <2>5. QED
        BY <1>4, <2>1, <2>2, <2>3, <2>4
<1>5. QED
    BY <1>2, <1>3, <1>4

\* The manifests stay applied.
LEMMA AppliedFrame ==
    ASSUME ResultInv, Applied, cfg' = cfg, Fresh(dep) => Fresh(dep'),
           Stays \/ (Moves /\ Step.kind # "apply") \/ Skips
    PROVE  Applied'
<1> DEFINE R == Run[cfg]
           b == run'.at
<1>1. \A i \in 1 .. b - 1 :
           \/ i \in Behind
           \/ Moves /\ i = run.at
           \/ Skips /\ i \in 1 .. Len(R) /\ R[i].stage = InStage
    BY MoveFacts
<1>2. Run[cfg'] = R /\ Step = R[run.at] /\ Behind' = 1 .. b - 1
    BY DEF Step, Behind
<1>3. \A i \in 1 .. Len(R) : R[i] \in StepsOf(cfg)
    BY RunFacts DEF ResultInv
<1>4. ASSUME NEW i \in 1 .. b - 1, R[i].kind = "apply"
      PROVE  Fresh(dep)
    <2>1. CASE i \in Behind
        BY <1>4, <2>1 DEF Applied
    <2>2. CASE i \notin Behind /\ Skips
        <3>1. (i \in 1 .. Len(R) /\ R[i].stage = InStage) \/ i = run.at
            BY <1>1, <2>2
        <3>2. i \in 1 .. Len(R) /\ R[i].stage = InStage
            BY <2>2, <3>1, RunFacts DEF Skips, Left, InStage, Step, ResultInv
        <3>3. R[i].stage = "operator"
            BY <1>3, <1>4, <3>2, StepPlaces
        <3>4. QED
            BY <2>2, <3>2, <3>3 DEF Skips
    <2>3. CASE i \notin Behind /\ ~Skips
        <3>1. Moves /\ i = run.at
            BY <1>1, <2>3
        <3>2. ~Stays
            BY <3>1 DEF Stays, Moves, ResultInv
        <3>3. QED
            BY <1>2, <1>4, <2>3, <3>1, <3>2
    <2>4. QED
        BY <2>1, <2>2, <2>3
<1> HIDE DEF R, b
<1>5. QED
    BY <1>2, <1>4, Zenon DEF Applied

\* The rollout is not touched by other steps.
LEMMA RolloutFrame ==
    ASSUME ResultInv, RolloutInv, cfg' = cfg, dep' = dep,
           checks'["managerRollout"] = checks["managerRollout"],
           \/ Stays
           \/ Moves /\ Step.kind # "apply" /\ Step.kind # "ensure" /\ ~Is(Step, "wait", "manager")
           \/ Skips
    PROVE  RolloutInv'
<1> DEFINE R == Run[cfg]
           b == run'.at
<1>1. /\ Arranged(R) /\ DOMAIN R = 1 .. Len(R) /\ Len(R) \in Nat /\ b \in Nat /\ 1 <= b
      /\ run.at \in Nat
    <2>1. b \in Nat /\ run.at <= b /\ run.at \in Nat /\ 1 <= run.at
        BY RunFacts, MoveFacts DEF ResultInv
    <2>2. QED
        BY <2>1, RunFacts DEF ResultInv
<1>2. Run[cfg'] = R /\ (Left' <=> b <= Len(R)) /\ Step' = R[b] /\ Step = R[run.at]
    BY DEF Left, Step
<1>3. waitForDeploymentRollout' <=> waitForDeploymentRollout
    BY DEF waitForDeploymentRollout
<1>3a. Applied'
    BY AppliedFrame DEF RolloutInv
<1>4. ASSUME b <= Len(R), Is(R[b], "wait", "manager") PROVE dep.template = "configured" /\ dep.set
    <2>1. b \in DOMAIN R
        BY <1>1, <1>4
    <2>2. Inner(R, b) /\ R[b - 1].kind = "ensure"
        BY <1>1, <1>4, <2>1 DEF Arranged
    <2>3. Stays \/ (Moves /\ ~Skips /\ b - 1 = run.at)
        BY <2>1, <2>2, Arrival
    <2>4. Stays
        BY <1>2, <2>2, <2>3, Zenon DEF Is
    <2>5. QED
        BY <1>2, <1>4, <2>4 DEF RolloutInv, Stays, Left
<1>5. ASSUME b <= Len(R), Is(R[b], "pass", "managerRollout") PROVE dep.served
    <2>1. b \in DOMAIN R
        BY <1>1, <1>5
    <2>2. Inner(R, b) /\ Is(R[b - 1], "wait", "manager")
        BY <1>1, <1>5, <2>1 DEF Arranged
    <2>3. Stays \/ (Moves /\ ~Skips /\ b - 1 = run.at)
        BY <2>1, <2>2, Arrival
    <2>4. Stays
        BY <1>2, <2>2, <2>3, Zenon DEF Is
    <2>5. QED
        BY <1>2, <1>5, <2>4 DEF RolloutInv, Stays, Left
<1> HIDE DEF R, b
<1>6. QED
    BY <1>2, <1>3, <1>3a, <1>4, <1>5 DEF RolloutInv, RolloutIsCurrent

\* Nor is the plan.
LEMMA PlanFrame ==
    ASSUME ResultInv, PlanInv, cfg' = cfg, plan' = plan, seen'.first = seen.first,
           \/ Stays
           \/ Moves /\ Step.kind # "conditions" /\ ~Is(Step, "wait", "plan")
           \/ Skips
    PROVE  PlanInv'
<1> DEFINE R == Run[cfg]
           b == run'.at
<1>1. /\ b \in Nat /\ run.at <= b /\ run.warnings \subseteq run'.warnings
      /\ \A i \in 1 .. b - 1 :
           \/ i \in Behind
           \/ Moves /\ i = run.at
           \/ Skips /\ i \in 1 .. Len(R) /\ R[i].stage = InStage
    BY MoveFacts
<1>2. Run[cfg'] = R /\ Step = R[run.at] /\ Behind' = 1 .. b - 1
    BY DEF Step, Behind
<1>3. \A i \in 1 .. Len(R) : R[i] \in StepsOf(cfg)
    BY RunFacts DEF ResultInv
<1>4. ASSUME NEW i \in 1 .. b - 1, Is(R[i], "wait", "plan")
      PROVE  seen.first <= plan.time /\ (plan.time # seen.first => plan.ours)
    <2>1. CASE i \in Behind
        BY <1>4, <2>1 DEF PlanInv
    <2>2. CASE i \notin Behind /\ Skips
        <3>1. (i \in 1 .. Len(R) /\ R[i].stage = InStage) \/ i = run.at
            BY <1>1, <2>2
        <3>2. i \in 1 .. Len(R) /\ R[i].stage = InStage
            BY <2>2, <3>1, RunFacts DEF Skips, Left, InStage, Step, ResultInv
        <3>3. R[i].stage = "workload"
            BY <1>3, <1>4, <3>2, StepStage
        <3>4. QED
            BY <2>2, <3>2, <3>3 DEF Skips
    <2>3. CASE i \notin Behind /\ ~Skips
        <3>1. Moves /\ i = run.at
            BY <1>1, <2>3
        <3>2. ~Stays
            BY <3>1 DEF Stays, Moves, ResultInv
        <3>3. QED
            BY <1>2, <1>4, <2>3, <3>1, <3>2
    <2>4. QED
        BY <2>1, <2>2, <2>3
<1>5. ASSUME NEW i \in 1 .. b - 1, R[i].kind = "conditions", R[i].stage \notin run'.warnings
      PROVE  plan.ours
    <2>1. CASE i \in Behind
        BY <1>1, <1>5, <2>1 DEF PlanInv
    <2>2. CASE i \notin Behind /\ Skips
        <3>1. (i \in 1 .. Len(R) /\ R[i].stage = InStage) \/ i = run.at
            BY <1>1, <2>2
        <3>2. i \in 1 .. Len(R) /\ R[i].stage = InStage
            BY <2>2, <3>1, RunFacts DEF Skips, Left, InStage, Step, ResultInv
        <3>3. R[i].stage = "trend"
            BY <1>3, <1>5, <3>2, StepPlaces
        <3>4. QED
            BY <1>5, <2>2, <3>2, <3>3 DEF Skips
    <2>3. CASE i \notin Behind /\ ~Skips
        <3>1. Moves /\ i = run.at
            BY <1>1, <2>3
        <3>2. ~Stays
            BY <3>1 DEF Stays, Moves, ResultInv
        <3>3. QED
            BY <1>2, <1>5, <2>3, <3>1, <3>2
    <2>4. QED
        BY <2>1, <2>2, <2>3
<1> HIDE DEF R, b
<1>6. QED
    BY <1>2, <1>4, <1>5 DEF PlanInv

\* Nor is what was sent and delivered.
LEMMA SentFrame ==
    ASSUME ResultInv, SentInv, cfg' = cfg, sent' = sent, seen'.delivery = seen.delivery,
           checks'["alertmanager"] = checks["alertmanager"],
           \/ Stays
           \/ Moves /\ Step.kind # "deliver" /\ ~Is(Step, "call", "alertDetails")
           \/ Skips
    PROVE  SentInv'
<1> DEFINE R == Run[cfg]
           b == run'.at
<1>1. /\ Arranged(R) /\ DOMAIN R = 1 .. Len(R) /\ Len(R) \in Nat /\ b \in Nat /\ 1 <= b
      /\ run.at \in Nat
    <2>1. b \in Nat /\ run.at <= b /\ run.at \in Nat /\ 1 <= run.at
        BY RunFacts, MoveFacts DEF ResultInv
    <2>2. QED
        BY <2>1, RunFacts DEF ResultInv
<1>2. /\ Run[cfg'] = R /\ (Left' <=> b <= Len(R)) /\ Step' = R[b] /\ Step = R[run.at]
      /\ Ahead' = b .. Len(R)
    BY DEF Left, Step, Ahead
<1>3. ASSUME NEW i \in b .. Len(R), R[i].kind = "deliver" PROVE seen.delivery = "none"
    <2>1. i \in Ahead
        BY MoveFacts
    <2>2. QED
        BY <1>3, <2>1 DEF SentInv
<1>4. ASSUME b <= Len(R), Is(R[b], "call", "alertDetails") PROVE seen.delivery # "none"
    <2>1. b \in DOMAIN R
        BY <1>1, <1>4
    <2>2. Inner(R, b) /\ R[b - 1].kind = "deliver"
        BY <1>1, <1>4, <2>1 DEF Arranged
    <2>3. Stays \/ (Moves /\ ~Skips /\ b - 1 = run.at)
        BY <2>1, <2>2, Arrival
    <2>4. Stays
        BY <1>2, <2>2, <2>3, Zenon DEF Is
    <2>5. QED
        BY <1>2, <1>4, <2>4 DEF SentInv, Stays, Left
<1>5. ASSUME b <= Len(R), Is(R[b], "pass", "alertmanager") PROVE seen.delivery # "none"
    <2>1. b \in DOMAIN R
        BY <1>1, <1>5
    <2>2. Inner(R, b) /\ Is(R[b - 1], "call", "alertDetails")
        BY <1>1, <1>5, <2>1 DEF Arranged
    <2>3. Stays \/ (Moves /\ ~Skips /\ b - 1 = run.at)
        BY <2>1, <2>2, Arrival
    <2>4. Stays
        BY <1>2, <2>2, <2>3, Zenon DEF Is
    <2>5. QED
        BY <1>2, <1>5, <2>4 DEF SentInv, Stays, Left
<1> HIDE DEF R, b
<1>6. QED
    BY <1>2, <1>3, <1>4, <1>5 DEF SentInv, Supported, Shows

\* The forwards of a run that has not ended.
Unclosed == [Forwards -> {"none", "open"}]

\* The report is as it was, and no forward is closed, while a run goes on.
LEMMA ReportKept ==
    ASSUME ReportInv, report' = report, pf' \in Unclosed, run'.phase \in {"running", "reporting"}
    PROVE  ReportInv'
    BY DEF ReportInv, Unclosed

\* While the run goes on, no forward is closed.
LEMMA ForwardsUnclosed ==
    ASSUME ReportInv, run.phase = "running"
    PROVE  pf \in Unclosed
<1>1. \A f \in Forwards : pf[f] \in {"none", "open"}
    BY DEF ReportInv
<1>2. QED
    BY <1>1 DEF ReportInv, Unclosed

\* What stays when the run stays where it is.
LEMMA StayParts ==
    ASSUME IntegrationInv, cfg' = cfg, run' \in RunState, Stays, checks' = checks,
           run'.phase = run.phase /\ run'.result = run.result, pf' = pf, report' = report
    PROVE  /\ ResultInv' /\ ReportInv' /\ (\A kind : At(kind)' <=> At(kind))
           /\ dep' = dep => RolloutInv'
           /\ copy' \in {"none", copy} => CopyInv'
           /\ plan' = plan /\ seen'.first = seen.first => PlanInv'
           /\ sent' = sent /\ seen'.delivery = seen.delivery => SentInv'
<1>1. ResultInv'
    BY StayKeepsResult DEF IntegrationInv
<1>2. ReportInv'
    BY DEF IntegrationInv, ReportInv
<1>3. \A kind : At(kind)' <=> At(kind)
    BY DEF At, Left, Step, Stays
<1>4. dep' = dep => RolloutInv'
    BY RolloutFrame DEF IntegrationInv
<1>5. copy' \in {"none", copy} => CopyInv'
    BY <1>3 DEF IntegrationInv, CopyInv
<1>6. plan' = plan /\ seen'.first = seen.first => PlanInv'
    BY PlanFrame DEF IntegrationInv
<1>7. sent' = sent /\ seen'.delivery = seen.delivery => SentInv'
    BY SentFrame DEF IntegrationInv
<1>8. QED
    BY <1>1, <1>2, <1>3, <1>4, <1>5, <1>6, <1>7

\* An error keeps the invariant.
LEMMA ErrorKeeps ==
    ASSUME IntegrationInv, Left, run.phase = "running", NEW err, Error(err), cfg' = cfg,
           Step.kind = "insights" => llmEnabled,
           pf' \in Unclosed, report' = report, copy' = "none",
           seen' \in Knowledge, seen'.first = seen.first, seen'.delivery = seen.delivery,
           dep' = dep, plan' = plan, sent' = sent
    PROVE  IntegrationInv'
<1>1. ResultInv' /\ ResultInv
    BY ErrorKeepsResult DEF IntegrationInv
<1>2. /\ Stays \/ Skips
      /\ run'.phase \in {"running", "reporting"}
      /\ checks' \in {checks, [checks EXCEPT !["llmInsights"] = "warn"]}
    BY <1>1, ErrorEffect
<1>3. checks'["managerRollout"] = checks["managerRollout"] /\ checks'["alertmanager"] = checks["alertmanager"]
    <2>1. checks \in [Checks -> Marks]
        BY <1>1, Zenon DEF ResultInv
    <2>2. QED
        BY <1>2, <2>1 DEF Checks
<1>4. RolloutInv'
    BY <1>1, <1>2, <1>3, RolloutFrame DEF IntegrationInv
<1>5. PlanInv'
    BY <1>1, <1>2, PlanFrame DEF IntegrationInv
<1>6. SentInv'
    BY <1>1, <1>2, <1>3, SentFrame DEF IntegrationInv
<1>7. ReportInv'
    BY <1>2, ReportKept DEF IntegrationInv
<1>8. CopyInv'
    BY DEF CopyInv
<1>9. QED
    BY <1>1, <1>4, <1>5, <1>6, <1>7, <1>8 DEF IntegrationInv

\* A step that only fails keeps the invariant.
LEMMA FailsKeeps ==
    ASSUME IntegrationInv, Left, run.phase = "running", NEW err, Fails(err),
           Step.kind # "insights", Step.kind # "ensure" \/ copy = "none"
    PROVE  IntegrationInv'
<1>1. copy = "none"
    BY DEF IntegrationInv, CopyInv, At
<1>2. /\ Error(err) /\ cfg' = cfg /\ pf' = pf /\ report' = report /\ seen' = seen
      /\ dep' = dep /\ copy' = copy /\ plan' = plan /\ sent' = sent
    BY DEF Fails, cluster
<1>3. pf' \in Unclosed
    BY <1>2, ForwardsUnclosed DEF IntegrationInv
<1>4. seen \in Knowledge
    BY DEF IntegrationInv
<1>5. QED
    BY <1>1, <1>2, <1>3, <1>4, ErrorKeeps

\* What stays when a step succeeds.
LEMMA AdvanceParts ==
    ASSUME IntegrationInv, Left, run.phase = "running", Advance, StepMarks, cfg' = cfg,
           pf' \in Unclosed, report' = report, copy' = "none"
    PROVE  /\ ResultInv' /\ CopyInv' /\ ReportInv' /\ Moves /\ run' \in RunState
           /\ run'.phase = "running"
           /\ /\ dep' = dep /\ checks'["managerRollout"] = checks["managerRollout"]
              /\ Step.kind # "apply" /\ Step.kind # "ensure" /\ ~Is(Step, "wait", "manager")
              => RolloutInv'
           /\ /\ plan' = plan /\ seen'.first = seen.first
              /\ Step.kind # "conditions" /\ ~Is(Step, "wait", "plan")
              => PlanInv'
           /\ /\ sent' = sent /\ seen'.delivery = seen.delivery
              /\ checks'["alertmanager"] = checks["alertmanager"]
              /\ Step.kind # "deliver" /\ ~Is(Step, "call", "alertDetails")
              => SentInv'
<1>1. ResultInv /\ ResultInv' /\ Moves /\ run' \in RunState /\ run'.phase = "running"
    BY AdvanceKeepsResult DEF IntegrationInv
<1>2. CopyInv'
    BY DEF CopyInv
<1>3. ReportInv'
    BY <1>1, ReportKept DEF IntegrationInv
<1>4. ASSUME dep' = dep, checks'["managerRollout"] = checks["managerRollout"],
             Step.kind # "apply", Step.kind # "ensure", ~Is(Step, "wait", "manager")
      PROVE  RolloutInv'
    BY <1>1, <1>4, RolloutFrame DEF IntegrationInv
<1>5. ASSUME plan' = plan, seen'.first = seen.first,
             Step.kind # "conditions", ~Is(Step, "wait", "plan")
      PROVE  PlanInv'
    BY <1>1, <1>5, PlanFrame DEF IntegrationInv
<1>6. ASSUME sent' = sent, seen'.delivery = seen.delivery,
             checks'["alertmanager"] = checks["alertmanager"],
             Step.kind # "deliver", ~Is(Step, "call", "alertDetails")
      PROVE  SentInv'
    BY <1>1, <1>6, SentFrame DEF IntegrationInv
<1>7. QED
    BY <1>1, <1>2, <1>3, <1>4, <1>5, <1>6

\* A step that marks nothing but, perhaps, a check of the trend or of the insights.
LEMMA StepKeeps ==
    ASSUME IntegrationInv, Left, run.phase = "running", Advance, StepMarks, cfg' = cfg,
           pf' \in Unclosed, report' = report, copy' = "none",
           seen' \in Knowledge, seen'.first = seen.first, seen'.delivery = seen.delivery,
           dep' = dep, plan' = plan, sent' = sent,
           checks'["managerRollout"] = checks["managerRollout"],
           checks'["alertmanager"] = checks["alertmanager"],
           Step.kind \notin {"apply", "ensure", "conditions", "deliver"},
           ~Is(Step, "wait", "manager"), ~Is(Step, "wait", "plan"), ~Is(Step, "call", "alertDetails")
    PROVE  IntegrationInv'
<1>1. Step.kind # "apply" /\ Step.kind # "ensure" /\ Step.kind # "conditions" /\ Step.kind # "deliver"
    OBVIOUS
<1>2. ResultInv' /\ CopyInv' /\ ReportInv' /\ RolloutInv' /\ PlanInv' /\ SentInv'
    BY <1>1, AdvanceParts
<1>3. QED
    BY <1>2 DEF IntegrationInv

\* A step of another kind has nothing to mark.
LEMMA NothingMarked ==
    ASSUME Step.kind \notin {"pass", "observe", "compare", "insights", "skip"}, checks' = checks
    PROVE  StepMarks
    BY DEF StepMarks

\* What is at hand while a step is taken.
LEMMA AtStep ==
    ASSUME IntegrationInv, NEW kind, At(kind)
    PROVE  /\ Left /\ run.phase = "running" /\ Step.kind = kind /\ What = Step.what
           /\ pf \in Unclosed /\ seen \in Knowledge /\ (kind # "ensure" => copy = "none")
           /\ checks \in [Checks -> Marks]
           /\ cfg \in Configs /\ Step \in StepsOf(cfg) /\ run \in RunState
           /\ run.at \in 1 .. Len(Run[cfg]) /\ Len(Run[cfg]) \in Nat /\ run.result = "none"
<1>1. Left /\ run.phase = "running" /\ Step.kind = kind /\ What = Step.what
    BY DEF At, What
<1>2. pf \in Unclosed /\ seen \in Knowledge
    BY <1>1, ForwardsUnclosed DEF IntegrationInv
<1>3. kind # "ensure" => copy = "none"
    BY <1>1 DEF IntegrationInv, CopyInv, At
<1>4. checks \in [Checks -> Marks]
    BY Zenon DEF IntegrationInv, ResultInv
<1>5. cfg \in Configs /\ run \in RunState /\ run.result = "none" /\ run.at \in 1 .. Len(Run[cfg]) + 1
    BY <1>1 DEF IntegrationInv, ResultInv
<1>6. Len(Run[cfg]) \in Nat /\ run.at \in 1 .. Len(Run[cfg])
    BY <1>1, <1>5, RunFacts DEF Left
<1>7. Step \in StepsOf(cfg)
    BY <1>5, <1>6, RunFacts DEF Step
<1>8. QED
    BY <1>1, <1>2, <1>3, <1>4, <1>5, <1>6, <1>7

\* A step that only succeeds.
LEMMA SucceedsKeeps ==
    ASSUME IntegrationInv, NEW kind, At(kind), Succeeds,
           kind \notin {"pass", "observe", "compare", "insights", "skip", "apply", "ensure", "conditions", "deliver", "wait"},
           ~Is(Step, "call", "alertDetails")
    PROVE  IntegrationInv'
<1>1. /\ Left /\ run.phase = "running" /\ Step.kind = kind /\ pf \in Unclosed /\ seen \in Knowledge
      /\ copy = "none"
    BY AtStep
<1>2. /\ Advance /\ checks' = checks /\ cfg' = cfg /\ pf' = pf /\ report' = report /\ seen' = seen
      /\ dep' = dep /\ copy' = copy /\ plan' = plan /\ sent' = sent
    BY DEF Succeeds, cluster
<1>3. StepMarks
    BY <1>1, <1>2, NothingMarked
<1>4. /\ Step.kind \notin {"apply", "ensure", "conditions", "deliver"}
      /\ ~Is(Step, "wait", "manager") /\ ~Is(Step, "wait", "plan")
    BY <1>1 DEF Is
<1>5. QED
    BY <1>1, <1>2, <1>3, <1>4, StepKeeps

\* Reading the details of the alerts succeeds once the delivery was accepted: the
\* last check comes next.
LEMMA DetailsKeep ==
    ASSUME IntegrationInv, At("call"), Succeeds, Is(Step, "call", "alertDetails")
    PROVE  IntegrationInv'
<1>1. /\ Left /\ run.phase = "running" /\ Step.kind = "call" /\ pf \in Unclosed /\ seen \in Knowledge
      /\ copy = "none"
    BY AtStep
<1>2. /\ Advance /\ checks' = checks /\ cfg' = cfg /\ pf' = pf /\ report' = report /\ seen' = seen
      /\ dep' = dep /\ copy' = copy /\ plan' = plan /\ sent' = sent
    BY DEF Succeeds, cluster
<1>3. StepMarks
    BY <1>1, <1>2, NothingMarked
<1>4. Step.kind # "apply" /\ Step.kind # "ensure" /\ Step.kind # "conditions" /\ ~Is(Step, "wait", "manager") /\ ~Is(Step, "wait", "plan")
    BY <1>1 DEF Is
<1>5. ResultInv' /\ CopyInv' /\ ReportInv' /\ RolloutInv' /\ PlanInv' /\ Moves
    BY <1>1, <1>2, <1>3, <1>4, AdvanceParts
<1>6. seen.delivery # "none"
    BY <1>1 DEF IntegrationInv, SentInv
<1>7. \A i \in Ahead' : i \in Ahead /\ Run[cfg'] = Run[cfg]
    BY <1>2, <1>5, MoveFacts DEF Ahead, IntegrationInv
<1>8. \A i \in Ahead' : Run[cfg'][i].kind # "deliver"
    BY <1>6, <1>7 DEF IntegrationInv, SentInv
<1>9. SentInv'
    <2>1. Supported'
        BY <1>2, Zenon DEF IntegrationInv, SentInv, Supported, Shows
    <2>2. QED
        BY <1>2, <1>6, <1>8, <2>1 DEF IntegrationInv, SentInv
<1>10. QED
    BY <1>1, <1>2, <1>5, <1>9 DEF IntegrationInv

\* A call to the cluster or to Helm.
LEMMA CallKeeps ==
    ASSUME IntegrationInv, Call
    PROVE  IntegrationInv'
<1>1. At("call") /\ (Succeeds \/ \E err \in {"other", "timeout"} : Fails(err))
    BY DEF Call
<1>2. Left /\ run.phase = "running" /\ Step.kind = "call" /\ copy = "none"
    BY <1>1, AtStep
<1>3. CASE Succeeds
    BY <1>1, <1>3, SucceedsKeeps, DetailsKeep
<1>4. CASE \E err \in {"other", "timeout"} : Fails(err)
    BY <1>2, <1>4, FailsKeeps
<1>5. QED
    BY <1>1, <1>3, <1>4

\* Polls, queries and the attempts to pull the model.
LEMMA PollsKeep ==
    ASSUME IntegrationInv, WaitUntil \/ waitForSeries \/ Refuse \/ OpenForwardFails \/ PullModel
                           \/ PrometheusHasCapacityAlerts \/ NotDelivered
    PROVE  IntegrationInv'
<1>1. CASE WaitUntil
    BY <1>1, AtStep, SucceedsKeeps, FailsKeeps DEF WaitUntil, Is
<1>2. CASE waitForSeries
    BY <1>2, AtStep, SucceedsKeeps DEF waitForSeries, Is
<1>3. CASE Refuse
    BY <1>3, AtStep, FailsKeeps DEF Refuse
<1>4. CASE OpenForwardFails
    BY <1>4, AtStep, FailsKeeps DEF OpenForwardFails
<1>5. CASE PullModel
    <2>1. At("pull") /\ Left /\ run.phase = "running" /\ Step.kind = "pull" /\ copy = "none" /\ run \in RunState
        BY <1>5, AtStep DEF PullModel
    <2>2. CASE Succeeds
        BY <2>1, <2>2, SucceedsKeeps DEF Is
    <2>3. CASE TryAgain /\ UNCHANGED <<cfg, checks, pf, seen, report, cluster>>
        <3>1. run' = [run EXCEPT !.tries = @ + 1]
            BY <2>3 DEF TryAgain
        <3>2. run' \in RunState /\ Stays /\ run'.phase = run.phase /\ run'.result = run.result
            BY <2>1, <3>1 DEF RunState, Stays
        <3>3. /\ checks' = checks /\ cfg' = cfg /\ pf' = pf /\ report' = report /\ seen' = seen
              /\ dep' = dep /\ copy' = copy /\ plan' = plan /\ sent' = sent
            BY <2>3 DEF cluster
        <3>4. ResultInv' /\ ReportInv' /\ RolloutInv' /\ CopyInv' /\ PlanInv' /\ SentInv'
            BY <3>2, <3>3, StayParts
        <3>5. QED
            BY <3>3, <3>4 DEF IntegrationInv
    <2>4. CASE \E err : Fails(err)
        BY <2>1, <2>4, FailsKeeps
    <2>5. QED
        BY <1>5, <2>2, <2>3, <2>4 DEF PullModel
<1>6. CASE PrometheusHasCapacityAlerts
    BY <1>6, AtStep, SucceedsKeeps, FailsKeeps DEF PrometheusHasCapacityAlerts, Is
<1>7. CASE NotDelivered
    BY <1>7, AtStep, FailsKeeps DEF NotDelivered
<1>8. QED
    BY <1>1, <1>2, <1>3, <1>4, <1>5, <1>6, <1>7

\* What the next step tells of the one before.
LEMMA AfterMove ==
    ASSUME ResultInv, Moves, cfg' = cfg
    PROVE  /\ Left' /\ Is(Step', "wait", "manager") => Step.kind = "ensure"
           /\ Left' /\ Is(Step', "pass", "managerRollout") => Is(Step, "wait", "manager")
           /\ Left' /\ Is(Step', "call", "alertDetails") => Step.kind = "deliver"
           /\ Left' /\ Is(Step', "pass", "alertmanager") => Is(Step, "call", "alertDetails")
           /\ Is(Step, "pass", "alertmanager") => ~Left'
<1> DEFINE R == Run[cfg]
           b == run'.at
<1>1. Run[cfg'] = R /\ Step' = R[b] /\ (Left' <=> b <= Len(R)) /\ b = run.at + 1 /\ Step = R[run.at]
      /\ run.at <= Len(R)
    BY DEF Left, Step, Moves
<1>2. Arranged(R) /\ DOMAIN R = 1 .. Len(R) /\ run.at \in Nat /\ Len(R) \in Nat /\ 1 <= run.at
    BY RunFacts DEF ResultInv
<1>3. run.at \in DOMAIN R /\ b - 1 = run.at /\ (Left' => b \in DOMAIN R)
    BY <1>1, <1>2
<1>4. Is(Step, "pass", "alertmanager") => run.at = Len(R)
    BY <1>1, <1>2, <1>3 DEF Arranged
<1> HIDE DEF R, b
<1>5. Is(Step, "pass", "alertmanager") => ~Left'
    BY <1>1, <1>2, <1>4
<1>6. ASSUME Left'
      PROVE  /\ Is(R[b], "wait", "manager") => R[b - 1].kind = "ensure"
             /\ Is(R[b], "pass", "managerRollout") => Is(R[b - 1], "wait", "manager")
             /\ Is(R[b], "call", "alertDetails") => R[b - 1].kind = "deliver"
             /\ Is(R[b], "pass", "alertmanager") => Is(R[b - 1], "call", "alertDetails")
    BY <1>2, <1>3, <1>6, Zenon DEF Arranged
<1>7. QED
    BY <1>1, <1>3, <1>5, <1>6

\* The forward of a step that opens one.
LEMMA ForwardKeeps ==
    ASSUME IntegrationInv, OpenForward
    PROVE  IntegrationInv'
<1>1. /\ At("forward") /\ pf' = [pf EXCEPT ![What] = "open"]
      /\ (Advance /\ checks' = checks) \/ Error("other")
      /\ cfg' = cfg /\ seen' = seen /\ report' = report
      /\ dep' = dep /\ copy' = copy /\ plan' = plan /\ sent' = sent
    BY DEF OpenForward, cluster
<1>2. /\ Left /\ run.phase = "running" /\ Step.kind = "forward" /\ pf \in Unclosed /\ seen \in Knowledge
      /\ copy = "none"
    BY <1>1, AtStep
<1>3. pf' \in Unclosed
    BY <1>1, <1>2 DEF Unclosed
<1>4. CASE Advance /\ checks' = checks
    <2>1. StepMarks
        BY <1>2, <1>4, NothingMarked
    <2>2. /\ Step.kind \notin {"apply", "ensure", "conditions", "deliver"}
          /\ ~Is(Step, "wait", "manager") /\ ~Is(Step, "wait", "plan") /\ ~Is(Step, "call", "alertDetails")
        BY <1>2 DEF Is
    <2>3. QED
        BY <1>1, <1>2, <1>3, <1>4, <2>1, <2>2, StepKeeps
<1>5. CASE Error("other")
    BY <1>1, <1>2, <1>3, <1>5, ErrorKeeps
<1>6. QED
    BY <1>1, <1>4, <1>5

\* A mark on a check that no later step depends on.
LEMMA MarkKeeps ==
    ASSUME IntegrationInv, NEW kind \in {"skip", "observe", "compare", "insights"}, At(kind),
           NEW check \in {"trendSignal", "growthCompare", "llmInsights"}, NEW value,
           Mark(check, value), StepMarks,
           seen' \in Knowledge, seen'.first = seen.first, seen'.delivery = seen.delivery
    PROVE  IntegrationInv'
<1>1. /\ Left /\ run.phase = "running" /\ Step.kind = kind /\ pf \in Unclosed
      /\ copy = "none" /\ checks \in [Checks -> Marks]
    BY AtStep
<1>2. /\ Advance /\ checks' = [checks EXCEPT ![check] = value] /\ cfg' = cfg /\ pf' = pf
      /\ report' = report /\ dep' = dep /\ copy' = copy /\ plan' = plan /\ sent' = sent
    BY DEF Mark, cluster
<1>3. checks'["managerRollout"] = checks["managerRollout"] /\ checks'["alertmanager"] = checks["alertmanager"]
    BY <1>1, <1>2 DEF Checks
<1>4. /\ Step.kind \notin {"apply", "ensure", "conditions", "deliver"}
      /\ ~Is(Step, "wait", "manager") /\ ~Is(Step, "wait", "plan") /\ ~Is(Step, "call", "alertDetails")
    BY <1>1 DEF Is
<1>5. QED
    BY <1>1, <1>2, <1>3, <1>4, StepKeeps

\* The LLM is off.
LEMMA SkipKeeps ==
    ASSUME IntegrationInv, SkipLLM
    PROVE  IntegrationInv'
<1>1. At("skip") /\ Mark(What, "skipped") /\ seen' = seen
    BY DEF SkipLLM
<1>2. Step.kind = "skip" /\ What = "llmInsights" /\ seen \in Knowledge
    BY <1>1, AtStep, StepStage
<1>3. Mark("llmInsights", "skipped")
    BY <1>1, <1>2
<1>4. StepMarks
    BY <1>2, <1>3 DEF Mark, StepMarks
<1>5. QED
    BY <1>1, <1>2, <1>3, <1>4, MarkKeeps

\* A wait: that for the manager ends with a status that is current, that for the
\* plan remembers the time it found.
LEMMA WaitKeeps ==
    ASSUME IntegrationInv, waitUntil
    PROVE  IntegrationInv'
<1>1. /\ Left /\ run.phase = "running" /\ Step.kind = "wait" /\ What = Step.what /\ pf \in Unclosed
      /\ seen \in Knowledge /\ copy = "none" /\ At("wait") /\ ResultInv
    BY AtStep DEF waitUntil, IntegrationInv
<1>2. CASE Fails("other")
    BY <1>1, <1>2, FailsKeeps
<1>3. CASE ~Fails("other")
    <2>1. /\ What = "manager" => waitForDeploymentRollout
          /\ seen' = IF What = "plan" THEN [seen EXCEPT !.first = plan.time] ELSE seen
          /\ Advance /\ checks' = checks /\ cfg' = cfg /\ pf' = pf /\ report' = report
          /\ dep' = dep /\ copy' = copy /\ plan' = plan /\ sent' = sent
        BY <1>3 DEF waitUntil, cluster
    <2>2. StepMarks
        BY <1>1, <2>1, NothingMarked
    <2>3. plan.time \in Nat
        BY DEF IntegrationInv, PlanInv
    <2>4. seen' \in Knowledge /\ seen'.delivery = seen.delivery
        BY <1>1, <2>1, <2>3 DEF Knowledge
    <2>5. Step.kind # "apply" /\ Step.kind # "ensure" /\ Step.kind # "conditions" /\ Step.kind # "deliver"
          /\ ~Is(Step, "call", "alertDetails")
          /\ (Is(Step, "wait", "manager") <=> What = "manager")
          /\ (Is(Step, "wait", "plan") <=> What = "plan")
        BY <1>1 DEF Is
    <2>6. /\ ResultInv' /\ CopyInv' /\ ReportInv' /\ SentInv' /\ Moves
          /\ What # "manager" => RolloutInv'
          /\ What # "plan" => PlanInv'
        BY <1>1, <2>1, <2>2, <2>4, <2>5, AdvanceParts
    <2>7. RolloutInv'
        <3>1. CASE What = "manager"
            <4>1. dep.served
                BY <1>1, <2>1, <2>5, <3>1 DEF IntegrationInv, RolloutInv
            <4>2. ~(Left' /\ Is(Step', "wait", "manager"))
                BY <1>1, <2>1, <2>6, AfterMove
            <4>3. waitForDeploymentRollout' <=> waitForDeploymentRollout
                BY <2>1 DEF waitForDeploymentRollout
            <4>4. Applied'
                BY <1>1, <2>1, <2>5, <2>6, AppliedFrame DEF IntegrationInv, RolloutInv
            <4>5. QED
                BY <2>1, <4>1, <4>2, <4>3, <4>4 DEF IntegrationInv, RolloutInv, RolloutIsCurrent
        <3>2. QED
            BY <2>6, <3>1
    <2>8. PlanInv'
        <3>1. CASE What = "plan"
            <4>1. seen'.first = plan.time
                BY <1>1, <2>1, <3>1 DEF Knowledge
            <4>2. Run[cfg'] = Run[cfg] /\ run'.warnings = run.warnings /\ run.at \in Nat
                  /\ \A i \in Behind' : i \in Behind \/ i = run.at
                BY <1>1, <2>1, <2>6 DEF Moves, Behind, ResultInv
            <4>3. Run[cfg][run.at].kind # "conditions"
                BY <1>1 DEF Step
            <4>4. QED
                BY <2>1, <2>3, <4>1, <4>2, <4>3 DEF IntegrationInv, PlanInv
        <3>2. QED
            BY <2>6, <3>1
    <2>9. QED
        BY <2>4, <2>6, <2>7, <2>8 DEF IntegrationInv
<1>4. QED
    BY <1>2, <1>3

\* A check is passed: that of the rollout after its wait, the last one after the
\* delivery.
LEMMA PassKeeps ==
    ASSUME IntegrationInv, Pass
    PROVE  IntegrationInv'
<1>1. /\ At("pass") /\ Advance /\ checks' = [checks EXCEPT ![What] = "pass"]
      /\ dep' = IF What = "managerRollout" THEN [NoDeployment EXCEPT !.served = dep.served] ELSE dep
      /\ cfg' = cfg /\ pf' = pf /\ seen' = seen /\ report' = report
      /\ copy' = copy /\ plan' = plan /\ sent' = sent
    BY DEF Pass
<1>2. /\ Left /\ run.phase = "running" /\ Step.kind = "pass" /\ What = Step.what /\ pf \in Unclosed
      /\ seen \in Knowledge /\ copy = "none" /\ checks \in [Checks -> Marks] /\ ResultInv
    BY <1>1, AtStep DEF IntegrationInv
<1>3. StepMarks
    BY <1>1, <1>2 DEF StepMarks
<1>4. /\ Step.kind # "apply" /\ Step.kind # "ensure" /\ Step.kind # "conditions" /\ Step.kind # "deliver"
      /\ ~Is(Step, "wait", "manager") /\ ~Is(Step, "wait", "plan") /\ ~Is(Step, "call", "alertDetails")
      /\ (Is(Step, "pass", "managerRollout") <=> What = "managerRollout")
      /\ (Is(Step, "pass", "alertmanager") <=> What = "alertmanager")
    BY <1>2 DEF Is
<1>5. /\ What # "managerRollout" => checks'["managerRollout"] = checks["managerRollout"]
      /\ What # "alertmanager" => checks'["alertmanager"] = checks["alertmanager"]
    BY <1>1, <1>2 DEF Checks
<1>6. /\ ResultInv' /\ CopyInv' /\ ReportInv' /\ PlanInv' /\ Moves
      /\ What # "managerRollout" => RolloutInv'
      /\ What # "alertmanager" => SentInv'
    BY <1>1, <1>2, <1>3, <1>4, <1>5, AdvanceParts
<1>7. CASE What = "managerRollout"
    <2>1. dep.served /\ dep \in Deployment
        BY <1>2, <1>4, <1>7 DEF IntegrationInv, RolloutInv
    <2>2. dep' = [NoDeployment EXCEPT !.served = dep.served]
        BY <1>1, <1>7
    <2>3. /\ dep' \in Deployment /\ dep'.observed = dep'.generation /\ dep'.template = "manifest"
          /\ dep'.pods["configured"] = "none" /\ dep'.served /\ ~dep'.set
        <3> DEFINE v == dep.served
        <3>1. v = TRUE /\ NoPods["configured"] = "none"
              /\ NoPods \in [Templates -> {"none", "starting", "available"}]
            BY <2>1 DEF NoPods, Templates, Deployment
        <3> HIDE DEF v
        <3>2. dep' = [generation |-> 0, template |-> "manifest", pods |-> NoPods, observed |-> 0,
                      updated |-> 0, available |-> 0, unavailable |-> 0, set |-> FALSE, served |-> v]
            BY <2>2 DEF NoDeployment, v
        <3>3. QED
            BY <3>1, <3>2 DEF Deployment, Templates
    <2>4. dep'.observed <= dep'.generation
        BY <2>3 DEF Deployment
    <2>5. ~(Left' /\ Is(Step', "wait", "manager"))
        BY <1>1, <1>2, <1>4, <1>6, AfterMove
    <2>6. RolloutInv'
        BY <2>3, <2>4, <2>5 DEF RolloutInv, RolloutIsCurrent, Applied, Fresh
    <2>7. QED
        BY <1>1, <1>2, <1>6, <1>7, <2>6 DEF IntegrationInv
<1>8. CASE What = "alertmanager"
    <2>1. seen.delivery # "none" /\ SentInv
        BY <1>2, <1>4, <1>8 DEF IntegrationInv, SentInv
    <2>2. ~Left'
        BY <1>1, <1>2, <1>4, <1>6, <1>8, AfterMove
    <2>3. \A i \in Ahead' : FALSE
        <3>1. run'.at \in Nat /\ Len(Run[cfg']) \in Nat
            BY <1>1, <1>2, <1>6, RunFacts DEF ResultInv, RunState
        <3>2. QED
            BY <2>2, <3>1 DEF Left, Ahead
    <2>4. SentInv'
        <3>1. Supported'
            BY <1>1, <2>1, Zenon DEF SentInv, Supported, Shows
        <3>2. QED
            BY <1>1, <2>1, <2>2, <2>3, <3>1 DEF SentInv
    <2>5. QED
        BY <1>1, <1>2, <1>6, <1>8, <2>4 DEF IntegrationInv
<1>9. CASE What \notin {"managerRollout", "alertmanager"}
    BY <1>1, <1>2, <1>6, <1>9 DEF IntegrationInv
<1>10. QED
    BY <1>7, <1>8, <1>9

\* A new template makes a new generation.
LEMMA TemplateEffect ==
    ASSUME RolloutInv, NEW t \in Templates, SetTemplate(t)
    PROVE  /\ dep' \in Deployment /\ dep'.template = t /\ dep'.pods = dep.pods
           /\ dep'.set = (dep.set \/ t = "configured")
           /\ dep'.served = (dep.served \/ (t = "configured" /\ dep.pods[t] = "available"))
           /\ dep'.observed <= dep'.generation
           /\ waitForDeploymentRollout' => dep.template = t /\ waitForDeploymentRollout
<1>1. dep \in Deployment /\ dep.observed <= dep.generation
    BY DEF RolloutInv
<1> DEFINE g == IF dep.generation = 0 \/ dep.template # t THEN dep.generation + 1 ELSE dep.generation
           e == dep.set \/ t = "configured"
           v == dep.served \/ (t = "configured" /\ dep.pods[t] = "available")
<1>2. dep' = [dep EXCEPT !.generation = g, !.template = t, !.set = e, !.served = v]
    BY DEF SetTemplate
<1>3. g \in Nat /\ dep.generation <= g /\ (g = dep.generation => dep.template = t)
      /\ (g # dep.generation => dep.generation < g) /\ dep.observed \in Nat /\ dep.generation \in Nat
    BY <1>1 DEF Deployment
<1>3a. e \in BOOLEAN /\ v \in BOOLEAN
    OBVIOUS
<1> HIDE DEF g, e, v
<1>4. /\ dep' \in Deployment /\ dep'.template = t /\ dep'.pods = dep.pods /\ dep'.set = e /\ dep'.served = v
      /\ dep'.observed = dep.observed /\ dep'.generation = g /\ dep'.updated = dep.updated
      /\ dep'.available = dep.available /\ dep'.unavailable = dep.unavailable
    BY <1>1, <1>2, <1>3, <1>3a DEF Deployment
<1>5. dep'.observed <= dep'.generation
    BY <1>1, <1>3, <1>4
<1>6. ASSUME waitForDeploymentRollout'
      PROVE  dep.template = t /\ waitForDeploymentRollout
    <2>1. dep'.observed >= dep'.generation /\ dep'.generation > 0
        BY <1>6 DEF waitForDeploymentRollout
    <2>2. g = dep.generation
        BY <1>1, <1>3, <1>4, <2>1
    <2>3. QED
        BY <1>3, <1>4, <1>6, <2>2 DEF waitForDeploymentRollout
<1>7. QED
    BY <1>4, <1>5, <1>6 DEF e, v

\* The manifests of the operator are applied, over what an earlier run may have
\* left.
LEMMA ManifestsKeep ==
    ASSUME IntegrationInv, ApplyOperatorManifests
    PROVE  IntegrationInv'
<1>1. /\ Left /\ run.phase = "running" /\ Step.kind = "apply" /\ pf \in Unclosed
      /\ seen \in Knowledge /\ copy = "none" /\ ResultInv /\ RolloutInv
    BY AtStep DEF ApplyOperatorManifests, IntegrationInv
<1>2. CASE Fails("other")
    BY <1>1, <1>2, FailsKeeps
<1>3. CASE ~Fails("other")
    <2>1. /\ SetTemplate("manifest") /\ Advance
          /\ cfg' = cfg /\ checks' = checks /\ pf' = pf /\ seen' = seen /\ report' = report
          /\ copy' = copy /\ plan' = plan /\ sent' = sent
        BY <1>3 DEF ApplyOperatorManifests
    <2>2. StepMarks
        BY <1>1, <2>1, NothingMarked
    <2>3. /\ Step.kind # "ensure" /\ Step.kind # "conditions" /\ Step.kind # "deliver"
          /\ ~Is(Step, "wait", "manager") /\ ~Is(Step, "wait", "plan") /\ ~Is(Step, "call", "alertDetails")
        BY <1>1 DEF Is
    <2>4. ResultInv' /\ CopyInv' /\ ReportInv' /\ PlanInv' /\ SentInv' /\ Moves
        BY <1>1, <2>1, <2>2, <2>3, AdvanceParts
    <2>5. /\ dep' \in Deployment /\ dep'.template = "manifest" /\ dep'.pods = dep.pods
          /\ dep'.set = dep.set /\ dep'.served = dep.served /\ dep'.observed <= dep'.generation
        <3>1. "manifest" \in Templates /\ dep \in Deployment
            BY <1>1 DEF Templates, RolloutInv
        <3>2. dep.set \in BOOLEAN /\ dep.served \in BOOLEAN
            BY <3>1 DEF Deployment
        <3>3. QED
            BY <1>1, <2>1, <3>1, <3>2, TemplateEffect
    <2>6. ~(Left' /\ Is(Step', "wait", "manager")) /\ ~(Left' /\ Is(Step', "pass", "managerRollout"))
        BY <1>1, <2>1, <2>3, <2>4, AfterMove
    <2>7. RolloutInv'
        BY <1>1, <2>1, <2>5, <2>6 DEF RolloutInv, RolloutIsCurrent, Applied, Fresh
    <2>8. QED
        BY <1>1, <2>1, <2>4, <2>7 DEF IntegrationInv
<1>4. QED
    BY <1>2, <1>3

\* The Deployment is read, and updated from a copy that is current.
LEMMA UpdateKeeps ==
    ASSUME IntegrationInv, UpdateDeployment
    PROVE  IntegrationInv'
<1>1. /\ At("ensure") /\ copy' = "none" /\ cfg' = cfg /\ pf' = pf /\ seen' = seen /\ report' = report
      /\ plan' = plan /\ sent' = sent
      /\ (SetTemplate("configured") /\ Advance /\ checks' = checks) \/ (Error("other") /\ dep' = dep)
    BY DEF UpdateDeployment
<1>2. /\ Left /\ run.phase = "running" /\ Step.kind = "ensure" /\ pf \in Unclosed
      /\ seen \in Knowledge /\ ResultInv /\ RolloutInv
    BY <1>1, AtStep DEF IntegrationInv
<1>3. CASE Error("other") /\ dep' = dep
    BY <1>1, <1>2, <1>3, ErrorKeeps
<1>4. CASE SetTemplate("configured") /\ Advance /\ checks' = checks
    <2>1. StepMarks
        BY <1>2, <1>4, NothingMarked
    <2>2. /\ Step.kind # "conditions" /\ Step.kind # "deliver"
          /\ ~Is(Step, "wait", "manager") /\ ~Is(Step, "wait", "plan") /\ ~Is(Step, "call", "alertDetails")
        BY <1>2 DEF Is
    <2>3. ResultInv' /\ CopyInv' /\ ReportInv' /\ PlanInv' /\ SentInv' /\ Moves
        BY <1>1, <1>2, <1>4, <2>1, <2>2, AdvanceParts
    <2>4. /\ dep' \in Deployment /\ dep'.template = "configured" /\ dep'.pods = dep.pods
          /\ dep'.set
          /\ dep'.served = (dep.served \/ dep.pods["configured"] = "available")
          /\ dep'.observed <= dep'.generation
          /\ waitForDeploymentRollout' => dep.template = "configured" /\ waitForDeploymentRollout
        BY <1>2, <1>4, TemplateEffect DEF Templates
    <2>5. ~(Left' /\ Is(Step', "pass", "managerRollout"))
        BY <1>1, <1>2, <2>2, <2>3, AfterMove
    <2>5a. Fresh(dep)
        <3> DEFINE R == Run[cfg]
        <3>1. /\ Arranged(R) /\ DOMAIN R = 1 .. Len(R) /\ Len(R) \in Nat
              /\ run.at \in 1 .. Len(R) /\ R[run.at].kind = "ensure"
            BY <1>1, <1>2, AtStep, RunFacts DEF ResultInv, Step
        <3> HIDE DEF R
        <3>2. PICK j \in DOMAIN R : j < run.at /\ R[j].kind = "apply"
            BY <3>1, Zenon DEF Arranged
        <3>3. j \in Behind
            BY <3>1, <3>2 DEF Behind
        <3>4. QED
            BY <1>2, <3>2, <3>3 DEF RolloutInv, Applied, R
    <2>5b. waitForDeploymentRollout' => dep'.served
        <3>1. ASSUME waitForDeploymentRollout' PROVE dep'.served
            <4>1. dep.template = "configured" /\ waitForDeploymentRollout
                BY <2>4, <3>1
            <4>2. dep.set
                BY <2>5a, <4>1 DEF Fresh
            <4>3. dep.served
                BY <1>2, <4>1, <4>2 DEF RolloutInv
            <4>4. QED
                BY <2>4, <4>3
        <3>2. QED
            BY <3>1
    <2>6. RolloutInv'
        BY <1>2, <1>4, <2>4, <2>5, <2>5b DEF RolloutInv, RolloutIsCurrent, Applied, Fresh
    <2>7. QED
        BY <1>1, <1>2, <2>3, <2>6 DEF IntegrationInv
<1>5. QED
    BY <1>1, <1>3, <1>4

\* The copy is read, and dropped when it is stale.
LEMMA CopyKeeps ==
    ASSUME IntegrationInv, GetDeployment \/ UpdateConflicts
    PROVE  IntegrationInv'
<1>1. CASE GetDeployment
    <2>1. At("ensure") /\ copy = "none"
        BY <1>1 DEF GetDeployment
    <2>2. Left /\ run.phase = "running" /\ Step.kind = "ensure" /\ seen \in Knowledge /\ run \in RunState
        BY <2>1, AtStep
    <2>3. CASE Fails("other")
        BY <2>1, <2>2, <2>3, FailsKeeps
    <2>4. CASE ~Fails("other")
        <3>1. /\ copy' = "current" /\ cfg' = cfg /\ run' = run /\ checks' = checks /\ pf' = pf
              /\ seen' = seen /\ report' = report /\ dep' = dep /\ plan' = plan /\ sent' = sent
            BY <1>1, <2>4 DEF GetDeployment
        <3>2. run' \in RunState /\ Stays /\ run'.phase = run.phase /\ run'.result = run.result
            BY <2>2, <3>1 DEF Stays
        <3>3. ResultInv' /\ ReportInv' /\ RolloutInv' /\ PlanInv' /\ SentInv' /\ At("ensure")'
            BY <2>1, <3>1, <3>2, StayParts
        <3>4. CopyInv'
            BY <3>1, <3>3 DEF CopyInv
        <3>5. QED
            BY <2>2, <3>1, <3>3, <3>4 DEF IntegrationInv
    <2>5. QED
        BY <2>3, <2>4
<1>2. CASE UpdateConflicts
    <2>1. /\ At("ensure") /\ copy' = "none" /\ cfg' = cfg /\ pf' = pf /\ seen' = seen /\ report' = report
          /\ dep' = dep /\ plan' = plan /\ sent' = sent
          /\ (TryAgain /\ checks' = checks) \/ Error("other")
        BY <1>2 DEF UpdateConflicts
    <2>2. /\ Left /\ run.phase = "running" /\ Step.kind = "ensure" /\ seen \in Knowledge /\ run \in RunState
          /\ pf \in Unclosed
        BY <2>1, AtStep
    <2>3. CASE Error("other")
        BY <2>1, <2>2, <2>3, ErrorKeeps
    <2>4. CASE TryAgain /\ checks' = checks
        <3>1. run' = [run EXCEPT !.tries = @ + 1]
            BY <2>4 DEF TryAgain
        <3>2. run' \in RunState /\ Stays /\ run'.phase = run.phase /\ run'.result = run.result
            BY <2>2, <3>1 DEF RunState, Stays
        <3>3. ResultInv' /\ ReportInv' /\ RolloutInv' /\ CopyInv' /\ PlanInv' /\ SentInv'
            BY <2>1, <2>4, <3>2, StayParts
        <3>4. QED
            BY <2>1, <2>2, <3>3 DEF IntegrationInv
    <2>5. QED
        BY <2>1, <2>3, <2>4
<1>3. QED
    BY <1>1, <1>2

\* The plan is applied: nothing has been waited for nor looked at before.
LEMMA PlanAppliedKeeps ==
    ASSUME IntegrationInv, ApplyCapacityPlan
    PROVE  IntegrationInv'
<1> DEFINE R == Run[cfg]
<1>1. /\ Left /\ run.phase = "running" /\ Step.kind = "plan" /\ pf \in Unclosed
      /\ seen \in Knowledge /\ copy = "none" /\ ResultInv /\ PlanInv
      /\ run.at \in 1 .. Len(R) /\ Len(R) \in Nat /\ Step = R[run.at] /\ cfg \in Configs
    BY AtStep DEF ApplyCapacityPlan, IntegrationInv, Step
<1>2. CASE Fails("other")
    BY <1>1, <1>2, FailsKeeps
<1>3. CASE ~Fails("other")
    <2>1. /\ plan' = [plan EXCEPT !.ours = FALSE] /\ Advance
          /\ cfg' = cfg /\ checks' = checks /\ pf' = pf /\ seen' = seen /\ report' = report
          /\ dep' = dep /\ copy' = copy /\ sent' = sent
        BY <1>3 DEF ApplyCapacityPlan
    <2>2. StepMarks
        BY <1>1, <2>1, NothingMarked
    <2>3. /\ Step.kind # "apply" /\ Step.kind # "ensure" /\ Step.kind # "conditions" /\ Step.kind # "deliver"
          /\ ~Is(Step, "wait", "manager") /\ ~Is(Step, "wait", "plan") /\ ~Is(Step, "call", "alertDetails")
        BY <1>1 DEF Is
    <2>4. ResultInv' /\ CopyInv' /\ ReportInv' /\ RolloutInv' /\ SentInv' /\ Moves
        BY <1>1, <2>1, <2>2, <2>3, AdvanceParts
    <2>5. Run[cfg'] = R /\ Behind' = 1 .. run.at
        <3>1. run'.at = run.at + 1 /\ run.at \in Int
            BY <1>1, <2>4 DEF Moves
        <3>2. QED
            BY <2>1, <3>1 DEF Behind
    <2>6. Sorted(R) /\ Arranged(R) /\ DOMAIN R = 1 .. Len(R) /\ \A i \in 1 .. Len(R) : R[i] \in StepsOf(cfg)
        BY <1>1, RunFacts
    <2>7. \A i \in 1 .. run.at : i \in DOMAIN R /\ i <= run.at /\ i \in Nat
        BY <1>1, <2>6
    <2> HIDE DEF R
    <2>8. run.at \in DOMAIN R
        BY <1>1, <2>6
    <2>9. \A i \in 1 .. run.at : ~Is(R[i], "wait", "plan")
        <3>1. \A i \in DOMAIN R : Is(R[i], "wait", "plan") => run.at < i
            BY <1>1, <2>6, <2>8, Zenon DEF Arranged
        <3>2. QED
            BY <1>1, <2>7, <3>1
    <2>10. \A i \in 1 .. run.at : R[i].kind # "conditions"
        <3>1. SUFFICES ASSUME NEW i \in 1 .. run.at, R[i].kind = "conditions" PROVE FALSE
            OBVIOUS
        <3>2. Rank(R[i].stage) <= Rank(R[run.at].stage)
            BY <2>6, <2>7, <2>8 DEF Sorted
        <3>3. R[i] \in StepsOf(cfg) /\ R[run.at] \in StepsOf(cfg)
            BY <2>6, <2>7, <2>8
        <3>4. R[i].stage = "trend" /\ R[run.at].stage = "workload"
            BY <1>1, <3>1, <3>3, StepPlaces
        <3>5. Rank("trend") = 6 /\ Rank("workload") = 5
            BY DEF Rank
        <3>6. QED
            BY <3>2, <3>4, <3>5
    <2>11. plan' \in [time : Nat, ours : BOOLEAN]
        BY <1>1, <2>1 DEF PlanInv
    <2>12. PlanInv'
        BY <2>5, <2>9, <2>10, <2>11 DEF PlanInv
    <2>13. QED
        BY <1>1, <2>1, <2>4, <2>12 DEF IntegrationInv
<1>4. QED
    BY <1>2, <1>3

\* The conditions of the plan are looked at after its time was read: another time
\* is that of a reconcile since.
LEMMA ConditionsKeep ==
    ASSUME IntegrationInv, checkCapacityPlanPostConditions
    PROVE  IntegrationInv'
<1> DEFINE R == Run[cfg]
<1>1. /\ Left /\ run.phase = "running" /\ Step.kind = "conditions" /\ pf \in Unclosed
      /\ seen \in Knowledge /\ copy = "none" /\ ResultInv /\ PlanInv
      /\ run.at \in 1 .. Len(R) /\ Len(R) \in Nat /\ Step = R[run.at] /\ cfg \in Configs
    BY AtStep DEF checkCapacityPlanPostConditions, IntegrationInv, Step
<1>2. CASE Fails("other")
    BY <1>1, <1>2, FailsKeeps
<1>3. CASE ~Fails("other")
    <2>1. /\ validateCapacityPlanConditions /\ Advance
          /\ cfg' = cfg /\ checks' = checks /\ pf' = pf /\ seen' = seen /\ report' = report
          /\ dep' = dep /\ copy' = copy /\ plan' = plan /\ sent' = sent
        BY <1>3 DEF checkCapacityPlanPostConditions, Succeeds, cluster
    <2>2. StepMarks
        BY <1>1, <2>1, NothingMarked
    <2>3. /\ Step.kind # "ensure" /\ Step.kind # "deliver"
          /\ ~Is(Step, "wait", "manager") /\ ~Is(Step, "wait", "plan") /\ ~Is(Step, "call", "alertDetails")
        BY <1>1 DEF Is
    <2>4. ResultInv' /\ CopyInv' /\ ReportInv' /\ RolloutInv' /\ SentInv' /\ Moves
        BY <1>1, <2>1, <2>2, <2>3, AdvanceParts
    <2>5. /\ Run[cfg'] = R /\ run'.warnings = run.warnings
          /\ \A i \in Behind' : i \in Behind \/ i = run.at
        BY <1>1, <2>1, <2>4 DEF Behind, Moves
    <2>6. Sorted(R) /\ Arranged(R) /\ DOMAIN R = 1 .. Len(R) /\ \A i \in 1 .. Len(R) : R[i] \in StepsOf(cfg)
        BY <1>1, RunFacts
    <2> HIDE DEF R
    <2>7. PICK j \in DOMAIN R : Is(R[j], "wait", "plan")
        BY <2>6, Zenon DEF Arranged
    <2>8. j < run.at
        <3>1. SUFFICES ASSUME run.at <= j PROVE FALSE
            BY <1>1, <2>6
        <3>2. run.at \in DOMAIN R
            BY <1>1, <2>6
        <3>3. Rank(R[run.at].stage) <= Rank(R[j].stage)
            BY <2>6, <3>1, <3>2 DEF Sorted
        <3>4. R[j] \in StepsOf(cfg) /\ R[run.at] \in StepsOf(cfg)
            BY <2>6, <3>2
        <3>5. R[j].stage = "workload" /\ R[run.at].stage = "trend"
            BY <1>1, <2>7, <3>4, StepPlaces, StepStage
        <3>6. Rank("trend") = 6 /\ Rank("workload") = 5
            BY DEF Rank
        <3>7. QED
            BY <3>3, <3>5, <3>6
    <2>9. j \in Behind
        BY <1>1, <2>6, <2>8 DEF Behind
    <2>10. plan.ours
        BY <1>1, <2>1, <2>7, <2>9 DEF PlanInv, validateCapacityPlanConditions, R
    <2>11. PlanInv'
        BY <1>1, <2>1, <2>3, <2>5, <2>10 DEF PlanInv, R
    <2>12. QED
        BY <1>1, <2>1, <2>4, <2>11 DEF IntegrationInv
<1>4. QED
    BY <1>2, <1>3

\* What the counters and the records show when the delivery is accepted.
LEMMA AcceptedShows ==
    ASSUME Sourced(sent), NEW m, m = resolveAlertmanagerNotificationCounters
    PROVE  /\ deliveredByMetrics(m.sum) => m.basis \in Bases \ {"payload"} /\ Shows(m.basis)
           /\ deliveredByPayload => Shows("payload")
<1> DEFINE c == sent.counters
           Plus(a, b) == [total |-> a.total + b.total, failed |-> a.failed + b.failed]
           Some(a) == a.total > 0 \/ a.failed > 0
           x == c["exact"]
           y == Plus(x, c["receiver"])
           z == Plus(x, c["prefix"])
           u == Plus(y, Plus(c["prefix"], c["other"]))
<1>1. m = IF Some(x) THEN [sum |-> x, basis |-> "exact"]
          ELSE IF Some(y) THEN [sum |-> y, basis |-> "receiver_only"]
          ELSE IF Some(z) THEN [sum |-> z, basis |-> "integration_prefix"]
          ELSE [sum |-> u, basis |-> "any"]
    BY DEF resolveAlertmanagerNotificationCounters
<1>2. /\ Labels = {"exact", "receiver", "prefix", "other"} /\ c \in [Labels -> Counter]
      /\ \A l \in Labels : c[l].total \in Nat /\ c[l].failed \in Nat
    BY DEF Sourced, DeliveryState, Counter, Labels
<1>3. /\ x.total \in Nat /\ x.failed \in Nat
      /\ y.total = x.total + c["receiver"].total /\ y.failed = x.failed + c["receiver"].failed
      /\ z.failed = x.failed + c["prefix"].failed
      /\ u.failed = x.failed + c["receiver"].failed + (c["prefix"].failed + c["other"].failed)
    BY <1>2
<1>4. \A l \in Labels : c[l].total > 0 => l \in sent.tried \cup sent.counted
    BY DEF Sourced
<1> HIDE DEF c, x, y, z, u, Plus
<1>5. ASSUME deliveredByMetrics(m.sum)
      PROVE  m.basis \in Bases \ {"payload"} /\ Shows(m.basis)
    <2>0. m.sum.total > 0 /\ m.sum.failed = 0
        BY <1>5 DEF deliveredByMetrics
    <2>1. CASE Some(x)
        <3>1. m.sum = x /\ m.basis = "exact"
            BY <1>1, <2>1
        <3>2. x.failed = 0 /\ "exact" \in sent.tried \cup sent.counted
            BY <1>2, <1>4, <2>0, <3>1 DEF x
        <3>3. QED
            BY <3>1, <3>2 DEF Shows, Bases, x, c
    <2>2. CASE ~Some(x) /\ Some(y)
        <3>1. m.sum = y /\ m.basis = "receiver_only"
            BY <1>1, <2>2
        <3>2. x.failed = 0 /\ x.total = 0
            BY <1>3, <2>2
        <3>3. c["receiver"].total > 0
            BY <1>2, <1>3, <2>0, <3>1, <3>2
        <3>4. "receiver" \in sent.tried \cup sent.counted
            BY <1>2, <1>4, <3>3
        <3>5. QED
            BY <3>1, <3>2, <3>4 DEF Shows, Bases, x, c
    <2>3. CASE ~Some(x) /\ ~Some(y)
        <3>1. m.basis \in {"integration_prefix", "any"}
            BY <1>1, <2>3
        <3>2. x.failed = 0
            BY <1>3, <2>3
        <3>3. QED
            BY <3>1, <3>2 DEF Shows, Bases, x, c
    <2>4. QED
        BY <2>1, <2>2, <2>3
<1>6. deliveredByPayload => Shows("payload")
    BY DEF deliveredByPayload, Shows, Sourced
<1>7. QED
    BY <1>5, <1>6

\* The delivery is accepted, on the counters or on the payloads.
LEMMA DeliveredKeeps ==
    ASSUME IntegrationInv, Delivered
    PROVE  IntegrationInv'
<1> DEFINE R == Run[cfg]
<1>1. /\ At("deliver") /\ Advance
      /\ \E d \in Bases : seen' = [seen EXCEPT !.delivery = d] /\ Shows(d)
      /\ cfg' = cfg /\ checks' = checks /\ pf' = pf /\ report' = report
      /\ dep' = dep /\ copy' = copy /\ plan' = plan /\ sent' = sent
    <2>1. Sourced(sent)
        BY DEF IntegrationInv, SentInv
    <2> DEFINE m == resolveAlertmanagerNotificationCounters
    <2>2. \/ deliveredByMetrics(m.sum) /\ seen' = [seen EXCEPT !.delivery = m.basis]
          \/ deliveredByPayload /\ seen' = [seen EXCEPT !.delivery = "payload"]
        BY DEF Delivered
    <2>3. /\ deliveredByMetrics(m.sum) => m.basis \in Bases \ {"payload"} /\ Shows(m.basis)
          /\ deliveredByPayload => Shows("payload")
        BY <2>1, AcceptedShows
    <2> HIDE DEF m
    <2>4. "payload" \in Bases
        BY DEF Bases
    <2>5. \E d \in Bases : seen' = [seen EXCEPT !.delivery = d] /\ Shows(d)
        BY <2>2, <2>3, <2>4
    <2>6. QED
        BY <2>5 DEF Delivered, cluster
<1>2. /\ Left /\ run.phase = "running" /\ Step.kind = "deliver" /\ pf \in Unclosed
      /\ seen \in Knowledge /\ copy = "none" /\ ResultInv /\ SentInv
      /\ run.at \in 1 .. Len(R) /\ Len(R) \in Nat /\ Step = R[run.at] /\ cfg \in Configs
    BY <1>1, AtStep DEF IntegrationInv, Step
<1>3. PICK d \in Bases : seen' = [seen EXCEPT !.delivery = d] /\ Shows(d)
    BY <1>1
<1>4. seen' \in Knowledge /\ seen'.first = seen.first /\ seen'.delivery = d
    BY <1>2, <1>3 DEF Knowledge
<1>5. StepMarks
    BY <1>1, <1>2, NothingMarked
<1>6. /\ Step.kind # "apply" /\ Step.kind # "ensure" /\ Step.kind # "conditions"
      /\ ~Is(Step, "wait", "manager") /\ ~Is(Step, "wait", "plan")
    BY <1>2 DEF Is
<1>7. ResultInv' /\ CopyInv' /\ ReportInv' /\ RolloutInv' /\ PlanInv' /\ Moves
    BY <1>1, <1>2, <1>4, <1>5, <1>6, AdvanceParts
<1>8. \A i \in Ahead' : Run[cfg'][i].kind # "deliver"
    <2>1. SUFFICES ASSUME NEW i \in Ahead', R[i].kind = "deliver" PROVE FALSE
        BY <1>1
    <2>2. run'.at = run.at + 1 /\ Arranged(R) /\ DOMAIN R = 1 .. Len(R)
        BY <1>2, <1>7, RunFacts DEF Moves
    <2>3. i \in DOMAIN R /\ run.at \in DOMAIN R /\ i # run.at
        BY <1>1, <1>2, <2>2 DEF Ahead
    <2> HIDE DEF R
    <2>4. R[run.at].kind = "deliver"
        BY <1>2
    <2>5. \A x, y \in DOMAIN R : R[x].kind = "deliver" /\ R[y].kind = "deliver" => x = y
        BY <2>2, Z3 DEF Arranged, Is, Inner
    <2>6. QED
        BY <2>1, <2>3, <2>4, <2>5
<1>9. SentInv'
    <2>1. Sourced(sent)' /\ Shows(d)'
        BY <1>1, <1>2, <1>3 DEF SentInv, Shows
    <2>2. Supported'
        BY <1>4, <2>1 DEF Supported, Shows
    <2>3. seen'.delivery # "none"
        BY <1>3, <1>4 DEF Bases
    <2>4. QED
        BY <1>8, <2>1, <2>2, <2>3 DEF SentInv
<1>10. QED
    BY <1>4, <1>7, <1>9 DEF IntegrationInv

\* One more snapshot of the trend.
NextObservation(o, growing, nonzero) ==
    [remaining |-> o.remaining - trendIntervalSeconds(o.remaining),
     snapshots |-> o.snapshots + 1,
     growing |-> IF growing > o.growing THEN growing ELSE o.growing,
     nonzero |-> o.nonzero \/ nonzero]

\* Nothing observed yet.
LEMMA EmptyObservations == NoObservation \in Observation /\ newTrendObservation \in Observation
<1>1. TrendObserve \in Nat \ {0}
    BY ConfigAssumption
<1>2. NoObservation \in Observation
    BY <1>1 DEF NoObservation, Observation
<1> DEFINE r == IF TrendObserve <= 0 THEN 1 ELSE TrendObserve
<1>3. r \in 0 .. TrendObserve
    BY <1>1
<1>4. newTrendObservation = [NoObservation EXCEPT !.remaining = r]
    BY DEF newTrendObservation
<1> HIDE DEF r
<1>5. QED
    BY <1>2, <1>3, <1>4 DEF Observation

\* A snapshot takes some of the time that remains, and never more.
LEMMA ObservationType ==
    ASSUME cfg \in Configs, NEW o \in Observation, NEW growing \in Int, NEW nonzero \in BOOLEAN
    PROVE  NextObservation(o, growing, nonzero) \in Observation
<1>1. DefaultInterval \in Nat \ {0} /\ TrendObserve \in Nat \ {0} /\ cfg.interval \in Int
    BY ConfigAssumption DEF Config
<1>2. o.remaining \in 0 .. TrendObserve /\ o.snapshots \in Nat /\ o.growing \in Int /\ o.nonzero \in BOOLEAN
    BY DEF Observation
<1> DEFINE t == trendIntervalSeconds(o.remaining)
           r == o.remaining - t
           g == IF growing > o.growing THEN growing ELSE o.growing
           z == o.nonzero \/ nonzero
<1>3. t \in 0 .. o.remaining
    BY <1>1, <1>2 DEF trendIntervalSeconds
<1> HIDE DEF t
<1>4. r \in 0 .. TrendObserve
    BY <1>1, <1>2, <1>3
<1>5. g \in Int /\ z \in BOOLEAN /\ o.snapshots + 1 \in Nat
    BY <1>2
<1>6. NextObservation(o, growing, nonzero)
        = [remaining |-> r, snapshots |-> o.snapshots + 1, growing |-> g, nonzero |-> z]
    BY DEF NextObservation, t
<1> HIDE DEF r, g, z
<1>7. QED
    BY <1>4, <1>5, <1>6 DEF Observation

\* Snapshots, until the trend is confirmed or the time is over.
LEMMA SnapshotKeeps ==
    ASSUME IntegrationInv, captureTrendSnapshot
    PROVE  IntegrationInv'
<1>1. /\ At("observe") /\ Left /\ run.phase = "running" /\ Step.kind = "observe" /\ pf \in Unclosed
      /\ seen \in Knowledge /\ copy = "none" /\ cfg \in Configs /\ run \in RunState
    BY AtStep, SMTT(40) DEF captureTrendSnapshot
<1>2. PICK growing \in 0 .. MinGrowing, nonzero \in BOOLEAN, alerts \in BOOLEAN, late \in BOOLEAN :
        LET o == IF seen.obs = NoObservation THEN newTrendObservation ELSE seen.obs
            n == [remaining |-> o.remaining - trendIntervalSeconds(o.remaining),
                  snapshots |-> o.snapshots + 1,
                  growing |-> IF growing > o.growing THEN growing ELSE o.growing,
                  nonzero |-> o.nonzero \/ nonzero]
            over == n.remaining = 0 \/ shouldStopTrendObservation(n, late)
        IN  /\ seen' = [seen EXCEPT !.alerts = @ \/ alerts,
                                    !.obs = IF over THEN NoObservation ELSE n]
            /\ CASE ~over -> UNCHANGED <<cfg, run, checks, pf, report, cluster>>
                 [] over /\ Confirmed(n) -> Mark("trendSignal", "pass")
                 [] over /\ ~Confirmed(n) -> Error("other") /\ UNCHANGED <<cfg, pf, report, cluster>>
    BY DEF captureTrendSnapshot
<1> DEFINE o == IF seen.obs = NoObservation THEN newTrendObservation ELSE seen.obs
           n == NextObservation(o, growing, nonzero)
           over == n.remaining = 0 \/ shouldStopTrendObservation(n, late)
           x == IF over THEN NoObservation ELSE n
           a == seen.alerts \/ alerts
<1>3. /\ seen' = [seen EXCEPT !.alerts = a, !.obs = x]
      /\ \/ UNCHANGED <<cfg, run, checks, pf, report, cluster>>
         \/ Mark("trendSignal", "pass")
         \/ Error("other") /\ UNCHANGED <<cfg, pf, report, cluster>>
    BY <1>2 DEF NextObservation
<1>4. o \in Observation
    BY <1>1, EmptyObservations DEF Knowledge
<1>5. n \in Observation
    <2>1. growing \in Int
        BY ConfigAssumption
    <2>2. QED
        BY <1>1, <1>4, <2>1, ObservationType
<1>6. x \in Observation /\ a \in BOOLEAN
    BY <1>1, <1>5, EmptyObservations DEF Knowledge
<1> HIDE DEF o, n, over, x, a
<1>7. seen' \in Knowledge /\ seen'.first = seen.first /\ seen'.delivery = seen.delivery
    BY <1>1, <1>3, <1>6 DEF Knowledge
<1>8. CASE UNCHANGED <<cfg, run, checks, pf, report, cluster>>
    <2>1. /\ cfg' = cfg /\ run' = run /\ checks' = checks /\ pf' = pf /\ report' = report
          /\ dep' = dep /\ copy' = copy /\ plan' = plan /\ sent' = sent
        BY <1>8 DEF cluster
    <2>2. run' \in RunState /\ Stays /\ run'.phase = run.phase /\ run'.result = run.result
        BY <1>1, <2>1 DEF Stays
    <2>3. ResultInv' /\ ReportInv' /\ RolloutInv' /\ CopyInv' /\ PlanInv' /\ SentInv'
        BY <1>7, <2>1, <2>2, StayParts
    <2>4. QED
        BY <1>7, <2>3 DEF IntegrationInv
<1>9. CASE Mark("trendSignal", "pass")
    <2>1. StepMarks
        BY <1>1, <1>9 DEF Mark, StepMarks
    <2>2. QED
        BY <1>1, <1>7, <1>9, <2>1, MarkKeeps
<1>10. CASE Error("other") /\ UNCHANGED <<cfg, pf, report, cluster>>
    <2>1. /\ cfg' = cfg /\ pf' = pf /\ report' = report
          /\ dep' = dep /\ copy' = copy /\ plan' = plan /\ sent' = sent
        BY <1>10 DEF cluster
    <2>2. QED
        BY <1>1, <1>7, <1>10, <2>1, ErrorKeeps
<1>11. QED
    BY <1>3, <1>8, <1>9, <1>10

\* A snapshot that cannot be taken.
LEMMA SnapshotFailsKeeps ==
    ASSUME IntegrationInv, SnapshotFails
    PROVE  IntegrationInv'
<1>1. /\ At("observe") /\ Error("other") /\ cfg' = cfg /\ pf' = pf /\ report' = report
      /\ dep' = dep /\ copy' = copy /\ plan' = plan /\ sent' = sent
    BY DEF SnapshotFails, cluster
<1>2. /\ Left /\ run.phase = "running" /\ Step.kind = "observe" /\ pf \in Unclosed
      /\ seen \in Knowledge /\ copy = "none"
    BY <1>1, AtStep
<1>3. PICK alerts \in BOOLEAN : seen' = [seen EXCEPT !.alerts = @ \/ alerts, !.obs = NoObservation]
    BY DEF SnapshotFails
<1> DEFINE a == seen.alerts \/ alerts
<1>4. seen' = [seen EXCEPT !.alerts = a, !.obs = NoObservation] /\ a \in BOOLEAN
    BY <1>2, <1>3 DEF Knowledge
<1> HIDE DEF a
<1>5. seen' \in Knowledge /\ seen'.first = seen.first /\ seen'.delivery = seen.delivery
    BY <1>2, <1>4, EmptyObservations DEF Knowledge
<1>6. QED
    BY <1>1, <1>2, <1>5, ErrorKeeps

\* The rates are compared, perhaps twice.
LEMMA CompareKeeps ==
    ASSUME IntegrationInv, compareGrowthCalculations
    PROVE  IntegrationInv'
<1>1. /\ At("compare") /\ Left /\ run.phase = "running" /\ Step.kind = "compare" /\ pf \in Unclosed
      /\ seen \in Knowledge /\ copy = "none" /\ run \in RunState
    BY AtStep DEF compareGrowthCalculations
<1>2. CASE Fails("other")
    BY <1>1, <1>2, FailsKeeps
<1>3. CASE Mark("growthCompare", "pass") /\ UNCHANGED seen
    <2>1. StepMarks
        BY <1>1, <1>3 DEF Mark, StepMarks
    <2>2. QED
        BY <1>1, <1>3, <2>1, MarkKeeps
<1>4. CASE TryAgain /\ UNCHANGED <<cfg, checks, pf, seen, report, cluster>>
    <2>1. /\ checks' = checks /\ cfg' = cfg /\ pf' = pf /\ report' = report /\ seen' = seen
          /\ dep' = dep /\ copy' = copy /\ plan' = plan /\ sent' = sent
          /\ run' = [run EXCEPT !.tries = @ + 1]
        BY <1>4 DEF cluster, TryAgain
    <2>2. run' \in RunState /\ Stays /\ run'.phase = run.phase /\ run'.result = run.result
        BY <1>1, <2>1 DEF RunState, Stays
    <2>3. ResultInv' /\ ReportInv' /\ RolloutInv' /\ CopyInv' /\ PlanInv' /\ SentInv'
        BY <2>1, <2>2, StayParts
    <2>4. QED
        BY <1>1, <2>1, <2>3 DEF IntegrationInv
<1>5. QED
    BY <1>2, <1>3, <1>4 DEF compareGrowthCalculations

\* Insights that are missing or unread are an error, or are marked as a warning,
\* and not that in strict mode.
LEMMA InsightsKeep ==
    ASSUME IntegrationInv, InsightsPresent \/ InsightsMissing \/ InsightsUnread
    PROVE  IntegrationInv'
<1>1. /\ At("insights") /\ seen' = seen
      /\ \/ Mark("llmInsights", IF llmEnabled THEN "pass" ELSE "skipped")
         \/ llmEnabled /\ ~(cfg.llmHard /\ ~cfg.llmSoft) /\ Mark("llmInsights", "warn")
         \/ llmEnabled /\ \E err : Error(err) /\ UNCHANGED <<cfg, pf, report, cluster>>
    <2>1. CASE InsightsPresent
        BY <2>1 DEF InsightsPresent
    <2>2. ASSUME NEW err \in {"other", "timeout"}, InsightsError(err)
          PROVE  \/ ~(cfg.llmHard /\ ~cfg.llmSoft) /\ Mark("llmInsights", "warn")
                 \/ Error(err) /\ UNCHANGED <<cfg, pf, report, cluster>>
        <3>1. CASE shouldHardFailLLMError(err)
            BY <2>2, <3>1 DEF InsightsError
        <3>2. CASE ~shouldHardFailLLMError(err)
            BY <2>2, <3>2 DEF InsightsError, shouldHardFailLLMError
        <3>3. QED
            BY <3>1, <3>2
    <2>3. CASE InsightsMissing
        <3>1. At("insights") /\ llmEnabled /\ seen' = seen
            BY <2>3 DEF InsightsMissing
        <3>2. InsightsError("other") \/ (~(cfg.llmHard /\ ~cfg.llmSoft) /\ Mark("llmInsights", "warn"))
            BY <2>3 DEF InsightsMissing
        <3>3. QED
            BY <2>2, <3>1, <3>2
    <2>4. CASE InsightsUnread
        BY <2>2, <2>4 DEF InsightsUnread
    <2>5. QED
        BY <2>1, <2>3, <2>4
<1>2. /\ Left /\ run.phase = "running" /\ Step.kind = "insights" /\ pf \in Unclosed
      /\ seen \in Knowledge /\ copy = "none"
    BY <1>1, AtStep
<1>3. CASE Mark("llmInsights", IF llmEnabled THEN "pass" ELSE "skipped")
    <2>1. PICK v \in {"pass", "skipped"} : Mark("llmInsights", v) /\ (llmEnabled => v = "pass")
        BY <1>3
    <2>2. StepMarks
        BY <1>2, <2>1 DEF Mark, StepMarks
    <2>3. QED
        BY <1>1, <1>2, <2>1, <2>2, MarkKeeps
<1>4. CASE ~(cfg.llmHard /\ ~cfg.llmSoft) /\ Mark("llmInsights", "warn")
    <2>1. StepMarks
        BY <1>2, <1>4 DEF Mark, StepMarks
    <2>2. QED
        BY <1>1, <1>2, <1>4, <2>1, MarkKeeps
<1>5. CASE llmEnabled /\ \E err : Error(err) /\ UNCHANGED <<cfg, pf, report, cluster>>
    <2>1. PICK err : Error(err) /\ UNCHANGED <<cfg, pf, report, cluster>>
        BY <1>5
    <2>2. /\ cfg' = cfg /\ pf' = pf /\ report' = report
          /\ dep' = dep /\ copy' = copy /\ plan' = plan /\ sent' = sent
        BY <2>1 DEF cluster
    <2>3. QED
        BY <1>1, <1>2, <1>5, <2>1, <2>2, ErrorKeeps
<1>6. QED
    BY <1>1, <1>3, <1>4, <1>5

\* The end of the run, its report, and the forwards.
LEMMA EndKeeps ==
    ASSUME IntegrationInv, Finish \/ renderValidationReport \/ closePortForwards
    PROVE  IntegrationInv'
<1>1. /\ cfg' = cfg /\ checks' = checks /\ seen' = seen /\ dep' = dep /\ copy' = copy /\ plan' = plan
      /\ sent' = sent
    BY DEF Finish, renderValidationReport, closePortForwards, cluster
<1>2. run \in RunState /\ ResultInv /\ ReportInv /\ seen \in Knowledge
    BY DEF IntegrationInv, ResultInv
<1>3. CASE Finish
    <2> DEFINE r == IF run.warnings = {} THEN "passed" ELSE "warned"
    <2>1. /\ run.phase = "running" /\ ~Left /\ pf' = pf /\ report' = report
          /\ run' = [run EXCEPT !.phase = "reporting", !.result = r]
        BY <1>3 DEF Finish, cluster
    <2>2. r \in {"passed", "warned"} /\ (r = "passed" => run.warnings = {}) /\ (r = "warned" => run.warnings # {})
        OBVIOUS
    <2> HIDE DEF r
    <2>3. /\ run' \in RunState /\ Stays /\ run'.phase = "reporting" /\ run'.result = r
        BY <1>2, <2>1, <2>2 DEF RunState, Stays
    <2>4. /\ Behind' = Behind /\ Ahead' = Ahead /\ (Left' <=> Left) /\ (llmEnabled' <=> llmEnabled)
          /\ run'.at = run.at /\ run'.warnings = run.warnings /\ Run[cfg'] = Run[cfg]
        BY <1>1, <2>3 DEF Stays, Behind, Ahead, Left, llmEnabled
    <2>5. ResultInv'
        BY <1>1, <1>2, <2>1, <2>2, <2>3, <2>4 DEF ResultInv
    <2>6. ReportInv'
        BY <1>2, <2>1, <2>3, ForwardsUnclosed, ReportKept
    <2>7. RolloutInv' /\ PlanInv' /\ SentInv'
        BY <1>1, <1>2, <2>3, RolloutFrame, PlanFrame, SentFrame DEF IntegrationInv
    <2>8. CopyInv'
        BY <1>1, <2>1 DEF IntegrationInv, CopyInv, At
    <2>9. QED
        BY <1>1, <1>2, <2>5, <2>6, <2>7, <2>8 DEF IntegrationInv
<1>4. ASSUME NEW phase \in {"closing", "ended"}, run' = [run EXCEPT !.phase = phase], run.phase # "running"
      PROVE  ResultInv' /\ RolloutInv' /\ PlanInv' /\ SentInv' /\ CopyInv' /\ run'.phase = phase
    <2>1. /\ run' \in RunState /\ Stays /\ run'.phase = phase /\ run'.result = run.result
        BY <1>2, <1>4 DEF RunState, Stays
    <2>2. /\ Behind' = Behind /\ Ahead' = Ahead /\ (Left' <=> Left) /\ (llmEnabled' <=> llmEnabled)
          /\ run'.at = run.at /\ run'.warnings = run.warnings /\ Run[cfg'] = Run[cfg]
        BY <1>1, <2>1 DEF Stays, Behind, Ahead, Left, llmEnabled
    <2>3. run'.phase # "running" /\ run.result # "none"
        BY <1>2, <1>4, <2>1 DEF ResultInv
    <2>4. ResultInv'
        BY <1>1, <1>2, <2>1, <2>2, <2>3 DEF ResultInv
    <2>5. RolloutInv' /\ PlanInv' /\ SentInv'
        BY <1>1, <1>2, <2>1, RolloutFrame, PlanFrame, SentFrame DEF IntegrationInv
    <2>6. CopyInv'
        BY <1>1, <1>4 DEF IntegrationInv, CopyInv, At
    <2>7. QED
        BY <2>1, <2>4, <2>5, <2>6
<1>5. CASE renderValidationReport
    <2>1. /\ run.phase = "reporting" /\ run' = [run EXCEPT !.phase = "closing"] /\ pf' = pf
          /\ report' = [checks |-> checks, alertmanager |-> pf["alertmanager"]]
        BY <1>5 DEF renderValidationReport, printAlertmanagerInsights
    <2>2. ResultInv' /\ RolloutInv' /\ PlanInv' /\ SentInv' /\ CopyInv' /\ run'.phase = "closing"
        BY <1>4, <2>1
    <2>3. \A f \in Forwards : pf[f] \in {"none", "open"}
        BY <1>2, <2>1 DEF ReportInv
    <2>4. checks \in [Checks -> Marks]
        BY <1>2, Zenon DEF ResultInv
    <2>5. /\ report' \in [checks : [Checks -> Marks], alertmanager : {"none", "open"}]
          /\ report'.checks = checks
        BY <2>1, <2>3, <2>4 DEF Forwards
    <2>6. ReportInv'
        BY <1>1, <1>2, <2>1, <2>2, <2>3, <2>5 DEF ReportInv
    <2>7. QED
        BY <1>1, <1>2, <2>2, <2>6 DEF IntegrationInv
<1>6. CASE closePortForwards
    <2>1. /\ run.phase = "closing" /\ run' = [run EXCEPT !.phase = "ended"] /\ report' = report
          /\ pf' = [f \in Forwards |-> IF pf[f] = "open" THEN "closed" ELSE pf[f]]
        BY <1>6 DEF closePortForwards
    <2>2. ResultInv' /\ RolloutInv' /\ PlanInv' /\ SentInv' /\ CopyInv' /\ run'.phase = "ended"
        BY <1>4, <2>1
    <2>3. \A f \in Forwards : pf[f] \in {"none", "open"}
        BY <1>2, <2>1 DEF ReportInv
    <2>4. pf' \in [Forwards -> {"none", "open", "closed"}] /\ \A f \in Forwards : pf'[f] # "open"
        BY <2>1, <2>3
    <2>5. ReportInv'
        BY <1>1, <1>2, <2>1, <2>2, <2>4 DEF ReportInv
    <2>6. QED
        BY <1>1, <1>2, <2>2, <2>5 DEF IntegrationInv
<1>7. QED
    BY <1>3, <1>5, <1>6

\* What a step of the cluster leaves as it is.
LEMMA ClusterParts ==
    ASSUME IntegrationInv, cfg' = cfg, run' = run, checks' = checks, pf' = pf, seen' = seen, report' = report
    PROVE  /\ ResultInv' /\ ReportInv' /\ (\A kind : At(kind)' <=> At(kind)) /\ seen' \in Knowledge
           /\ dep' = dep => RolloutInv'
           /\ copy' \in {"none", copy} => CopyInv'
           /\ plan' = plan => PlanInv'
           /\ sent' = sent => SentInv'
<1>1. run' \in RunState /\ Stays /\ seen' \in Knowledge
    BY DEF IntegrationInv, ResultInv, Stays
<1>2. QED
    BY <1>1, StayParts

\* The Deployment's pods and status change, with its generation and template as
\* they are.
LEMMA RolloutChanges ==
    ASSUME IntegrationInv, cfg' = cfg, run' = run, checks' = checks, Rolling,
           dep' \in Deployment, dep'.generation = dep.generation, dep'.template = dep.template,
           dep'.set = dep.set, dep.served => dep'.served, dep'.observed <= dep'.generation,
           dep.set /\ dep'.pods["configured"] = "available" => dep'.served,
           dep.set /\ dep.template = "configured" /\ waitForDeploymentRollout' => dep'.served
    PROVE  RolloutInv'
<1>1. RolloutInv /\ ResultInv
    BY DEF IntegrationInv
<1>2. (Left' <=> Left) /\ Step' = Step
    BY DEF Left, Step
<1>3. Applied'
    BY <1>1 DEF RolloutInv, Applied, Fresh, Behind
<1>4. QED
    BY <1>1, <1>2, <1>3 DEF RolloutInv, RolloutIsCurrent

\* Steps of the Deployment controller and of the pods.
LEMMA DeploymentKeeps ==
    ASSUME IntegrationInv, ScaleDeployment \/ SyncDeployment \/ \E t \in Templates : PodChanges(t)
    PROVE  IntegrationInv'
<1>1. /\ Rolling /\ cfg' = cfg /\ run' = run /\ checks' = checks /\ pf' = pf /\ seen' = seen
      /\ report' = report /\ plan' = plan /\ sent' = sent
    BY DEF ScaleDeployment, SyncDeployment, PodChanges
<1>2. /\ ResultInv' /\ ReportInv' /\ seen' \in Knowledge /\ PlanInv' /\ SentInv'
      /\ (\A kind : At(kind)' <=> At(kind)) /\ (copy' = copy => CopyInv')
    BY <1>1, ClusterParts
<1>3. dep \in Deployment /\ RolloutInv /\ CopyInv
    BY DEF IntegrationInv, RolloutInv
<1>4. /\ dep.generation \in Nat /\ dep.template \in Templates /\ dep.observed \in Nat /\ dep.updated \in Nat
      /\ dep.pods \in [Templates -> {"none", "starting", "available"}] /\ dep.available \in Nat
      /\ dep.unavailable \in Int /\ dep.served \in BOOLEAN /\ dep.set \in BOOLEAN
      /\ dep.observed <= dep.generation
    BY <1>3 DEF Deployment, RolloutInv
<1>5. ASSUME NEW p \in [Templates -> {"none", "starting", "available"}], NEW v \in BOOLEAN,
             dep' = [dep EXCEPT !.pods = p, !.served = v], dep.served => v,
             dep.set /\ p["configured"] = "available" => v
      PROVE  RolloutInv'
    <2>1. /\ dep' \in Deployment /\ dep'.generation = dep.generation /\ dep'.template = dep.template
          /\ dep'.served = v /\ dep'.set = dep.set /\ dep'.observed = dep.observed /\ dep'.pods = p
          /\ dep'.updated = dep.updated /\ dep'.available = dep.available /\ dep'.unavailable = dep.unavailable
        BY <1>3, <1>5 DEF Deployment
    <2>2. waitForDeploymentRollout' <=> waitForDeploymentRollout
        BY <2>1 DEF waitForDeploymentRollout
    <2>3. dep.set /\ dep.template = "configured" /\ waitForDeploymentRollout => dep.served
        BY <1>3, Zenon DEF RolloutInv
    <2>4. QED
        BY <1>1, <1>4, <1>5, <2>1, <2>2, <2>3, RolloutChanges
<1>6. CASE ScaleDeployment
    <2> DEFINE p == IF dep.pods[dep.template] = "available"
                    THEN [NoPods EXCEPT ![dep.template] = "available"]
                    ELSE [dep.pods EXCEPT ![dep.template] = "starting"]
    <2>1. p \in [Templates -> {"none", "starting", "available"}]
        BY <1>4 DEF NoPods
    <2>2. p["configured"] = "available" => dep.pods["configured"] = "available"
        BY <1>4 DEF NoPods, Templates
    <2>3. dep' = [dep EXCEPT !.pods = p] /\ copy' = copy
        BY <1>6 DEF ScaleDeployment
    <2> HIDE DEF p
    <2>4. dep' = [dep EXCEPT !.pods = p, !.served = dep.served]
        BY <1>3, <2>3 DEF Deployment
    <2>5. dep.set /\ dep.pods["configured"] = "available" => dep.served
        BY <1>3, Zenon DEF RolloutInv
    <2>6. RolloutInv'
        BY <1>4, <1>5, <2>1, <2>2, <2>4, <2>5
    <2>7. QED
        BY <1>2, <2>3, <2>6 DEF IntegrationInv
<1>7. ASSUME NEW t \in Templates, PodChanges(t)
      PROVE  IntegrationInv'
    <2>1. dep.set /\ dep.pods["configured"] = "available" => dep.served
        BY <1>3, Zenon DEF RolloutInv
    <2>2. copy' = copy
        BY <1>7 DEF PodChanges
    <2>3. CASE dep' = [dep EXCEPT !.pods[t] = "available", !.served = @ \/ (dep.set /\ t = "configured")]
        <3> DEFINE p == [dep.pods EXCEPT ![t] = "available"]
                   v == dep.served \/ (dep.set /\ t = "configured")
        <3>1. dep' = [dep EXCEPT !.pods = p, !.served = v]
            BY <2>3
        <3>2. p \in [Templates -> {"none", "starting", "available"}] /\ v \in BOOLEAN
            BY <1>4
        <3>3. (dep.set /\ p["configured"] = "available" => v) /\ (dep.served => v)
            BY <1>4, <2>1 DEF Templates
        <3> HIDE DEF p, v
        <3>4. QED
            BY <1>2, <1>5, <2>2, <3>1, <3>2, <3>3 DEF IntegrationInv
    <2>4. CASE dep' = [dep EXCEPT !.pods[t] = "starting"]
        <3> DEFINE p == [dep.pods EXCEPT ![t] = "starting"]
        <3>1. dep' = [dep EXCEPT !.pods = p]
            BY <2>4
        <3>2. p \in [Templates -> {"none", "starting", "available"}]
            BY <1>4
        <3>3. p["configured"] = "available" => dep.pods["configured"] = "available"
            BY <1>4 DEF Templates
        <3> HIDE DEF p
        <3>4. dep' = [dep EXCEPT !.pods = p, !.served = dep.served]
            BY <1>3, <3>1 DEF Deployment
        <3>5. RolloutInv'
            BY <1>4, <1>5, <2>1, <3>2, <3>3, <3>4
        <3>6. QED
            BY <1>2, <2>2, <3>5 DEF IntegrationInv
    <2>5. QED
        BY <1>7, <2>3, <2>4 DEF PodChanges
<1>8. CASE SyncDeployment
    <2> DEFINE has(t) == IF dep.pods[t] = "none" THEN 0 ELSE 1
               up(t) == IF dep.pods[t] = "available" THEN 1 ELSE 0
               u == has(dep.template)
               a == up("manifest") + up("configured")
               w == (has("manifest") + has("configured")) - a
    <2>1. dep' = [dep EXCEPT !.observed = dep.generation, !.updated = u, !.available = a, !.unavailable = w]
        BY <1>8 DEF SyncDeployment
    <2>2. copy' = IF copy = "current" THEN "stale" ELSE copy
        BY <1>8 DEF SyncDeployment
    <2>3. u \in Nat /\ a \in Nat /\ w \in Int
        OBVIOUS
    <2>4. dep.template = "configured" /\ u >= 1 /\ a >= 1 /\ w = 0 => dep.pods["configured"] = "available"
        OBVIOUS
    <2> HIDE DEF u, a, w
    <2>5. /\ dep' \in Deployment /\ dep'.generation = dep.generation /\ dep'.template = dep.template
          /\ dep'.served = dep.served /\ dep'.set = dep.set /\ dep'.observed = dep.generation
          /\ dep'.pods = dep.pods
          /\ dep'.updated = u /\ dep'.available = a /\ dep'.unavailable = w
        BY <1>3, <1>4, <2>1, <2>3 DEF Deployment
    <2>6. waitForDeploymentRollout' => u >= 1 /\ a >= 1 /\ w = 0
        BY <2>5 DEF waitForDeploymentRollout
    <2>7. dep.set /\ dep.pods["configured"] = "available" => dep.served
        BY <1>3, Zenon DEF RolloutInv
    <2>8. dep'.observed <= dep'.generation
        BY <1>4, <2>5
    <2>9. RolloutInv'
        BY <1>1, <2>4, <2>5, <2>6, <2>7, <2>8, RolloutChanges
    <2>10. CopyInv'
        BY <1>2, <1>3, <2>2 DEF CopyInv
    <2>11. QED
        BY <1>2, <2>9, <2>10 DEF IntegrationInv
<1>9. QED
    BY <1>6, <1>7, <1>8

\* Counters and records change while the delivery is waited for.
LEMMA SentChanges ==
    ASSUME IntegrationInv, At("deliver"), cfg' = cfg, run' = run, checks' = checks, pf' = pf,
           seen' = seen, report' = report, dep' = dep, copy' = copy, plan' = plan, Sourced(sent')
    PROVE  IntegrationInv'
<1>1. ResultInv' /\ ReportInv' /\ seen' \in Knowledge /\ RolloutInv' /\ CopyInv' /\ PlanInv'
    BY ClusterParts
<1>2. SentInv
    BY DEF IntegrationInv
<1>3. seen.delivery = "none"
    <2>1. run.at \in Ahead /\ Run[cfg][run.at].kind = "deliver"
        BY AtStep DEF Ahead, Step
    <2>2. QED
        BY <1>2, <2>1 DEF SentInv
<1>4. Ahead' = Ahead /\ (Left' <=> Left) /\ Step' = Step
    BY DEF Ahead, Left, Step
<1>5. SentInv'
    BY <1>2, <1>3, <1>4 DEF SentInv, Supported
<1>6. QED
    BY <1>1, <1>5 DEF IntegrationInv

\* A counter goes up, of a notification that is tried or that failed.
LEMMA CountersSourced ==
    ASSUME Sourced(sent), NEW l \in Labels, NEW n \in Counter, n.failed <= n.total,
           NEW T \in SUBSET Labels, sent.tried \subseteq T,
           n.total > 0 => l \in T \cup sent.counted,
           sent' = [sent EXCEPT !.counters = [sent.counters EXCEPT ![l] = n], !.tried = T]
    PROVE  Sourced(sent')
<1>1. sent \in DeliveryState
    BY DEF Sourced
<1> DEFINE k == [sent.counters EXCEPT ![l] = n]
<1>2. k \in [Labels -> Counter] /\ k[l] = n /\ \A q \in Labels : q # l => k[q] = sent.counters[q]
    BY <1>1 DEF DeliveryState
<1>3. sent' = [sent EXCEPT !.counters = k, !.tried = T]
    OBVIOUS
<1> HIDE DEF k
<1>4. /\ sent' \in DeliveryState /\ sent'.counters = k /\ sent'.tried = T
      /\ sent'.holds = sent.holds /\ sent'.reached = sent.reached /\ sent'.held = sent.held
      /\ sent'.counted = sent.counted
    BY <1>1, <1>2, <1>3 DEF DeliveryState
<1>5. ASSUME NEW q \in Labels
      PROVE  k[q].failed <= k[q].total /\ (k[q].total > 0 => q \in T \cup sent.counted)
    BY <1>2 DEF Sourced
<1>6. sent'.holds \subseteq sent'.reached \cup sent'.held
    BY <1>4 DEF Sourced
<1>7. QED
    BY <1>4, <1>5, <1>6 DEF Sourced

\* What Alertmanager sends, and the receiver records.
LEMMA NotificationsKeep ==
    ASSUME IntegrationInv,
           \/ \E l \in Labels : Notify(l) \/ NotifyFails(l)
           \/ \E workloads \in SUBSET CIWorkloads : Recorded(workloads)
           \/ RecordedBadly
    PROVE  IntegrationInv'
<1>1. Sourced(sent) /\ sent \in DeliveryState
    BY DEF IntegrationInv, SentInv, Sourced
<1>2. \A l \in Labels : /\ sent.counters[l] \in Counter
                        /\ sent.counters[l].total \in Nat /\ sent.counters[l].failed \in Nat
                        /\ sent.counters[l].failed <= sent.counters[l].total
    BY <1>1 DEF Sourced, DeliveryState, Counter
<1>3. ASSUME NEW l \in Labels, Notify(l) PROVE IntegrationInv'
    <2> DEFINE n == [sent.counters[l] EXCEPT !.total = @ + 1]
               T == sent.tried \cup {l}
    <2>1. n \in Counter /\ n.failed <= n.total
        BY <1>2 DEF Counter
    <2>2. T \in SUBSET Labels /\ sent.tried \subseteq T /\ l \in T
        BY <1>1 DEF DeliveryState
    <2>3. sent' = [sent EXCEPT !.counters = [sent.counters EXCEPT ![l] = n], !.tried = T]
        BY <1>1, <1>3 DEF Notify, DeliveryState
    <2> HIDE DEF n, T
    <2>4. Sourced(sent')
        BY <1>1, <2>1, <2>2, <2>3, CountersSourced
    <2>5. QED
        BY <1>3, <2>4, SentChanges DEF Notify
<1>4. ASSUME NEW l \in Labels, NotifyFails(l) PROVE IntegrationInv'
    <2> DEFINE n == [sent.counters[l] EXCEPT !.failed = @ + 1]
               T == sent.tried
    <2>1. n \in Counter /\ n.failed <= n.total /\ n.total = sent.counters[l].total
        BY <1>2, <1>4 DEF Counter, NotifyFails
    <2>2. T \in SUBSET Labels /\ sent.tried \subseteq T
        BY <1>1 DEF DeliveryState
    <2>3. sent' = [sent EXCEPT !.counters = [sent.counters EXCEPT ![l] = n], !.tried = T]
        BY <1>1, <1>4 DEF NotifyFails, DeliveryState
    <2>4. n.total > 0 => l \in T \cup sent.counted
        BY <1>1, <2>1 DEF Sourced
    <2> HIDE DEF n, T
    <2>5. Sourced(sent')
        BY <1>1, <2>1, <2>2, <2>3, <2>4, CountersSourced
    <2>6. QED
        BY <1>4, <2>5, SentChanges DEF NotifyFails
<1>5. ASSUME NEW workloads \in SUBSET CIWorkloads, Recorded(workloads) PROVE IntegrationInv'
    <2> DEFINE h == sent.holds \cup workloads
               e == sent.reached \cup workloads
    <2>1. sent' = [sent EXCEPT !.holds = h, !.reached = e]
        BY <1>5 DEF Recorded
    <2>2. h \in SUBSET CIWorkloads /\ e \in SUBSET CIWorkloads /\ h \subseteq e \cup sent.held
        BY <1>1 DEF Sourced, DeliveryState
    <2> HIDE DEF h, e
    <2>3. /\ sent' \in DeliveryState /\ sent'.holds = h /\ sent'.reached = e /\ sent'.held = sent.held
          /\ sent'.counters = sent.counters /\ sent'.tried = sent.tried /\ sent'.counted = sent.counted
        BY <1>1, <2>1, <2>2 DEF DeliveryState
    <2>4. Sourced(sent')
        BY <1>1, <2>2, <2>3 DEF Sourced
    <2>5. QED
        BY <1>5, <2>4, SentChanges DEF Recorded
<1>6. CASE RecordedBadly
    <2>1. sent' = [sent EXCEPT !.bad = TRUE]
        BY <1>6 DEF RecordedBadly
    <2>2. /\ sent' \in DeliveryState /\ sent'.holds = sent.holds /\ sent'.reached = sent.reached
          /\ sent'.held = sent.held
          /\ sent'.counters = sent.counters /\ sent'.tried = sent.tried /\ sent'.counted = sent.counted
        BY <1>1, <2>1 DEF DeliveryState
    <2>3. Sourced(sent')
        BY <1>1, <2>2 DEF Sourced
    <2>4. QED
        BY <1>6, <2>3, SentChanges DEF RecordedBadly
<1>7. QED
    BY <1>3, <1>4, <1>5, <1>6

\* The operator reconciles the plan.
LEMMA ReconciledKeeps ==
    ASSUME IntegrationInv, PlanReconciled
    PROVE  IntegrationInv'
<1>1. /\ plan' = [time |-> plan.time + 1, ours |-> TRUE]
      /\ cfg' = cfg /\ run' = run /\ checks' = checks /\ pf' = pf /\ seen' = seen
      /\ report' = report /\ dep' = dep /\ copy' = copy /\ sent' = sent
    BY DEF PlanReconciled
<1>2. ResultInv' /\ ReportInv' /\ seen' \in Knowledge /\ RolloutInv' /\ CopyInv' /\ SentInv'
    BY <1>1, ClusterParts
<1>3. PlanInv /\ plan.time \in Nat /\ seen.first \in Nat
    BY DEF IntegrationInv, PlanInv, Knowledge
<1>4. plan' \in [time : Nat, ours : BOOLEAN] /\ plan'.ours /\ plan'.time = plan.time + 1
    BY <1>1, <1>3
<1>5. Behind' = Behind
    BY <1>1 DEF Behind
<1>6. PlanInv'
    BY <1>1, <1>3, <1>4, <1>5 DEF PlanInv
<1>7. QED
    BY <1>2, <1>6 DEF IntegrationInv

\* The invariant holds at the start.
LEMMA IntegrationInvInit ==
    ASSUME IntegrationInit
    PROVE  IntegrationInv
<1> DEFINE R == Run[cfg]
<1>1. /\ cfg \in Configs /\ checks = [c \in Checks |-> "pending"] /\ pf = [f \in Forwards |-> "none"]
      /\ run = [at |-> 1, tries |-> 0, phase |-> "running", warnings |-> {}, result |-> "none"]
      /\ seen = [obs |-> NoObservation, alerts |-> FALSE, first |-> 0, delivery |-> "none"]
      /\ report = [checks |-> checks, alertmanager |-> "none"] /\ copy = "none"
    BY DEF IntegrationInit
<1>2. run.at = 1 /\ run.phase = "running" /\ run.warnings = {} /\ run.result = "none" /\ run \in RunState
    BY <1>1 DEF RunState
<1>3. Len(R) \in Nat /\ Arranged(R) /\ DOMAIN R = 1 .. Len(R)
    BY <1>1, RunFacts
<1>4. \A check \in Checks : checks[check] = "pending"
    BY <1>1
<1>5. "alertmanager" \in Checks /\ "managerMetrics" \in Checks /\ "llmInsights" \in Checks
      /\ "managerRollout" \in Checks
    BY DEF Checks
<1>6. checks \in [Checks -> Marks]
    BY <1>1 DEF Marks
<1>7. (\A i \in Behind : FALSE)
    BY <1>2 DEF Behind
<1>8. ResultInv
    <2>1. run.at \in 1 .. Len(Run[cfg]) + 1
        BY <1>2, <1>3
    <2>2. checks["alertmanager"] = "pending" /\ checks["managerMetrics"] = "pending"
          /\ checks["llmInsights"] = "pending"
        BY <1>4, <1>5
    <2>3. QED
        BY <1>1, <1>2, <1>6, <1>7, <2>1, <2>2 DEF ResultInv
<1>9. /\ ~(Left /\ Is(Step, "wait", "manager")) /\ ~(Left /\ Is(Step, "pass", "managerRollout"))
      /\ ~(Left /\ Is(Step, "call", "alertDetails")) /\ ~(Left /\ Is(Step, "pass", "alertmanager"))
    <2>1. Step = R[1] /\ (Left => 1 \in DOMAIN R)
        BY <1>2, <1>3 DEF Step, Left
    <2>2. ~Inner(R, 1)
        BY <1>3 DEF Inner
    <2> HIDE DEF R
    <2>3. QED
        BY <1>3, <2>1, <2>2, Zenon DEF Arranged
<1>10. RolloutInv
    <2>1. /\ NoPods \in [Templates -> {"none", "starting", "available"}]
          /\ NoPods["configured"] = "none" /\ Templates = {"manifest", "configured"}
        BY DEF NoPods, Templates
    <2>2. [NoPods EXCEPT !["configured"] = "available"] \in [Templates -> {"none", "starting", "available"}]
        BY <2>1
    <2>3. /\ NoDeployment \in Deployment /\ NoDeployment.observed <= NoDeployment.generation
          /\ ~NoDeployment.set
        BY <2>1 DEF NoDeployment, Deployment
    <2>4. /\ EarlierDeployment \in Deployment /\ EarlierDeployment.observed <= EarlierDeployment.generation
          /\ ~EarlierDeployment.set
        BY <2>1, <2>2 DEF EarlierDeployment, Deployment
    <2>5. dep \in {NoDeployment, EarlierDeployment}
        BY DEF IntegrationInit
    <2>6. checks["managerRollout"] # "pass"
        BY <1>4, <1>5
    <2>7. QED
        BY <1>7, <1>9, <2>3, <2>4, <2>5, <2>6 DEF RolloutInv, RolloutIsCurrent, Applied
<1>11. CopyInv
    BY <1>1 DEF CopyInv
<1>12. PlanInv
    <2>1. plan \in [time : Nat, ours : BOOLEAN]
        BY DEF IntegrationInit
    <2>2. QED
        BY <1>7, <2>1 DEF PlanInv
<1>13. SentInv
    <2>1. PICK o \in Leftovers \cup {NoLeftover} : sent = Delivery(o)
        BY DEF IntegrationInit
    <2>1a. o \in Leftover /\ \A l \in Labels : o.counters[l].failed <= o.counters[l].total
        <3>1. CASE o \in Leftovers
            BY <3>1, ConfigAssumption, Zenon DEF ConfigAssumption
        <3>2. CASE o = NoLeftover
            <4>1. NoCounters \in [Labels -> Counter] /\ \A l \in Labels : NoCounters[l].failed <= NoCounters[l].total
                BY DEF NoCounters, Counter
            <4>2. o = [counters |-> NoCounters, bad |-> FALSE, holds |-> {}]
                BY <3>2 DEF NoLeftover
            <4>3. QED
                BY <4>1, <4>2 DEF Leftover
        <3>3. QED
            BY <2>1, <3>1, <3>2
    <2>1b. Sourced(sent)
        <3> DEFINE C == {l \in Labels : o.counters[l].total > 0}
        <3>1. C \subseteq Labels /\ \A l \in Labels : o.counters[l].total > 0 => l \in C
            OBVIOUS
        <3>2. sent = [counters |-> o.counters, bad |-> o.bad, holds |-> o.holds, tried |-> {},
                      reached |-> {}, counted |-> C, held |-> o.holds]
            BY <2>1 DEF Delivery
        <3> HIDE DEF C
        <3>3. sent \in DeliveryState
            BY <2>1a, <3>1, <3>2 DEF DeliveryState, Leftover
        <3>4. QED
            BY <2>1a, <3>1, <3>2, <3>3 DEF Sourced
    <2>2. seen.delivery = "none" /\ checks["alertmanager"] # "pass"
        BY <1>1, <1>4, <1>5
    <2>3. QED
        BY <1>9, <2>1b, <2>2 DEF SentInv, Supported
<1>14. ReportInv
    <2>1. report \in [checks : [Checks -> Marks], alertmanager : {"none", "open"}]
        BY <1>1, <1>6
    <2>2. QED
        BY <1>1, <1>2, <2>1 DEF ReportInv
<1>15. seen \in Knowledge
    BY <1>1, EmptyObservations DEF Knowledge
<1>16. QED
    BY <1>8, <1>10, <1>11, <1>12, <1>13, <1>14, <1>15 DEF IntegrationInv

\* Every step of the run and of the cluster keeps it.
LEMMA IntegrationInvNext ==
    ASSUME IntegrationInv, IntegrationNext \/ UNCHANGED ivars
    PROVE  IntegrationInv'
<1>1. CASE Runner
    <2>1. CASE \/ WaitUntil \/ waitForSeries \/ Refuse \/ OpenForwardFails \/ PullModel
               \/ PrometheusHasCapacityAlerts \/ NotDelivered
        BY <2>1, PollsKeep
    <2>2. CASE Call \/ waitUntil \/ Pass \/ SkipLLM \/ OpenForward
        BY <2>2, CallKeeps, WaitKeeps, PassKeeps, SkipKeeps, ForwardKeeps
    <2>3. CASE ApplyOperatorManifests \/ GetDeployment \/ UpdateDeployment \/ UpdateConflicts
        BY <2>3, ManifestsKeep, CopyKeeps, UpdateKeeps
    <2>4. CASE \/ ApplyCapacityPlan \/ captureTrendSnapshot \/ SnapshotFails
               \/ compareGrowthCalculations \/ checkCapacityPlanPostConditions
        BY <2>4, PlanAppliedKeeps, SnapshotKeeps, SnapshotFailsKeeps, CompareKeeps, ConditionsKeep
    <2>5. CASE InsightsPresent \/ InsightsMissing \/ InsightsUnread \/ Delivered
        BY <2>5, InsightsKeep, DeliveredKeeps
    <2>6. CASE Finish \/ renderValidationReport \/ closePortForwards
        BY <2>6, EndKeeps
    <2>7. QED
        BY <1>1, <2>1, <2>2, <2>3, <2>4, <2>5, <2>6 DEF Runner
<1>2. CASE Cluster
    BY <1>2, DeploymentKeeps, ReconciledKeeps, NotificationsKeep DEF Cluster
<1>3. CASE UNCHANGED ivars
    <2>1. /\ cfg' = cfg /\ run' = run /\ checks' = checks /\ pf' = pf /\ seen' = seen /\ report' = report
          /\ dep' = dep /\ copy' = copy /\ plan' = plan /\ sent' = sent
        BY <1>3 DEF ivars, cluster
    <2>2. /\ ResultInv' /\ ReportInv' /\ seen' \in Knowledge /\ RolloutInv' /\ CopyInv' /\ PlanInv'
          /\ SentInv'
        BY <2>1, ClusterParts
    <2>3. QED
        BY <2>2 DEF IntegrationInv
<1>4. QED
    BY <1>1, <1>2, <1>3 DEF IntegrationNext

\* A run that has no step left has taken every one, and marked it unless its stage
\* was among the warnings.
LEMMA AllMarked ==
    ASSUME ResultInv, ~Left
    PROVE  /\ \A i \in 1 .. Len(Run[cfg]) :
                i \in Behind /\ (Run[cfg][i].stage \notin run.warnings => Marked(checks, cfg, Run[cfg][i]))
           /\ \A check \in PassChecks :
                StageOfCheck(check) \notin run.warnings => checks[check] = "pass"
<1> DEFINE R == Run[cfg]
<1>1. /\ Len(R) \in Nat /\ DOMAIN R = 1 .. Len(R) /\ Arranged(R) /\ run.at \in 1 .. Len(R) + 1
      /\ \A i \in 1 .. Len(R) : R[i] \in StepsOf(cfg)
    BY RunFacts DEF ResultInv
<1>2. Behind = 1 .. Len(R)
    BY <1>1 DEF Left, Behind
<1>3. \A i \in 1 .. Len(R) : R[i].stage \notin run.warnings => Marked(checks, cfg, R[i])
    BY <1>2 DEF ResultInv
<1> HIDE DEF R
<1>4. ASSUME NEW check \in PassChecks, StageOfCheck(check) \notin run.warnings
      PROVE  checks[check] = "pass"
    <2>1. PICK i \in DOMAIN R : Is(R[i], "pass", check)
        BY <1>1, Zenon DEF Arranged
    <2>2. R[i] \in StepsOf(cfg) /\ i \in 1 .. Len(R)
        BY <1>1
    <2>3. R[i].stage = StageOfCheck(check)
        BY <2>1, <2>2, StepStage DEF Is
    <2>4. Marked(checks, cfg, R[i])
        BY <1>3, <1>4, <2>2, <2>3
    <2>5. QED
        BY <2>1, <2>4 DEF Is, Marked
<1>5. QED
    BY <1>2, <1>3, <1>4 DEF R

\* A run that passed has taken and marked every step.
LEMMA PassedMeans ==
    ASSUME ResultInv, run.result = "passed"
    PROVE  /\ \A check \in Checks : checks[check] # "pending"
           /\ llmEnabled /\ cfg.llmHard /\ ~cfg.llmSoft => checks["llmInsights"] = "pass"
           /\ \E i \in Behind : Run[cfg][i].kind = "conditions"
           /\ run.warnings = {}
<1> DEFINE R == Run[cfg]
<1>1. ~Left /\ run.warnings = {} /\ cfg \in Configs
    BY DEF ResultInv
<1>2. /\ \A i \in 1 .. Len(R) : i \in Behind /\ Marked(checks, cfg, R[i])
      /\ \A check \in PassChecks : checks[check] = "pass"
    BY <1>1, AllMarked
<1>3. Arranged(R) /\ DOMAIN R = 1 .. Len(R)
    BY <1>1, RunFacts
<1> HIDE DEF R
<1>4. \A kind \in {"observe", "compare", "conditions", "insights"} : \E i \in DOMAIN R : R[i].kind = kind
    BY <1>3, Zenon DEF Arranged
<1>5. checks["trendSignal"] = "pass" /\ checks["growthCompare"] = "pass"
    BY <1>2, <1>3, <1>4 DEF Marked
<1>6. /\ checks["llmInsights"] # "pending"
      /\ llmEnabled /\ cfg.llmHard /\ ~cfg.llmSoft => checks["llmInsights"] = "pass"
    BY <1>2, <1>3, <1>4 DEF Marked, llmEnabled
<1>7. \A check \in Checks : check \in PassChecks \/ check \in {"trendSignal", "growthCompare", "llmInsights"}
    BY DEF PassChecks
<1>8. \A check \in Checks : checks[check] # "pending"
    BY <1>2, <1>5, <1>6, <1>7
<1>9. \E i \in Behind : R[i].kind = "conditions"
    BY <1>2, <1>3, <1>4
<1>10. QED
    BY <1>1, <1>6, <1>8, <1>9 DEF R

\* What the invariant says of a run: its types, its report, and what it passed.
LEMMA IntegrationInvImplies ==
    ASSUME IntegrationInv
    PROVE  /\ IntegrationTypeOK /\ ReportTellsResult /\ ForwardsClosedLast
           /\ RolloutIsCurrent /\ ReconciledSinceApply /\ InsightsRequired /\ DeliveryIsReal
<1>1. IntegrationTypeOK
    <2>1. /\ cfg \in Configs /\ checks \in [Checks -> {"pending", "pass", "warn", "skipped"}]
          /\ pf \in [Forwards -> {"none", "open", "closed"}] /\ run \in RunState /\ seen \in Knowledge
        BY Zenon DEF IntegrationInv, ResultInv, ReportInv, Marks
    <2>2. /\ run.phase \in {"running", "reporting", "closing", "ended"}
          /\ run.result \in {"none", "failed", "warned", "passed"}
          /\ run.warnings \subseteq {"trend", "alerts"} /\ run.tries \in Nat
        BY <2>1 DEF RunState
    <2>3. /\ seen.obs.remaining \in 0 .. TrendObserve
          /\ seen.delivery \in {"none", "exact", "receiver_only", "integration_prefix", "any", "payload"}
        BY <2>1 DEF Knowledge, Observation, Bases
    <2>4. copy \in {"none", "current", "stale"} /\ (copy # "none" => At("ensure"))
        BY Zenon DEF IntegrationInv, CopyInv
    <2>5. \A l \in Labels : sent.counters[l].failed <= sent.counters[l].total
        BY Zenon DEF IntegrationInv, SentInv, Sourced
    <2>6. QED
        BY <2>1, <2>2, <2>3, <2>4, <2>5, Zenon DEF IntegrationTypeOK
<1>2. ResultInv /\ ReportInv /\ PlanInv /\ SentInv /\ RolloutInv
    BY DEF IntegrationInv
<1>3. ReportTellsResult
    <2>1. SUFFICES ASSUME run.phase = "ended"
          PROVE  /\ run.result = "passed" => \A c \in Checks : checks[c] # "pending"
                 /\ run.result # "passed" => \E c \in Checks : checks[c] \in {"pending", "warn"}
                 /\ run.result # "failed" =>
                      \A c \in {"context", "promEndpoint", "managerRollout", "planReconcile"} :
                         checks[c] = "pass"
        BY <1>2 DEF ReportTellsResult, ReportInv
    <2>2. run.result \in {"failed", "warned", "passed"} /\ run.warnings \subseteq {"trend", "alerts"}
        BY <1>2, <2>1 DEF ResultInv, RunState
    <2>3. CASE run.result = "passed"
        <3>1. \A c \in Checks : checks[c] # "pending"
            BY <1>2, <2>3, PassedMeans
        <3>2. QED
            BY <1>2, <2>3, <3>1, AllMarked DEF ResultInv, PassChecks, Checks
    <2>4. CASE run.result = "failed"
        BY <1>2, <2>4 DEF ResultInv, Checks
    <2>5. CASE run.result = "warned"
        <3>1. run.warnings # {} /\ ~Left
            BY <1>2, <2>5 DEF ResultInv
        <3>2. \E c \in Checks : checks[c] \in {"pending", "warn"}
            <4>1. CASE "trend" \in run.warnings
                BY <1>2, <4>1 DEF ResultInv, Checks
            <4>2. CASE "alerts" \in run.warnings
                BY <1>2, <4>2 DEF ResultInv, Checks
            <4>3. QED
                BY <2>2, <3>1, <4>1, <4>2
        <3>3. ASSUME NEW c \in {"context", "promEndpoint", "managerRollout", "planReconcile"}
              PROVE  checks[c] = "pass"
            <4>1. c \in PassChecks /\ StageOfCheck(c) \notin {"trend", "alerts"}
                BY DEF PassChecks, Checks, StageOfCheck
            <4>2. StageOfCheck(c) \notin run.warnings
                BY <2>2, <4>1
            <4>3. QED
                BY <1>2, <3>1, <4>1, <4>2, AllMarked
        <3>4. QED
            BY <2>5, <3>2, <3>3
    <2>6. QED
        BY <2>2, <2>3, <2>4, <2>5
<1>4. ForwardsClosedLast
    <2>1. run.phase = "ended" => \A f \in Forwards : pf[f] \in {"none", "closed"}
        BY <1>2 DEF ReportInv
    <2>2. report.alertmanager \in {"none", "open"}
        BY <1>2 DEF ReportInv
    <2>3. QED
        BY <2>1, <2>2 DEF ForwardsClosedLast
<1>5. RolloutIsCurrent
    BY <1>2 DEF RolloutInv
<1>6. ReconciledSinceApply
    <2>1. SUFFICES ASSUME run.result = "passed" PROVE plan.ours
        BY DEF ReconciledSinceApply
    <2>2. run.warnings = {} /\ \E i \in Behind : Run[cfg][i].kind = "conditions"
        BY <1>2, <2>1, PassedMeans
    <2>3. QED
        BY <1>2, <2>2 DEF PlanInv
<1>7. InsightsRequired
    BY <1>2, PassedMeans DEF InsightsRequired
<1>8. DeliveryIsReal
    <2>1. checks["alertmanager"] = "pass" => Shows(seen.delivery)
        BY <1>2, Zenon DEF SentInv, Supported
    <2>2. QED
        BY <2>1, Zenon DEF DeliveryIsReal, Shows
<1>9. QED
    BY <1>1, <1>3, <1>4, <1>5, <1>6, <1>7, <1>8
=============================================================================
