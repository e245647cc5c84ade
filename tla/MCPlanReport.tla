---------------------------- MODULE MCPlanReport ----------------------------
(* Three PVCs in two namespaces, two places on each list.  A unit of storage   *)
(* is 50 MiB; the trend window is three days.                                 *)
EXTENDS PlanReport

Samples(s) == [i \in DOMAIN s |-> [age |-> Len(s) - i, used |-> s[i]]]
Disk(cap, s) == [cap |-> cap, samples |-> Samples(s)]

MCSteep == <<1, 5>>
MCFloor == <<2, 1>>
MCWraps == {-20}
MCNamespace == <<"a", "a", "b">>
MCFold(kind) == IF kind = "deployment" THEN "Deployment" ELSE kind

spike == Disk(10, <<1, 1, 2, 6>>)
shaky == Disk(10, <<3, 0, 3, 1, 3>>)
steady == Disk(10, <<2, 3, 4>>)
full == Disk(10, <<9, 10>>)
slow == Disk(60, <<1, 1, 1, 2>>)
silent == Disk(10, <<>>)
unknown == Disk(0, <<1, 2>>)

MCVolumes == {spike, shaky, silent, unknown}
MCStart == <<steady, full, slow>>

deploymentPod == [kind |-> "ReplicaSet", name |-> "web-1",
                  parent |-> [kind |-> "Deployment", name |-> "web"]]
jobPod == [kind |-> "Job", name |-> "backup", parent |-> NoRef]
setPod == [kind |-> "StatefulSet", name |-> "db", parent |-> NoRef]
MCPodsOf == <<{deploymentPod, jobPod}, {setPod}, {}>>

Budget(ns, kind, name, bytes) == [ns |-> ns, kind |-> kind, name |-> name, bytes |-> bytes]
budgets == {Budget("a", None, "", 20), Budget("a", "Deployment", "web", 8),
            Budget("a", "deployment", "web", 6), Budget("a", "StatefulSet", "db", 5),
            Budget("a", None, "", 30), Budget("", None, "", 5), Budget("b", None, "", 0),
            Budget("a", "", "", 5)}
MCSpecs ==
    {[usage |-> None, days |-> 0, namespaces |-> <<>>, budgets |-> budgets,
      llm |-> "prompt", board |-> "operator"],
     [usage |-> <<2, 3>>, days |-> 3, namespaces |-> <<"a", "a">>, budgets |-> {},
      llm |-> "off", board |-> "grafana"]}
=============================================================================
