----------------------------- MODULE MCCIRunner -----------------------------
(***************************************************************************)
(* Instances of CIRunner: configurations that reach every policy for soft  *)
(* and hard failures, five kinds of bodies, two images on two nodes.       *)
(***************************************************************************)
EXTENDS CIRunner

Conf(softFail, llm, llmSoft, llmHard, integration, interval) ==
    [softFail |-> softFail, llm |-> llm, llmSoft |-> llmSoft, llmHard |-> llmHard,
     integration |-> integration, interval |-> interval]

MCConfigs ==
    {Conf(FALSE, "ollama", FALSE, TRUE, "webhook", 1),
     Conf(TRUE, "ollama", TRUE, TRUE, "webhook", 0),
     Conf(TRUE, "ollama", FALSE, FALSE, "other", 1),
     Conf(FALSE, "off", TRUE, TRUE, "other", 1),
     Conf(FALSE, "unsupported", TRUE, FALSE, "other", 1),
     Conf(TRUE, "unsupported", FALSE, TRUE, "webhook", 1)}

\* Of two workloads: nothing is left, or a delivery that succeeded at the expected
\* receiver, or one that failed there, with a record that is torn or another's.
MCWorkloads == {"steady", "bursty"}
Remainder(label, failures, bad, holds) ==
    [counters |-> [NoCounters EXCEPT ![label] = [total |-> 1, failed |-> failures]],
     bad |-> bad, holds |-> holds]
MCLeftovers ==
    {NoLeftover, Remainder("exact", 0, FALSE, MCWorkloads), Remainder("exact", 1, TRUE, {"steady"})}

\* Bodies of the permitted size whose lines are twice and six times as long, of which
\* only the first fits, and one that is refused; in units of 1 MiB.
MCBodies == {"alert", "synthetic", "largest", "escapes", "huge"}
MCSynthetic == {"synthetic"}
MCSize == [b \in MCBodies |->
             CASE b \in {"largest", "escapes"} -> 2 [] b = "huge" -> 3 [] OTHER -> 1]
MCEncoded == [b \in MCBodies |->
                CASE b = "largest" -> 4 [] b = "escapes" -> 12 [] b = "huge" -> 6 [] OTHER -> 1]

\* An image that is built locally, and one that has the name and tag of another
\* registry's, which a node may hold.
MCImages == {"operator", "receiver"}
MCOthers == {"mirror/receiver"}
MCAccepted == [i \in MCImages |-> IF i = "receiver" THEN {i, "mirror/receiver"} ELSE {i}]
MCNodes == {"server-0", "agent-0"}
MCRetryCounts == {-1, 1}
=============================================================================
