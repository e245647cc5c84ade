---------------------------- MODULE MCLLMClients ----------------------------
(***************************************************************************)
(* An instance of LLMClients for TLC: the followed service, a provider     *)
(* with a Secret, one that is misconfigured, one unknown, and none.        *)
(***************************************************************************)
EXTENDS LLMClients

Entry(p, a, c) == [provider |-> p, auth |-> a, complete |-> c, settings |-> 0]

MCFollowed == Entry("fastapi", FALSE, TRUE)
MCSpecs == {MCFollowed, Entry("openai", TRUE, TRUE), Entry("ollama", FALSE, FALSE),
            Entry("unsupported", FALSE, TRUE), Entry("disabled", FALSE, TRUE)}
=============================================================================
