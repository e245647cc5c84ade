----------------------------- MODULE LLMClients -----------------------------
(***************************************************************************)
(* internal/controller/capacityplan_controller.go, resolvePlanLLMClient    *)
(* and what it calls: each round of the active plan builds the provider's  *)
(* configuration from spec.llm and a Secret, and takes the client for it   *)
(* from a cache that nothing empties, or makes one.                        *)
(*                                                                         *)
(* The variables of FastAPIBreaker are those of one client: the one made   *)
(* for the spec Followed, a FastAPI service without authentication.  What  *)
(* other clients do when called is left out.  Callers are the calls of one *)
(* round; the operator makes them one after another.                       *)
(***************************************************************************)
EXTENDS FastAPIBreaker

CONSTANTS
    LLMSpecs,     \* values of spec.llm
    Followed,
    Keys,         \* contents of the Secret that can be used
    NoValue,      \* no Secret, or without the key, or empty
    NoClient,
    MaxChanges    \* bound: edits of spec.llm and changes of the Secret

Providers == {"disabled", "openai", "anthropic", "fastapi", "ollama"}

\* auth: a Secret is named.  complete: the provider's constructor accepts the
\* rest (URL, model); settings stands for it.
LLMSpec == [provider : Providers \cup {"unsupported"}, auth : BOOLEAN,
            complete : BOOLEAN, settings : Nat]

ASSUME SpecsAssumption ==
    /\ LLMSpecs \subseteq LLMSpec
    /\ Followed \in LLMSpecs
    /\ Followed.provider = "fastapi" /\ ~Followed.auth /\ Followed.complete
    /\ NoValue \notin Keys
    /\ MaxChanges \in Nat

VARIABLES
    spec,       \* spec.llm of the active plan
    secret,     \* its resourceVersion, and the value under the key
    clients,    \* llmClientCache
    r,          \* the round: what it read, and the client it uses
    changes

clientVars == <<spec, secret, clients, r, changes>>
llmVars == <<vars, clientVars>>

Secrets == [rv : 1 .. MaxChanges + 1, value : Keys \cup {NoValue}]
Client == [spec : LLMSpecs, value : Keys \cup {NoValue}]
Idle == [pc |-> "idle", spec |-> Followed, value |-> NoValue, client |-> NoClient]

LLMInit ==
    /\ Init
    /\ spec \in LLMSpecs
    /\ secret \in [rv : {1}, value : Keys \cup {NoValue}]
    /\ clients = [k \in {} |-> NoClient]
    /\ r = Idle
    /\ changes = 0

-----------------------------------------------------------------------------
\* Users.

Change ==
    /\ changes < MaxChanges
    /\ changes' = changes + 1
    /\ UNCHANGED <<vars, clients, r>>

EditLLM(s) ==
    /\ Change
    /\ spec' = s
    /\ UNCHANGED secret

ChangeSecret(v) ==
    /\ Change
    /\ secret' = [rv |-> secret.rv + 1, value |-> v]
    /\ UNCHANGED spec

-----------------------------------------------------------------------------
\* resolvePlanLLMClient.

\* configure...Provider: FastAPI may do without a Secret.
ReadsSecret == spec.provider \in {"openai", "anthropic"} \/ (spec.provider = "fastapi" /\ spec.auth)

\* readSecretValue.
SecretUsable == spec.auth /\ secret.value # NoValue

Value == IF ReadsSecret THEN secret.value ELSE NoValue

\* buildLLMProviderConfig does not fail.
ConfigOK == spec.provider \in Providers /\ (ReadsSecret => SecretUsable)

\* Mutant: a Secret's version is not in the key.
CacheKeyWithoutVersion == <<spec, 0>>

\* Every setting is in the key, and the version of the Secret, if one is read.
CacheKey == <<spec, IF ReadsSecret THEN secret.rv ELSE 0>>

Use(c) == r' = [pc |-> "round", spec |-> spec, value |-> Value, client |-> c]

\* A round that starts finds the callers of the one before gone.
Starts ==
    /\ r.pc = "idle"
    /\ UNCHANGED <<spec, secret, changes, pc, age, service, streak>>

\* Mutant: what NewInsightGenerator returned goes into the cache before its
\* error is looked at.
ResolveFailsCached ==
    /\ Starts
    /\ ~ConfigOK \/ (spec.provider # "disabled" /\ CacheKey \notin DOMAIN clients /\ ~spec.complete)
    /\ Use(NoClient)
    /\ clients' = [k \in DOMAIN clients \cup {CacheKey} |->
                     IF k = CacheKey THEN NoClient ELSE clients[k]]
    /\ UNCHANGED <<consecutiveFails, left>>

\* ProviderError: insights are disabled for this round.
ResolveFails ==
    /\ Starts
    /\ ~ConfigOK \/ (spec.provider # "disabled" /\ CacheKey \notin DOMAIN clients /\ ~spec.complete)
    /\ Use(NoClient)
    /\ UNCHANGED <<clients, consecutiveFails, left>>

ResolveDisabled ==
    /\ Starts
    /\ spec.provider = "disabled"
    /\ Use(NoClient)
    /\ UNCHANGED <<clients, consecutiveFails, left>>

ResolveCached ==
    /\ Starts
    /\ ConfigOK
    /\ CacheKey \in DOMAIN clients
    /\ Use(clients[CacheKey])
    /\ UNCHANGED <<clients, consecutiveFails, left>>

\* NewInsightGenerator: a new FastAPI client has no failures.
NewClient(s) ==
    IF s = Followed THEN consecutiveFails' = 0 /\ left' = 0
    ELSE UNCHANGED <<consecutiveFails, left>>

\* Mutant: the new client is not put in the cache.
ResolveNewEachTime ==
    /\ Starts
    /\ ConfigOK /\ spec.provider # "disabled" /\ spec.complete
    /\ CacheKey \notin DOMAIN clients
    /\ NewClient(spec)
    /\ Use([spec |-> spec, value |-> Value])
    /\ UNCHANGED clients

ResolveNew ==
    /\ Starts
    /\ ConfigOK /\ spec.provider # "disabled" /\ spec.complete
    /\ CacheKey \notin DOMAIN clients
    /\ NewClient(spec)
    /\ LET c == [spec |-> spec, value |-> Value]
       IN /\ Use(c)
          /\ clients' = [k \in DOMAIN clients \cup {CacheKey} |->
                          IF k = CacheKey THEN c ELSE clients[k]]

Resolve == ResolveFails \/ ResolveDisabled \/ ResolveCached \/ ResolveNew

-----------------------------------------------------------------------------
\* The rest of the round.

UsesFollowed == r.client # NoClient /\ r.client.spec = Followed

Ask(c) ==
    /\ r.pc = "round"
    /\ UsesFollowed
    /\ Call(c)
    /\ UNCHANGED clientVars

Answered(c) ==
    /\ Answer(c)
    /\ UNCHANGED clientVars

RoundEnds ==
    /\ r.pc = "round"
    /\ \A c \in Callers : pc[c] = "idle"
    /\ r' = Idle
    /\ UNCHANGED <<vars, spec, secret, clients, changes>>

Environment == (Tick \/ ServiceChanges) /\ UNCHANGED clientVars

LLMNext ==
    \/ \E s \in LLMSpecs : EditLLM(s)
    \/ \E v \in Keys \cup {NoValue} : ChangeSecret(v)
    \/ Resolve
    \/ \E c \in Callers : Ask(c) \/ Answered(c)
    \/ RoundEnds
    \/ Environment

LLMSpecification == LLMInit /\ [][LLMNext]_llmVars

\* Rounds follow each other and end; requests end within their timeout; a
\* plan that uses the client needs an insight again and again.
LLMFairness ==
    /\ WF_llmVars(Tick /\ UNCHANGED clientVars)
    /\ WF_llmVars(Resolve) /\ WF_llmVars(RoundEnds)
    /\ \A c \in Callers : SF_llmVars(Ask(c)) /\ WF_llmVars(Answered(c))

LLMFairSpec == LLMSpecification /\ LLMFairness

-----------------------------------------------------------------------------
\* Type invariant of the client, the cache and the round.
ClientsTypeOK ==
    /\ TypeOK
    /\ spec \in LLMSpecs /\ secret \in Secrets
    /\ changes \in 0 .. MaxChanges
    /\ DOMAIN clients \subseteq LLMSpecs \X (0 .. MaxChanges + 1)
    /\ \A k \in DOMAIN clients : clients[k] \in Client
    /\ r \in [pc : {"idle", "round"}, spec : LLMSpecs, value : Keys \cup {NoValue},
              client : Client \cup {NoClient}]

\* A round never asks with a client of other settings or with a credential
\* that was replaced before the round began, whatever was edited, rotated or
\* put back since that client was cached (resolvePlanLLMClient).
ClientIsCurrent ==
    r.client # NoClient => r.client = [spec |-> r.spec, value |-> r.value]

\* Degraded mode survives rounds and edits: taking the client again, also
\* after the plan used another one, is no way around the cooldown.  (A
\* client made anew at each round would never reach its threshold.)
ImplementsBreaker == Spec

\* A service that stays up, for a plan that keeps using it, is used again.
SelectedRecovers ==
    <>[](healthy /\ serving /\ spec = Followed) => <>[]Available
=============================================================================
