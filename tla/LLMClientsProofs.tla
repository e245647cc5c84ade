-------------------------- MODULE LLMClientsProofs --------------------------
(***************************************************************************)
(* Proofs about the LLM clients.                                           *)
(*                                                                         *)
(* First the FastAPI client's degraded mode, for every number of callers,  *)
(* every threshold and every cooldown.  Then the cache of clients, for     *)
(* every set of specs and Secrets: the entries are what their keys say     *)
(* (CacheInv), so a round gets the client of its configuration, and the    *)
(* followed client is never made twice (FollowedInv), so that the cache    *)
(* with its rounds and edits implements the client alone and what was      *)
(* proved of that holds of the operator.                                   *)
(***************************************************************************)
EXTENDS LLMClients, FiniteSetTheorems, TLAPS

\* Below the threshold every request that failed has been counted.
StreakCounted == Available => streak <= consecutiveFails

BreakerInv == TypeOK /\ StreakCounted /\ FailuresBounded /\ DeadlineOnlyWhenDegraded

\* At most all callers are requesting, and how many depends only on pc.
LEMMA RequestingSize ==
    ASSUME TypeOK
    PROVE  /\ IsFiniteSet(Requesting)
           /\ Cardinality(Callers) \in Nat
           /\ Cardinality(Requesting) \in 0 .. Cardinality(Callers)
<1>1. Requesting \subseteq Callers
    BY DEF Requesting
<1>2. /\ IsFiniteSet(Requesting)
      /\ Cardinality(Requesting) <= Cardinality(Callers)
    BY <1>1, CallersAssumption, FS_Subset
<1>3. Cardinality(Callers) \in Nat /\ Cardinality(Requesting) \in Nat
    BY <1>2, CallersAssumption, FS_CardinalityType
<1>4. QED
    BY <1>2, <1>3

\* The initial state.
LEMMA BreakerInit == Init => BreakerInv
<1> SUFFICES ASSUME Init PROVE BreakerInv
    OBVIOUS
<1>1. TypeOK
    BY ConfigAssumption DEF Init, TypeOK
<1>2. FailuresBounded
    BY <1>1, RequestingSize, ConfigAssumption DEF Init, FailuresBounded
<1>3. QED
    BY <1>1, <1>2 DEF Init, BreakerInv, StreakCounted, DeadlineOnlyWhenDegraded

\* Every step keeps the types; in particular a deadline set from an old clock
\* is never further away than the cooldown.
LEMMA BreakerType ==
    ASSUME TypeOK, [Next]_vars
    PROVE  TypeOK'
<1> USE ConfigAssumption DEF TypeOK
<1>1. CASE Tick
    BY <1>1 DEF Tick, service, Positive, Lesser
<1>2. CASE ServiceChanges
    BY <1>2 DEF ServiceChanges
<1>3. ASSUME NEW c \in Callers, Call(c) PROVE TypeOK'
    BY <1>3 DEF Call, CheckAvailable, CheckDegraded, CheckExpired, Goto, ReadClock, service, vars
<1>4. ASSUME NEW c \in Callers, Answer(c) PROVE TypeOK'
    BY <1>4 DEF Answer, ProbeHealthy, ProbeUnhealthy, RequestNotSent, RequestFails,
       RequestSucceeds, Probed, recordFailure, clearFailures, Goto, service, Positive, Lesser
<1>5. CASE UNCHANGED vars
    BY <1>5 DEF vars, service
<1>6. QED
    BY <1>1, <1>2, <1>3, <1>4, <1>5 DEF Next

\* Degraded mode and its deadline begin and end together.
LEMMA BreakerDeadline ==
    ASSUME BreakerInv, [Next]_vars
    PROVE  DeadlineOnlyWhenDegraded' /\ StreakCounted'
<1> USE ConfigAssumption
        DEF BreakerInv, TypeOK, StreakCounted, DeadlineOnlyWhenDegraded, Available
<1>1. CASE Tick
    BY <1>1 DEF Tick, Positive
<1>2. CASE ServiceChanges
    BY <1>2 DEF ServiceChanges
<1>3. ASSUME NEW c \in Callers, Call(c) PROVE DeadlineOnlyWhenDegraded' /\ StreakCounted'
    BY <1>3 DEF Call, CheckAvailable, CheckDegraded, CheckExpired, vars
<1>4. ASSUME NEW c \in Callers, Answer(c) PROVE DeadlineOnlyWhenDegraded' /\ StreakCounted'
    BY <1>4 DEF Answer, ProbeHealthy, ProbeUnhealthy, RequestNotSent, RequestFails,
       RequestSucceeds, recordFailure, clearFailures, Positive, Lesser
<1>5. CASE UNCHANGED vars
    BY <1>5 DEF vars
<1>6. QED
    BY <1>1, <1>2, <1>3, <1>4, <1>5 DEF Next

\* The bound: a request starts below the threshold or right after a
\* clearFailures, and a failure trades a request under way for a counted one.
LEMMA BreakerBound ==
    ASSUME BreakerInv, [Next]_vars
    PROVE  FailuresBounded'
<1>0. TypeOK' /\ TypeOK
    BY BreakerType DEF BreakerInv
<1>a. /\ Cardinality(Callers) \in Nat
      /\ IsFiniteSet(Requesting)
      /\ Cardinality(Requesting) \in 0 .. Cardinality(Callers)
    BY <1>0, RequestingSize
<1>b. Cardinality(Requesting') \in 0 .. Cardinality(Callers)
    <2>1. Requesting' \subseteq Callers
        BY DEF Requesting
    <2>2. IsFiniteSet(Requesting') /\ Cardinality(Requesting') <= Cardinality(Callers)
        BY <2>1, CallersAssumption, FS_Subset
    <2>3. QED
        BY <2>2, <1>a, FS_CardinalityType
<1>c. streak \in Nat /\ streak + Cardinality(Requesting) < failureThreshold + Cardinality(Callers)
    BY DEF BreakerInv, TypeOK, FailuresBounded
<1>d. SUFFICES streak' + Cardinality(Requesting') < failureThreshold + Cardinality(Callers)
    BY DEF FailuresBounded
<1>1. CASE UNCHANGED <<pc, streak>>
    BY <1>1, <1>c DEF Requesting
<1>2. ASSUME NEW c \in Callers, CheckAvailable(c)
      PROVE  streak' + Cardinality(Requesting') < failureThreshold + Cardinality(Callers)
    <2>1. streak' = streak /\ streak < failureThreshold
        BY <1>2, ConfigAssumption DEF CheckAvailable, BreakerInv, StreakCounted, Available, TypeOK
    <2>2. QED
        BY <2>1, <1>b, <1>a, <1>c, ConfigAssumption
<1>3. CASE streak' = 0
    BY <1>3, <1>a, <1>b, ConfigAssumption
<1>4. ASSUME NEW c \in Callers, \/ CheckExpired(c) \/ ProbeUnhealthy(c)
      PROVE  streak' + Cardinality(Requesting') < failureThreshold + Cardinality(Callers)
    <2>1. Requesting' = Requesting /\ streak' = streak
        BY <1>4, <1>0 DEF CheckExpired, ProbeUnhealthy, Probed, Goto, Requesting, TypeOK
    <2>2. QED
        BY <2>1, <1>c
<1>5. ASSUME NEW c \in Callers, RequestFails(c)
      PROVE  streak' + Cardinality(Requesting') < failureThreshold + Cardinality(Callers)
    <2>1. c \in Requesting /\ Requesting' = Requesting \ {c} /\ streak' = streak + 1
        BY <1>5, <1>0 DEF RequestFails, Goto, Requesting, TypeOK
    <2>2. Cardinality(Requesting') = Cardinality(Requesting) - 1
        BY <2>1, <1>a, FS_RemoveElement
    <2>3. QED
        BY <2>1, <2>2, <1>a, <1>c, ConfigAssumption
<1>6. ASSUME NEW c \in Callers, RequestNotSent(c)
      PROVE  streak' + Cardinality(Requesting') < failureThreshold + Cardinality(Callers)
    <2>1. c \in Requesting /\ Requesting' = Requesting \ {c} /\ streak' = streak
        BY <1>6, <1>0 DEF RequestNotSent, Goto, Requesting, TypeOK
    <2>2. Cardinality(Requesting') = Cardinality(Requesting) - 1
        BY <2>1, <1>a, FS_RemoveElement
    <2>3. QED
        BY <2>1, <2>2, <1>a, <1>c, ConfigAssumption
<1>7. QED
    BY <1>1, <1>2, <1>3, <1>4, <1>5, <1>6
       DEF Next, Tick, ServiceChanges, Call, CheckDegraded, Answer, ProbeHealthy,
           RequestSucceeds, clearFailures, vars

\* The inductive invariant holds in every reachable state.
THEOREM BreakerInvariant == Spec => []BreakerInv
<1>1. BreakerInv /\ [Next]_vars => BreakerInv'
    BY BreakerType, BreakerDeadline, BreakerBound DEF BreakerInv
<1>2. QED
    BY BreakerInit, <1>1, PTL DEF Spec

\* However many callers share the client, a service that is down gets no more
\* than failureThreshold requests beyond those under way (checkAvailability,
\* recordFailure).
THEOREM BreakerFailuresBounded == Spec => []FailuresBounded
<1>1. BreakerInv => FailuresBounded
    BY DEF BreakerInv
<1>2. QED
    BY BreakerInvariant, <1>1, PTL

\* No interleaving of recordFailure and clearFailures leaves a deadline
\* behind outside degraded mode.
THEOREM BreakerDeadlines == Spec => []DeadlineOnlyWhenDegraded
<1>1. BreakerInv => DeadlineOnlyWhenDegraded
    BY DEF BreakerInv
<1>2. QED
    BY BreakerInvariant, <1>1, PTL

\* Degraded mode ends with a good probe or a good answer, never by the passing
\* of time or by a failure (checkAvailability, clearFailures).
THEOREM BreakerRecoveryProbes == Spec => RecoveryProbes
<1>1. ASSUME TypeOK, Next, ~Available, Available'
      PROVE  GoodAnswer
  <2>1. consecutiveFails \in Nat /\ failureThreshold \in Nat
        /\ consecutiveFails = failureThreshold
      BY <1>1, ConfigAssumption DEF TypeOK, Available
  <2>2. consecutiveFails' # consecutiveFails
      BY <1>1 DEF Available
  <2>3. PICK c \in Callers : Answer(c)
      BY <1>1, <2>1, <2>2 DEF Next, Tick, ServiceChanges, Call, CheckAvailable, CheckDegraded,
                        CheckExpired, vars
  <2>4. \A a : ~recordFailure(a)
      BY <2>1, <2>2 DEF recordFailure, Lesser
  <2>5. ProbeHealthy(c) \/ RequestSucceeds(c)
      BY <2>1, <2>2, <2>3, <2>4 DEF Answer, ProbeUnhealthy, RequestNotSent, RequestFails
  <2>6. pc \in [Callers -> {"idle", "probe", "request"}]
      BY <1>1 DEF TypeOK
  <2>7. QED
      BY <2>3, <2>5, <2>6 DEF ProbeHealthy, Probed, RequestSucceeds, Goto, GoodAnswer
<1>2. BreakerInv /\ [Next]_vars => [~Available /\ Available' => GoodAnswer]_vars
    BY <1>1 DEF BreakerInv
<1>3. QED
    BY BreakerInvariant, <1>2, PTL DEF Spec, RecoveryProbes

-----------------------------------------------------------------------------
\* The cache of clients.

\* The key of the followed client.
FollowedKey == <<Followed, 0>>

\* A client is cached under its settings and, when it holds a credential, the
\* version of the Secret it is from.
CacheInv ==
    /\ secret.rv <= changes + 1
    /\ \A k \in DOMAIN clients :
        /\ clients[k].spec = k[1]
        /\ k[2] = 0 => clients[k].value = NoValue
        /\ k[2] <= secret.rv
        /\ k[2] = secret.rv => clients[k].value = secret.value

\* Before the followed client is made nobody calls it and it has no failures;
\* a round that uses it has it from the cache.
FollowedInv ==
    /\ FollowedKey \notin DOMAIN clients =>
        /\ consecutiveFails = 0 /\ left = 0
        /\ \A c \in Callers : pc[c] = "idle"
    /\ UsesFollowed => FollowedKey \in DOMAIN clients

LLMInv == ClientsTypeOK /\ CacheInv /\ FollowedInv /\ ClientIsCurrent

\* The initial state.
LEMMA LLMInvInit == LLMInit => LLMInv
<1> SUFFICES ASSUME LLMInit PROVE LLMInv
    OBVIOUS
<1>1. TypeOK
    BY BreakerInit DEF LLMInit, BreakerInv
<1>2. r \in [pc : {"idle", "round"}, spec : LLMSpecs, value : Keys \cup {NoValue},
             client : Client \cup {NoClient}]
    BY SpecsAssumption DEF LLMInit, Idle
<1>3. secret \in Secrets
    BY SpecsAssumption DEF LLMInit, Secrets
<1>4. ClientsTypeOK
    BY <1>1, <1>2, <1>3, SpecsAssumption DEF LLMInit, ClientsTypeOK
<1>5. CacheInv
    BY DEF LLMInit, CacheInv
<1>6. FollowedInv
    BY DEF LLMInit, Init, FollowedInv, UsesFollowed, Idle
<1>7. ClientIsCurrent
    BY DEF LLMInit, ClientIsCurrent, Idle
<1>8. QED
    BY <1>4, <1>5, <1>6, <1>7 DEF LLMInv

\* What a key is: settings and the version of a Secret, and for the followed
\* spec, which names no Secret, always the same key.
LEMMA KeyOfSpec ==
    ASSUME ClientsTypeOK, CacheInv
    PROVE  /\ CacheKey \in LLMSpecs \X (0 .. MaxChanges + 1)
           /\ CacheKey[1] = spec
           /\ CacheKey[2] = 0 => Value = NoValue
           /\ CacheKey[2] <= secret.rv
           /\ CacheKey[2] = secret.rv => Value = secret.value
           /\ CacheKey[2] \in {0, secret.rv}
           /\ spec = Followed => CacheKey = FollowedKey
           /\ Value \in Keys \cup {NoValue}
           /\ secret.rv \in 1 .. MaxChanges + 1
<1>1. secret.rv \in 1 .. MaxChanges + 1 /\ secret.value \in Keys \cup {NoValue}
      /\ spec \in LLMSpecs /\ MaxChanges \in Nat
    BY SpecsAssumption DEF ClientsTypeOK, Secrets
<1>2. CASE ReadsSecret
    <2>1. CacheKey = <<spec, secret.rv>> /\ Value = secret.value
        BY <1>2 DEF CacheKey, Value
    <2>2. spec # Followed
        BY <1>2, SpecsAssumption DEF ReadsSecret
    <2>3. QED
        BY <1>1, <2>1, <2>2
<1>3. CASE ~ReadsSecret
    <2>1. CacheKey = <<spec, 0>> /\ Value = NoValue
        BY <1>3 DEF CacheKey, Value
    <2>2. QED
        BY <1>1, <2>1 DEF FollowedKey
<1>4. QED
    BY <1>2, <1>3

\* Only the followed client's own steps move its state: making it anew finds
\* it as a new client is, because it is made once.
LEMMA ClientStep ==
    ASSUME LLMInv, [LLMNext]_llmVars
    PROVE  [Next]_vars
<1>1. CASE Resolve
    <2>1. CASE ResolveNew
        <3>1. CASE spec = Followed
            <4>1. FollowedKey \notin DOMAIN clients
                BY <2>1, <3>1, KeyOfSpec DEF ResolveNew, LLMInv
            <4>2. QED
                BY <2>1, <3>1, <4>1 DEF LLMInv, FollowedInv, ResolveNew, NewClient, Starts, vars
        <3>2. CASE spec # Followed
            BY <2>1, <3>2 DEF ResolveNew, NewClient, Starts, vars
        <3>3. QED
            BY <3>1, <3>2
    <2>2. QED
        BY <1>1, <2>1 DEF Resolve, ResolveFails, ResolveDisabled, ResolveCached, Starts, vars
<1>2. QED
    BY <1>1 DEF LLMNext, EditLLM, ChangeSecret, Change, Ask, Answered, RoundEnds, Environment,
       Next, llmVars

\* Edits and rotations keep the invariant: a new version of the Secret is
\* greater than every version in the cache.
LEMMA ChangesKeep ==
    ASSUME LLMInv, \/ \E s \in LLMSpecs : EditLLM(s)
                   \/ \E v \in Keys \cup {NoValue} : ChangeSecret(v)
    PROVE  LLMInv'
<1>1. TypeOK'
    BY ClientStep, BreakerType DEF LLMInv, ClientsTypeOK, LLMNext
<1>2. /\ changes < MaxChanges /\ changes' = changes + 1
      /\ clients' = clients /\ r' = r /\ vars' = vars
    BY DEF EditLLM, ChangeSecret, Change
<1>3. /\ changes \in 0 .. MaxChanges /\ MaxChanges \in Nat
      /\ secret.rv \in 1 .. MaxChanges + 1 /\ secret.rv <= changes + 1
      /\ secret.value \in Keys \cup {NoValue}
    BY SpecsAssumption DEF LLMInv, ClientsTypeOK, CacheInv, Secrets
<1>4. /\ secret' \in Secrets /\ spec' \in LLMSpecs
      /\ secret'.rv <= changes' + 1
      /\ secret' = secret \/ secret'.rv = secret.rv + 1
    <2>1. ASSUME NEW s \in LLMSpecs, EditLLM(s)
          PROVE  <1>4!1 /\ <1>4!2 /\ <1>4!3
        BY <2>1, <1>2, <1>3 DEF EditLLM, LLMInv, ClientsTypeOK
    <2>2. ASSUME NEW v \in Keys \cup {NoValue}, ChangeSecret(v)
          PROVE  <1>4!1 /\ <1>4!2 /\ <1>4!3
        BY <2>2, <1>2, <1>3 DEF ChangeSecret, Secrets, LLMInv, ClientsTypeOK
    <2>3. QED
        BY <2>1, <2>2
<1>5. ClientsTypeOK'
    BY <1>1, <1>2, <1>3, <1>4 DEF LLMInv, ClientsTypeOK
<1>6. CacheInv'
    <2>1. SUFFICES ASSUME NEW k \in DOMAIN clients
                   PROVE  /\ clients[k].spec = k[1]
                          /\ k[2] = 0 => clients[k].value = NoValue
                          /\ k[2] <= secret'.rv
                          /\ k[2] = secret'.rv => clients[k].value = secret'.value
        BY <1>2, <1>4 DEF CacheInv
    <2>2. k[2] \in Nat /\ k[2] <= secret.rv
        BY SpecsAssumption DEF LLMInv, ClientsTypeOK, CacheInv
    <2>3. QED
        BY <1>3, <1>4, <2>2 DEF LLMInv, CacheInv
<1>7. FollowedInv' /\ ClientIsCurrent'
    BY <1>2 DEF LLMInv, FollowedInv, UsesFollowed, ClientIsCurrent, vars
<1>8. QED
    BY <1>5, <1>6, <1>7 DEF LLMInv

\* Taking a client keeps the invariant: the cached one is that of the
\* configuration just read, and a new one is stored under its own key.
LEMMA ResolveKeeps ==
    ASSUME LLMInv, Resolve
    PROVE  LLMInv'
<1>1. TypeOK'
    BY ClientStep, BreakerType DEF LLMInv, ClientsTypeOK, LLMNext
<1>2. spec' = spec /\ secret' = secret /\ changes' = changes /\ pc' = pc
    BY DEF Resolve, ResolveFails, ResolveDisabled, ResolveCached, ResolveNew, Starts
<1>3. ClientsTypeOK /\ CacheInv /\ FollowedInv
    BY DEF LLMInv
<1>4. PICK c \in Client \cup {NoClient} :
        /\ Use(c)
        /\ c # NoClient => c = [spec |-> spec, value |-> Value]
        /\ c # NoClient => CacheKey \in DOMAIN clients'
    <2>1. CASE ResolveFails \/ ResolveDisabled
        BY <2>1 DEF ResolveFails, ResolveDisabled
    <2>2. CASE ResolveCached
        <3>1. CacheKey \in DOMAIN clients /\ clients[CacheKey] \in Client /\ clients' = clients
            BY <2>2, <1>3 DEF ResolveCached, ClientsTypeOK
        <3>2. clients[CacheKey].spec = spec /\ clients[CacheKey].value = Value
            BY <3>1, <1>3, KeyOfSpec DEF CacheInv
        <3>3. clients[CacheKey] = [spec |-> spec, value |-> Value]
            BY <3>1, <3>2 DEF Client
        <3>4. QED
            BY <2>2, <3>1, <3>3 DEF ResolveCached
    <2>3. CASE ResolveNew
        <3>1. [spec |-> spec, value |-> Value] \in Client
            BY <1>3, KeyOfSpec DEF Client, ClientsTypeOK
        <3>2. QED
            BY <2>3, <3>1 DEF ResolveNew
    <2>4. QED
        BY <2>1, <2>2, <2>3 DEF Resolve
<1>5. r' = [pc |-> "round", spec |-> spec, value |-> Value, client |-> c]
    BY <1>4 DEF Use
<1>6. r' \in [pc : {"idle", "round"}, spec : LLMSpecs, value : Keys \cup {NoValue},
              client : Client \cup {NoClient}]
    BY <1>3, <1>5, KeyOfSpec DEF ClientsTypeOK
<1>7. CASE clients' = clients
    <2>1. ClientsTypeOK' /\ CacheInv'
        BY <1>1, <1>2, <1>3, <1>6, <1>7 DEF ClientsTypeOK, CacheInv
    <2>2. ~ResolveNew
        BY <1>7 DEF ResolveNew
    <2>3. consecutiveFails' = consecutiveFails /\ left' = left
        BY <2>2 DEF Resolve, ResolveFails, ResolveDisabled, ResolveCached
    <2>4. UsesFollowed' => FollowedKey \in DOMAIN clients
        BY <1>3, <1>4, <1>5, <1>7, KeyOfSpec DEF UsesFollowed
    <2>5. FollowedInv'
        BY <1>2, <1>3, <1>7, <2>3, <2>4 DEF FollowedInv
    <2>6. QED
        BY <1>4, <1>5, <2>1, <2>5 DEF LLMInv, ClientIsCurrent
<1>8. CASE ResolveNew
    <2> DEFINE n == [spec |-> spec, value |-> Value]
    <2>1. /\ DOMAIN clients' = DOMAIN clients \cup {CacheKey}
          /\ clients'[CacheKey] = n
          /\ \A k \in DOMAIN clients : k # CacheKey => clients'[k] = clients[k]
          /\ CacheKey \notin DOMAIN clients
        BY <1>8 DEF ResolveNew
    <2>2. n \in Client /\ n.spec = spec /\ n.value = Value
        BY <1>3, KeyOfSpec DEF Client, ClientsTypeOK
    <2> HIDE DEF n
    <2>3. ClientsTypeOK'
        BY <1>1, <1>2, <1>3, <1>6, <2>1, <2>2, KeyOfSpec DEF ClientsTypeOK
    <2>4. CacheInv'
        BY <1>2, <1>3, <2>1, <2>2, KeyOfSpec DEF CacheInv
    <2>5. UsesFollowed' => FollowedKey \in DOMAIN clients'
        BY <1>3, <1>4, <1>5, KeyOfSpec DEF UsesFollowed
    <2>6. FollowedKey \notin DOMAIN clients' => consecutiveFails' = consecutiveFails /\ left' = left
        BY <1>3, <1>8, <2>1, KeyOfSpec DEF ResolveNew, NewClient
    <2>7. FollowedInv'
        BY <1>2, <1>3, <2>1, <2>5, <2>6 DEF FollowedInv
    <2>8. QED
        BY <1>4, <1>5, <2>3, <2>4, <2>7 DEF LLMInv, ClientIsCurrent
<1>9. QED
    BY <1>7, <1>8 DEF Resolve, ResolveFails, ResolveDisabled, ResolveCached

\* The calls of a round, its end, time and the service keep the invariant.
LEMMA RoundKeeps ==
    ASSUME LLMInv, \/ \E c \in Callers : Ask(c) \/ Answered(c)
                   \/ RoundEnds
                   \/ Environment
    PROVE  LLMInv'
<1>1. TypeOK'
    BY ClientStep, BreakerType DEF LLMInv, ClientsTypeOK, LLMNext
<1>2. spec' = spec /\ secret' = secret /\ changes' = changes /\ clients' = clients
    BY DEF Ask, Answered, RoundEnds, Environment, clientVars
<1>3. r' = r \/ r' = Idle
    BY DEF Ask, Answered, RoundEnds, Environment, clientVars
<1>4. ClientsTypeOK' /\ CacheInv' /\ ClientIsCurrent'
    <2>1. Idle \in [pc : {"idle", "round"}, spec : LLMSpecs, value : Keys \cup {NoValue},
                    client : Client \cup {NoClient}]
        BY SpecsAssumption DEF Idle
    <2>2. ClientsTypeOK'
        BY <1>1, <1>2, <1>3, <2>1 DEF LLMInv, ClientsTypeOK
    <2>3. CacheInv' /\ ClientIsCurrent'
        BY <1>2, <1>3 DEF LLMInv, CacheInv, ClientIsCurrent, Idle
    <2>4. QED
        BY <2>2, <2>3
<1>5. UsesFollowed' => FollowedKey \in DOMAIN clients'
    BY <1>2, <1>3 DEF LLMInv, FollowedInv, UsesFollowed, Idle
<1>6. ASSUME FollowedKey \notin DOMAIN clients
      PROVE  consecutiveFails' = 0 /\ left' = 0 /\ \A c \in Callers : pc'[c] = "idle"
    <2>1. consecutiveFails = 0 /\ left = 0 /\ (\A c \in Callers : pc[c] = "idle") /\ ~UsesFollowed
        BY <1>6 DEF LLMInv, FollowedInv
    <2>2. \A c \in Callers : ~Ask(c) /\ ~Answered(c)
        BY <2>1 DEF Ask, Answered, Answer, ProbeHealthy, ProbeUnhealthy, Probed, RequestNotSent,
           RequestFails, RequestSucceeds
    <2>3. QED
        BY <2>1, <2>2 DEF RoundEnds, Environment, Tick, ServiceChanges, Positive, vars
<1>7. QED
    BY <1>2, <1>4, <1>5, <1>6 DEF LLMInv, FollowedInv

\* Every step keeps the invariant.
LEMMA LLMInvNext ==
    ASSUME LLMInv, [LLMNext]_llmVars
    PROVE  LLMInv'
<1>1. CASE UNCHANGED llmVars
    BY <1>1 DEF llmVars, vars, service, clientVars, LLMInv, ClientsTypeOK, TypeOK, CacheInv,
       FollowedInv, UsesFollowed, ClientIsCurrent
<1>2. QED
    BY <1>1, ChangesKeep, ResolveKeeps, RoundKeeps DEF LLMNext

\* The inductive invariant holds in every reachable state of the operator's
\* cache and clients.
THEOREM LLMInvariant == LLMSpecification => []LLMInv
    BY LLMInvInit, LLMInvNext, PTL DEF LLMSpecification

\* Types of the client, the cache and the round (resolvePlanLLMClient).
THEOREM LLMClientTypes == LLMSpecification => []ClientsTypeOK
<1>1. LLMInv => ClientsTypeOK
    BY DEF LLMInv
<1>2. QED
    BY LLMInvariant, <1>1, PTL

\* For every set of specs and every sequence of edits and rotations, a round
\* asks with the client of the settings and of the credential it read
\* (resolvePlanLLMClient, the key of llmClientCache).
THEOREM RoundClientIsCurrent == LLMSpecification => []ClientIsCurrent
<1>1. LLMInv => ClientIsCurrent
    BY DEF LLMInv
<1>2. QED
    BY LLMInvariant, <1>1, PTL

\* Rounds, edits, rotations and the cache implement the FastAPI client alone:
\* nothing the plan does with its clients resets the failures of one.
THEOREM CacheImplementsBreaker == LLMSpecification => ImplementsBreaker
<1>1. LLMInit => Init
    BY DEF LLMInit
<1>2. LLMInv /\ [LLMNext]_llmVars => [Next]_vars
    BY ClientStep
<1>3. QED
    BY <1>1, <1>2, LLMInvariant, PTL DEF LLMSpecification, ImplementsBreaker, Spec

\* What was proved of the client alone holds of the client as the operator
\* uses it, through its cache.
THEOREM CachedClientSafe ==
    LLMSpecification => []FailuresBounded /\ []DeadlineOnlyWhenDegraded /\ RecoveryProbes
    BY CacheImplementsBreaker, BreakerFailuresBounded, BreakerDeadlines, BreakerRecoveryProbes,
       PTL DEF ImplementsBreaker
=============================================================================
