--------------------------- MODULE FastAPIBreaker ---------------------------
(***************************************************************************)
(* internal/llm/fastapi_client.go: the FastAPI client's degraded mode.     *)
(* After failureThreshold failures in a row calls are refused until a      *)
(* cooldown is over, and then until a health probe succeeds.               *)
(*                                                                         *)
(* Callers share one client.  g.mu protects the counter and the deadline   *)
(* one access at a time: a caller's view of them is old by the time its    *)
(* probe or its request ends, and others may have moved them meanwhile.    *)
(* (The operator calls from one goroutine; one caller is that case.)       *)
(*                                                                         *)
(* Time is counted in ticks: left is what remains of degradedUntil, and a  *)
(* caller's age the time since it read the clock.  consecutiveFails counts *)
(* up to the threshold, past which the code does not tell values apart.    *)
(***************************************************************************)
EXTENDS Integers, FiniteSets

CONSTANTS
    Callers,
    failureThreshold,
    cooldown           \* in ticks

ASSUME CallersAssumption == IsFiniteSet(Callers)
\* NewFastAPIInsightGenerator replaces values that are not positive.
ASSUME ConfigAssumption == failureThreshold \in Nat \ {0} /\ cooldown \in Nat \ {0}

VARIABLES
    consecutiveFails,
    left,        \* until degradedUntil; 0 once it is past, or not set
    pc,          \* where each caller is in GenerateInsight
    age,         \* of the time each caller read in checkAvailability
    healthy,     \* the service answers probes of its health URL
    serving,     \* the service answers requests
    streak       \* history: requests that failed since the last clearFailures

service == <<healthy, serving>>
vars == <<consecutiveFails, left, pc, age, service, streak>>

Init ==
    /\ consecutiveFails = 0
    /\ left = 0
    /\ pc = [c \in Callers |-> "idle"]
    /\ age = [c \in Callers |-> 0]
    /\ healthy \in BOOLEAN /\ serving \in BOOLEAN
    /\ streak = 0

Lesser(a, b) == IF a < b THEN a ELSE b

\* A degradedUntil in the past is like none: all that is asked of it is
\* now.Before(degradedUntil).
Positive(n) == IF n < 0 THEN 0 ELSE n

\* recordFailure(now), for a now that is a ticks old.
recordFailure(a) ==
    /\ consecutiveFails' = Lesser(consecutiveFails + 1, failureThreshold)
    /\ left' = IF consecutiveFails + 1 >= failureThreshold THEN Positive(cooldown - a) ELSE left

\* Mutant: the counter is cleared and the deadline is not.
clearFailuresCounter ==
    /\ consecutiveFails' = 0
    /\ streak' = 0
    /\ UNCHANGED left

clearFailures ==
    /\ consecutiveFails' = 0
    /\ left' = 0
    /\ streak' = 0

Goto(c, l) == pc' = [pc EXCEPT ![c] = l]
ReadClock(c) == age' = [age EXCEPT ![c] = 0]

\* Mutant: the threshold is one too high.
AvailableLate == consecutiveFails <= failureThreshold

Available == consecutiveFails < failureThreshold

\* checkAvailability: the calls go through.
CheckAvailable(c) ==
    /\ pc[c] = "idle"
    /\ Available
    /\ Goto(c, "request")
    /\ UNCHANGED <<consecutiveFails, left, age, service, streak>>

\* checkAvailability: degraded; errFastAPIDegraded.
CheckDegraded(c) ==
    /\ pc[c] = "idle"
    /\ ~Available
    /\ left > 0
    /\ UNCHANGED vars

\* checkAvailability: the cooldown is over; probe first.
CheckExpired(c) ==
    /\ pc[c] = "idle"
    /\ ~Available
    /\ left = 0
    /\ Goto(c, "probe")
    /\ ReadClock(c)
    /\ UNCHANGED <<consecutiveFails, left, service, streak>>

Probed(c) == pc[c] = "probe" /\ UNCHANGED <<service, age>>

\* Mutant: the probe's two outcomes are swapped.
ProbeHealthySwapped(c) ==
    /\ Probed(c)
    /\ healthy
    /\ recordFailure(age[c])
    /\ Goto(c, "idle")
    /\ UNCHANGED streak

ProbeHealthy(c) ==
    /\ Probed(c)
    /\ healthy
    /\ clearFailures
    /\ Goto(c, "request")

\* The failure is recorded as of the time read before the probe.
ProbeUnhealthy(c) ==
    /\ Probed(c)
    /\ ~healthy
    /\ recordFailure(age[c])
    /\ Goto(c, "idle")
    /\ UNCHANGED streak

\* The payload cannot be encoded or the request not be built: an error, and
\* nothing is recorded.
RequestNotSent(c) ==
    /\ pc[c] = "request"
    /\ Goto(c, "idle")
    /\ UNCHANGED <<consecutiveFails, left, age, service, streak>>

\* An error, a bad status, an unreadable or an empty answer.
RequestFails(c) ==
    /\ pc[c] = "request"
    /\ ~serving
    /\ recordFailure(0)
    /\ streak' = streak + 1
    /\ Goto(c, "idle")
    /\ UNCHANGED <<age, service>>

RequestSucceeds(c) ==
    /\ pc[c] = "request"
    /\ serving
    /\ clearFailures
    /\ Goto(c, "idle")
    /\ UNCHANGED <<age, service>>

\* Mutant: the end of the cooldown ends degraded mode.
TickForgives ==
    /\ left' = Positive(left - 1)
    /\ consecutiveFails' = IF left = 1 THEN 0 ELSE consecutiveFails
    /\ UNCHANGED <<age, pc, service, streak>>

Tick ==
    /\ left' = Positive(left - 1)
    /\ age' = [c \in Callers |-> IF pc[c] = "probe" THEN Lesser(age[c] + 1, cooldown) ELSE age[c]]
    /\ UNCHANGED <<consecutiveFails, pc, service, streak>>

ServiceChanges ==
    /\ healthy' \in BOOLEAN /\ serving' \in BOOLEAN
    /\ UNCHANGED <<consecutiveFails, left, pc, age, streak>>

Call(c) == CheckAvailable(c) \/ CheckDegraded(c) \/ CheckExpired(c)
Answer(c) ==
    \/ ProbeHealthy(c) \/ ProbeUnhealthy(c)
    \/ RequestNotSent(c) \/ RequestFails(c) \/ RequestSucceeds(c)

Next == Tick \/ ServiceChanges \/ \E c \in Callers : Call(c) \/ Answer(c)

Spec == Init /\ [][Next]_vars

\* Time passes, the callers keep calling, and the HTTP client's timeout ends
\* every request.
Fairness == WF_vars(Tick) /\ \A c \in Callers : WF_vars(Call(c)) /\ WF_vars(Answer(c))

FairSpec == Spec /\ Fairness

-----------------------------------------------------------------------------
TypeOK ==
    /\ consecutiveFails \in 0 .. failureThreshold
    /\ left \in 0 .. cooldown
    /\ pc \in [Callers -> {"idle", "probe", "request"}]
    /\ age \in [Callers -> 0 .. cooldown]
    /\ healthy \in BOOLEAN /\ serving \in BOOLEAN
    /\ streak \in Nat

Requesting == {c \in Callers : pc[c] = "request"}

\* "Enters degraded mode after configurable consecutive failures": however
\* the callers interleave, a service that is down sees no more than
\* failureThreshold requests, and those already under way at that point,
\* before it answers again.
FailuresBounded ==
    streak + Cardinality(Requesting) < failureThreshold + Cardinality(Callers)

\* A deadline stands only in degraded mode: no race of a late failure with a
\* recovery leaves a cooldown behind that a later failure would inherit.
DeadlineOnlyWhenDegraded == left > 0 => ~Available

\* A caller hears something good from the service.
GoodAnswer ==
    \E c \in Callers : /\ pc'[c] # pc[c]
                       /\ \/ pc[c] = "probe" /\ healthy
                          \/ pc[c] = "request" /\ serving

\* "Recovery requires a successful health probe before traffic resumes": the
\* end of the cooldown does not end degraded mode, and neither does a late
\* failure; a good probe does, or the good answer to a request that another
\* caller had sent before.
RecoveryProbes ==
    [][~Available /\ Available' => GoodAnswer]_vars
=============================================================================
