--------------------------- MODULE AlertDelivery ---------------------------
(***************************************************************************)
(* internal/alertreceiver/server.go, the webhook receiver with its log,    *)
(* and internal/cirunner/nightly_alert_delivery.go, which waits for a      *)
(* synthetic alert to arrive there.  Alertmanager sends a body until it is *)
(* answered; a write to the log may fail half-way; a restart of the        *)
(* container loses the log.                                                *)
(***************************************************************************)
EXTENDS Integers, Sequences, SequencesExt

CONSTANTS
    Bodies,      \* what Alertmanager may post
    Synthetic,   \* those that name the alert CIAlwaysFiring
    Size,        \* [Bodies -> Nat]: bytes of a body
    Encoded,     \* [Bodies -> Nat]: bytes of its line, escaped
    MaxBody,     \* maxBodyBytes
    MaxLine,     \* the scanner's buffer
    MaxLines,    \* bound: writes to the log
    MaxRestarts  \* bound: restarts of the receiver

ASSUME DeliveryAssumption ==
    /\ Synthetic \subseteq Bodies /\ Size \in [Bodies -> Nat] /\ Encoded \in [Bodies -> Nat]
    /\ {MaxBody, MaxLine, MaxLines, MaxRestarts} \subseteq Nat

VARIABLES
    log,       \* lines, each a sequence of what was written to it, the last may be open
    torn,      \* the last line has no newline
    rule,      \* the PrometheusRule of the synthetic alert exists
    night,     \* the nightly run: phase, forward, baseline
    answered,  \* history: bodies answered with 200 since the receiver started
    writes, failed, restarts,
    fresh      \* history: a synthetic body reached the log after the baseline

receiver == <<log, torn, answered, writes, failed, restarts, fresh>>
dvars == <<receiver, rule, night>>

\* A write: whether it put the whole body and the name of the alert on the line.
Written == [body : Bodies, whole : BOOLEAN, named : BOOLEAN]
NoBaseline == [count |-> -1, synthetic |-> FALSE]

DeliveryInit ==
    /\ log = <<>> /\ torn = FALSE /\ answered = {} /\ writes = 0 /\ failed = FALSE
    /\ restarts = 0 /\ fresh = FALSE
    /\ rule \in BOOLEAN
    /\ night = [phase |-> "rollout", forward |-> "none", baseline |-> NoBaseline]

-----------------------------------------------------------------------------
\* The receiver.

readBody(b) == Size[b] <= MaxBody

\* What w, and a newline if it ends the line, makes of the log.
Write(w, ends) ==
    /\ log' = IF torn THEN [log EXCEPT ![Len(log)] = Append(@, w)] ELSE Append(log, <<w>>)
    /\ torn' = ~ends

\* handleRoot and Store.Append under its mutex; a body that is refused, or a log that
\* cannot be opened, changes nothing.  A write may stop before or after the name of
\* the alert.  Alertmanager posts a body again when the answer is lost or an error.
Post(b) ==
    /\ b \in Synthetic => rule
    /\ writes < MaxLines /\ writes' = writes + 1
    /\ readBody(b)
    /\ \E whole \in BOOLEAN, named \in BOOLEAN, ends \in BOOLEAN :
         LET w == [body |-> b, whole |-> whole, named |-> named]
         IN  /\ whole => named = (b \in Synthetic)
             /\ named => b \in Synthetic
             /\ ends => whole
             /\ Write(w, ends)
             /\ answered' = IF ends THEN answered \cup {b} ELSE answered
             /\ failed' = (failed \/ ~ends)
             /\ fresh' = (fresh \/ (night.baseline # NoBaseline /\ named))
    /\ UNCHANGED <<restarts, rule, night>>

ReceiverRestarts ==
    /\ restarts < MaxRestarts /\ restarts' = restarts + 1
    /\ log' = <<>> /\ torn' = FALSE /\ answered' = {} /\ failed' = FALSE
    /\ UNCHANGED <<rule, night, writes, fresh>>

\* The scanner gives up at a line that fills its buffer.  What a torn write left counts
\* for one byte: a line can be too long through bodies that only lack their newline.
LineSize(line) == FoldSeq(LAMBDA w, n : n + (IF w.whole THEN Encoded[w.body] ELSE 1), 0, line)
Readable == \A i \in DOMAIN log : LineSize(log[i]) < MaxLine

\* A line with one whole body decodes to it; any other is taken as it is, still escaped.
Record(line) == [decoded |-> Len(line) = 1 /\ line[1].whole, text |-> line]

\* Mutant: only lines that decode.
RecordsDecoded ==
    LET lines == SelectSeq(log, LAMBDA line : Record(line).decoded)
    IN  [ok |-> Readable, records |-> [i \in DOMAIN lines |-> Record(lines[i])]]

\* handleRecords and Store.Records: all lines, or an error if one cannot be read.
Records ==
    IF Readable THEN [ok |-> TRUE, records |-> [i \in DOMAIN log |-> Record(log[i])]]
    ELSE [ok |-> FALSE, records |-> <<>>]

\* The bodies that are records of their own, and those that are anywhere in a record.
DecodedBodies(records) ==
    {b \in Bodies : \E i \in DOMAIN records : records[i].decoded /\ records[i].text[1].body = b}
WholeBodies(records) ==
    {b \in Bodies : \E i \in DOMAIN records : \E j \in DOMAIN records[i].text :
        records[i].text[j].body = b /\ records[i].text[j].whole}
containsSyntheticAlert(records) ==
    \E i \in DOMAIN records : \E j \in DOMAIN records[i].text : records[i].text[j].named

-----------------------------------------------------------------------------
\* The nightly run: rollout, forward, health, baseline, rule, wait.
NightGoes(from, to) ==
    night.phase = from /\ night' = [night EXCEPT !.phase = to] /\ UNCHANGED <<receiver, rule>>

NightFails ==
    /\ night.phase \in {"rollout", "health", "baseline", "apply", "waiting"}
    /\ NightGoes(night.phase, "failing")

RolloutReady == NightGoes("rollout", "forward")

\* The session is kept before it is known to be ready.
StartForward ==
    /\ night.phase = "forward"
    /\ \/ night' = [night EXCEPT !.phase = "failing"]
       \/ \E to \in {"health", "failing"} : night' = [night EXCEPT !.phase = to, !.forward = "open"]
    /\ UNCHANGED <<receiver, rule>>

Healthy == NightGoes("health", "baseline")

\* An answer that is an error ends the run (NightFails).
FetchBaseline ==
    /\ night.phase = "baseline" /\ Records.ok
    /\ night' = [night EXCEPT !.phase = "apply",
                              !.baseline = [count |-> Len(Records.records),
                                            synthetic |-> containsSyntheticAlert(Records.records)]]
    /\ UNCHANGED <<receiver, rule>>

applySyntheticRule ==
    /\ night.phase = "apply"
    /\ rule' = TRUE
    /\ night' = [night EXCEPT !.phase = "waiting"]
    /\ UNCHANGED receiver

Arrived(records) == Len(records) > night.baseline.count /\ containsSyntheticAlert(records)

\* A poll whose answer is an error counts as one that is not satisfied.
Confirm ==
    /\ night.phase = "waiting" /\ Records.ok /\ Arrived(Records.records)
    /\ NightGoes("waiting", "confirmed")

\* The deferred closePortForwards.
CloseForward ==
    /\ night.phase \in {"failing", "confirmed"}
    /\ night' = [night EXCEPT !.phase = IF @ = "failing" THEN "failed" ELSE "passed",
                              !.forward = IF @ = "open" THEN "closed" ELSE @]
    /\ UNCHANGED <<receiver, rule>>

Nightly ==
    \/ NightFails \/ RolloutReady \/ StartForward \/ Healthy \/ FetchBaseline
    \/ applySyntheticRule \/ Confirm \/ CloseForward

DeliveryNext == Nightly \/ ReceiverRestarts \/ \E b \in Bodies : Post(b)

NightEnded == night.phase \in {"failed", "passed"}

-----------------------------------------------------------------------------
\* Type invariant; a forward is open only until the run ends.
DeliveryTypeOK ==
    /\ \A i \in DOMAIN log : log[i] # <<>> /\ \A j \in DOMAIN log[i] : log[i][j] \in Written
    /\ torn => log # <<>>
    /\ answered \subseteq Bodies /\ writes \in 0 .. MaxLines
    /\ night.forward \in {"none", "open", "closed"}
    /\ NightEnded => night.forward # "open"
    /\ night.phase \in {"waiting", "confirmed", "passed"} => night.baseline # NoBaseline

\* What was answered with 200 since the receiver started is in every answer that
\* /records gives: a record of its own while no write has failed, afterwards perhaps a
\* part of a line that failed writes before or after it left (Store.Append, Records).
AnsweredIsRecorded ==
    Records.ok =>
        /\ answered \subseteq WholeBodies(Records.records)
        /\ ~failed => answered \subseteq DecodedBodies(Records.records)

\* /records does answer, while no write has failed and each body that was answered with
\* 200 fits the scanner's line once it is escaped.
LogReadable == ~failed /\ (\A b \in answered : Encoded[b] < MaxLine) => Records.ok

\* A confirmed delivery is one of this night: with no synthetic alert among the
\* baseline records, one arrived after them, whatever else arrived, was lost with
\* a restart or is left on a torn line.
ConfirmedIsNew ==
    night.phase \in {"confirmed", "passed"} /\ ~night.baseline.synthetic => fresh
=============================================================================
