----------------------------- MODULE PVCWatcher -----------------------------
(***************************************************************************)
(* internal/controller/pvcwatcher_controller.go: the reconciler that polls *)
(* Prometheus for the usage of every PVC and keeps one sample window per   *)
(* PVC, with the parts of its surroundings that its code relies on.        *)
(*                                                                         *)
(* Three processes interleave: the cluster (PVCs are created, deleted and  *)
(* created again under the same name), the one worker of the "pvc-watcher" *)
(* controller, and the plan reconciler, which calls Configure from its own *)
(* goroutine.  A step is what happens between two points where another     *)
(* process may act: a call that waits for the network, an acquisition of   *)
(* r.mu, an access to a field of PVCState made without r.mu.  r.mu is held *)
(* across steps only by Configure; every other critical section is a       *)
(* single step.  The process may also crash and start again.               *)
(*                                                                         *)
(* A PVC is named by its key and told apart from an earlier PVC of the     *)
(* same key by its UID, a number that grows with each creation.  The       *)
(* queries go by namespace and name, so the answer may be the usage of an  *)
(* earlier PVC.  Of a sample the model keeps for which PVC it was asked    *)
(* (asked) and whose usage it is (uid); of LastCapacityBytes, whether it   *)
(* is known.                                                               *)
(* A buffer is the window RingBuffer.tla shows it to implement.            *)
(***************************************************************************)
EXTENDS Windows

CONSTANTS
    Keys,           \* PVC keys, "namespace/name"
    NoKey,          \* the key of an idle worker
    MaxUID,         \* bound: creations of one key
    MaxRestarts,    \* bound: crashes of the operator
    MaxPoints,      \* bound: points of one answer of Prometheus to query_range
    Retentions,     \* values of spec.sampleRetention
    DefaultRetention,  \* 720 in the code
    StartupClient   \* "prom" when --prometheus-url is set, otherwise "mock"

ASSUME KeysAssumption == NoKey \notin Keys
ASSUME BoundsAssumption ==
    MaxUID \in Nat \ {0} /\ MaxRestarts \in Nat /\ MaxPoints \in Nat
ASSUME RetentionAssumption ==
    Retentions \subseteq Int /\ DefaultRetention \in Nat \ {0}
ASSUME ClientAssumption == StartupClient \in {"mock", "prom"}

VARIABLES
    pvc,        \* the UID of the PVC each key names in the informer's cache, 0 if none
    born,       \* the last UID given to each key
    oldest,     \* Prometheus still answers for PVCs of a key from this UID on
    queue,      \* keys ready in the controller's work queue
    timers,     \* keys the queue will add after a delay
    pvcStates,  \* r.pvcStates
    retention,  \* r.retention
    client,     \* r.metricsClient
    exported,   \* keys with usage, capacity, ratio and samples series
    w,          \* the worker: where it is in Reconcile, and its locals
    cfg,        \* Configure: where it is, and its locals
    phase,      \* main: listing for the backfill, backfilling, running
    listed,     \* BackfillAllPVCs: <<key, uid>> pairs still to backfill
    restarts

clusterVars == <<pvc, born, oldest>>
queueVars   == <<queue, timers>>
bootVars    == <<phase, listed, restarts>>
vars == <<clusterVars, queueVars, pvcStates, retention, client, exported, w, cfg, bootVars>>

UID == 1 .. MaxUID
Sample == [asked : UID, uid : UID]
NoSample == [asked |-> 0, uid |-> 0]
\* window and capacity stand for the RingBuffer the Buffer field points to.
PVCState == [uid : UID, window : Seq(Sample), capacity : Nat \ {0}, capKnown : BOOLEAN]

IdleWorker == [pc |-> "idle", key |-> NoKey, uid |-> 0, used |-> NoSample,
               buf |-> "none"]
IdleConfigure == [pc |-> "idle", todo |-> {}, key |-> NoKey, copy |-> <<>>]

\* Nobody but Configure holds r.mu across a step.
MuFree == cfg.pc = "idle"

-----------------------------------------------------------------------------
\* The state map.

NewPVCState(uid, n) == [uid |-> uid, window |-> <<>>, capacity |-> n, capKnown |-> FALSE]

\* Buffer.Reset and the new UID; LastCapacityBytes stays.
ResetFor(st, uid) == [uid |-> uid, window |-> <<>>, capacity |-> st.capacity,
                      capKnown |-> st.capKnown]

\* Mutants of ensureState: no reset on a UID change, and a buffer of the
\* startup retention.
EnsuredNoReset(states, k, uid, n) ==
    [x \in DOMAIN states \cup {k} |->
        IF x # k THEN states[x]
        ELSE IF k \notin DOMAIN states THEN NewPVCState(uid, n)
        ELSE [states[k] EXCEPT !.uid = uid]]
EnsuredDefaultSize(states, k, uid, n) ==
    [x \in DOMAIN states \cup {k} |->
        IF x # k THEN states[x]
        ELSE IF k \notin DOMAIN states THEN NewPVCState(uid, DefaultRetention)
        ELSE IF states[k].uid # uid
        THEN ResetFor(states[k], uid)
        ELSE states[k]]

\* ensureState: create the missing state; a new UID resets the buffer.
Ensured(states, k, uid, n) ==
    [x \in DOMAIN states \cup {k} |->
        IF x # k THEN states[x]
        ELSE IF k \notin DOMAIN states THEN NewPVCState(uid, n)
        ELSE IF states[k].uid # uid
        THEN ResetFor(states[k], uid)
        ELSE states[k]]

NoStates == [k \in {} |-> NoSample]

Without(states, k) == [x \in DOMAIN states \ {k} |-> states[x]]

\* Pushing a sequence of samples, oldest first.
PushAll(st, points) == [st EXCEPT !.window = Newest(@ \o points, st.capacity)]

-----------------------------------------------------------------------------
\* The process starts: main() up to mgr.Start, with what the crash lost.

\* mgr.Start: the informer lists the cluster and queues every PVC.
Queued(p) == {k \in Keys : p[k] # 0}

Boot(p) ==
    /\ queue' = IF StartupClient = "prom" THEN {} ELSE Queued(p)
    /\ phase' = IF StartupClient = "prom" THEN "list" ELSE "running"
    /\ timers' = {}
    /\ pvcStates' = NoStates
    /\ retention' = DefaultRetention
    /\ client' = StartupClient
    /\ exported' = {}
    /\ w' = IdleWorker
    /\ cfg' = IdleConfigure
    /\ listed' = {}

Init ==
    /\ pvc \in [Keys -> {0, 1}]
    /\ born = pvc
    /\ oldest = [k \in Keys |-> 1]
    /\ queue = IF StartupClient = "prom" THEN {} ELSE Queued(pvc)
    /\ phase = IF StartupClient = "prom" THEN "list" ELSE "running"
    /\ timers = {}
    /\ pvcStates = NoStates
    /\ retention = DefaultRetention
    /\ client = StartupClient
    /\ exported = {}
    /\ w = IdleWorker
    /\ cfg = IdleConfigure
    /\ listed = {}
    /\ restarts = 0

\* The process dies at any point; everything in memory is gone.
Restart ==
    /\ restarts < MaxRestarts
    /\ restarts' = restarts + 1
    /\ Boot(pvc)
    /\ UNCHANGED clusterVars

StartManager ==
    /\ phase' = "running"
    /\ queue' = Queued(pvc)
    /\ UNCHANGED <<clusterVars, timers, pvcStates, retention, client, exported,
                   w, cfg, restarts>>

\* BackfillAllPVCs: the list fails, and main only logs it.
BackfillListFails ==
    /\ phase = "list"
    /\ StartManager
    /\ UNCHANGED listed

BackfillList ==
    /\ phase = "list"
    /\ phase' = "backfill"
    /\ listed' = {<<k, pvc[k]>> : k \in Queued(pvc)}
    /\ UNCHANGED <<clusterVars, queueVars, pvcStates, retention, client, exported,
                   w, cfg, restarts>>

\* What query_range may return for a key: usage of every PVC the name has
\* had within the window, oldest first.
Histories(k, uid) ==
    UNION {{h \in [1 .. n -> {[asked |-> uid, uid |-> u] : u \in 1 .. born[k]}] :
              \A i \in 1 .. n - 1 : h[i].uid <= h[i + 1].uid} : n \in 0 .. MaxPoints}

\* BackfillFromRange: a failed query leaves the new, empty state behind.
BackfillOne(k, uid) ==
    /\ phase = "backfill"
    /\ <<k, uid>> \in listed
    /\ LET states == Ensured(pvcStates, k, uid, retention)
       IN \/ pvcStates' = states
          \/ \E h \in Histories(k, uid) : pvcStates' = [states EXCEPT ![k] = PushAll(@, h)]
    /\ listed' = listed \ {<<k, uid>>}
    /\ UNCHANGED <<clusterVars, queueVars, retention, client, exported, w, cfg,
                   phase, restarts>>

BackfillDone ==
    /\ phase = "backfill"
    /\ listed = {}
    /\ StartManager
    /\ UNCHANGED listed

-----------------------------------------------------------------------------
\* The cluster, the informer and the work queue.

EventFor(k) == queue' = IF phase = "running" THEN queue \cup {k} ELSE queue

CreatePVC(k) ==
    /\ pvc[k] = 0
    /\ born[k] < MaxUID
    /\ born' = [born EXCEPT ![k] = @ + 1]
    /\ pvc' = [pvc EXCEPT ![k] = born[k] + 1]
    /\ EventFor(k)
    /\ UNCHANGED <<oldest, timers, pvcStates, retention, client, exported, w, cfg, bootVars>>

DeletePVC(k) ==
    /\ pvc[k] # 0
    /\ pvc' = [pvc EXCEPT ![k] = 0]
    /\ EventFor(k)
    /\ UNCHANGED <<born, oldest, timers, pvcStates, retention, client, exported, w, cfg,
                   bootVars>>

\* An update event or the periodic resync.
UpdatePVC(k) ==
    /\ phase = "running"
    /\ pvc[k] # 0
    /\ EventFor(k)
    /\ UNCHANGED <<clusterVars, timers, pvcStates, retention, client, exported, w, cfg,
                   bootVars>>

\* The next scrape, or the end of its lookback: Prometheus no longer answers
\* an instant query with the last samples of PVCs that are gone.
SeriesExpire(k) ==
    /\ oldest' = [oldest EXCEPT ![k] = IF pvc[k] = 0 THEN born[k] + 1 ELSE pvc[k]]
    /\ oldest' # oldest
    /\ UNCHANGED <<pvc, born, queueVars, pvcStates, retention, client, exported, w, cfg,
                   bootVars>>

TimerFires(k) ==
    /\ k \in timers
    /\ timers' = timers \ {k}
    /\ queue' = queue \cup {k}
    /\ UNCHANGED <<clusterVars, pvcStates, retention, client, exported, w, cfg, bootVars>>

-----------------------------------------------------------------------------
\* The worker: one call of Reconcile.

Dequeue(k) ==
    /\ phase = "running"
    /\ w.pc = "idle"
    /\ k \in queue
    /\ queue' = queue \ {k}
    /\ UNCHANGED <<clusterVars, pvcStates, retention, client, exported, cfg, bootVars>>

\* r.Get fails for another reason than NotFound: retried with backoff.
GetFails(k) ==
    /\ Dequeue(k)
    /\ timers' = timers \cup {k}
    /\ UNCHANGED w

GetFound(k) ==
    /\ Dequeue(k)
    /\ pvc[k] # 0
    /\ w' = [w EXCEPT !.pc = "ensure", !.key = k, !.uid = pvc[k]]
    /\ UNCHANGED timers

GetNotFound(k) ==
    /\ Dequeue(k)
    /\ pvc[k] = 0
    /\ w' = [w EXCEPT !.pc = "delete", !.key = k]
    /\ UNCHANGED timers

\* Mutant: return after the map entry is gone.
DeleteStateOnly ==
    /\ w.pc = "delete"
    /\ MuFree
    /\ pvcStates' = Without(pvcStates, w.key)
    /\ w' = IdleWorker
    /\ UNCHANGED <<clusterVars, queueVars, retention, client, exported, cfg, bootVars>>

\* deleteState, under r.mu.
DeleteState ==
    /\ w.pc = "delete"
    /\ MuFree
    /\ pvcStates' = Without(pvcStates, w.key)
    /\ w' = IF w.key \in DOMAIN pvcStates THEN [w EXCEPT !.pc = "series"] ELSE IdleWorker
    /\ UNCHANGED <<clusterVars, queueVars, retention, client, exported, cfg, bootVars>>

\* deleteState, after r.mu is released.
DeleteSeries ==
    /\ w.pc = "series"
    /\ exported' = exported \ {w.key}
    /\ w' = IdleWorker
    /\ UNCHANGED <<clusterVars, queueVars, pvcStates, retention, client, cfg, bootVars>>

EnsureState ==
    /\ w.pc = "ensure"
    /\ MuFree
    /\ pvcStates' = Ensured(pvcStates, w.key, w.uid, retention)
    /\ w' = [w EXCEPT !.pc = "used"]
    /\ UNCHANGED <<clusterVars, queueVars, retention, client, exported, cfg, bootVars>>

\* Mutant: give up when a query fails, as the comment in Reconcile warns.
QueryFailsGivesUp ==
    /\ w.pc \in {"used", "capacity"}
    /\ w.pc = "used" => MuFree
    /\ w' = IdleWorker
    /\ UNCHANGED <<clusterVars, queueVars, pvcStates, retention, client, exported, cfg,
                   bootVars>>

\* One of GetUsage's two queries fails; the mock client always does.  The
\* error is not returned: Reconcile asks for another round instead.
QueryFails ==
    /\ w.pc \in {"used", "capacity"}
    /\ w.pc = "used" => MuFree
    /\ w' = [w EXCEPT !.pc = "requeue", !.used = NoSample]
    /\ UNCHANGED <<clusterVars, queueVars, pvcStates, retention, client, exported, cfg,
                   bootVars>>

\* What Prometheus has on a key: the usage of any PVC of that name whose
\* series it has not dropped, or no series, which queryInstant turns into a 0
\* for the PVC it was asked for.
UsageNow(k) ==
    {[asked |-> w.uid, uid |-> u] : u \in {w.uid} \cup (oldest[k] .. born[k])}

QueryUsed(s) ==
    /\ w.pc = "used"
    /\ MuFree
    /\ client = "prom"
    /\ s \in UsageNow(w.key)
    /\ w' = [w EXCEPT !.pc = "capacity", !.used = s]
    /\ UNCHANGED <<clusterVars, queueVars, pvcStates, retention, client, exported, cfg,
                   bootVars>>

\* Prometheus's capacity, or the request of the PVC that r.Get returned.
QueryCapacity ==
    /\ w.pc = "capacity"
    /\ w' = [w EXCEPT !.pc = "load"]
    /\ UNCHANGED <<clusterVars, queueVars, pvcStates, retention, client, exported, cfg,
                   bootVars>>

\* state.Buffer is read without r.mu ...
LoadBuffer ==
    /\ w.pc = "load"
    /\ w' = [w EXCEPT !.pc = "push", !.buf = "current"]
    /\ UNCHANGED <<clusterVars, queueVars, pvcStates, retention, client, exported, cfg,
                   bootVars>>

\* ... so the buffer that is pushed to may have been replaced meanwhile.
PushSample ==
    /\ w.pc = "push"
    /\ pvcStates' = IF w.buf = "current"
                    THEN [pvcStates EXCEPT ![w.key] = PushAll(@, <<w.used>>)]
                    ELSE pvcStates
    /\ w' = [w EXCEPT !.pc = "publish", !.buf = "none"]
    /\ UNCHANGED <<clusterVars, queueVars, retention, client, exported, cfg, bootVars>>

\* The gauges, and LastCapacityBytes (without r.mu).
Publish ==
    /\ w.pc = "publish"
    /\ exported' = exported \cup {w.key}
    /\ pvcStates' = [pvcStates EXCEPT ![w.key] = [@ EXCEPT !.capKnown = TRUE]]
    /\ w' = [w EXCEPT !.pc = "requeue", !.used = NoSample]
    /\ UNCHANGED <<clusterVars, queueVars, retention, client, cfg, bootVars>>

\* RequeueAfter: r.getSampleInterval(), then the controller sets the timer.
Requeue ==
    /\ w.pc = "requeue"
    /\ MuFree
    /\ timers' = timers \cup {w.key}
    /\ w' = IdleWorker
    /\ UNCHANGED <<clusterVars, queue, pvcStates, retention, client, exported, cfg, bootVars>>

-----------------------------------------------------------------------------
\* Configure, called by the plan reconciler; it holds r.mu until it is done.

\* Mutant: no default for a retention below 1.
ConfiguredAsIs(n) == n

Configured(n) == IF n < 1 THEN DefaultRetention ELSE n

Configure(n, mc) ==
    /\ phase = "running"
    /\ MuFree
    /\ client' = mc
    /\ retention' = Configured(n)
    /\ cfg' = IF Configured(n) = retention \/ DOMAIN pvcStates = {} THEN IdleConfigure
              ELSE [cfg EXCEPT !.pc = "copy", !.todo = DOMAIN pvcStates]
    /\ UNCHANGED <<clusterVars, queueVars, pvcStates, exported, w, bootVars>>

CopyBuffer(k) ==
    /\ cfg.pc = "copy"
    /\ k \in cfg.todo
    /\ cfg' = [cfg EXCEPT !.pc = "install", !.key = k,
                          !.copy = Newest(pvcStates[k].window, retention)]
    /\ UNCHANGED <<clusterVars, queueVars, pvcStates, retention, client, exported, w, bootVars>>

Resized(st, copy, n) == [uid |-> st.uid, window |-> copy, capacity |-> n,
                         capKnown |-> st.capKnown]

InstallBuffer ==
    /\ cfg.pc = "install"
    /\ pvcStates' = [pvcStates EXCEPT ![cfg.key] = Resized(@, cfg.copy, retention)]
    /\ w' = IF w.key = cfg.key /\ w.buf = "current" THEN [w EXCEPT !.buf = "replaced"] ELSE w
    /\ cfg' = IF cfg.todo = {cfg.key} THEN IdleConfigure
              ELSE [cfg EXCEPT !.pc = "copy", !.todo = @ \ {cfg.key}, !.key = NoKey,
                               !.copy = <<>>]
    /\ UNCHANGED <<clusterVars, queueVars, retention, client, exported, bootVars>>

-----------------------------------------------------------------------------
ClusterStep == \E k \in Keys : CreatePVC(k) \/ DeletePVC(k) \/ UpdatePVC(k) \/ SeriesExpire(k)

StartupStep ==
    \/ BackfillListFails
    \/ BackfillList
    \/ \E k \in Keys, u \in UID : BackfillOne(k, u)
    \/ BackfillDone

\* The rest of Reconcile, once the PVC was looked up.
ReconcileStep ==
    \/ DeleteState \/ DeleteSeries \/ EnsureState \/ QueryFails
    \/ \E s \in Sample : QueryUsed(s)
    \/ QueryCapacity \/ LoadBuffer \/ PushSample \/ Publish \/ Requeue

ConfigureStep == (\E k \in Keys : CopyBuffer(k)) \/ InstallBuffer

WatcherStep ==
    \/ \E k \in Keys : TimerFires(k) \/ GetFails(k) \/ GetFound(k) \/ GetNotFound(k)
    \/ ReconcileStep
    \/ ConfigureStep

Next ==
    \/ ClusterStep
    \/ Restart
    \/ StartupStep
    \/ WatcherStep
    \/ \E n \in Retentions, mc \in {StartupClient, "prom"} : Configure(n, mc)

Spec == Init /\ [][Next]_vars

-----------------------------------------------------------------------------
Worker ==
    [pc : {"idle", "delete", "series", "ensure", "used", "capacity", "load", "push",
           "publish", "requeue"},
     key : Keys \cup {NoKey}, uid : 0 .. MaxUID, used : Sample \cup {NoSample},
     buf : {"none", "current", "replaced"}]

Configuration ==
    [pc : {"idle", "copy", "install"}, todo : SUBSET Keys, key : Keys \cup {NoKey},
     copy : Seq(Sample)]

TypeOK ==
    /\ pvc \in [Keys -> 0 .. MaxUID] /\ born \in [Keys -> 0 .. MaxUID]
    /\ \A k \in Keys : pvc[k] \in {0, born[k]} /\ oldest[k] \in 1 .. born[k] + 1
    /\ DOMAIN oldest = Keys
    /\ queue \subseteq Keys /\ timers \subseteq Keys /\ exported \subseteq Keys
    /\ DOMAIN pvcStates \subseteq Keys
    /\ \A k \in DOMAIN pvcStates : pvcStates[k] \in PVCState
    /\ retention \in Nat \ {0}
    /\ client \in {"mock", "prom"}
    /\ w \in Worker
    /\ cfg \in Configuration
    /\ phase \in {"list", "backfill", "running"}
    /\ listed \subseteq Keys \X UID
    /\ restarts \in 0 .. MaxRestarts

\* "Keep polling even on transient metrics failures; otherwise sampling can
\* stall indefinitely": whatever failed, and however PVCs come and go, a PVC
\* that exists and a key whose series are exported will be reconciled again.
NeverForgotten ==
    phase = "running" =>
        \A k \in Keys : pvc[k] # 0 \/ k \in exported =>
            k \in queue \cup timers \cup {w.key}

\* deleteState leaves no series of a PVC it has forgotten: series without a
\* state exist only between its two halves.
ExportedTracked ==
    \A k \in exported : k \in DOMAIN pvcStates \/ (w.pc = "series" /\ w.key = k)

\* "Existing buffers are resized to honor the new retention": no buffer is
\* ever over its capacity, and outside Configure every capacity is the
\* configured one, buffers created while a Configure was waiting included.
BuffersHonourRetention ==
    \A k \in DOMAIN pvcStates :
        /\ Len(pvcStates[k].window) <= pvcStates[k].capacity
        /\ k \notin cfg.todo => pvcStates[k].capacity = retention

\* ensureState's reset keeps the PVCs of one name apart: whatever Prometheus
\* answers, and however the worker's unlocked reads and pushes interleave with
\* a Configure that replaces the buffers, the buffer of a PVC, and the copy
\* that is about to replace it, hold only samples asked for on behalf of that
\* very PVC; nothing asked for its predecessor lives on.
HistoryIsOwn ==
    \A k \in DOMAIN pvcStates :
        /\ \A i \in 1 .. Len(pvcStates[k].window) :
              pvcStates[k].window[i].asked = pvcStates[k].uid
        /\ cfg.key = k =>
              \A i \in 1 .. Len(cfg.copy) : cfg.copy[i].asked = pvcStates[k].uid

\* Sampling does not stall: a PVC that stays is queried again and again,
\* through failed queries, its own re-creation and the plan's Configure.
PollingContinues ==
    \A k \in Keys : <>[](pvc[k] # 0) => []<>(w.key = k /\ w.pc = "used")

\* The series of a PVC that is deleted, and not created again, go away.
SeriesCleanedUp ==
    \A k \in Keys : (pvc[k] = 0 /\ k \in exported) ~> (pvc[k] # 0 \/ k \notin exported)

\* Every name is served: polled while its PVC exists, cleaned up when it is gone.
NamesServed == PollingContinues /\ SeriesCleanedUp
=============================================================================
