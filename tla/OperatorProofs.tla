--------------------------- MODULE OperatorProofs ---------------------------
(***************************************************************************)
(* Proofs about the watcher, for every set of keys, every bound and every  *)
(* retention, and about the operator, whose two loops together implement   *)
(* the watcher's specification, so that what holds of the watcher holds of *)
(* the operator.  NeverForgotten and ExportedTracked lean on each other:   *)
(* the worker drops a key from all its queues only when the key has no     *)
(* state, which is harmless only because series never outlive the state;   *)
(* and both need to know what the worker holds between two steps           *)
(* (WorkerInv) and which states Configure still has to visit               *)
(* (ConfigureInv).                                                         *)
(***************************************************************************)
EXTENDS Operator, SequenceTheorems, TLAPS

\* What the worker's locals are worth at each of its steps.
WorkerInv ==
    /\ w.pc = "idle" <=> w.key = NoKey
    /\ w.pc = "idle" => w = IdleWorker
    /\ w.pc \in {"ensure", "used", "capacity", "load", "push", "publish"} => w.uid \in UID
    /\ w.pc \in {"used", "capacity", "load", "push", "publish"} => w.key \in DOMAIN pvcStates
    /\ w.pc \in {"capacity", "load", "push"} => w.used \in Sample
    /\ w.pc \in {"delete", "series"} =>
            w.key \in Keys /\ (pvc[w.key] # 0 => w.key \in queue \cup timers)
    /\ phase # "running" => w.pc = "idle" /\ cfg.pc = "idle" /\ exported = {}

\* In particular a PVC that the worker found deleted, and that has come back
\* since, is queued again; and nothing is exported before mgr.Start.

\* What Configure's locals are worth while it holds r.mu.
ConfigureInv ==
    /\ cfg.todo \subseteq DOMAIN pvcStates
    /\ cfg.pc = "idle" => cfg = IdleConfigure
    /\ cfg.pc = "install" => cfg.key \in cfg.todo /\ Len(cfg.copy) <= retention

WatcherInv ==
    /\ TypeOK
    /\ WorkerInv
    /\ ConfigureInv
    /\ ExportedTracked
    /\ NeverForgotten
    /\ BuffersHonourRetention

-----------------------------------------------------------------------------
\* The operators on states.

\* A suffix of a sequence of samples is a sequence of samples.
LEMMA NewestType ==
    ASSUME NEW S, NEW s \in Seq(S), NEW n \in Nat \ {0}
    PROVE  Newest(s, n) \in Seq(S) /\ Len(Newest(s, n)) <= n
BY DEF Newest

\* Outside Configure, ensureState leaves every state well typed and every
\* buffer within the retention.
LEMMA EnsuredBuffers ==
    ASSUME TypeOK, BuffersHonourRetention, cfg.todo = {}, NEW k \in Keys, NEW uid \in UID
    PROVE  /\ DOMAIN Ensured(pvcStates, k, uid, retention) = DOMAIN pvcStates \cup {k}
           /\ \A x \in DOMAIN pvcStates \cup {k} :
                /\ Ensured(pvcStates, k, uid, retention)[x] \in PVCState
                /\ Ensured(pvcStates, k, uid, retention)[x].capacity = retention
                /\ Len(Ensured(pvcStates, k, uid, retention)[x].window) <= retention
<1> DEFINE e == Ensured(pvcStates, k, uid, retention)
           fresh == NewPVCState(uid, retention)
           reset == ResetFor(pvcStates[k], uid)
<1>1. /\ \A x \in DOMAIN pvcStates : pvcStates[x] \in PVCState
      /\ retention \in Nat \ {0}
    BY DEF TypeOK
<1>2. fresh \in PVCState /\ fresh.capacity = retention /\ Len(fresh.window) <= retention
    BY <1>1, BoundsAssumption DEF NewPVCState, PVCState
<1>3. \A x \in DOMAIN pvcStates : /\ pvcStates[x].capacity = retention
                                  /\ Len(pvcStates[x].window) <= retention
    BY DEF BuffersHonourRetention
<1>4. k \in DOMAIN pvcStates => /\ reset \in PVCState /\ reset.capacity = retention
                               /\ Len(reset.window) <= retention
    BY <1>1, <1>3 DEF PVCState, ResetFor
<1>5. /\ DOMAIN e = DOMAIN pvcStates \cup {k}
      /\ \A x \in DOMAIN e :
            e[x] = IF x # k THEN pvcStates[x]
                   ELSE IF k \notin DOMAIN pvcStates THEN fresh
                   ELSE IF pvcStates[k].uid # uid THEN reset ELSE pvcStates[k]
    BY DEF Ensured
<1> HIDE DEF e, fresh, reset
<1>6. \A x \in DOMAIN e : /\ e[x] \in PVCState /\ e[x].capacity = retention
                          /\ Len(e[x].window) <= retention
    BY <1>1, <1>2, <1>3, <1>4, <1>5
<1>7. QED
    BY <1>5, <1>6 DEF e

\* Pushing samples keeps a state a state, within its capacity.
LEMMA PushAllType ==
    ASSUME NEW st \in PVCState, NEW h \in Seq(Sample)
    PROVE  /\ PushAll(st, h) \in PVCState
           /\ PushAll(st, h).capacity = st.capacity
           /\ Len(PushAll(st, h).window) <= st.capacity
<1>1. st.window \in Seq(Sample) /\ st.capacity \in Nat \ {0}
    BY DEF PVCState
<1>2. st.window \o h \in Seq(Sample)
    BY <1>1, ConcatProperties
<1> DEFINE win == Newest(st.window \o h, st.capacity)
<1>3. win \in Seq(Sample) /\ Len(win) <= st.capacity
    BY <1>1, <1>2, NewestType
<1>4. PushAll(st, h) = [st EXCEPT !.window = win]
    BY DEF PushAll
<1> HIDE DEF win
<1>5. QED
    BY <1>3, <1>4 DEF PVCState

\* main() starts the watcher in a state of the invariant.
LEMMA WatcherInvInit == Init => WatcherInv
<1> SUFFICES ASSUME Init PROVE WatcherInv
    OBVIOUS
<1> USE DEF Init, IdleWorker, IdleConfigure, NoStates
<1>1. DOMAIN pvcStates = {}
    OBVIOUS
<1>2. TypeOK
    BY <1>1, KeysAssumption, BoundsAssumption, RetentionAssumption, ClientAssumption
       DEF TypeOK, Worker, Configuration, Queued
<1>3. WorkerInv
    BY KeysAssumption DEF WorkerInv
<1>4. ConfigureInv
    BY DEF ConfigureInv
<1>5. ExportedTracked
    BY DEF ExportedTracked
<1>6. NeverForgotten
    BY DEF NeverForgotten, Queued
<1>7. BuffersHonourRetention
    BY <1>1 DEF BuffersHonourRetention
<1>8. QED
    BY <1>2, <1>3, <1>4, <1>5, <1>6, <1>7 DEF WatcherInv

-----------------------------------------------------------------------------
\* The step.

\* A crash leaves nothing in memory that could break the invariant.
LEMMA RestartKeeps ==
    ASSUME WatcherInv, Restart
    PROVE  WatcherInv'
<1> USE DEF WatcherInv
<1>1. TypeOK'
    BY KeysAssumption, BoundsAssumption, RetentionAssumption, ClientAssumption DEF Restart,
       Boot, Queued, IdleWorker, IdleConfigure, NoStates, TypeOK, clusterVars, queueVars, bootVars, WorkerInv, Worker, Configuration
<1>2. WorkerInv'
    BY DEF Restart, Boot, Queued, IdleWorker, IdleConfigure, NoStates, WorkerInv
<1>3. ConfigureInv'
    BY DEF Restart, Boot, Queued, IdleWorker, IdleConfigure, NoStates, ConfigureInv
<1>4. ExportedTracked'
    BY DEF Restart, Boot, Queued, IdleWorker, IdleConfigure, NoStates, ExportedTracked
<1>5. NeverForgotten'
    BY DEF Restart, Boot, Queued, IdleWorker, IdleConfigure, NoStates, NeverForgotten,
       clusterVars, queueVars, bootVars
<1>6. BuffersHonourRetention'
    BY DEF Restart, Boot, Queued, IdleWorker, IdleConfigure, NoStates, BuffersHonourRetention
<1>7. QED
    BY <1>1, <1>2, <1>3, <1>4, <1>5, <1>6

\* A failed list only starts the manager, which queues every PVC.
LEMMA BackfillListFailsKeeps ==
    ASSUME WatcherInv, BackfillListFails
    PROVE  WatcherInv'
<1> USE DEF WatcherInv
<1>1. TypeOK'
    BY DEF BackfillListFails, StartManager, Queued, MuFree, TypeOK, clusterVars, queueVars,
       bootVars
<1>2. WorkerInv'
    BY DEF BackfillListFails, StartManager, Queued, MuFree, WorkerInv
<1>3. ConfigureInv'
    BY DEF BackfillListFails, StartManager, Queued, MuFree, ConfigureInv
<1>4. ExportedTracked'
    BY DEF BackfillListFails, StartManager, Queued, MuFree, ExportedTracked
<1>5. NeverForgotten'
    BY DEF BackfillListFails, StartManager, Queued, MuFree, NeverForgotten, clusterVars,
       queueVars, bootVars, TypeOK, WorkerInv
<1>6. BuffersHonourRetention'
    BY DEF BackfillListFails, StartManager, Queued, MuFree, BuffersHonourRetention
<1>7. QED
    BY <1>1, <1>2, <1>3, <1>4, <1>5, <1>6

\* Listing for the backfill changes no state of the watcher.
LEMMA BackfillListKeeps ==
    ASSUME WatcherInv, BackfillList
    PROVE  WatcherInv'
<1> USE DEF WatcherInv
<1>1. TypeOK'
    <2>1. \A k \in Queued(pvc) : k \in Keys /\ pvc[k] \in UID
        BY BoundsAssumption DEF Queued, TypeOK, UID
    <2>2. listed' \subseteq Keys \X UID
        BY <2>1 DEF BackfillList
    <2>3. QED
        BY <2>2 DEF BackfillList, clusterVars, queueVars, TypeOK
<1>2. WorkerInv'
    BY DEF BackfillList, Queued, WorkerInv
<1>3. ConfigureInv'
    BY DEF BackfillList, Queued, ConfigureInv
<1>4. ExportedTracked'
    BY DEF BackfillList, Queued, ExportedTracked
<1>5. NeverForgotten'
    BY DEF BackfillList, Queued, NeverForgotten
<1>6. BuffersHonourRetention'
    BY DEF BackfillList, Queued, BuffersHonourRetention
<1>7. QED
    BY <1>1, <1>2, <1>3, <1>4, <1>5, <1>6

\* A history is a sequence of samples, asked for by the PVC it is queried for.
LEMMA HistoriesType ==
    ASSUME TypeOK, NEW k \in Keys, NEW u \in UID, NEW h \in Histories(k, u)
    PROVE  h \in Seq(Sample) /\ \A i \in 1 .. Len(h) : h[i].asked = u
<1> DEFINE S == {[asked |-> u, uid |-> x] : x \in 1 .. born[k]}
<1>1. born[k] \in 0 .. MaxUID /\ MaxUID \in Nat /\ MaxPoints \in Nat
    BY BoundsAssumption DEF TypeOK
<1>2. \A x \in 1 .. born[k] : x \in UID
    BY <1>1 DEF UID
<1>3. S \subseteq Sample /\ \A x \in S : x.asked = u
    BY <1>2 DEF Sample
<1>4. PICK n \in 0 .. MaxPoints : h \in [1 .. n -> S]
    BY DEF Histories
<1> HIDE DEF S
<1>5. n \in Nat
    BY <1>1
<1>6. h \in Seq(S)
    BY <1>4, <1>5
<1>7. \A i \in 1 .. Len(h) : h[i] \in S
    BY <1>6
<1>8. h \in [1 .. n -> Sample]
    BY <1>3, <1>4
<1>9. h \in Seq(Sample)
    BY <1>5, <1>8
<1>10. QED
    BY <1>3, <1>7, <1>9

\* BackfillFromRange keeps windows within their capacity.
LEMMA BackfillOneKeeps ==
    ASSUME WatcherInv, NEW k \in Keys, NEW u \in UID, BackfillOne(k, u)
    PROVE  WatcherInv'
<1> USE DEF WatcherInv
<1> DEFINE e == Ensured(pvcStates, k, u, retention)
<1>a. cfg.todo = {} /\ phase = "backfill" /\ exported = {}
    BY DEF BackfillOne, WorkerInv, ConfigureInv, IdleConfigure
<1>b. /\ DOMAIN e = DOMAIN pvcStates \cup {k}
      /\ \A x \in DOMAIN e : /\ e[x] \in PVCState /\ e[x].capacity = retention
                              /\ Len(e[x].window) <= retention
    BY <1>a, EnsuredBuffers
<1>c. ASSUME NEW h \in Histories(k, u) PROVE h \in Seq(Sample)
    BY <1>c, HistoriesType
<1>d. /\ DOMAIN pvcStates' = DOMAIN pvcStates \cup {k}
      /\ \A x \in DOMAIN pvcStates' :
            /\ pvcStates'[x] \in PVCState /\ pvcStates'[x].capacity = retention
            /\ Len(pvcStates'[x].window) <= retention
    <2> HIDE DEF e
    <2>1. CASE pvcStates' = e
        BY <2>1, <1>b
    <2>2. ASSUME NEW h \in Histories(k, u), pvcStates' = [e EXCEPT ![k] = PushAll(@, h)]
          PROVE  /\ DOMAIN pvcStates' = DOMAIN pvcStates \cup {k}
                 /\ \A x \in DOMAIN pvcStates' :
                       /\ pvcStates'[x] \in PVCState /\ pvcStates'[x].capacity = retention
                       /\ Len(pvcStates'[x].window) <= retention
        <3>1. /\ PushAll(e[k], h) \in PVCState /\ PushAll(e[k], h).capacity = e[k].capacity
              /\ Len(PushAll(e[k], h).window) <= e[k].capacity
            BY <1>b, <1>c, PushAllType
        <3>2. QED
            BY <2>2, <3>1, <1>b
    <2>3. QED
        BY <2>1, <2>2 DEF BackfillOne, e
<1>1. TypeOK'
    BY <1>d
       DEF BackfillOne, vars, clusterVars, queueVars, bootVars, TypeOK, Worker, WorkerInv
<1>2. WorkerInv'
    BY <1>a, <1>d
       DEF BackfillOne, vars, clusterVars, queueVars, bootVars, TypeOK, Worker, WorkerInv
<1>3. ConfigureInv'
    BY <1>a, <1>d
       DEF BackfillOne, ConfigureInv, vars, clusterVars, queueVars, bootVars, TypeOK, Worker, WorkerInv
<1>4. ExportedTracked'
    BY <1>a
       DEF BackfillOne, ExportedTracked, vars, clusterVars, queueVars, bootVars, TypeOK, Worker, WorkerInv
<1>5. NeverForgotten'
    BY DEF BackfillOne, NeverForgotten
<1>6. BuffersHonourRetention'
    BY <1>a, <1>d
       DEF BackfillOne, BuffersHonourRetention, vars, clusterVars, queueVars, bootVars, TypeOK, Worker, WorkerInv
<1>7. QED
    BY <1>1, <1>2, <1>3, <1>4, <1>5, <1>6

\* Starting the manager queues every PVC that exists.
LEMMA BackfillDoneKeeps ==
    ASSUME WatcherInv, BackfillDone
    PROVE  WatcherInv'
<1> USE DEF WatcherInv
<1>1. TypeOK'
    BY DEF BackfillDone, StartManager, Queued, TypeOK, clusterVars, queueVars, bootVars
<1>2. WorkerInv'
    BY DEF BackfillDone, StartManager, Queued, WorkerInv
<1>3. ConfigureInv'
    BY DEF BackfillDone, StartManager, Queued, ConfigureInv
<1>4. ExportedTracked'
    BY DEF BackfillDone, StartManager, Queued, ExportedTracked
<1>5. NeverForgotten'
    BY DEF BackfillDone, StartManager, Queued, NeverForgotten, clusterVars, queueVars,
       bootVars, TypeOK, WorkerInv
<1>6. BuffersHonourRetention'
    BY DEF BackfillDone, StartManager, Queued, BuffersHonourRetention
<1>7. QED
    BY <1>1, <1>2, <1>3, <1>4, <1>5, <1>6

\* A creation queues its key, once the manager runs.
LEMMA CreatePVCKeeps ==
    ASSUME WatcherInv, NEW k \in Keys, CreatePVC(k)
    PROVE  WatcherInv'
<1> USE DEF WatcherInv
<1>1. TypeOK'
    BY BoundsAssumption DEF CreatePVC, EventFor, TypeOK, clusterVars, queueVars, bootVars,
       WorkerInv
<1>2. WorkerInv'
    BY DEF CreatePVC, EventFor, WorkerInv, clusterVars, queueVars, bootVars
<1>3. ConfigureInv'
    BY DEF CreatePVC, EventFor, ConfigureInv
<1>4. ExportedTracked'
    BY DEF CreatePVC, EventFor, ExportedTracked
<1>5. NeverForgotten'
    BY DEF CreatePVC, EventFor, NeverForgotten, clusterVars, queueVars, bootVars
<1>6. BuffersHonourRetention'
    BY DEF CreatePVC, EventFor, BuffersHonourRetention
<1>7. QED
    BY <1>1, <1>2, <1>3, <1>4, <1>5, <1>6

\* A deletion queues its key, once the manager runs.
LEMMA DeletePVCKeeps ==
    ASSUME WatcherInv, NEW k \in Keys, DeletePVC(k)
    PROVE  WatcherInv'
<1> USE DEF WatcherInv
<1>1. TypeOK'
    BY BoundsAssumption DEF DeletePVC, EventFor, TypeOK, clusterVars, queueVars, bootVars,
       WorkerInv
<1>2. WorkerInv'
    BY DEF DeletePVC, EventFor, WorkerInv, clusterVars, queueVars, bootVars
<1>3. ConfigureInv'
    BY DEF DeletePVC, EventFor, ConfigureInv
<1>4. ExportedTracked'
    BY DEF DeletePVC, EventFor, ExportedTracked
<1>5. NeverForgotten'
    BY DEF DeletePVC, EventFor, NeverForgotten, clusterVars, queueVars, bootVars
<1>6. BuffersHonourRetention'
    BY DEF DeletePVC, EventFor, BuffersHonourRetention
<1>7. QED
    BY <1>1, <1>2, <1>3, <1>4, <1>5, <1>6

\* When Prometheus drops series, nothing of the operator changes.
LEMMA SeriesExpireKeeps ==
    ASSUME WatcherInv, NEW k \in Keys, SeriesExpire(k)
    PROVE  WatcherInv'
<1> USE DEF WatcherInv
<1>1. TypeOK'
    <2>1. \A x \in Keys : born[x] \in Nat /\ pvc[x] \in {0, born[x]} /\ oldest[x] \in 1 .. born[x] + 1
        BY BoundsAssumption DEF TypeOK
    <2>2. DOMAIN oldest' = Keys /\ \A x \in Keys : oldest'[x] \in 1 .. born[x] + 1
        BY <2>1 DEF SeriesExpire, TypeOK
    <2>3. QED
        BY <2>2 DEF SeriesExpire, TypeOK, queueVars, bootVars
<1>2. WorkerInv'
    BY DEF SeriesExpire, WorkerInv, queueVars, bootVars
<1>3. ConfigureInv'
    BY DEF SeriesExpire, ConfigureInv
<1>4. ExportedTracked'
    BY DEF SeriesExpire, ExportedTracked
<1>5. NeverForgotten'
    BY DEF SeriesExpire, NeverForgotten, queueVars, bootVars
<1>6. BuffersHonourRetention'
    BY DEF SeriesExpire, BuffersHonourRetention
<1>7. QED
    BY <1>1, <1>2, <1>3, <1>4, <1>5, <1>6

\* An update or a resync only adds to the queue.
LEMMA UpdatePVCKeeps ==
    ASSUME WatcherInv, NEW k \in Keys, UpdatePVC(k)
    PROVE  WatcherInv'
<1> USE DEF WatcherInv
<1>1. TypeOK'
    BY DEF UpdatePVC, EventFor, TypeOK, clusterVars, queueVars, bootVars
<1>2. WorkerInv'
    BY DEF UpdatePVC, EventFor, WorkerInv, clusterVars, queueVars, bootVars
<1>3. ConfigureInv'
    BY DEF UpdatePVC, EventFor, ConfigureInv
<1>4. ExportedTracked'
    BY DEF UpdatePVC, EventFor, ExportedTracked
<1>5. NeverForgotten'
    BY DEF UpdatePVC, EventFor, NeverForgotten, clusterVars, queueVars, bootVars
<1>6. BuffersHonourRetention'
    BY DEF UpdatePVC, EventFor, BuffersHonourRetention
<1>7. QED
    BY <1>1, <1>2, <1>3, <1>4, <1>5, <1>6

\* A key moves from the timers to the queue and is not lost.
LEMMA TimerFiresKeeps ==
    ASSUME WatcherInv, NEW k \in Keys, TimerFires(k)
    PROVE  WatcherInv'
<1> USE DEF WatcherInv
<1>1. TypeOK'
    BY DEF TimerFires, TypeOK, clusterVars, queueVars, bootVars
<1>2. WorkerInv'
    BY DEF TimerFires, WorkerInv, clusterVars, queueVars, bootVars
<1>3. ConfigureInv'
    BY DEF TimerFires, ConfigureInv
<1>4. ExportedTracked'
    BY DEF TimerFires, ExportedTracked
<1>5. NeverForgotten'
    BY DEF TimerFires, NeverForgotten, clusterVars, queueVars, bootVars
<1>6. BuffersHonourRetention'
    BY DEF TimerFires, BuffersHonourRetention
<1>7. QED
    BY <1>1, <1>2, <1>3, <1>4, <1>5, <1>6

\* A failed read moves the key from the queue to the timers.
LEMMA GetFailsKeeps ==
    ASSUME WatcherInv, NEW k \in Keys, GetFails(k)
    PROVE  WatcherInv'
<1> USE DEF WatcherInv
<1>1. TypeOK'
    BY DEF GetFails, Dequeue, TypeOK, clusterVars, queueVars, bootVars
<1>2. WorkerInv'
    BY DEF GetFails, Dequeue, WorkerInv, clusterVars, queueVars, bootVars
<1>3. ConfigureInv'
    BY DEF GetFails, Dequeue, ConfigureInv
<1>4. ExportedTracked'
    BY DEF GetFails, Dequeue, ExportedTracked
<1>5. NeverForgotten'
    BY DEF GetFails, Dequeue, NeverForgotten, clusterVars, queueVars, bootVars
<1>6. BuffersHonourRetention'
    BY DEF GetFails, Dequeue, BuffersHonourRetention
<1>7. QED
    BY <1>1, <1>2, <1>3, <1>4, <1>5, <1>6

\* The key moves from the queue to the worker.
LEMMA GetFoundKeeps ==
    ASSUME WatcherInv, NEW k \in Keys, GetFound(k)
    PROVE  WatcherInv'
<1> USE DEF WatcherInv
<1>1. TypeOK'
    BY DEF GetFound, Dequeue, IdleWorker, TypeOK, clusterVars, queueVars, bootVars, Worker,
       Configuration
<1>2. WorkerInv'
    <2>1. pvc[k] \in UID /\ k # NoKey
        BY KeysAssumption, BoundsAssumption DEF GetFound, TypeOK, UID
    <2>2. /\ w'.pc = "ensure" /\ w'.key = k /\ w'.uid = pvc[k]
        BY DEF GetFound, TypeOK
    <2>3. phase' = "running"
        BY DEF GetFound, Dequeue, bootVars
    <2>4. QED
        BY <2>1, <2>2, <2>3 DEF WorkerInv
<1>3. ConfigureInv'
    BY DEF GetFound, Dequeue, IdleWorker, ConfigureInv
<1>4. ExportedTracked'
    BY DEF GetFound, Dequeue, IdleWorker, ExportedTracked
<1>5. NeverForgotten'
    BY KeysAssumption DEF GetFound, Dequeue, IdleWorker, NeverForgotten, clusterVars,
       queueVars, bootVars, TypeOK, WorkerInv
<1>6. BuffersHonourRetention'
    BY DEF GetFound, Dequeue, IdleWorker, BuffersHonourRetention
<1>7. QED
    BY <1>1, <1>2, <1>3, <1>4, <1>5, <1>6

\* The key of a PVC that is gone moves to the worker.
LEMMA GetNotFoundKeeps ==
    ASSUME WatcherInv, NEW k \in Keys, GetNotFound(k)
    PROVE  WatcherInv'
<1> USE DEF WatcherInv
<1>1. TypeOK'
    BY DEF GetNotFound, Dequeue, IdleWorker, TypeOK, clusterVars, queueVars, bootVars, Worker,
       Configuration
<1>2. WorkerInv'
    BY KeysAssumption DEF GetNotFound, Dequeue, IdleWorker, WorkerInv, clusterVars, queueVars,
       bootVars, TypeOK, Worker
<1>3. ConfigureInv'
    BY DEF GetNotFound, Dequeue, IdleWorker, ConfigureInv
<1>4. ExportedTracked'
    BY DEF GetNotFound, Dequeue, IdleWorker, ExportedTracked
<1>5. NeverForgotten'
    BY KeysAssumption DEF GetNotFound, Dequeue, IdleWorker, NeverForgotten, clusterVars,
       queueVars, bootVars, TypeOK, WorkerInv
<1>6. BuffersHonourRetention'
    BY DEF GetNotFound, Dequeue, IdleWorker, BuffersHonourRetention
<1>7. QED
    BY <1>1, <1>2, <1>3, <1>4, <1>5, <1>6

\* deleteState drops the state; the series follow, or there were none.
LEMMA DeleteStateKeeps ==
    ASSUME WatcherInv, DeleteState
    PROVE  WatcherInv'
<1> USE DEF WatcherInv
<1>1. TypeOK'
    <2>1. /\ DOMAIN pvcStates' = DOMAIN pvcStates \ {w.key}
          /\ \A x \in DOMAIN pvcStates' : pvcStates'[x] = pvcStates[x]
        BY DEF DeleteState, Without
    <2>2. IdleWorker \in Worker
        BY BoundsAssumption DEF IdleWorker, Worker
    <2>3. w' \in Worker
        BY <2>2 DEF DeleteState, Worker, TypeOK
    <2>4. QED
        BY <2>1, <2>3 DEF DeleteState, clusterVars, queueVars, bootVars, TypeOK
<1>2. WorkerInv'
    BY DEF DeleteState, Without, MuFree, IdleWorker, IdleConfigure, WorkerInv, clusterVars,
       queueVars, bootVars
<1>3. ConfigureInv'
    BY DEF DeleteState, Without, MuFree, IdleWorker, IdleConfigure, ConfigureInv
<1>4. ExportedTracked'
    BY DEF DeleteState, Without, MuFree, IdleWorker, IdleConfigure, ExportedTracked
<1>5. NeverForgotten'
    <2>1. w.pc = "delete" /\ exported' = exported /\ pvc' = pvc /\ UNCHANGED <<queueVars, bootVars>>
        BY DEF DeleteState, clusterVars
    <2>2. CASE w.key \in DOMAIN pvcStates
        BY <2>1, <2>2 DEF DeleteState, NeverForgotten, TypeOK, queueVars, bootVars
    <2>3. CASE w.key \notin DOMAIN pvcStates
        <3>1. w.key \notin exported
            BY <2>1, <2>3 DEF ExportedTracked
        <3>2. QED
            BY <2>1, <3>1 DEF WorkerInv, NeverForgotten, queueVars, bootVars
    <2>4. QED
        BY <2>2, <2>3
<1>6. BuffersHonourRetention'
    BY DEF DeleteState, Without, MuFree, IdleWorker, IdleConfigure, BuffersHonourRetention
<1>7. QED
    BY <1>1, <1>2, <1>3, <1>4, <1>5, <1>6

\* With the series gone, the key may be forgotten.
LEMMA DeleteSeriesKeeps ==
    ASSUME WatcherInv, DeleteSeries
    PROVE  WatcherInv'
<1> USE DEF WatcherInv
<1>1. TypeOK'
    BY BoundsAssumption, SMTT(40) DEF DeleteSeries, IdleWorker, TypeOK, clusterVars, queueVars,
       bootVars, WorkerInv, Worker, Configuration
<1>2. WorkerInv'
    BY DEF DeleteSeries, IdleWorker, WorkerInv, clusterVars, queueVars, bootVars
<1>3. ConfigureInv'
    BY DEF DeleteSeries, IdleWorker, ConfigureInv
<1>4. ExportedTracked'
    BY DEF DeleteSeries, IdleWorker, ExportedTracked
<1>5. NeverForgotten'
    BY DEF DeleteSeries, IdleWorker, NeverForgotten, clusterVars, queueVars, bootVars, TypeOK,
       WorkerInv
<1>6. BuffersHonourRetention'
    BY DEF DeleteSeries, IdleWorker, BuffersHonourRetention
<1>7. QED
    BY <1>1, <1>2, <1>3, <1>4, <1>5, <1>6

\* ensureState makes buffers of the configured capacity only.
LEMMA EnsureStateKeeps ==
    ASSUME WatcherInv, EnsureState
    PROVE  WatcherInv'
<1> USE DEF WatcherInv
<1> DEFINE e == Ensured(pvcStates, w.key, w.uid, retention)
<1>a. /\ cfg.todo = {} /\ w.pc = "ensure" /\ w.key \in Keys /\ w.uid \in UID
      /\ retention \in Nat \ {0}
    BY DEF EnsureState, MuFree, WorkerInv, ConfigureInv, IdleConfigure, TypeOK, Worker
<1>b. /\ DOMAIN e = DOMAIN pvcStates \cup {w.key}
      /\ \A x \in DOMAIN e : /\ e[x] \in PVCState /\ e[x].capacity = retention
                              /\ Len(e[x].window) <= retention
    BY <1>a, EnsuredBuffers
<1>c. pvcStates' = e /\ w' = [w EXCEPT !.pc = "used"]
    BY DEF EnsureState
<1> HIDE DEF e
<1>1. TypeOK'
    <2>1. DOMAIN pvcStates' \subseteq Keys /\ \A x \in DOMAIN pvcStates' : pvcStates'[x] \in PVCState
        BY <1>a, <1>b, <1>c DEF TypeOK
    <2>2. w' \in Worker
        BY <1>c DEF EnsureState, Worker, TypeOK
    <2>3. QED
        BY <2>1, <2>2 DEF EnsureState, clusterVars, queueVars, bootVars, TypeOK
<1>2. WorkerInv'
    BY <1>a, <1>b, <1>c
       DEF EnsureState, vars, clusterVars, queueVars, bootVars, TypeOK, Worker, WorkerInv
<1>3. ConfigureInv'
    BY <1>a, <1>b, <1>c
       DEF EnsureState, ConfigureInv, vars, clusterVars, queueVars, bootVars, TypeOK, Worker, WorkerInv
<1>4. ExportedTracked'
    BY <1>a, <1>b, <1>c
       DEF EnsureState, ExportedTracked, vars, clusterVars, queueVars, bootVars, TypeOK, Worker, WorkerInv
<1>5. NeverForgotten'
    BY DEF EnsureState, MuFree, IdleConfigure, NeverForgotten, clusterVars, queueVars, bootVars
<1>6. BuffersHonourRetention'
    BY <1>a, <1>b, <1>c
       DEF EnsureState, BuffersHonourRetention, vars, clusterVars, queueVars, bootVars, TypeOK, Worker, WorkerInv
<1>7. QED
    BY <1>1, <1>2, <1>3, <1>4, <1>5, <1>6

\* After a failed query the worker still holds the key.
LEMMA QueryFailsKeeps ==
    ASSUME WatcherInv, QueryFails
    PROVE  WatcherInv'
<1> USE DEF WatcherInv
<1>1. TypeOK'
    BY DEF QueryFails, TypeOK, clusterVars, queueVars, bootVars, Worker, Configuration
<1>2. WorkerInv'
    BY DEF QueryFails, WorkerInv, clusterVars, queueVars, bootVars
<1>3. ConfigureInv'
    BY DEF QueryFails, ConfigureInv
<1>4. ExportedTracked'
    BY DEF QueryFails, ExportedTracked
<1>5. NeverForgotten'
    BY DEF QueryFails, NeverForgotten, clusterVars, queueVars, bootVars
<1>6. BuffersHonourRetention'
    BY DEF QueryFails, BuffersHonourRetention
<1>7. QED
    BY <1>1, <1>2, <1>3, <1>4, <1>5, <1>6

\* The first query of GetUsage changes the worker only.
LEMMA QueryUsedKeeps ==
    ASSUME WatcherInv, NEW s \in Sample, QueryUsed(s)
    PROVE  WatcherInv'
<1> USE DEF WatcherInv
<1>1. TypeOK'
    BY DEF QueryUsed, TypeOK, clusterVars, queueVars, bootVars, Worker, Configuration
<1>2. WorkerInv'
    BY DEF QueryUsed, WorkerInv, clusterVars, queueVars, bootVars
<1>3. ConfigureInv'
    BY DEF QueryUsed, ConfigureInv
<1>4. ExportedTracked'
    BY DEF QueryUsed, ExportedTracked
<1>5. NeverForgotten'
    BY DEF QueryUsed, NeverForgotten, clusterVars, queueVars, bootVars
<1>6. BuffersHonourRetention'
    BY DEF QueryUsed, BuffersHonourRetention
<1>7. QED
    BY <1>1, <1>2, <1>3, <1>4, <1>5, <1>6

\* The second query of GetUsage changes the worker only.
LEMMA QueryCapacityKeeps ==
    ASSUME WatcherInv, QueryCapacity
    PROVE  WatcherInv'
<1> USE DEF WatcherInv
<1>1. TypeOK'
    BY DEF QueryCapacity, clusterVars, queueVars, bootVars, TypeOK, Worker
<1>2. WorkerInv'
    BY DEF QueryCapacity, WorkerInv, clusterVars, queueVars, bootVars
<1>3. ConfigureInv'
    BY DEF QueryCapacity, ConfigureInv
<1>4. ExportedTracked'
    BY DEF QueryCapacity, ExportedTracked
<1>5. NeverForgotten'
    BY DEF QueryCapacity, NeverForgotten, clusterVars, queueVars, bootVars
<1>6. BuffersHonourRetention'
    BY DEF QueryCapacity, BuffersHonourRetention
<1>7. QED
    BY <1>1, <1>2, <1>3, <1>4, <1>5, <1>6

\* Reading state.Buffer changes the worker only.
LEMMA LoadBufferKeeps ==
    ASSUME WatcherInv, LoadBuffer
    PROVE  WatcherInv'
<1> USE DEF WatcherInv
<1>1. TypeOK'
    BY DEF LoadBuffer, TypeOK, clusterVars, queueVars, bootVars, Worker, Configuration
<1>2. WorkerInv'
    BY DEF LoadBuffer, WorkerInv, clusterVars, queueVars, bootVars
<1>3. ConfigureInv'
    BY DEF LoadBuffer, ConfigureInv
<1>4. ExportedTracked'
    BY DEF LoadBuffer, ExportedTracked
<1>5. NeverForgotten'
    BY DEF LoadBuffer, NeverForgotten, clusterVars, queueVars, bootVars
<1>6. BuffersHonourRetention'
    BY DEF LoadBuffer, BuffersHonourRetention
<1>7. QED
    BY <1>1, <1>2, <1>3, <1>4, <1>5, <1>6

\* Push keeps the window within its capacity.
LEMMA PushSampleKeeps ==
    ASSUME WatcherInv, PushSample
    PROVE  WatcherInv'
<1> USE DEF WatcherInv
<1>a. /\ w.key \in DOMAIN pvcStates /\ w.key \in Keys /\ <<w.used>> \in Seq(Sample)
      /\ pvcStates[w.key] \in PVCState
    BY DEF PushSample, WorkerInv, TypeOK, Worker
<1> DEFINE q == PushAll(pvcStates[w.key], <<w.used>>)
<1>b. /\ q \in PVCState /\ q.capacity = pvcStates[w.key].capacity
      /\ Len(q.window) <= q.capacity
    BY <1>a, PushAllType
<1>c. pvcStates' = pvcStates \/ pvcStates' = [pvcStates EXCEPT ![w.key] = q]
    BY DEF PushSample
<1> HIDE DEF q
<1>1. TypeOK'
    <2>1. DOMAIN pvcStates' \subseteq Keys /\ \A x \in DOMAIN pvcStates' : pvcStates'[x] \in PVCState
        BY <1>a, <1>b, <1>c DEF TypeOK
    <2>2. w' \in Worker
        BY <1>a DEF PushSample, Worker, TypeOK
    <2>3. QED
        BY <2>1, <2>2 DEF PushSample, clusterVars, queueVars, bootVars, TypeOK
<1>2. WorkerInv'
    BY <1>a, <1>b, <1>c
       DEF PushSample, vars, clusterVars, queueVars, bootVars, TypeOK, Worker, WorkerInv
<1>3. ConfigureInv'
    BY <1>a, <1>b, <1>c
       DEF PushSample, ConfigureInv, vars, clusterVars, queueVars, bootVars, TypeOK, Worker, WorkerInv
<1>4. ExportedTracked'
    BY <1>a, <1>b, <1>c
       DEF PushSample, ExportedTracked, vars, clusterVars, queueVars, bootVars, TypeOK, Worker, WorkerInv
<1>5. NeverForgotten'
    BY DEF PushSample, NeverForgotten, clusterVars, queueVars, bootVars
<1>6. BuffersHonourRetention'
    BY <1>a, <1>b, <1>c
       DEF PushSample, BuffersHonourRetention, vars, clusterVars, queueVars, bootVars, TypeOK, Worker, WorkerInv
<1>7. QED
    BY <1>1, <1>2, <1>3, <1>4, <1>5, <1>6

\* Series are exported for a key that has a state.
LEMMA PublishKeeps ==
    ASSUME WatcherInv, Publish
    PROVE  WatcherInv'
<1> USE DEF WatcherInv
<1>a. /\ w.key \in DOMAIN pvcStates /\ w.key \in Keys
      /\ pvcStates[w.key] \in PVCState
    BY DEF Publish, WorkerInv, TypeOK, Worker
<1> DEFINE q == [pvcStates[w.key] EXCEPT !.capKnown = TRUE]
<1>b. /\ q \in PVCState /\ q.capacity = pvcStates[w.key].capacity
      /\ q.window = pvcStates[w.key].window
    BY <1>a DEF PVCState
<1>c. pvcStates' = [pvcStates EXCEPT ![w.key] = q]
    BY DEF Publish
<1> HIDE DEF q
<1>1. TypeOK'
    <2>1. DOMAIN pvcStates' \subseteq Keys /\ \A x \in DOMAIN pvcStates' : pvcStates'[x] \in PVCState
        BY <1>a, <1>b, <1>c DEF TypeOK
    <2>2. w' \in Worker
        BY DEF Publish, Worker, TypeOK
    <2>3. exported' \subseteq Keys
        BY <1>a DEF Publish, TypeOK
    <2>4. QED
        BY <2>1, <2>2, <2>3 DEF Publish, clusterVars, queueVars, bootVars, TypeOK
<1>2. WorkerInv'
    BY <1>a, <1>b, <1>c
       DEF Publish, vars, clusterVars, queueVars, bootVars, TypeOK, Worker, WorkerInv
<1>3. ConfigureInv'
    BY <1>a, <1>b, <1>c
       DEF Publish, ConfigureInv, vars, clusterVars, queueVars, bootVars, TypeOK, Worker, WorkerInv
<1>4. ExportedTracked'
    BY <1>a, <1>b, <1>c
       DEF Publish, ExportedTracked, vars, clusterVars, queueVars, bootVars, TypeOK, Worker, WorkerInv
<1>5. NeverForgotten'
    BY DEF Publish, NeverForgotten, clusterVars, queueVars, bootVars
<1>6. BuffersHonourRetention'
    BY <1>a, <1>b, <1>c
       DEF Publish, BuffersHonourRetention, vars, clusterVars, queueVars, bootVars, TypeOK, Worker, WorkerInv
<1>7. QED
    BY <1>1, <1>2, <1>3, <1>4, <1>5, <1>6

\* The key moves from the worker to the timers.
LEMMA RequeueKeeps ==
    ASSUME WatcherInv, Requeue
    PROVE  WatcherInv'
<1> USE DEF WatcherInv
<1>1. TypeOK'
    BY BoundsAssumption, SMTT(40) DEF Requeue, IdleWorker, TypeOK, clusterVars, queueVars, bootVars,
       WorkerInv, Worker, Configuration
<1>2. WorkerInv'
    BY DEF Requeue, IdleWorker, WorkerInv, clusterVars, queueVars, bootVars
<1>3. ConfigureInv'
    BY DEF Requeue, IdleWorker, ConfigureInv
<1>4. ExportedTracked'
    BY DEF Requeue, IdleWorker, ExportedTracked
<1>5. NeverForgotten'
    BY DEF Requeue, IdleWorker, NeverForgotten, clusterVars, queueVars, bootVars
<1>6. BuffersHonourRetention'
    BY DEF Requeue, IdleWorker, BuffersHonourRetention
<1>7. QED
    BY <1>1, <1>2, <1>3, <1>4, <1>5, <1>6

\* A new retention puts every existing buffer on the list of copies.
LEMMA ConfigureKeeps ==
    ASSUME WatcherInv, NEW n \in Retentions, NEW mc \in {StartupClient, "prom"}, Configure(n, mc)
    PROVE  WatcherInv'
<1> USE DEF WatcherInv
<1>a. /\ Configured(n) \in Nat \ {0} /\ mc \in {"mock", "prom"}
    BY RetentionAssumption, ClientAssumption DEF Configured
<1>b. cfg = IdleConfigure /\ cfg.todo = {}
    BY DEF Configure, MuFree, ConfigureInv, IdleConfigure
<1>c. \/ cfg' = IdleConfigure /\ (retention' = retention \/ DOMAIN pvcStates = {})
      \/ cfg' = [cfg EXCEPT !.pc = "copy", !.todo = DOMAIN pvcStates]
    BY DEF Configure
<1>1. TypeOK'
    <2>1. IdleConfigure \in Configuration
        BY KeysAssumption DEF IdleConfigure, Configuration
    <2>2. cfg' \in Configuration
        BY <1>b, <1>c, <2>1 DEF Configuration, TypeOK
    <2>3. QED
        BY <1>a, <2>2 DEF Configure, clusterVars, queueVars, bootVars, TypeOK
<1>2. WorkerInv'
    BY DEF Configure, Configured, MuFree, IdleConfigure, WorkerInv, clusterVars, queueVars,
       bootVars
<1>3. ConfigureInv'
    BY DEF Configure, Configured, MuFree, IdleConfigure, ConfigureInv
<1>4. ExportedTracked'
    BY DEF Configure, Configured, MuFree, IdleConfigure, ExportedTracked
<1>5. NeverForgotten'
    BY DEF Configure, Configured, MuFree, IdleConfigure, NeverForgotten, clusterVars,
       queueVars, bootVars
<1>6. BuffersHonourRetention'
    BY <1>b, <1>c DEF Configure, IdleConfigure, BuffersHonourRetention
<1>7. QED
    BY <1>1, <1>2, <1>3, <1>4, <1>5, <1>6

\* The copy holds at most as many samples as the new retention.
LEMMA CopyBufferKeeps ==
    ASSUME WatcherInv, NEW k \in Keys, CopyBuffer(k)
    PROVE  WatcherInv'
<1> USE DEF WatcherInv
<1> DEFINE c == Newest(pvcStates[k].window, retention)
<1>a. pvcStates[k].window \in Seq(Sample) /\ retention \in Nat \ {0}
    BY DEF CopyBuffer, ConfigureInv, TypeOK, PVCState
<1>b. c \in Seq(Sample) /\ Len(c) <= retention
    BY <1>a, NewestType
<1>c. cfg' = [cfg EXCEPT !.pc = "install", !.key = k, !.copy = c]
    BY DEF CopyBuffer
<1> HIDE DEF c
<1>1. TypeOK'
    BY <1>b, <1>c
       DEF CopyBuffer, vars, clusterVars, queueVars, bootVars, TypeOK, Configuration
<1>2. WorkerInv'
    BY DEF CopyBuffer, WorkerInv, clusterVars, queueVars, bootVars
<1>3. ConfigureInv'
    BY <1>b, <1>c
       DEF CopyBuffer, ConfigureInv, vars, clusterVars, queueVars, bootVars, TypeOK, Configuration
<1>4. ExportedTracked'
    BY DEF CopyBuffer, ExportedTracked
<1>5. NeverForgotten'
    BY DEF CopyBuffer, NeverForgotten, clusterVars, queueVars, bootVars
<1>6. BuffersHonourRetention'
    BY DEF CopyBuffer, BuffersHonourRetention
<1>7. QED
    BY <1>1, <1>2, <1>3, <1>4, <1>5, <1>6

\* A replaced buffer has the configured capacity.
LEMMA InstallBufferKeeps ==
    ASSUME WatcherInv, InstallBuffer
    PROVE  WatcherInv'
<1> USE DEF WatcherInv
<1>a. /\ cfg.pc = "install" /\ cfg.key \in cfg.todo /\ cfg.key \in DOMAIN pvcStates
      /\ cfg.copy \in Seq(Sample) /\ Len(cfg.copy) <= retention /\ retention \in Nat \ {0}
      /\ pvcStates[cfg.key] \in PVCState
    BY DEF InstallBuffer, ConfigureInv, TypeOK, Configuration
<1> DEFINE q == Resized(pvcStates[cfg.key], cfg.copy, retention)
<1>b. q \in PVCState /\ q.capacity = retention /\ q.window = cfg.copy
    BY <1>a DEF PVCState, Resized
<1>c. pvcStates' = [pvcStates EXCEPT ![cfg.key] = q] /\ retention' = retention
    BY DEF InstallBuffer
<1> HIDE DEF q
<1>d. /\ w'.pc = w.pc /\ w'.key = w.key /\ w'.uid = w.uid /\ w'.used = w.used
      /\ w.pc = "idle" => w' = w
    BY DEF InstallBuffer, TypeOK, Worker, WorkerInv, IdleWorker
<1>1. TypeOK'
    <2>1. DOMAIN pvcStates' \subseteq Keys /\ \A x \in DOMAIN pvcStates' : pvcStates'[x] \in PVCState
        BY <1>a, <1>b, <1>c DEF TypeOK
    <2>2. w' \in Worker
        BY DEF InstallBuffer, Worker, TypeOK
    <2>3. cfg' \in Configuration
        <3>1. IdleConfigure \in Configuration
            BY KeysAssumption DEF IdleConfigure, Configuration
        <3>2. [cfg EXCEPT !.pc = "copy", !.todo = @ \ {cfg.key}, !.key = NoKey, !.copy = <<>>]
                \in Configuration
            <4>1. [cfg EXCEPT !.pc = "copy", !.todo = @ \ {cfg.key}] \in Configuration
                BY DEF Configuration, TypeOK
            <4>2. \A v \in Configuration : [v EXCEPT !.key = NoKey] \in Configuration
                BY DEF Configuration
            <4>3. \A v \in Configuration, s \in Seq(Sample) : [v EXCEPT !.copy = s] \in Configuration
                BY DEF Configuration
            <4>4. <<>> \in Seq(Sample)
                OBVIOUS
            <4>5. QED
                BY <4>1, <4>2, <4>3, <4>4
        <3>3. QED
            BY <3>1, <3>2 DEF InstallBuffer
    <2>4. QED
        BY <2>1, <2>2, <2>3 DEF InstallBuffer, clusterVars, queueVars, bootVars, TypeOK
<1>2. WorkerInv'
    BY <1>a, <1>b, <1>c, <1>d
       DEF InstallBuffer, vars, clusterVars, queueVars, bootVars, TypeOK, Worker, WorkerInv
<1>3. ConfigureInv'
    BY <1>a, <1>b, <1>c, SMTT(40)
       DEF InstallBuffer, ConfigureInv, IdleConfigure, vars, clusterVars, queueVars, bootVars, TypeOK, Worker, WorkerInv
<1>4. ExportedTracked'
    BY <1>b, <1>c, <1>d
       DEF InstallBuffer, ExportedTracked, vars, clusterVars, queueVars, bootVars, TypeOK, Worker, WorkerInv
<1>5. NeverForgotten'
    BY <1>d
       DEF InstallBuffer, NeverForgotten, vars, clusterVars, queueVars, bootVars, TypeOK, Worker, WorkerInv
<1>6. BuffersHonourRetention'
    <2>1. cfg'.todo = cfg.todo \ {cfg.key}
        BY DEF InstallBuffer, IdleConfigure, TypeOK
    <2>2. QED
        BY <1>a, <1>b, <1>c, <2>1 DEF BuffersHonourRetention
<1>7. QED
    BY <1>1, <1>2, <1>3, <1>4, <1>5, <1>6

\* Every step keeps the invariant.
LEMMA WatcherInvNext == WatcherInv /\ [Next]_vars => WatcherInv'
<1> SUFFICES ASSUME WatcherInv, [Next]_vars PROVE WatcherInv'
    OBVIOUS
<1>1. CASE ClusterStep
    BY <1>1, CreatePVCKeeps, DeletePVCKeeps, UpdatePVCKeeps, SeriesExpireKeeps DEF ClusterStep
<1>2. CASE Restart
    BY <1>2, RestartKeeps
<1>3. CASE StartupStep
    BY <1>3, BackfillListFailsKeeps, BackfillListKeeps, BackfillOneKeeps, BackfillDoneKeeps
       DEF StartupStep
<1>4. ASSUME NEW k \in Keys, TimerFires(k) \/ GetFails(k) \/ GetFound(k) \/ GetNotFound(k)
      PROVE  WatcherInv'
    BY <1>4, TimerFiresKeeps, GetFailsKeeps, GetFoundKeeps, GetNotFoundKeeps
<1>5. CASE ReconcileStep
    BY <1>5, DeleteStateKeeps, DeleteSeriesKeeps, EnsureStateKeeps, QueryFailsKeeps,
       QueryUsedKeeps, QueryCapacityKeeps, LoadBufferKeeps, PushSampleKeeps, PublishKeeps,
       RequeueKeeps DEF ReconcileStep
<1>6. CASE ConfigureStep
    BY <1>6, CopyBufferKeeps, InstallBufferKeeps DEF ConfigureStep
<1>7. ASSUME NEW n \in Retentions, NEW mc \in {StartupClient, "prom"}, Configure(n, mc)
      PROVE  WatcherInv'
    BY <1>7, ConfigureKeeps
<1>8. CASE UNCHANGED vars
    BY <1>8 DEF vars, clusterVars, queueVars, bootVars, WatcherInv, TypeOK, WorkerInv,
       ConfigureInv, ExportedTracked, NeverForgotten, BuffersHonourRetention
<1>9. QED
    BY <1>1, <1>2, <1>3, <1>4, <1>5, <1>6, <1>7, <1>8 DEF Next, WatcherStep

\* The inductive invariant holds in every reachable state.
LEMMA WatcherInvariant == Spec => []WatcherInv
BY WatcherInvInit, WatcherInvNext, PTL DEF Spec

-----------------------------------------------------------------------------
\* The theorems.

\* Every variable of the watcher keeps its type: no index error or nil state
\* whatever the interleaving of Reconcile, Configure, crashes and the cluster.
THEOREM WatcherTypeOK == Spec => []TypeOK
BY WatcherInvariant, PTL DEF WatcherInv

\* Reconcile always leaves a way back to every PVC that exists and to every
\* key that exports series (the comment on RequeueAfter in Reconcile).
THEOREM WatcherNeverForgets == Spec => []NeverForgotten
BY WatcherInvariant, PTL DEF WatcherInv

\* deleteState and the gauges Reconcile publishes agree: no series of the
\* watcher outlives the state of its PVC.
THEOREM WatcherExportsTracked == Spec => []ExportedTracked
BY WatcherInvariant, PTL DEF WatcherInv

\* Configure and ensureState agree on the capacity of every buffer.
THEOREM WatcherHonoursRetention == Spec => []BuffersHonourRetention
BY WatcherInvariant, PTL DEF WatcherInv

-----------------------------------------------------------------------------
\* The history in the buffers.

\* The worker samples for the PVC whose state it ensured; and Configure has a
\* copy only while it replaces a buffer.
HistoryInv ==
    /\ w.pc \in {"used", "capacity", "load", "push", "publish"} => pvcStates[w.key].uid = w.uid
    /\ w.pc \in {"capacity", "load", "push"} => w.used.asked = w.uid
    /\ cfg.pc # "install" => cfg.key = NoKey

\* A state whose samples were all asked for its own PVC.
OwnState(st) == \A i \in 1 .. Len(st.window) : st.window[i].asked = st.uid

\* The newest samples of a window are samples of the window.
LEMMA NewestFrom ==
    ASSUME NEW S, NEW s \in Seq(S), NEW n \in Nat \ {0}, NEW i \in 1 .. Len(Newest(s, n))
    PROVE  \E j \in 1 .. Len(s) : Newest(s, n)[i] = s[j]
<1>1. CASE Len(s) > n
    <2>1. Newest(s, n) = SubSeq(s, Len(s) - n + 1, Len(s)) /\ Len(s) \in Nat
        BY <1>1 DEF Newest
    <2>2. Len(Newest(s, n)) = n /\ i \in 1 .. n
        BY <1>1, <2>1
    <2>3. Newest(s, n)[i] = s[Len(s) - n + i] /\ Len(s) - n + i \in 1 .. Len(s)
        BY <1>1, <2>1, <2>2
    <2>4. QED
        BY <2>3
<1>2. CASE ~(Len(s) > n)
    BY <1>2 DEF Newest
<1>3. QED
    BY <1>1, <1>2

\* Pushing samples asked for the PVC of the state keeps the state its own.
LEMMA PushedOwn ==
    ASSUME NEW st \in PVCState, NEW h \in Seq(Sample), OwnState(st),
           \A i \in 1 .. Len(h) : h[i].asked = st.uid
    PROVE  OwnState(PushAll(st, h)) /\ PushAll(st, h).uid = st.uid
<1>1. st.window \in Seq(Sample) /\ st.capacity \in Nat \ {0}
    BY DEF PVCState
<1> DEFINE s == st.window \o h
           win == Newest(s, st.capacity)
<1>2. s \in Seq(Sample) /\ Len(s) = Len(st.window) + Len(h) /\ Len(h) \in Nat /\ Len(st.window) \in Nat
    BY <1>1
<1>3. /\ \A j \in 1 .. Len(st.window) : s[j] = st.window[j]
      /\ \A j \in 1 .. Len(h) : s[Len(st.window) + j] = h[j]
    BY <1>1
<1>4. PushAll(st, h).window = win /\ PushAll(st, h).uid = st.uid
    BY DEF PushAll, PVCState
<1> HIDE DEF s
<1>5. ASSUME NEW j \in 1 .. Len(s) PROVE s[j].asked = st.uid
    <2>1. CASE j \in 1 .. Len(st.window)
        BY <1>3, <2>1 DEF OwnState
    <2>2. CASE j \notin 1 .. Len(st.window)
        <3>1. j - Len(st.window) \in 1 .. Len(h) /\ Len(st.window) + (j - Len(st.window)) = j
            BY <1>2, <2>2
        <3>2. s[j] = h[j - Len(st.window)]
            BY <1>3, <3>1
        <3>3. QED
            BY <3>1, <3>2
    <2>3. QED
        BY <2>1, <2>2
<1>6. ASSUME NEW i \in 1 .. Len(win) PROVE win[i].asked = st.uid
    <2>1. PICK j \in 1 .. Len(s) : win[i] = s[j]
        BY <1>1, <1>2, NewestFrom, SMTT(40)
    <2> HIDE DEF win
    <2>2. QED
        BY <1>5, <2>1
<1> HIDE DEF win
<1>7. QED
    BY <1>4, <1>6 DEF OwnState

\* ensureState leaves the state of the PVC it is called with: the buffer that
\* this PVC had, or an empty one.
LEMMA EnsuredOwn ==
    ASSUME NEW k, NEW uid, \A x \in DOMAIN pvcStates : OwnState(pvcStates[x])
    PROVE  LET e == Ensured(pvcStates, k, uid, retention)
           IN /\ DOMAIN e = DOMAIN pvcStates \cup {k}
              /\ e[k].uid = uid
              /\ \A x \in DOMAIN e : OwnState(e[x])
<1> DEFINE fresh == NewPVCState(uid, retention)
           reset == ResetFor(pvcStates[k], uid)
           e == Ensured(pvcStates, k, uid, retention)
<1>1. /\ fresh.uid = uid /\ reset.uid = uid
      /\ OwnState(fresh) /\ OwnState(reset)
    BY DEF NewPVCState, ResetFor, OwnState
<1>2. e = [x \in DOMAIN pvcStates \cup {k} |->
                        IF x # k THEN pvcStates[x]
                        ELSE IF k \notin DOMAIN pvcStates THEN fresh
                        ELSE IF pvcStates[k].uid # uid THEN reset
                        ELSE pvcStates[k]]
    BY DEF Ensured
<1> HIDE DEF fresh, reset, e
<1>3. /\ DOMAIN e = DOMAIN pvcStates \cup {k}
      /\ \A x \in DOMAIN pvcStates : x # k => e[x] = pvcStates[x]
      /\ e[k] = IF k \notin DOMAIN pvcStates THEN fresh
                ELSE IF pvcStates[k].uid # uid THEN reset
                ELSE pvcStates[k]
    BY <1>2
<1>4. QED
    BY <1>1, <1>3 DEF e

\* Steps that leave the worker without a PVC to sample.
LEMMA HistoryRests ==
    ASSUME HistoryInv, cfg' \in {cfg, IdleConfigure},
           w'.pc \in {"idle", "delete", "series", "requeue"}
    PROVE  HistoryInv'
BY DEF HistoryInv, IdleConfigure

\* Every step keeps the invariant of the history.
LEMMA HistoryInvNext ==
    ASSUME WatcherInv, HistoryInv, HistoryIsOwn, [Next]_vars
    PROVE  HistoryInv'
<1> USE DEF WatcherInv
<1>t. w \in Worker /\ cfg \in Configuration /\ TypeOK
    BY DEF TypeOK
<1>1. ASSUME NEW k \in Keys, CreatePVC(k) \/ SeriesExpire(k) PROVE HistoryInv'
    BY <1>1 DEF CreatePVC, SeriesExpire, HistoryInv
<1>2. ASSUME NEW k \in Keys,
             DeletePVC(k) \/ UpdatePVC(k) \/ TimerFires(k) \/ GetFails(k)
      PROVE  HistoryInv'
    BY <1>2 DEF DeletePVC, UpdatePVC, TimerFires, GetFails, Dequeue, HistoryInv, clusterVars
<1>3. CASE BackfillListFails \/ BackfillList \/ BackfillDone \/ UNCHANGED vars
    BY <1>3 DEF BackfillListFails, BackfillList, BackfillDone, StartManager, HistoryInv, vars, clusterVars
<1>4. ASSUME NEW k \in Keys, NEW u \in UID, BackfillOne(k, u) PROVE HistoryInv'
    <2>1. w' = w /\ cfg' = cfg /\ w.pc = "idle"
        BY <1>4 DEF BackfillOne, WorkerInv
    <2>2. QED
        BY <2>1, HistoryRests
<1>5. CASE Restart
    <2>1. w'.pc = "idle" /\ cfg' = IdleConfigure
        BY <1>5 DEF Restart, Boot, IdleWorker
    <2>2. QED
        BY <2>1, HistoryRests
<1>6. CASE DeleteState \/ DeleteSeries \/ QueryFails \/ Publish \/ Requeue
    <2>1. cfg' = cfg /\ w'.pc \in {"idle", "series", "requeue"}
        <3>1. CASE DeleteState
            BY <3>1, <1>t DEF DeleteState, Worker, IdleWorker
        <3>2. CASE DeleteSeries \/ Requeue
            BY <3>2 DEF DeleteSeries, Requeue, IdleWorker
        <3>3. CASE QueryFails \/ Publish
            BY <3>3, <1>t DEF QueryFails, Publish, Worker
        <3>4. QED
            BY <1>6, <3>1, <3>2, <3>3
    <2>2. QED
        BY <2>1, HistoryRests
<1>7. ASSUME NEW k \in Keys, GetNotFound(k) PROVE HistoryInv'
    <2>1. cfg' = cfg /\ w'.pc = "delete"
        BY <1>7, <1>t DEF GetNotFound, Dequeue, Worker
    <2>2. QED
        BY <2>1, HistoryRests
<1>8. ASSUME NEW k \in Keys, GetFound(k) PROVE HistoryInv'
    <2>1. cfg' = cfg /\ w'.pc = "ensure"
        BY <1>8, <1>t DEF GetFound, Dequeue, Worker
    <2>2. QED
        BY <2>1 DEF HistoryInv
<1>9. CASE EnsureState
    <2>1. /\ cfg' = cfg /\ w.pc = "ensure" /\ w'.pc = "used" /\ w'.key = w.key
          /\ w'.uid = w.uid /\ pvcStates' = Ensured(pvcStates, w.key, w.uid, retention)
        BY <1>9, <1>t DEF EnsureState, Worker
    <2>2. \A x \in DOMAIN pvcStates : OwnState(pvcStates[x])
        BY DEF HistoryIsOwn, OwnState
    <2>3. pvcStates'[w.key].uid = w.uid
        <3>1. Ensured(pvcStates, w.key, w.uid, retention)[w.key].uid = w.uid
            BY <2>2, EnsuredOwn
        <3>2. QED
            BY <2>1, <3>1
    <2>4. QED
        BY <2>1, <2>3 DEF HistoryInv
<1>10. ASSUME NEW s \in Sample, QueryUsed(s) PROVE HistoryInv'
    <2>1. /\ cfg' = cfg /\ pvcStates' = pvcStates /\ w.pc = "used" /\ w'.pc = "capacity"
          /\ w'.key = w.key /\ w'.uid = w.uid /\ w'.used = s /\ s \in UsageNow(w.key)
        BY <1>10, <1>t DEF QueryUsed, Worker
    <2>2. s.asked = w.uid
        BY <2>1 DEF UsageNow
    <2>3. QED
        BY <2>1, <2>2 DEF HistoryInv
<1>11. CASE LoadBuffer \/ QueryCapacity
    <2>1. /\ cfg' = cfg /\ pvcStates' = pvcStates /\ w.pc \in {"load", "capacity"}
          /\ w'.pc \in {"push", "load"} /\ w'.key = w.key /\ w'.uid = w.uid /\ w'.used = w.used
        BY <1>11, <1>t DEF LoadBuffer, QueryCapacity, Worker, clusterVars
    <2>2. QED
        BY <2>1 DEF HistoryInv
<1>12. CASE PushSample
    <2>1. /\ cfg' = cfg /\ w.pc = "push" /\ w'.pc = "publish" /\ w'.key = w.key
          /\ w'.uid = w.uid
        BY <1>12, <1>t DEF PushSample, Worker, clusterVars
    <2>2. w.key \in DOMAIN pvcStates /\ pvcStates[w.key] \in PVCState /\ w.used \in Sample
        BY <2>1, <1>t DEF WorkerInv, TypeOK
    <2>3. PushAll(pvcStates[w.key], <<w.used>>).uid = pvcStates[w.key].uid
        BY <2>2 DEF PushAll, PVCState
    <2> DEFINE q == PushAll(pvcStates[w.key], <<w.used>>)
    <2>4. pvcStates' \in {pvcStates, [pvcStates EXCEPT ![w.key] = q]}
        BY <1>12 DEF PushSample
    <2> HIDE DEF q
    <2>5. pvcStates'[w.key].uid = pvcStates[w.key].uid
        BY <2>2, <2>3, <2>4 DEF q
    <2>6. QED
        BY <2>1, <2>5 DEF HistoryInv
<1>13. ASSUME NEW n \in Retentions, NEW mc, Configure(n, mc) PROVE HistoryInv'
    <2>1. w' = w /\ pvcStates' = pvcStates /\ cfg'.key = NoKey
        BY <1>13, <1>t DEF Configure, MuFree, HistoryInv, IdleConfigure, Configuration, clusterVars
    <2>2. QED
        BY <2>1 DEF HistoryInv
<1>14. ASSUME NEW k \in Keys, CopyBuffer(k) PROVE HistoryInv'
    <2>1. w' = w /\ pvcStates' = pvcStates /\ cfg'.pc = "install"
        BY <1>14, <1>t DEF CopyBuffer, Configuration, clusterVars
    <2>2. QED
        BY <2>1 DEF HistoryInv
<1>15. CASE InstallBuffer
    <2>1. /\ w'.pc = w.pc /\ w'.key = w.key /\ w'.uid = w.uid /\ w'.used = w.used
          /\ cfg'.key = NoKey
        BY <1>15, <1>t DEF InstallBuffer, Worker, IdleConfigure, Configuration, clusterVars
    <2> DEFINE q == Resized(pvcStates[cfg.key], cfg.copy, retention)
    <2>2. q.uid = pvcStates[cfg.key].uid
        BY DEF Resized
    <2>3. pvcStates' = [pvcStates EXCEPT ![cfg.key] = q]
        BY <1>15 DEF InstallBuffer
    <2> HIDE DEF q
    <2>4. \A x \in DOMAIN pvcStates : pvcStates'[x].uid = pvcStates[x].uid
        BY <2>2, <2>3
    <2>5. w.pc \in {"used", "capacity", "load", "push", "publish"} => w.key \in DOMAIN pvcStates
        BY DEF WorkerInv
    <2>6. QED
        BY <2>1, <2>4, <2>5 DEF HistoryInv
<1>16. QED
    BY <1>1, <1>2, <1>3, <1>4, <1>5, <1>6, <1>7, <1>8, <1>9, <1>10, <1>11, <1>12, <1>13, <1>14, <1>15
       DEF Next, ClusterStep, StartupStep, WatcherStep, ReconcileStep, ConfigureStep

\* Every step keeps the samples in the buffers, and in Configure's copy, those
\* asked for the PVC of the state.
LEMMA HistoryStep ==
    ASSUME WatcherInv, HistoryInv, HistoryIsOwn, [Next]_vars
    PROVE  HistoryIsOwn'
<1> USE DEF WatcherInv
<1>t. w \in Worker /\ cfg \in Configuration /\ TypeOK
    BY DEF TypeOK
<1>o. \A x \in DOMAIN pvcStates : OwnState(pvcStates[x])
    BY DEF HistoryIsOwn, OwnState
<1>k. NoKey \notin DOMAIN pvcStates'
    <2>1. WatcherInv'
        BY WatcherInvNext
    <2>2. QED
        BY <2>1, KeysAssumption DEF TypeOK
<1>e. ASSUME cfg'.key = NoKey, \A x \in DOMAIN pvcStates' : OwnState(pvcStates'[x])
      PROVE  HistoryIsOwn'
    BY <1>e, <1>k DEF HistoryIsOwn, OwnState
<1>f. ASSUME cfg' = cfg, DOMAIN pvcStates' \subseteq DOMAIN pvcStates,
             \A x \in DOMAIN pvcStates' : /\ OwnState(pvcStates'[x])
                                          /\ pvcStates'[x].uid = pvcStates[x].uid
      PROVE  HistoryIsOwn'
    BY <1>f DEF HistoryIsOwn, OwnState
<1>1. CASE pvcStates' = pvcStates /\ cfg' = cfg
    BY <1>1 DEF HistoryIsOwn
<1>2. CASE Restart
    BY <1>2 DEF Restart, Boot, NoStates, HistoryIsOwn
<1>3. CASE DeleteState
    <2>1. cfg' = cfg /\ pvcStates' = Without(pvcStates, w.key)
        BY <1>3 DEF DeleteState
    <2>2. \A x \in DOMAIN pvcStates' : x \in DOMAIN pvcStates /\ pvcStates'[x] = pvcStates[x]
        BY <2>1 DEF Without
    <2>3. QED
        BY <2>1, <2>2, <1>o, <1>f
<1>4. CASE EnsureState
    <2>1. cfg'.key = NoKey /\ pvcStates' = Ensured(pvcStates, w.key, w.uid, retention)
        BY <1>4 DEF EnsureState, MuFree, HistoryInv
    <2>2. \A x \in DOMAIN pvcStates' : OwnState(pvcStates'[x])
        BY <2>1, <1>o, EnsuredOwn
    <2>3. QED
        BY <2>1, <2>2, <1>e
<1>5. CASE PushSample
    <2>1. cfg' = cfg /\ w.pc = "push"
        BY <1>5 DEF PushSample
    <2>2. /\ w.key \in DOMAIN pvcStates /\ pvcStates[w.key] \in PVCState /\ w.used \in Sample
          /\ pvcStates[w.key].uid = w.uid /\ w.used.asked = w.uid
        BY <2>1, <1>t DEF WorkerInv, TypeOK, HistoryInv
    <2> DEFINE q == PushAll(pvcStates[w.key], <<w.used>>)
    <2>3. OwnState(q) /\ q.uid = pvcStates[w.key].uid
        <3>1. <<w.used>> \in Seq(Sample) /\ \A i \in 1 .. Len(<<w.used>>) : <<w.used>>[i].asked = w.uid
            BY <2>2
        <3>2. QED
            BY <2>2, <3>1, <1>o, PushedOwn
    <2>4. pvcStates' \in {pvcStates, [pvcStates EXCEPT ![w.key] = q]}
        BY <1>5 DEF PushSample
    <2> HIDE DEF q
    <2>5. /\ DOMAIN pvcStates' = DOMAIN pvcStates
          /\ \A x \in DOMAIN pvcStates : pvcStates'[x] = pvcStates[x] \/ (x = w.key /\ pvcStates'[x] = q)
        BY <2>4
    <2>6. QED
        BY <2>1, <2>3, <2>5, <1>o, <1>f
<1>6. CASE Publish
    <2>1. cfg' = cfg /\ w.pc = "publish"
        BY <1>6 DEF Publish
    <2>2. w.key \in DOMAIN pvcStates /\ pvcStates[w.key] \in PVCState
        BY <2>1, <1>t DEF WorkerInv, TypeOK
    <2> DEFINE q == [pvcStates[w.key] EXCEPT !.capKnown = TRUE]
    <2>3. q.uid = pvcStates[w.key].uid /\ q.window = pvcStates[w.key].window
        BY <2>2 DEF PVCState
    <2>4. pvcStates' = [pvcStates EXCEPT ![w.key] = q]
        BY <1>6 DEF Publish
    <2> HIDE DEF q
    <2>5. OwnState(q)
        BY <2>2, <2>3, <1>o DEF OwnState
    <2>6. QED
        BY <2>1, <2>2, <2>3, <2>4, <2>5, <1>o, <1>f
<1>7. ASSUME NEW n \in Retentions, NEW mc, Configure(n, mc) PROVE HistoryIsOwn'
    <2>1. pvcStates' = pvcStates /\ cfg'.key = NoKey
        BY <1>7, <1>t DEF Configure, MuFree, HistoryInv, IdleConfigure, Configuration
    <2>2. QED
        BY <2>1, <1>o, <1>e
<1>8. ASSUME NEW x \in Keys, CopyBuffer(x) PROVE HistoryIsOwn'
    <2>1. /\ pvcStates' = pvcStates /\ x \in DOMAIN pvcStates /\ cfg'.key = x
          /\ cfg'.copy = Newest(pvcStates[x].window, retention)
        BY <1>8, <1>t DEF CopyBuffer, Configuration, ConfigureInv
    <2>2. pvcStates[x].window \in Seq(Sample) /\ retention \in Nat \ {0}
        BY <2>1, <1>t DEF TypeOK, PVCState
    <2>3. \A i \in 1 .. Len(cfg'.copy) : \E j \in 1 .. Len(pvcStates[x].window) : cfg'.copy[i] = pvcStates[x].window[j]
        BY <2>1, <2>2, NewestFrom
    <2>4. QED
        BY <2>1, <2>3, <1>o DEF HistoryIsOwn, OwnState
<1>9. CASE InstallBuffer
    <2>1. cfg'.key = NoKey /\ cfg.key \in DOMAIN pvcStates
        BY <1>9, <1>t DEF InstallBuffer, IdleConfigure, Configuration, ConfigureInv
    <2> DEFINE q == Resized(pvcStates[cfg.key], cfg.copy, retention)
    <2>2. q.uid = pvcStates[cfg.key].uid /\ q.window = cfg.copy
        BY DEF Resized
    <2>3. pvcStates' = [pvcStates EXCEPT ![cfg.key] = q]
        BY <1>9 DEF InstallBuffer
    <2> HIDE DEF q
    <2>4. OwnState(q)
        BY <2>1, <2>2 DEF HistoryIsOwn, OwnState
    <2>5. QED
        BY <2>1, <2>3, <2>4, <1>o, <1>e
<1>10. CASE ClusterStep \/ UNCHANGED vars
    BY <1>1, <1>10 DEF ClusterStep, CreatePVC, DeletePVC, UpdatePVC, SeriesExpire, vars
<1>11. ASSUME NEW k \in Keys, NEW u \in UID, BackfillOne(k, u) PROVE HistoryIsOwn'
    <2> DEFINE e == Ensured(pvcStates, k, u, retention)
    <2>1. cfg.todo = {} /\ cfg'.key = NoKey
        BY <1>11 DEF BackfillOne, WorkerInv, ConfigureInv, IdleConfigure
    <2>2. DOMAIN e = DOMAIN pvcStates \cup {k} /\ e[k].uid = u /\ \A x \in DOMAIN e : OwnState(e[x])
        BY <1>o, EnsuredOwn
    <2>3. e[k] \in PVCState
        BY <2>1, <2>2, EnsuredBuffers
    <2>4. pvcStates' = e \/ \E h \in Histories(k, u) : pvcStates' = [e EXCEPT ![k] = PushAll(e[k], h)]
        BY <1>11 DEF BackfillOne
    <2> HIDE DEF e
    <2>5. ASSUME NEW h \in Histories(k, u), pvcStates' = [e EXCEPT ![k] = PushAll(e[k], h)]
          PROVE  HistoryIsOwn'
        <3>1. h \in Seq(Sample) /\ \A i \in 1 .. Len(h) : h[i].asked = e[k].uid
            BY <1>t, <2>2, HistoriesType
        <3>2. OwnState(PushAll(e[k], h))
            BY <2>2, <2>3, <3>1, PushedOwn
        <3>3. \A x \in DOMAIN pvcStates' : OwnState(pvcStates'[x])
            BY <2>2, <2>5, <3>2
        <3>4. QED
            BY <2>1, <3>3, <1>e
    <2>6. CASE pvcStates' = e
        BY <2>1, <2>2, <2>6, <1>e
    <2>7. QED
        BY <2>4, <2>5, <2>6
<1>12. CASE BackfillListFails \/ BackfillList \/ BackfillDone
    BY <1>1, <1>12 DEF BackfillListFails, BackfillList, BackfillDone, StartManager
<1>13. ASSUME NEW x \in Keys, TimerFires(x) \/ GetFails(x) \/ GetFound(x) \/ GetNotFound(x)
       PROVE  HistoryIsOwn'
    BY <1>1, <1>13 DEF TimerFires, GetFails, GetFound, GetNotFound, Dequeue
<1>14. CASE DeleteSeries \/ QueryFails \/ QueryCapacity \/ LoadBuffer \/ Requeue \/ \E s \in Sample : QueryUsed(s)
    BY <1>1, <1>14 DEF DeleteSeries, QueryFails, LoadBuffer, Requeue, QueryUsed, QueryCapacity
<1>15. QED
    BY <1>2, <1>3, <1>4, <1>5, <1>6, <1>7, <1>8, <1>9, <1>10, <1>11, <1>12, <1>13, <1>14
       DEF Next, StartupStep, WatcherStep, ReconcileStep, ConfigureStep

\* ensureState's reset holds against everything that runs beside it: in every
\* interleaving of the worker, which pushes without r.mu, with Configure, which
\* replaces buffers, with the backfill and with PVCs that are deleted and
\* created under the same name, a buffer and its copy hold only samples asked
\* for the PVC they are kept for.
THEOREM WatcherKeepsHistoryApart == Spec => []HistoryIsOwn
<1>1. Init => HistoryInv /\ HistoryIsOwn
    BY DEF Init, HistoryInv, HistoryIsOwn, NoStates, IdleWorker, IdleConfigure
<1>2. WatcherInv /\ HistoryInv /\ HistoryIsOwn /\ [Next]_vars => HistoryInv' /\ HistoryIsOwn'
    BY HistoryInvNext, HistoryStep
<1>3. QED
    BY <1>1, <1>2, WatcherInvariant, PTL DEF Spec

-----------------------------------------------------------------------------
\* The operator.

\* A step of the operator is a step of the watcher or leaves it alone: the
\* plan reconciler touches the watcher through Configure only.
LEMMA OpStep ==
    ASSUME OpTypeOK, [OpNext]_opVars
    PROVE  [Next]_vars
<1>1. CASE DeleteAllSeries
    BY <1>1 DEF DeleteAllSeries, Next, WatcherStep, ReconcileStep
<1>2. CASE WatchStep
    BY <1>2 DEF WatchStep, Next, WatcherStep
<1>3. ASSUME NEW k \in Keys, LookupStep(k) PROVE Next
    BY <1>3 DEF LookupStep, Next, WatcherStep
<1>4. CASE OtherStep
    BY <1>4 DEF OtherStep, Next, WatcherStep
<1>5. CASE OpRestart
    BY <1>5 DEF OpRestart, Next
<1>6. ASSUME NEW s \in PlanSpecs, EditPlan(s) PROVE UNCHANGED vars
    BY <1>6 DEF EditPlan
<1>7. CASE PlanConfigure
    <2>1. spec.retention \in Retentions /\ spec.client \in {StartupClient, "prom"}
        BY PlanSpecsAssumption DEF OpTypeOK
    <2>2. QED
        BY <1>7, <2>1 DEF PlanConfigure, Next
<1>8. CASE PlanStep /\ ~PlanConfigure
    BY <1>8 DEF PlanStep, PlanList, PlanListFails, SummariseStep, Summarise, PlanInsights,
       PublishStep, PublishGrowth, PlanStatus, PlanStatusFails
<1>9. CASE UNCHANGED opVars
    BY <1>9 DEF opVars
<1>10. QED
    BY <1>1, <1>2, <1>3, <1>4, <1>5, <1>6, <1>7, <1>8, <1>9 DEF OpNext

\* Types, which need the watcher's: a summary's UID comes from its buffers.
LEMMA OpTypeStep ==
    ASSUME OpTypeOK, TypeOK, [OpNext]_opVars
    PROVE  OpTypeOK'
<1> USE DEF OpTypeOK
<1>1. CASE DeleteAllSeries
    BY <1>1 DEF DeleteAllSeries
<1>2. CASE WatchStep \/ OtherStep \/ \E k \in Keys : LookupStep(k)
    BY <1>2 DEF WatchStep, OtherStep, LookupStep, planVars
<1>3. CASE OpRestart
    BY <1>3, BoundsAssumption DEF OpRestart, IdlePlan, NoReport, Reports
<1>4. ASSUME NEW s \in PlanSpecs, EditPlan(s) PROVE OpTypeOK'
    BY <1>4, PlanSpecsAssumption DEF EditPlan
<1>5. CASE PlanConfigure
    BY <1>5 DEF PlanConfigure
<1>6. CASE PlanList
    <2>1. \A k \in Queued(pvc) : k \in Keys /\ pvc[k] \in UID
        BY BoundsAssumption DEF Queued, TypeOK, UID
    <2>2. {<<k, pvc[k]>> : k \in Queued(pvc)} \subseteq Keys \X UID
        BY <2>1
    <2>3. QED
        BY <1>6, <2>1, <2>2 DEF PlanList
<1>7. CASE PlanListFails \/ PlanStatusFails
    BY <1>7, BoundsAssumption DEF PlanListFails, PlanStatusFails, IdlePlan, NoReport, Reports
<1>8. ASSUME NEW k \in Keys, NEW u \in UID, Summarise(k, u) PROVE OpTypeOK'
    <2>1. Report(k) \in 0 .. MaxUID
        <3>1. CASE k \in DOMAIN pvcStates /\ pvcStates[k].window # <<>>
            <4>1. pvcStates[k].window \in Seq(Sample)
                BY <3>1 DEF TypeOK, PVCState
            <4>2. Len(pvcStates[k].window) \in 1 .. Len(pvcStates[k].window)
                BY <3>1, <4>1
            <4>3. pvcStates[k].window[Len(pvcStates[k].window)] \in Sample
                BY <4>1, <4>2
            <4>4. QED
                BY <3>1, <4>3, BoundsAssumption DEF Report, Sample, UID
        <3>2. CASE ~(k \in DOMAIN pvcStates /\ pvcStates[k].window # <<>>)
            BY <3>2 DEF Report, Reports
        <3>3. QED
            BY <3>1, <3>2
    <2>2. [p.sums EXCEPT ![k] = Report(k)] \in Reports
        BY <2>1 DEF Reports
    <2> DEFINE r == [p.sums EXCEPT ![k] = Report(k)]
    <2>3. p' = [p EXCEPT !.todo = @ \ {<<k, u>>}, !.sums = r]
        BY <1>8 DEF Summarise
    <2> HIDE DEF r
    <2>4. r \in Reports
        BY <2>2 DEF r
    <2>5. QED
        BY <1>8, <2>3, <2>4 DEF Summarise
<1>9. CASE PlanInsights
    BY <1>9 DEF PlanInsights
<1>10. ASSUME NEW k \in Keys, PublishGrowth(k) PROVE OpTypeOK'
    BY <1>10 DEF PublishGrowth
<1>11. CASE PlanStatus
    BY <1>11, BoundsAssumption DEF PlanStatus, IdlePlan, NoReport, Reports
<1>12. CASE UNCHANGED opVars
    BY <1>12 DEF opVars, planVars
<1>13. QED
    BY <1>1, <1>2, <1>3, <1>4, <1>5, <1>6, <1>7, <1>8, <1>9, <1>10, <1>11, <1>12
       DEF OpNext, PlanStep, SummariseStep, PublishStep

\* The operator's own types, and the watcher's, hold throughout.
THEOREM OperatorTypeOK == OpSpec => []OpTypeOK
<1>1. OpInit => OpTypeOK /\ WatcherInv
    <2>1. OpInit => WatcherInv
        BY WatcherInvInit DEF OpInit
    <2>2. OpInit => OpTypeOK
        BY BoundsAssumption, PlanSpecsAssumption DEF OpInit, OpTypeOK, IdlePlan, NoReport, Reports
    <2>3. QED
        BY <2>1, <2>2
<1>2. OpTypeOK /\ WatcherInv /\ [OpNext]_opVars => (OpTypeOK /\ WatcherInv)'
    <2> SUFFICES ASSUME OpTypeOK, WatcherInv, [OpNext]_opVars
                 PROVE  (OpTypeOK /\ WatcherInv)'
        OBVIOUS
    <2>1. TypeOK
        BY DEF WatcherInv
    <2>2. OpTypeOK'
        BY <2>1, OpTypeStep
    <2>3. [Next]_vars
        BY OpStep
    <2>4. WatcherInv'
        BY <2>3, WatcherInvNext
    <2>5. QED
        BY <2>2, <2>4
<1>3. QED
    BY <1>1, <1>2, PTL DEF OpSpec

\* Refinement: with the plan reconciler calling Configure, reading buffers and
\* setting gauges beside it, the watcher behaves as PVCWatcher specifies.
THEOREM OperatorImplementsWatcher == OpSpec => ImplementsWatcher
<1>1. OpInit => Init
    BY DEF OpInit
<1>2. OpTypeOK /\ [OpNext]_opVars => [Next]_vars
    BY OpStep
<1>3. QED
    BY <1>1, <1>2, OperatorTypeOK, PTL DEF OpSpec, ImplementsWatcher, Spec

\* What follows for the whole operator: no PVC is forgotten, and the watcher's
\* series never outlive the state they belong to.
THEOREM OperatorNeverForgets == OpSpec => [](NeverForgotten /\ ExportedTracked)
<1>1. OpSpec => Spec
    BY OperatorImplementsWatcher DEF ImplementsWatcher
<1>2. QED
    BY <1>1, WatcherNeverForgets, WatcherExportsTracked, PTL
=============================================================================
