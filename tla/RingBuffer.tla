----------------------------- MODULE RingBuffer -----------------------------
(***************************************************************************)
(* internal/analysis/ringbuffer.go: the fixed-capacity circular buffer     *)
(* that holds the usage samples of one PVC, and the loop with which        *)
(* PVCWatcherReconciler.Configure replaces it by one of another capacity.  *)
(* Every method runs under the buffer's own mutex, so a call is one step;  *)
(* the loop of Configure is one step per iteration.  What a second         *)
(* goroutine may do to the buffer during that loop is PVCWatcher's         *)
(* subject.                                                                *)
(***************************************************************************)
EXTENDS Windows

CONSTANTS
    Sample,      \* the samples that may be pushed
    ZeroSample,  \* the zero value the slots of a new buffer hold
    Retentions,  \* the capacities asked of NewRingBuffer and of Configure
    DefaultRetention  \* what Configure takes a retention below 1 for (720)

ASSUME RetentionsAssumption == Retentions \subseteq Int
ASSUME DefaultAssumption == DefaultRetention \in Nat \ {0}

VARIABLES
    ring,      \* the buffer its users see
    resizing,  \* is Configure between reading the old buffer and replacing it?
    resized,   \* Configure's local: the buffer being filled
    todo       \* Configure's local: the samples still to be copied

vars == <<ring, resizing, resized, todo>>

Ring(c) == [buf : [0 .. c - 1 -> Sample \cup {ZeroSample}],
            head : 0 .. c - 1, count : 0 .. c, capacity : {c}]

Clamp(n) == IF n < 1 THEN 1 ELSE n

NewRingBuffer(n) ==
    [buf |-> [i \in 0 .. Clamp(n) - 1 |-> ZeroSample],
     head |-> 0, count |-> 0, capacity |-> Clamp(n)]

\* Mutants: plausible slips in Push, Snapshot and the copy.
PushNoWrap(r, s) ==
    [buf |-> [r.buf EXCEPT ![r.head] = s],
     head |-> IF r.head < r.capacity THEN r.head + 1 ELSE 0,
     count |-> IF r.count < r.capacity THEN r.count + 1 ELSE r.count,
     capacity |-> r.capacity]
StartAtZero(r) == 0
CopyOldest(r, n) == IF Len(r) > n THEN SubSeq(r, 1, n) ELSE r

Push(r, s) ==
    [buf |-> [r.buf EXCEPT ![r.head] = s],
     head |-> (r.head + 1) % r.capacity,
     count |-> IF r.count < r.capacity THEN r.count + 1 ELSE r.count,
     capacity |-> r.capacity]

\* The slot of the oldest sample.
Start(r) == (r.head - r.count + r.capacity) % r.capacity

Snapshot(r) == [i \in 1 .. r.count |-> r.buf[(Start(r) + (i - 1)) % r.capacity]]

Reset(r) == [buf |-> r.buf, head |-> 0, count |-> 0, capacity |-> r.capacity]

-----------------------------------------------------------------------------
Init ==
    /\ \E n \in Retentions : ring = NewRingBuffer(n)
    /\ resizing = FALSE
    /\ resized = NewRingBuffer(1)
    /\ todo = <<>>

DoPush(s) ==
    /\ ~resizing
    /\ ring' = Push(ring, s)
    /\ UNCHANGED <<resizing, resized, todo>>

DoReset ==
    /\ ~resizing
    /\ ring' = Reset(ring)
    /\ UNCHANGED <<resizing, resized, todo>>

Configured(n) == IF n < 1 THEN DefaultRetention ELSE n

KeptOnResize(snapshot, n) == Newest(snapshot, n)

BeginResize(n) ==
    /\ ~resizing
    /\ Configured(n) # ring.capacity
    /\ resizing' = TRUE
    /\ todo' = KeptOnResize(Snapshot(ring), Configured(n))
    /\ resized' = NewRingBuffer(Configured(n))
    /\ UNCHANGED ring

CopyOne ==
    /\ resizing
    /\ todo # <<>>
    /\ resized' = Push(resized, Head(todo))
    /\ todo' = Tail(todo)
    /\ UNCHANGED <<ring, resizing>>

InstallResized ==
    /\ resizing
    /\ todo = <<>>
    /\ ring' = resized
    /\ resizing' = FALSE
    /\ resized' = NewRingBuffer(1)
    /\ UNCHANGED todo

Next ==
    \/ \E s \in Sample : DoPush(s)
    \/ DoReset
    \/ \E n \in Retentions : BeginResize(n)
    \/ CopyOne
    \/ InstallResized

Spec == Init /\ [][Next]_vars

-----------------------------------------------------------------------------
WellFormed(r) ==
    /\ r.capacity \in Nat \ {0}
    /\ r \in Ring(r.capacity)
    /\ \A i \in 1 .. r.count : Snapshot(r)[i] \in Sample

\* Every index stays inside its buffer and every count within its capacity,
\* through Push's wrap-around, Reset and the replacement of the buffer, and
\* Snapshot never shows a slot that no Push has written.
TypeOK ==
    /\ WellFormed(ring)
    /\ WellFormed(resized)
    /\ resizing \in BOOLEAN
    /\ todo \in Seq(Sample)

\* Midway through Configure's copy, what is copied followed by what is left
\* to copy is exactly the newest part of the old buffer, and the new buffer
\* never has to evict a sample it was just given.
CopyInv ==
    resizing =>
        /\ Snapshot(resized) \o todo = Newest(Snapshot(ring), resized.capacity)
        /\ resized.count + Len(todo) <= resized.capacity

\* The circular buffer implements the bounded window: Snapshot is always the
\* newest samples recorded since the last Reset, oldest first, whatever
\* sequence of Push, Reset and resize calls led there.
W == INSTANCE SampleWindow WITH window <- Snapshot(ring), retention <- ring.capacity
ImplementsWindow == W!Spec
=============================================================================
