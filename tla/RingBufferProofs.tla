-------------------------- MODULE RingBufferProofs --------------------------
(***************************************************************************)
(* The circular buffer implements the bounded window, for every capacity   *)
(* and every set of samples.  The argument has three layers: the index     *)
(* arithmetic of one buffer (SlotOf), the effect of one Push on what       *)
(* Snapshot shows (PushSnapshot), and the invariant that carries the copy  *)
(* of Configure (TypeOK and CopyInv), from which the refinement follows.   *)
(***************************************************************************)
EXTENDS RingBuffer, SequenceTheorems, TLAPS

-----------------------------------------------------------------------------
\* Index arithmetic.

\* The only remainders the buffer computes are of indices below twice the
\* capacity.
LEMMA ModBelowTwice ==
    ASSUME NEW c \in Nat \ {0}, NEW x \in 0 .. 2 * c - 1
    PROVE  x % c = IF x < c THEN x ELSE x - c
<1>1. CASE x < c
    BY <1>1, SMT
<1>2. CASE x >= c
    <2>1. x - c \in 0 .. c - 1
        BY <1>2
    <2>2. x = c * 1 + (x - c)
        OBVIOUS
    <2>3. QED
        BY <2>1, <2>2, <1>2, SMTT(30)
<1>3. QED
    BY <1>1, <1>2

\* The slot of the i-th oldest sample, without remainders: Snapshot's
\* buf[(start+i)%capacity].
LEMMA SlotOf ==
    ASSUME NEW c \in Nat \ {0}, NEW r \in Ring(c), NEW i \in 1 .. r.count
    PROVE  (Start(r) + (i - 1)) % r.capacity
             = IF r.head - r.count + i - 1 < 0
               THEN r.head - r.count + i - 1 + c
               ELSE r.head - r.count + i - 1
<1>1. r.capacity = c /\ r.head \in 0 .. c - 1 /\ r.count \in 0 .. c
    BY DEF Ring
<1>2. Start(r) = IF r.head < r.count THEN r.head - r.count + c ELSE r.head - r.count
    <2>1. r.head - r.count + c \in 0 .. 2 * c - 1
        BY <1>1
    <2>2. QED
        BY <1>1, <2>1, ModBelowTwice DEF Start
<1> DEFINE x == Start(r) + (i - 1)
<1>3. x \in 0 .. 2 * c - 1
    BY <1>1, <1>2
<1>4. x % c = IF x < c THEN x ELSE x - c
    <2> HIDE DEF x
    <2> QED
        BY <1>3, ModBelowTwice
<1>5. QED
    BY <1>1, <1>2, <1>4

-----------------------------------------------------------------------------
\* One buffer.

\* The elements of a sequence over S are in S.
LEMMA SeqElements ==
    ASSUME NEW S, NEW f \in Seq(S)
    PROVE  \A i \in DOMAIN f : f[i] \in S
OBVIOUS

\* A function on 1 .. n whose values are in S is a sequence over S.
LEMMA FunctionIsSeq ==
    ASSUME NEW n \in Nat, NEW S, NEW f,
           f = [i \in 1 .. n |-> f[i]], \A i \in 1 .. n : f[i] \in S
    PROVE  f \in Seq(S) /\ Len(f) = n
<1>1. f \in [1 .. n -> S]
    OBVIOUS
<1>2. QED
    BY <1>1

\* What Snapshot shows is a sequence of samples, as long as count says.
LEMMA SnapshotSeq ==
    ASSUME NEW c \in Nat \ {0}, NEW r \in Ring(c),
           \A i \in 1 .. r.count : Snapshot(r)[i] \in Sample
    PROVE  /\ Snapshot(r) \in Seq(Sample)
           /\ Len(Snapshot(r)) = r.count
<1>1. r.count \in Nat
    BY DEF Ring
<1>2. /\ DOMAIN Snapshot(r) = 1 .. r.count
      /\ Snapshot(r) = [i \in 1 .. r.count |-> Snapshot(r)[i]]
    BY DEF Snapshot
<1>3. QED
    BY <1>1, <1>2, FunctionIsSeq

\* A new buffer is well formed and empty, whatever capacity was asked for.
LEMMA NewBuffer ==
    ASSUME NEW n \in Int
    PROVE  /\ Clamp(n) \in Nat \ {0}
           /\ NewRingBuffer(n) \in Ring(Clamp(n))
           /\ NewRingBuffer(n).count = 0
           /\ NewRingBuffer(n).capacity = Clamp(n)
           /\ Snapshot(NewRingBuffer(n)) = <<>>
<1>1. Clamp(n) \in Nat \ {0}
    BY DEF Clamp
<1>2. NewRingBuffer(n) \in Ring(Clamp(n))
    BY <1>1 DEF NewRingBuffer, Ring
<1>3. NewRingBuffer(n).count = 0 /\ NewRingBuffer(n).capacity = Clamp(n)
    BY DEF NewRingBuffer
<1>4. Snapshot(NewRingBuffer(n)) = <<>>
    BY <1>3 DEF Snapshot
<1>5. QED
    BY <1>1, <1>2, <1>3, <1>4

\* Snapshot without records and remainders: what a buffer of capacity c with
\* next slot h and n samples shows.
Slot(h, n, c, i) == IF h - n + i - 1 < 0 THEN h - n + i - 1 + c ELSE h - n + i - 1
Show(b, h, n, c) == [i \in 1 .. n |-> b[Slot(h, n, c, i)]]

NextSlot(h, c) == IF h + 1 < c THEN h + 1 ELSE 0
MoreSamples(n, c) == IF n < c THEN n + 1 ELSE c

\* Snapshot of a well-formed ring shows its slots from Start on.
LEMMA SnapshotIsShow ==
    ASSUME NEW c \in Nat \ {0}, NEW r \in Ring(c)
    PROVE  Snapshot(r) = Show(r.buf, r.head, r.count, c)
BY SlotOf DEF Snapshot, Show, Slot

\* Recording in a window that is not full appends.
LEMMA RecordWhenOpen ==
    ASSUME NEW T, NEW c \in Nat \ {0}, NEW w \in Seq(T), NEW s \in T,
           NEW n \in Nat, Len(w) = n, n < c
    PROVE  RecordIn(w, c, s) = [i \in 1 .. n + 1 |-> IF i <= n THEN w[i] ELSE s]
<1> DEFINE a == Append(w, s)
<1>1. a \in Seq(T) /\ Len(a) = n + 1
      /\ (\A i \in 1 .. n : a[i] = w[i]) /\ a[n + 1] = s
    BY AppendProperties
<1> HIDE DEF a
<1>2. Newest(a, c) = a
    BY <1>1 DEF Newest
<1>3. a = [i \in 1 .. n + 1 |-> IF i <= n THEN w[i] ELSE s]
    BY <1>1
<1>4. QED
    BY <1>2, <1>3 DEF RecordIn, a

\* Recording in a full window drops the oldest sample.
LEMMA RecordWhenFull ==
    ASSUME NEW T, NEW c \in Nat \ {0}, NEW w \in Seq(T), NEW s \in T, Len(w) = c
    PROVE  RecordIn(w, c, s) = [i \in 1 .. c |-> IF i < c THEN w[i + 1] ELSE s]
<1> DEFINE a == Append(w, s)
<1>1. a \in Seq(T) /\ Len(a) = c + 1
      /\ (\A i \in 1 .. c : a[i] = w[i]) /\ a[c + 1] = s
    BY AppendProperties
<1> HIDE DEF a
<1>2. Newest(a, c) = SubSeq(a, 2, c + 1)
    BY <1>1 DEF Newest
<1>3. SubSeq(a, 2, c + 1) = [i \in 1 .. c |-> a[i + 1]]
    BY <1>1
<1>4. [i \in 1 .. c |-> a[i + 1]] = [i \in 1 .. c |-> IF i < c THEN w[i + 1] ELSE s]
    BY <1>1
<1>5. QED
    BY <1>2, <1>3, <1>4 DEF RecordIn, a

\* The heart of the refinement, on plain indices: writing slot h and moving
\* on records the sample, evicting the oldest when the buffer is full.
LEMMA ShowPush ==
    ASSUME NEW T, NEW c \in Nat \ {0}, NEW h \in 0 .. c - 1, NEW n \in 0 .. c,
           NEW b, DOMAIN b = 0 .. c - 1, NEW s \in T,
           Show(b, h, n, c) \in Seq(T), Len(Show(b, h, n, c)) = n
    PROVE  Show([b EXCEPT ![h] = s], NextSlot(h, c), MoreSamples(n, c), c)
             = RecordIn(Show(b, h, n, c), c, s)
<1> DEFINE w == Show(b, h, n, c)
           b2 == [b EXCEPT ![h] = s]
           h2 == NextSlot(h, c)
           n2 == MoreSamples(n, c)
<1> USE DEF NextSlot, MoreSamples
<1>0. w \in Seq(T) /\ Len(w) = n
    OBVIOUS
<1>1. \A i \in 1 .. n : w[i] = b[Slot(h, n, c, i)]
    BY DEF Show
<1>2. \A j \in 0 .. c - 1 : b2[j] = IF j = h THEN s ELSE b[j]
    OBVIOUS
<1>3. \A i \in 1 .. n2 : Slot(h2, n2, c, i) \in 0 .. c - 1
    BY DEF Slot
<1>4. CASE n < c
    <2>1. \A i \in 1 .. n : Slot(h2, n2, c, i) = Slot(h, n, c, i) /\ Slot(h, n, c, i) # h
        BY <1>4 DEF Slot
    <2>2. Slot(h2, n2, c, n + 1) = h
        BY <1>4 DEF Slot
    <2>3. \A i \in 1 .. n + 1 : b2[Slot(h2, n2, c, i)] = IF i <= n THEN w[i] ELSE s
        <3> HIDE DEF b2, w
        <3> QED
            BY <1>1, <1>2, <1>3, <1>4, <2>1, <2>2
    <2>4. Show(b2, h2, n2, c) = [i \in 1 .. n + 1 |-> IF i <= n THEN w[i] ELSE s]
        <3> HIDE DEF b2, w
        <3> QED
            BY <1>4, <2>3 DEF Show
    <2>5. RecordIn(w, c, s) = [i \in 1 .. n + 1 |-> IF i <= n THEN w[i] ELSE s]
        BY <1>0, <1>4, RecordWhenOpen
    <2>6. QED
        BY <2>4, <2>5
<1>5. CASE n = c
    <2>1. \A i \in 1 .. c - 1 : Slot(h2, n2, c, i) = Slot(h, n, c, i + 1)
                                   /\ Slot(h, n, c, i + 1) # h
        BY <1>5 DEF Slot
    <2>2. Slot(h2, n2, c, c) = h
        BY <1>5 DEF Slot
    <2>3. \A i \in 1 .. c : b2[Slot(h2, n2, c, i)] = IF i < c THEN w[i + 1] ELSE s
        <3> HIDE DEF b2, w
        <3>1. ASSUME NEW i \in 1 .. c - 1
              PROVE  b2[Slot(h2, n2, c, i)] = w[i + 1]
            <4>1. b2[Slot(h2, n2, c, i)] = b[Slot(h, n, c, i + 1)]
                BY <1>2, <1>3, <1>5, <2>1
            <4>2. w[i + 1] = b[Slot(h, n, c, i + 1)]
                BY <1>1, <1>5
            <4>3. QED
                BY <4>1, <4>2
        <3>2. b2[Slot(h2, n2, c, c)] = s
            BY <1>2, <2>2
        <3> QED
            BY <3>1, <3>2
    <2>4. Show(b2, h2, n2, c) = [i \in 1 .. c |-> IF i < c THEN w[i + 1] ELSE s]
        <3> HIDE DEF b2, w
        <3> QED
            BY <1>5, <2>3 DEF Show
    <2>5. RecordIn(w, c, s) = [i \in 1 .. c |-> IF i < c THEN w[i + 1] ELSE s]
        BY <1>0, <1>5, RecordWhenFull
    <2>6. QED
        BY <2>4, <2>5
<1>6. QED
    BY <1>4, <1>5

\* Push keeps the buffer well formed, and moves its indices so.
LEMMA PushRing ==
    ASSUME NEW c \in Nat \ {0}, NEW r \in Ring(c), NEW s \in Sample
    PROVE  /\ Push(r, s) \in Ring(c)
           /\ Push(r, s).buf = [r.buf EXCEPT ![r.head] = s]
           /\ Push(r, s).head = NextSlot(r.head, c)
           /\ Push(r, s).count = MoreSamples(r.count, c)
<1> DEFINE x == r.head + 1
<1>1. /\ r.capacity = c /\ r.head \in 0 .. c - 1 /\ r.count \in 0 .. c
      /\ r.buf \in [0 .. c - 1 -> Sample \cup {ZeroSample}]
    BY DEF Ring
<1>2. x \in 0 .. 2 * c - 1
    BY <1>1
<1>3. x % c = IF x < c THEN x ELSE x - c
    <2> HIDE DEF x
    <2> QED
        BY <1>2, ModBelowTwice
<1>4. x % c = IF x < c THEN x ELSE 0
    BY <1>1, <1>3
<1>5. /\ Push(r, s).head = IF x < c THEN x ELSE 0
      /\ Push(r, s).buf = [r.buf EXCEPT ![r.head] = s]
      /\ Push(r, s).count = IF r.count < c THEN r.count + 1 ELSE r.count
      /\ Push(r, s).capacity = c
    <2> HIDE DEF x
    <2> QED
        BY <1>1, <1>4 DEF Push, x
<1>6. Push(r, s).head \in 0 .. c - 1 /\ Push(r, s).count \in 0 .. c
    BY <1>1, <1>5
<1>7. Push(r, s).buf \in [0 .. c - 1 -> Sample \cup {ZeroSample}]
    BY <1>1, <1>5
<1>8. Push(r, s) = [buf |-> Push(r, s).buf, head |-> Push(r, s).head,
                    count |-> Push(r, s).count, capacity |-> Push(r, s).capacity]
    BY DEF Push
<1>9. Push(r, s) \in Ring(c)
    <2> DEFINE q == Push(r, s)
    <2> HIDE DEF q
    <2>1. q \in Ring(c)
        BY <1>5, <1>6, <1>7, <1>8 DEF Ring, q
    <2> QED
        BY <2>1 DEF q
<1>10. QED
    BY <1>1, <1>5, <1>9 DEF NextSlot, MoreSamples

\* Pushing into the circular buffer records the sample in the window that
\* Snapshot shows.
LEMMA PushSnapshot ==
    ASSUME NEW c \in Nat \ {0}, NEW r \in Ring(c), NEW s \in Sample,
           \A i \in 1 .. r.count : Snapshot(r)[i] \in Sample
    PROVE  /\ Snapshot(Push(r, s)) = RecordIn(Snapshot(r), c, s)
           /\ \A i \in 1 .. Push(r, s).count : Snapshot(Push(r, s))[i] \in Sample
<1>1. /\ r.head \in 0 .. c - 1 /\ r.count \in 0 .. c
      /\ DOMAIN r.buf = 0 .. c - 1
    BY DEF Ring
<1>2. Snapshot(r) \in Seq(Sample) /\ Len(Snapshot(r)) = r.count
    BY SnapshotSeq
<1>3. Snapshot(r) = Show(r.buf, r.head, r.count, c)
    BY SnapshotIsShow
<1>4. /\ Push(r, s) \in Ring(c)
      /\ Push(r, s).buf = [r.buf EXCEPT ![r.head] = s]
      /\ Push(r, s).head = NextSlot(r.head, c)
      /\ Push(r, s).count = MoreSamples(r.count, c)
    BY PushRing
<1>5. Snapshot(Push(r, s)) = Show(Push(r, s).buf, Push(r, s).head, Push(r, s).count, c)
    BY <1>4, SnapshotIsShow
<1>6. Snapshot(Push(r, s)) = RecordIn(Snapshot(r), c, s)
    <2>1. Show([r.buf EXCEPT ![r.head] = s], NextSlot(r.head, c), MoreSamples(r.count, c), c)
            = RecordIn(Show(r.buf, r.head, r.count, c), c, s)
        BY <1>1, <1>2, <1>3, ShowPush
    <2>2. QED
        BY <1>3, <1>4, <1>5, <2>1
<1>7. RecordIn(Snapshot(r), c, s) \in Seq(Sample)
    BY <1>1, <1>2 DEF RecordIn, Newest
<1>8. DOMAIN Snapshot(Push(r, s)) = 1 .. Push(r, s).count
    BY DEF Snapshot
<1>9. \A i \in 1 .. Push(r, s).count : Snapshot(Push(r, s))[i] \in Sample
    BY <1>6, <1>7, <1>8, SeqElements
<1>10. QED
    BY <1>6, <1>9

-----------------------------------------------------------------------------
\* The invariant.

\* A new buffer, a pushed-to one and a reset one are all well formed.
LEMMA WellFormedNew ==
    ASSUME NEW n \in Int
    PROVE  WellFormed(NewRingBuffer(n))
BY NewBuffer DEF WellFormed

\* Push keeps a ring well formed.
LEMMA WellFormedPush ==
    ASSUME NEW r, WellFormed(r), NEW s \in Sample
    PROVE  /\ WellFormed(Push(r, s))
           /\ Push(r, s).capacity = r.capacity
           /\ Push(r, s).count = MoreSamples(r.count, r.capacity)
           /\ Snapshot(Push(r, s)) = RecordIn(Snapshot(r), r.capacity, s)
<1>1. Push(r, s).capacity = r.capacity
    BY DEF Push
<1>2. QED
    BY <1>1, PushRing, PushSnapshot DEF WellFormed

\* Reset keeps a ring well formed.
LEMMA WellFormedReset ==
    ASSUME NEW r, WellFormed(r)
    PROVE  /\ WellFormed(Reset(r))
           /\ Reset(r).capacity = r.capacity
           /\ Snapshot(Reset(r)) = <<>>
<1>1. /\ r.capacity \in Nat \ {0}
      /\ r.buf \in [0 .. r.capacity - 1 -> Sample \cup {ZeroSample}]
    BY DEF WellFormed, Ring
<1>2. Reset(r).capacity = r.capacity /\ Reset(r).count = 0
    BY DEF Reset
<1>3. Reset(r) \in Ring(r.capacity)
    BY <1>1 DEF Reset, Ring
<1>4. Snapshot(Reset(r)) = <<>>
    BY <1>2 DEF Snapshot
<1>5. QED
    BY <1>1, <1>2, <1>3, <1>4 DEF WellFormed

\* Snapshot of a well-formed ring is a sequence of samples.
LEMMA WellFormedSnapshot ==
    ASSUME NEW r, WellFormed(r)
    PROVE  Snapshot(r) \in Seq(Sample) /\ Len(Snapshot(r)) = r.count /\ r.count \in Nat
<1>1. r.count \in Nat
    BY DEF WellFormed, Ring
<1>2. QED
    BY <1>1, SnapshotSeq DEF WellFormed

\* What Configure keeps is a sequence of samples that fits.
LEMMA NewestFits ==
    ASSUME NEW w \in Seq(Sample), NEW n \in Nat \ {0}
    PROVE  Newest(w, n) \in Seq(Sample) /\ Len(Newest(w, n)) <= n
BY DEF Newest

\* Moving the head of the second sequence to the end of the first leaves
\* their concatenation alone.
LEMMA MoveHead ==
    ASSUME NEW w \in Seq(Sample), NEW t \in Seq(Sample), t # <<>>
    PROVE  /\ Head(t) \in Sample /\ Tail(t) \in Seq(Sample) /\ Len(Tail(t)) = Len(t) - 1
           /\ Append(w, Head(t)) \o Tail(t) = w \o t
<1>1. Head(t) \in Sample /\ Tail(t) \in Seq(Sample) /\ Len(Tail(t)) = Len(t) - 1
    BY HeadTailProperties
<1>2. Append(w, Head(t)) = w \o <<Head(t)>>
    BY <1>1, AppendIsConcat
<1>3. <<Head(t)>> \in Seq(Sample)
    BY <1>1
<1>4. (w \o <<Head(t)>>) \o Tail(t) = w \o (<<Head(t)>> \o Tail(t))
    BY <1>1, <1>3, ConcatAssociative
<1>5. <<Head(t)>> \o Tail(t) = t
    BY <1>1
<1>6. QED
    BY <1>1, <1>2, <1>4, <1>5

RingInv == TypeOK /\ CopyInv

\* A new buffer satisfies the invariant.
LEMMA RingInvInit == Init => RingInv
<1> SUFFICES ASSUME Init PROVE RingInv
    OBVIOUS
<1>1. \A n \in Retentions : WellFormed(NewRingBuffer(n))
    BY RetentionsAssumption, WellFormedNew
<1>2. WellFormed(NewRingBuffer(1))
    BY WellFormedNew
<1>3. WellFormed(ring) /\ WellFormed(resized) /\ resizing = FALSE /\ todo = <<>>
    BY <1>1, <1>2 DEF Init
<1>4. todo \in Seq(Sample)
    BY <1>3
<1>5. TypeOK
    BY <1>3, <1>4 DEF TypeOK
<1>6. CopyInv
    BY <1>3 DEF CopyInv
<1>7. QED
    BY <1>5, <1>6 DEF RingInv

\* Every step keeps the invariant.
LEMMA RingInvNext == RingInv /\ [Next]_vars => RingInv'
<1> SUFFICES ASSUME RingInv, [Next]_vars PROVE RingInv'
    OBVIOUS
<1> USE DEF RingInv
<1>1. ASSUME NEW s \in Sample, DoPush(s) PROVE RingInv'
    <2>1. TypeOK'
        BY <1>1, WellFormedPush DEF DoPush, TypeOK
    <2>2. CopyInv'
        BY <1>1 DEF DoPush, CopyInv
    <2>3. QED
        BY <2>1, <2>2
<1>2. CASE DoReset
    <2>1. TypeOK'
        BY <1>2, WellFormedReset DEF DoReset, TypeOK
    <2>2. CopyInv'
        BY <1>2 DEF DoReset, CopyInv
    <2>3. QED
        BY <2>1, <2>2
<1>3. ASSUME NEW n \in Retentions, BeginResize(n) PROVE RingInv'
    <2> DEFINE k == Configured(n)
    <2>1. k \in Nat \ {0} /\ Clamp(k) = k
        BY RetentionsAssumption, DefaultAssumption DEF Configured, Clamp
    <2> HIDE DEF k
    <2>2. /\ ~resizing /\ resizing' = TRUE /\ ring' = ring
          /\ todo' = Newest(Snapshot(ring), k) /\ resized' = NewRingBuffer(k)
        BY <1>3 DEF BeginResize, KeptOnResize, k
    <2>3. /\ WellFormed(NewRingBuffer(k)) /\ NewRingBuffer(k).capacity = k
          /\ NewRingBuffer(k).count = 0 /\ Snapshot(NewRingBuffer(k)) = <<>>
        BY <2>1, NewBuffer, WellFormedNew
    <2>4. Snapshot(ring) \in Seq(Sample)
        BY WellFormedSnapshot DEF TypeOK
    <2>5. Newest(Snapshot(ring), k) \in Seq(Sample) /\ Len(Newest(Snapshot(ring), k)) <= k
        BY <2>1, <2>4, NewestFits
    <2>6. TypeOK'
        BY <2>2, <2>3, <2>5 DEF TypeOK
    <2>7. <<>> \o Newest(Snapshot(ring), k) = Newest(Snapshot(ring), k)
        BY <2>5, ConcatEmptySeq
    <2>8. CopyInv'
        BY <2>1, <2>2, <2>3, <2>5, <2>7 DEF CopyInv
    <2>9. QED
        BY <2>6, <2>8
<1>4. CASE CopyOne
    <2> DEFINE h == Head(todo)
               w == Snapshot(resized)
    <2>1. /\ resizing /\ todo # <<>> /\ resized' = Push(resized, h)
          /\ todo' = Tail(todo) /\ ring' = ring /\ resizing' = resizing
        BY <1>4 DEF CopyOne
    <2>2. /\ w \in Seq(Sample) /\ Len(w) = resized.count /\ resized.count \in Nat
        BY WellFormedSnapshot DEF TypeOK
    <2>3. /\ h \in Sample /\ Tail(todo) \in Seq(Sample) /\ Len(Tail(todo)) = Len(todo) - 1
          /\ Append(w, h) \o Tail(todo) = w \o todo /\ Len(todo) \in Nat \ {0}
        BY <2>1, <2>2, MoveHead DEF TypeOK
    <2>4. /\ WellFormed(Push(resized, h)) /\ Push(resized, h).capacity = resized.capacity
          /\ Push(resized, h).count = MoreSamples(resized.count, resized.capacity)
          /\ Snapshot(Push(resized, h)) = RecordIn(w, resized.capacity, h)
        BY <2>3, WellFormedPush DEF TypeOK
    <2>5. resized.capacity \in Nat \ {0} /\ resized.count + Len(todo) <= resized.capacity
          /\ w \o todo = Newest(Snapshot(ring), resized.capacity)
        BY <2>1 DEF CopyInv, TypeOK, WellFormed
    <2> HIDE DEF h, w
    <2>6. TypeOK'
        BY <2>1, <2>3, <2>4 DEF TypeOK
    <2>7. RecordIn(w, resized.capacity, h) = Append(w, h)
        BY <2>2, <2>3, <2>5, AppendProperties DEF RecordIn, Newest
    <2>8. Push(resized, h).count = resized.count + 1
        BY <2>2, <2>3, <2>4, <2>5 DEF MoreSamples
    <2>9. CopyInv'
        <3>1. Snapshot(resized') \o todo' = Newest(Snapshot(ring'), resized'.capacity)
            BY <2>1, <2>3, <2>4, <2>5, <2>7
        <3>2. resized'.count + Len(todo') <= resized'.capacity
            BY <2>1, <2>2, <2>3, <2>4, <2>5, <2>8
        <3>3. QED
            BY <3>1, <3>2 DEF CopyInv
    <2>10. QED
        BY <2>6, <2>9
<1>5. CASE InstallResized
    <2>1. WellFormed(NewRingBuffer(1))
        BY WellFormedNew
    <2>2. QED
        BY <1>5, <2>1 DEF InstallResized, TypeOK, CopyInv
<1>6. CASE UNCHANGED vars
    BY <1>6 DEF vars, TypeOK, CopyInv
<1>7. QED
    BY <1>1, <1>2, <1>3, <1>4, <1>5, <1>6 DEF Next

\* The indices of the circular buffer never leave its bounds and Snapshot
\* never shows an unwritten slot: Push, Reset and Configure, any capacity.
THEOREM RingTypeOK == Spec => []TypeOK
<1>1. RingInv => TypeOK
    BY DEF RingInv
<1>2. QED
    BY <1>1, RingInvInit, RingInvNext, PTL DEF Spec

\* Configure's copy loses and reorders nothing it should keep.
THEOREM RingCopyInv == Spec => []CopyInv
<1>1. RingInv => CopyInv
    BY DEF RingInv
<1>2. QED
    BY <1>1, RingInvInit, RingInvNext, PTL DEF Spec

-----------------------------------------------------------------------------
\* The refinement.

\* The circular buffer of ringbuffer.go implements the bounded window: what
\* Snapshot returns is always the newest samples since the last Reset.
THEOREM RingImplementsWindow == Spec => ImplementsWindow
<1>1. Init => W!Init
    <2> SUFFICES ASSUME NEW n \in Retentions, ring = NewRingBuffer(n) PROVE W!Init
        BY DEF Init
    <2>1. Snapshot(NewRingBuffer(n)) = <<>> /\ NewRingBuffer(n).capacity \in Nat \ {0}
        BY RetentionsAssumption, NewBuffer
    <2>2. QED
        BY <2>1 DEF W!Init
<1>2. RingInv /\ [Next]_vars => [W!Next]_W!swVars
    <2> SUFFICES ASSUME RingInv, [Next]_vars PROVE [W!Next]_W!swVars
        OBVIOUS
    <2>1. ASSUME NEW s \in Sample, DoPush(s) PROVE W!Next
        <3>1. W!Record(s)
            BY <2>1, WellFormedPush DEF DoPush, RingInv, TypeOK, W!Record, W!RecordIn, RecordIn,
                 W!Newest, Newest
        <3>2. QED
            BY <3>1 DEF W!Next
    <2>2. CASE DoReset
        <3>1. W!Forget
            BY <2>2, WellFormedReset DEF DoReset, RingInv, TypeOK, W!Forget
        <3>2. QED
            BY <3>1 DEF W!Next
    <2>3. ASSUME NEW n \in Retentions, BeginResize(n) PROVE UNCHANGED W!swVars
        BY <2>3 DEF BeginResize, W!swVars
    <2>4. CASE CopyOne
        BY <2>4 DEF CopyOne, W!swVars
    <2>5. CASE InstallResized
        <3>1. resizing /\ todo = <<>> /\ ring' = resized
            BY <2>5 DEF InstallResized
        <3>2. Snapshot(resized) \o <<>> = Snapshot(resized)
            BY WellFormedSnapshot, ConcatEmptySeq DEF RingInv, TypeOK
        <3>3. Snapshot(resized) = Newest(Snapshot(ring), resized.capacity)
            BY <3>1, <3>2 DEF RingInv, CopyInv
        <3>4. W!ChangeRetention
            BY <3>1, <3>3 DEF RingInv, TypeOK, WellFormed, W!ChangeRetention, W!Newest, Newest
        <3>5. QED
            BY <3>4 DEF W!Next
    <2>6. CASE UNCHANGED vars
        BY <2>6 DEF vars, W!swVars
    <2>7. QED
        BY <2>1, <2>2, <2>3, <2>4, <2>5, <2>6 DEF Next
<1>3. QED
    BY <1>1, <1>2, RingInvInit, RingInvNext, PTL DEF Spec, ImplementsWindow, W!Spec
=============================================================================
