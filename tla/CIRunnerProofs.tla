--------------------------- MODULE CIRunnerProofs ---------------------------
(***************************************************************************)
(* Proofs about the commands of the CI runner: what each of them passes it *)
(* has seen, for every number of images, nodes, retries, configurations,   *)
(* alerts and restarts of the receiver.  The invariant is that of the      *)
(* integration run (IntegrationProofs) with those of the other two         *)
(* commands, which are proved here; one command runs and the variables of  *)
(* the others stay as they are.                                            *)
(***************************************************************************)
EXTENDS CIRunner, IntegrationProofs

-----------------------------------------------------------------------------
\* import-image-k3d.

ImportRun == [phase : {"local", "import", "discover", "verify", "passed", "failed"},
              seen : SUBSET K3DNodes, todo : SUBSET (Images \X K3DNodes),
              missing : BOOLEAN, imports : Nat]

\* An import is only begun while a try is left, and until something is missing
\* every pair that was looked at has been found.
ImportInv ==
    /\ retryCount \in RetryCounts /\ imp \in ImportRun
    /\ localImages \subseteq Images /\ nodes \subseteq K3DNodes
    /\ on \subseteq (Images \cup Others) \X K3DNodes
    /\ imp.imports <= 1 + retries
    /\ imp.phase \in {"local", "import"} => imp.imports <= retries
    /\ imp.phase = "verify" =>
        /\ imp.seen # {}
        /\ ~imp.missing =>
              \A p \in (Images \X imp.seen) \ imp.todo : \E r \in Accepted[p[1]] : <<r, p[2]>> \in found
    /\ PassedIsComplete

\* How often an import may be tried again.
LEMMA RetriesNat == retryCount \in RetryCounts => retries \in Nat
    BY ImportAssumption DEF retries

\* The initial state.
LEMMA ImportInvInit == ImportInit => ImportInv
    BY RetriesNat, ImportAssumption DEF ImportInit, ImportInv, ImportRun, PassedIsComplete

\* Every step keeps the invariant.
LEMMA ImportInvNext ==
    ASSUME ImportInv, ImportNext \/ UNCHANGED mvars
    PROVE  ImportInv'
<1> USE RetriesNat, ImportAssumption DEF ImportInv, ImportRun, PassedIsComplete, Phase, Goes
<1>0. retryCount' = retryCount /\ retries' = retries
    BY DEF ImportNext, Importer, AllLocal, importImages, discoverK3DNodes, Verified, PullImage,
       Verify, NodesChange, ImageDropped, mvars, retries
<1>1. ASSUME NEW i \in Images, PullImage(i) PROVE ImportInv'
    BY <1>0, <1>1 DEF PullImage
<1>2. CASE AllLocal
    BY <1>0, <1>2 DEF AllLocal
<1>3. CASE importImages
    <2>1. imp.imports \in Nat /\ imp.imports <= retries /\ retries \in Nat /\ imp.phase = "import"
        BY <1>3 DEF importImages
    <2> DEFINE n == IF imp.imports < MaxImports THEN imp.imports + 1 ELSE imp.imports
    <2>2. /\ n \in Nat /\ n <= 1 + retries
          /\ imp' = [imp EXCEPT !.phase = "discover", !.imports = n]
        <3>1. n \in Nat /\ n <= 1 + retries
            BY <2>1
        <3>2. imp' = [imp EXCEPT !.phase = "discover", !.imports = n]
            BY <1>3 DEF importImages
        <3>3. QED
            BY <3>1, <3>2
    <2> HIDE DEF n
    <2>3. imp' \in ImportRun /\ imp'.phase = "discover" /\ imp'.imports = n
        BY <2>2
    <2>4. QED
        BY <1>0, <1>3, <2>2, <2>3 DEF importImages
<1>4. CASE discoverK3DNodes
    <2>1. imp.imports \in Nat /\ imp.imports <= 1 + retries /\ imp.phase = "discover"
        BY <1>4 DEF discoverK3DNodes
    <2>2. CASE imp' = [imp EXCEPT !.phase = "failed"]
        BY <1>0, <1>4, <2>1, <2>2 DEF discoverK3DNodes
    <2>3. CASE /\ nodes # {}
               /\ imp' = [imp EXCEPT !.phase = "verify", !.seen = nodes, !.todo = Images \X nodes,
                                     !.missing = FALSE]
        <3>1. Images \X nodes \subseteq Images \X K3DNodes
            OBVIOUS
        <3>2. imp' \in ImportRun /\ imp'.phase = "verify" /\ imp'.seen = nodes
              /\ imp'.todo = Images \X nodes /\ imp'.imports = imp.imports
            BY <2>3, <3>1
        <3>3. QED
            BY <1>0, <1>4, <2>1, <2>3, <3>2 DEF discoverK3DNodes
    <2>4. QED
        BY <1>4, <2>2, <2>3 DEF discoverK3DNodes
<1>5. ASSUME NEW p \in Images \X K3DNodes, Verify(p) PROVE ImportInv'
    <2>1. PICK refs : /\ refs \subseteq nodeHasImage(p[1], p[2])
                      /\ imp' = [imp EXCEPT !.todo = @ \ {p}, !.missing = @ \/ refs = {}]
                      /\ found' = found \cup refs
        <3>1. PICK listed \in BOOLEAN :
                 LET refs == IF listed THEN nodeHasImage(p[1], p[2]) ELSE {}
                 IN  /\ imp' = [imp EXCEPT !.todo = @ \ {p}, !.missing = @ \/ refs = {}]
                     /\ found' = found \cup refs
            BY <1>5 DEF Verify
        <3>2. QED
            BY <3>1
    <2>2. refs # {} => \E r \in Accepted[p[1]] : <<r, p[2]>> \in refs
        <3>1. SUFFICES ASSUME NEW q \in refs PROVE \E r \in Accepted[p[1]] : <<r, p[2]>> \in refs
            OBVIOUS
        <3>2. q \in on /\ q[1] \in Accepted[p[1]] /\ q[2] = p[2]
            BY <2>1 DEF nodeHasImage
        <3>3. on \subseteq (Images \cup Others) \X K3DNodes
            OBVIOUS
        <3>4. q = <<q[1], q[2]>>
            BY <3>2, <3>3
        <3>5. QED
            BY <3>1, <3>2, <3>4
    <2>3. imp.phase = "verify" /\ p \in imp.todo
        BY <1>5 DEF Verify
    <2> DEFINE m == imp.missing \/ refs = {}
    <2>4. /\ imp' \in ImportRun /\ imp'.phase = "verify" /\ imp'.seen = imp.seen
          /\ imp'.todo = imp.todo \ {p} /\ imp'.imports = imp.imports /\ imp'.missing = m
        BY <2>1, <2>3
    <2>5. ~m => \A q \in (Images \X imp.seen) \ (imp.todo \ {p}) :
                   \E r \in Accepted[q[1]] : <<r, q[2]>> \in found'
        BY <2>1, <2>2, <2>3
    <2> HIDE DEF m
    <2>6. QED
        BY <1>0, <1>5, <2>3, <2>4, <2>5, ZenonT(60) DEF Verify
<1>6. CASE Verified
    <2>1. /\ imp.phase = "verify" /\ imp.todo = {} /\ imp.seen # {} /\ imp.imports <= 1 + retries
          /\ on' = on /\ found' = found /\ nodes' = nodes /\ localImages' = localImages
        BY <1>6 DEF Verified
    <2>2. ASSUME ~imp.missing
          PROVE  \A i \in Images, n \in imp.seen : \E r \in Accepted[i] : <<r, n>> \in found
        <3>1. TAKE i \in Images, n \in imp.seen
        <3> DEFINE p == <<i, n>>
        <3>2. p \in (Images \X imp.seen) \ imp.todo /\ p[1] = i /\ p[2] = n
            BY <2>1
        <3> HIDE DEF p
        <3>3. QED
            BY <2>1, <2>2, <3>2
    <2>3. CASE ~imp.missing
        <3>1. imp' = [imp EXCEPT !.phase = "passed"]
            BY <1>6, <2>3 DEF Verified
        <3>2. imp' \in ImportRun /\ imp'.phase = "passed" /\ imp'.seen = imp.seen
              /\ imp'.imports = imp.imports
            BY <3>1
        <3>3. QED
            BY <1>0, <2>1, <2>2, <2>3, <3>2
    <2>4. CASE imp.missing
        <3>1. PICK to \in {"import", "failed"} :
                 imp' = [imp EXCEPT !.phase = to] /\ (to = "import" => imp.imports <= retries)
            BY <1>6, <2>4 DEF Verified, MoreTries
        <3>2. imp' \in ImportRun /\ imp'.phase = to /\ imp'.imports = imp.imports
            BY <3>1
        <3>3. QED
            BY <1>0, <2>1, <3>1, <3>2
    <2>5. QED
        BY <2>3, <2>4
<1>7. CASE NodesChange
    BY <1>0, <1>7 DEF NodesChange
<1>8. CASE ImageDropped
    BY <1>0, <1>8 DEF ImageDropped
<1>9. CASE UNCHANGED mvars
    BY <1>0, <1>9 DEF mvars
<1>10. QED
    BY <1>1, <1>2, <1>3, <1>4, <1>5, <1>6, <1>7, <1>8, <1>9 DEF ImportNext, Importer

\* The invariant implies the type invariant of the command.
LEMMA ImportInvType == ImportInv => ImportTypeOK
    BY RetriesNat DEF ImportInv, ImportRun, ImportTypeOK

-----------------------------------------------------------------------------
\* The alert receiver and nightly-alert-delivery.

Night == [phase : {"rollout", "forward", "health", "baseline", "apply", "waiting", "failing",
                   "confirmed", "failed", "passed"},
          forward : {"none", "open", "closed"},
          baseline : [count : Int, synthetic : BOOLEAN]]

\* Until a write fails, every line of the log is one whole body that was answered.
WholeLines ==
    ~failed =>
        /\ ~torn
        /\ \A i \in DOMAIN log : \E w \in Written :
              log[i] = <<w>> /\ w.whole /\ w.body \in answered

\* The bodies in the log, and whether the synthetic alert is named in it.
BodiesIn(lines) ==
    {b \in Bodies : \E i \in DOMAIN lines : \E j \in DOMAIN lines[i] :
        lines[i][j].body = b /\ lines[i][j].whole}
NamedIn(lines) == \E i \in DOMAIN lines : \E j \in DOMAIN lines[i] : lines[i][j].named

AnsweredInLog == answered \subseteq BodiesIn(log)

\* What reached the log since the baseline was fetched is known.
FreshKnown ==
    night.baseline # NoBaseline /\ ~night.baseline.synthetic /\ NamedIn(log) => fresh

LogType == log \in Seq(Seq(Written) \ {<<>>}) /\ torn \in BOOLEAN /\ (torn => log # <<>>)

DeliveryInv ==
    /\ LogType
    /\ night \in Night /\ failed \in BOOLEAN /\ fresh \in BOOLEAN
    /\ answered \subseteq Bodies /\ writes \in 0 .. MaxLines
    /\ NightEnded => night.forward # "open"
    /\ night.phase \in {"apply", "waiting", "confirmed", "passed"} => night.baseline # NoBaseline
    /\ WholeLines /\ FreshKnown
    /\ AnsweredInLog /\ ConfirmedIsNew

\* An answer of /records that is no error has a record for every line.
LEMMA RecordsFacts ==
    ASSUME LogType
    PROVE  /\ Records.ok \in BOOLEAN /\ (Records.ok <=> Readable)
           /\ Records.ok =>
                /\ DOMAIN Records.records = DOMAIN log /\ Len(Records.records) \in Nat
                /\ \A i \in DOMAIN log :
                      /\ Records.records[i].text = log[i]
                      /\ Records.records[i].decoded <=> Len(log[i]) = 1 /\ log[i][1].whole
<1> DEFINE all == [i \in DOMAIN log |-> Record(log[i])]
<1>1. DOMAIN log = 1 .. Len(log) /\ Len(log) \in Nat
    BY DEF LogType
<1>2. /\ DOMAIN all = DOMAIN log /\ Len(all) = Len(log)
      /\ \A i \in DOMAIN log : /\ all[i].text = log[i]
                               /\ all[i].decoded <=> Len(log[i]) = 1 /\ log[i][1].whole
    <2>1. DOMAIN all = 1 .. Len(log) /\ \A i \in DOMAIN log : all[i] = Record(log[i])
        BY <1>1
    <2>2. Len(all) = Len(log)
        BY <1>1, <2>1
    <2>3. \A line : /\ Record(line).text = line
                    /\ Record(line).decoded <=> Len(line) = 1 /\ line[1].whole
        BY DEF Record
    <2> HIDE DEF all
    <2>4. QED
        BY <1>1, <2>1, <2>2, <2>3
<1>3. Readable \in BOOLEAN
    BY DEF Readable
<1>4. Records = IF Readable THEN [ok |-> TRUE, records |-> all] ELSE [ok |-> FALSE, records |-> <<>>]
    BY DEF Records
<1> HIDE DEF all
<1>5. CASE Readable
    <2>1. Records = [ok |-> TRUE, records |-> all]
        BY <1>4, <1>5
    <2>2. Records.ok = TRUE /\ Records.records = all
        BY <2>1
    <2>3. QED
        BY <1>1, <1>2, <1>5, <2>2
<1>6. CASE ~Readable
    <2>1. Records = [ok |-> FALSE, records |-> <<>>]
        BY <1>4, <1>6
    <2>2. Records.ok = FALSE
        BY <2>1
    <2>3. QED
        BY <1>6, <2>2
<1>7. QED
    BY <1>3, <1>5, <1>6

\* It holds the bodies that are in the log, and names the alert if the log does.
LEMMA RecordsOfLog ==
    ASSUME LogType, Records.ok
    PROVE  /\ WholeBodies(Records.records) = BodiesIn(log)
           /\ containsSyntheticAlert(Records.records) <=> NamedIn(log)
<1>1. DOMAIN Records.records = DOMAIN log
      /\ \A i \in DOMAIN log : Records.records[i].text = log[i]
    BY RecordsFacts
<1>2. WholeBodies(Records.records) \subseteq BodiesIn(log)
    <2> DEFINE rs == Records.records
    <2>1. SUFFICES ASSUME NEW b \in WholeBodies(rs) PROVE b \in BodiesIn(log)
        OBVIOUS
    <2> HIDE DEF rs
    <2>2. b \in Bodies
          /\ \E i \in DOMAIN rs : \E j \in DOMAIN rs[i].text : rs[i].text[j].body = b /\ rs[i].text[j].whole
        BY DEF WholeBodies
    <2>3. PICK i \in DOMAIN rs : \E j \in DOMAIN rs[i].text : rs[i].text[j].body = b /\ rs[i].text[j].whole
        BY <2>2
    <2>4. i \in DOMAIN log /\ rs[i].text = log[i]
        BY <1>1, <2>3 DEF rs
    <2>5. QED
        BY <2>2, <2>3, <2>4 DEF BodiesIn
<1>3. BodiesIn(log) \subseteq WholeBodies(Records.records)
    <2> DEFINE rs == Records.records
    <2>1. SUFFICES ASSUME NEW b \in BodiesIn(log) PROVE b \in WholeBodies(rs)
        OBVIOUS
    <2>2. PICK i \in DOMAIN log : \E j \in DOMAIN log[i] : log[i][j].body = b /\ log[i][j].whole
        BY DEF BodiesIn
    <2>3. i \in DOMAIN rs /\ rs[i].text = log[i] /\ b \in Bodies
        BY <1>1, <2>2 DEF BodiesIn
    <2> HIDE DEF rs
    <2>4. QED
        BY <2>2, <2>3 DEF WholeBodies
<1>4. containsSyntheticAlert(Records.records) <=> NamedIn(log)
    BY <1>1, Zenon DEF containsSyntheticAlert, NamedIn
<1>5. QED
    BY <1>2, <1>3, <1>4, Zenon

\* The log of a receiver that just started.
LEMMA NoLines == \A S : <<>> \in Seq(S) /\ DOMAIN <<>> = {}
    OBVIOUS

\* The initial state.
LEMMA DeliveryInvInit == DeliveryInit => DeliveryInv
<1> SUFFICES ASSUME DeliveryInit PROVE DeliveryInv
    OBVIOUS
<1>1. /\ log = <<>> /\ torn = FALSE /\ answered = {} /\ writes = 0 /\ failed = FALSE
      /\ fresh = FALSE /\ night = [phase |-> "rollout", forward |-> "none", baseline |-> NoBaseline]
    BY DEF DeliveryInit
<1>2. LogType
    BY <1>1, NoLines DEF LogType
<1>3. night \in Night /\ night.baseline = NoBaseline /\ night.phase = "rollout"
    BY <1>1 DEF Night, NoBaseline
<1>4. writes \in 0 .. MaxLines
    BY <1>1, DeliveryAssumption
<1>5. WholeLines /\ FreshKnown
    <2>1. DOMAIN log = {}
        BY <1>1, NoLines
    <2>2. QED
        BY <1>1, <1>3, <2>1 DEF WholeLines, FreshKnown
<1>6. AnsweredInLog /\ ConfirmedIsNew
    BY <1>1, <1>3 DEF AnsweredInLog, ConfirmedIsNew
<1>7. QED
    BY <1>1, <1>2, <1>3, <1>4, <1>5, <1>6 DEF DeliveryInv, NightEnded

\* What a write makes of the log: the elements there were stay where they are,
\* and the only new one is w, on a line of its own if the last one had ended.
LEMMA WriteEffect ==
    ASSUME LogType, NEW w \in Written, NEW ends \in BOOLEAN, Write(w, ends)
    PROVE  /\ LogType'
           /\ torn' = ~ends
           /\ \A i \in DOMAIN log : /\ i \in DOMAIN log'
                                    /\ \A j \in DOMAIN log[i] : j \in DOMAIN log'[i]
                                                              /\ log'[i][j] = log[i][j]
           /\ \E i \in DOMAIN log' : \E j \in DOMAIN log'[i] : log'[i][j] = w
           /\ \A i \in DOMAIN log' : \A j \in DOMAIN log'[i] :
                 \/ log'[i][j] = w
                 \/ i \in DOMAIN log /\ j \in DOMAIN log[i] /\ log'[i][j] = log[i][j]
           /\ ~torn => \A i \in DOMAIN log' : log'[i] = <<w>> \/ (i \in DOMAIN log /\ log'[i] = log[i])
<1> DEFINE n == Len(log)
<1>0. log \in Seq(Seq(Written) \ {<<>>}) /\ n \in Nat /\ DOMAIN log = 1 .. n
    BY DEF LogType
<1>1. CASE torn
    <2>1. n \in DOMAIN log /\ log[n] \in Seq(Written) /\ log[n] # <<>>
        BY <1>0, <1>1 DEF LogType
    <2> DEFINE l == Append(log[n], w)
    <2>2. l \in Seq(Written) /\ l # <<>> /\ Len(l) = Len(log[n]) + 1 /\ l[Len(log[n]) + 1] = w
          /\ \A j \in DOMAIN log[n] : j \in DOMAIN l /\ l[j] = log[n][j]
        BY <2>1
    <2>3. \A j \in DOMAIN l : l[j] = w \/ (j \in DOMAIN log[n] /\ l[j] = log[n][j])
        BY <2>1
    <2>4. log' = [log EXCEPT ![n] = l] /\ torn' = ~ends
        BY <1>1 DEF Write
    <2>5. Len(log[n]) + 1 \in DOMAIN l
        BY <2>1, <2>2
    <2> HIDE DEF l
    <2>6. log' \in Seq(Seq(Written) \ {<<>>}) /\ DOMAIN log' = DOMAIN log /\ log'[n] = l
          /\ \A i \in DOMAIN log : i # n => log'[i] = log[i]
        BY <1>0, <2>1, <2>2, <2>4
    <2>7. LogType'
        BY <1>0, <2>1, <2>4, <2>6 DEF LogType
    <2> HIDE DEF n
    <2>8. \A i \in DOMAIN log : /\ i \in DOMAIN log'
                               /\ \A j \in DOMAIN log[i] : j \in DOMAIN log'[i]
                                                         /\ log'[i][j] = log[i][j]
        BY <2>2, <2>6
    <2>9. \E i \in DOMAIN log' : \E j \in DOMAIN log'[i] : log'[i][j] = w
        BY <2>1, <2>2, <2>5, <2>6
    <2>10. \A i \in DOMAIN log' : \A j \in DOMAIN log'[i] :
                 \/ log'[i][j] = w
                 \/ i \in DOMAIN log /\ j \in DOMAIN log[i] /\ log'[i][j] = log[i][j]
        BY <2>3, <2>6
    <2>11. QED
        BY <1>1, <2>4, <2>7, <2>8, <2>9, <2>10
<1>2. CASE ~torn
    <2>1. log' = Append(log, <<w>>) /\ torn' = ~ends
        BY <1>2 DEF Write
    <2>2. <<w>> \in Seq(Written) \ {<<>>} /\ DOMAIN <<w>> = {1} /\ <<w>>[1] = w
        OBVIOUS
    <2> DEFINE l == <<w>>
    <2> HIDE DEF l
    <2>3. log' \in Seq(Seq(Written) \ {<<>>}) /\ log' # <<>>
        BY <1>0, <2>1, <2>2
    <2>4. DOMAIN log' = 1 .. n + 1 /\ log'[n + 1] = <<w>>
          /\ \A i \in DOMAIN log : i \in DOMAIN log' /\ log'[i] = log[i]
        BY <1>0, <2>1
    <2>5. \A i \in DOMAIN log' : i = n + 1 \/ i \in DOMAIN log
        BY <1>0, <2>4
    <2>6. LogType'
        BY <2>1, <2>3 DEF LogType
    <2>7. n + 1 \in DOMAIN log'
        BY <1>0, <2>4
    <2> HIDE DEF n
    <2>8. QED
        BY <2>1, <2>2, <2>4, <2>5, <2>6, <2>7
<1>3. QED
    BY <1>1, <1>2 DEF LogType

\* A post to the receiver keeps the invariant.
LEMMA PostKeeps ==
    ASSUME DeliveryInv, NEW b \in Bodies, Post(b)
    PROVE  DeliveryInv'
<1>1. PICK whole \in BOOLEAN, named \in BOOLEAN, ends \in BOOLEAN :
        LET w == [body |-> b, whole |-> whole, named |-> named]
        IN  /\ whole => named = (b \in Synthetic)
            /\ named => b \in Synthetic
            /\ ends => whole
            /\ Write(w, ends)
            /\ answered' = IF ends THEN answered \cup {b} ELSE answered
            /\ failed' = (failed \/ ~ends)
            /\ fresh' = (fresh \/ (night.baseline # NoBaseline /\ named))
    BY DEF Post
<1> DEFINE w == [body |-> b, whole |-> whole, named |-> named]
<1>2. w \in Written /\ w.body = b /\ w.whole = whole /\ w.named = named
    BY DEF Written
<1>3. Write(w, ends) /\ (ends => whole)
    BY <1>1
<1> HIDE DEF w
<1>4. /\ LogType /\ night \in Night /\ failed \in BOOLEAN /\ fresh \in BOOLEAN
      /\ answered \subseteq Bodies /\ writes \in 0 .. MaxLines
      /\ WholeLines /\ FreshKnown /\ AnsweredInLog /\ ConfirmedIsNew
    BY DEF DeliveryInv
<1>5. night' = night /\ writes' = writes + 1 /\ writes < MaxLines
    BY DEF Post
<1>6. answered' \subseteq Bodies /\ failed' \in BOOLEAN /\ fresh' \in BOOLEAN /\ writes' \in 0 .. MaxLines
    BY <1>1, <1>4, <1>5, DeliveryAssumption
<1>7. LogType'
    BY <1>2, <1>3, <1>4, WriteEffect
<1>8. WholeLines'
    <2>1. SUFFICES ASSUME ~failed'
                   PROVE  /\ ~torn'
                          /\ \A i \in DOMAIN log' : \E v \in Written :
                                log'[i] = <<v>> /\ v.whole /\ v.body \in answered'
        BY DEF WholeLines
    <2>2. ~failed /\ ends
        BY <1>1, <1>4, <2>1
    <2>3. ~torn /\ \A i \in DOMAIN log : \E v \in Written :
                       log[i] = <<v>> /\ v.whole /\ v.body \in answered
        BY <1>4, <2>2 DEF WholeLines
    <2>4. torn' = ~ends
          /\ \A i \in DOMAIN log' : log'[i] = <<w>> \/ (i \in DOMAIN log /\ log'[i] = log[i])
        BY <1>2, <1>3, <1>4, <2>3, WriteEffect
    <2>5. answered' = answered \cup {b}
        BY <1>1, <2>2
    <2>6. QED
        BY <1>2, <1>3, <2>2, <2>3, <2>4, <2>5, Zenon
<1>9. NamedIn(log') => NamedIn(log) \/ named
    <2>1. \A i \in DOMAIN log' : \A j \in DOMAIN log'[i] :
                 \/ log'[i][j] = w
                 \/ i \in DOMAIN log /\ j \in DOMAIN log[i] /\ log'[i][j] = log[i][j]
        BY <1>2, <1>3, <1>4, WriteEffect
    <2>2. QED
        BY <1>2, <2>1, Zenon DEF NamedIn
<1>10. FreshKnown'
    BY <1>1, <1>4, <1>5, <1>9, Zenon DEF FreshKnown
<1>11. ConfirmedIsNew'
    BY <1>1, <1>4, <1>5, Zenon DEF ConfirmedIsNew
<1>12. AnsweredInLog'
    <2>1. /\ \A i \in DOMAIN log : /\ i \in DOMAIN log'
                                   /\ \A j \in DOMAIN log[i] : j \in DOMAIN log'[i]
                                                             /\ log'[i][j] = log[i][j]
          /\ \E i \in DOMAIN log' : \E j \in DOMAIN log'[i] : log'[i][j] = w
        BY <1>2, <1>3, <1>4, WriteEffect
    <2>2. BodiesIn(log) \subseteq BodiesIn(log')
        BY <2>1, Zenon DEF BodiesIn
    <2>3. ends => b \in BodiesIn(log')
        BY <1>2, <1>3, <2>1, ZenonT(60) DEF BodiesIn
    <2>4. QED
        BY <1>1, <1>4, <2>2, <2>3, Zenon DEF AnsweredInLog
<1>13. QED
    BY <1>4, <1>5, <1>6, <1>7, <1>8, <1>10, <1>11, <1>12, Zenon DEF DeliveryInv, NightEnded

\* A restart of the receiver keeps the invariant.
LEMMA RestartKeeps ==
    ASSUME DeliveryInv, ReceiverRestarts
    PROVE  DeliveryInv'
<1>1. /\ log' = <<>> /\ torn' = FALSE /\ answered' = {} /\ failed' = FALSE
      /\ night' = night /\ writes' = writes /\ fresh' = fresh
    BY DEF ReceiverRestarts
<1>2. LogType' /\ DOMAIN log' = {}
    BY <1>1, NoLines DEF LogType
<1>3. WholeLines' /\ FreshKnown' /\ AnsweredInLog'
    BY <1>1, <1>2, Zenon DEF WholeLines, FreshKnown, AnsweredInLog, NamedIn
<1>4. QED
    BY <1>1, <1>2, <1>3 DEF DeliveryInv, NightEnded, ConfirmedIsNew

\* The nightly run keeps the invariant.
LEMMA NightKeeps ==
    ASSUME DeliveryInv, Nightly
    PROVE  DeliveryInv'
<1>1. receiver' = receiver
    BY DEF Nightly, NightFails, RolloutReady, StartForward, Healthy, FetchBaseline,
       applySyntheticRule, Confirm, CloseForward, NightGoes
<1>2. /\ log' = log /\ torn' = torn /\ answered' = answered /\ failed' = failed
      /\ writes' = writes /\ fresh' = fresh
    BY <1>1 DEF receiver
<1>3. /\ LogType' /\ failed' \in BOOLEAN /\ fresh' \in BOOLEAN
      /\ answered' \subseteq Bodies /\ writes' \in 0 .. MaxLines
      /\ WholeLines' /\ AnsweredInLog'
    BY <1>2, Zenon DEF DeliveryInv, LogType, WholeLines, AnsweredInLog
<1>4. night \in Night /\ FreshKnown /\ ConfirmedIsNew /\ LogType
      /\ (NightEnded => night.forward # "open")
      /\ (night.phase \in {"apply", "waiting", "confirmed", "passed"} => night.baseline # NoBaseline)
    BY DEF DeliveryInv
<1> DEFINE Goal == /\ night' \in Night /\ FreshKnown' /\ ConfirmedIsNew'
                   /\ (NightEnded' => night'.forward # "open")
                   /\ (night'.phase \in {"apply", "waiting", "confirmed", "passed"} => night'.baseline # NoBaseline)
<1> SUFFICES Goal
    BY <1>3, Zenon DEF DeliveryInv
<1>5. CASE FetchBaseline
    <2> DEFINE v == [count |-> Len(Records.records),
                     synthetic |-> containsSyntheticAlert(Records.records)]
    <2>1. Records.ok /\ night' = [night EXCEPT !.phase = "apply", !.baseline = v]
        BY <1>5 DEF FetchBaseline
    <2>2. /\ Len(Records.records) \in Nat /\ containsSyntheticAlert(Records.records) \in BOOLEAN
          /\ containsSyntheticAlert(Records.records) <=> NamedIn(log)
        BY <1>4, <2>1, RecordsFacts, RecordsOfLog DEF containsSyntheticAlert
    <2>3. v \in [count : Int, synthetic : BOOLEAN] /\ (v.synthetic <=> NamedIn(log)) /\ v # NoBaseline
        BY <2>2 DEF NoBaseline
    <2> HIDE DEF v
    <2>4. night' \in Night /\ night'.phase = "apply" /\ night'.baseline = v
        BY <1>4, <2>1, <2>3 DEF Night
    <2>5. QED
        BY <1>2, <2>3, <2>4 DEF FreshKnown, ConfirmedIsNew, NightEnded
<1>6. CASE CloseForward
    <2>1. night' \in Night /\ night'.baseline = night.baseline /\ night'.forward # "open"
          /\ night'.phase = (IF night.phase = "failing" THEN "failed" ELSE "passed")
          /\ night.phase \in {"failing", "confirmed"}
        BY <1>4, <1>6 DEF CloseForward, Night
    <2>2. QED
        BY <1>2, <1>4, <2>1 DEF FreshKnown, ConfirmedIsNew
<1>7. CASE StartForward
    <2>1. night' \in Night /\ night'.baseline = night.baseline /\ night'.phase \in {"health", "failing"}
        BY <1>4, <1>7 DEF StartForward, Night
    <2>2. QED
        BY <1>2, <1>4, <2>1 DEF FreshKnown, ConfirmedIsNew, NightEnded
<1>8. CASE Confirm
    <2>1. night' \in Night /\ night'.baseline = night.baseline /\ night'.phase = "confirmed"
          /\ night.phase = "waiting" /\ Records.ok /\ containsSyntheticAlert(Records.records)
        BY <1>4, <1>8 DEF Confirm, NightGoes, Night, Arrived
    <2>2. NamedIn(log)
        BY <1>4, <2>1, RecordsOfLog
    <2>3. QED
        BY <1>2, <1>4, <2>1, <2>2 DEF FreshKnown, ConfirmedIsNew, NightEnded
<1>9. CASE applySyntheticRule
    <2>1. night' \in Night /\ night'.baseline = night.baseline /\ night'.phase = "waiting"
          /\ night.phase = "apply"
        BY <1>4, <1>9 DEF applySyntheticRule, Night
    <2>2. QED
        BY <1>2, <1>4, <2>1 DEF FreshKnown, ConfirmedIsNew, NightEnded
<1>10. CASE NightFails \/ RolloutReady \/ Healthy
    <2>1. night' \in Night /\ night'.baseline = night.baseline
          /\ night'.phase \in {"failing", "forward", "baseline"}
        BY <1>4, <1>10 DEF NightFails, RolloutReady, Healthy, NightGoes, Night
    <2>2. QED
        BY <1>2, <1>4, <2>1 DEF FreshKnown, ConfirmedIsNew, NightEnded
<1>11. QED
    BY <1>5, <1>6, <1>7, <1>8, <1>9, <1>10 DEF Nightly

\* Every step keeps the invariant.
LEMMA DeliveryInvNext ==
    ASSUME DeliveryInv, DeliveryNext \/ UNCHANGED dvars
    PROVE  DeliveryInv'
<1>1. CASE UNCHANGED dvars
    <2>1. /\ log' = log /\ torn' = torn /\ answered' = answered /\ failed' = failed
          /\ writes' = writes /\ fresh' = fresh /\ night' = night
        BY <1>1 DEF dvars, receiver
    <2>2. QED
        BY <2>1, Zenon DEF DeliveryInv, LogType, WholeLines, FreshKnown, AnsweredInLog,
           ConfirmedIsNew, NightEnded
<1>2. QED
    BY <1>1, PostKeeps, RestartKeeps, NightKeeps DEF DeliveryNext

\* The size of a line with one whole body on it.
LEMMA SizeOfLine ==
    ASSUME NEW w \in Written, w.whole
    PROVE  LineSize(<<w>>) = Encoded[w.body]
<1> DEFINE n == Encoded[w.body]
           I(g) == [s \in SUBSET {1} |->
                      IF s = {} THEN 0
                      ELSE LET x == CHOOSE x \in s : TRUE
                           IN  g[s \ {x}] + (IF <<w>>[x].whole THEN Encoded[<<w>>[x].body] ELSE 1)]
           c == CHOOSE g : g = I(g)
           z == [s \in SUBSET {1} |-> IF s = {} THEN 0 ELSE n]
<1>1. LineSize(<<w>>) = c[{1}]
    BY DEF LineSize, FoldSeq, FoldFunction, FoldFunctionOnSet, MapThenFoldSet
<1>2. n \in Nat /\ SUBSET {1} = {{}, {1}} /\ (CHOOSE x \in {1} : TRUE) = 1 /\ <<w>>[1] = w
    BY DeliveryAssumption DEF Written
<1>3. \A g : I(g)[{}] = 0 /\ I(g)[{1}] = g[{}] + n
    BY <1>2
<1>4. z = I(z)
    <2>1. DOMAIN I(z) = {{}, {1}} /\ DOMAIN z = {{}, {1}}
        BY <1>2
    <2>2. z[{}] = 0 /\ z[{1}] = n
        BY <1>2
    <2>3. I(z)[{}] = z[{}] /\ I(z)[{1}] = z[{1}]
        BY <1>2, <1>3, <2>2
    <2>4. \A s \in SUBSET {1} : I(z)[s] = z[s]
        BY <1>2, <2>3
    <2> DEFINE y == I(z)
    <2>5. y = [s \in SUBSET {1} |-> y[s]] /\ z = [s \in SUBSET {1} |-> z[s]]
        OBVIOUS
    <2> HIDE DEF I, z
    <2>6. QED
        BY <2>4, <2>5
<1> HIDE DEF z
<1>5. c = I(c)
    <2> HIDE DEF I
    <2>1. QED
        BY <1>4
<1> HIDE DEF c
<1>6. c[{}] = 0 /\ c[{1}] = c[{}] + n
    <2>1. I(c)[{}] = 0 /\ I(c)[{1}] = c[{}] + n
        BY <1>3
    <2> HIDE DEF I
    <2>2. QED
        BY <1>5, <2>1
<1>7. QED
    BY <1>1, <1>2, <1>6

\* The invariant implies the types and what the receiver promises.
LEMMA DeliveryInvImplies == DeliveryInv => DeliveryTypeOK /\ RecordsKept /\ ConfirmedIsNew
<1> SUFFICES ASSUME DeliveryInv PROVE DeliveryTypeOK /\ RecordsKept /\ ConfirmedIsNew
    OBVIOUS
<1>1. \A i \in DOMAIN log : log[i] # <<>> /\ \A j \in DOMAIN log[i] : log[i][j] \in Written
    BY DEF DeliveryInv, LogType
<1>2. DeliveryTypeOK
    <2>1. night.forward \in {"none", "open", "closed"}
        BY DEF DeliveryInv, Night
    <2>2. QED
        BY <1>1, <2>1 DEF DeliveryInv, DeliveryTypeOK, LogType
<1>3. LogReadable
    <2>1. SUFFICES ASSUME ~failed, \A b \in answered : Encoded[b] < MaxLine,
                          NEW i \in DOMAIN log
                   PROVE  LineSize(log[i]) < MaxLine
        BY RecordsFacts DEF LogReadable, Readable, DeliveryInv
    <2>2. PICK w \in Written : log[i] = <<w>> /\ w.whole /\ w.body \in answered
        BY <2>1 DEF DeliveryInv, WholeLines
    <2>3. Encoded[w.body] < MaxLine
        BY <2>1, <2>2
    <2>4. QED
        BY <2>2, <2>3, SizeOfLine
<1>4. AnsweredIsRecorded
    <2>1. SUFFICES ASSUME Records.ok
                   PROVE  /\ answered \subseteq WholeBodies(Records.records)
                          /\ ~failed => answered \subseteq DecodedBodies(Records.records)
        BY DEF AnsweredIsRecorded
    <2>2. LogType /\ AnsweredInLog /\ WholeLines /\ answered \subseteq Bodies
        BY DEF DeliveryInv
    <2>3. answered \subseteq WholeBodies(Records.records)
        BY <2>1, <2>2, RecordsOfLog DEF AnsweredInLog
    <2>4. ASSUME ~failed, NEW b \in answered PROVE b \in DecodedBodies(Records.records)
        <3>1. PICK i \in DOMAIN log : \E j \in DOMAIN log[i] : log[i][j].body = b /\ log[i][j].whole
            BY <2>2 DEF AnsweredInLog, BodiesIn
        <3>2. PICK w \in Written : log[i] = <<w>> /\ w.whole
            BY <2>2, <2>4, <3>1 DEF WholeLines
        <3>3. Len(log[i]) = 1 /\ log[i][1] = w /\ DOMAIN log[i] = {1}
            BY <3>2
        <3>4. w.body = b
            BY <3>1, <3>3
        <3>5. /\ i \in DOMAIN Records.records /\ Records.records[i].decoded
              /\ Records.records[i].text = log[i]
            BY <2>1, <2>2, <3>1, <3>2, <3>3, RecordsFacts
        <3>6. QED
            BY <2>2, <3>3, <3>4, <3>5, Zenon DEF DecodedBodies
    <2>5. QED
        BY <2>3, <2>4
<1>5. QED
    BY <1>2, <1>3, <1>4 DEF DeliveryInv, RecordsKept
-----------------------------------------------------------------------------
\* The commands together.

CIInv == IntegrationInv /\ DeliveryInv /\ ImportInv

\* The invariant of the three commands: whichever is run, it keeps its own part and
\* does not touch those of the others.
THEOREM CIInvariant == Spec => []CIInv
<1>1. Init => CIInv
    BY IntegrationInvInit, DeliveryInvInit, ImportInvInit DEF Init, CIInv
<1>2. CIInv /\ [Next]_vars => CIInv'
    <2>1. SUFFICES ASSUME CIInv, [Next]_vars PROVE CIInv'
        OBVIOUS
    <2>2. /\ IntegrationNext \/ UNCHANGED ivars
          /\ DeliveryNext \/ UNCHANGED dvars
          /\ ImportNext \/ UNCHANGED mvars
        BY <2>1, Zenon DEF Next, Integrating, Delivering, Importing, Stopped, vars
    <2>3. QED
        BY <2>1, <2>2, IntegrationInvNext, DeliveryInvNext, ImportInvNext DEF CIInv
<1>3. QED
    BY <1>1, <1>2, PTL DEF Spec

\* The commands keep their types: in particular the runner has a copy of the
\* Deployment only while it updates it, and no receiver has failed more
\* notifications than it was sent.
THEOREM CommandTypes == Spec => []CITypeOK
<1>1. CIInv => CITypeOK
    BY IntegrationInvImplies, DeliveryInvImplies, ImportInvType DEF CIInv, CITypeOK
<1>2. QED
    BY <1>1, CIInvariant, PTL

\* An integration run ends with a report that tells its result, whatever failed and
\* whatever was excused, and with every port forward closed (Run and its deferred
\* renderValidationReport and closePortForwards).
THEOREM RunEndsProperly == Spec => []EndsProperly
<1>1. CIInv => EndsProperly
    BY IntegrationInvImplies DEF CIInv, EndsProperly
<1>2. QED
    BY <1>1, CIInvariant, PTL

\* What a command passes it has seen: a pod of the configured manager since it was
\* configured, a reconcile of the plan since it was applied, insights in strict mode, a
\* delivery of this run or one that was left, the alert of this night, every image on
\* every node.
THEOREM CommandsPassWhatTheySaw == Spec => []PassMeansSeen
<1>1. CIInv => PassMeansSeen
    BY IntegrationInvImplies, DeliveryInvImplies DEF CIInv, ImportInv, PassMeansSeen
<1>2. QED
    BY <1>1, CIInvariant, PTL

\* Every answer of /records has what the receiver answered for since it started, across
\* failed writes and torn lines, and it does answer while no write has failed and every
\* body it took fits the scanner's line.
THEOREM ReceiverRecordsKept == Spec => []RecordsKept
<1>1. CIInv => RecordsKept
    BY DeliveryInvImplies DEF CIInv
<1>2. QED
    BY <1>1, CIInvariant, PTL
=============================================================================
