---------------------------- MODULE ImageImport ----------------------------
(***************************************************************************)
(* internal/cirunner/import_image.go, RunImportImageK3D: make the images   *)
(* local, import them into the cluster and verify them on every node, with *)
(* retries.  An import may do only a part of its work and its error is     *)
(* ignored; nodes come and go, and may drop images they hold.              *)
(***************************************************************************)
EXTENDS Integers, FiniteSets

CONSTANTS
    Images,       \* unique names of the images
    Others,       \* references to other images that nodes may hold
    Accepted,     \* [Images -> sets of references]: what nodeHasImage takes for the image
    K3DNodes,     \* nodes the cluster may have
    RetryCounts,  \* values of ImportRetryCount
    MaxImports    \* bound: imports are counted up to it

ASSUME ImportAssumption ==
    /\ IsFiniteSet(Images \X K3DNodes)
    /\ RetryCounts \subseteq Int /\ MaxImports \in Nat
    /\ \A n \in RetryCounts : n + 1 < MaxImports
    /\ Accepted \in [Images -> SUBSET (Images \cup Others)]
    /\ \A i \in Images : i \in Accepted[i]

VARIABLES
    retryCount, imp,   \* the run: phase, nodes seen, pairs to look at, missing, imports
    localImages,       \* images the runner's docker has
    nodes,             \* nodes of the cluster
    on,                \* pairs of reference and node
    found              \* history: pairs found in this verification

mvars == <<retryCount, imp, localImages, nodes, on, found>>

ImportInit ==
    /\ retryCount \in RetryCounts
    /\ imp = [phase |-> "local", seen |-> {}, todo |-> {}, missing |-> FALSE,
              imports |-> 0]
    /\ localImages \in SUBSET Images
    /\ nodes \in SUBSET K3DNodes
    /\ on \in SUBSET (Others \X nodes) /\ found = {}

Phase(p) == imp.phase = p
Goes(p) == imp' = [imp EXCEPT !.phase = p]

\* ensureLocalImages: pull what docker does not have.
PullImage(i) ==
    /\ Phase("local") /\ i \notin localImages
    /\ \/ localImages' = localImages \cup {i} /\ UNCHANGED imp
       \/ Goes("failed") /\ UNCHANGED localImages
    /\ UNCHANGED <<retryCount, nodes, on, found>>

AllLocal ==
    /\ Phase("local") /\ localImages = Images
    /\ Goes("import")
    /\ UNCHANGED <<retryCount, localImages, nodes, on, found>>

\* importImages.
importImages ==
    /\ Phase("import")
    /\ \E done \in SUBSET (Images \X nodes) : on' = on \cup done
    /\ imp' = [imp EXCEPT !.phase = "discover",
                              !.imports = IF @ < MaxImports THEN @ + 1 ELSE @]
    /\ UNCHANGED <<retryCount, localImages, nodes, found>>

\* verifyImagesOnNodes: list the nodes, then look for each image on each.
discoverK3DNodes ==
    /\ Phase("discover")
    /\ \/ /\ nodes # {}
          /\ imp' = [imp EXCEPT !.phase = "verify", !.seen = nodes, !.todo = Images \X nodes,
                                !.missing = FALSE]
          /\ found' = {}
       \/ Goes("failed") /\ UNCHANGED found
    /\ UNCHANGED <<retryCount, localImages, nodes, on>>

\* The references on a node that count as the image: its own, with the registry spelt
\* out, and any with that name and tag, whatever the registry.
nodeHasImage(i, n) == {p \in on : p[1] \in Accepted[i] /\ p[2] = n}

\* A node whose images cannot be listed misses the image.
Verify(pair) ==
    /\ Phase("verify") /\ pair \in imp.todo
    /\ \E listed \in BOOLEAN :
         LET refs == IF listed THEN nodeHasImage(pair[1], pair[2]) ELSE {}
         IN  /\ imp' = [imp EXCEPT !.todo = @ \ {pair}, !.missing = @ \/ refs = {}]
             /\ found' = found \cup refs
    /\ UNCHANGED <<retryCount, localImages, nodes, on>>

retries == IF retryCount < 0 THEN 0 ELSE retryCount

\* Mutant: the first import counts as a retry that is left.
MoreTriesOneMore == imp.imports <= retries + 1

\* Mutant: it is retried until it succeeds.
MoreTriesAlways == TRUE

MoreTries == imp.imports <= retries

Verified ==
    /\ Phase("verify") /\ imp.todo = {}
    /\ Goes(IF ~imp.missing THEN "passed" ELSE IF MoreTries THEN "import" ELSE "failed")
    /\ UNCHANGED <<retryCount, localImages, nodes, on, found>>

\* The cluster.
ImportEnded == imp.phase \in {"passed", "failed"}
NodesChange ==
    /\ imp.phase \in {"discover", "verify"}
    /\ \E n \in K3DNodes :
         nodes' = IF n \in nodes THEN nodes \ {n} ELSE nodes \cup {n}
    /\ on' = {p \in on : p[2] \in nodes'}
    /\ UNCHANGED <<retryCount, imp, localImages, found>>
ImageDropped ==
    /\ Phase("verify")
    /\ \E p \in on : on' = on \ {p}
    /\ UNCHANGED <<retryCount, imp, localImages, nodes, found>>

Importer ==
    \/ AllLocal \/ importImages \/ discoverK3DNodes \/ Verified
    \/ \E i \in Images : PullImage(i)
    \/ \E p \in Images \X K3DNodes : Verify(p)

ImportNext == Importer \/ NodesChange \/ ImageDropped

-----------------------------------------------------------------------------
\* Type invariant; there are never more imports than one and the retries.
ImportTypeOK ==
    /\ imp.phase \in {"local", "import", "discover", "verify", "passed", "failed"}
    /\ imp.todo \subseteq Images \X K3DNodes
    /\ imp.imports \in 0 .. 1 + retries
    /\ localImages \subseteq Images /\ nodes \subseteq K3DNodes

\* A run that passes has found, in one verification after its last import, every image
\* on every node that was listed for it, under a reference that counts as the image: the
\* image itself where the nodes hold no other of its name and tag.  A listing that
\* failed, an import that did half its work or an image dropped after an earlier
\* verification is not taken for presence.
PassedIsComplete ==
    imp.phase = "passed" =>
        /\ imp.seen # {}
        /\ \A i \in Images, n \in imp.seen : \E r \in Accepted[i] : <<r, n>> \in found
=============================================================================
