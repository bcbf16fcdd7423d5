---------------------------- MODULE SnapshotProofs ----------------------------
(***************************************************************************)
(* Snapshots are captured whole and restored whole for every set of paths  *)
(* with directories one deep, and for any number of edits by another       *)
(* program, failures, kills and rotten snapshots.                          *)
(*                                                                         *)
(* SnapshotInv is inductive.  It says of the paths that a call has passed, *)
(* and of those it has not, what the tree, the manifest and the staged     *)
(* files are.                                                              *)
(***************************************************************************)
EXTENDS Snapshot, FiniteSetTheorems, TLAPS

\* The paths that the current walk or copy has not passed.
RestFrom(k) == {Order[j] : j \in k..Len(Order)}
Rest == RestFrom(i)

\* What a capture may find: no temporary file, and no file in a file.
FileTree(m) ==
  m[temp] = None /\ \A p \in DOMAIN Parent : m[p] # None => m[Parent[p]] = None

\* Which call is under way, and for whom.
Restoring == pc \in {"remove", "place", "rename"} \/ (pc = "walk" /\ goal # "capture")
Capturing == pc = "copy" \/ (pc = "walk" /\ goal = "capture")
Calls ==
  /\ pc # "idle" => outcome = "none" /\ attempted = None
  /\ pc # "idle" /\ calm => still
  /\ Restoring => best # None /\ unsettled
  /\ Capturing => ~unsettled
  /\ unsettled => attempted = None
  /\ unsettled => best # None
  /\ pc # "copy" => staged = Empty

\* The temporary file is there while it is renamed, and after a kill until the
\* next restoration has removed it.
TempFile ==
  tree[temp] # None =>
    \/ pc = "rename"
    \/ pc = "idle" /\ unsettled
    \/ pc = "walk" /\ goal = "current"
    \/ pc = "remove" /\ temp \in Rest

\* What the walk has found of the paths it has passed.
Walking ==
  pc = "walk" =>
    /\ \A p \in Rest : manifest[p] = None
    /\ \A p \in DOMAIN Parent : manifest[p] # None => manifest[Parent[p]] = None
    /\ temp \notin Rest => manifest[temp] = tree[temp]
    /\ still => \A p \in Paths \ Rest : manifest[p] = tree[p]

Copying ==
  pc = "copy" =>
    /\ FileTree(manifest)
    /\ still => manifest = tree
    /\ \A p \in Paths : staged[p] = IF p \in Rest THEN None ELSE manifest[p]

Removing ==
  pc = "remove" =>
    /\ temp \in Rest => manifest[temp] = tree[temp]
    /\ calm => \A p \in Paths : IF p \in Rest THEN manifest[p] = tree[p]
                                ELSE tree[p] # None => best[p] # None

Placing ==
  /\ pc \in {"place", "rename"} /\ calm =>
       \A p \in Paths \ {temp} : IF p \in Rest THEN tree[p] # None => best[p] # None
                                 ELSE tree[p] = best[p]
  /\ pc = "rename" =>
       /\ ~AtEnd /\ best[Here] # None /\ tree[temp] = best[Here]
       /\ calm => ParentOf(Here) \subseteq dirs
  /\ pc = "walk" /\ goal = "verify" /\ calm => tree = best

Stored == \A id \in DOMAIN store : FileTree(id)

SnapshotInv ==
  /\ TypeOK
  /\ Stored /\ Calls /\ TempFile /\ Walking /\ Copying /\ Removing /\ Placing
  /\ CalmRestoreSucceeds

------------------------------------------------------------------------------
(* Places in the order of a walk.                                           *)

LEMMA OrderFacts ==
  /\ Len(Order) \in Nat /\ Len(Order) >= 1
  /\ \A j \in 1..Len(Order) : Order[j] \in Paths
  /\ \A p \in Paths : \E j \in 1..Len(Order) : p = Order[j]
  /\ temp \in Paths
<1>1. Len(Order) \in Nat /\ Len(Order) >= 1
  BY SnapshotAssumption
<1>2. \A j \in 1..Len(Order) : Order[j] \in Paths
  BY DEF Paths
<1>3. \A p \in Paths : \E j \in 1..Len(Order) : p = Order[j]
  BY DEF Paths
<1> QED  BY <1>1, <1>2, <1>3 DEF temp

LEMMA RestFacts ==
  /\ RestFrom(1) = Paths
  /\ \A k \in 1..(Len(Order) + 1) :
       /\ RestFrom(k) \subseteq Paths
       /\ temp \in RestFrom(k) <=> k = 1
       /\ k > Len(Order) => RestFrom(k) = {}
       /\ k <= Len(Order) =>
            /\ Order[k] \in RestFrom(k)
            /\ RestFrom(k + 1) = RestFrom(k) \ {Order[k]}
<1>1. RestFrom(1) = Paths
  BY DEF RestFrom, Paths
<1>2. SUFFICES ASSUME NEW k \in 1..(Len(Order) + 1)
               PROVE  /\ RestFrom(k) \subseteq Paths
                      /\ temp \in RestFrom(k) <=> k = 1
                      /\ k > Len(Order) => RestFrom(k) = {}
                      /\ k <= Len(Order) =>
                           /\ Order[k] \in RestFrom(k)
                           /\ RestFrom(k + 1) = RestFrom(k) \ {Order[k]}
  BY <1>1
<1>3. Len(Order) \in Nat /\ Len(Order) >= 1 /\ k \in Nat /\ k >= 1
  BY OrderFacts
<1>4. \A j, l \in 1..Len(Order) : Order[j] = Order[l] => j = l
  BY SnapshotAssumption
<1>5. RestFrom(k) \subseteq Paths
  BY <1>3 DEF RestFrom, Paths
<1>6. temp \in RestFrom(k) <=> k = 1
  BY <1>3, <1>4 DEF RestFrom, temp
<1>7. k > Len(Order) => RestFrom(k) = {}
  BY <1>3 DEF RestFrom
<1>8. ASSUME k <= Len(Order)
      PROVE  /\ Order[k] \in RestFrom(k)
             /\ RestFrom(k + 1) = RestFrom(k) \ {Order[k]}
  <2>1. Order[k] \in RestFrom(k)
    BY <1>3, <1>8 DEF RestFrom
  <2>2. ASSUME NEW p \in RestFrom(k + 1)  PROVE p \in RestFrom(k) /\ p # Order[k]
    BY <1>3, <1>4, <1>8, <2>2 DEF RestFrom
  <2>3. ASSUME NEW p \in RestFrom(k), p # Order[k]  PROVE p \in RestFrom(k + 1)
    <3>1. PICK j \in k..Len(Order) : p = Order[j]
      BY <2>3 DEF RestFrom
    <3>2. j \in (k + 1)..Len(Order)
      BY <1>3, <2>3, <3>1
    <3> QED  BY <3>1, <3>2 DEF RestFrom
  <2> QED  BY <2>1, <2>2, <2>3
<1> QED  BY <1>5, <1>6, <1>7, <1>8

\* What is in a directory comes after it.
LEMMA ParentFirst ==
  ASSUME NEW k \in 1..(Len(Order) + 1), NEW p \in DOMAIN Parent
  PROVE  /\ Parent[p] \in RestFrom(k) => p \in RestFrom(k)
         /\ k <= Len(Order) /\ p = Order[k] => Parent[p] \notin RestFrom(k)
         /\ p \in Paths /\ p # temp /\ Parent[p] \in Paths /\ Parent[p] # temp
         /\ Parent[p] # p /\ Parent[p] \notin DOMAIN Parent
<1>1. /\ p \in Paths /\ p # temp /\ Parent[p] \in Paths /\ Parent[p] # temp
      /\ Parent[p] # p /\ Parent[p] \notin DOMAIN Parent
  BY SnapshotAssumption
<1>2. PICK a \in 1..Len(Order) : p = Order[a]
  BY <1>1, OrderFacts
<1>3. /\ \A j, l \in 1..Len(Order) : Order[j] = Order[l] => j = l
      /\ \A j \in 1..Len(Order) : Parent[p] = Order[j] => j < a
  BY <1>2, SnapshotAssumption
<1>4. ASSUME Parent[p] \in RestFrom(k)  PROVE p \in RestFrom(k) /\ k < a
  <2>1. PICK j \in k..Len(Order) : Parent[p] = Order[j]
    BY <1>4 DEF RestFrom
  <2>2. j \in 1..Len(Order)
    BY OrderFacts
  <2>3. j < a
    BY <1>3, <2>1, <2>2
  <2>4. k < a /\ a \in k..Len(Order)
    BY <2>3, OrderFacts
  <2> QED  BY <1>2, <2>4 DEF RestFrom
<1>5. k \in Int /\ a \in Int /\ Len(Order) \in Nat
  BY OrderFacts
<1>6. ASSUME k <= Len(Order), p = Order[k]  PROVE k = a
  <2>1. k \in 1..Len(Order)
    BY <1>5, <1>6
  <2> QED  BY <1>2, <1>3, <1>6, <2>1
<1> QED  BY <1>1, <1>4, <1>5, <1>6

\* The path at which a loop stands, and the paths left when it goes on.
LEMMA HereFacts ==
  ASSUME TypeOK, ~AtEnd
  PROVE  /\ i \in 1..Len(Order) /\ i + 1 \in 1..(Len(Order) + 1)
         /\ Here \in Rest /\ Rest \subseteq Paths
         /\ RestFrom(i + 1) = Rest \ {Here}
         /\ Here \in DOMAIN Parent => Parent[Here] \in Paths \ Rest
         /\ \A p \in DOMAIN Parent : Parent[p] \in Rest => p \in Rest
<1>1. i \in 1..(Len(Order) + 1) /\ Len(Order) \in Nat
  BY OrderFacts DEF TypeOK
<1>2. i \in 1..Len(Order) /\ i + 1 \in 1..(Len(Order) + 1) /\ i <= Len(Order)
  BY <1>1 DEF AtEnd
<1>3. Here \in Rest /\ Rest \subseteq Paths /\ RestFrom(i + 1) = Rest \ {Here}
  BY <1>1, <1>2, RestFacts DEF Rest, Here
<1>4. Here \in DOMAIN Parent => Parent[Here] \in Paths \ Rest
  BY <1>1, <1>2, ParentFirst DEF Rest, Here
<1>5. \A p \in DOMAIN Parent : Parent[p] \in Rest => p \in Rest
  BY <1>1, ParentFirst DEF Rest
<1> QED  BY <1>2, <1>3, <1>4, <1>5

LEMMA EndFacts ==
  ASSUME TypeOK
  PROVE  /\ AtEnd => Rest = {}
         /\ Rest \subseteq Paths
<1>1. i \in 1..(Len(Order) + 1) /\ Len(Order) \in Nat
  BY OrderFacts DEF TypeOK
<1> QED  BY <1>1, RestFacts DEF Rest, AtEnd

\* A loop begins with all the paths before it.
LEMMA StartFacts ==
  /\ 1 \in 1..(Len(Order) + 1) /\ RestFrom(1) = Paths
  /\ temp \in Paths /\ Empty \in Manifests /\ \A p \in Paths : Empty[p] = None
<1>1. 1 \in 1..(Len(Order) + 1)
  BY OrderFacts
<1> QED  BY <1>1, RestFacts, OrderFacts DEF Empty, Manifests

LEMMA BoundFacts == MaxAttempts \in Nat /\ MaxTrouble \in Nat
BY SnapshotAssumption

\* What is in a directory is no directory, and the temporary file is in none.
LEMMA ParentFacts ==
  /\ temp \notin DOMAIN Parent
  /\ \A p \in DOMAIN Parent :
       /\ p \in Paths /\ p # temp /\ Parent[p] \in Paths /\ Parent[p] # temp
       /\ Parent[p] # p /\ Parent[p] \notin DOMAIN Parent
BY SnapshotAssumption

\* A manifest is a tree, of regular files.
LEMMA ManifestHolds == Manifests \subseteq Holdings
BY DEF Manifests, Holdings

\* Two trees are the same if they are path by path.
LEMMA SameFiles ==
  ASSUME NEW f \in Holdings, NEW g \in Holdings, \A p \in Paths : f[p] = g[p]
  PROVE  f = g
BY DEF Holdings

LEMMA PathsFinite == IsFiniteSet(Paths)
<1>1. DEFINE f == [j \in 1..Len(Order) |-> Order[j]]
<1>2. f \in Surjection(1..Len(Order), Paths)
  BY OrderFacts DEF Surjection, Paths
<1>3. IsFiniteSet(1..Len(Order))
  BY OrderFacts, FS_Interval
<1> QED  BY <1>2, <1>3, FS_Surjection

\* A tree with all the files of a manifest and one more has more than the manifest.
LEMMA MoreFiles ==
  ASSUME NEW f, NEW g, NEW p \in Paths, Files(f) \union {p} \subseteq Files(g),
         p \notin Files(f), Cardinality(Files(f)) >= MaxFiles
  PROVE  Cardinality(Files(g)) > MaxFiles
<1>1. IsFiniteSet(Files(f)) /\ IsFiniteSet(Files(g))
  BY PathsFinite, FS_Subset DEF Files
<1>2. /\ IsFiniteSet(Files(f) \union {p})
      /\ Cardinality(Files(f) \union {p}) = Cardinality(Files(f)) + 1
  BY <1>1, FS_AddElement
<1>3. Cardinality(Files(f) \union {p}) <= Cardinality(Files(g))
  BY <1>1, FS_Subset
<1>4. Cardinality(Files(f)) \in Nat /\ Cardinality(Files(g)) \in Nat /\ MaxFiles \in Nat
  BY <1>1, FS_CardinalityType, SnapshotAssumption
<1> QED  BY <1>2, <1>3, <1>4

\* A walk goes one path further.
LEMMA LookOnInv ==
  ASSUME SnapshotInv, Look, ~Refuses
  PROVE  SnapshotInv'
<1>1. /\ pc = "walk" /\ ~AtEnd /\ i' = i + 1
      /\ manifest' = [manifest EXCEPT ![Here] = Met] /\ Met # Irregular
      /\ tree' = tree /\ dirs' = dirs /\ rooted' = rooted
      /\ store' = store /\ best' = best /\ attempted' = attempted
      /\ pc' = pc /\ goal' = goal /\ outcome' = outcome /\ unsettled' = unsettled
      /\ staged' = staged /\ calm' = calm /\ still' = still
      /\ attempts' = attempts /\ trouble' = trouble
  BY DEF Look, Refuses, disk, bounds
<1>2. /\ TypeOK /\ i' \in 1..(Len(Order) + 1)
      /\ Here \in Rest /\ Rest \subseteq Paths /\ RestFrom(i') = Rest \ {Here}
      /\ Here \in DOMAIN Parent => Parent[Here] \in Paths \ Rest
      /\ \A p \in DOMAIN Parent : Parent[p] \in Rest => p \in Rest
  BY <1>1, HereFacts DEF SnapshotInv
<1>3. /\ manifest' \in Manifests
      /\ \A p \in Paths : p # Here => manifest'[p] = manifest[p]
      /\ manifest'[Here] \in {None, tree[Here]}
      /\ Here \notin DOMAIN Parent => manifest'[Here] = tree[Here]
      /\ Here \in DOMAIN Parent =>
           manifest'[Here] = IF manifest[Parent[Here]] # None THEN None ELSE tree[Here]
  BY <1>1, <1>2 DEF TypeOK, Manifests, Holdings, ParentOf, Met
<1>4. TypeOK'
  BY <1>1, <1>2, <1>3 DEF SnapshotInv, TypeOK
<1>5. Stored'
  BY <1>1, <1>2, <1>3 DEF SnapshotInv, Stored, FileTree
<1>6. Calls'
  BY <1>1, <1>2, <1>3 DEF SnapshotInv, Calls, Restoring, Capturing
<1>7. TempFile'
  BY <1>1, <1>2, <1>3 DEF SnapshotInv, TempFile, Rest
<1>8. Walking'
  <2>1. \A p \in Rest' : manifest'[p] = None
    BY <1>1, <1>2, <1>3 DEF SnapshotInv, Walking, Rest
  <2>2. ASSUME NEW p \in DOMAIN Parent, manifest'[p] # None
        PROVE  manifest'[Parent[p]] = None
    <3>1. p \in Paths /\ Parent[p] \in Paths /\ Parent[p] # p
      BY ParentFacts
    <3>2. CASE p = Here
      BY <1>1, <1>2, <1>3, <2>2, <3>1, <3>2 DEF SnapshotInv, Walking
    <3>3. CASE Parent[p] = Here
      BY <1>1, <1>2, <1>3, <2>2, <3>1, <3>3 DEF SnapshotInv, Walking
    <3>4. CASE p # Here /\ Parent[p] # Here
      BY <1>1, <1>3, <2>2, <3>1, <3>4 DEF SnapshotInv, Walking
    <3> QED  BY <3>2, <3>3, <3>4
  <2>3. ASSUME temp \notin Rest'  PROVE manifest'[temp] = tree'[temp]
    <3>1. temp \in Paths /\ temp \notin DOMAIN Parent /\ (temp \notin Rest \/ temp = Here)
      BY <1>2, <2>3, StartFacts, ParentFacts DEF Rest
    <3> QED  BY <1>1, <1>3, <3>1 DEF SnapshotInv, Walking
  <2>4. ASSUME still', NEW p \in Paths \ Rest'  PROVE manifest'[p] = tree'[p]
    <3>1. p \notin Rest \/ p = Here
      BY <1>2 DEF Rest
    <3>2. \A q \in Paths \ Rest : manifest[q] = tree[q]
      BY <1>1, <2>4 DEF SnapshotInv, Walking
    <3>3. CASE p # Here
      BY <1>1, <1>3, <3>1, <3>2, <3>3
    <3>4. CASE p = Here
      BY <1>1, <1>2, <1>3, <3>2, <3>4 DEF TypeOK, WellFormed
    <3> QED  BY <3>3, <3>4
  <2> QED  BY <2>1, <2>2, <2>3, <2>4 DEF Walking
<1>9. Copying'
  BY <1>1, <1>2, <1>3 DEF SnapshotInv, Copying, FileTree, Rest
<1>10. Removing'
  BY <1>1, <1>2, <1>3 DEF SnapshotInv, Removing, Rest
<1>11. Placing'
  BY <1>1, <1>2, <1>3 DEF SnapshotInv, Placing, Here, AtEnd, Rest
<1>12. CalmRestoreSucceeds'
  BY <1>1, <1>2, <1>3 DEF SnapshotInv, Calls, CalmRestoreSucceeds, Disappoints
<1> QED
  BY <1>4, <1>5, <1>6, <1>7, <1>8, <1>9, <1>10, <1>11, <1>12 DEF SnapshotInv

\* A walk meets what no manifest may name, or one file too many.
LEMMA RefuseInv ==
  ASSUME SnapshotInv, Look, Refuses
  PROVE  SnapshotInv'
<1>1. /\ pc = "walk" /\ ~AtEnd
      /\ pc' = "idle" /\ outcome' = "failed" /\ i' = 1 /\ goal' = "capture"
      /\ manifest' = Empty /\ staged' = Empty
      /\ tree' = tree /\ dirs' = dirs /\ rooted' = rooted
      /\ store' = store /\ best' = best /\ attempted' = attempted
      /\ unsettled' = unsettled /\ calm' = calm /\ still' = still
      /\ attempts' = attempts /\ trouble' = trouble
  BY DEF Look, Finish, disk, bounds
<1>2. /\ TypeOK /\ 1 \in 1..(Len(Order) + 1) /\ attempted = None
      /\ Here \in Rest /\ Rest \subseteq Paths
  BY <1>1, HereFacts, StartFacts DEF SnapshotInv, Calls
<1>3. TypeOK'
  BY <1>1, <1>2, StartFacts DEF SnapshotInv, TypeOK
<1>4. Stored' /\ Calls'
  BY <1>1, <1>2 DEF SnapshotInv, Stored, FileTree, Calls, Restoring, Capturing
<1>5. TempFile'
  BY <1>1, <1>2 DEF SnapshotInv, TempFile, Calls, Restoring
<1>6. Walking' /\ Copying' /\ Removing' /\ Placing'
  BY <1>1 DEF Walking, Copying, Removing, Placing
<1>7. CalmRestoreSucceeds'
  <2>1. SUFFICES ASSUME calm  PROVE Refused
    BY <1>1 DEF CalmRestoreSucceeds, Disappoints, Refused, Files
  <2>2. CASE ~rooted
    BY <2>2 DEF Refused
  <2>3. CASE Met = Irregular
    BY <1>2, <2>3, SnapshotAssumption DEF Met, Refused
  <2>4. CASE Met # None /\ Cardinality(Files(manifest)) >= MaxFiles
    <3>1. still
      BY <1>1, <2>1 DEF SnapshotInv, Calls
    <3>2. /\ \A p \in Rest : manifest[p] = None
          /\ \A p \in Paths \ Rest : manifest[p] = tree[p]
      BY <1>1, <3>1 DEF SnapshotInv, Walking
    <3>3. tree[Here] # None
      BY <2>4 DEF Met
    <3>4. Files(manifest) \union {Here} \subseteq Files(tree) /\ Here \notin Files(manifest)
      BY <1>2, <3>2, <3>3 DEF Files
    <3>5. Cardinality(Files(tree)) > MaxFiles
      BY <1>2, <2>4, <3>4, MoreFiles
    <3> QED  BY <3>5 DEF Refused
  <2> QED  BY <2>2, <2>3, <2>4 DEF Refuses
<1> QED  BY <1>3, <1>4, <1>5, <1>6, <1>7 DEF SnapshotInv

LEMMA LookInv ==
  ASSUME SnapshotInv, Look
  PROVE  SnapshotInv'
BY LookOnInv, RefuseInv

\* A capture begins.
LEMMA BeginCaptureInv ==
  ASSUME SnapshotInv, BeginCapture
  PROVE  SnapshotInv'
<1>1. /\ pc = "idle" /\ ~unsettled
      /\ pc' = "walk" /\ goal' = "capture" /\ i' = 1 /\ manifest' = Empty /\ still' = TRUE
      /\ calm' = TRUE /\ outcome' = "none" /\ attempted' = None
      /\ tree' = tree /\ dirs' = dirs /\ rooted' = rooted
      /\ store' = store /\ best' = best
      /\ unsettled' = unsettled /\ staged' = staged /\ attempts' = attempts /\ trouble' = trouble
  BY DEF BeginCapture, Idle, StartWalk, disk, bounds
<1>2. 1 \in 1..(Len(Order) + 1) /\ Rest' = Paths
  BY <1>1, StartFacts DEF Rest
<1>3. TypeOK'
  BY <1>1, <1>2, StartFacts DEF SnapshotInv, TypeOK
<1>4. Stored'
  BY <1>1, <1>2 DEF SnapshotInv, Stored, FileTree
<1>5. Calls'
  BY <1>1, <1>2 DEF SnapshotInv, Calls, Restoring, Capturing
<1>6. TempFile'
  BY <1>1, <1>2 DEF SnapshotInv, TempFile, Rest
<1>7. Walking'
  BY <1>1, <1>2, StartFacts, ParentFacts DEF SnapshotInv, Walking, Rest
<1>8. Copying'
  BY <1>1, <1>2 DEF SnapshotInv, Copying, FileTree, Rest
<1>9. Removing'
  BY <1>1, <1>2 DEF SnapshotInv, Removing, Rest
<1>10. Placing'
  BY <1>1, <1>2 DEF SnapshotInv, Placing, Here, AtEnd, Rest
<1>11. CalmRestoreSucceeds'
  BY <1>1, <1>2 DEF SnapshotInv, Calls, CalmRestoreSucceeds, Disappoints
<1> QED
  BY <1>3, <1>4, <1>5, <1>6, <1>7, <1>8, <1>9, <1>10, <1>11 DEF SnapshotInv

\* The tree has been walked for a capture.
LEMMA CaptureWalkedInv ==
  ASSUME SnapshotInv, CaptureWalked
  PROVE  SnapshotInv'
<1>1. /\ pc = "walk" /\ goal = "capture" /\ i' = 1
      /\ \/ /\ manifest \in DOMAIN store /\ attempted' = manifest
            /\ pc' = "idle" /\ outcome' = "captured" /\ goal' = "capture"
            /\ manifest' = Empty /\ staged' = Empty
         \/ /\ pc' = "idle" /\ outcome' = "failed" /\ goal' = "capture"
            /\ manifest' = Empty /\ staged' = Empty /\ attempted' = attempted
         \/ /\ pc' = "copy" /\ goal' = goal /\ outcome' = outcome /\ attempted' = attempted
            /\ manifest' = manifest /\ staged' = staged
      /\ tree' = tree /\ dirs' = dirs /\ rooted' = rooted
      /\ store' = store /\ best' = best /\ unsettled' = unsettled
      /\ calm' = calm /\ still' = still /\ attempts' = attempts /\ trouble' = trouble
  BY DEF CaptureWalked, Finish, disk, bounds
<1>2. TypeOK /\ Rest = {} /\ 1 \in 1..(Len(Order) + 1) /\ Rest' = Paths /\ temp \in Paths
  BY <1>1, EndFacts, StartFacts DEF SnapshotInv, Rest, CaptureWalked
<1>3. tree[temp] = None /\ ~unsettled /\ FileTree(manifest)
  BY <1>1, <1>2 DEF SnapshotInv, TempFile, Calls, Capturing, Walking, FileTree
<1>4. staged = Empty /\ (still => manifest = tree)
  <2>1. staged = Empty /\ (still => \A p \in Paths : manifest[p] = tree[p])
    BY <1>1, <1>2 DEF SnapshotInv, Calls, Walking
  <2> QED  BY <1>2, <2>1, SameFiles, ManifestHolds DEF TypeOK
<1>5. TypeOK'
  BY <1>1, <1>2, <1>3, <1>4, StartFacts DEF SnapshotInv, TypeOK
<1>6. Stored'
  BY <1>1, <1>2, <1>3, <1>4 DEF SnapshotInv, Stored, FileTree
<1>7. Calls'
  BY <1>1, <1>2, <1>3, <1>4 DEF SnapshotInv, Calls, Restoring, Capturing
<1>8. TempFile'
  BY <1>1, <1>2, <1>3, <1>4 DEF SnapshotInv, TempFile, Rest
<1>9. Walking'
  BY <1>1, <1>2, <1>3, <1>4 DEF SnapshotInv, Walking, Rest
<1>10. Copying'
  BY <1>1, <1>2, <1>3, <1>4, StartFacts DEF SnapshotInv, Copying, FileTree, Rest
<1>11. Removing'
  BY <1>1, <1>2, <1>3, <1>4 DEF SnapshotInv, Removing, Rest
<1>12. Placing'
  BY <1>1, <1>2, <1>3, <1>4 DEF SnapshotInv, Placing, Here, AtEnd, Rest
<1>13. CalmRestoreSucceeds'
  BY <1>1, <1>2, <1>3, <1>4 DEF SnapshotInv, Calls, CalmRestoreSucceeds, Disappoints
<1> QED
  BY <1>5, <1>6, <1>7, <1>8, <1>9, <1>10, <1>11, <1>12, <1>13 DEF SnapshotInv

\* A file is copied to the pending directory, or none is named.
LEMMA CopyOutInv ==
  ASSUME SnapshotInv, CopyOut
  PROVE  SnapshotInv'
<1>1. /\ pc = "copy" /\ ~AtEnd
      /\ \/ /\ manifest[Here] = None /\ i' = i + 1 /\ pc' = pc /\ goal' = goal
            /\ outcome' = outcome /\ manifest' = manifest /\ staged' = staged
         \/ /\ manifest[Here] # None /\ tree[Here] = manifest[Here]
            /\ staged' = [staged EXCEPT ![Here] = tree[Here]]
            /\ i' = i + 1 /\ pc' = pc /\ goal' = goal /\ outcome' = outcome /\ manifest' = manifest
         \/ /\ pc' = "idle" /\ outcome' = "failed" /\ i' = 1 /\ goal' = "capture"
            /\ manifest' = Empty /\ staged' = Empty
      /\ tree' = tree /\ dirs' = dirs /\ rooted' = rooted
      /\ store' = store /\ best' = best /\ attempted' = attempted
      /\ unsettled' = unsettled /\ calm' = calm /\ still' = still
      /\ attempts' = attempts /\ trouble' = trouble
  BY DEF CopyOut, Copies, Finish, disk, bounds
<1>2. /\ TypeOK /\ ~unsettled /\ i + 1 \in 1..(Len(Order) + 1) /\ 1 \in 1..(Len(Order) + 1)
      /\ Here \in Rest /\ Rest \subseteq Paths /\ RestFrom(i + 1) = Rest \ {Here}
  BY <1>1, HereFacts, StartFacts DEF SnapshotInv, Calls, Capturing
<1>3. TypeOK'
  <2>1. manifest' \in Manifests /\ staged' \in Manifests
    BY <1>1, <1>2, StartFacts DEF TypeOK, Manifests, Holdings
  <2> QED  BY <1>1, <1>2, <2>1 DEF TypeOK
<1>4. Stored'
  BY <1>1, <1>2 DEF SnapshotInv, Stored, FileTree
<1>5. Calls'
  BY <1>1, <1>2 DEF SnapshotInv, Calls, Restoring, Capturing
<1>6. TempFile'
  BY <1>1, <1>2 DEF SnapshotInv, TempFile, Rest
<1>7. Walking'
  BY <1>1, <1>2 DEF SnapshotInv, Walking, Rest
<1>8. Copying'
  <2>1. SUFFICES ASSUME pc' = "copy"
        PROVE  \A p \in Paths : staged'[p] = IF p \in Rest' THEN None ELSE manifest'[p]
    BY <1>1 DEF SnapshotInv, Copying
  <2>2. manifest' = manifest /\ Rest' = Rest \ {Here} /\ staged \in Manifests
    BY <1>1, <1>2, <2>1 DEF Rest, TypeOK
  <2>3. \A p \in Paths : staged[p] = IF p \in Rest THEN None ELSE manifest[p]
    BY <1>1 DEF SnapshotInv, Copying
  <2> QED  BY <1>1, <1>2, <2>1, <2>2, <2>3 DEF Manifests
<1>9. Removing'
  BY <1>1, <1>2 DEF SnapshotInv, Removing, Rest
<1>10. Placing'
  BY <1>1, <1>2 DEF SnapshotInv, Placing, Here, AtEnd, Rest
<1>11. CalmRestoreSucceeds'
  BY <1>1, <1>2 DEF SnapshotInv, Calls, CalmRestoreSucceeds, Disappoints
<1> QED
  BY <1>3, <1>4, <1>5, <1>6, <1>7, <1>8, <1>9, <1>10, <1>11 DEF SnapshotInv

\* The pending directory becomes the snapshot.
LEMMA PublishInv ==
  ASSUME SnapshotInv, Publish
  PROVE  SnapshotInv'
<1>1. /\ pc = "copy" /\ AtEnd /\ attempted' = manifest
      /\ store' = [id \in DOMAIN store \union {manifest} |->
                    IF id = manifest THEN staged ELSE store[id]]
      /\ pc' = "idle" /\ outcome' = "captured" /\ i' = 1 /\ goal' = "capture"
      /\ manifest' = Empty /\ staged' = Empty
      /\ tree' = tree /\ dirs' = dirs /\ rooted' = rooted
      /\ best' = best /\ unsettled' = unsettled
      /\ calm' = calm /\ still' = still /\ attempts' = attempts /\ trouble' = trouble
  BY DEF Publish, Finish, disk, bounds
<1>2. TypeOK /\ ~unsettled /\ 1 \in 1..(Len(Order) + 1) /\ FileTree(manifest)
  BY <1>1, StartFacts DEF SnapshotInv, Calls, Capturing, Copying
<1>3. TypeOK'
  BY <1>1, <1>2, StartFacts DEF SnapshotInv, TypeOK
<1>4. Stored'
  BY <1>1, <1>2 DEF SnapshotInv, Stored, FileTree
<1>5. Calls'
  BY <1>1, <1>2 DEF SnapshotInv, Calls, Restoring, Capturing
<1>6. TempFile'
  BY <1>1, <1>2 DEF SnapshotInv, TempFile, Rest
<1>7. Walking'
  BY <1>1, <1>2 DEF SnapshotInv, Walking, Rest
<1>8. Copying'
  BY <1>1, <1>2 DEF SnapshotInv, Copying, FileTree, Rest
<1>9. Removing'
  BY <1>1, <1>2 DEF SnapshotInv, Removing, Rest
<1>10. Placing'
  BY <1>1, <1>2 DEF SnapshotInv, Placing, Here, AtEnd, Rest
<1>11. CalmRestoreSucceeds'
  BY <1>1, <1>2 DEF SnapshotInv, Calls, CalmRestoreSucceeds, Disappoints
<1> QED
  BY <1>3, <1>4, <1>5, <1>6, <1>7, <1>8, <1>9, <1>10, <1>11 DEF SnapshotInv

\* A captured snapshot becomes the best.
LEMMA PromoteInv ==
  ASSUME SnapshotInv, Promote
  PROVE  SnapshotInv'
<1>1. /\ pc = "idle" /\ attempted # None /\ best' = attempted /\ attempted' = None
      /\ tree' = tree /\ dirs' = dirs /\ rooted' = rooted
      /\ store' = store /\ pc' = pc /\ goal' = goal /\ i' = i
      /\ outcome' = outcome /\ unsettled' = unsettled /\ manifest' = manifest /\ staged' = staged
      /\ calm' = calm /\ still' = still /\ attempts' = attempts /\ trouble' = trouble
  BY DEF Promote, Idle, disk, control, bounds
<1>2. ~unsettled
  BY <1>1 DEF SnapshotInv, Calls
<1>3. TypeOK'
  BY <1>1, <1>2 DEF SnapshotInv, TypeOK
<1>4. Stored'
  BY <1>1, <1>2 DEF SnapshotInv, Stored, FileTree
<1>5. Calls'
  BY <1>1, <1>2 DEF SnapshotInv, Calls, Restoring, Capturing
<1>6. TempFile'
  BY <1>1, <1>2 DEF SnapshotInv, TempFile, Rest
<1>7. Walking'
  BY <1>1, <1>2 DEF SnapshotInv, Walking, Rest
<1>8. Copying'
  BY <1>1, <1>2 DEF SnapshotInv, Copying, FileTree, Rest
<1>9. Removing'
  BY <1>1, <1>2 DEF SnapshotInv, Removing, Rest
<1>10. Placing'
  BY <1>1, <1>2 DEF SnapshotInv, Placing, Here, AtEnd, Rest
<1>11. CalmRestoreSucceeds'
  BY <1>1, <1>2 DEF SnapshotInv, Calls, CalmRestoreSucceeds, Disappoints
<1> QED
  BY <1>3, <1>4, <1>5, <1>6, <1>7, <1>8, <1>9, <1>10, <1>11 DEF SnapshotInv

\* A restoration begins.
LEMMA BeginWalkInv ==
  ASSUME SnapshotInv, BeginRestore, pc' = "walk"
  PROVE  SnapshotInv'
<1>1. /\ pc = "idle" /\ best # None
      /\ pc' = "walk" /\ goal' = "current" /\ i' = 1 /\ manifest' = Empty /\ still' = TRUE
      /\ calm' = TRUE /\ outcome' = "none" /\ unsettled' = TRUE /\ attempted' = None
      /\ tree' = tree /\ dirs' = dirs /\ rooted' = rooted
      /\ store' = store /\ best' = best
      /\ staged' = staged /\ attempts' = attempts /\ trouble' = trouble
  BY DEF BeginRestore, Idle, StartWalk, Finish, disk, bounds
<1>2. 1 \in 1..(Len(Order) + 1) /\ Rest' = Paths
  BY <1>1, StartFacts DEF Rest
<1>3. TypeOK'
  BY <1>1, <1>2, StartFacts DEF SnapshotInv, TypeOK
<1>4. Stored'
  BY <1>1, <1>2 DEF SnapshotInv, Stored, FileTree
<1>5. Calls'
  BY <1>1, <1>2 DEF SnapshotInv, Calls, Restoring, Capturing
<1>6. TempFile'
  BY <1>1, <1>2 DEF SnapshotInv, TempFile, Rest
<1>7. Walking'
  BY <1>1, <1>2, StartFacts, ParentFacts DEF SnapshotInv, Walking, Rest
<1>8. Copying'
  BY <1>1, <1>2 DEF SnapshotInv, Copying, FileTree, Rest
<1>9. Removing'
  BY <1>1, <1>2 DEF SnapshotInv, Removing, Rest
<1>10. Placing'
  BY <1>1, <1>2 DEF SnapshotInv, Placing, Here, AtEnd, Rest
<1>11. CalmRestoreSucceeds'
  BY <1>1, <1>2 DEF SnapshotInv, Calls, CalmRestoreSucceeds, Disappoints
<1> QED
  BY <1>3, <1>4, <1>5, <1>6, <1>7, <1>8, <1>9, <1>10, <1>11 DEF SnapshotInv

\* The best snapshot is refused, before the tree is walked.
LEMMA RefusedRestoreInv ==
  ASSUME SnapshotInv, BeginRestore, pc' # "walk"
  PROVE  SnapshotInv'
<1>1. /\ pc = "idle" /\ best # None /\ (~Intact(best) \/ best \notin Readable)
      /\ pc' = "idle" /\ outcome' = "failed" /\ i' = 1 /\ goal' = "capture"
      /\ manifest' = Empty /\ staged' = Empty
      /\ calm' = TRUE /\ unsettled' = TRUE /\ attempted' = None /\ still' = still
      /\ tree' = tree /\ dirs' = dirs /\ rooted' = rooted
      /\ store' = store /\ best' = best /\ attempts' = attempts /\ trouble' = trouble
  BY DEF BeginRestore, Valid, Idle, StartWalk, Finish, disk, bounds
<1>2. TypeOK'
  BY <1>1, StartFacts DEF SnapshotInv, TypeOK
<1>3. Stored' /\ Calls' /\ TempFile'
  BY <1>1 DEF SnapshotInv, Stored, FileTree, Calls, Restoring, Capturing, TempFile
<1>4. Walking' /\ Copying' /\ Removing' /\ Placing'
  BY <1>1 DEF Walking, Copying, Removing, Placing
<1>5. CalmRestoreSucceeds'
  BY <1>1 DEF CalmRestoreSucceeds, Intact
<1> QED  BY <1>2, <1>3, <1>4, <1>5 DEF SnapshotInv

LEMMA BeginRestoreInv ==
  ASSUME SnapshotInv, BeginRestore
  PROVE  SnapshotInv'
BY BeginWalkInv, RefusedRestoreInv

\* The tree has been walked for a restoration.
LEMMA CurrentWalkedInv ==
  ASSUME SnapshotInv, CurrentWalked
  PROVE  SnapshotInv'
<1>1. /\ pc = "walk" /\ goal = "current" /\ pc' = "remove" /\ i' = 1
      /\ tree' = tree /\ dirs' = dirs /\ rooted' = rooted
      /\ store' = store /\ best' = best /\ attempted' = attempted
      /\ goal' = goal /\ outcome' = outcome /\ unsettled' = unsettled
      /\ manifest' = manifest /\ staged' = staged /\ calm' = calm /\ still' = still
      /\ attempts' = attempts /\ trouble' = trouble
  BY DEF CurrentWalked, disk, bounds
<1>2. Rest = {} /\ 1 \in 1..(Len(Order) + 1) /\ Rest' = Paths /\ temp \in Paths
  BY <1>1, EndFacts, StartFacts DEF SnapshotInv, Rest, CurrentWalked
<1>3. TypeOK'
  BY <1>1, <1>2 DEF SnapshotInv, TypeOK
<1>4. Stored'
  BY <1>1, <1>2 DEF SnapshotInv, Stored, FileTree
<1>5. Calls'
  BY <1>1, <1>2 DEF SnapshotInv, Calls, Restoring, Capturing
<1>6. TempFile'
  BY <1>1, <1>2 DEF SnapshotInv, TempFile, Rest
<1>7. Walking'
  BY <1>1, <1>2 DEF SnapshotInv, Walking, Rest
<1>8. Copying'
  BY <1>1, <1>2 DEF SnapshotInv, Copying, FileTree, Rest
<1>9. Removing'
  BY <1>1, <1>2 DEF SnapshotInv, Removing, Rest, Walking, Calls
<1>10. Placing'
  BY <1>1, <1>2 DEF SnapshotInv, Placing, Here, AtEnd, Rest
<1>11. CalmRestoreSucceeds'
  BY <1>1, <1>2 DEF SnapshotInv, Calls, CalmRestoreSucceeds, Disappoints
<1> QED
  BY <1>3, <1>4, <1>5, <1>6, <1>7, <1>8, <1>9, <1>10, <1>11 DEF SnapshotInv

\* A file that the best snapshot does not have is removed.
LEMMA RemoveInv ==
  ASSUME SnapshotInv, Remove
  PROVE  SnapshotInv'
<1>1. /\ pc = "remove" /\ ~AtEnd
      /\ rooted' = rooted /\ store' = store /\ best' = best /\ attempted' = attempted /\ unsettled' = unsettled
      /\ calm' = calm /\ still' = still /\ attempts' = attempts /\ trouble' = trouble
  BY DEF Remove, disk, bounds
<1>2. /\ TypeOK /\ i + 1 \in 1..(Len(Order) + 1) /\ 1 \in 1..(Len(Order) + 1)
      /\ Here \in Rest /\ Rest \subseteq Paths /\ RestFrom(i + 1) = Rest \ {Here} /\ temp \in Paths
  BY <1>1, HereFacts, StartFacts DEF SnapshotInv
<1>3. /\ best # None /\ unsettled /\ outcome = "none" /\ attempted = None /\ staged = Empty
      /\ best \in DOMAIN store /\ best \in Manifests /\ best[temp] = None
  BY <1>1 DEF SnapshotInv, Calls, Restoring, TypeOK, Stored, FileTree
<1>4. \/ /\ Here \notin Unwanted /\ i' = i + 1 /\ pc' = pc /\ goal' = goal /\ outcome' = outcome
         /\ manifest' = manifest /\ staged' = staged /\ tree' = tree /\ dirs' = dirs
      \/ /\ Here \in Unwanted /\ (tree[Here] # None \/ (Here \in dirs /\ Children(Here) = {}))
         /\ tree' = [tree EXCEPT ![Here] = None] /\ dirs' = dirs \ {Here}
         /\ i' = i + 1 /\ pc' = pc /\ goal' = goal /\ outcome' = outcome
         /\ manifest' = manifest /\ staged' = staged
      \/ /\ Here \in Unwanted /\ tree[Here] \in {None, Irregular}
         /\ pc' = "idle" /\ outcome' = "failed" /\ i' = 1 /\ goal' = "capture"
         /\ manifest' = Empty /\ staged' = Empty /\ tree' = tree /\ dirs' = dirs
  BY DEF Remove, Finish, disk
<1>5. Here \in Unwanted <=> manifest[Here] # None /\ best[Here] = None
  BY <1>2 DEF Unwanted
<1>6. TypeOK'
  <2>1. tree' \in Holdings /\ dirs' \subseteq Paths \ {temp} /\ tree'[temp] # Irregular
    BY <1>2, <1>4, SnapshotAssumption DEF TypeOK, Manifests, Holdings
  <2>2. WellFormed(tree', dirs')
    <3>1. CASE tree' = tree /\ dirs' = dirs
      BY <1>2, <3>1 DEF TypeOK
    <3>2. CASE /\ tree[Here] # None \/ (Here \in dirs /\ Children(Here) = {})
               /\ tree' = [tree EXCEPT ![Here] = None] /\ dirs' = dirs \ {Here}
      <4>1. \A p \in Paths : tree'[p] # None => p # Here /\ tree[p] # None
        BY <1>2, <3>2 DEF TypeOK, Manifests, Holdings
      <4>2. ASSUME NEW p \in Paths, tree'[p] # None, p \in DOMAIN Parent  PROVE Parent[p] # Here
        BY <1>2, <3>2, <4>1, <4>2 DEF TypeOK, WellFormed, Children
      <4> QED  BY <1>2, <3>2, <4>1, <4>2 DEF TypeOK, WellFormed
    <3> QED  BY <1>4, <3>1, <3>2
  <2>3. /\ pc' \in {"idle", "remove"} /\ goal' \in {"capture", "current", "verify"}
        /\ i' \in 1..(Len(Order) + 1) /\ manifest' \in Manifests /\ staged' \in Manifests
        /\ outcome' \in {"none", "captured", "restored", "failed"}
    BY <1>1, <1>2, <1>4, StartFacts DEF TypeOK
  <2> QED  BY <1>1, <1>2, <2>1, <2>2, <2>3 DEF TypeOK
<1>7. Stored'
  BY <1>1, <1>2, <1>3, <1>4, <1>5 DEF SnapshotInv, Stored, FileTree
<1>8. Calls'
  BY <1>1, <1>2, <1>3, <1>4, <1>5 DEF SnapshotInv, Calls, Restoring, Capturing
<1>9. TempFile'
  <2>1. CASE pc' = "idle"
    BY <1>1, <1>3, <2>1 DEF TempFile
  <2>2. CASE i' = i + 1 /\ Here # temp
    BY <1>1, <1>2, <1>4, <2>2 DEF SnapshotInv, TempFile, TypeOK, Manifests, Holdings, Rest
  <2>3. CASE i' = i + 1 /\ Here = temp
    <3>1. manifest[temp] = tree[temp]
      BY <1>1, <1>2, <2>3 DEF SnapshotInv, Removing
    <3>2. tree'[temp] = None
      BY <1>2, <1>3, <1>4, <1>5, <2>3, <3>1 DEF TypeOK, Manifests, Holdings
    <3> QED  BY <3>2 DEF TempFile
  <2> QED  BY <1>4, <2>1, <2>2, <2>3
<1>10. Walking'
  BY <1>1, <1>2, <1>3, <1>4, <1>5 DEF SnapshotInv, Walking, Rest
<1>11. Copying'
  BY <1>1, <1>2, <1>3, <1>4, <1>5 DEF SnapshotInv, Copying, FileTree, Rest
<1>12. Removing'
  <2>1. SUFFICES ASSUME pc' = "remove"
        PROVE  /\ temp \in Rest' => manifest'[temp] = tree'[temp]
               /\ calm => \A p \in Paths : IF p \in Rest' THEN manifest'[p] = tree'[p]
                                           ELSE tree'[p] # None => best[p] # None
    BY <1>1 DEF Removing
  <2>2. /\ manifest' = manifest /\ Rest' = Rest \ {Here}
        /\ \A p \in Paths : p # Here => tree'[p] = tree[p]
        /\ (tree'[Here] = tree[Here] /\ Here \notin Unwanted) \/ tree'[Here] = None
    BY <1>1, <1>2, <1>4, <2>1 DEF Rest, TypeOK, Manifests, Holdings
  <2>3. /\ temp \in Rest => manifest[temp] = tree[temp]
        /\ calm => \A p \in Paths : IF p \in Rest THEN manifest[p] = tree[p]
                                    ELSE tree[p] # None => best[p] # None
    BY <1>1 DEF SnapshotInv, Removing
  <2> QED  BY <1>2, <1>5, <2>2, <2>3
<1>13. Placing'
  BY <1>1, <1>2, <1>3, <1>4, <1>5 DEF SnapshotInv, Placing, Here, AtEnd, Rest
<1>14. CalmRestoreSucceeds'
  <2>1. SUFFICES ASSUME outcome' = "failed", calm  PROVE Refused'
    BY <1>1 DEF CalmRestoreSucceeds, Disappoints
  <2>2. Here \in Unwanted /\ tree[Here] \in {None, Irregular} /\ tree' = tree
    BY <1>3, <1>4, <2>1
  <2>3. manifest[Here] = tree[Here]
    BY <1>1, <1>2, <2>1 DEF SnapshotInv, Removing
  <2>4. tree'[Here] = Irregular /\ Here \in Paths
    BY <1>2, <1>5, <2>2, <2>3
  <2> QED  BY <2>4 DEF Refused
<1> QED
  BY <1>6, <1>7, <1>8, <1>9, <1>10, <1>11, <1>12, <1>13, <1>14 DEF SnapshotInv

\* What had to go is gone.
LEMMA RemovedInv ==
  ASSUME SnapshotInv, Removed
  PROVE  SnapshotInv'
<1>1. /\ pc = "remove" /\ pc' = "place" /\ i' = 1 /\ manifest' = Empty
      /\ tree' = tree /\ dirs' = dirs /\ rooted' = rooted
      /\ store' = store /\ best' = best /\ attempted' = attempted
      /\ goal' = goal /\ outcome' = outcome /\ unsettled' = unsettled /\ staged' = staged
      /\ calm' = calm /\ still' = still /\ attempts' = attempts /\ trouble' = trouble
  BY DEF Removed, disk, bounds
<1>2. Rest = {} /\ 1 \in 1..(Len(Order) + 1) /\ Rest' = Paths
  BY <1>1, EndFacts, StartFacts DEF SnapshotInv, Rest, Removed
<1>3. TypeOK'
  BY <1>1, <1>2, StartFacts DEF SnapshotInv, TypeOK
<1>4. Stored'
  BY <1>1, <1>2 DEF SnapshotInv, Stored, FileTree
<1>5. Calls'
  BY <1>1, <1>2 DEF SnapshotInv, Calls, Restoring, Capturing
<1>6. TempFile'
  BY <1>1, <1>2 DEF SnapshotInv, TempFile, Rest
<1>7. Walking'
  BY <1>1, <1>2 DEF SnapshotInv, Walking, Rest
<1>8. Copying'
  BY <1>1, <1>2 DEF SnapshotInv, Copying, FileTree, Rest
<1>9. Removing'
  BY <1>1, <1>2 DEF SnapshotInv, Removing, Rest
<1>10. Placing'
  BY <1>1, <1>2 DEF SnapshotInv, Placing, Here, AtEnd, Rest, Removing
<1>11. CalmRestoreSucceeds'
  BY <1>1, <1>2 DEF SnapshotInv, Calls, CalmRestoreSucceeds, Disappoints
<1> QED
  BY <1>3, <1>4, <1>5, <1>6, <1>7, <1>8, <1>9, <1>10, <1>11 DEF SnapshotInv

\* A file of the best snapshot is copied beside its place, or none is there.
LEMMA PlaceInv ==
  ASSUME SnapshotInv, Place
  PROVE  SnapshotInv'
<1>1. /\ pc = "place" /\ ~AtEnd
      /\ rooted' = rooted /\ store' = store /\ best' = best /\ attempted' = attempted /\ unsettled' = unsettled
      /\ calm' = calm /\ still' = still /\ attempts' = attempts /\ trouble' = trouble
  BY DEF Place, disk, bounds
<1>2. /\ TypeOK /\ i + 1 \in 1..(Len(Order) + 1) /\ 1 \in 1..(Len(Order) + 1)
      /\ Here \in Rest /\ Rest \subseteq Paths /\ RestFrom(i + 1) = Rest \ {Here} /\ temp \in Paths
  BY <1>1, HereFacts, StartFacts DEF SnapshotInv
<1>3. /\ best # None /\ unsettled /\ outcome = "none" /\ attempted = None /\ staged = Empty
      /\ best \in DOMAIN store /\ best \in Manifests /\ store[best] \in Manifests /\ FileTree(best)
      /\ tree[temp] = None
  BY <1>1 DEF SnapshotInv, Calls, Restoring, TypeOK, Stored, TempFile
<1>4. \/ /\ best[Here] = None /\ i' = i + 1 /\ pc' = pc /\ goal' = goal /\ outcome' = outcome
         /\ manifest' = manifest /\ staged' = staged /\ tree' = tree /\ dirs' = dirs
      \/ /\ best[Here] # None /\ \A d \in ParentOf(Here) : tree[d] = None
         /\ dirs' = dirs \union ParentOf(Here) /\ store[best][Here] = best[Here]
         /\ pc' = "rename" /\ tree' = [tree EXCEPT ![temp] = best[Here]] /\ goal' = goal
         /\ i' = i /\ outcome' = outcome /\ manifest' = manifest /\ staged' = staged
      \/ /\ best[Here] # None /\ \A d \in ParentOf(Here) : tree[d] = None
         /\ dirs' = dirs \union ParentOf(Here) /\ store[best][Here] # best[Here]
         /\ pc' = "idle" /\ outcome' = "failed" /\ i' = 1 /\ goal' = "capture"
         /\ manifest' = Empty /\ staged' = Empty /\ tree' = tree
      \/ /\ best[Here] # None
         /\ tree[Here] = Irregular \/ \E d \in ParentOf(Here) : tree[d] # None
         /\ pc' = "idle" /\ outcome' = "failed" /\ i' = 1 /\ goal' = "capture"
         /\ manifest' = Empty /\ staged' = Empty /\ tree' = tree /\ dirs' = dirs
  BY DEF Place, Copies, Finish, disk
<1>5. /\ ParentOf(Here) \subseteq Paths \ {temp}
      /\ \A d \in ParentOf(Here) : d = Parent[Here] /\ Here \in DOMAIN Parent /\ d # Here
  BY ParentFacts DEF ParentOf
<1>6. TypeOK'
  <2>1. tree' \in Holdings /\ dirs' \subseteq Paths \ {temp} /\ tree'[temp] # Irregular
    BY <1>2, <1>3, <1>4, <1>5, SnapshotAssumption DEF TypeOK, Manifests, Holdings
  <2>2. WellFormed(tree', dirs')
    <3>1. \A p \in Paths : p # temp => tree'[p] = tree[p]
      BY <1>2, <1>4 DEF TypeOK, Manifests, Holdings
    <3>2. \A p \in dirs' : p \in dirs \/ tree[p] = None
      BY <1>4
    <3>3. temp \notin DOMAIN Parent /\ temp \notin dirs' /\ dirs \subseteq dirs'
      BY <1>4, <2>1, ParentFacts
    <3> QED  BY <1>2, <3>1, <3>2, <3>3 DEF TypeOK, WellFormed
  <2>3. /\ pc' \in {"idle", "place", "rename"} /\ goal' \in {"capture", "current", "verify"}
        /\ i' \in 1..(Len(Order) + 1) /\ manifest' \in Manifests /\ staged' \in Manifests
        /\ outcome' \in {"none", "captured", "restored", "failed"}
    BY <1>1, <1>2, <1>4, StartFacts DEF TypeOK
  <2> QED  BY <1>1, <1>2, <2>1, <2>2, <2>3 DEF TypeOK
<1>7. Stored'
  BY <1>1, <1>2, <1>3, <1>4, <1>5 DEF SnapshotInv, Stored, FileTree
<1>8. Calls'
  BY <1>1, <1>2, <1>3, <1>4, <1>5 DEF SnapshotInv, Calls, Restoring, Capturing
<1>9. TempFile'
  BY <1>1, <1>2, <1>3, <1>4, <1>5 DEF SnapshotInv, TempFile, Rest
<1>10. Walking'
  BY <1>1, <1>2, <1>3, <1>4, <1>5 DEF SnapshotInv, Walking, Rest
<1>11. Copying'
  BY <1>1, <1>2, <1>3, <1>4, <1>5 DEF SnapshotInv, Copying, FileTree, Rest
<1>12. Removing'
  BY <1>1, <1>2, <1>3, <1>4, <1>5 DEF SnapshotInv, Removing, Rest
<1>13. Placing'
  <2>1. ASSUME pc' \in {"place", "rename"}, calm
        PROVE  \A p \in Paths \ {temp} : IF p \in Rest' THEN tree'[p] # None => best[p] # None
                                         ELSE tree'[p] = best[p]
    <3>1. \A p \in Paths \ {temp} : IF p \in Rest THEN tree[p] # None => best[p] # None
                                    ELSE tree[p] = best[p]
      BY <1>1, <2>1 DEF SnapshotInv, Placing
    <3>2. \A p \in Paths \ {temp} : tree'[p] = tree[p]
      BY <1>2, <1>4 DEF TypeOK, Manifests, Holdings
    <3>3. Rest' = Rest \/ (best[Here] = None /\ Rest' = Rest \ {Here})
      BY <1>2, <1>4, <2>1 DEF Rest
    <3> QED  BY <1>2, <3>1, <3>2, <3>3
  <2>2. ASSUME pc' = "rename"
        PROVE  /\ ~AtEnd' /\ best'[Here'] # None /\ tree'[temp] = best'[Here']
               /\ ParentOf(Here)' \subseteq dirs'
    BY <1>1, <1>2, <1>4, <2>2 DEF TypeOK, Manifests, Holdings, AtEnd, Here, ParentOf
  <2> QED  BY <1>1, <1>4, <2>1, <2>2 DEF Placing
<1>14. CalmRestoreSucceeds'
  <2>1. CASE outcome' = "none"
    BY <2>1 DEF CalmRestoreSucceeds, Disappoints
  <2>2. CASE store[best][Here] # best[Here]
    BY <1>1, <2>2 DEF CalmRestoreSucceeds, Intact
  <2>3. CASE tree' = tree /\ tree[Here] = Irregular
    BY <1>2, <2>3 DEF CalmRestoreSucceeds, Refused
  <2>4. CASE best[Here] # None /\ \E d \in ParentOf(Here) : tree[d] # None
    <3>1. best[Parent[Here]] = None /\ tree[Parent[Here]] # None /\ Parent[Here] \in Paths \ {temp}
      BY <1>3, <1>5, <2>4 DEF FileTree
    <3>2. ~calm
      BY <1>1, <3>1 DEF SnapshotInv, Placing
    <3> QED  BY <1>1, <3>2 DEF CalmRestoreSucceeds, Disappoints
  <2> QED  BY <1>3, <1>4, <2>1, <2>2, <2>3, <2>4
<1> QED
  BY <1>6, <1>7, <1>8, <1>9, <1>10, <1>11, <1>12, <1>13, <1>14 DEF SnapshotInv

\* The copy takes its place.
LEMMA RenameInv ==
  ASSUME SnapshotInv, Rename
  PROVE  SnapshotInv'
<1>1. /\ pc = "rename"
      /\ dirs' = dirs /\ rooted' = rooted /\ store' = store /\ best' = best
      /\ attempted' = attempted
      /\ unsettled' = unsettled /\ calm' = calm /\ still' = still
      /\ attempts' = attempts /\ trouble' = trouble
  BY DEF Rename, bounds
<1>2. /\ ~AtEnd /\ best[Here] # None /\ tree[temp] = best[Here]
      /\ calm => ParentOf(Here) \subseteq dirs
  BY <1>1 DEF SnapshotInv, Placing
<1>3. /\ TypeOK /\ i + 1 \in 1..(Len(Order) + 1) /\ 1 \in 1..(Len(Order) + 1)
      /\ Here \in Rest /\ Rest \subseteq Paths /\ RestFrom(i + 1) = Rest \ {Here} /\ temp \in Paths
  BY <1>2, HereFacts, StartFacts DEF SnapshotInv
<1>4. /\ unsettled /\ outcome = "none" /\ attempted = None /\ staged = Empty
      /\ best \in Manifests /\ Here # temp
  BY <1>1, <1>2 DEF SnapshotInv, Calls, Restoring, TypeOK, Stored, FileTree
<1>5. \/ /\ Replaces(Here) /\ tree' = [tree EXCEPT ![Here] = best[Here], ![temp] = None]
         /\ pc' = "place" /\ i' = i + 1 /\ goal' = goal /\ outcome' = outcome
         /\ manifest' = manifest /\ staged' = staged
      \/ /\ ~Replaces(Here) /\ tree' = [tree EXCEPT ![temp] = None]
         /\ pc' = "idle" /\ outcome' = "failed" /\ i' = 1 /\ goal' = "capture"
         /\ manifest' = Empty /\ staged' = Empty
  BY <1>2 DEF Rename, Finish
<1>6. /\ tree' \in Holdings /\ tree'[temp] = None /\ None # Irregular
      /\ \A p \in Paths \ {temp} : p # Here \/ ~Replaces(Here) => tree'[p] = tree[p]
      /\ Replaces(Here) => tree'[Here] = best[Here]
  BY <1>3, <1>4, <1>5, SnapshotAssumption DEF TypeOK, Manifests, Holdings
<1>7. TypeOK'
  <2>1. WellFormed(tree', dirs')
    BY <1>1, <1>3, <1>6 DEF TypeOK, WellFormed, Replaces, ParentOf
  <2>2. /\ pc' \in {"idle", "place"} /\ goal' \in {"capture", "current", "verify"}
        /\ i' \in 1..(Len(Order) + 1) /\ manifest' \in Manifests /\ staged' \in Manifests
        /\ outcome' \in {"none", "captured", "restored", "failed"}
    BY <1>3, <1>5, StartFacts DEF TypeOK
  <2> QED  BY <1>1, <1>3, <1>6, <2>1, <2>2 DEF TypeOK
<1>8. Stored'
  BY <1>1, <1>2, <1>3, <1>4, <1>5, <1>6 DEF SnapshotInv, Stored, FileTree
<1>9. Calls'
  BY <1>1, <1>2, <1>3, <1>4, <1>5, <1>6 DEF SnapshotInv, Calls, Restoring, Capturing
<1>10. TempFile'
  BY <1>1, <1>2, <1>3, <1>4, <1>5, <1>6 DEF SnapshotInv, TempFile, Rest
<1>11. Walking'
  BY <1>1, <1>2, <1>3, <1>4, <1>5, <1>6 DEF SnapshotInv, Walking, Rest
<1>12. Copying'
  BY <1>1, <1>2, <1>3, <1>4, <1>5, <1>6 DEF SnapshotInv, Copying, FileTree, Rest
<1>13. Removing'
  BY <1>1, <1>2, <1>3, <1>4, <1>5, <1>6 DEF SnapshotInv, Removing, Rest
<1>14. Placing'
  <2>1. SUFFICES ASSUME pc' = "place", calm
        PROVE  \A p \in Paths \ {temp} : IF p \in Rest' THEN tree'[p] # None => best[p] # None
                                         ELSE tree'[p] = best[p]
    BY <1>1, <1>5 DEF Placing
  <2>2. \A p \in Paths \ {temp} : IF p \in Rest THEN tree[p] # None => best[p] # None
                                  ELSE tree[p] = best[p]
    BY <1>1, <2>1 DEF SnapshotInv, Placing
  <2>3. Rest' = Rest \ {Here} /\ Replaces(Here)
    BY <1>3, <1>5, <2>1 DEF Rest
  <2> QED  BY <1>6, <2>2, <2>3
<1>15. CalmRestoreSucceeds'
  <2>1. CASE Replaces(Here)
    BY <1>4, <1>5, <2>1 DEF CalmRestoreSucceeds, Disappoints
  <2>2. CASE ~Replaces(Here) /\ calm
    <3>1. Here \in dirs /\ best[Here] # None
      BY <1>2, <2>2 DEF Replaces
    <3> QED  BY <1>1, <3>1 DEF CalmRestoreSucceeds, Obstructed
  <2>3. CASE ~calm
    BY <1>1, <2>3 DEF CalmRestoreSucceeds, Disappoints
  <2> QED  BY <2>1, <2>2, <2>3
<1> QED
  BY <1>7, <1>8, <1>9, <1>10, <1>11, <1>12, <1>13, <1>14, <1>15 DEF SnapshotInv

\* All the files are in place, and the tree is read again.
LEMMA PlacedInv ==
  ASSUME SnapshotInv, Placed
  PROVE  SnapshotInv'
<1>1. /\ pc = "place" /\ pc' = "walk" /\ goal' = "verify" /\ i' = 1
      /\ manifest' = Empty /\ still' = TRUE
      /\ tree' = tree /\ dirs' = dirs /\ rooted' = rooted
      /\ store' = store /\ best' = best /\ attempted' = attempted
      /\ outcome' = outcome /\ unsettled' = unsettled /\ staged' = staged
      /\ calm' = calm /\ attempts' = attempts /\ trouble' = trouble
  BY DEF Placed, StartWalk, disk, bounds
<1>2. /\ TypeOK /\ Rest = {} /\ 1 \in 1..(Len(Order) + 1) /\ Rest' = Paths
      /\ temp \in Paths
  BY <1>1, EndFacts, StartFacts DEF SnapshotInv, Rest, Placed
<1>3. tree[temp] = None /\ best \in Manifests /\ best[temp] = None
  BY <1>1 DEF SnapshotInv, Calls, Restoring, TempFile, TypeOK, Stored, FileTree
<1>4. TypeOK'
  BY <1>1, <1>2, <1>3, StartFacts DEF SnapshotInv, TypeOK
<1>5. Stored'
  BY <1>1, <1>2, <1>3 DEF SnapshotInv, Stored, FileTree
<1>6. Calls'
  BY <1>1, <1>2, <1>3 DEF SnapshotInv, Calls, Restoring, Capturing
<1>7. TempFile'
  BY <1>1, <1>2, <1>3 DEF SnapshotInv, TempFile, Rest
<1>8. Walking'
  BY <1>1, <1>2, <1>3, StartFacts, ParentFacts DEF SnapshotInv, Walking, Rest
<1>9. Copying'
  BY <1>1, <1>2, <1>3 DEF SnapshotInv, Copying, FileTree, Rest
<1>10. Removing'
  BY <1>1, <1>2, <1>3 DEF SnapshotInv, Removing, Rest
<1>11. Placing'
  <2>1. ASSUME calm  PROVE tree = best
    <3>1. \A p \in Paths : tree[p] = best[p]
      BY <1>1, <1>2, <1>3, <2>1 DEF SnapshotInv, Placing
    <3> QED  BY <1>2, <1>3, <3>1, SameFiles, ManifestHolds DEF TypeOK
  <2> QED  BY <1>1, <2>1 DEF Placing
<1>12. CalmRestoreSucceeds'
  BY <1>1, <1>2, <1>3 DEF SnapshotInv, Calls, CalmRestoreSucceeds, Disappoints
<1> QED
  BY <1>4, <1>5, <1>6, <1>7, <1>8, <1>9, <1>10, <1>11, <1>12 DEF SnapshotInv

\* The restored tree has been read again.
LEMMA VerifyWalkedInv ==
  ASSUME SnapshotInv, VerifyWalked
  PROVE  SnapshotInv'
<1>1. /\ pc = "walk" /\ goal = "verify" /\ pc' = "idle" /\ i' = 1 /\ goal' = "capture"
      /\ manifest' = Empty /\ staged' = Empty
      /\ \/ outcome' = "restored" /\ unsettled' = FALSE
         \/ manifest # best /\ outcome' = "failed" /\ unsettled' = unsettled
      /\ tree' = tree /\ dirs' = dirs /\ rooted' = rooted
      /\ store' = store /\ best' = best /\ attempted' = attempted
      /\ calm' = calm /\ still' = still /\ attempts' = attempts /\ trouble' = trouble
  BY DEF VerifyWalked, Verifies, Finish, disk, bounds
<1>2. TypeOK /\ Rest = {} /\ 1 \in 1..(Len(Order) + 1)
  BY EndFacts, StartFacts DEF SnapshotInv, VerifyWalked
<1>3. attempted = None /\ tree[temp] = None
  BY <1>1 DEF SnapshotInv, Calls, TempFile
<1>4. still => manifest = tree
  <2>1. still => \A p \in Paths : manifest[p] = tree[p]
    BY <1>1, <1>2 DEF SnapshotInv, Walking
  <2> QED  BY <1>2, <2>1, SameFiles, ManifestHolds DEF TypeOK
<1>5. TypeOK'
  BY <1>1, <1>2, <1>3, <1>4, StartFacts DEF SnapshotInv, TypeOK
<1>6. Stored'
  BY <1>1, <1>2, <1>3, <1>4 DEF SnapshotInv, Stored, FileTree
<1>7. Calls'
  BY <1>1, <1>2, <1>3, <1>4 DEF SnapshotInv, Calls, Restoring, Capturing
<1>8. TempFile'
  BY <1>1, <1>2, <1>3, <1>4 DEF SnapshotInv, TempFile, Rest
<1>9. Walking'
  BY <1>1, <1>2, <1>3, <1>4 DEF SnapshotInv, Walking, Rest
<1>10. Copying'
  BY <1>1, <1>2, <1>3, <1>4 DEF SnapshotInv, Copying, FileTree, Rest
<1>11. Removing'
  BY <1>1, <1>2, <1>3, <1>4 DEF SnapshotInv, Removing, Rest
<1>12. Placing'
  BY <1>1, <1>2, <1>3, <1>4 DEF SnapshotInv, Placing, Here, AtEnd, Rest
<1>13. CalmRestoreSucceeds'
  BY <1>1, <1>2, <1>3, <1>4 DEF SnapshotInv, Calls, CalmRestoreSucceeds, Disappoints,
     Placing
<1> QED
  BY <1>5, <1>6, <1>7, <1>8, <1>9, <1>10, <1>11, <1>12, <1>13 DEF SnapshotInv

\* The attempt hook changes the tree.
LEMMA AttemptInv ==
  ASSUME SnapshotInv, Attempt
  PROVE  SnapshotInv'
<1>1. /\ pc = "idle" /\ ~unsettled /\ attempts < MaxAttempts /\ attempts' = attempts + 1
      /\ store' = store /\ best' = best /\ attempted' = attempted /\ pc' = pc /\ goal' = goal
      /\ i' = i /\ outcome' = outcome /\ unsettled' = unsettled /\ manifest' = manifest
      /\ staged' = staged /\ calm' = calm /\ still' = still /\ trouble' = trouble
  BY DEF Attempt, Idle, control
<1>2. PICK new \in Trees : tree' = new.tree /\ dirs' = new.dirs /\ rooted' = new.rooted
  BY DEF Attempt, Leaves
<1>3. /\ tree' \in Holdings /\ dirs' \subseteq Paths \ {temp} /\ tree'[temp] = None /\ None # Irregular
      /\ WellFormed(tree', dirs') /\ rooted' \in BOOLEAN
  BY <1>2, ParentFacts, SnapshotAssumption DEF Trees
<1>4. TypeOK'
  BY <1>1, <1>2, <1>3, BoundFacts DEF SnapshotInv, TypeOK
<1>5. Stored'
  BY <1>1, <1>2, <1>3 DEF SnapshotInv, Stored, FileTree
<1>6. Calls'
  BY <1>1, <1>2, <1>3 DEF SnapshotInv, Calls, Restoring, Capturing
<1>7. TempFile'
  BY <1>1, <1>2, <1>3 DEF SnapshotInv, TempFile, Rest
<1>8. Walking'
  BY <1>1, <1>2, <1>3 DEF SnapshotInv, Walking, Rest
<1>9. Copying'
  BY <1>1, <1>2, <1>3 DEF SnapshotInv, Copying, FileTree, Rest
<1>10. Removing'
  BY <1>1, <1>2, <1>3 DEF SnapshotInv, Removing, Rest
<1>11. Placing'
  BY <1>1, <1>2, <1>3 DEF SnapshotInv, Placing, Here, AtEnd, Rest
<1>12. CalmRestoreSucceeds'
  BY <1>1, <1>2, <1>3 DEF SnapshotInv, Calls, CalmRestoreSucceeds, Disappoints
<1> QED
  BY <1>4, <1>5, <1>6, <1>7, <1>8, <1>9, <1>10, <1>11, <1>12 DEF SnapshotInv

\* A call to the system fails.
LEMMA FailInv ==
  ASSUME SnapshotInv, Fail
  PROVE  SnapshotInv'
<1>1. /\ trouble < MaxTrouble /\ trouble' = trouble + 1 /\ attempts' = attempts /\ pc # "idle"
      /\ pc' = "idle" /\ outcome' = "failed" /\ i' = 1 /\ goal' = "capture"
      /\ manifest' = Empty /\ staged' = Empty /\ calm' = FALSE
      /\ tree' = [tree EXCEPT ![temp] = None] /\ dirs' = dirs /\ rooted' = rooted
      /\ store' = store /\ best' = best
      /\ attempted' = attempted /\ unsettled' = unsettled /\ still' = still
  BY DEF Fail, Trouble, Idle, Finish
<1>2. TypeOK /\ temp \in Paths /\ attempted = None
  BY <1>1, StartFacts DEF SnapshotInv, Calls
<1>3. /\ tree' \in Holdings /\ tree'[temp] = None /\ None # Irregular
      /\ \A p \in Paths : tree'[p] # None => tree[p] # None
  BY <1>1, <1>2, SnapshotAssumption DEF TypeOK, Manifests, Holdings
<1>4. TypeOK'
  <2>1. WellFormed(tree', dirs')
    BY <1>1, <1>2, <1>3 DEF TypeOK, WellFormed
  <2>2. {unsettled, calm, still}' \subseteq BOOLEAN
    BY <1>1, <1>2 DEF TypeOK
  <2>3. attempts' \in 0..MaxAttempts /\ trouble' \in 0..MaxTrouble
    BY <1>1, <1>2, BoundFacts DEF TypeOK
  <2> QED  BY <1>1, <1>2, <1>3, <2>1, <2>2, <2>3, StartFacts DEF TypeOK
<1>5. Stored'
  BY <1>1, <1>2, <1>3 DEF SnapshotInv, Stored, FileTree
<1>6. Calls'
  BY <1>1, <1>2, <1>3 DEF SnapshotInv, Calls, Restoring, Capturing
<1>7. TempFile'
  BY <1>1, <1>2, <1>3 DEF SnapshotInv, TempFile, Rest
<1>8. Walking'
  BY <1>1, <1>2, <1>3 DEF SnapshotInv, Walking, Rest
<1>9. Copying'
  BY <1>1, <1>2, <1>3 DEF SnapshotInv, Copying, FileTree, Rest
<1>10. Removing'
  BY <1>1, <1>2, <1>3 DEF SnapshotInv, Removing, Rest
<1>11. Placing'
  BY <1>1, <1>2, <1>3 DEF SnapshotInv, Placing, Here, AtEnd, Rest
<1>12. CalmRestoreSucceeds'
  BY <1>1, <1>2, <1>3 DEF SnapshotInv, Calls, CalmRestoreSucceeds, Disappoints
<1> QED
  BY <1>4, <1>5, <1>6, <1>7, <1>8, <1>9, <1>10, <1>11, <1>12 DEF SnapshotInv

\* The governor is killed.
LEMMA CrashInv ==
  ASSUME SnapshotInv, Crash
  PROVE  SnapshotInv'
<1>1. /\ trouble < MaxTrouble /\ trouble' = trouble + 1 /\ attempts' = attempts /\ pc # "idle"
      /\ pc' = "idle" /\ outcome' = "none" /\ i' = 1 /\ goal' = "capture"
      /\ manifest' = Empty /\ staged' = Empty
      /\ unsettled' = (best # None) /\ attempted' = None
      /\ tree' = tree /\ dirs' = dirs /\ rooted' \in {rooted, TRUE}
      /\ store' = store /\ best' = best
      /\ calm' = calm /\ still' = still
  BY DEF Crash, Trouble, Idle, Finish, disk
<1>2. TypeOK /\ temp \in Paths
  BY <1>1, StartFacts DEF SnapshotInv
<1>3. tree[temp] # None => best # None
  BY <1>1 DEF SnapshotInv, TempFile, Calls, Restoring
<1>4. TypeOK'
  <2>1. rooted' \in BOOLEAN /\ {unsettled, calm, still}' \subseteq BOOLEAN
    BY <1>1, <1>2 DEF TypeOK
  <2>2. attempts' \in 0..MaxAttempts /\ trouble' \in 0..MaxTrouble
    BY <1>1, <1>2, BoundFacts DEF TypeOK
  <2> QED  BY <1>1, <1>2, <1>3, <2>1, <2>2, StartFacts DEF TypeOK
<1>5. Stored'
  BY <1>1, <1>2, <1>3 DEF SnapshotInv, Stored, FileTree
<1>6. Calls'
  BY <1>1, <1>2, <1>3 DEF SnapshotInv, Calls, Restoring, Capturing
<1>7. TempFile'
  BY <1>1, <1>2, <1>3 DEF SnapshotInv, TempFile, Rest
<1>8. Walking'
  BY <1>1, <1>2, <1>3 DEF SnapshotInv, Walking, Rest
<1>9. Copying'
  BY <1>1, <1>2, <1>3 DEF SnapshotInv, Copying, FileTree, Rest
<1>10. Removing'
  BY <1>1, <1>2, <1>3 DEF SnapshotInv, Removing, Rest
<1>11. Placing'
  BY <1>1, <1>2, <1>3 DEF SnapshotInv, Placing, Here, AtEnd, Rest
<1>12. CalmRestoreSucceeds'
  BY <1>1, <1>2, <1>3 DEF SnapshotInv, Calls, CalmRestoreSucceeds, Disappoints
<1> QED
  BY <1>4, <1>5, <1>6, <1>7, <1>8, <1>9, <1>10, <1>11, <1>12 DEF SnapshotInv

\* A file of a published snapshot changes.
LEMMA RotInv ==
  ASSUME SnapshotInv, Rot
  PROVE  SnapshotInv'
<1>1. /\ trouble < MaxTrouble /\ trouble' = trouble + 1 /\ attempts' = attempts
      /\ tree' = tree /\ dirs' = dirs /\ rooted' = rooted
      /\ best' = best /\ attempted' = attempted
      /\ pc' = pc /\ goal' = goal /\ i' = i /\ outcome' = outcome /\ unsettled' = unsettled
      /\ manifest' = manifest /\ staged' = staged /\ calm' = calm /\ still' = still
  BY DEF Rot, Trouble, disk, control
<1>2. PICK id \in DOMAIN store, p \in Paths \ {temp}, c \in Contents \union {None} :
        Intact(id) /\ c # id[p] /\ store' = [store EXCEPT ![id][p] = c]
  BY DEF Rot
<1>3. /\ TypeOK /\ DOMAIN store' = DOMAIN store
      /\ \A other \in DOMAIN store : other # id => store'[other] = store[other]
      /\ store'[id] = [id EXCEPT ![p] = c] /\ id \in Manifests
  BY <1>2 DEF SnapshotInv, TypeOK, Intact
<1>4. store'[id] \in Manifests /\ store'[id] # id
  BY <1>2, <1>3 DEF Manifests
<1>5. TypeOK'
  BY <1>1, <1>2, <1>3, <1>4, BoundFacts DEF SnapshotInv, TypeOK
<1>6. Stored'
  BY <1>1, <1>2, <1>3, <1>4 DEF SnapshotInv, Stored, FileTree
<1>7. Calls'
  BY <1>1, <1>2, <1>3, <1>4 DEF SnapshotInv, Calls, Restoring, Capturing
<1>8. TempFile'
  BY <1>1, <1>2, <1>3, <1>4 DEF SnapshotInv, TempFile, Rest
<1>9. Walking'
  BY <1>1, <1>2, <1>3, <1>4 DEF SnapshotInv, Walking, Rest
<1>10. Copying'
  BY <1>1, <1>2, <1>3, <1>4 DEF SnapshotInv, Copying, FileTree, Rest
<1>11. Removing'
  BY <1>1, <1>2, <1>3, <1>4 DEF SnapshotInv, Removing, Rest
<1>12. Placing'
  BY <1>1, <1>2, <1>3, <1>4 DEF SnapshotInv, Placing, Here, AtEnd, Rest
<1>13. CalmRestoreSucceeds'
  BY <1>1, <1>2, <1>3, <1>4 DEF SnapshotInv, Calls, CalmRestoreSucceeds, Disappoints,
     Obstructed, Refused, Files, Intact, TypeOK
<1> QED
  BY <1>5, <1>6, <1>7, <1>8, <1>9, <1>10, <1>11, <1>12, <1>13 DEF SnapshotInv

\* Another program changes one path.
LEMMA EditInv ==
  ASSUME SnapshotInv, NEW p \in Paths, Edit(p)
  PROVE  SnapshotInv'
<1>1. /\ trouble < MaxTrouble /\ trouble' = trouble + 1 /\ attempts' = attempts
      /\ pc # "idle" /\ p # temp /\ WellFormed(tree', dirs') /\ calm' = FALSE /\ still' = FALSE
      /\ store' = store /\ best' = best /\ attempted' = attempted
      /\ pc' = pc /\ goal' = goal /\ i' = i /\ outcome' = outcome /\ unsettled' = unsettled
      /\ manifest' = manifest /\ staged' = staged
  BY DEF Edit, Trouble, Idle, control
<1>2. /\ TypeOK /\ outcome = "none" /\ rooted' = rooted
      /\ \/ \E c \in Contents \union {None, Irregular} : tree' = [tree EXCEPT ![p] = c] /\ dirs' = dirs
         \/ tree' = [tree EXCEPT ![p] = None] /\ dirs' = dirs \union {p}
         \/ dirs' = dirs \ {p} /\ tree' = tree
  BY <1>1 DEF SnapshotInv, Calls, Edit
<1>3. /\ tree' \in Holdings /\ tree'[temp] = tree[temp]
      /\ dirs' \subseteq Paths \ {temp} /\ temp \in Paths
  BY <1>1, <1>2, StartFacts DEF TypeOK, Manifests, Holdings
<1>4. TypeOK'
  <2>1. {unsettled, calm, still}' \subseteq BOOLEAN
    BY <1>1, <1>2 DEF TypeOK
  <2>2. attempts' \in 0..MaxAttempts /\ trouble' \in 0..MaxTrouble
    BY <1>1, <1>2, BoundFacts DEF TypeOK
  <2> QED  BY <1>1, <1>2, <1>3, <2>1, <2>2 DEF TypeOK
<1>5. Stored'
  BY <1>1, <1>2, <1>3 DEF SnapshotInv, Stored, FileTree
<1>6. Calls'
  BY <1>1, <1>2, <1>3 DEF SnapshotInv, Calls, Restoring, Capturing
<1>7. TempFile'
  BY <1>1, <1>2, <1>3 DEF SnapshotInv, TempFile, Rest
<1>8. Walking'
  BY <1>1, <1>2, <1>3 DEF SnapshotInv, Walking, Rest
<1>9. Copying'
  BY <1>1, <1>2, <1>3 DEF SnapshotInv, Copying, FileTree, Rest
<1>10. Removing'
  BY <1>1, <1>2, <1>3 DEF SnapshotInv, Removing, Rest
<1>11. Placing'
  BY <1>1, <1>2, <1>3 DEF SnapshotInv, Placing, Here, AtEnd, Rest
<1>12. CalmRestoreSucceeds'
  BY <1>1, <1>2, <1>3 DEF SnapshotInv, Calls, CalmRestoreSucceeds, Disappoints
<1> QED
  BY <1>4, <1>5, <1>6, <1>7, <1>8, <1>9, <1>10, <1>11, <1>12 DEF SnapshotInv

------------------------------------------------------------------------------
(* The invariant, and what follows from it.                                 *)

LEMMA InitInv == Init => SnapshotInv
<1>1. SUFFICES ASSUME Init  PROVE SnapshotInv
  OBVIOUS
<1>2. /\ store = [id \in {} |-> Empty] /\ best = None /\ attempted = None
      /\ pc = "idle" /\ goal = "capture" /\ i = 1 /\ outcome = "none" /\ unsettled = FALSE
      /\ manifest = Empty /\ staged = Empty
      /\ calm = TRUE /\ still = TRUE /\ attempts = 0 /\ trouble = 0
  BY <1>1 DEF Init
<1>3. /\ tree \in Holdings /\ dirs \subseteq Paths \ {temp} /\ tree[temp] = None /\ None # Irregular
      /\ WellFormed(tree, dirs) /\ rooted \in BOOLEAN
  <2>1. PICK new \in Trees : tree = new.tree /\ dirs = new.dirs /\ rooted = new.rooted
    BY <1>1 DEF Init
  <2> QED  BY <2>1, ParentFacts, SnapshotAssumption DEF Trees
<1>4. TypeOK
  <2>1. {unsettled, calm, still} \subseteq BOOLEAN
    BY <1>2
  <2>2. attempts \in 0..MaxAttempts /\ trouble \in 0..MaxTrouble
    BY <1>2, BoundFacts
  <2> QED  BY <1>2, <1>3, <2>1, <2>2, StartFacts DEF TypeOK
<1>5. Stored /\ Calls /\ TempFile
  BY <1>2, <1>3 DEF Stored, Calls, Restoring, Capturing, TempFile
<1>6. Walking /\ Copying /\ Removing /\ Placing /\ CalmRestoreSucceeds
  BY <1>2 DEF Walking, Copying, Removing, Placing, CalmRestoreSucceeds, Disappoints
<1> QED  BY <1>4, <1>5, <1>6 DEF SnapshotInv

LEMMA NextInv == SnapshotInv /\ [Next]_vars => SnapshotInv'
<1>1. SUFFICES ASSUME SnapshotInv, [Next]_vars  PROVE SnapshotInv'
  OBVIOUS
<1>2. CASE UNCHANGED vars
  <2>1. /\ tree' = tree /\ dirs' = dirs /\ rooted' = rooted
        /\ store' = store /\ best' = best /\ attempted' = attempted
        /\ pc' = pc /\ goal' = goal /\ i' = i /\ outcome' = outcome /\ unsettled' = unsettled
        /\ manifest' = manifest /\ staged' = staged /\ calm' = calm /\ still' = still
        /\ attempts' = attempts /\ trouble' = trouble
    BY <1>2 DEF vars, disk, control, bounds
  <2>2. TypeOK' /\ Stored' /\ Calls' /\ CalmRestoreSucceeds'
    BY <1>1, <2>1 DEF SnapshotInv, TypeOK, Stored, Calls, Restoring, Capturing,
                      CalmRestoreSucceeds, Disappoints, Obstructed, Refused, Files, Intact
  <2>3. TempFile' /\ Walking' /\ Copying' /\ Removing'
    BY <1>1, <2>1 DEF SnapshotInv, TempFile, Walking, Copying, Removing, Rest
  <2>4. Placing'
    BY <1>1, <2>1 DEF SnapshotInv, Placing, Rest, AtEnd, Here
  <2> QED  BY <2>2, <2>3, <2>4 DEF SnapshotInv
<1>3. CASE Next
  <2>1. CASE Look \/ BeginCapture \/ CaptureWalked \/ CopyOut \/ Publish \/ Promote
    BY <1>1, <2>1, LookInv, BeginCaptureInv, CaptureWalkedInv, CopyOutInv, PublishInv, PromoteInv
  <2>2. CASE BeginRestore \/ CurrentWalked \/ Remove \/ Removed
    BY <1>1, <2>2, BeginRestoreInv, CurrentWalkedInv, RemoveInv, RemovedInv
  <2>3. CASE Place \/ Rename \/ Placed \/ VerifyWalked
    BY <1>1, <2>3, PlaceInv, RenameInv, PlacedInv, VerifyWalkedInv
  <2>4. CASE Attempt \/ Fail \/ Crash \/ Rot
    BY <1>1, <2>4, AttemptInv, FailInv, CrashInv, RotInv
  <2>5. CASE \E p \in Paths : Edit(p)
    BY <1>1, <2>5, EditInv
  <2> QED  BY <1>3, <2>1, <2>2, <2>3, <2>4, <2>5 DEF Next
<1> QED  BY <1>1, <1>2, <1>3

\* The invariant of every behaviour, for any paths, contents and amount of trouble.
THEOREM SnapshotCorrect == Spec => []SnapshotInv
<1>1. Init => SnapshotInv
  BY InitInv
<1>2. SnapshotInv /\ [Next]_vars => SnapshotInv'
  BY NextInv
<1> QED  BY <1>1, <1>2, PTL DEF Spec

\* Every variable keeps its type, and no file is also a directory or lies in a path
\* that is none.
THEOREM SnapshotTypes == Spec => []TypeOK
<1>1. SnapshotInv => TypeOK
  BY DEF SnapshotInv
<1> QED  BY <1>1, SnapshotCorrect, PTL

\* An undisturbed restoration fails only on a damaged snapshot, on a manifest that is
\* too long to be read, on a directory that stands where the snapshot has a file, or on
\* a tree that Capture refuses: what remains must be put back.
THEOREM CalmRestorations == Spec => []CalmRestoreSucceeds
<1>1. SnapshotInv => CalmRestoreSucceeds
  BY DEF SnapshotInv
<1> QED  BY <1>1, SnapshotCorrect, PTL

\* Only these steps end a call with a snapshot, and only this one with a restored tree.
LEMMA Answers ==
  ASSUME Next, pc # "idle"
  PROVE  /\ outcome' = "captured" => outcome = "captured" \/ CaptureWalked \/ Publish
         /\ outcome' = "restored" => outcome = "restored" \/ VerifyWalked
<1>1. CASE Look \/ BeginCapture \/ CopyOut \/ Promote
  BY <1>1 DEF Look, BeginCapture, Idle, CopyOut, Finish, Promote
<1>2. CASE BeginRestore \/ CurrentWalked \/ Remove \/ Removed
  BY <1>2 DEF BeginRestore, Idle, CurrentWalked, Remove, Removed, Finish
<1>3. CASE Place \/ Rename \/ Placed
  BY <1>3 DEF Place, Rename, Placed, Finish
<1>4. CASE Attempt \/ Fail \/ Crash \/ Rot \/ \E p \in Paths : Edit(p)
  BY <1>4 DEF Attempt, Fail, Crash, Rot, Edit, Finish, Idle, control
<1>5. CASE CaptureWalked
  BY <1>5 DEF CaptureWalked, Finish
<1>6. CASE Publish
  BY <1>6 DEF Publish, Finish
<1>7. CASE VerifyWalked
  BY <1>7 DEF VerifyWalked, Finish
<1> QED  BY <1>1, <1>2, <1>3, <1>4, <1>5, <1>6, <1>7 DEF Next

\* A capture that answers names a snapshot that is stored whole, and the tree as it is
\* if nothing was edited since the walk began.
THEOREM CapturesWhole == Spec => AnswersWhole
<1>1. ASSUME SnapshotInv, [Next]_vars, pc # "idle", outcome' = "captured"
      PROVE  Intact(attempted)' /\ (still => attempted' = tree)
  <2>1. outcome # "captured"
    BY <1>1 DEF SnapshotInv, Calls
  <2>2. Next
    BY <1>1, <2>1 DEF vars, control
  <2>3. CaptureWalked \/ Publish
    BY <1>1, <2>1, <2>2, Answers
  <2>4. TypeOK /\ (AtEnd => Rest = {})
    BY <1>1, EndFacts DEF SnapshotInv
  <2>5. CASE CaptureWalked
    <3>1. /\ pc = "walk" /\ goal = "capture" /\ AtEnd /\ store' = store
          /\ Intact(manifest) /\ attempted' = manifest
      BY <1>1, <2>5 DEF CaptureWalked, Valid, Finish, SnapshotInv, Calls
    <3>2. still => \A p \in Paths : manifest[p] = tree[p]
      BY <1>1, <2>4, <3>1 DEF SnapshotInv, Walking
    <3>3. still => manifest = tree
      BY <2>4, <3>2, SameFiles, ManifestHolds DEF TypeOK
    <3> QED  BY <3>1, <3>3 DEF Intact
  <2>6. CASE Publish
    <3>1. /\ pc = "copy" /\ AtEnd /\ attempted' = manifest
          /\ store' = [id \in DOMAIN store \union {manifest} |->
                        IF id = manifest THEN staged ELSE store[id]]
      BY <2>6 DEF Publish
    <3>2. (still => manifest = tree) /\ \A p \in Paths : staged[p] = manifest[p]
      BY <1>1, <2>4, <3>1 DEF SnapshotInv, Copying
    <3>3. staged = manifest
      BY <2>4, <3>2, SameFiles, ManifestHolds DEF TypeOK
    <3> QED  BY <3>1, <3>2, <3>3 DEF Intact
  <2> QED  BY <2>3, <2>5, <2>6
<1>2. SnapshotInv /\ [Next]_vars =>
        [pc # "idle" /\ outcome' = "captured" =>
           Intact(attempted)' /\ (still => attempted' = tree)]_vars
  BY <1>1
<1> QED  BY <1>2, SnapshotCorrect, PTL DEF Spec, AnswersWhole

\* A restoration that succeeds leaves the files of the best snapshot and no others, if
\* nothing was edited since the last walk began.
THEOREM RestoresBest == Spec => RestoredIsBest
<1>1. ASSUME SnapshotInv, [Next]_vars, pc # "idle", outcome' = "restored", still
      PROVE  tree = best
  <2>1. outcome # "restored"
    BY <1>1 DEF SnapshotInv, Calls
  <2>2. Next
    BY <1>1, <2>1 DEF vars, control
  <2>3. VerifyWalked
    BY <1>1, <2>1, <2>2, Answers
  <2>4. pc = "walk" /\ AtEnd /\ manifest = best
    BY <1>1, <2>3 DEF VerifyWalked, Verifies, Finish
  <2>5. TypeOK /\ Rest = {}
    BY <1>1, <2>4, EndFacts DEF SnapshotInv
  <2>6. \A p \in Paths : manifest[p] = tree[p]
    BY <1>1, <2>4, <2>5 DEF SnapshotInv, Walking
  <2> QED  BY <2>4, <2>5, <2>6, SameFiles, ManifestHolds DEF TypeOK
<1>2. SnapshotInv /\ [Next]_vars =>
        [pc # "idle" /\ outcome' = "restored" /\ still => tree = best]_vars
  BY <1>1
<1> QED  BY <1>2, SnapshotCorrect, PTL DEF Spec, RestoredIsBest
=============================================================================
