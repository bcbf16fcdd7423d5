------------------------------ MODULE Snapshot ------------------------------
(***************************************************************************)
(* The files under a candidate: how a snapshot of the tree is captured,    *)
(* published in the store and put back.  Candidate takes each of these as  *)
(* one step; here they go file by file, while another program may edit the *)
(* tree, a call may fail or the governor be killed.                        *)
(*                                                                         *)
(* A manifest is the function from paths to contents that its hash stands  *)
(* for, so that the id of a snapshot is its manifest; None: no such file.  *)
(* Modes, sizes and the digests in a manifest belong to the content.  The  *)
(* included paths are those that are in no directory of Parent.            *)
(***************************************************************************)
EXTENDS Integers, Sequences, FiniteSets

CONSTANTS
  Order,       \* the paths a walk meets, in its order; the first is the temporary file
  Parent,      \* for some paths, the path of the directory they are in
  Contents,
  Irregular,   \* what Capture refuses: a symlink, a special file, more than 1 GiB
  MaxFiles,    \* the most files of a manifest, 10,000
  Readable,    \* the manifests whose manifest.json is no longer than MaxEvidence, 1 MiB
  None,
  MaxAttempts, \* bound: attempts that change the tree
  MaxTrouble   \* bound: edits by another program, failures, kills and rotten snapshots

Paths == {Order[i] : i \in 1..Len(Order)}
temp  == Order[1]  \* ".candidate-*": CopyArtifact writes it beside its target

ASSUME SnapshotAssumption ==
  /\ Order \in Seq(Paths) /\ Order # <<>>
  /\ \A j, k \in 1..Len(Order) : Order[j] = Order[k] => j = k
  /\ DOMAIN Parent \subseteq Paths \ {temp}
  /\ \A p \in DOMAIN Parent : Parent[p] \in Paths \ (DOMAIN Parent \union {temp})
  \* A walk meets a directory before what is in it.
  /\ \A j, k \in 1..Len(Order) : Order[k] \in DOMAIN Parent /\ Parent[Order[k]] = Order[j] => j < k
  /\ None \notin Contents /\ Irregular \notin Contents \union {None}
  /\ MaxFiles \in Nat /\ MaxAttempts \in Nat /\ MaxTrouble \in Nat

Manifests == [Paths -> Contents \union {None}]
Empty     == [p \in Paths |-> None]

ASSUME ReadableAssumption == Readable \subseteq Manifests

VARIABLES
  tree,      \* what the paths below the root hold
  dirs,      \* paths that are directories
  rooted,    \* the root, and what is above an included path, is a directory
  store,     \* published snapshots: from ids to the files they hold
  best,      \* the snapshot to restore, None before the first
  attempted, \* what the last capture answered, None after a restoration
  pc,        \* "idle", "walk", "copy", "remove", "place", "rename"
  goal,      \* of a walk: "capture", "current", "verify"
  i,         \* place in Order
  manifest,  \* what the walk found
  staged,    \* the files of the pending- directory
  outcome,   \* of the last call: "none", "captured", "restored", "failed"
  unsettled, \* a restoration has begun or must begin, and has not succeeded
  calm,      \* no edit or failure since the call began
  still,     \* no edit since the last walk began
  attempts, trouble

disk    == <<tree, dirs, rooted>>
control == <<pc, goal, i, outcome, unsettled>>
bounds  == <<attempts, trouble>>
vars    == <<disk, store, best, attempted, control, manifest, staged, calm, still, bounds>>

Holdings == [Paths -> Contents \union {None, Irregular}]

\* A file is no directory, and what has a parent needs it to be one.
WellFormed(files, folders) ==
  /\ \A p \in Paths : files[p] # None =>
       p \notin folders /\ (p \in DOMAIN Parent => Parent[p] \in folders)

TypeOK ==
  /\ tree \in Holdings /\ tree[temp] # Irregular /\ rooted \in BOOLEAN
  /\ dirs \subseteq Paths \ {temp} /\ WellFormed(tree, dirs)
  /\ DOMAIN store \subseteq Manifests /\ \A id \in DOMAIN store : store[id] \in Manifests
  /\ best \in DOMAIN store \union {None} /\ attempted \in DOMAIN store \union {None}
  /\ pc \in {"idle", "walk", "copy", "remove", "place", "rename"}
  /\ goal \in {"capture", "current", "verify"} /\ i \in 1..Len(Order) + 1
  /\ manifest \in Manifests /\ staged \in Manifests
  /\ outcome \in {"none", "captured", "restored", "failed"}
  /\ {unsettled, calm, still} \subseteq BOOLEAN
  /\ attempts \in 0..MaxAttempts /\ trouble \in 0..MaxTrouble

Trees ==
  {new \in [tree : Holdings, dirs : SUBSET {Parent[p] : p \in DOMAIN Parent}, rooted : BOOLEAN] :
     /\ new.tree[temp] = None /\ WellFormed(new.tree, new.dirs)
     /\ ~new.rooted => new.tree = Empty /\ new.dirs = {}}

Leaves(new) == tree' = new.tree /\ dirs' = new.dirs /\ rooted' = new.rooted

Init ==
  /\ \E new \in Trees : tree = new.tree /\ dirs = new.dirs /\ rooted = new.rooted
  /\ store = [id \in {} |-> Empty] /\ best = None /\ attempted = None
  /\ pc = "idle" /\ goal = "capture" /\ i = 1 /\ outcome = "none" /\ unsettled = FALSE
  /\ manifest = Empty /\ staged = Empty
  /\ calm = TRUE /\ still = TRUE /\ attempts = 0 /\ trouble = 0

------------------------------------------------------------------------------
(* Capture: a walk over the tree, one file at a time.                       *)

StartWalk(g) ==
  /\ pc' = "walk" /\ goal' = g /\ i' = 1 /\ manifest' = Empty /\ still' = TRUE

Here     == Order[i]
AtEnd    == i > Len(Order)
Idle     == pc = "idle"
\* A call returns; what it held in memory is gone.
Finish(o) ==
  /\ pc' = "idle" /\ outcome' = o /\ i' = 1 /\ goal' = "capture"
  /\ manifest' = Empty /\ staged' = Empty

ParentOf(p) == IF p \in DOMAIN Parent THEN {Parent[p]} ELSE {}

\* A directory, or a path that is not there, adds nothing.  The walk does not
\* descend into what it has met as a file.
Met == IF \E d \in ParentOf(Here) : manifest[d] # None THEN None ELSE tree[Here]

Files(m) == {p \in Paths : m[p] # None}

\* A walk ends at a root that is no directory, at the first path that is no regular
\* file, and past the last file of a manifest.
Refuses ==
  \/ ~rooted
  \/ Met = Irregular
  \/ Met # None /\ Cardinality(Files(manifest)) >= MaxFiles

Look ==
  /\ pc = "walk" /\ ~AtEnd
  /\ IF Refuses THEN Finish("failed")
     ELSE /\ manifest' = [manifest EXCEPT ![Here] = Met]
          /\ i' = i + 1 /\ UNCHANGED <<pc, goal, outcome, staged>>
  /\ UNCHANGED <<disk, store, best, attempted, unsettled, calm, still, bounds>>

------------------------------------------------------------------------------
(* candidateManager.capture.                                                *)

BeginCapture ==
  /\ Idle /\ ~unsettled
  /\ StartWalk("capture") /\ calm' = TRUE /\ outcome' = "none" /\ attempted' = None
  /\ UNCHANGED <<disk, store, best, unsettled, staged, bounds>>

\* validateSnapshot: the files of a snapshot hash to its id, and its manifest can be
\* read.
Intact(id) == store[id] = id

Valid(id) == Intact(id) /\ id \in Readable

\* The snapshot is there already, and is checked; else the files are copied.
CaptureWalked ==
  /\ pc = "walk" /\ goal = "capture" /\ AtEnd
  /\ \/ /\ manifest \in DOMAIN store /\ Valid(manifest)
        /\ attempted' = manifest /\ Finish("captured")
     \/ /\ manifest \in DOMAIN store /\ ~Valid(manifest)
        /\ Finish("failed") /\ UNCHANGED attempted
     \/ /\ manifest \notin DOMAIN store
        /\ pc' = "copy" /\ i' = 1 /\ UNCHANGED <<goal, outcome, attempted, manifest, staged>>
  /\ UNCHANGED <<disk, store, best, unsettled, calm, still, bounds>>

\* Defect: the copy is not compared with the hash of the manifest.
CopiesAnything(from, p, wanted) == from[p] # None

\* CopyArtifact reads what the manifest names, or refuses.
Copies(from, p, wanted) == from[p] = wanted

CopyOut ==
  /\ pc = "copy" /\ ~AtEnd
  /\ \/ /\ manifest[Here] = None
        /\ i' = i + 1 /\ UNCHANGED <<pc, goal, outcome, manifest, staged>>
     \/ /\ manifest[Here] # None /\ Copies(tree, Here, manifest[Here])
        /\ staged' = [staged EXCEPT ![Here] = tree[Here]]
        /\ i' = i + 1 /\ UNCHANGED <<pc, goal, outcome, manifest>>
     \/ /\ manifest[Here] # None /\ ~Copies(tree, Here, manifest[Here])
        /\ Finish("failed")
  /\ UNCHANGED <<disk, store, best, attempted, unsettled, calm, still, bounds>>

\* manifest.json is written, the directories are synced, the rename publishes.
Publish ==
  /\ pc = "copy" /\ AtEnd
  /\ store' = [id \in DOMAIN store \union {manifest} |-> IF id = manifest THEN staged ELSE store[id]]
  /\ attempted' = manifest /\ Finish("captured")
  /\ UNCHANGED <<disk, best, unsettled, calm, still, bounds>>

\* promote; the first capture is the initial snapshot, which is not checked.
Promote ==
  /\ Idle /\ attempted # None /\ (best # None => Valid(attempted))
  /\ best' = attempted /\ attempted' = None
  /\ UNCHANGED <<disk, store, control, manifest, staged, calm, still, bounds>>

------------------------------------------------------------------------------
(* candidateManager.restore.                                                *)

\* A manifest that is too long cannot be read, one that is damaged is refused.
BeginRestore ==
  /\ Idle /\ best # None
  /\ calm' = TRUE /\ unsettled' = TRUE /\ attempted' = None
  /\ \/ best \in Readable /\ StartWalk("current") /\ outcome' = "none" /\ UNCHANGED staged
     \/ ~Valid(best) /\ Finish("failed") /\ UNCHANGED still
  /\ UNCHANGED <<disk, store, best, bounds>>

CurrentWalked ==
  /\ pc = "walk" /\ goal = "current" /\ AtEnd
  /\ pc' = "remove" /\ i' = 1
  /\ UNCHANGED <<disk, store, best, attempted, goal, outcome, unsettled, manifest, staged, calm, still, bounds>>

\* Defect: files that the snapshot does not have are left where they are.
UnwantedNone == {}

\* Files of the tree, never directories, that the snapshot does not have.
Unwanted == {p \in Paths : manifest[p] # None /\ best[p] = None}

Children(p) == {q \in DOMAIN Parent : Parent[q] = p /\ (tree[q] # None \/ q \in dirs)}

\* os.Remove of what may have been edited since the walk; SafePath refuses a symlink.
Remove ==
  /\ pc = "remove" /\ ~AtEnd
  /\ \/ /\ Here \notin Unwanted
        /\ i' = i + 1 /\ UNCHANGED <<pc, goal, outcome, manifest, staged, disk>>
     \/ /\ Here \in Unwanted /\ (tree[Here] # None \/ (Here \in dirs /\ Children(Here) = {}))
        /\ tree' = [tree EXCEPT ![Here] = None] /\ dirs' = dirs \ {Here} /\ UNCHANGED rooted
        /\ i' = i + 1 /\ UNCHANGED <<pc, goal, outcome, manifest, staged>>
     \/ /\ Here \in Unwanted
        /\ \/ tree[Here] = Irregular
           \/ tree[Here] = None /\ (Here \in dirs => Children(Here) # {})
        /\ Finish("failed") /\ UNCHANGED disk
  /\ UNCHANGED <<store, best, attempted, unsettled, calm, still, bounds>>

Removed ==
  /\ pc = "remove" /\ AtEnd
  /\ pc' = "place" /\ i' = 1 /\ manifest' = Empty
  /\ UNCHANGED <<disk, store, best, attempted, goal, outcome, unsettled, staged, calm, still, bounds>>

\* SafePath, MkdirAll of the parent, then the verified copy into the temporary file.
Place ==
  /\ pc = "place" /\ ~AtEnd
  /\ \/ /\ best[Here] = None
        /\ i' = i + 1 /\ UNCHANGED <<pc, goal, outcome, manifest, staged, disk>>
     \/ /\ best[Here] # None
        /\ \A d \in ParentOf(Here) : tree[d] = None
        /\ dirs' = dirs \union ParentOf(Here)
        /\ IF Copies(store[best], Here, best[Here])
           THEN pc' = "rename" /\ tree' = [tree EXCEPT ![temp] = store[best][Here]] /\ UNCHANGED <<goal, i, outcome, manifest, staged>>
           ELSE Finish("failed") /\ UNCHANGED tree
        /\ UNCHANGED rooted
     \/ /\ best[Here] # None
        /\ tree[Here] = Irregular \/ \E d \in ParentOf(Here) : tree[d] # None
        /\ Finish("failed") /\ UNCHANGED disk
  /\ UNCHANGED <<store, best, attempted, unsettled, calm, still, bounds>>

\* Defect: a rename replaces directories too.
ReplacesAnything(p) == ParentOf(p) \subseteq dirs

\* A rename replaces a file, not a directory.
Replaces(p) == p \notin dirs /\ ParentOf(p) \subseteq dirs

\* The deferred Remove takes the temporary file of a failed copy away.
Rename ==
  /\ pc = "rename"
  /\ \/ /\ Replaces(Here)
        /\ tree' = [tree EXCEPT ![Here] = tree[temp], ![temp] = None]
        /\ pc' = "place" /\ i' = i + 1 /\ UNCHANGED <<goal, outcome, manifest, staged>>
     \/ /\ ~Replaces(Here)
        /\ tree' = [tree EXCEPT ![temp] = None] /\ Finish("failed")
  /\ UNCHANGED <<dirs, rooted, store, best, attempted, unsettled, calm, still, bounds>>

Placed ==
  /\ pc = "place" /\ AtEnd
  /\ StartWalk("verify")
  /\ UNCHANGED <<disk, store, best, attempted, outcome, unsettled, staged, calm, bounds>>

\* Defect: the restored tree is not read again.
VerifiesAnything(m) == TRUE

Verifies(m) == m = best

VerifyWalked ==
  /\ pc = "walk" /\ goal = "verify" /\ AtEnd
  /\ \/ Verifies(manifest) /\ Finish("restored") /\ unsettled' = FALSE
     \/ ~Verifies(manifest) /\ Finish("failed") /\ UNCHANGED unsettled
  /\ UNCHANGED <<disk, store, best, attempted, calm, still, bounds>>

------------------------------------------------------------------------------
(* The attempt, and what goes wrong.                                        *)

\* The attempt hook may leave any tree of files and directories, or none.
Attempt ==
  /\ Idle /\ best # None /\ ~unsettled /\ attempts < MaxAttempts /\ attempts' = attempts + 1
  /\ \E new \in Trees : Leaves(new)
  /\ UNCHANGED <<store, best, attempted, control, manifest, staged, calm, still, trouble>>

Trouble == trouble < MaxTrouble /\ trouble' = trouble + 1 /\ UNCHANGED attempts

\* Another program changes one path below the root while a call goes on.
Edit(p) ==
  /\ Trouble /\ ~Idle /\ p # temp
  /\ \/ \E c \in Contents \union {None, Irregular} : tree' = [tree EXCEPT ![p] = c] /\ UNCHANGED dirs
     \/ tree' = [tree EXCEPT ![p] = None] /\ dirs' = dirs \union {p}
     \/ dirs' = dirs \ {p} /\ UNCHANGED tree
  /\ rooted /\ UNCHANGED rooted
  /\ disk' # disk /\ WellFormed(tree', dirs')
  /\ calm' = FALSE /\ still' = FALSE
  /\ UNCHANGED <<store, best, attempted, control, manifest, staged>>

\* A call to the system fails, for want of a permission or of room too, or the
\* context of the run ends.
Fail ==
  /\ Trouble /\ ~Idle
  /\ Finish("failed") /\ calm' = FALSE /\ tree' = [tree EXCEPT ![temp] = None]
  /\ UNCHANGED <<dirs, rooted, store, best, attempted, unsettled, still>>

\* The governor is killed.  A temporary file stays; its successor restores first,
\* and makes a root where there is none.
Crash ==
  /\ Trouble /\ ~Idle
  /\ Finish("none") /\ unsettled' = (best # None) /\ attempted' = None
  /\ rooted' \in {rooted, TRUE}
  /\ UNCHANGED <<tree, dirs, store, best, calm, still>>

\* A file of a published snapshot changes, for good.
Rot ==
  /\ Trouble
  /\ \E id \in DOMAIN store, p \in Paths \ {temp} : \E c \in Contents \union {None} :
       Intact(id) /\ c # id[p] /\ store' = [store EXCEPT ![id][p] = c]
  /\ UNCHANGED <<disk, best, attempted, control, manifest, staged, calm, still>>

Next ==
  \/ Look \/ BeginCapture \/ CaptureWalked \/ CopyOut \/ Publish \/ Promote
  \/ BeginRestore \/ CurrentWalked \/ Remove \/ Removed \/ Place \/ Rename \/ Placed \/ VerifyWalked
  \/ Attempt \/ Fail \/ Crash \/ Rot
  \/ \E p \in Paths : Edit(p)

Spec == Init /\ [][Next]_vars

------------------------------------------------------------------------------
(* Properties.                                                              *)

\* The id that capture answers names a snapshot whose files are those of the id,
\* whatever was edited while they were read and copied, and the files of the tree
\* if nothing was.
AnswersWhole ==
  [][pc # "idle" /\ outcome' = "captured" =>
       Intact(attempted)' /\ (still => attempted' = tree)]_vars

\* A restoration that succeeds leaves the files of the best snapshot and no others,
\* also none that a killed restoration left, unless they were edited while the
\* restored tree was read again.
RestoredIsBest == [][pc # "idle" /\ outcome' = "restored" /\ still => tree = best]_vars

\* A directory that stands where the snapshot has a file.
Obstructed == \E p \in dirs : best[p] # None

\* A tree that Capture refuses.
Refused ==
  \/ ~rooted
  \/ \E p \in Paths : tree[p] = Irregular
  \/ Cardinality(Files(tree)) > MaxFiles

Disappoints == outcome = "failed" /\ unsettled /\ calm

\* A restoration that nothing disturbs fails only on a damaged snapshot, on a manifest
\* that is too long to be read, on a directory in the place of a file, or on a tree
\* that Capture refuses.
CalmRestoreSucceeds ==
  Disappoints => ~Intact(best) \/ best \notin Readable \/ Obstructed \/ Refused

\* A rejected tree of files and directories is replaced by the best one; the document
\* (docs/workflows.md:166, 191-193) makes no exception for directories.
RejectionRestores == Disappoints => ~Intact(best) \/ best \notin Readable \/ Refused

\* A snapshot that Capture permits can be restored, up to the 10,000 files that the
\* document permits (docs/workflows.md:177).
PermittedRestores == Disappoints => ~Intact(best) \/ Obstructed \/ Refused
==============================================================================
