------------------------------ MODULE Candidate ------------------------------
(***************************************************************************)
(* The candidate transaction of `loopexec run --workflow`                  *)
(* (cmd/loopexec/candidate.go): one candidateManager over the working      *)
(* directory that builders write, the store of content-addressed           *)
(* snapshots, and the promotion journal candidate.json.                    *)
(*                                                                         *)
(* The contents of the working directory are abstract values; the id of a  *)
(* snapshot is its content.  Torn stands for a directory that a            *)
(* restoration has only partly rewritten.                                  *)
(*                                                                         *)
(* Each action ends at a point where the disk changed.  Atomic             *)
(* (internal/workflow/contract.go) renames and then syncs the directory: a *)
(* failed save leaves either the old or the new journal.  A killed process *)
(* loses `mem`; the disk keeps what was renamed.  MaxFaults bounds kills   *)
(* and failures of the storage.                                            *)
(***************************************************************************)
EXTENDS Integers, FiniteSets

CONSTANTS
  Contents,    \* contents a builder can leave in the working directory
  InitialTree, \* what it holds before the first run
  Torn,        \* a mixture of two contents
  None,        \* an empty id, a missing file, a nil pointer
  Evidence,    \* what a promotion records: check fingerprint and numeric state
  MaxFaults    \* kills and storage failures in one behaviour

ASSUME CandidateAssumption ==
  /\ InitialTree \in Contents
  /\ Torn \notin Contents
  /\ None \notin Contents \cup {Torn} \cup Evidence
  /\ MaxFaults \in Nat

VARIABLES
  tree,    \* content of the working candidate directory
  store,   \* published snapshots
  journal, \* candidate.json: None or a candidateState
  mem,     \* candidateManager.state: None while no manager is open
  op,      \* where promote or restore is between two durable steps
  ret,     \* result of the manager's last operation
  ctx,     \* the manager's context: "live", "done", "cleanup"
  faults   \* faults so far

cvars == <<tree, store, journal, mem, op, ret, ctx, faults>>

\* "interrupted" statuses are the ones a resumed run rolls back.
Settled     == {"initial", "accepted", "restored"}
Interrupted == {"attempting", "evaluating", "promoting", "restoring"}

CandidateState ==
  [status: Settled \cup Interrupted, initial: Contents \cup {Torn},
   best: Contents \cup {Torn, None}, attempted: Contents \cup {Torn, None},
   exposed: BOOLEAN, proof: Evidence \cup {None}]

ASSUME NoneIsNoState == None \notin CandidateState

\* The content restore goes back to.
Target(s) == IF s.best = None THEN s.initial ELSE s.best

CandidateInit ==
  /\ tree = InitialTree
  /\ store = {}
  /\ journal = None
  /\ mem = None
  /\ op = "idle"
  /\ ret = "ok"
  /\ ctx = "live"
  /\ faults = 0

------------------------------------------------------------------------------
(* Outcomes shared by the operations.                                       *)

Fault   == faults < MaxFaults /\ faults' = faults + 1
NoFault == UNCHANGED faults

\* c.save: the journal becomes s, or the save fails before or after its rename.
Saved(s)    == journal' = s /\ NoFault
NotSaved(s) == journal' \in {journal, s} /\ Fault
Save(s)     == \/ Saved(s)    /\ ret' = "ok"
               \/ NotSaved(s) /\ ret' = "err"

\* An operation that stops before it changed anything: the context is over, or
\* a file it reads is unreadable or does not match its hash.
GivesUp ==
  /\ ret' = "err"
  /\ op' = "idle"
  /\ \/ ctx = "done" /\ NoFault
     \/ Fault
  /\ UNCHANGED <<tree, store, journal, mem, ctx>>

------------------------------------------------------------------------------
(* The operations of candidateManager.                                      *)

\* newCandidate: read the journal, or capture the initial tree and save it.  A
\* manager that cannot save its initial state is not returned.
OpenExisting ==
  /\ journal # None
  /\ ctx # "done"
  /\ mem' = journal
  /\ op' = "opened"
  /\ ret' = "ok"
  /\ UNCHANGED <<tree, store, journal, ctx, faults>>

\* Defect: the journal names the initial snapshot before it is published.
OpenNewUnpublished ==
  LET s == [status |-> "initial", initial |-> tree, best |-> None,
            attempted |-> None, exposed |-> FALSE, proof |-> None]
  IN /\ journal = None
     /\ ctx # "done"
     /\ Save(s)
     /\ store' = IF ret' = "ok" THEN store \cup {tree} ELSE store
     /\ mem' = IF ret' = "ok" THEN s ELSE None
     /\ op' = IF ret' = "ok" THEN "opened" ELSE op
     /\ UNCHANGED <<tree, ctx>>

OpenNew ==
  LET s == [status |-> "initial", initial |-> tree, best |-> None,
            attempted |-> None, exposed |-> FALSE, proof |-> None]
  IN /\ journal = None
     /\ ctx # "done"
     /\ store' = store \cup {tree}
     /\ Save(s)
     /\ mem' = IF ret' = "ok" THEN s ELSE None
     /\ op' = IF ret' = "ok" THEN "opened" ELSE op
     /\ UNCHANGED <<tree, ctx>>

Open == OpenExisting \/ OpenNew \/ GivesUp

\* What a resumed run finds: an interrupted status, or an exposed best that the
\* directory does not hold (or cannot be compared with), has to be restored.
NeedsRestore ==
  \/ mem.status \in Interrupted
  \/ mem.exposed /\ (tree # mem.best \/ ctx = "done")

KeepTree ==
  /\ op = "opened"
  /\ ~NeedsRestore
  /\ op' = "idle"
  /\ UNCHANGED <<tree, store, journal, mem, ret, ctx, faults>>

\* begin: an attempt hides the best before the builder touches the directory.
Begin ==
  LET s == [mem EXCEPT !.status = "attempting", !.exposed = FALSE, !.attempted = None]
  IN mem' = s /\ Save(s) /\ UNCHANGED <<tree, store, op, ctx>>

\* attempted: capture the directory and record the snapshot.
Snapshot ==
  LET s == [mem EXCEPT !.status = "evaluating", !.attempted = tree]
  IN /\ ctx # "done"
     /\ store' = store \cup {tree}
     /\ mem' = s
     /\ Save(s)
     /\ UNCHANGED <<tree, op, ctx>>

Attempted == Snapshot \/ GivesUp

\* promote, up to the save of "promoting": the old best stays authoritative.
PromoteStage ==
  LET s == [mem EXCEPT !.status = "promoting"]
  IN /\ ctx # "done"
     /\ mem.attempted \in store
     /\ mem' = s
     /\ Save(s)
     /\ op' = IF ret' = "ok" THEN "promoting" ELSE "idle"
     /\ UNCHANGED <<tree, store, ctx>>

Promoted(e) == [mem EXCEPT !.best = mem.attempted, !.status = "accepted",
                           !.exposed = TRUE, !.proof = e]

\* promote, the commit: memory follows the journal only when Atomic succeeded.
PromoteCommit(e) ==
  /\ op = "promoting"
  /\ ctx # "done"
  /\ Save(Promoted(e))
  /\ mem' = IF ret' = "ok" THEN Promoted(e) ELSE mem
  /\ op' = "idle"
  /\ UNCHANGED <<tree, store, ctx>>

\* The context ended between the two saves of promote.
PromoteCancelled == op = "promoting" /\ ctx = "done" /\ GivesUp

\* Defect: the directory is rewritten without a journal that says so.
RestoreUnannounced ==
  /\ op \in {"idle", "opened"}
  /\ mem' = [mem EXCEPT !.status = "restoring", !.exposed = FALSE]
  /\ op' = "restoring"
  /\ ret' = "ok"
  /\ UNCHANGED <<tree, store, journal, ctx, faults>>

\* restore, up to the save of "restoring".
RestoreStart ==
  LET s == [mem EXCEPT !.status = "restoring", !.exposed = FALSE]
  IN /\ op \in {"idle", "opened"}
     /\ mem' = s
     /\ Save(s)
     /\ op' = IF ret' = "ok" THEN "restoring" ELSE "idle"
     /\ UNCHANGED <<tree, store, ctx>>

\* restore, first deletions and copies.  Nothing is rewritten differently when
\* the directory already holds the target.
RestoreCopy ==
  /\ op = "restoring"
  /\ ctx # "done"
  /\ Target(mem) \in store
  /\ tree' = IF tree = Target(mem) THEN tree ELSE Torn
  /\ op' = "verifying"
  /\ UNCHANGED <<store, journal, mem, ret, ctx, faults>>

\* restore, the remaining copies, the verification and the last save.  Exposed
\* is set before that save, whose failure leaves it set.
RestoreFinish ==
  LET s == [mem EXCEPT !.status = "restored", !.exposed = mem.best # None]
  IN /\ op = "verifying"
     /\ ctx # "done"
     /\ tree' = Target(mem)
     /\ mem' = s
     /\ Save(s)
     /\ op' = "idle"
     /\ UNCHANGED <<store, ctx>>

RestoreFails == op \in {"restoring", "verifying"} /\ GivesUp

\* One step of an operation that has several.
PromoteStep(e) == (op = "idle" /\ (PromoteStage \/ GivesUp)) \/ PromoteCommit(e) \/ PromoteCancelled
RestoreStep    == RestoreStart \/ RestoreCopy \/ RestoreFinish \/ RestoreFails

------------------------------------------------------------------------------
(* The manager's surroundings, and the order in which executeRun calls it.  *)

\* A builder, or another program, rewrites the working directory.
Rewrite == tree' \in Contents /\ UNCHANGED <<store, journal, mem, op, ret, ctx, faults>>

\* The process leaves its manager, killed or not.  The next one has a context
\* of its own, which a persisted deadline may already have ended.
Leave(next) ==
  /\ mem' = None
  /\ op' = "idle"
  /\ ret' = "ok"
  /\ ctx' = next
  /\ UNCHANGED <<tree, store, journal>>

\* A signal or the deadline ends the context; the final restoration of a run
\* gets one of its own.
SetContext(next) == ctx' = next /\ UNCHANGED <<tree, store, journal, mem, op, ret, faults>>

Ready(statuses) == mem # None /\ op = "idle" /\ ret = "ok" /\ mem.status \in statuses

\* A fault that another component meets.
FaultElsewhere == Fault /\ UNCHANGED <<tree, store, journal, mem, op, ret, ctx>>

CandidateNext ==
  \/ mem = None /\ Open
  \/ mem # None /\ KeepTree
  \/ mem # None /\ op = "opened" /\ NeedsRestore /\ RestoreStart
  \/ Ready(Settled \cup {"evaluating"}) /\ Begin
  \/ mem = None /\ Rewrite
  \/ Ready({"attempting", "evaluating"}) /\ ~mem.exposed /\ Rewrite
  \/ Ready({"attempting", "initial", "restored"}) /\ ~mem.exposed /\ Attempted
  \/ Ready({"evaluating"}) /\ tree = mem.attempted /\ (PromoteStage \/ GivesUp)
  \/ mem # None /\ op = "promoting" /\ \E e \in Evidence : PromoteCommit(e)
  \/ mem # None /\ PromoteCancelled
  \/ mem # None /\ op = "idle" /\ RestoreStart
  \/ mem # None /\ (RestoreCopy \/ RestoreFinish \/ RestoreFails)
  \/ \E c \in {"live", "done"} : Leave(c) /\ (Fault \/ (NoFault /\ op = "idle"))
  \/ \E c \in {"done", "cleanup"} : SetContext(c)
  \/ FaultElsewhere

CandidateSpec == CandidateInit /\ [][CandidateNext]_cvars

------------------------------------------------------------------------------
(* Properties.                                                              *)

CandidateTypeOK ==
  /\ tree \in Contents \cup {Torn}
  /\ store \subseteq Contents \cup {Torn}
  /\ journal \in CandidateState \cup {None}
  /\ mem \in CandidateState \cup {None}
  /\ op \in {"idle", "opened", "promoting", "restoring", "verifying"}
  /\ ret \in {"ok", "err"}
  /\ ctx \in {"live", "done", "cleanup"}
  /\ faults \in 0..MaxFaults

\* Whenever the manager shows the best candidate, the working directory holds
\* exactly that candidate, and its snapshot is published.  "opened" is the one
\* moment before a resumed run has compared the two.
ExposedIsBest ==
  mem # None /\ mem.exposed /\ op # "opened" =>
    /\ mem.best # None
    /\ tree = mem.best
    /\ mem.best \in store

\* What a kill leaves on disk is enough to recover from: whatever the journal
\* points to is published, and its best is the manager's own, or the candidate
\* whose promotion the manager could not acknowledge.
RecoverySnapshot ==
  /\ journal # None =>
       /\ journal.initial \in store
       /\ journal.best # None => journal.best \in store
  /\ mem # None =>
       /\ journal # None
       /\ \/ journal.best = mem.best
          \/ journal.best = mem.attempted /\ mem.status \in {"promoting", "restoring"}

\* A tree that no builder wrote is never taken for a candidate: a half restored
\* directory is always covered by a journal that demands the restoration.
TornIsCovered ==
  /\ Torn \notin store
  /\ tree = Torn => journal # None /\ journal.status = "restoring"
=============================================================================
