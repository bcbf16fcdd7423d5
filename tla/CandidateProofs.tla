--------------------------- MODULE CandidateProofs ---------------------------
(***************************************************************************)
(* The candidate transaction is correct for every set of contents, every   *)
(* kind of evidence and any number of kills and storage failures.          *)
(*                                                                         *)
(* CandidateInv is inductive.  Its parts say what the journal on disk      *)
(* guarantees (Published), how the manager in memory relates to it (Held), *)
(* and what an operation that is under way has established (Midway).       *)
(***************************************************************************)
EXTENDS Candidate, TLAPS

Published ==
  journal # None =>
    /\ journal.initial \in store
    /\ journal.best # None => journal.best \in store
    /\ journal.exposed => journal.best # None

\* After a save that succeeded, memory and disk agree.
Held ==
  mem # None =>
    /\ journal # None
    /\ ret = "ok" => journal = mem
    /\ mem.initial \in store
    /\ mem.best # None => mem.best \in store
    /\ mem.exposed => mem.best # None
    /\ \/ journal.best = mem.best
       \/ journal.best = mem.attempted /\ mem.status \in {"promoting", "restoring"}

Midway ==
  /\ op # "idle" => mem # None /\ ret = "ok"
  /\ op = "promoting" => mem.status = "promoting" /\ tree = mem.attempted /\ tree \in store
  /\ op \in {"restoring", "verifying"} => mem.status = "restoring" /\ ~mem.exposed

CandidateInv ==
  CandidateTypeOK /\ Published /\ Held /\ Midway /\ ExposedIsBest /\ TornIsCovered

------------------------------------------------------------------------------
(* What a journal state may become.                                         *)


\* A save ends with the new journal, or fails with the old or the new one.
LEMMA SaveOutcome ==
  ASSUME NEW s, CandidateTypeOK, Save(s)
  PROVE  /\ ret' \in {"ok", "err"}
         /\ faults' \in 0..MaxFaults
         /\ journal' \in {journal, s}
         /\ ret' = "ok" => journal' = s
BY CandidateAssumption DEF Save, Saved, NotSaved, Fault, NoFault, CandidateTypeOK

LEMMA InitInv == CandidateInit => CandidateInv
BY CandidateAssumption DEF CandidateInit, CandidateInv, CandidateTypeOK, Published, Held,
   Midway, ExposedIsBest, TornIsCovered

\* The fields of a journal state, and of one with some of them changed.
LEMMA Fields ==
  ASSUME NEW s \in CandidateState
  PROVE  /\ s.status \in Settled \cup Interrupted
         /\ s.best \in Contents \cup {Torn, None}
         /\ s.attempted \in Contents \cup {Torn, None}
         /\ s.initial \in Contents \cup {Torn}
BY DEF CandidateState

\* An operation that gives up changes nothing but its result.
LEMMA GivesUpInv ==
  ASSUME CandidateInv, GivesUp, mem = None \/ op # "opened"
  PROVE  CandidateInv'
<1>1. /\ ret' = "err" /\ op' = "idle"
      /\ tree' = tree /\ store' = store /\ journal' = journal /\ mem' = mem /\ ctx' = ctx
      /\ faults' \in 0..MaxFaults
  BY CandidateAssumption DEF GivesUp, Fault, NoFault, CandidateInv, CandidateTypeOK
<1>2. CandidateTypeOK'
  BY <1>1 DEF CandidateInv, CandidateTypeOK
<1>3. Published' /\ Held' /\ Midway' /\ TornIsCovered'
  BY <1>1 DEF CandidateInv, Published, Held, Midway, TornIsCovered
<1>4. ExposedIsBest'
  BY <1>1 DEF CandidateInv, ExposedIsBest
<1> QED  BY <1>2, <1>3, <1>4 DEF CandidateInv

LEMMA OpenExistingInv ==
  ASSUME CandidateInv, mem = None, OpenExisting
  PROVE  CandidateInv'
<1>1. /\ journal # None /\ mem' = journal /\ op' = "opened" /\ ret' = "ok"
      /\ tree' = tree /\ store' = store /\ journal' = journal /\ ctx' = ctx
      /\ faults' = faults
  BY DEF OpenExisting
<1>2. CandidateTypeOK'
  BY <1>1 DEF CandidateInv, CandidateTypeOK
<1>3. Published' /\ Held' /\ Midway' /\ TornIsCovered' /\ ExposedIsBest'
  BY <1>1 DEF CandidateInv, Published, Held, Midway, TornIsCovered, ExposedIsBest
<1> QED  BY <1>2, <1>3 DEF CandidateInv

\* The initial snapshot is published before the journal names it.
LEMMA OpenNewInv ==
  ASSUME CandidateInv, mem = None, OpenNew
  PROVE  CandidateInv'
<1> DEFINE s == [status |-> "initial", initial |-> tree, best |-> None,
                 attempted |-> None, exposed |-> FALSE, proof |-> None]
<1>1. /\ journal = None /\ Save(s) /\ store' = store \cup {tree}
      /\ mem' = IF ret' = "ok" THEN s ELSE None
      /\ op' = IF ret' = "ok" THEN "opened" ELSE op
      /\ tree' = tree /\ ctx' = ctx
  BY DEF OpenNew
<1>2. s \in CandidateState
  BY DEF CandidateInv, CandidateTypeOK, CandidateState, Settled
<1>3. s.initial = tree /\ s.best = None /\ s.exposed = FALSE
  OBVIOUS
<1> HIDE DEF s
<1>4. /\ ret' \in {"ok", "err"} /\ faults' \in 0..MaxFaults
      /\ journal' \in {None, s} /\ (ret' = "ok" => journal' = s)
  BY <1>1, SaveOutcome DEF CandidateInv
<1>5. tree # Torn /\ tree \in Contents /\ op = "idle" /\ s # None
  BY <1>1, <1>2, NoneIsNoState DEF CandidateInv, TornIsCovered, CandidateTypeOK, Midway
<1>6. CandidateTypeOK'
  BY <1>1, <1>2, <1>4, <1>5 DEF CandidateInv, CandidateTypeOK
<1>7. Published' /\ Held' /\ Midway'
  BY <1>1, <1>3, <1>4, <1>5 DEF CandidateInv, Published, Held, Midway
<1>8. ExposedIsBest' /\ TornIsCovered'
  BY <1>1, <1>3, <1>4, <1>5 DEF CandidateInv, ExposedIsBest, TornIsCovered
<1> QED  BY <1>6, <1>7, <1>8 DEF CandidateInv

\* The resumed directory is kept only when it holds the exposed best.
LEMMA KeepTreeInv ==
  ASSUME CandidateInv, mem # None, KeepTree
  PROVE  CandidateInv'
<1>1. /\ op = "opened" /\ ~NeedsRestore /\ op' = "idle" /\ ret' = ret
      /\ tree' = tree /\ store' = store /\ journal' = journal /\ mem' = mem /\ ctx' = ctx
      /\ faults' = faults
  BY DEF KeepTree
<1>2. CandidateTypeOK'
  BY <1>1 DEF CandidateInv, CandidateTypeOK
<1>3. Published' /\ Held' /\ Midway' /\ TornIsCovered'
  BY <1>1 DEF CandidateInv, Published, Held, Midway, TornIsCovered
<1>4. ExposedIsBest'
  BY <1>1 DEF CandidateInv, Held, NeedsRestore, ExposedIsBest
<1> QED  BY <1>2, <1>3, <1>4 DEF CandidateInv

\* Outside a restoration the directory is no mixture.
LEMMA WholeTree ==
  ASSUME CandidateInv, mem # None, ret = "ok", mem.status # "restoring"
  PROVE  tree # Torn /\ tree \in Contents /\ journal = mem
BY DEF CandidateInv, Held, TornIsCovered, CandidateTypeOK

LEMMA BeginInv ==
  ASSUME CandidateInv, Ready(Settled \cup {"evaluating"}), Begin
  PROVE  CandidateInv'
<1> DEFINE s == [mem EXCEPT !.status = "attempting", !.exposed = FALSE, !.attempted = None]
<1>1. /\ mem' = s /\ Save(s)
      /\ tree' = tree /\ store' = store /\ op' = op /\ ctx' = ctx
  BY DEF Begin
<1>2. /\ mem # None /\ op = "idle" /\ ret = "ok" /\ mem \in CandidateState
      /\ mem.status # "restoring"
  BY DEF Ready, CandidateInv, CandidateTypeOK, Settled
<1>3. s \in CandidateState /\ s.initial = mem.initial /\ s.best = mem.best /\ s.exposed = FALSE
  BY <1>2 DEF CandidateState, Interrupted
<1> HIDE DEF s
<1>4. tree # Torn /\ journal = mem /\ s # None
  BY <1>2, <1>3, WholeTree, NoneIsNoState
<1>5. /\ ret' \in {"ok", "err"} /\ faults' \in 0..MaxFaults
      /\ journal' \in {mem, s} /\ (ret' = "ok" => journal' = s)
  BY <1>1, <1>4, SaveOutcome DEF CandidateInv
<1>6. CandidateTypeOK'
  BY <1>1, <1>2, <1>3, <1>5 DEF CandidateInv, CandidateTypeOK
<1>7. Published' /\ Held' /\ Midway'
  BY <1>1, <1>2, <1>3, <1>4, <1>5 DEF CandidateInv, Published, Held, Midway
<1>8. ExposedIsBest' /\ TornIsCovered'
  BY <1>1, <1>3, <1>4 DEF CandidateInv, ExposedIsBest, TornIsCovered
<1> QED  BY <1>6, <1>7, <1>8 DEF CandidateInv

LEMMA SnapshotInv ==
  ASSUME CandidateInv, Ready({"attempting", "initial", "restored"}), ~mem.exposed, Snapshot
  PROVE  CandidateInv'
<1> DEFINE s == [mem EXCEPT !.status = "evaluating", !.attempted = tree]
<1>1. /\ mem' = s /\ Save(s) /\ store' = store \cup {tree}
      /\ tree' = tree /\ op' = op /\ ctx' = ctx
  BY DEF Snapshot
<1>2. /\ mem # None /\ op = "idle" /\ ret = "ok" /\ mem \in CandidateState
      /\ mem.status # "restoring"
  BY DEF Ready, CandidateInv, CandidateTypeOK
<1>3. tree # Torn /\ tree \in Contents /\ journal = mem
  BY <1>2, WholeTree
<1>4. s \in CandidateState /\ s.initial = mem.initial /\ s.best = mem.best /\ s.exposed = mem.exposed
  BY <1>2, <1>3 DEF CandidateState, Interrupted
<1> HIDE DEF s
<1>5. /\ ret' \in {"ok", "err"} /\ faults' \in 0..MaxFaults
      /\ journal' \in {mem, s} /\ (ret' = "ok" => journal' = s)
  BY <1>1, <1>3, SaveOutcome DEF CandidateInv
<1>6. s # None
  BY <1>4, NoneIsNoState
<1>7. CandidateTypeOK'
  BY <1>1, <1>2, <1>3, <1>4, <1>5 DEF CandidateInv, CandidateTypeOK
<1>8. Published' /\ Held' /\ Midway'
  BY <1>1, <1>2, <1>3, <1>4, <1>5, <1>6 DEF CandidateInv, Published, Held, Midway
<1>9. ExposedIsBest' /\ TornIsCovered'
  BY <1>1, <1>3, <1>4 DEF CandidateInv, ExposedIsBest, TornIsCovered
<1> QED  BY <1>7, <1>8, <1>9 DEF CandidateInv

\* Until the commit the old best stays in the journal.
LEMMA PromoteStageInv ==
  ASSUME CandidateInv, Ready({"evaluating"}), tree = mem.attempted, PromoteStage
  PROVE  CandidateInv'
<1> DEFINE s == [mem EXCEPT !.status = "promoting"]
<1>1. /\ mem' = s /\ Save(s) /\ op' = IF ret' = "ok" THEN "promoting" ELSE "idle"
      /\ mem.attempted \in store
      /\ tree' = tree /\ store' = store /\ ctx' = ctx
  BY DEF PromoteStage
<1>2. /\ mem # None /\ op = "idle" /\ ret = "ok" /\ mem \in CandidateState
      /\ mem.status # "restoring"
  BY DEF Ready, CandidateInv, CandidateTypeOK
<1>3. tree # Torn /\ tree \in Contents /\ journal = mem
  BY <1>2, WholeTree
<1>4. /\ s \in CandidateState /\ s.initial = mem.initial /\ s.best = mem.best
      /\ s.exposed = mem.exposed /\ s.attempted = mem.attempted /\ s.status = "promoting"
  BY <1>2 DEF CandidateState, Interrupted
<1> HIDE DEF s
<1>5. /\ ret' \in {"ok", "err"} /\ faults' \in 0..MaxFaults
      /\ journal' \in {mem, s} /\ (ret' = "ok" => journal' = s)
  BY <1>1, <1>3, SaveOutcome DEF CandidateInv
<1>6. s # None
  BY <1>4, NoneIsNoState
<1>7. CandidateTypeOK'
  BY <1>1, <1>2, <1>4, <1>5 DEF CandidateInv, CandidateTypeOK
<1>8. Published' /\ Held' /\ Midway'
  BY <1>1, <1>2, <1>3, <1>4, <1>5, <1>6 DEF CandidateInv, Published, Held, Midway
<1>9. ExposedIsBest' /\ TornIsCovered'
  BY <1>1, <1>2, <1>3, <1>4 DEF CandidateInv, ExposedIsBest, TornIsCovered
<1> QED  BY <1>7, <1>8, <1>9 DEF CandidateInv

\* The commit exposes what was evaluated, which the directory still holds.
LEMMA PromoteCommitInv ==
  ASSUME CandidateInv, mem # None, NEW e \in Evidence, PromoteCommit(e)
  PROVE  CandidateInv'
<1> DEFINE s == Promoted(e)
<1>1. /\ op = "promoting" /\ Save(s) /\ op' = "idle"
      /\ mem' = IF ret' = "ok" THEN s ELSE mem
      /\ tree' = tree /\ store' = store /\ ctx' = ctx
  BY DEF PromoteCommit
<1>2. /\ ret = "ok" /\ mem \in CandidateState /\ mem.status = "promoting"
      /\ tree = mem.attempted /\ tree \in store
  BY <1>1 DEF CandidateInv, CandidateTypeOK, Midway
<1>3. tree # Torn /\ tree \in Contents /\ journal = mem
  BY <1>2, WholeTree
<1>4. /\ s \in CandidateState /\ s.initial = mem.initial /\ s.best = tree
      /\ s.exposed = TRUE /\ s.status = "accepted"
  BY <1>2, <1>3 DEF CandidateState, Settled, Promoted
<1> HIDE DEF s
<1>5. /\ ret' \in {"ok", "err"} /\ faults' \in 0..MaxFaults
      /\ journal' \in {mem, s} /\ (ret' = "ok" => journal' = s)
  BY <1>1, <1>3, SaveOutcome DEF CandidateInv
<1>6. s # None /\ tree # None
  BY <1>3, <1>4, NoneIsNoState, CandidateAssumption
<1>7. CandidateTypeOK'
  BY <1>1, <1>2, <1>4, <1>5 DEF CandidateInv, CandidateTypeOK
<1>8. Published' /\ Held' /\ Midway'
  BY <1>1, <1>2, <1>3, <1>4, <1>5, <1>6 DEF CandidateInv, Published, Held, Midway
<1>9. ExposedIsBest' /\ TornIsCovered'
  BY <1>1, <1>2, <1>3, <1>4, <1>6 DEF CandidateInv, ExposedIsBest, TornIsCovered
<1> QED  BY <1>7, <1>8, <1>9 DEF CandidateInv

\* The journal announces the restoration before the directory changes.
LEMMA RestoreStartInv ==
  ASSUME CandidateInv, mem # None, RestoreStart
  PROVE  CandidateInv'
<1> DEFINE s == [mem EXCEPT !.status = "restoring", !.exposed = FALSE]
<1>1. /\ op \in {"idle", "opened"} /\ mem' = s /\ Save(s)
      /\ op' = IF ret' = "ok" THEN "restoring" ELSE "idle"
      /\ tree' = tree /\ store' = store /\ ctx' = ctx
  BY DEF RestoreStart
<1>2. mem \in CandidateState
  BY DEF CandidateInv, CandidateTypeOK
<1>3. /\ s \in CandidateState /\ s.initial = mem.initial /\ s.best = mem.best
      /\ s.exposed = FALSE /\ s.attempted = mem.attempted /\ s.status = "restoring"
  BY <1>2 DEF CandidateState, Interrupted
<1> HIDE DEF s
<1>4. /\ ret' \in {"ok", "err"} /\ faults' \in 0..MaxFaults
      /\ journal' \in {journal, s} /\ (ret' = "ok" => journal' = s)
  BY <1>1, SaveOutcome DEF CandidateInv
<1>5. s # None
  BY <1>3, NoneIsNoState
<1>6. CandidateTypeOK'
  BY <1>1, <1>3, <1>4 DEF CandidateInv, CandidateTypeOK
<1>7. Published' /\ Midway'
  BY <1>1, <1>3, <1>4, <1>5 DEF CandidateInv, Published, Held, Midway
<1>8. Held'
  BY <1>1, <1>3, <1>4, <1>5 DEF CandidateInv, Held
<1>9. ExposedIsBest' /\ TornIsCovered'
  BY <1>1, <1>3, <1>4, <1>5 DEF CandidateInv, ExposedIsBest, TornIsCovered
<1> QED  BY <1>6, <1>7, <1>8, <1>9 DEF CandidateInv

LEMMA RestoreCopyInv ==
  ASSUME CandidateInv, mem # None, RestoreCopy
  PROVE  CandidateInv'
<1>1. /\ op = "restoring" /\ op' = "verifying"
      /\ tree' = IF tree = Target(mem) THEN tree ELSE Torn
      /\ store' = store /\ journal' = journal /\ mem' = mem /\ ret' = ret /\ ctx' = ctx
      /\ faults' = faults
  BY DEF RestoreCopy
<1>2. ret = "ok" /\ mem.status = "restoring" /\ ~mem.exposed /\ journal = mem
  BY <1>1 DEF CandidateInv, Midway, Held
<1>3. CandidateTypeOK'
  BY <1>1 DEF CandidateInv, CandidateTypeOK
<1>4. Published' /\ Held' /\ Midway'
  BY <1>1, <1>2 DEF CandidateInv, Published, Held, Midway
<1>5. ExposedIsBest' /\ TornIsCovered'
  BY <1>1, <1>2 DEF CandidateInv, ExposedIsBest, TornIsCovered
<1> QED  BY <1>3, <1>4, <1>5 DEF CandidateInv

\* The best is exposed again when the directory holds it.
LEMMA RestoreFinishInv ==
  ASSUME CandidateInv, mem # None, RestoreFinish
  PROVE  CandidateInv'
<1> DEFINE s == [mem EXCEPT !.status = "restored", !.exposed = mem.best # None]
<1>1. /\ op = "verifying" /\ mem' = s /\ Save(s) /\ op' = "idle"
      /\ tree' = Target(mem) /\ store' = store /\ ctx' = ctx
  BY DEF RestoreFinish
<1>2. mem \in CandidateState /\ ret = "ok" /\ journal = mem /\ mem.status = "restoring"
  BY <1>1 DEF CandidateInv, CandidateTypeOK, Midway, Held
<1>3. Target(mem) \in store /\ Target(mem) # Torn /\ Target(mem) \in Contents \cup {Torn}
  BY <1>2, Fields DEF CandidateInv, Held, Target, TornIsCovered, CandidateTypeOK
<1>4. mem.best # None => Target(mem) = mem.best
  BY DEF Target
<1>5. /\ s \in CandidateState /\ s.initial = mem.initial /\ s.best = mem.best
      /\ s.exposed = (mem.best # None)
  BY <1>2 DEF CandidateState, Settled
<1> HIDE DEF s
<1>6. /\ ret' \in {"ok", "err"} /\ faults' \in 0..MaxFaults
      /\ journal' \in {mem, s} /\ (ret' = "ok" => journal' = s)
  BY <1>1, <1>2, SaveOutcome DEF CandidateInv
<1>7. s # None
  BY <1>5, NoneIsNoState
<1>8. CandidateTypeOK'
  BY <1>1, <1>2, <1>3, <1>5, <1>6 DEF CandidateInv, CandidateTypeOK
<1>9. Published' /\ Held' /\ Midway'
  BY <1>1, <1>2, <1>5, <1>6, <1>7 DEF CandidateInv, Published, Held, Midway
<1>10. ExposedIsBest'
  BY <1>1, <1>3, <1>4, <1>5 DEF ExposedIsBest
<1>11. TornIsCovered'
  BY <1>1, <1>3 DEF CandidateInv, TornIsCovered
<1> QED  BY <1>8, <1>9, <1>10, <1>11 DEF CandidateInv

\* Builders write only while no candidate is exposed.
LEMMA RewriteInv ==
  ASSUME CandidateInv, Rewrite, op = "idle", mem = None \/ ~mem.exposed
  PROVE  CandidateInv'
<1>1. /\ tree' \in Contents /\ store' = store /\ journal' = journal /\ mem' = mem
      /\ op' = op /\ ret' = ret /\ ctx' = ctx /\ faults' = faults
  BY DEF Rewrite
<1>2. CandidateTypeOK'
  BY <1>1 DEF CandidateInv, CandidateTypeOK
<1>3. Published' /\ Held' /\ Midway'
  BY <1>1 DEF CandidateInv, Published, Held, Midway
<1>4. ExposedIsBest' /\ TornIsCovered'
  BY <1>1, CandidateAssumption DEF CandidateInv, ExposedIsBest, TornIsCovered
<1> QED  BY <1>2, <1>3, <1>4 DEF CandidateInv

\* A kill loses the memory; what the journal says stays true of the disk.
LEMMA LeaveInv ==
  ASSUME CandidateInv, NEW c \in {"live", "done"}, Leave(c), Fault \/ NoFault
  PROVE  CandidateInv'
<1>1. /\ mem' = None /\ op' = "idle" /\ ret' = "ok" /\ ctx' = c
      /\ tree' = tree /\ store' = store /\ journal' = journal
  BY DEF Leave
<1>2. faults' \in 0..MaxFaults
  BY CandidateAssumption DEF Fault, NoFault, CandidateInv, CandidateTypeOK
<1>3. CandidateTypeOK'
  BY <1>1, <1>2 DEF CandidateInv, CandidateTypeOK
<1>4. Published' /\ Held' /\ Midway'
  BY <1>1 DEF CandidateInv, Published, Held, Midway
<1>5. ExposedIsBest' /\ TornIsCovered'
  BY <1>1 DEF CandidateInv, ExposedIsBest, TornIsCovered
<1> QED  BY <1>3, <1>4, <1>5 DEF CandidateInv

\* Contexts and faults elsewhere do not touch the candidate.
LEMMA BystanderInv ==
  ASSUME CandidateInv, UNCHANGED <<tree, store, journal, mem, op, ret>>,
         ctx' \in {"live", "done", "cleanup"}, faults' \in 0..MaxFaults
  PROVE  CandidateInv'
<1>1. CandidateTypeOK'
  BY DEF CandidateInv, CandidateTypeOK
<1>2. Published' /\ Held' /\ Midway' /\ ExposedIsBest' /\ TornIsCovered'
  BY DEF CandidateInv, Published, Held, Midway, ExposedIsBest, TornIsCovered
<1> QED  BY <1>1, <1>2 DEF CandidateInv

------------------------------------------------------------------------------
(* The theorems.                                                            *)

LEMMA NextInv ==
  ASSUME CandidateInv, [CandidateNext]_cvars
  PROVE  CandidateInv'
<1>1. CASE mem = None /\ Open
  BY <1>1, OpenExistingInv, OpenNewInv, GivesUpInv DEF Open
<1>2. CASE mem # None /\ KeepTree
  BY <1>2, KeepTreeInv
<1>3. CASE mem # None /\ RestoreStart
  BY <1>3, RestoreStartInv
<1>4. CASE Ready(Settled \cup {"evaluating"}) /\ Begin
  BY <1>4, BeginInv
<1>5. CASE mem = None /\ Rewrite
  BY <1>5, RewriteInv DEF CandidateInv, Midway
<1>6. CASE Ready({"attempting", "evaluating"}) /\ ~mem.exposed /\ Rewrite
  BY <1>6, RewriteInv DEF Ready
<1>7. CASE Ready({"attempting", "initial", "restored"}) /\ ~mem.exposed /\ Attempted
  BY <1>7, SnapshotInv, GivesUpInv DEF Attempted, Ready
<1>8. CASE Ready({"evaluating"}) /\ tree = mem.attempted /\ (PromoteStage \/ GivesUp)
  BY <1>8, PromoteStageInv, GivesUpInv DEF Ready
<1>9. CASE mem # None /\ op = "promoting" /\ \E e \in Evidence : PromoteCommit(e)
  BY <1>9, PromoteCommitInv
<1>10. CASE mem # None /\ PromoteCancelled
  BY <1>10, GivesUpInv DEF PromoteCancelled
<1>11. CASE mem # None /\ RestoreCopy
  BY <1>11, RestoreCopyInv
<1>12. CASE mem # None /\ RestoreFinish
  BY <1>12, RestoreFinishInv
<1>13. CASE mem # None /\ RestoreFails
  BY <1>13, GivesUpInv DEF RestoreFails
<1>14. CASE \E c \in {"live", "done"} : Leave(c) /\ (Fault \/ (NoFault /\ op = "idle"))
  BY <1>14, LeaveInv
<1>15. CASE \E c \in {"done", "cleanup"} : SetContext(c)
  BY <1>15, BystanderInv DEF SetContext, CandidateInv, CandidateTypeOK
<1>16. CASE FaultElsewhere
  <2>1. faults' \in 0..MaxFaults
    BY <1>16, CandidateAssumption DEF FaultElsewhere, Fault, CandidateInv, CandidateTypeOK
  <2> QED  BY <1>16, <2>1, BystanderInv DEF FaultElsewhere, CandidateInv, CandidateTypeOK
<1>17. CASE UNCHANGED cvars
  BY <1>17, BystanderInv DEF cvars, CandidateInv, CandidateTypeOK
<1> QED
  BY <1>1, <1>2, <1>3, <1>4, <1>5, <1>6, <1>7, <1>8, <1>9, <1>10, <1>11, <1>12, <1>13,
     <1>14, <1>15, <1>16, <1>17 DEF CandidateNext

\* The inductive invariant of candidate.go, from which the others follow.
THEOREM CandidateCorrect == CandidateSpec => []CandidateInv
<1>1. CandidateInit => CandidateInv
  BY InitInv
<1>2. CandidateInv /\ [CandidateNext]_cvars => CandidateInv'
  BY NextInv
<1> QED  BY <1>1, <1>2, PTL DEF CandidateSpec

\* The journal and the manager (candidateState, candidate.go:12) keep their types.
THEOREM CandidateTypes == CandidateSpec => []CandidateTypeOK
<1>1. CandidateInv => CandidateTypeOK
  BY DEF CandidateInv
<1> QED  BY <1>1, CandidateCorrect, PTL

\* What promote and restore show as the best candidate is in the directory.
THEOREM ExposureCorrect == CandidateSpec => []ExposedIsBest
<1>1. CandidateInv => ExposedIsBest
  BY DEF CandidateInv
<1> QED  BY <1>1, CandidateCorrect, PTL

\* Whenever the process is killed, the journal points to published snapshots,
\* and its best is the manager's or the one a promotion was committing.
THEOREM RecoveryPossible == CandidateSpec => []RecoverySnapshot
<1>1. CandidateInv => RecoverySnapshot
  BY DEF CandidateInv, Published, Held, RecoverySnapshot
<1> QED  BY <1>1, CandidateCorrect, PTL

\* A half restored directory is never without a journal that demands the rest.
THEOREM RestorationCovered == CandidateSpec => []TornIsCovered
<1>1. CandidateInv => TornIsCovered
  BY DEF CandidateInv
<1> QED  BY <1>1, CandidateCorrect, PTL
=============================================================================
