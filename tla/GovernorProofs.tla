---------------------------- MODULE GovernorProofs ----------------------------
(***************************************************************************)
(* The governor of a workflow run is correct for every number of           *)
(* iterations, of starts, of kills and of storage failures, for every set  *)
(* of contents and every score policy.                                     *)
(*                                                                         *)
(* GovernorInv is inductive.  ManagerInv holds the parts that only speak   *)
(* of the manager and its disk; the others tie them to the step that the   *)
(* process has reached.                                                    *)
(***************************************************************************)
EXTENDS Governor, CandidateProofs

\* No hook writes the candidate directory of a run with a baseline: the baseline
\* is promoted without a second look at the directory.
QuietBaselines == \A s \in Settings : ~(s.baseline /\ s.meddling)

------------------------------------------------------------------------------
(* The manager and its disk.                                                *)

\* The flag and the status of a journal state agree with its best.
Coherent(s) ==
  s # None =>
    /\ s.exposed => s.best # None /\ s.status \in {"accepted", "restored"}
    /\ s.status = "accepted" => s.exposed
    /\ s.status = "restored" /\ s.best # None => s.exposed
    /\ s.status = "initial" => s.best = None
    /\ s.best = None <=> s.proof = None
    /\ s.proof \in Proofs \cup {None}

\* Without a best, a restored directory holds the initial content until an edit.
KeptInitial(s, dir, touched) ==
  s # None /\ s.status = "restored" /\ ~s.exposed => dir = s.initial \/ touched

\* What an operation that is under way has established.
Busy ==
  /\ op # "idle" => mem # None /\ ret = "ok"
  /\ op = "promoting" => mem.status = "promoting" /\ mem.attempted \in store
  /\ op \in {"restoring", "verifying"} => mem.status = "restoring"

Pointers ==
  /\ Published /\ Held /\ Busy
  /\ mem # None /\ mem.best # None => journal.best # None

ManagerInv ==
  /\ CandidateTypeOK
  /\ Pointers
  /\ Coherent(mem) /\ Coherent(journal)
  /\ KeptInitial(mem, tree, edited) /\ KeptInitial(journal, tree, edited)
  /\ QuietBaselines => ExposedIsBest

------------------------------------------------------------------------------
(* The process.                                                             *)

GovernorTypeOK ==
  /\ setting \in Settings
  /\ pc \in Steps \cup {"down", "halted"}
  /\ st \in LoopState
  /\ saved \in LoopState \cup {None}
  /\ origin \in {"fresh", "resumed", "converged"}
  /\ halt \in Halts
  /\ cause \in {"none", "other", "restoration_failed"}
  /\ verdict \in Verdict \cup {None}
  /\ receiptBad \in BOOLEAN
  /\ deadline \in {"ahead", "passed"}
  /\ shown \in Contents \cup {Torn, None}
  /\ starts \in 0..MaxStarts
  /\ launched \in [1..MaxIterations -> Nat]
  /\ accepted \subseteq Contents \cup {Torn}
  /\ converged \in BOOLEAN
  /\ edited \in BOOLEAN

Unstarted  == {"down", "open"}
Starting   == {"open", "recover", "recheck", "persist0", "integrity", "baseline", "judge"}
Working    == {"exec", "guards", "capture", "evaluate", "decide", "promote", "reject",
               "conclude", "record"}
Trying     == {"recover", "recheck", "judge", "adopt", "begin", "persist"}
                \cup (Working \ {"record"})
Stopping   == {"final", "cleanup", "report", "halted"}

\* Which operation of the manager is under way at which step, and with what result.
Coupled ==
  /\ pc \in Unstarted => mem = None /\ op = "idle" /\ ret = "ok" /\ halt = "none"
  /\ pc \notin Unstarted => mem # None \/ halt # "none"
  /\ ret = "err" => halt # "none"
  /\ op = "opened" => pc = "recover"
  /\ pc = "recover" /\ origin = "fresh" => op = "opened"
  /\ op = "promoting" => pc \in {"adopt", "promote"}
  /\ op \in {"restoring", "verifying"} => pc \in {"recover", "recheck", "reject", "cleanup"}
  /\ pc = "cleanup" => mem # None
  /\ pc \in {"persist", "exec", "guards", "capture"} => mem.status = "attempting"
  /\ pc \in {"judge", "evaluate", "decide"} => mem.status = "evaluating"
  /\ pc \in {"judge", "evaluate", "decide"} => mem.attempted # None
  /\ pc \in {"adopt", "promote"} /\ op = "idle" => mem.status = "evaluating"
  /\ pc \in {"judge", "adopt"} => mem.best = None /\ setting.baseline

\* Why a process goes on or stops, and what it has evaluated by then.
Directed ==
  /\ pc \in Trying => halt = "none"
  /\ pc \in Stopping => halt # "none"
  /\ pc \in {"adopt", "decide", "promote", "reject", "conclude"} => verdict # None
  /\ verdict # None => verdict.halt \in {"none", "no_progress_detected"}
  /\ pc # "halted" => st.halt = "none"
  /\ pc \in {"report", "halted"} => ~CleanupDue

\* A state file exists once the first save of a process has succeeded.
Filed ==
  /\ pc \in {"open", "recover"} => (origin = "fresh" <=> saved = None)
  /\ pc \in {"integrity", "baseline", "judge", "adopt", "settle", "loop", "begin", "persist"}
              \cup Working
       => saved # None \/ halt # "none"
  /\ saved = None /\ journal # None => journal.best = None

Recorded == IF saved = None THEN 0 ELSE saved.iter

\* The iteration that is on disk, the one in memory, and the launches.
Launches ==
  /\ \A i \in 1..MaxIterations :
       /\ launched[i] <= 1
       /\ i > Recorded => launched[i] = 0
  /\ pc \in Steps \cup {"halted"} => st.iter >= Recorded
  /\ pc \in (Starting \cup Working \cup {"adopt", "settle", "loop"}) => st.iter = Recorded
  /\ pc \in {"begin", "persist"} => st.iter > Recorded
  /\ pc = "exec" => launched[st.iter] = 0
  /\ pc \in Working => st.iter >= 1

\* Only what passed its guards is promoted.
Chosen ==
  /\ journal # None /\ journal.best # None => journal.best \in accepted
  /\ mem # None /\ mem.best # None => mem.best \in accepted
  /\ pc \in {"adopt", "promote"} => mem.attempted \in accepted
  /\ pc = "decide" /\ Passes => mem.attempted \in accepted

\* A run keeps numeric states exactly when it has a score, and its reviews are counted.
Reviewing == {"begin", "persist", "exec", "guards", "capture", "evaluate"}
Begun == IF pc \in Starting THEN starts - 1 ELSE starts
Counted(num, k) == num # None => num.stale <= k
KeepsScore ==
  /\ setting.score <=> st.num # None
  /\ saved # None => (setting.score <=> saved.num # None)
Tallied ==
  /\ pc \in Starting => starts >= 1
  /\ pc \in Reviewing => Counted(st.num, st.iter - 1 + starts)
  /\ pc \notin Reviewing => Counted(st.num, st.iter + Begun)
  /\ saved # None => Counted(saved.num, saved.iter + Begun)
  /\ mem # None /\ mem.proof # None => Counted(mem.proof.num, Recorded + Begun)
  /\ journal # None /\ journal.proof # None => Counted(journal.proof.num, Recorded + Begun)

\* A numeric state is at least as good as the score it was recorded with.
Reaches(num, value) ==
  value # NoScore => num # None /\ num.best # NoScore /\ Gain(num.best, value) >= 0
Graded ==
  /\ mem # None /\ mem.proof # None =>
       Reaches(mem.proof.num, mem.proof.score) /\ (setting.score <=> mem.proof.num # None)
  /\ journal # None /\ journal.proof # None =>
       Reaches(journal.proof.num, journal.proof.score)
         /\ (setting.score <=> journal.proof.num # None)
  /\ pc \in {"adopt", "decide", "promote"} /\ verdict.accept =>
       Reaches(st.num, verdict.value) /\ (setting.score => verdict.value # NoScore)
  /\ pc = "adopt" => verdict.accept
  /\ pc = "promote" => Passes /\ ~Weaker

\* A converged run has a best, and shows it.
Converging ==
  /\ saved # None /\ saved.halt = Success =>
       /\ journal # None /\ journal.best # None
       /\ mem # None => mem.best # None
  /\ origin = "converged" /\ pc = "open" => journal # None /\ journal.best # None
  /\ origin = "converged" /\ halt = "none" /\ mem # None => mem.best # None
  /\ origin = "converged" /\ halt = "none" /\ pc \in {"persist0", "integrity", "baseline", "settle"}
       => mem.exposed
  /\ pc = "reject" /\ Passes => mem.best # None
  /\ pc = "conclude" /\ Passes => mem.exposed
  /\ halt = Success => pc \in {"record", "loop"} \cup Stopping
  /\ halt = Success /\ pc # "halted" => mem # None /\ mem.exposed
  /\ pc = "cleanup" => halt # Success
  /\ pc = "halted" /\ halt = Success => shown # None
  /\ pc = "halted" /\ shown # None => shown \in accepted

\* The directory holds what a promotion commits, and what a response shows.
InPlace ==
  /\ pc \in {"adopt", "promote"} => tree = mem.attempted
  /\ pc = "judge" => tree = mem.attempted
  /\ pc = "halted" /\ shown # None => tree = shown

GovernorInv ==
  /\ ManagerInv
  /\ GovernorTypeOK
  /\ Coupled /\ Directed /\ Filed /\ Launches /\ Chosen /\ KeepsScore /\ Tallied
  /\ Graded /\ Converging
  /\ QuietBaselines => InPlace

------------------------------------------------------------------------------
(* The operations of the manager preserve ManagerInv, whichever step calls  *)
(* them, and what the steps need to know of their effect.                   *)

\* An operation that gives up changes nothing but its result.
LEMMA ManagerGivesUp ==
  ASSUME ManagerInv, GivesUp, mem = None \/ op # "opened", UNCHANGED edited
  PROVE  /\ ManagerInv'
         /\ ret' = "err" /\ op' = "idle"
         /\ UNCHANGED <<tree, store, journal, mem, ctx>>
<1>1. /\ ret' = "err" /\ op' = "idle"
      /\ tree' = tree /\ store' = store /\ journal' = journal /\ mem' = mem /\ ctx' = ctx
      /\ edited' = edited /\ faults' \in 0..MaxFaults
  BY CandidateAssumption DEF GivesUp, Fault, NoFault, ManagerInv, CandidateTypeOK
<1>2. CandidateTypeOK'
  BY <1>1 DEF ManagerInv, CandidateTypeOK
<1>3. Pointers'
  BY <1>1 DEF ManagerInv, Pointers, Published, Held, Busy
<1>4. /\ Coherent(mem') /\ Coherent(journal')
      /\ KeptInitial(mem', tree', edited') /\ KeptInitial(journal', tree', edited')
  BY <1>1 DEF ManagerInv
<1>5. QuietBaselines => ExposedIsBest'
  BY <1>1 DEF ManagerInv, ExposedIsBest
<1> QED  BY <1>1, <1>2, <1>3, <1>4, <1>5 DEF ManagerInv

\* A manager that opens reads the journal, or has captured a new initial content.
LEMMA ManagerOpens ==
  ASSUME ManagerInv, mem = None, op = "idle", Open, UNCHANGED edited
  PROVE  /\ ManagerInv'
         /\ ret' = "ok" => mem' # None /\ mem' = journal' /\ op' = "opened"
         /\ ret' # "ok" => mem' = None /\ op' = "idle" /\ ret' = "err"
         /\ journal # None => journal' = journal
         /\ journal = None /\ journal' # None => journal'.best = None /\ journal'.proof = None
         /\ tree' = tree
<1> DEFINE s == [status |-> "initial", initial |-> tree, best |-> None,
                 attempted |-> None, exposed |-> FALSE, proof |-> None]
<1>1. CASE GivesUp
  BY <1>1, ManagerGivesUp
<1>2. CASE OpenExisting
  <2>1. /\ journal # None /\ mem' = journal /\ op' = "opened" /\ ret' = "ok"
        /\ tree' = tree /\ store' = store /\ journal' = journal /\ ctx' = ctx
        /\ faults' = faults /\ edited' = edited
    BY <1>2 DEF OpenExisting
  <2>2. CandidateTypeOK'
    BY <2>1 DEF ManagerInv, CandidateTypeOK
  <2>3. Pointers'
    BY <2>1 DEF ManagerInv, Pointers, Published, Held, Busy
  <2>4. /\ Coherent(mem') /\ Coherent(journal')
        /\ KeptInitial(mem', tree', edited') /\ KeptInitial(journal', tree', edited')
    BY <2>1 DEF ManagerInv
  <2>5. ExposedIsBest'
    BY <2>1 DEF ExposedIsBest
  <2> QED  BY <2>1, <2>2, <2>3, <2>4, <2>5 DEF ManagerInv
<1>3. CASE OpenNew
  <2>1. /\ journal = None /\ Save(s) /\ store' = store \cup {tree}
        /\ mem' = IF ret' = "ok" THEN s ELSE None
        /\ op' = IF ret' = "ok" THEN "opened" ELSE op
        /\ tree' = tree /\ ctx' = ctx
    BY <1>3 DEF OpenNew
  <2>2. s \in CandidateState
    BY DEF ManagerInv, CandidateTypeOK, CandidateState, Settled
  <2>3. s.initial = tree /\ s.best = None /\ s.exposed = FALSE /\ s.status = "initial"
        /\ s.proof = None
    OBVIOUS
  <2> HIDE DEF s
  <2>4. /\ ret' \in {"ok", "err"} /\ faults' \in 0..MaxFaults
        /\ journal' \in {None, s} /\ (ret' = "ok" => journal' = s)
    BY <2>1, SaveOutcome DEF ManagerInv
  <2>5. s # None
    BY <2>2, NoneIsNoState
  <2>6. CandidateTypeOK'
    BY <2>1, <2>2, <2>4 DEF ManagerInv, CandidateTypeOK
  <2>7. Pointers'
    BY <2>1, <2>3, <2>4, <2>5 DEF ManagerInv, Pointers, Published, Held, Busy
  <2>8. /\ Coherent(s) /\ Coherent(None)
        /\ KeptInitial(s, tree', edited') /\ KeptInitial(None, tree', edited')
    BY <2>3 DEF Coherent, KeptInitial
  <2>9. /\ Coherent(mem') /\ Coherent(journal')
        /\ KeptInitial(mem', tree', edited') /\ KeptInitial(journal', tree', edited')
    BY <2>1, <2>4, <2>8
  <2>10. ExposedIsBest'
    BY <2>1, <2>3 DEF ExposedIsBest
  <2> QED  BY <2>1, <2>3, <2>4, <2>5, <2>6, <2>7, <2>9, <2>10 DEF ManagerInv
<1> QED  BY <1>1, <1>2, <1>3 DEF Open

\* Keeping the directory ends the opening; an exposed best is in place.
LEMMA ManagerKeeps ==
  ASSUME ManagerInv, mem # None, op = "opened", ~NeedsRestore \/ ~mem.exposed,
         op' = "idle", UNCHANGED <<tree, store, journal, mem, ret, ctx, faults, edited>>
  PROVE  ManagerInv'
<1>1. /\ op' = "idle" /\ ret' = ret
      /\ tree' = tree /\ store' = store /\ journal' = journal /\ mem' = mem /\ ctx' = ctx
      /\ faults' = faults /\ edited' = edited
  OBVIOUS
<1>2. CandidateTypeOK'
  BY <1>1 DEF ManagerInv, CandidateTypeOK
<1>3. Pointers'
  BY <1>1 DEF ManagerInv, Pointers, Published, Held, Busy
<1>4. /\ Coherent(mem') /\ Coherent(journal')
      /\ KeptInitial(mem', tree', edited') /\ KeptInitial(journal', tree', edited')
  BY <1>1 DEF ManagerInv
<1>5. ExposedIsBest'
  BY <1>1 DEF ManagerInv, Pointers, Held, NeedsRestore, ExposedIsBest
<1> QED  BY <1>2, <1>3, <1>4, <1>5 DEF ManagerInv

\* The fields of a journal state that an operation has replaced by another of the
\* same best and the same initial content.
LEMMA ManagerSaves ==
  ASSUME ManagerInv, mem # None, op = "idle" \/ op = "opened", UNCHANGED tree,
         NEW s \in CandidateState, Save(s), mem' = s, UNCHANGED ctx,
         store \subseteq store', store' \subseteq Contents \cup {Torn},
         op' \in {"idle", "promoting", "restoring"}, op' # "idle" => ret' = "ok",
         s.initial = mem.initial, s.best = mem.best, s.proof = mem.proof,
         s.exposed = FALSE, s.status \in {"attempting", "evaluating", "promoting", "restoring"},
         \/ s.attempted = mem.attempted /\ s.status \in {"promoting", "restoring"}
         \/ ret = "ok",
         op' = "promoting" => s.status = "promoting" /\ s.attempted \in store',
         op' = "restoring" => s.status = "restoring",
         edited' = edited \/ journal' # journal
  PROVE  /\ ManagerInv'
         /\ ret' \in {"ok", "err"} /\ journal' \in {journal, s} /\ s # None
         /\ ret' = "ok" => journal' = s
<1>1. /\ ret' \in {"ok", "err"} /\ faults' \in 0..MaxFaults
      /\ journal' \in {journal, s} /\ (ret' = "ok" => journal' = s)
  BY SaveOutcome DEF ManagerInv
<1>2. s # None
  BY NoneIsNoState
<1>3. CandidateTypeOK'
  BY <1>1 DEF ManagerInv, CandidateTypeOK
<1>4. /\ Published /\ Held /\ Busy /\ journal # None
      /\ mem.best # None => journal.best # None
  BY DEF ManagerInv, Pointers, Held
<1>5. Published'
  BY <1>1, <1>2, <1>4 DEF Published, Held
<1>6. Held'
  BY <1>1, <1>2, <1>4 DEF Published, Held
<1>7. Busy' /\ (mem' # None /\ mem'.best # None => journal'.best # None)
  BY <1>1, <1>2, <1>4 DEF Busy
<1>8. Coherent(s) /\ KeptInitial(s, tree', edited')
  BY DEF ManagerInv, Coherent, KeptInitial
<1>9. Coherent(journal')
  BY <1>1, <1>8 DEF ManagerInv
<1>10. KeptInitial(journal', tree', edited')
  <2>1. CASE journal' = s
    BY <2>1, <1>8
  <2>2. CASE journal' = journal
    BY <2>2 DEF ManagerInv
  <2> QED  BY <1>1, <2>1, <2>2
<1>11. ExposedIsBest'
  BY DEF ExposedIsBest
<1> QED  BY <1>1, <1>2, <1>3, <1>5, <1>6, <1>7, <1>8, <1>9, <1>10, <1>11 DEF ManagerInv, Pointers
\* What a step of an operation does to the memory and the journal: the pointers stay.
SamePointers ==
  /\ mem' # None
  /\ mem'.best = mem.best /\ mem'.proof = mem.proof
  /\ journal' \in {journal, mem'}

LEMMA ManagerBegins ==
  ASSUME ManagerInv, mem # None, op = "idle", ret = "ok", Begin,
         edited' = edited \/ journal' # journal
  PROVE  /\ ManagerInv' /\ SamePointers /\ UNCHANGED <<tree, op>>
         /\ mem'.status = "attempting" /\ ret' \in {"ok", "err"}
<1> DEFINE s == [mem EXCEPT !.status = "attempting", !.exposed = FALSE, !.attempted = None]
<1>1. /\ mem' = s /\ Save(s)
      /\ tree' = tree /\ store' = store /\ op' = op /\ ctx' = ctx
  BY DEF Begin
<1>2. mem \in CandidateState /\ store \subseteq Contents \cup {Torn}
  BY DEF ManagerInv, CandidateTypeOK
<1>3. /\ s \in CandidateState /\ s.initial = mem.initial /\ s.best = mem.best
      /\ s.proof = mem.proof /\ s.exposed = FALSE /\ s.status = "attempting"
  BY <1>2 DEF CandidateState, Interrupted
<1> HIDE DEF s
<1> QED  BY <1>1, <1>2, <1>3, ManagerSaves DEF SamePointers

LEMMA ManagerSnapshots ==
  ASSUME ManagerInv, mem # None, op = "idle", ret = "ok", ~mem.exposed, Snapshot,
         UNCHANGED edited
  PROVE  /\ ManagerInv' /\ SamePointers /\ UNCHANGED <<tree, op>>
         /\ mem'.status = "evaluating" /\ mem'.attempted = tree /\ ret' \in {"ok", "err"}
<1> DEFINE s == [mem EXCEPT !.status = "evaluating", !.attempted = tree]
<1>1. /\ mem' = s /\ Save(s) /\ store' = store \cup {tree}
      /\ tree' = tree /\ op' = op /\ ctx' = ctx
  BY DEF Snapshot
<1>2. /\ mem \in CandidateState /\ store \subseteq Contents \cup {Torn}
      /\ tree \in Contents \cup {Torn}
  BY DEF ManagerInv, CandidateTypeOK
<1>3. /\ s \in CandidateState /\ s.initial = mem.initial /\ s.best = mem.best
      /\ s.proof = mem.proof /\ s.exposed = FALSE /\ s.status = "evaluating"
      /\ s.attempted = tree
  BY <1>2 DEF CandidateState, Interrupted
<1> HIDE DEF s
<1> QED  BY <1>1, <1>2, <1>3, ManagerSaves DEF SamePointers

\* attempted: it gives up, or the content of the directory is recorded.
LEMMA ManagerAttempts ==
  ASSUME ManagerInv, mem # None, op = "idle", ret = "ok", ~mem.exposed, Attempted,
         UNCHANGED edited
  PROVE  /\ ManagerInv' /\ SamePointers /\ UNCHANGED tree /\ op' = "idle"
         /\ ret' \in {"ok", "err"}
         /\ ret' = "ok" => mem'.status = "evaluating" /\ mem'.attempted = tree
BY ManagerGivesUp, ManagerSnapshots DEF Attempted, SamePointers

LEMMA ManagerStages ==
  ASSUME ManagerInv, mem # None, op = "idle", ret = "ok", ~mem.exposed, PromoteStage,
         UNCHANGED edited
  PROVE  /\ ManagerInv' /\ SamePointers /\ UNCHANGED tree
         /\ mem'.status = "promoting" /\ mem'.attempted = mem.attempted
         /\ \/ op' = "promoting" /\ ret' = "ok"
            \/ op' = "idle" /\ ret' = "err"
<1> DEFINE s == [mem EXCEPT !.status = "promoting"]
<1>1. /\ mem' = s /\ Save(s) /\ mem.attempted \in store
      /\ op' = IF ret' = "ok" THEN "promoting" ELSE "idle"
      /\ tree' = tree /\ store' = store /\ ctx' = ctx
  BY DEF PromoteStage
<1>2. mem \in CandidateState /\ store \subseteq Contents \cup {Torn}
  BY DEF ManagerInv, CandidateTypeOK
<1>3. /\ s \in CandidateState /\ s.initial = mem.initial /\ s.best = mem.best
      /\ s.proof = mem.proof /\ s.exposed = FALSE /\ s.status = "promoting"
      /\ s.attempted = mem.attempted
  BY <1>2 DEF CandidateState, Interrupted
<1> HIDE DEF s
<1>4. ret' \in {"ok", "err"}
  BY <1>1, SaveOutcome DEF ManagerInv
<1> QED  BY <1>1, <1>2, <1>3, <1>4, ManagerSaves DEF SamePointers

\* The commit: disk and memory name the attempt as best, or memory keeps the old one.
LEMMA ManagerCommits ==
  ASSUME ManagerInv, mem # None, QuietBaselines => tree = mem.attempted, UNCHANGED edited,
         NEW e \in Proofs, PromoteCommit(e)
  PROVE  /\ ManagerInv' /\ UNCHANGED tree /\ op' = "idle"
         /\ mem'.attempted = mem.attempted
         /\ \/ /\ ret' = "ok" /\ journal' = mem' /\ mem' = Promoted(e)
            \/ /\ ret' = "err" /\ mem' = mem
               /\ journal' \in {journal, Promoted(e)}
         /\ Promoted(e).best = mem.attempted /\ Promoted(e).proof = e
         /\ Promoted(e) # None /\ Promoted(e).exposed = TRUE /\ mem.attempted # None
<1> DEFINE s == Promoted(e)
<1>1. /\ op = "promoting" /\ Save(s)
      /\ mem' = IF ret' = "ok" THEN s ELSE mem
      /\ op' = "idle" /\ tree' = tree /\ store' = store /\ ctx' = ctx /\ edited' = edited
  BY DEF PromoteCommit
<1>2. /\ mem \in CandidateState /\ store \subseteq Contents \cup {Torn}
      /\ mem.attempted \in store /\ mem.status = "promoting" /\ ret = "ok" /\ journal = mem
      /\ mem.initial \in store
  BY <1>1 DEF ManagerInv, CandidateTypeOK, Pointers, Busy, Held
<1>3. mem.attempted # None /\ e # None /\ e \in Evidence
  BY <1>2, CandidateAssumption, EvidenceAssumption
<1>4. /\ s \in CandidateState /\ s.initial = mem.initial /\ s.best = mem.attempted
      /\ s.attempted = mem.attempted
      /\ s.proof = e /\ s.exposed = TRUE /\ s.status = "accepted"
  BY <1>2, <1>3 DEF Promoted, CandidateState, Settled
<1> HIDE DEF s
<1>5. /\ ret' \in {"ok", "err"} /\ faults' \in 0..MaxFaults
      /\ journal' \in {journal, s} /\ (ret' = "ok" => journal' = s)
  BY <1>1, SaveOutcome DEF ManagerInv
<1>6. s # None
  BY <1>4, NoneIsNoState
<1>7. CandidateTypeOK'
  BY <1>1, <1>4, <1>5 DEF ManagerInv, CandidateTypeOK
<1>8. Pointers'
  <2>1. Published /\ Held
    BY DEF ManagerInv, Pointers
  <2>2. Published'
    BY <1>1, <1>2, <1>3, <1>4, <1>5, <2>1 DEF Published
  <2>3. Held'
    BY <1>1, <1>2, <1>3, <1>4, <1>5, <1>6, <2>1 DEF Held
  <2>4. Busy' /\ (mem' # None /\ mem'.best # None => journal'.best # None)
    BY <1>1, <1>2, <1>3, <1>4, <1>5 DEF Busy
  <2> QED  BY <2>2, <2>3, <2>4 DEF Pointers
<1>9. Coherent(s) /\ KeptInitial(s, tree', edited')
  BY <1>3, <1>4 DEF Coherent, KeptInitial
<1>10. /\ Coherent(mem') /\ Coherent(journal')
       /\ KeptInitial(mem', tree', edited') /\ KeptInitial(journal', tree', edited')
  BY <1>1, <1>5, <1>9 DEF ManagerInv
<1>11. ~mem.exposed
  BY <1>2 DEF ManagerInv, Coherent
<1>12. QuietBaselines => ExposedIsBest'
  BY <1>1, <1>2, <1>3, <1>4, <1>11 DEF ExposedIsBest
<1> QED
  BY <1>1, <1>3, <1>4, <1>5, <1>6, <1>7, <1>8, <1>10, <1>12, <1>2 DEF ManagerInv, s

\* One step of promote, as the steps of the governor see it.
LEMMA ManagerPromotes ==
  ASSUME ManagerInv, mem # None, op = "idle" => ret = "ok" /\ ~mem.exposed,
         op \in {"idle", "promoting"}, QuietBaselines => tree = mem.attempted,
         UNCHANGED edited, NEW e \in Proofs, PromoteStep(e)
  PROVE  /\ ManagerInv' /\ UNCHANGED tree /\ mem' # None /\ mem'.attempted = mem.attempted
         /\ op' \in {"idle", "promoting"} /\ (op' # "idle" => ret' = "ok")
         /\ ret' \in {"ok", "err"}
         /\ ~(op' = "idle" /\ ret' = "ok") => mem'.best = mem.best /\ mem'.proof = mem.proof
         /\ op' = "idle" /\ ret' = "ok" =>
              mem'.best = mem.attempted /\ mem'.proof = e /\ mem'.exposed
              /\ journal' = mem' /\ mem.attempted # None
         /\ \/ journal' \in {journal, mem'}
            \/ /\ journal' # None /\ journal'.best = mem.attempted /\ journal'.proof = e
               /\ mem.attempted # None
<1>1. CASE GivesUp
  BY <1>1, ManagerGivesUp
<1>2. CASE op = "idle" /\ PromoteStage
  BY <1>2, ManagerStages DEF SamePointers
<1>3. CASE PromoteCommit(e)
  BY <1>3, ManagerCommits
<1> QED  BY <1>1, <1>2, <1>3 DEF PromoteStep, PromoteCancelled

LEMMA ManagerStartsRestore ==
  ASSUME ManagerInv, mem # None, RestoreStart, UNCHANGED edited
  PROVE  /\ ManagerInv' /\ SamePointers /\ UNCHANGED tree
         /\ mem'.status = "restoring" /\ mem'.attempted = mem.attempted
         /\ \/ op' = "restoring" /\ ret' = "ok"
            \/ op' = "idle" /\ ret' = "err"
<1> DEFINE s == [mem EXCEPT !.status = "restoring", !.exposed = FALSE]
<1>1. /\ mem' = s /\ Save(s) /\ op \in {"idle", "opened"}
      /\ op' = IF ret' = "ok" THEN "restoring" ELSE "idle"
      /\ tree' = tree /\ store' = store /\ ctx' = ctx
  BY DEF RestoreStart
<1>2. mem \in CandidateState /\ store \subseteq Contents \cup {Torn}
  BY DEF ManagerInv, CandidateTypeOK
<1>3. /\ s \in CandidateState /\ s.initial = mem.initial /\ s.best = mem.best
      /\ s.proof = mem.proof /\ s.exposed = FALSE /\ s.status = "restoring"
      /\ s.attempted = mem.attempted
  BY <1>2 DEF CandidateState, Interrupted
<1> HIDE DEF s
<1>4. ret' \in {"ok", "err"}
  BY <1>1, SaveOutcome DEF ManagerInv
<1> QED  BY <1>1, <1>2, <1>3, <1>4, ManagerSaves DEF SamePointers
LEMMA ManagerCopies ==
  ASSUME ManagerInv, mem # None, RestoreCopy, UNCHANGED edited
  PROVE  ManagerInv' /\ op' = "verifying" /\ UNCHANGED <<mem, journal, ret>>
<1>1. /\ op = "restoring" /\ op' = "verifying" /\ mem.status = "restoring"
      /\ ret = "ok" /\ journal = mem /\ ~mem.exposed /\ mem \in CandidateState
      /\ tree' \in {tree, Torn} /\ edited' = edited
      /\ store' = store /\ journal' = journal /\ mem' = mem /\ ret' = ret /\ ctx' = ctx
      /\ faults' = faults
  BY DEF RestoreCopy, ManagerInv, Pointers, Busy, Held, Coherent, CandidateTypeOK
<1>2. CandidateTypeOK'
  BY <1>1 DEF ManagerInv, CandidateTypeOK
<1>3. Pointers'
  BY <1>1 DEF ManagerInv, Pointers, Published, Held, Busy
<1>4. /\ Coherent(mem') /\ Coherent(journal')
      /\ KeptInitial(mem', tree', edited') /\ KeptInitial(journal', tree', edited')
  BY <1>1 DEF ManagerInv, KeptInitial
<1>5. ExposedIsBest'
  BY <1>1 DEF ExposedIsBest
<1> QED  BY <1>1, <1>2, <1>3, <1>4, <1>5 DEF ManagerInv

\* The directory holds the target before the journal calls it restored.
LEMMA ManagerFinishes ==
  ASSUME ManagerInv, mem # None, RestoreFinish, UNCHANGED edited
  PROVE  /\ ManagerInv' /\ SamePointers /\ op' = "idle" /\ ret' \in {"ok", "err"}
         /\ mem'.status = "restored" /\ (mem'.exposed <=> mem.best # None)
<1> DEFINE s == [mem EXCEPT !.status = "restored", !.exposed = mem.best # None]
<1>1. /\ op = "verifying" /\ tree' = Target(mem) /\ mem' = s /\ Save(s) /\ op' = "idle"
      /\ store' = store /\ ctx' = ctx /\ edited' = edited
  BY DEF RestoreFinish
<1>2. /\ mem \in CandidateState /\ mem.status = "restoring" /\ ret = "ok" /\ journal = mem
      /\ mem.initial \in store /\ (mem.best # None => mem.best \in store)
      /\ store \subseteq Contents \cup {Torn}
  BY <1>1 DEF ManagerInv, CandidateTypeOK, Pointers, Busy, Held
<1>3. /\ s \in CandidateState /\ s.initial = mem.initial /\ s.best = mem.best
      /\ s.proof = mem.proof /\ s.status = "restored" /\ s.attempted = mem.attempted
      /\ s.exposed <=> mem.best # None
  BY <1>2 DEF CandidateState, Settled
<1> HIDE DEF s
<1>4. /\ ret' \in {"ok", "err"} /\ faults' \in 0..MaxFaults
      /\ journal' \in {journal, s} /\ (ret' = "ok" => journal' = s)
  BY <1>1, SaveOutcome DEF ManagerInv
<1>5. s # None
  BY <1>3, NoneIsNoState
<1>6. tree' \in Contents \cup {Torn}
  BY <1>1, <1>2 DEF Target
<1>7. CandidateTypeOK'
  BY <1>1, <1>3, <1>4, <1>6 DEF ManagerInv, CandidateTypeOK
<1>8. Pointers'
  <2>1. Published /\ Held
    BY DEF ManagerInv, Pointers
  <2>2. Published' /\ Busy'
    BY <1>1, <1>2, <1>3, <1>4, <2>1 DEF Published, Busy
  <2>3. Held' /\ (mem' # None /\ mem'.best # None => journal'.best # None)
    BY <1>1, <1>2, <1>3, <1>4, <1>5, <2>1 DEF Held
  <2> QED  BY <2>2, <2>3 DEF Pointers
<1>9. Coherent(s)
  BY <1>2, <1>3 DEF ManagerInv, Coherent
<1>10. KeptInitial(s, tree', edited')
  BY <1>1, <1>3 DEF KeptInitial, Target
<1>11. KeptInitial(journal, tree', edited')
  BY <1>2 DEF KeptInitial
<1>12. /\ Coherent(mem') /\ Coherent(journal')
       /\ KeptInitial(mem', tree', edited') /\ KeptInitial(journal', tree', edited')
  <2>1. CASE journal' = s
    BY <1>1, <1>9, <1>10, <2>1
  <2>2. CASE journal' = journal
    BY <1>1, <1>9, <1>10, <1>11, <2>2 DEF ManagerInv
  <2> QED  BY <1>4, <2>1, <2>2
<1>13. ExposedIsBest'
  BY <1>1, <1>2, <1>3 DEF ExposedIsBest, Target
<1> QED  BY <1>1, <1>3, <1>4, <1>5, <1>7, <1>8, <1>12, <1>13 DEF ManagerInv, SamePointers

\* One step of restore, as the steps of the governor see it.
LEMMA ManagerRestores ==
  ASSUME ManagerInv, mem # None, op # "promoting", RestoreStep, UNCHANGED edited
  PROVE  /\ ManagerInv' /\ SamePointers
         /\ op' \in {"idle", "restoring", "verifying"} /\ (op' # "idle" => ret' = "ok")
         /\ ret' \in {"ok", "err"} /\ op' # "opened"
         /\ op = "opened" => op' = "restoring" \/ ret' = "err"
         /\ op' = "idle" /\ ret' = "ok" =>
              mem'.status = "restored" /\ (mem'.exposed <=> mem.best # None)
<1>1. CASE RestoreStart
  BY <1>1, ManagerStartsRestore DEF SamePointers
<1>2. CASE RestoreCopy
  <2>1. op = "restoring" /\ ret = "ok"
    BY <1>2 DEF RestoreCopy, ManagerInv, Pointers, Busy
  <2> QED  BY <1>2, <2>1, ManagerCopies DEF SamePointers
<1>3. CASE RestoreFinish
  <2>1. op = "verifying"
    BY <1>3 DEF RestoreFinish
  <2> QED  BY <1>3, <2>1, ManagerFinishes DEF SamePointers
<1>4. CASE RestoreFails
  <2>1. op \in {"restoring", "verifying"}
    BY <1>4 DEF RestoreFails
  <2> QED  BY <1>4, <2>1, ManagerGivesUp DEF RestoreFails, SamePointers
<1> QED  BY <1>1, <1>2, <1>3, <1>4 DEF RestoreStep

\* A step that leaves the manager alone, or only ends its context or meets a fault.
LEMMA ManagerRests ==
  ASSUME ManagerInv, UNCHANGED <<tree, store, journal, mem, op, ret, edited>>,
         ctx' \in {"live", "done", "cleanup"}, faults' \in 0..MaxFaults
  PROVE  ManagerInv'
<1>1. /\ tree' = tree /\ store' = store /\ journal' = journal /\ mem' = mem /\ op' = op
      /\ ret' = ret /\ edited' = edited
  OBVIOUS
<1>2. CandidateTypeOK'
  BY <1>1 DEF ManagerInv, CandidateTypeOK
<1>3. Pointers'
  BY <1>1 DEF ManagerInv, Pointers, Published, Held, Busy
<1>4. /\ Coherent(mem') /\ Coherent(journal')
      /\ KeptInitial(mem', tree', edited') /\ KeptInitial(journal', tree', edited')
  BY <1>1 DEF ManagerInv
<1>5. QuietBaselines => ExposedIsBest'
  BY <1>1 DEF ManagerInv, ExposedIsBest
<1> QED  BY <1>2, <1>3, <1>4, <1>5 DEF ManagerInv

\* A builder or a hook writes the directory only while the journal says that an
\* attempt is under way, somebody else only while no process runs.
LEMMA ManagerRewritten ==
  ASSUME ManagerInv, tree' \in Contents \cup {Torn},
         UNCHANGED <<store, journal, mem, op, ret, ctx, faults>>,
         \/ edited' = edited /\ mem # None /\ ret = "ok"
            /\ mem.status \in {"attempting", "evaluating"}
         \/ edited' = TRUE /\ mem = None
  PROVE  ManagerInv'
<1>1. /\ store' = store /\ journal' = journal /\ mem' = mem /\ op' = op
      /\ ret' = ret /\ ctx' = ctx /\ faults' = faults
  OBVIOUS
<1>2. CandidateTypeOK'
  BY <1>1 DEF ManagerInv, CandidateTypeOK
<1>3. Pointers'
  BY <1>1 DEF ManagerInv, Pointers, Published, Held, Busy
<1>4. Coherent(mem') /\ Coherent(journal')
  BY <1>1 DEF ManagerInv
<1>5. mem # None => journal = mem
  BY DEF ManagerInv, Pointers, Held
<1>6. KeptInitial(mem', tree', edited') /\ KeptInitial(journal', tree', edited')
  BY <1>1, <1>5 DEF KeptInitial
<1>7. ExposedIsBest'
  BY <1>1 DEF ManagerInv, Coherent, ExposedIsBest
<1> QED  BY <1>2, <1>3, <1>4, <1>6, <1>7 DEF ManagerInv

\* The process ends; the disk keeps what it has.
LEMMA ManagerLeft ==
  ASSUME ManagerInv, NEW next \in {"live", "done"}, Leave(next), faults' \in 0..MaxFaults,
         UNCHANGED edited
  PROVE  ManagerInv' /\ mem' = None /\ op' = "idle" /\ ret' = "ok"
         /\ UNCHANGED <<tree, journal, edited>>
<1>1. /\ tree' = tree /\ store' = store /\ journal' = journal /\ mem' = None /\ op' = "idle"
      /\ ret' = "ok" /\ edited' = edited /\ ctx' = next
  BY DEF Leave
<1>2. CandidateTypeOK'
  BY <1>1 DEF ManagerInv, CandidateTypeOK
<1>3. Pointers'
  BY <1>1 DEF ManagerInv, Pointers, Published, Held, Busy
<1>4. /\ Coherent(mem') /\ Coherent(journal')
      /\ KeptInitial(mem', tree', edited') /\ KeptInitial(journal', tree', edited')
  BY <1>1 DEF ManagerInv, Coherent, KeptInitial
<1>5. ExposedIsBest'
  BY <1>1 DEF ExposedIsBest
<1> QED  BY <1>1, <1>2, <1>3, <1>4, <1>5 DEF ManagerInv

\* The parts of a state that most steps leave alone.
ManagerSame ==
  tree' = tree /\ store' = store /\ journal' = journal /\ mem' = mem /\ op' = op /\ ret' = ret
RunSame ==
  /\ setting' = setting /\ starts' = starts /\ origin' = origin /\ deadline' = deadline
  /\ converged' = converged /\ shown' = shown /\ receiptBad' = receiptBad

------------------------------------------------------------------------------
(* The steps of the process preserve GovernorInv.                           *)

\* A save ends with the new state file, or fails with the old or the new one.
LEMMA PersistOutcome ==
  ASSUME NEW s, NEW ok, Persist(s, ok), faults \in 0..MaxFaults
  PROVE  /\ saved' \in {saved, s} /\ faults' \in 0..MaxFaults
         /\ ok => saved' = s
BY CandidateAssumption DEF Persist, Fault, NoFault

LEMMA HaltNames ==
  /\ "none" \in Halts /\ "failed" \in Halts /\ Success \in Halts
  /\ "no_progress_detected" \in Halts /\ "max_iterations_reached" \in Halts
BY DEF Halts

LEMMA RunFields ==
  ASSUME NEW s \in LoopState
  PROVE  /\ s.iter \in 0..MaxIterations /\ s.num \in NumericState \cup {None}
         /\ s.halt \in Halts /\ s.phase \in Phases
BY DEF LoopState

\* The manager is held by every step that goes on.
LEMMA HasManager ==
  ASSUME GovernorInv, pc \notin Unstarted, halt = "none"
  PROVE  mem # None /\ ret = "ok"
BY DEF GovernorInv, Coupled, GovernorTypeOK, ManagerInv, CandidateTypeOK

\* A new run has counted nothing.
LEMMA NewRunFields ==
  ASSUME NEW scored \in BOOLEAN
  PROVE  /\ NewRun(scored) \in LoopState
         /\ NewRun(scored).iter = 0 /\ NewRun(scored).halt = "none"
         /\ scored <=> NewRun(scored).num # None
         /\ Counted(NewRun(scored).num, 0)
         /\ NewRun(scored).num # None => NewRun(scored).num.stale \in Nat
<1>1. NewNumeric \in NumericState /\ NewNumeric.stale = 0
  BY DEF NewNumeric, NumericState
<1>2. NewNumeric # None /\ 0 \in 0..MaxIterations
  BY <1>1, GovernorAssumption
<1>3. CASE scored
  BY <1>1, <1>2, <1>3, HaltNames DEF NewRun, LoopState, Phases, Counted
<1>4. CASE ~scored
  BY <1>2, <1>4, HaltNames DEF NewRun, LoopState, Phases, Counted
<1> QED  BY <1>3, <1>4

LEMMA ProofFields ==
  ASSUME NEW e \in Proofs
  PROVE  e.num # None => e.num.stale \in Nat
<1>1. e.num \in RunNumeric \cup {None} /\ MaxIterations + MaxStarts \in Nat
  BY GovernorAssumption DEF Proofs
<1> QED  BY <1>1 DEF RunNumeric

LEMMA CountedMore ==
  ASSUME NEW num, NEW k \in Int, NEW l \in Int, k <= l, Counted(num, k),
         num # None => num.stale \in Nat
  PROVE  Counted(num, l)
BY DEF Counted

\* The counters are natural numbers.
LEMMA Ranges ==
  ASSUME GovernorInv
  PROVE  /\ MaxIterations \in Nat /\ MaxStarts \in Nat /\ starts \in 0..MaxStarts
         /\ st \in LoopState /\ st # None /\ st.iter \in 0..MaxIterations
         /\ st.num # None => st.num.stale \in Nat
         /\ saved # None => saved.iter \in 0..MaxIterations
         /\ saved # None /\ saved.num # None => saved.num.stale \in Nat
         /\ Recorded \in 0..MaxIterations
         /\ mem # None /\ mem.proof # None /\ mem.proof.num # None
              => mem.proof.num.stale \in Nat
         /\ journal # None /\ journal.proof # None /\ journal.proof.num # None
              => journal.proof.num.stale \in Nat
<1>1. /\ MaxIterations \in Nat /\ MaxStarts \in Nat /\ starts \in 0..MaxStarts
      /\ st \in LoopState /\ saved \in LoopState \cup {None}
  BY GovernorAssumption DEF GovernorInv, GovernorTypeOK
<1>2. \A n \in NumericState : n.stale \in Nat
  BY DEF NumericState
<1>3. st # None /\ st.iter \in 0..MaxIterations /\ (st.num # None => st.num.stale \in Nat)
  BY <1>1, <1>2, NoneIsNoRun, RunFields
<1>4. saved # None =>
        saved.iter \in 0..MaxIterations /\ (saved.num # None => saved.num.stale \in Nat)
  BY <1>1, <1>2, RunFields
<1>5. Recorded \in 0..MaxIterations
  BY <1>1, <1>4 DEF Recorded
<1>6. /\ mem # None /\ mem.proof # None => mem.proof \in Proofs
      /\ journal # None /\ journal.proof # None => journal.proof \in Proofs
  BY DEF GovernorInv, ManagerInv, Coherent
<1> QED  BY <1>1, <1>3, <1>4, <1>5, <1>6, ProofFields

\* A process starts with what its state file says, or with nothing.
LEMMA StartInv ==
  ASSUME GovernorInv, Start
  PROVE  GovernorInv'
<1>1. /\ pc = "down" /\ starts < MaxStarts /\ starts' = starts + 1 /\ pc' = "open"
      /\ IF saved = None
         THEN origin' = "fresh" /\ st' = NewRun(setting.score)
         ELSE /\ origin' = IF saved.halt = Success THEN "converged" ELSE "resumed"
              /\ st' = [saved EXCEPT !.phase = "running", !.halt = "none"]
      /\ ManagerSame /\ ctx' = ctx /\ faults' = faults
      /\ setting' = setting /\ saved' = saved /\ halt' = halt /\ cause' = cause
      /\ verdict' = verdict /\ launched' = launched /\ accepted' = accepted
      /\ edited' = edited /\ receiptBad' = receiptBad /\ deadline' = deadline
      /\ shown' = shown /\ converged' = converged
  BY DEF Start, GoTo, cvars, Attempt, Reasons, ManagerSame
<1>2. /\ st' \in LoopState /\ st'.halt = "none"
      /\ saved = None => st'.iter = 0 /\ (setting.score <=> st'.num # None)
                         /\ Counted(st'.num, 0)
                         /\ (st'.num # None => st'.num.stale \in Nat)
      /\ saved # None => st'.iter = saved.iter /\ st'.num = saved.num
  <2>1. CASE saved = None
    <3>1. setting.score \in BOOLEAN
      BY GovernorAssumption DEF GovernorInv, GovernorTypeOK
    <3> QED  BY <1>1, <2>1, <3>1, NewRunFields
  <2>2. CASE saved # None
    BY <1>1, <2>2, HaltNames DEF GovernorInv, GovernorTypeOK, LoopState, Phases
  <2> QED  BY <2>1, <2>2
<1>3. /\ origin' \in {"fresh", "resumed", "converged"}
      /\ starts' \in 0..MaxStarts /\ Begun = starts /\ Begun' = starts /\ starts \in Nat
      /\ Recorded' = Recorded
  BY <1>1, Ranges DEF Begun, Starting, Recorded
<1>4. ManagerInv'
  BY <1>1, <1>2, <1>3, ManagerRests DEF GovernorInv, ManagerInv, CandidateTypeOK,
     ManagerSame, RunSame
<1>5. GovernorTypeOK'
  BY <1>1, <1>2, <1>3, HaltNames DEF GovernorInv, GovernorTypeOK, Steps, ManagerSame,
     RunSame
<1>6. Coupled'
  BY <1>1, <1>2, <1>3 DEF GovernorInv, Coupled, Unstarted, ManagerSame, RunSame
<1>7. Directed'
  BY <1>1, <1>2, <1>3 DEF GovernorInv, Directed, Trying, Working, Stopping, CleanupDue,
     ManagerSame, RunSame
<1>8. Filed'
  BY <1>1, <1>2, <1>3 DEF GovernorInv, Filed, Working, ManagerSame, RunSame
<1>9. Launches'
  BY <1>1, <1>2, <1>3, Ranges DEF GovernorInv, Launches, Recorded, Starting, Working,
     Steps, ManagerSame, RunSame
<1>10. Chosen'
  BY <1>1, <1>2, <1>3 DEF GovernorInv, Chosen, Passes, ManagerSame, RunSame
<1>11. KeepsScore'
  BY <1>1, <1>2, <1>3 DEF GovernorInv, KeepsScore, ManagerSame, RunSame
<1>12. Tallied'
  <2>1. CASE saved = None
    BY <1>1, <1>2, <1>3, <2>1, Ranges DEF GovernorInv, Tallied, Counted, Reviewing, ManagerSame
  <2>2. CASE saved # None
    BY <1>1, <1>2, <1>3, <2>2, Ranges DEF GovernorInv, Tallied, Counted, Reviewing, ManagerSame
  <2> QED  BY <2>1, <2>2
<1>13. Graded'
  BY <1>1, <1>2, <1>3 DEF GovernorInv, Graded, Passes, Weaker, ManagerSame, RunSame
<1>14. Converging'
  BY <1>1, <1>2, <1>3 DEF GovernorInv, Converging, Stopping, Passes, Success, ManagerSame,
     RunSame
<1>15. QuietBaselines => InPlace'
  BY <1>1, <1>2, <1>3 DEF GovernorInv, InPlace, ManagerSame, RunSame
<1> QED
  BY <1>4, <1>5, <1>6, <1>7, <1>8, <1>9, <1>10, <1>11, <1>12, <1>13, <1>14, <1>15 DEF
     GovernorInv

\* Every start saves its state before it does anything else.
LEMMA FirstPersistInv ==
  ASSUME GovernorInv, FirstPersist
  PROVE  GovernorInv'
<1>1. PICK ok \in BOOLEAN :
        /\ pc = "persist0" /\ pc' = "integrity" /\ Persist(st, ok)
        /\ ok => halt' = halt /\ cause' = cause
        /\ ~ok => halt' = "failed" /\ cause' = "other"
        /\ ManagerSame /\ ctx' = ctx
        /\ st' = st /\ verdict' = verdict /\ launched' = launched /\ accepted' = accepted
        /\ edited' = edited /\ RunSame
  BY DEF FirstPersist, Continue, Fail, GoTo, Quiet, Manager, Attempt, ManagerSame, RunSame
<1>2. saved' \in {saved, st} /\ faults' \in 0..MaxFaults /\ (ok => saved' = st)
  BY <1>1, PersistOutcome DEF GovernorInv, ManagerInv, CandidateTypeOK
<1>3. st \in LoopState /\ st # None /\ st.halt = "none"
  BY <1>1, Ranges DEF GovernorInv, Directed
<1>4. /\ Recorded' = Recorded
      /\ saved' # None => saved' = saved \/ (saved' = st /\ st.iter = Recorded)
  BY <1>1, <1>2, <1>3 DEF GovernorInv, Launches, Recorded, Starting, Working
<1>5. ManagerInv'
  BY <1>1, <1>2, <1>3, <1>4, ManagerRests DEF GovernorInv, ManagerInv, CandidateTypeOK,
     ManagerSame, RunSame
<1>6. GovernorTypeOK'
  BY <1>1, <1>2, <1>3, <1>4, HaltNames DEF GovernorInv, GovernorTypeOK, Steps,
     ManagerSame, RunSame
<1>7. Coupled'
  BY <1>1, <1>2, <1>3, <1>4 DEF GovernorInv, Coupled, Unstarted, ManagerSame, RunSame
<1>8. Directed'
  BY <1>1, <1>2, <1>3, <1>4 DEF GovernorInv, Directed, Trying, Working, Stopping,
     CleanupDue, ManagerSame, RunSame
<1>9. Filed'
  BY <1>1, <1>2, <1>3, <1>4 DEF GovernorInv, Filed, Working, ManagerSame, RunSame
<1>10. Launches'
  BY <1>1, <1>2, <1>3, <1>4, Ranges DEF GovernorInv, Launches, Recorded, Starting,
     Working, Steps, ManagerSame, RunSame
<1>11. Chosen'
  BY <1>1, <1>2, <1>3, <1>4 DEF GovernorInv, Chosen, Passes, ManagerSame, RunSame
<1>12. KeepsScore'
  BY <1>1, <1>2, <1>3, <1>4 DEF GovernorInv, KeepsScore, ManagerSame, RunSame
<1>13. Tallied'
  BY <1>1, <1>2, <1>3, <1>4, Ranges DEF GovernorInv, Tallied, Begun, Starting, Reviewing,
     Counted, Recorded, ManagerSame, RunSame
<1>14. Graded'
  BY <1>1, <1>2, <1>3, <1>4 DEF GovernorInv, Graded, Passes, Weaker, ManagerSame, RunSame
<1>15. Converging'
  BY <1>1, <1>2, <1>3, <1>4 DEF GovernorInv, Converging, Stopping, Passes, Success,
     ManagerSame, RunSame
<1>16. QuietBaselines => InPlace'
  BY <1>1, <1>2, <1>3, <1>4 DEF GovernorInv, InPlace, ManagerSame, RunSame
<1> QED
  BY <1>5, <1>6, <1>7, <1>8, <1>9, <1>10, <1>11, <1>12, <1>13, <1>14, <1>15, <1>16 DEF
     GovernorInv

\* The baseline of the integrity collector.
LEMMA IntegrityBaselineInv ==
  ASSUME GovernorInv, IntegrityBaseline
  PROVE  GovernorInv'
<1>1. /\ pc = "integrity" /\ pc' = "baseline"
      /\ \/ halt' = halt /\ cause' = cause
         \/ halt = "none" /\ halt' = "failed" /\ cause' = "other"
      /\ ManagerSame /\ ctx' = ctx /\ faults' = faults
      /\ st' = st /\ saved' = saved /\ verdict' = verdict /\ launched' = launched
      /\ accepted' = accepted
      /\ edited' = edited /\ RunSame
  BY DEF IntegrityBaseline, Continue, Fail, GoTo, Quiet, cvars, Attempt, ManagerSame, RunSame
<1>2. ManagerInv'
  BY <1>1, ManagerRests DEF GovernorInv, ManagerInv, CandidateTypeOK, ManagerSame, RunSame
<1>3. GovernorTypeOK'
  BY <1>1, HaltNames DEF GovernorInv, GovernorTypeOK, Steps, ManagerSame, RunSame
<1>4. Coupled'
  BY <1>1 DEF GovernorInv, Coupled, Unstarted, ManagerSame, RunSame
<1>5. Directed'
  BY <1>1 DEF GovernorInv, Directed, Trying, Working, Stopping, CleanupDue, ManagerSame,
     RunSame
<1>6. Filed'
  BY <1>1 DEF GovernorInv, Filed, Working, ManagerSame, RunSame
<1>7. Launches'
  BY <1>1, Ranges DEF GovernorInv, Launches, Recorded, Starting, Working, Steps,
     ManagerSame, RunSame
<1>8. Chosen'
  BY <1>1 DEF GovernorInv, Chosen, Passes, ManagerSame, RunSame
<1>9. KeepsScore'
  BY <1>1 DEF GovernorInv, KeepsScore, ManagerSame, RunSame
<1>10. Tallied'
  BY <1>1, Ranges DEF GovernorInv, Tallied, Begun, Starting, Reviewing, Counted, Recorded,
     ManagerSame, RunSame
<1>11. Graded'
  BY <1>1 DEF GovernorInv, Graded, Passes, Weaker, ManagerSame, RunSame
<1>12. Converging'
  BY <1>1 DEF GovernorInv, Converging, Stopping, Passes, Success, ManagerSame, RunSame
<1>13. QuietBaselines => InPlace'
  BY <1>1 DEF GovernorInv, InPlace, ManagerSame, RunSame
<1> QED
  BY <1>2, <1>3, <1>4, <1>5, <1>6, <1>7, <1>8, <1>9, <1>10, <1>11, <1>12, <1>13 DEF
     GovernorInv

\* Without a baseline to verify.
LEMMA BaselineSkippedInv ==
  ASSUME GovernorInv, BaselineSkipped
  PROVE  GovernorInv'
<1>1. /\ pc = "baseline" /\ pc' = "settle" /\ halt' = halt /\ cause' = cause
      /\ ManagerSame /\ ctx' = ctx /\ faults' = faults
      /\ st' = st /\ saved' = saved /\ verdict' = verdict /\ launched' = launched
      /\ accepted' = accepted
      /\ edited' = edited /\ RunSame
  BY DEF BaselineSkipped, Continue, GoTo, Quiet, cvars, Attempt, ManagerSame, RunSame
<1>2. ManagerInv'
  BY <1>1, ManagerRests DEF GovernorInv, ManagerInv, CandidateTypeOK, ManagerSame, RunSame
<1>3. GovernorTypeOK'
  BY <1>1, HaltNames DEF GovernorInv, GovernorTypeOK, Steps, ManagerSame, RunSame
<1>4. Coupled'
  BY <1>1 DEF GovernorInv, Coupled, Unstarted, ManagerSame, RunSame
<1>5. Directed'
  BY <1>1 DEF GovernorInv, Directed, Trying, Working, Stopping, CleanupDue, ManagerSame,
     RunSame
<1>6. Filed'
  BY <1>1 DEF GovernorInv, Filed, Working, ManagerSame, RunSame
<1>7. Launches'
  BY <1>1, Ranges DEF GovernorInv, Launches, Recorded, Starting, Working, Steps,
     ManagerSame, RunSame
<1>8. Chosen'
  BY <1>1 DEF GovernorInv, Chosen, Passes, ManagerSame, RunSame
<1>9. KeepsScore'
  BY <1>1 DEF GovernorInv, KeepsScore, ManagerSame, RunSame
<1>10. Tallied'
  BY <1>1, Ranges DEF GovernorInv, Tallied, Begun, Starting, Reviewing, Counted, Recorded,
     ManagerSame, RunSame
<1>11. Graded'
  BY <1>1 DEF GovernorInv, Graded, Passes, Weaker, ManagerSame, RunSame
<1>12. Converging'
  BY <1>1 DEF GovernorInv, Converging, Stopping, Passes, Success, ManagerSame, RunSame
<1>13. QuietBaselines => InPlace'
  BY <1>1 DEF GovernorInv, InPlace, ManagerSame, RunSame
<1> QED
  BY <1>2, <1>3, <1>4, <1>5, <1>6, <1>7, <1>8, <1>9, <1>10, <1>11, <1>12, <1>13 DEF
     GovernorInv
\* A run that had converged is not relaunched.
LEMMA SettleInv ==
  ASSUME GovernorInv, Settle
  PROVE  GovernorInv'
<1>1. /\ pc = "settle" /\ pc' = "loop"
      /\ halt' = IF halt = "none" /\ origin = "converged" THEN Success ELSE halt
      /\ verdict' = None
      /\ ManagerSame /\ ctx' = ctx /\ faults' = faults
      /\ st' = st /\ saved' = saved /\ cause' = cause /\ launched' = launched
      /\ accepted' = accepted /\ edited' = edited /\ RunSame
  BY DEF Settle, GoTo, Quiet, cvars, ManagerSame, RunSame
<1>2. /\ halt' \in Halts
      /\ halt' = "none" => halt = "none"
      /\ halt' = Success /\ halt # Success => mem # None /\ mem.exposed
      /\ halt = Success => halt' = Success
  BY <1>1, HaltNames, HasManager
     DEF GovernorInv, GovernorTypeOK, Converging, Unstarted, Stopping, Success
<1>3. ManagerInv'
  BY <1>1, <1>2, ManagerRests DEF GovernorInv, ManagerInv, CandidateTypeOK, ManagerSame,
     RunSame
<1>4. GovernorTypeOK'
  BY <1>1, <1>2, HaltNames DEF GovernorInv, GovernorTypeOK, Steps, ManagerSame, RunSame
<1>5. Coupled'
  BY <1>1, <1>2 DEF GovernorInv, Coupled, Unstarted, ManagerSame, RunSame
<1>6. Directed'
  BY <1>1, <1>2 DEF GovernorInv, Directed, Trying, Working, Stopping, CleanupDue,
     ManagerSame, RunSame
<1>7. Filed'
  BY <1>1, <1>2 DEF GovernorInv, Filed, Working, ManagerSame, RunSame
<1>8. Launches'
  BY <1>1, <1>2, Ranges DEF GovernorInv, Launches, Recorded, Starting, Working, Steps,
     ManagerSame, RunSame
<1>9. Chosen'
  BY <1>1, <1>2 DEF GovernorInv, Chosen, Passes, ManagerSame, RunSame
<1>10. KeepsScore'
  BY <1>1, <1>2 DEF GovernorInv, KeepsScore, ManagerSame, RunSame
<1>11. Tallied'
  BY <1>1, <1>2, Ranges DEF GovernorInv, Tallied, Begun, Starting, Reviewing, Counted,
     Recorded, ManagerSame, RunSame
<1>12. Graded'
  BY <1>1, <1>2 DEF GovernorInv, Graded, Passes, Weaker, ManagerSame, RunSame
<1>13. Converging'
  BY <1>1, <1>2 DEF GovernorInv, Converging, Stopping, Passes, Success, ManagerSame,
     RunSame
<1>14. QuietBaselines => InPlace'
  BY <1>1, <1>2 DEF GovernorInv, InPlace, ManagerSame, RunSame
<1> QED
  BY <1>3, <1>4, <1>5, <1>6, <1>7, <1>8, <1>9, <1>10, <1>11, <1>12, <1>13, <1>14 DEF
     GovernorInv

\* The loop ends: a halt reason, the bound or the context.
LEMMA LoopEndsInv ==
  ASSUME GovernorInv, LoopEnds
  PROVE  GovernorInv'
<1>1. /\ pc = "loop" /\ pc' = "final"
      /\ \/ halt # "none" /\ halt' = halt /\ cause' = cause
         \/ halt = "none" /\ halt' = "max_iterations_reached" /\ cause' = cause
         \/ halt = "none" /\ halt' = "failed" /\ cause' = "other"
      /\ ManagerSame /\ ctx' = ctx /\ faults' = faults
      /\ st' = st /\ saved' = saved /\ verdict' = verdict /\ launched' = launched
      /\ accepted' = accepted /\ edited' = edited /\ RunSame
  BY DEF LoopEnds, Continue, Fail, GoTo, Quiet, cvars, Attempt, ManagerSame, RunSame
<1>2. ManagerInv'
  BY <1>1, ManagerRests DEF GovernorInv, ManagerInv, CandidateTypeOK, ManagerSame, RunSame
<1>3. GovernorTypeOK'
  BY <1>1, HaltNames DEF GovernorInv, GovernorTypeOK, Steps, ManagerSame, RunSame
<1>4. Coupled'
  BY <1>1 DEF GovernorInv, Coupled, Unstarted, ManagerSame, RunSame
<1>5. Directed'
  BY <1>1 DEF GovernorInv, Directed, Trying, Working, Stopping, CleanupDue, ManagerSame,
     RunSame
<1>6. Filed'
  BY <1>1 DEF GovernorInv, Filed, Working, ManagerSame, RunSame
<1>7. Launches'
  BY <1>1, Ranges DEF GovernorInv, Launches, Recorded, Starting, Working, Steps,
     ManagerSame, RunSame
<1>8. Chosen'
  BY <1>1 DEF GovernorInv, Chosen, Passes, ManagerSame, RunSame
<1>9. KeepsScore'
  BY <1>1 DEF GovernorInv, KeepsScore, ManagerSame, RunSame
<1>10. Tallied'
  BY <1>1, Ranges DEF GovernorInv, Tallied, Begun, Starting, Reviewing, Counted, Recorded,
     ManagerSame, RunSame
<1>11. Graded'
  BY <1>1 DEF GovernorInv, Graded, Passes, Weaker, ManagerSame, RunSame
<1>12. Converging'
  BY <1>1 DEF GovernorInv, Converging, Stopping, Passes, Success, ManagerSame, RunSame
<1>13. QuietBaselines => InPlace'
  BY <1>1 DEF GovernorInv, InPlace, ManagerSame, RunSame
<1> QED
  BY <1>2, <1>3, <1>4, <1>5, <1>6, <1>7, <1>8, <1>9, <1>10, <1>11, <1>12, <1>13 DEF
     GovernorInv

\* The next iteration is counted in memory only.
LEMMA LoopIteratesInv ==
  ASSUME GovernorInv, LoopIterates
  PROVE  GovernorInv'
<1>1. /\ pc = "loop" /\ pc' = "begin" /\ halt = "none" /\ ~AtBound
      /\ st' = [st EXCEPT !.iter = @ + 1, !.phase = "attempting"]
      /\ verdict' = None /\ halt' = halt /\ cause' = cause
      /\ ManagerSame /\ ctx' = ctx /\ faults' = faults
      /\ saved' = saved /\ launched' = launched
      /\ accepted' = accepted /\ edited' = edited /\ RunSame
  BY DEF LoopIterates, Continue, GoTo, Quiet, cvars, ManagerSame, RunSame
<1>2. /\ st' \in LoopState /\ st'.iter = st.iter + 1 /\ st'.num = st.num
      /\ st'.halt = st.halt
  <2>1. st \in LoopState /\ st.iter + 1 \in 0..MaxIterations
    BY <1>1, Ranges DEF AtBound
  <2> QED  BY <1>1, <2>1 DEF LoopState, Phases
<1>3. ManagerInv'
  BY <1>1, <1>2, ManagerRests DEF GovernorInv, ManagerInv, CandidateTypeOK, ManagerSame,
     RunSame
<1>4. GovernorTypeOK'
  BY <1>1, <1>2, HaltNames DEF GovernorInv, GovernorTypeOK, Steps, ManagerSame, RunSame
<1>5. Coupled'
  BY <1>1, <1>2 DEF GovernorInv, Coupled, Unstarted, ManagerSame, RunSame
<1>6. Directed'
  BY <1>1, <1>2 DEF GovernorInv, Directed, Trying, Working, Stopping, CleanupDue,
     ManagerSame, RunSame
<1>7. Filed'
  BY <1>1, <1>2 DEF GovernorInv, Filed, Working, ManagerSame, RunSame
<1>8. Launches'
  BY <1>1, <1>2, Ranges DEF GovernorInv, Launches, Recorded, Starting, Working, Steps,
     ManagerSame, RunSame
<1>9. Chosen'
  BY <1>1, <1>2 DEF GovernorInv, Chosen, Passes, ManagerSame, RunSame
<1>10. KeepsScore'
  BY <1>1, <1>2 DEF GovernorInv, KeepsScore, ManagerSame, RunSame
<1>11. Tallied'
  BY <1>1, <1>2, Ranges DEF GovernorInv, Tallied, Begun, Starting, Reviewing, Counted,
     Recorded, ManagerSame, RunSame
<1>12. Graded'
  BY <1>1, <1>2 DEF GovernorInv, Graded, Passes, Weaker, ManagerSame, RunSame
<1>13. Converging'
  BY <1>1, <1>2 DEF GovernorInv, Converging, Stopping, Passes, Success, ManagerSame,
     RunSame
<1>14. QuietBaselines => InPlace'
  BY <1>1, <1>2 DEF GovernorInv, InPlace, ManagerSame, RunSame
<1> QED
  BY <1>3, <1>4, <1>5, <1>6, <1>7, <1>8, <1>9, <1>10, <1>11, <1>12, <1>13, <1>14 DEF
     GovernorInv

\* The iteration is on disk before its work is launched.
LEMMA PersistIterationInv ==
  ASSUME GovernorInv, PersistIteration
  PROVE  GovernorInv'
<1>1. PICK ok \in BOOLEAN :
        /\ pc = "persist" /\ Persist(st, ok)
        /\ ok => pc' = "exec" /\ halt' = halt /\ cause' = cause
        /\ ~ok => pc' = "final" /\ halt' = "failed" /\ cause' = "other"
        /\ ManagerSame /\ ctx' = ctx
        /\ st' = st /\ verdict' = verdict /\ launched' = launched /\ accepted' = accepted
        /\ edited' = edited /\ RunSame
  BY DEF PersistIteration, Continue, Fail, GoTo, Quiet, Manager, Attempt, ManagerSame, RunSame
<1>2. saved' \in {saved, st} /\ faults' \in 0..MaxFaults /\ (ok => saved' = st)
  BY <1>1, PersistOutcome DEF GovernorInv, ManagerInv, CandidateTypeOK
<1>3. st \in LoopState /\ st # None /\ st.halt = "none" /\ st.iter \in 0..MaxIterations
  BY <1>1, Ranges DEF GovernorInv, Directed
<1>4. /\ Recorded' \in {Recorded, st.iter} /\ st.iter > Recorded
      /\ saved' # None => saved' = saved \/ (saved' = st /\ Recorded' = st.iter)
  BY <1>1, <1>2, <1>3 DEF GovernorInv, Launches, Recorded, Starting, Working
<1>5. ManagerInv'
  BY <1>1, <1>2, <1>3, <1>4, ManagerRests DEF GovernorInv, ManagerInv, CandidateTypeOK,
     ManagerSame, RunSame
<1>6. GovernorTypeOK'
  BY <1>1, <1>2, <1>3, <1>4, HaltNames DEF GovernorInv, GovernorTypeOK, Steps,
     ManagerSame, RunSame
<1>7. Coupled'
  BY <1>1, <1>2, <1>3, <1>4 DEF GovernorInv, Coupled, Unstarted, ManagerSame, RunSame
<1>8. Directed'
  BY <1>1, <1>2, <1>3, <1>4 DEF GovernorInv, Directed, Trying, Working, Stopping,
     CleanupDue, ManagerSame, RunSame
<1>9. Filed'
  BY <1>1, <1>2, <1>3, <1>4 DEF GovernorInv, Filed, Working, ManagerSame, RunSame
<1>10. Launches'
  BY <1>1, <1>2, <1>3, <1>4, Ranges DEF GovernorInv, Launches, Recorded, Starting,
     Working, Steps, ManagerSame, RunSame
<1>11. Chosen'
  BY <1>1, <1>2, <1>3, <1>4 DEF GovernorInv, Chosen, Passes, ManagerSame, RunSame
<1>12. KeepsScore'
  BY <1>1, <1>2, <1>3, <1>4 DEF GovernorInv, KeepsScore, ManagerSame, RunSame
<1>13. Tallied'
  BY <1>1, <1>2, <1>3, <1>4, Ranges DEF GovernorInv, Tallied, Begun, Starting, Reviewing,
     Counted, Recorded, ManagerSame, RunSame
<1>14. Graded'
  BY <1>1, <1>2, <1>3, <1>4 DEF GovernorInv, Graded, Passes, Weaker, ManagerSame, RunSame
<1>15. Converging'
  BY <1>1, <1>2, <1>3, <1>4 DEF GovernorInv, Converging, Stopping, Passes, Success,
     ManagerSame, RunSame
<1>16. QuietBaselines => InPlace'
  BY <1>1, <1>2, <1>3, <1>4 DEF GovernorInv, InPlace, ManagerSame, RunSame
<1> QED
  BY <1>5, <1>6, <1>7, <1>8, <1>9, <1>10, <1>11, <1>12, <1>13, <1>14, <1>15, <1>16 DEF
     GovernorInv

\* The work command is refused.
LEMMA ExecRefusedInv ==
  ASSUME GovernorInv, ExecRefused
  PROVE  GovernorInv'
<1>1. /\ pc = "exec"
      /\ pc' = "final" /\ halt' = "failed" /\ cause' = "other"
      /\ ManagerSame /\ ctx' = ctx /\ faults' = faults
      /\ st' = st /\ saved' = saved /\ verdict' = verdict /\ launched' = launched
      /\ accepted' = accepted /\ edited' = edited /\ RunSame
  BY DEF ExecRefused, Continue, Fail, GoTo, Quiet, cvars, Attempt, ManagerSame, RunSame
<1>2. ManagerInv'
  BY <1>1, ManagerRests DEF GovernorInv, ManagerInv, CandidateTypeOK, ManagerSame, RunSame
<1>3. GovernorTypeOK'
  BY <1>1, HaltNames DEF GovernorInv, GovernorTypeOK, Steps, ManagerSame, RunSame
<1>4. Coupled'
  BY <1>1 DEF GovernorInv, Coupled, Unstarted, ManagerSame, RunSame
<1>5. Directed'
  BY <1>1 DEF GovernorInv, Directed, Trying, Working, Stopping, CleanupDue, ManagerSame,
     RunSame
<1>6. Filed'
  BY <1>1 DEF GovernorInv, Filed, Working, ManagerSame, RunSame
<1>7. Launches'
  BY <1>1, Ranges DEF GovernorInv, Launches, Recorded, Starting, Working, Steps,
     ManagerSame, RunSame
<1>8. Chosen'
  BY <1>1 DEF GovernorInv, Chosen, Passes, ManagerSame, RunSame
<1>9. KeepsScore'
  BY <1>1 DEF GovernorInv, KeepsScore, ManagerSame, RunSame
<1>10. Tallied'
  BY <1>1, Ranges DEF GovernorInv, Tallied, Begun, Starting, Reviewing, Counted, Recorded,
     ManagerSame, RunSame
<1>11. Graded'
  BY <1>1 DEF GovernorInv, Graded, Passes, Weaker, ManagerSame, RunSame
<1>12. Converging'
  BY <1>1 DEF GovernorInv, Converging, Stopping, Passes, Success, ManagerSame, RunSame
<1>13. QuietBaselines => InPlace'
  BY <1>1 DEF GovernorInv, InPlace, ManagerSame, RunSame
<1> QED
  BY <1>2, <1>3, <1>4, <1>5, <1>6, <1>7, <1>8, <1>9, <1>10, <1>11, <1>12, <1>13 DEF
     GovernorInv

\* intact and the integrity collector.
LEMMA GuardsInv ==
  ASSUME GovernorInv, Guards
  PROVE  GovernorInv'
<1>1. /\ pc = "guards"
      /\ \/ pc' = "capture" /\ halt' = halt /\ cause' = cause
         \/ pc' = "final" /\ halt' = "failed" /\ cause' = "other"
      /\ ManagerSame /\ ctx' = ctx /\ faults' = faults
      /\ st' = st /\ saved' = saved /\ verdict' = verdict /\ launched' = launched
      /\ accepted' = accepted /\ edited' = edited /\ RunSame
  BY DEF Guards, Continue, Fail, GoTo, Quiet, cvars, Attempt, ManagerSame, RunSame
<1>2. ManagerInv'
  BY <1>1, ManagerRests DEF GovernorInv, ManagerInv, CandidateTypeOK, ManagerSame, RunSame
<1>3. GovernorTypeOK'
  BY <1>1, HaltNames DEF GovernorInv, GovernorTypeOK, Steps, ManagerSame, RunSame
<1>4. Coupled'
  BY <1>1 DEF GovernorInv, Coupled, Unstarted, ManagerSame, RunSame
<1>5. Directed'
  BY <1>1 DEF GovernorInv, Directed, Trying, Working, Stopping, CleanupDue, ManagerSame,
     RunSame
<1>6. Filed'
  BY <1>1 DEF GovernorInv, Filed, Working, ManagerSame, RunSame
<1>7. Launches'
  BY <1>1, Ranges DEF GovernorInv, Launches, Recorded, Starting, Working, Steps,
     ManagerSame, RunSame
<1>8. Chosen'
  BY <1>1 DEF GovernorInv, Chosen, Passes, ManagerSame, RunSame
<1>9. KeepsScore'
  BY <1>1 DEF GovernorInv, KeepsScore, ManagerSame, RunSame
<1>10. Tallied'
  BY <1>1, Ranges DEF GovernorInv, Tallied, Begun, Starting, Reviewing, Counted, Recorded,
     ManagerSame, RunSame
<1>11. Graded'
  BY <1>1 DEF GovernorInv, Graded, Passes, Weaker, ManagerSame, RunSame
<1>12. Converging'
  BY <1>1 DEF GovernorInv, Converging, Stopping, Passes, Success, ManagerSame, RunSame
<1>13. QuietBaselines => InPlace'
  BY <1>1 DEF GovernorInv, InPlace, ManagerSame, RunSame
<1> QED
  BY <1>2, <1>3, <1>4, <1>5, <1>6, <1>7, <1>8, <1>9, <1>10, <1>11, <1>12, <1>13 DEF
     GovernorInv

\* Only an attempt that passed, and whose content is still there, is promoted.
LEMMA DecideInv ==
  ASSUME GovernorInv, Decide
  PROVE  GovernorInv'
<1>1. /\ pc = "decide"
      /\ \/ pc' = "final" /\ halt' = "failed" /\ cause' = "other"
         \/ /\ halt' = halt /\ cause' = cause /\ tree = mem.attempted
            /\ \/ pc' = "promote" /\ Passes /\ ~Weaker
               \/ pc' = "reject" /\ (Passes => Weaker)
      /\ ManagerSame /\ ctx' = ctx /\ faults' = faults
      /\ st' = st /\ saved' = saved /\ verdict' = verdict /\ launched' = launched
      /\ accepted' = accepted /\ edited' = edited /\ RunSame
  BY DEF Decide, StillAttempted, Continue, Fail, GoTo, Quiet, cvars, Attempt, ManagerSame, RunSame
<1>2. /\ Passes => verdict.accept
      /\ Weaker => mem # None /\ mem.best # None
  BY <1>1 DEF GovernorInv, ManagerInv, Coherent, Coupled, Directed, Trying, Working, Unstarted, Passes, Weaker
<1>3. ManagerInv'
  BY <1>1, <1>2, ManagerRests DEF GovernorInv, ManagerInv, CandidateTypeOK, ManagerSame,
     RunSame
<1>4. GovernorTypeOK'
  BY <1>1, <1>2, HaltNames DEF GovernorInv, GovernorTypeOK, Steps, ManagerSame, RunSame
<1>5. Coupled'
  BY <1>1, <1>2 DEF GovernorInv, Coupled, Unstarted, ManagerSame, RunSame
<1>6. Directed'
  BY <1>1, <1>2 DEF GovernorInv, Directed, Trying, Working, Stopping, CleanupDue,
     ManagerSame, RunSame
<1>7. Filed'
  BY <1>1, <1>2 DEF GovernorInv, Filed, Working, ManagerSame, RunSame
<1>8. Launches'
  BY <1>1, <1>2, Ranges DEF GovernorInv, Launches, Recorded, Starting, Working, Steps,
     ManagerSame, RunSame
<1>9. Chosen'
  BY <1>1, <1>2 DEF GovernorInv, Chosen, Passes, ManagerSame, RunSame
<1>10. KeepsScore'
  BY <1>1, <1>2 DEF GovernorInv, KeepsScore, ManagerSame, RunSame
<1>11. Tallied'
  BY <1>1, <1>2, Ranges DEF GovernorInv, Tallied, Begun, Starting, Reviewing, Counted,
     Recorded, ManagerSame, RunSame
<1>12. Graded'
  BY <1>1, <1>2 DEF GovernorInv, Graded, Passes, Weaker, ManagerSame, RunSame
<1>13. Converging'
  BY <1>1, <1>2 DEF GovernorInv, Converging, Stopping, Passes, Success, ManagerSame,
     RunSame
<1>14. QuietBaselines => InPlace'
  BY <1>1, <1>2 DEF GovernorInv, InPlace, ManagerSame, RunSame
<1> QED
  BY <1>3, <1>4, <1>5, <1>6, <1>7, <1>8, <1>9, <1>10, <1>11, <1>12, <1>13, <1>14 DEF
     GovernorInv
\* Success needs the check, the guards and the target; the best is then in place.
LEMMA ConcludeInv ==
  ASSUME GovernorInv, Conclude
  PROVE  GovernorInv'
<1>1. /\ pc = "conclude" /\ verdict' = None
      /\ \/ pc' = "final" /\ halt' = "failed" /\ cause' = "other" /\ st' = st
         \/ /\ pc' = "record" /\ cause' = cause
            /\ halt' = IF Succeeds THEN Success ELSE verdict.halt
            /\ st' = [st EXCEPT !.phase = "evaluated"]
      /\ ManagerSame /\ ctx' = ctx /\ faults' = faults
      /\ saved' = saved /\ launched' = launched
      /\ accepted' = accepted /\ edited' = edited /\ RunSame
  BY DEF Conclude, Fail, GoTo, Quiet, cvars, ManagerSame, RunSame
<1>2. st' \in LoopState /\ st'.iter = st.iter /\ st'.num = st.num /\ st'.halt = st.halt
  BY <1>1, Ranges DEF LoopState, Phases
<1>3. mem # None /\ ret = "ok" /\ saved # None
  BY <1>1, HasManager DEF GovernorInv, Directed, Filed, Trying, Working, Unstarted
<1>4. /\ halt' \in Halts
      /\ halt' = Success => mem.exposed
      /\ pc' = "final" => halt' # "none"
  BY <1>1, HaltNames
     DEF GovernorInv, Coupled, Directed, Converging, Unstarted, Trying, Working, Succeeds, Passes,
         Success
<1>5. /\ pc' \in {"record", "final"}
      /\ halt' = Success => pc' = "record" /\ mem.exposed
      /\ halt' = "none" => pc' = "record"
      /\ halt = "none"
  BY <1>1, <1>4 DEF Success, GovernorInv, Directed, Trying, Working
<1>6. ManagerInv'
  BY <1>1, <1>2, <1>3, <1>4, <1>5, ManagerRests DEF GovernorInv, ManagerInv,
     CandidateTypeOK, ManagerSame, RunSame
<1>7. GovernorTypeOK'
  BY <1>1, <1>2, <1>3, <1>4, <1>5, HaltNames DEF GovernorInv, GovernorTypeOK, Steps,
     ManagerSame, RunSame
<1>8. Coupled'
  BY <1>1, <1>2, <1>3, <1>4, <1>5 DEF GovernorInv, Coupled, Unstarted, ManagerSame,
     RunSame
<1>9. Directed'
  BY <1>1, <1>2, <1>3, <1>4, <1>5 DEF GovernorInv, Directed, Trying, Working, Stopping,
     CleanupDue, ManagerSame, RunSame
<1>10. Filed'
  BY <1>1, <1>2, <1>3, <1>4, <1>5 DEF GovernorInv, Filed, Working, ManagerSame, RunSame
<1>11. Launches'
  BY <1>1, <1>2, <1>3, <1>4, <1>5, Ranges DEF GovernorInv, Launches, Recorded, Starting,
     Working, Steps, ManagerSame, RunSame
<1>12. Chosen'
  BY <1>1, <1>2, <1>3, <1>4, <1>5 DEF GovernorInv, Chosen, Passes, ManagerSame, RunSame
<1>13. KeepsScore'
  BY <1>1, <1>2, <1>3, <1>4, <1>5 DEF GovernorInv, KeepsScore, ManagerSame, RunSame
<1>14. Tallied'
  BY <1>1, <1>2, <1>3, <1>4, <1>5, Ranges DEF GovernorInv, Tallied, Begun, Starting,
     Reviewing, Counted, Recorded, ManagerSame, RunSame
<1>15. Graded'
  BY <1>1, <1>2, <1>3, <1>4, <1>5 DEF GovernorInv, Graded, Passes, Weaker, ManagerSame,
     RunSame
<1>16. Converging'
  BY <1>1, <1>3, <1>5 DEF GovernorInv, Converging, Stopping, ManagerSame, RunSame
<1>17. QuietBaselines => InPlace'
  BY <1>1, <1>2, <1>3, <1>4, <1>5 DEF GovernorInv, InPlace, ManagerSame, RunSame
<1> QED
  BY <1>6, <1>7, <1>8, <1>9, <1>10, <1>11, <1>12, <1>13, <1>14, <1>15, <1>16, <1>17 DEF
     GovernorInv

\* The evaluated iteration is saved.
LEMMA RecordInv ==
  ASSUME GovernorInv, Record
  PROVE  GovernorInv'
<1>1. PICK ok \in BOOLEAN :
        /\ pc = "record" /\ Persist(st, ok)
        /\ \/ ok /\ pc' = "loop" /\ halt' = halt /\ cause' = cause
           \/ ok /\ pc' = "loop" /\ halt' = "failed" /\ cause' = cause
           \/ ~ok /\ pc' = "final" /\ halt' = "failed" /\ cause' = "other"
        /\ ManagerSame /\ ctx' = ctx
        /\ st' = st /\ verdict' = verdict /\ launched' = launched /\ accepted' = accepted
        /\ edited' = edited /\ RunSame
  BY DEF Record, Continue, Fail, GoTo, Quiet, Manager, Attempt, ManagerSame, RunSame
<1>2. saved' \in {saved, st} /\ faults' \in 0..MaxFaults /\ (ok => saved' = st)
  BY <1>1, PersistOutcome DEF GovernorInv, ManagerInv, CandidateTypeOK
<1>3. st \in LoopState /\ st # None /\ st.halt = "none" /\ st.iter \in 0..MaxIterations
  BY <1>1, Ranges DEF GovernorInv, Directed
<1>4. /\ Recorded' = Recorded
      /\ saved' # None => saved' = saved \/ (saved' = st /\ st.iter = Recorded)
  BY <1>1, <1>2, <1>3 DEF GovernorInv, Launches, Recorded, Starting, Working
<1>5. ManagerInv'
  BY <1>1, <1>2, <1>3, <1>4, ManagerRests DEF GovernorInv, ManagerInv, CandidateTypeOK,
     ManagerSame, RunSame
<1>6. GovernorTypeOK'
  BY <1>1, <1>2, <1>3, <1>4, HaltNames DEF GovernorInv, GovernorTypeOK, Steps,
     ManagerSame, RunSame
<1>7. Coupled'
  BY <1>1, <1>2, <1>3, <1>4 DEF GovernorInv, Coupled, Unstarted, ManagerSame, RunSame
<1>8. Directed'
  BY <1>1, <1>2, <1>3, <1>4 DEF GovernorInv, Directed, Trying, Working, Stopping,
     CleanupDue, ManagerSame, RunSame
<1>9. Filed'
  BY <1>1, <1>2, <1>3, <1>4 DEF GovernorInv, Filed, Working, ManagerSame, RunSame
<1>10. Launches'
  BY <1>1, <1>2, <1>3, <1>4, Ranges DEF GovernorInv, Launches, Recorded, Starting,
     Working, Steps, ManagerSame, RunSame
<1>11. Chosen'
  BY <1>1, <1>2, <1>3, <1>4 DEF GovernorInv, Chosen, Passes, ManagerSame, RunSame
<1>12. KeepsScore'
  BY <1>1, <1>2, <1>3, <1>4 DEF GovernorInv, KeepsScore, ManagerSame, RunSame
<1>13. Tallied'
  BY <1>1, <1>2, <1>3, <1>4, Ranges DEF GovernorInv, Tallied, Begun, Starting, Reviewing,
     Counted, Recorded, ManagerSame, RunSame
<1>14. Graded'
  BY <1>1, <1>2, <1>3, <1>4 DEF GovernorInv, Graded, Passes, Weaker, ManagerSame, RunSame
<1>15. Converging'
  BY <1>1, <1>2, <1>3, <1>4 DEF GovernorInv, Converging, Stopping, Passes, Success,
     ManagerSame, RunSame
<1>16. QuietBaselines => InPlace'
  BY <1>1, <1>2, <1>3, <1>4 DEF GovernorInv, InPlace, ManagerSame, RunSame
<1> QED
  BY <1>5, <1>6, <1>7, <1>8, <1>9, <1>10, <1>11, <1>12, <1>13, <1>14, <1>15, <1>16 DEF
     GovernorInv

\* The last restoration is due unless the directory is already restored.
LEMMA FinalInv ==
  ASSUME GovernorInv, Final
  PROVE  GovernorInv'
<1>1. /\ pc = "final" /\ verdict' = None /\ halt' = halt /\ cause' = cause
      /\ \/ CleanupDue /\ pc' = "cleanup" /\ ctx' = "cleanup"
         \/ ~CleanupDue /\ pc' = "report" /\ ctx' = ctx
      /\ ManagerSame /\ faults' = faults
      /\ st' = st /\ saved' = saved /\ launched' = launched
      /\ accepted' = accepted /\ edited' = edited /\ RunSame
  BY DEF Final, SetContext, Continue, GoTo, Quiet, cvars, ManagerSame, RunSame
<1>2. CleanupDue => mem # None /\ halt # Success
  BY <1>1 DEF GovernorInv, Converging, CleanupDue
<1>3. ManagerInv'
  BY <1>1, <1>2, ManagerRests DEF GovernorInv, ManagerInv, CandidateTypeOK, ManagerSame,
     RunSame
<1>4. GovernorTypeOK'
  BY <1>1, <1>2, HaltNames DEF GovernorInv, GovernorTypeOK, Steps, ManagerSame, RunSame
<1>5. Coupled'
  BY <1>1, <1>2 DEF GovernorInv, Coupled, Unstarted, ManagerSame, RunSame
<1>6. Directed'
  BY <1>1, <1>2 DEF GovernorInv, Directed, Trying, Working, Stopping, CleanupDue,
     ManagerSame, RunSame
<1>7. Filed'
  BY <1>1, <1>2 DEF GovernorInv, Filed, Working, ManagerSame, RunSame
<1>8. Launches'
  BY <1>1, <1>2, Ranges DEF GovernorInv, Launches, Recorded, Starting, Working, Steps,
     ManagerSame, RunSame
<1>9. Chosen'
  BY <1>1, <1>2 DEF GovernorInv, Chosen, Passes, ManagerSame, RunSame
<1>10. KeepsScore'
  BY <1>1, <1>2 DEF GovernorInv, KeepsScore, ManagerSame, RunSame
<1>11. Tallied'
  BY <1>1, <1>2, Ranges DEF GovernorInv, Tallied, Begun, Starting, Reviewing, Counted,
     Recorded, ManagerSame, RunSame
<1>12. Graded'
  BY <1>1, <1>2 DEF GovernorInv, Graded, Passes, Weaker, ManagerSame, RunSame
<1>13. Converging'
  BY <1>1, <1>2 DEF GovernorInv, Converging, Stopping, Passes, Success, ManagerSame,
     RunSame
<1>14. QuietBaselines => InPlace'
  BY <1>1, <1>2 DEF GovernorInv, InPlace, ManagerSame, RunSame
<1> QED
  BY <1>3, <1>4, <1>5, <1>6, <1>7, <1>8, <1>9, <1>10, <1>11, <1>12, <1>13, <1>14 DEF
     GovernorInv

\* What the process answers: a candidate only when the final state is saved.
LEMMA ReportHaltInv ==
  ASSUME GovernorInv, ReportHalt
  PROVE  GovernorInv'
<1>1. PICK ok \in BOOLEAN :
        /\ pc = "report" /\ pc' = "halted"
        /\ st' = [st EXCEPT !.halt = halt, !.phase = "halted"]
        /\ Persist(st', ok)
        /\ ok => /\ halt' = halt
                 /\ shown' = IF mem # None /\ mem.exposed THEN mem.best ELSE None
                 /\ converged' = (converged \/ halt = Success)
        /\ ~ok => halt' = "failed" /\ shown' = None /\ converged' = converged
        /\ cause' = cause
        /\ ManagerSame /\ ctx' = ctx
        /\ verdict' = verdict /\ launched' = launched /\ accepted' = accepted
        /\ edited' = edited /\ setting' = setting /\ starts' = starts /\ origin' = origin
        /\ deadline' = deadline /\ receiptBad' = receiptBad
  BY DEF ReportHalt, Continue, GoTo, Manager, Attempt, ManagerSame
<1>2. saved' \in {saved, st'} /\ faults' \in 0..MaxFaults /\ (ok => saved' = st')
  BY <1>1, PersistOutcome DEF GovernorInv, ManagerInv, CandidateTypeOK
<1>3. /\ st' \in LoopState /\ st' # None /\ st'.iter = st.iter /\ st'.num = st.num
      /\ st'.halt = halt
  <2>1. st \in LoopState /\ halt \in Halts
    BY Ranges DEF GovernorInv, GovernorTypeOK
  <2>2. st' \in LoopState /\ st'.iter = st.iter /\ st'.num = st.num /\ st'.halt = halt
    BY <1>1, <2>1 DEF LoopState, Phases
  <2> QED  BY <2>2, NoneIsNoRun
<1>4. shown' \in {None} \cup (IF mem # None /\ mem.exposed THEN {mem.best} ELSE {})
  BY <1>1
<1>5. /\ mem # None => mem \in CandidateState
      /\ mem # None /\ mem.exposed => mem.best # None /\ journal # None /\ journal.best # None
  BY DEF GovernorInv, ManagerInv, CandidateTypeOK, Coherent, Pointers, Held
<1>6. shown' \in Contents \cup {Torn, None}
  BY <1>4, <1>5, Fields
<1>7. /\ Recorded' \in {Recorded, st.iter} /\ st.iter >= Recorded
      /\ saved' # None => saved' = saved \/ (saved' = st' /\ Recorded' = st.iter)
  BY <1>1, <1>2, <1>3, Ranges DEF GovernorInv, Launches, Recorded, Steps
<1>8. halt = Success => mem # None /\ mem.exposed
  BY <1>1 DEF GovernorInv, Converging
<1>9. QuietBaselines /\ shown' # None => tree = shown'
  BY <1>4, <1>1, <1>5 DEF GovernorInv, ManagerInv, ExposedIsBest, Coupled
<1>10. ManagerInv'
  BY <1>1, <1>2, <1>3, <1>4, <1>5, <1>6, <1>7, <1>8, <1>9, ManagerRests DEF GovernorInv,
     ManagerInv, CandidateTypeOK, ManagerSame, RunSame
<1>11. GovernorTypeOK'
  BY <1>1, <1>2, <1>3, <1>4, <1>5, <1>6, <1>7, <1>8, <1>9, HaltNames DEF GovernorInv,
     GovernorTypeOK, Steps, ManagerSame, RunSame
<1>12. Coupled'
  BY <1>1, <1>2, <1>3, <1>4, <1>5, <1>6, <1>7, <1>8, <1>9 DEF GovernorInv, Coupled,
     Unstarted, ManagerSame, RunSame
<1>13. Directed'
  BY <1>1, <1>2, <1>3, <1>4, <1>5, <1>6, <1>7, <1>8, <1>9 DEF GovernorInv, Directed,
     Trying, Working, Stopping, CleanupDue, ManagerSame, RunSame
<1>14. Filed'
  BY <1>1, <1>2, <1>3, <1>4, <1>5, <1>6, <1>7, <1>8, <1>9 DEF GovernorInv, Filed, Working,
     ManagerSame, RunSame
<1>15. Launches'
  BY <1>1, <1>2, <1>3, <1>4, <1>5, <1>6, <1>7, <1>8, <1>9, Ranges DEF GovernorInv,
     Launches, Recorded, Starting, Working, Steps, ManagerSame, RunSame
<1>16. Chosen'
  BY <1>1, <1>2, <1>3, <1>4, <1>5, <1>6, <1>7, <1>8, <1>9 DEF GovernorInv, Chosen, Passes,
     ManagerSame, RunSame
<1>17. KeepsScore'
  BY <1>1, <1>2, <1>3, <1>4, <1>5, <1>6, <1>7, <1>8, <1>9 DEF GovernorInv, KeepsScore,
     ManagerSame, RunSame
<1>18. Tallied'
  <2>1. Begun' = Begun
    BY <1>1 DEF Begun, Starting
  <2>2. /\ Counted(st'.num, st'.iter + Begun')
        /\ saved' # None => Counted(saved'.num, saved'.iter + Begun')
    BY <1>1, <1>3, <1>7, <2>1 DEF GovernorInv, Tallied, Reviewing
  <2>3. Recorded' \in Int /\ Recorded \in Int /\ Recorded <= Recorded' /\ Begun \in Int
    BY <1>7, Ranges DEF Begun
  <2> QED
    BY <1>1, <2>1, <2>2, <2>3, Ranges
       DEF GovernorInv, Tallied, Counted, Reviewing, Starting, ManagerSame
<1>19. Graded'
  BY <1>1, <1>2, <1>3, <1>4, <1>5, <1>6, <1>7, <1>8, <1>9 DEF GovernorInv, Graded, Passes,
     Weaker, ManagerSame, RunSame
<1>20. Converging'
  <2>1. /\ halt' = Success => halt = Success /\ ok
        /\ ok => shown' = IF mem # None /\ mem.exposed THEN mem.best ELSE None
    BY <1>1 DEF Success
  <2>2. halt' = Success => shown' # None
    BY <1>5, <1>8, <2>1
  <2>3. shown' # None => shown' \in accepted
    BY <1>4, <1>5 DEF GovernorInv, Chosen
  <2>4. saved' # None /\ saved'.halt = Success =>
          /\ journal # None /\ journal.best # None
          /\ mem # None => mem.best # None
    BY <1>3, <1>5, <1>7, <1>8 DEF GovernorInv, Converging
  <2> QED
    BY <1>1, <2>2, <2>3, <2>4 DEF GovernorInv, Converging, Stopping, ManagerSame
<1>21. QuietBaselines => InPlace'
  BY <1>1, <1>2, <1>3, <1>4, <1>5, <1>6, <1>7, <1>8, <1>9 DEF GovernorInv, InPlace,
     ManagerSame, RunSame
<1> QED
  BY <1>10, <1>11, <1>12, <1>13, <1>14, <1>15, <1>16, <1>17, <1>18, <1>19, <1>20, <1>21
     DEF GovernorInv
\* What dies with a process is what the next one starts from.
LEMMA ForgetInv ==
  ASSUME GovernorInv, Leave(IF deadline = "passed" THEN "done" ELSE "live"),
         faults' \in 0..MaxFaults, Forget,
         UNCHANGED <<setting, saved, deadline, shown, starts, launched, accepted,
                     converged, edited>>,
         pc \in Steps \cup {"halted"}
  PROVE  GovernorInv'
<1>1. /\ pc' = "down" /\ st' = NewRun(setting.score) /\ origin' = "fresh" /\ halt' = "none"
      /\ cause' = "none" /\ verdict' = None /\ receiptBad' = FALSE
      /\ setting' = setting /\ saved' = saved /\ deadline' = deadline /\ shown' = shown
      /\ starts' = starts /\ launched' = launched /\ accepted' = accepted
      /\ converged' = converged /\ edited' = edited
  BY DEF Forget
<1>2. /\ ManagerInv' /\ mem' = None /\ op' = "idle" /\ ret' = "ok" /\ tree' = tree
      /\ journal' = journal
  <2>1. (IF deadline = "passed" THEN "done" ELSE "live") \in {"live", "done"}
    OBVIOUS
  <2> QED  BY <1>1, <2>1, ManagerLeft DEF GovernorInv
<1>3. /\ st' \in LoopState /\ st'.iter = 0 /\ st'.halt = "none" /\ Counted(st'.num, 0)
      /\ st'.num # None => st'.num.stale \in Nat
      /\ setting.score <=> st'.num # None
  <2>1. setting.score \in BOOLEAN
    BY GovernorAssumption DEF GovernorInv, GovernorTypeOK
  <2>2. /\ NewRun(setting.score) \in LoopState
        /\ NewRun(setting.score).iter = 0 /\ NewRun(setting.score).halt = "none"
        /\ setting.score <=> NewRun(setting.score).num # None
        /\ Counted(NewRun(setting.score).num, 0)
        /\ NewRun(setting.score).num # None => NewRun(setting.score).num.stale \in Nat
    BY <2>1, NewRunFields
  <2> QED  BY <1>1, <2>2
<1>4. ManagerInv'
  BY <1>2
<1>5. GovernorTypeOK'
  BY <1>1, <1>2, <1>3, HaltNames DEF GovernorInv, GovernorTypeOK, Steps, ManagerSame,
     RunSame
<1>6. Coupled'
  BY <1>1, <1>2, <1>3 DEF GovernorInv, Coupled, Unstarted, ManagerSame, RunSame
<1>7. Directed'
  BY <1>1, <1>2, <1>3 DEF GovernorInv, Directed, Trying, Working, Stopping, CleanupDue,
     ManagerSame, RunSame
<1>8. Filed'
  BY <1>1, <1>2, <1>3 DEF GovernorInv, Filed, Working, ManagerSame, RunSame
<1>9. Launches'
  BY <1>1, <1>2, <1>3, Ranges DEF GovernorInv, Launches, Recorded, Starting, Working,
     Steps, ManagerSame, RunSame
<1>10. Chosen'
  BY <1>1, <1>2, <1>3 DEF GovernorInv, Chosen, Passes, ManagerSame, RunSame
<1>11. KeepsScore'
  BY <1>1, <1>2, <1>3 DEF GovernorInv, KeepsScore, ManagerSame, RunSame
<1>12. Tallied'
  <2>1. /\ Begun \in {starts - 1, starts} /\ Begun' = starts /\ Recorded' = Recorded
        /\ pc' \notin Starting /\ pc' \notin Reviewing
    BY <1>1 DEF Begun, Recorded, Starting, Reviewing
  <2>2. Counted(st'.num, st'.iter + Begun')
    BY <1>3, <2>1, Ranges DEF Counted
  <2>3. saved' # None => Counted(saved'.num, saved'.iter + Begun')
    BY <1>1, <2>1, Ranges DEF GovernorInv, Tallied, Counted
  <2>4. journal' # None /\ journal'.proof # None =>
          Counted(journal'.proof.num, Recorded' + Begun')
    BY <1>2, <2>1, Ranges DEF GovernorInv, Tallied, Counted
  <2> QED  BY <1>2, <2>1, <2>2, <2>3, <2>4 DEF Tallied
<1>13. Graded'
  BY <1>1, <1>2, <1>3 DEF GovernorInv, Graded, Passes, Weaker, ManagerSame, RunSame
<1>14. Converging'
  BY <1>1, <1>2, <1>3 DEF GovernorInv, Converging, Stopping, Passes, Success, ManagerSame,
     RunSame
<1>15. QuietBaselines => InPlace'
  BY <1>1, <1>2, <1>3 DEF GovernorInv, InPlace, ManagerSame, RunSame
<1> QED
  BY <1>4, <1>5, <1>6, <1>7, <1>8, <1>9, <1>10, <1>11, <1>12, <1>13, <1>14, <1>15 DEF
     GovernorInv

\* The process has answered and is gone.
LEMMA ExitInv ==
  ASSUME GovernorInv, Exit
  PROVE  GovernorInv'
<1>1. faults' \in 0..MaxFaults
  BY CandidateAssumption DEF Exit, Fault, NoFault, GovernorInv, ManagerInv, CandidateTypeOK
<1> QED  BY <1>1, ForgetInv DEF Exit

\* A process is killed at any step.
LEMMA KillInv ==
  ASSUME GovernorInv, Kill
  PROVE  GovernorInv'
<1>1. faults' \in 0..MaxFaults
  BY CandidateAssumption DEF Kill, Fault, NoFault, GovernorInv, ManagerInv, CandidateTypeOK
<1> QED  BY <1>1, ForgetInv DEF Kill

\* The deadline ends the context of the process.
LEMMA DeadlinePassesInv ==
  ASSUME GovernorInv, DeadlinePasses
  PROVE  GovernorInv'
<1>1. /\ deadline' = "passed" /\ ctx' \in {"live", "done", "cleanup"} /\ faults' = faults
      /\ ManagerSame
      /\ setting' = setting /\ pc' = pc /\ st' = st /\ saved' = saved /\ origin' = origin
      /\ halt' = halt /\ cause' = cause /\ verdict' = verdict /\ receiptBad' = receiptBad
      /\ shown' = shown /\ starts' = starts /\ launched' = launched /\ accepted' = accepted
      /\ converged' = converged /\ edited' = edited
  BY DEF DeadlinePasses, SetContext, ManagerSame
<1>2. ManagerInv'
  BY <1>1, ManagerRests DEF GovernorInv, ManagerInv, CandidateTypeOK, ManagerSame, RunSame
<1>3. GovernorTypeOK'
  BY <1>1, HaltNames DEF GovernorInv, GovernorTypeOK, Steps, ManagerSame, RunSame
<1>4. Coupled'
  BY <1>1 DEF GovernorInv, Coupled, Unstarted, ManagerSame, RunSame
<1>5. Directed'
  BY <1>1 DEF GovernorInv, Directed, Trying, Working, Stopping, CleanupDue, ManagerSame,
     RunSame
<1>6. Filed'
  BY <1>1 DEF GovernorInv, Filed, Working, ManagerSame, RunSame
<1>7. Launches'
  BY <1>1, Ranges DEF GovernorInv, Launches, Recorded, Starting, Working, Steps,
     ManagerSame, RunSame
<1>8. Chosen'
  BY <1>1 DEF GovernorInv, Chosen, Passes, ManagerSame, RunSame
<1>9. KeepsScore'
  BY <1>1 DEF GovernorInv, KeepsScore, ManagerSame, RunSame
<1>10. Tallied'
  BY <1>1, Ranges DEF GovernorInv, Tallied, Begun, Starting, Reviewing, Counted, Recorded,
     ManagerSame, RunSame
<1>11. Graded'
  BY <1>1 DEF GovernorInv, Graded, Passes, Weaker, ManagerSame, RunSame
<1>12. Converging'
  BY <1>1 DEF GovernorInv, Converging, Stopping, Passes, Success, ManagerSame, RunSame
<1>13. QuietBaselines => InPlace'
  BY <1>1 DEF GovernorInv, InPlace, ManagerSame, RunSame
<1> QED
  BY <1>2, <1>3, <1>4, <1>5, <1>6, <1>7, <1>8, <1>9, <1>10, <1>11, <1>12, <1>13 DEF
     GovernorInv

\* A signal ends the context of the process.
LEMMA SignalInv ==
  ASSUME GovernorInv, Signal
  PROVE  GovernorInv'
<1>1. /\ ctx' = "done" /\ faults' = faults /\ ManagerSame
      /\ pc' = pc /\ st' = st /\ saved' = saved
      /\ halt' = halt /\ cause' = cause /\ verdict' = verdict
      /\ launched' = launched /\ accepted' = accepted /\ edited' = edited /\ RunSame
  BY DEF Signal, SetContext, gvars, ManagerSame, RunSame
<1>2. ManagerInv'
  BY <1>1, ManagerRests DEF GovernorInv, ManagerInv, CandidateTypeOK, ManagerSame, RunSame
<1>3. GovernorTypeOK'
  BY <1>1, HaltNames DEF GovernorInv, GovernorTypeOK, Steps, ManagerSame, RunSame
<1>4. Coupled'
  BY <1>1 DEF GovernorInv, Coupled, Unstarted, ManagerSame, RunSame
<1>5. Directed'
  BY <1>1 DEF GovernorInv, Directed, Trying, Working, Stopping, CleanupDue, ManagerSame,
     RunSame
<1>6. Filed'
  BY <1>1 DEF GovernorInv, Filed, Working, ManagerSame, RunSame
<1>7. Launches'
  BY <1>1, Ranges DEF GovernorInv, Launches, Recorded, Starting, Working, Steps,
     ManagerSame, RunSame
<1>8. Chosen'
  BY <1>1 DEF GovernorInv, Chosen, Passes, ManagerSame, RunSame
<1>9. KeepsScore'
  BY <1>1 DEF GovernorInv, KeepsScore, ManagerSame, RunSame
<1>10. Tallied'
  BY <1>1, Ranges DEF GovernorInv, Tallied, Begun, Starting, Reviewing, Counted, Recorded,
     ManagerSame, RunSame
<1>11. Graded'
  BY <1>1 DEF GovernorInv, Graded, Passes, Weaker, ManagerSame, RunSame
<1>12. Converging'
  BY <1>1 DEF GovernorInv, Converging, Stopping, Passes, Success, ManagerSame, RunSame
<1>13. QuietBaselines => InPlace'
  BY <1>1 DEF GovernorInv, InPlace, ManagerSame, RunSame
<1> QED
  BY <1>2, <1>3, <1>4, <1>5, <1>6, <1>7, <1>8, <1>9, <1>10, <1>11, <1>12, <1>13 DEF
     GovernorInv

\* A receipt event is lost; the next save fails.
LEMMA ReceiptFailsInv ==
  ASSUME GovernorInv, ReceiptFails
  PROVE  GovernorInv'
<1>1. /\ receiptBad' = TRUE /\ ctx' = ctx /\ faults' \in 0..MaxFaults /\ ManagerSame
      /\ pc' = pc /\ st' = st /\ saved' = saved
      /\ halt' = halt /\ cause' = cause /\ verdict' = verdict
      /\ launched' = launched /\ accepted' = accepted /\ edited' = edited
      /\ setting' = setting /\ starts' = starts /\ origin' = origin /\ deadline' = deadline
      /\ converged' = converged /\ shown' = shown
  BY CandidateAssumption
     DEF ReceiptFails, Fault, Manager, ManagerSame, GovernorInv, ManagerInv, CandidateTypeOK
<1>2. ManagerInv'
  BY <1>1, ManagerRests DEF GovernorInv, ManagerInv, CandidateTypeOK, ManagerSame, RunSame
<1>3. GovernorTypeOK'
  BY <1>1, HaltNames DEF GovernorInv, GovernorTypeOK, Steps, ManagerSame, RunSame
<1>4. Coupled'
  BY <1>1 DEF GovernorInv, Coupled, Unstarted, ManagerSame, RunSame
<1>5. Directed'
  BY <1>1 DEF GovernorInv, Directed, Trying, Working, Stopping, CleanupDue, ManagerSame,
     RunSame
<1>6. Filed'
  BY <1>1 DEF GovernorInv, Filed, Working, ManagerSame, RunSame
<1>7. Launches'
  BY <1>1, Ranges DEF GovernorInv, Launches, Recorded, Starting, Working, Steps,
     ManagerSame, RunSame
<1>8. Chosen'
  BY <1>1 DEF GovernorInv, Chosen, Passes, ManagerSame, RunSame
<1>9. KeepsScore'
  BY <1>1 DEF GovernorInv, KeepsScore, ManagerSame, RunSame
<1>10. Tallied'
  BY <1>1, Ranges DEF GovernorInv, Tallied, Begun, Starting, Reviewing, Counted, Recorded,
     ManagerSame, RunSame
<1>11. Graded'
  BY <1>1 DEF GovernorInv, Graded, Passes, Weaker, ManagerSame, RunSame
<1>12. Converging'
  BY <1>1 DEF GovernorInv, Converging, Stopping, Passes, Success, ManagerSame, RunSame
<1>13. QuietBaselines => InPlace'
  BY <1>1 DEF GovernorInv, InPlace, ManagerSame, RunSame
<1> QED
  BY <1>2, <1>3, <1>4, <1>5, <1>6, <1>7, <1>8, <1>9, <1>10, <1>11, <1>12, <1>13 DEF
     GovernorInv

\* Between two processes somebody edits the directory.
LEMMA TamperInv ==
  ASSUME GovernorInv, Tamper
  PROVE  GovernorInv'
<1>1. /\ pc = "down" /\ tree' \in Contents /\ edited' = TRUE
      /\ store' = store /\ journal' = journal /\ mem' = mem /\ op' = op /\ ret' = ret
      /\ ctx' = ctx /\ faults' = faults
      /\ pc' = pc /\ st' = st /\ saved' = saved
      /\ halt' = halt /\ cause' = cause /\ verdict' = verdict
      /\ launched' = launched /\ accepted' = accepted /\ RunSame
  BY DEF Tamper, Rewrite, RunSame
<1>2. mem = None
  BY <1>1 DEF GovernorInv, Coupled, Unstarted
<1>3. ManagerInv'
  BY <1>1, <1>2, ManagerRewritten DEF GovernorInv
<1>4. GovernorTypeOK'
  BY <1>1, <1>2, HaltNames DEF GovernorInv, GovernorTypeOK, Steps, ManagerSame, RunSame
<1>5. Coupled'
  BY <1>1, <1>2 DEF GovernorInv, Coupled, Unstarted, ManagerSame, RunSame
<1>6. Directed'
  BY <1>1, <1>2 DEF GovernorInv, Directed, Trying, Working, Stopping, CleanupDue,
     ManagerSame, RunSame
<1>7. Filed'
  BY <1>1, <1>2 DEF GovernorInv, Filed, Working, ManagerSame, RunSame
<1>8. Launches'
  BY <1>1, <1>2, Ranges DEF GovernorInv, Launches, Recorded, Starting, Working, Steps,
     ManagerSame, RunSame
<1>9. Chosen'
  BY <1>1, <1>2 DEF GovernorInv, Chosen, Passes, ManagerSame, RunSame
<1>10. KeepsScore'
  BY <1>1, <1>2 DEF GovernorInv, KeepsScore, ManagerSame, RunSame
<1>11. Tallied'
  BY <1>1, <1>2, Ranges DEF GovernorInv, Tallied, Begun, Starting, Reviewing, Counted,
     Recorded, ManagerSame, RunSame
<1>12. Graded'
  BY <1>1, <1>2 DEF GovernorInv, Graded, Passes, Weaker, ManagerSame, RunSame
<1>13. Converging'
  BY <1>1, <1>2 DEF GovernorInv, Converging, Stopping, Passes, Success, ManagerSame,
     RunSame
<1>14. QuietBaselines => InPlace'
  BY <1>1, <1>2 DEF GovernorInv, InPlace, ManagerSame, RunSame
<1> QED
  BY <1>3, <1>4, <1>5, <1>6, <1>7, <1>8, <1>9, <1>10, <1>11, <1>12, <1>13, <1>14 DEF
     GovernorInv
------------------------------------------------------------------------------
(* The steps that call the manager.                                         *)

\* A directory that need not be restored shows the best, if there is one.
LEMMA SettledShows ==
  ASSUME GovernorInv, mem # None, ~NeedsRestore, mem.best # None
  PROVE  mem.exposed
<1>1. mem.status \in Settled \cup Interrupted
  BY Fields DEF GovernorInv, ManagerInv, CandidateTypeOK
<1> QED  BY <1>1 DEF GovernorInv, ManagerInv, Coherent, NeedsRestore, Settled

\* Without a state file nothing was promoted yet.
LEMMA FreshHidesNothing ==
  ASSUME GovernorInv, mem # None, saved = None
  PROVE  mem.best = None /\ ~mem.exposed
BY DEF GovernorInv, ManagerInv, Pointers, Held, Coherent, Filed

\* The manager is opened, or the process halts.
LEMMA OpenCandidateInv ==
  ASSUME GovernorInv, OpenCandidate
  PROVE  GovernorInv'
<1>1. /\ pc = "open" /\ Open
      /\ ret' = "ok" => pc' = "recover" /\ halt' = halt /\ cause' = cause
      /\ ret' # "ok" => pc' = "persist0" /\ halt' = "failed" /\ cause' = "other"
      /\ st' = st /\ saved' = saved /\ verdict' = verdict /\ launched' = launched
      /\ accepted' = accepted /\ edited' = edited /\ RunSame
  BY DEF OpenCandidate, Continue, Fail, GoTo, Quiet, Attempt, RunSame
<1>2. mem = None /\ op = "idle"
  BY <1>1 DEF GovernorInv, Coupled, Unstarted
<1>3. /\ ManagerInv'
      /\ ret' = "ok" => mem' # None /\ mem' = journal' /\ op' = "opened"
      /\ ret' # "ok" => mem' = None /\ op' = "idle" /\ ret' = "err"
      /\ journal # None => journal' = journal
      /\ journal = None /\ journal' # None => journal'.best = None /\ journal'.proof = None
      /\ tree' = tree
  BY <1>1, <1>2, ManagerOpens DEF GovernorInv
<1>4. ManagerInv'
  BY <1>3
<1>5. GovernorTypeOK'
  BY <1>1, <1>2, <1>3, HaltNames DEF GovernorInv, GovernorTypeOK, Steps, ManagerSame,
     RunSame
<1>6. Coupled'
  BY <1>1, <1>2, <1>3 DEF GovernorInv, Coupled, Unstarted, ManagerSame, RunSame
<1>7. Directed'
  BY <1>1, <1>2, <1>3
     DEF GovernorInv, Coupled, Directed, Unstarted, Trying, Working, Stopping, RunSame
<1>8. Filed'
  BY <1>1, <1>2, <1>3 DEF GovernorInv, Filed, Working, ManagerSame, RunSame
<1>9. Launches'
  BY <1>1, <1>2, <1>3, Ranges DEF GovernorInv, Launches, Recorded, Starting, Working,
     Steps, ManagerSame, RunSame
<1>10. Chosen'
  BY <1>1, <1>2, <1>3 DEF GovernorInv, Chosen, Passes, ManagerSame, RunSame
<1>11. KeepsScore'
  BY <1>1, <1>2, <1>3 DEF GovernorInv, KeepsScore, ManagerSame, RunSame
<1>12. Tallied'
  BY <1>1, <1>2, <1>3, Ranges DEF GovernorInv, Tallied, Begun, Starting, Reviewing,
     Counted, Recorded, ManagerSame, RunSame
<1>13. Graded'
  BY <1>1, <1>2, <1>3 DEF GovernorInv, Graded, Passes, Weaker, ManagerSame, RunSame
<1>14. Converging'
  BY <1>1, <1>2, <1>3 DEF GovernorInv, Converging, Stopping, Passes, Success, ManagerSame,
     RunSame
<1>15. QuietBaselines => InPlace'
  BY <1>1, <1>2, <1>3 DEF GovernorInv, InPlace, ManagerSame, RunSame
<1> QED
  BY <1>4, <1>5, <1>6, <1>7, <1>8, <1>9, <1>10, <1>11, <1>12, <1>13, <1>14, <1>15 DEF
     GovernorInv

\* A resumed run keeps the directory or restores it; a fresh one does not look.
LEMMA RecoverInv ==
  ASSUME GovernorInv, Recover
  PROVE  GovernorInv'
<1>1. /\ pc = "recover" /\ halt = "none"
      /\ saved' = saved /\ verdict' = verdict /\ launched' = launched
      /\ accepted' = accepted /\ edited' = edited /\ RunSame
  BY DEF Recover, Quiet, Attempt, RunSame, GovernorInv, Directed, Trying
<1>2. mem # None /\ ret = "ok" /\ op # "promoting"
  BY <1>1, HasManager DEF Unstarted, GovernorInv, Coupled
<1>3. /\ ManagerInv' /\ SamePointers /\ ret' \in {"ok", "err"} /\ op' # "opened"
      /\ op' # "promoting" /\ st' \in LoopState /\ st'.iter = st.iter /\ st'.halt = st.halt
      /\ setting.score <=> st'.num # None
      /\ \/ st'.num = st.num
         \/ mem.proof # None /\ st'.num = mem.proof.num
      /\ \/ /\ pc' = "persist0" /\ halt' = "none" /\ cause' = cause /\ op' = "idle"
            /\ ret' = "ok"
            /\ origin = "converged" => mem'.exposed
         \/ /\ pc' = "persist0" /\ halt' = "failed" /\ cause' = "restoration_failed"
            /\ op' = "idle"
         \/ /\ pc' \in {"recover", "recheck"} /\ halt' = "none" /\ cause' = cause
            /\ ret' = "ok" /\ (pc' = "recover" => op' # "idle" /\ origin # "fresh")
  <2>0. /\ st \in LoopState /\ (setting.score <=> st.num # None)
    BY DEF GovernorInv, GovernorTypeOK, KeepsScore
  <2>1. CASE origin = "fresh" /\ op' = "idle"
             /\ Continue("persist0")
             /\ UNCHANGED <<tree, store, journal, mem, ret, ctx, faults, st>>
    <3>1. saved = None /\ op = "opened"
      BY <1>1, <2>1 DEF GovernorInv, Filed, Coupled
    <3>2. ~mem.exposed
      BY <1>2, <3>1, FreshHidesNothing
    <3>3. ManagerInv'
      BY <1>1, <1>2, <2>1, <3>1, <3>2, ManagerKeeps DEF GovernorInv
    <3> QED  BY <1>1, <1>2, <2>0, <2>1, <3>3 DEF SamePointers, Continue, GoTo
  <2>2. CASE origin # "fresh" /\ KeepTree /\ Continue("persist0")
             /\ st' = Recovered(mem, st)
    <3>1. op = "opened" /\ ~NeedsRestore /\ op' = "idle"
          /\ UNCHANGED <<tree, store, journal, mem, ret, ctx, faults>>
      BY <2>2 DEF KeepTree
    <3>2. ManagerInv'
      BY <1>1, <1>2, <3>1, ManagerKeeps DEF GovernorInv
    <3>3. origin = "converged" => mem.exposed
      BY <1>1, <1>2, <3>1, SettledShows DEF GovernorInv, Converging
    <3>4. /\ st' \in LoopState /\ st'.iter = st.iter /\ st'.halt = st.halt
          /\ setting.score <=> st'.num # None
          /\ \/ st'.num = st.num
             \/ mem.proof # None /\ st'.num = mem.proof.num
      <4>1. CASE /\ setting.score /\ mem.proof # None
                 /\ st' = [st EXCEPT !.num = mem.proof.num]
        <5>1. mem.proof \in Proofs /\ mem.proof.num # None
          BY <1>2, <4>1 DEF GovernorInv, ManagerInv, Coherent, Graded
        <5>2. mem.proof.num \in NumericState
          BY <5>1, GovernorAssumption DEF Proofs, RunNumeric, NumericState
        <5> QED  BY <2>0, <4>1, <5>1, <5>2 DEF LoopState
      <4>2. CASE st' = st
        BY <2>0, <4>2
      <4> QED  BY <2>2, <4>1, <4>2 DEF Recovered
    <3> QED  BY <1>1, <1>2, <2>2, <3>1, <3>2, <3>3, <3>4 DEF SamePointers, Continue, GoTo
  <2>3. CASE /\ origin # "fresh" /\ RestoreStep /\ UNCHANGED st
             /\ IF op' # "idle"
                THEN Continue(IF op = "opened" /\ mem.status \in Settled
                              THEN "recheck" ELSE "recover")
                ELSE IF ret' = "ok" THEN Continue("recheck")
                ELSE Fail("restoration_failed", "persist0")
    <3>1. /\ ManagerInv' /\ SamePointers
          /\ op' \in {"idle", "restoring", "verifying"} /\ (op' # "idle" => ret' = "ok")
          /\ ret' \in {"ok", "err"}
      BY <1>1, <1>2, <2>3, ManagerRestores DEF GovernorInv
    <3> QED  BY <1>1, <1>2, <2>0, <2>3, <3>1 DEF Continue, Fail, GoTo
  <2> QED  BY <1>1, <2>1, <2>2, <2>3 DEF Recover
<1>4. ManagerInv'
  BY <1>3
<1>5. GovernorTypeOK'
  BY <1>1, <1>2, <1>3, HaltNames DEF GovernorInv, GovernorTypeOK, Steps, ManagerSame,
     RunSame, SamePointers
<1>6. Coupled'
  BY <1>1, <1>2, <1>3 DEF GovernorInv, Coupled, Unstarted, ManagerSame, RunSame,
     SamePointers
<1>7. Directed'
  BY <1>1, <1>2, <1>3 DEF GovernorInv, Directed, Trying, Working, Stopping, CleanupDue,
     ManagerSame, RunSame, SamePointers
<1>8. Filed'
  <2>1. saved = None => mem.best = None /\ (journal # None => journal.best = None)
    BY <1>2, FreshHidesNothing DEF GovernorInv, Filed
  <2> QED  BY <1>1, <1>3, <2>1 DEF GovernorInv, Filed, Working, RunSame, SamePointers
<1>9. Launches'
  BY <1>1, <1>2, <1>3, Ranges DEF GovernorInv, Launches, Recorded, Starting, Working,
     Steps, ManagerSame, RunSame, SamePointers
<1>10. Chosen'
  BY <1>1, <1>2, <1>3 DEF GovernorInv, Chosen, Passes, ManagerSame, RunSame, SamePointers
<1>11. KeepsScore'
  BY <1>1, <1>2, <1>3 DEF GovernorInv, KeepsScore, ManagerSame, RunSame, SamePointers
<1>12. Tallied'
  <2>1. /\ Recorded' = Recorded /\ st'.iter = Recorded /\ pc \in Starting /\ pc \notin Reviewing
        /\ Begun = starts - 1 /\ pc' \notin Reviewing
        /\ Begun' \in {starts - 1, starts} /\ starts' = starts
    BY <1>1, <1>3 DEF GovernorInv, Launches, Recorded, Begun, Starting, Reviewing, RunSame
  <2>2. Counted(st'.num, st'.iter + Begun)
    BY <1>2, <1>3, <2>1 DEF GovernorInv, Tallied
  <2>3. st'.num # None => st'.num.stale \in Nat
    BY <1>2, <1>3, Ranges
  <2>4. /\ Counted(st'.num, st'.iter + Begun')
        /\ saved # None => Counted(saved.num, saved.iter + Begun')
        /\ mem.proof # None => Counted(mem.proof.num, Recorded + Begun')
        /\ journal # None /\ journal.proof # None => Counted(journal.proof.num, Recorded + Begun')
    BY <1>2, <1>3, <2>1, <2>2, <2>3, Ranges DEF GovernorInv, Tallied, Counted
  <2>5. starts >= 1
    BY <2>1 DEF GovernorInv, Tallied
  <2> QED
    BY <1>1, <1>2, <1>3, <2>1, <2>4, <2>5 DEF Tallied, SamePointers
<1>13. Graded'
  BY <1>1, <1>2, <1>3 DEF GovernorInv, Graded, Passes, Weaker, ManagerSame, RunSame,
     SamePointers
<1>14. Converging'
  BY <1>1, <1>2, <1>3 DEF GovernorInv, Converging, Stopping, Passes, Success, ManagerSame,
     RunSame, SamePointers
<1>15. QuietBaselines => InPlace'
  BY <1>1, <1>2, <1>3 DEF GovernorInv, InPlace, ManagerSame, RunSame, SamePointers
<1> QED
  BY <1>4, <1>5, <1>6, <1>7, <1>8, <1>9, <1>10, <1>11, <1>12, <1>13, <1>14, <1>15 DEF
     GovernorInv
\* A restored or kept directory that cannot be compared is restored again.
LEMMA RecheckInv ==
  ASSUME GovernorInv, Recheck
  PROVE  GovernorInv'
<1>1. /\ pc = "recheck" /\ halt = "none"
      /\ st' = st /\ saved' = saved /\ verdict' = verdict /\ launched' = launched
      /\ accepted' = accepted /\ edited' = edited /\ RunSame
  BY DEF Recheck, Quiet, Attempt, RunSame, GovernorInv, Directed, Trying
<1>2. mem # None /\ ret = "ok" /\ op # "promoting" /\ op # "opened"
  BY <1>1, HasManager DEF Unstarted, GovernorInv, Coupled
<1>3. /\ ManagerInv' /\ SamePointers /\ ret' \in {"ok", "err"}
      /\ \/ /\ pc' = "persist0" /\ halt' = "none" /\ cause' = cause /\ op' = "idle"
            /\ ret' = "ok"
            /\ mem.best # None => mem'.exposed
         \/ /\ pc' = "persist0" /\ halt' = "failed" /\ cause' = "restoration_failed"
            /\ op' = "idle"
         \/ /\ pc' = "recheck" /\ halt' = "none" /\ cause' = cause
            /\ ret' = "ok" /\ op' \in {"restoring", "verifying"}
  <2>1. CASE op = "idle" /\ ~NeedsRestore /\ Continue("persist0") /\ UNCHANGED cvars
    <3>1. ManagerInv'
      BY <1>1, <2>1, ManagerRests
         DEF cvars, GovernorInv, ManagerInv, CandidateTypeOK
    <3>2. mem.best # None => mem.exposed
      BY <1>2, <2>1, SettledShows
    <3> QED  BY <1>1, <1>2, <2>1, <3>1, <3>2 DEF cvars, SamePointers, Continue, GoTo
  <2>2. CASE RestoreStep
    <3>1. /\ ManagerInv' /\ SamePointers
          /\ op' \in {"idle", "restoring", "verifying"} /\ (op' # "idle" => ret' = "ok")
          /\ ret' \in {"ok", "err"}
          /\ op' = "idle" /\ ret' = "ok" => (mem'.exposed <=> mem.best # None)
      BY <1>1, <1>2, <2>2, ManagerRestores DEF GovernorInv
    <3>2. ~(op = "idle" /\ ~NeedsRestore /\ Continue("persist0") /\ UNCHANGED cvars) =>
            IF op' # "idle" THEN Continue("recheck")
            ELSE IF ret' = "ok" THEN Continue("persist0")
            ELSE Fail("restoration_failed", "persist0")
      BY DEF Recheck
    <3> QED  BY <1>1, <2>1, <3>1, <3>2 DEF Continue, Fail, GoTo
  <2> QED  BY <2>1, <2>2 DEF Recheck
<1>4. ManagerInv'
  BY <1>3
<1>5. GovernorTypeOK'
  BY <1>1, <1>2, <1>3, HaltNames DEF GovernorInv, GovernorTypeOK, Steps, ManagerSame,
     RunSame, SamePointers
<1>6. Coupled'
  BY <1>1, <1>2, <1>3 DEF GovernorInv, Coupled, Unstarted, ManagerSame, RunSame,
     SamePointers
<1>7. Directed'
  BY <1>1, <1>2, <1>3 DEF GovernorInv, Directed, Trying, Working, Stopping, CleanupDue,
     ManagerSame, RunSame, SamePointers
<1>8. Filed'
  <2>1. saved = None => mem.best = None /\ (journal # None => journal.best = None)
    BY <1>2, FreshHidesNothing DEF GovernorInv, Filed
  <2> QED  BY <1>1, <1>3, <2>1 DEF GovernorInv, Filed, Working, RunSame, SamePointers
<1>9. Launches'
  BY <1>1, <1>2, <1>3, Ranges DEF GovernorInv, Launches, Recorded, Starting, Working,
     Steps, ManagerSame, RunSame, SamePointers
<1>10. Chosen'
  BY <1>1, <1>2, <1>3 DEF GovernorInv, Chosen, Passes, ManagerSame, RunSame, SamePointers
<1>11. KeepsScore'
  BY <1>1, <1>2, <1>3 DEF GovernorInv, KeepsScore, ManagerSame, RunSame, SamePointers
<1>12. Tallied'
  BY <1>1, <1>2, <1>3, Ranges DEF GovernorInv, Tallied, Begun, Starting, Reviewing,
     Counted, Recorded, ManagerSame, RunSame, SamePointers
<1>13. Graded'
  BY <1>1, <1>2, <1>3 DEF GovernorInv, Graded, Passes, Weaker, ManagerSame, RunSame,
     SamePointers
<1>14. Converging'
  BY <1>1, <1>2, <1>3 DEF GovernorInv, Converging, Stopping, Passes, Success, ManagerSame,
     RunSame, SamePointers
<1>15. QuietBaselines => InPlace'
  BY <1>1, <1>2, <1>3 DEF GovernorInv, InPlace, ManagerSame, RunSame, SamePointers
<1> QED
  BY <1>4, <1>5, <1>6, <1>7, <1>8, <1>9, <1>10, <1>11, <1>12, <1>13, <1>14, <1>15 DEF
     GovernorInv

\* The baseline is captured when there is no best yet.
LEMMA BaselineCaptureInv ==
  ASSUME GovernorInv, BaselineCapture
  PROVE  GovernorInv'
<1>1. /\ pc = "baseline" /\ BaselineDue /\ Attempted
      /\ ret' = "ok" => pc' = "judge" /\ halt' = halt /\ cause' = cause
      /\ ret' # "ok" => pc' = "settle" /\ halt' = "failed" /\ cause' = "other"
      /\ st' = st /\ saved' = saved /\ verdict' = verdict /\ launched' = launched
      /\ accepted' = accepted /\ edited' = edited /\ RunSame
  BY DEF BaselineCapture, Continue, Fail, GoTo, Quiet, Attempt, RunSame
<1>2. /\ halt = "none" /\ mem # None /\ mem.best = None /\ setting.baseline /\ ~mem.exposed
      /\ op = "idle" /\ ret = "ok" /\ tree # None
  <2>1. halt = "none" /\ mem # None /\ mem.best = None /\ setting.baseline
    BY <1>1 DEF BaselineDue
  <2> QED
    BY <1>1, <2>1, HasManager, CandidateAssumption
       DEF Unstarted, GovernorInv, Coupled, ManagerInv, Coherent, CandidateTypeOK
<1>3. /\ ManagerInv' /\ SamePointers /\ tree' = tree /\ op' = "idle"
      /\ ret' \in {"ok", "err"}
      /\ ret' = "ok" => mem'.status = "evaluating" /\ mem'.attempted = tree
  BY <1>1, <1>2, ManagerAttempts DEF GovernorInv
<1>4. ManagerInv'
  BY <1>3
<1>5. GovernorTypeOK'
  BY <1>1, <1>2, <1>3, HaltNames DEF GovernorInv, GovernorTypeOK, Steps, ManagerSame,
     RunSame, SamePointers
<1>6. Coupled'
  BY <1>1, <1>2, <1>3 DEF GovernorInv, Coupled, Unstarted, ManagerSame, RunSame,
     SamePointers
<1>7. Directed'
  BY <1>1, <1>2, <1>3 DEF GovernorInv, Directed, Trying, Working, Stopping, CleanupDue,
     ManagerSame, RunSame, SamePointers
<1>8. Filed'
  BY <1>1, <1>2, <1>3 DEF GovernorInv, Filed, Working, ManagerSame, RunSame, SamePointers
<1>9. Launches'
  BY <1>1, <1>2, <1>3, Ranges DEF GovernorInv, Launches, Recorded, Starting, Working,
     Steps, ManagerSame, RunSame, SamePointers
<1>10. Chosen'
  BY <1>1, <1>2, <1>3 DEF GovernorInv, Chosen, Passes, ManagerSame, RunSame, SamePointers
<1>11. KeepsScore'
  BY <1>1, <1>2, <1>3 DEF GovernorInv, KeepsScore, ManagerSame, RunSame, SamePointers
<1>12. Tallied'
  BY <1>1, <1>2, <1>3, Ranges DEF GovernorInv, Tallied, Begun, Starting, Reviewing,
     Counted, Recorded, ManagerSame, RunSame, SamePointers
<1>13. Graded'
  BY <1>1, <1>2, <1>3 DEF GovernorInv, Graded, Passes, Weaker, ManagerSame, RunSame,
     SamePointers
<1>14. Converging'
  BY <1>1, <1>2, <1>3 DEF GovernorInv, Converging, Stopping, Passes, Success, ManagerSame,
     RunSame, SamePointers
<1>15. QuietBaselines => InPlace'
  BY <1>1, <1>2, <1>3 DEF GovernorInv, InPlace, ManagerSame, RunSame, SamePointers
<1> QED
  BY <1>4, <1>5, <1>6, <1>7, <1>8, <1>9, <1>10, <1>11, <1>12, <1>13, <1>14, <1>15 DEF
     GovernorInv

\* An attempt hides the best; the journal says so before the work.
LEMMA BeginAttemptInv ==
  ASSUME GovernorInv, BeginAttempt
  PROVE  GovernorInv'
<1>1. /\ pc = "begin" /\ halt = "none"
      /\ edited' = (edited /\ journal' = journal)
      /\ st' = st /\ saved' = saved /\ verdict' = verdict /\ launched' = launched
      /\ accepted' = accepted /\ RunSame
  BY DEF BeginAttempt, Quiet, RunSame, GovernorInv, Directed, Trying
<1>2. /\ mem # None /\ ret = "ok" /\ op = "idle" /\ edited' \in BOOLEAN
      /\ edited' = edited \/ journal' # journal
  BY <1>1, HasManager DEF Unstarted, GovernorInv, Coupled, GovernorTypeOK, ManagerInv, CandidateTypeOK
<1>3. /\ ManagerInv' /\ SamePointers /\ tree' = tree /\ op' = "idle" /\ ret' \in {"ok", "err"}
      /\ \/ pc' = "persist" /\ halt' = halt /\ cause' = cause /\ ret' = "ok"
            /\ mem'.status = "attempting"
         \/ pc' = "final" /\ halt' = "failed" /\ cause' = "other"
  <2>1. CASE Fail("other", "final") /\ UNCHANGED cvars
    <3>1. ManagerInv'
      BY <1>1, <1>2, <2>1, ManagerRests
         DEF cvars, GovernorInv, ManagerInv, CandidateTypeOK
    <3> QED  BY <1>2, <2>1, <3>1 DEF cvars, SamePointers, Fail, GoTo
  <2>2. CASE Begin /\ IF ret' = "ok" THEN Continue("persist") ELSE Fail("other", "final")
    <3>1. /\ ManagerInv' /\ SamePointers /\ tree' = tree /\ op' = op
          /\ mem'.status = "attempting" /\ ret' \in {"ok", "err"}
      BY <1>2, <2>2, ManagerBegins DEF GovernorInv
    <3> QED  BY <1>2, <2>2, <3>1 DEF Continue, Fail, GoTo
  <2> QED  BY <2>1, <2>2 DEF BeginAttempt
<1>4. ManagerInv'
  BY <1>3
<1>5. GovernorTypeOK'
  BY <1>1, <1>2, <1>3, HaltNames DEF GovernorInv, GovernorTypeOK, Steps, ManagerSame,
     RunSame, SamePointers
<1>6. Coupled'
  BY <1>1, <1>2, <1>3 DEF GovernorInv, Coupled, Unstarted, ManagerSame, RunSame,
     SamePointers
<1>7. Directed'
  BY <1>1, <1>2, <1>3 DEF GovernorInv, Directed, Trying, Working, Stopping, CleanupDue,
     ManagerSame, RunSame, SamePointers
<1>8. Filed'
  BY <1>1, <1>2, <1>3 DEF GovernorInv, Filed, Working, ManagerSame, RunSame, SamePointers
<1>9. Launches'
  BY <1>1, <1>2, <1>3, Ranges DEF GovernorInv, Launches, Recorded, Starting, Working,
     Steps, ManagerSame, RunSame, SamePointers
<1>10. Chosen'
  BY <1>1, <1>2, <1>3 DEF GovernorInv, Chosen, Passes, ManagerSame, RunSame, SamePointers
<1>11. KeepsScore'
  BY <1>1, <1>2, <1>3 DEF GovernorInv, KeepsScore, ManagerSame, RunSame, SamePointers
<1>12. Tallied'
  BY <1>1, <1>2, <1>3, Ranges DEF GovernorInv, Tallied, Begun, Starting, Reviewing,
     Counted, Recorded, ManagerSame, RunSame, SamePointers
<1>13. Graded'
  BY <1>1, <1>2, <1>3 DEF GovernorInv, Graded, Passes, Weaker, ManagerSame, RunSame,
     SamePointers
<1>14. Converging'
  BY <1>1, <1>2, <1>3 DEF GovernorInv, Converging, Stopping, Passes, Success, ManagerSame,
     RunSame, SamePointers
<1>15. QuietBaselines => InPlace'
  BY <1>1, <1>2, <1>3 DEF GovernorInv, InPlace, ManagerSame, RunSame, SamePointers
<1> QED
  BY <1>4, <1>5, <1>6, <1>7, <1>8, <1>9, <1>10, <1>11, <1>12, <1>13, <1>14, <1>15 DEF
     GovernorInv

\* The content that is judged is the one that was captured.
LEMMA CaptureAttemptInv ==
  ASSUME GovernorInv, CaptureAttempt
  PROVE  GovernorInv'
<1>1. /\ pc = "capture" /\ halt = "none" /\ Attempted
      /\ ret' = "ok" => pc' = "evaluate" /\ halt' = halt /\ cause' = cause
      /\ ret' # "ok" => pc' = "final" /\ halt' = "failed" /\ cause' = "other"
      /\ st' = st /\ saved' = saved /\ verdict' = verdict /\ launched' = launched
      /\ accepted' = accepted /\ edited' = edited /\ RunSame
  BY DEF CaptureAttempt, Continue, Fail, GoTo, Quiet, Attempt, RunSame, GovernorInv, Directed,
     Trying, Working
<1>2. mem # None /\ ~mem.exposed /\ op = "idle" /\ ret = "ok" /\ tree # None
  BY <1>1, HasManager, CandidateAssumption
     DEF Unstarted, GovernorInv, Coupled, ManagerInv, Coherent, CandidateTypeOK
<1>3. /\ ManagerInv' /\ SamePointers /\ tree' = tree /\ op' = "idle"
      /\ ret' \in {"ok", "err"}
      /\ ret' = "ok" => mem'.status = "evaluating" /\ mem'.attempted = tree
  BY <1>1, <1>2, ManagerAttempts DEF GovernorInv
<1>4. ManagerInv'
  BY <1>3
<1>5. GovernorTypeOK'
  BY <1>1, <1>2, <1>3, HaltNames DEF GovernorInv, GovernorTypeOK, Steps, ManagerSame,
     RunSame, SamePointers
<1>6. Coupled'
  BY <1>1, <1>2, <1>3 DEF GovernorInv, Coupled, Unstarted, ManagerSame, RunSame,
     SamePointers
<1>7. Directed'
  BY <1>1, <1>2, <1>3 DEF GovernorInv, Directed, Trying, Working, Stopping, CleanupDue,
     ManagerSame, RunSame, SamePointers
<1>8. Filed'
  BY <1>1, <1>2, <1>3 DEF GovernorInv, Filed, Working, ManagerSame, RunSame, SamePointers
<1>9. Launches'
  BY <1>1, <1>2, <1>3, Ranges DEF GovernorInv, Launches, Recorded, Starting, Working,
     Steps, ManagerSame, RunSame, SamePointers
<1>10. Chosen'
  BY <1>1, <1>2, <1>3 DEF GovernorInv, Chosen, Passes, ManagerSame, RunSame, SamePointers
<1>11. KeepsScore'
  BY <1>1, <1>2, <1>3 DEF GovernorInv, KeepsScore, ManagerSame, RunSame, SamePointers
<1>12. Tallied'
  BY <1>1, <1>2, <1>3, Ranges DEF GovernorInv, Tallied, Begun, Starting, Reviewing,
     Counted, Recorded, ManagerSame, RunSame, SamePointers
<1>13. Graded'
  BY <1>1, <1>2, <1>3 DEF GovernorInv, Graded, Passes, Weaker, ManagerSame, RunSame,
     SamePointers
<1>14. Converging'
  BY <1>1, <1>2, <1>3 DEF GovernorInv, Converging, Stopping, Passes, Success, ManagerSame,
     RunSame, SamePointers
<1>15. QuietBaselines => InPlace'
  BY <1>1, <1>2, <1>3 DEF GovernorInv, InPlace, ManagerSame, RunSame, SamePointers
<1> QED
  BY <1>4, <1>5, <1>6, <1>7, <1>8, <1>9, <1>10, <1>11, <1>12, <1>13, <1>14, <1>15 DEF
     GovernorInv

\* What was rejected is replaced by the best.
LEMMA RestoreAttemptInv ==
  ASSUME GovernorInv, RestoreAttempt
  PROVE  GovernorInv'
<1>1. /\ pc = "reject" /\ halt = "none" /\ RestoreStep
      /\ op' # "idle" => pc' = "reject" /\ halt' = halt /\ cause' = cause
      /\ op' = "idle" /\ ret' = "ok" => pc' = "conclude" /\ halt' = halt /\ cause' = cause
      /\ op' = "idle" /\ ret' # "ok" =>
           pc' = "final" /\ halt' = "failed" /\ cause' = "restoration_failed"
      /\ st' = st /\ saved' = saved /\ verdict' = verdict /\ launched' = launched
      /\ accepted' = accepted /\ edited' = edited /\ RunSame
  BY DEF RestoreAttempt, Continue, Fail, GoTo, Quiet, Attempt, RunSame, GovernorInv, Directed,
     Trying, Working
<1>2. mem # None /\ ret = "ok" /\ op # "promoting" /\ op # "opened"
  BY <1>1, HasManager DEF Unstarted, GovernorInv, Coupled
<1>3. /\ ManagerInv' /\ SamePointers
      /\ op' \in {"idle", "restoring", "verifying"} /\ (op' # "idle" => ret' = "ok")
      /\ ret' \in {"ok", "err"}
      /\ op' = "idle" /\ ret' = "ok" => (mem'.exposed <=> mem.best # None)
  BY <1>1, <1>2, ManagerRestores DEF GovernorInv
<1>4. ManagerInv'
  BY <1>3
<1>5. GovernorTypeOK'
  BY <1>1, <1>2, <1>3, HaltNames DEF GovernorInv, GovernorTypeOK, Steps, ManagerSame,
     RunSame, SamePointers
<1>6. Coupled'
  BY <1>1, <1>2, <1>3 DEF GovernorInv, Coupled, Unstarted, ManagerSame, RunSame,
     SamePointers
<1>7. Directed'
  BY <1>1, <1>2, <1>3 DEF GovernorInv, Directed, Trying, Working, Stopping, CleanupDue,
     ManagerSame, RunSame, SamePointers
<1>8. Filed'
  BY <1>1, <1>2, <1>3 DEF GovernorInv, Filed, Working, ManagerSame, RunSame, SamePointers
<1>9. Launches'
  BY <1>1, <1>2, <1>3, Ranges DEF GovernorInv, Launches, Recorded, Starting, Working,
     Steps, ManagerSame, RunSame, SamePointers
<1>10. Chosen'
  BY <1>1, <1>2, <1>3 DEF GovernorInv, Chosen, Passes, ManagerSame, RunSame, SamePointers
<1>11. KeepsScore'
  BY <1>1, <1>2, <1>3 DEF GovernorInv, KeepsScore, ManagerSame, RunSame, SamePointers
<1>12. Tallied'
  BY <1>1, <1>2, <1>3, Ranges DEF GovernorInv, Tallied, Begun, Starting, Reviewing,
     Counted, Recorded, ManagerSame, RunSame, SamePointers
<1>13. Graded'
  BY <1>1, <1>2, <1>3 DEF GovernorInv, Graded, Passes, Weaker, ManagerSame, RunSame,
     SamePointers
<1>14. Converging'
  BY <1>1, <1>2, <1>3 DEF GovernorInv, Converging, Stopping, Passes, Success, ManagerSame,
     RunSame, SamePointers
<1>15. QuietBaselines => InPlace'
  BY <1>1, <1>2, <1>3 DEF GovernorInv, InPlace, ManagerSame, RunSame, SamePointers
<1> QED
  BY <1>4, <1>5, <1>6, <1>7, <1>8, <1>9, <1>10, <1>11, <1>12, <1>13, <1>14, <1>15 DEF
     GovernorInv

\* The last restoration of a process.
LEMMA CleanupInv ==
  ASSUME GovernorInv, Cleanup
  PROVE  GovernorInv'
<1>1. /\ pc = "cleanup" /\ halt # "none" /\ RestoreStep
      /\ op' # "idle" => pc' = "cleanup" /\ halt' = halt /\ cause' = cause
      /\ op' = "idle" /\ ret' = "ok" => pc' = "report" /\ halt' = halt /\ cause' = cause
      /\ op' = "idle" /\ ret' # "ok" =>
           pc' = "report" /\ halt' = "failed" /\ cause' = "restoration_failed"
      /\ st' = st /\ saved' = saved /\ verdict' = verdict /\ launched' = launched
      /\ accepted' = accepted /\ edited' = edited /\ RunSame
  BY DEF Cleanup, Continue, Fail, GoTo, Quiet, Attempt, RunSame, GovernorInv, Directed, Stopping
<1>2. mem # None /\ op # "promoting" /\ op # "opened" /\ halt # Success
  BY <1>1 DEF GovernorInv, Coupled, Converging
<1>3. /\ ManagerInv' /\ SamePointers
      /\ op' \in {"idle", "restoring", "verifying"} /\ (op' # "idle" => ret' = "ok")
      /\ ret' \in {"ok", "err"}
      /\ op' = "idle" /\ ret' = "ok" => mem'.status = "restored"
  BY <1>1, <1>2, ManagerRestores DEF GovernorInv
<1>4. ManagerInv'
  BY <1>3
<1>5. GovernorTypeOK'
  BY <1>1, <1>2, <1>3, HaltNames DEF GovernorInv, GovernorTypeOK, Steps, ManagerSame,
     RunSame, SamePointers
<1>6. Coupled'
  BY <1>1, <1>2, <1>3 DEF GovernorInv, Coupled, Unstarted, ManagerSame, RunSame,
     SamePointers
<1>7. Directed'
  BY <1>1, <1>2, <1>3 DEF GovernorInv, Directed, Trying, Working, Stopping, CleanupDue,
     ManagerSame, RunSame, SamePointers
<1>8. Filed'
  <2>1. saved = None => mem.best = None /\ (journal # None => journal.best = None)
    BY <1>2, FreshHidesNothing DEF GovernorInv, Filed
  <2> QED  BY <1>1, <1>3, <2>1 DEF GovernorInv, Filed, Working, RunSame, SamePointers
<1>9. Launches'
  BY <1>1, <1>2, <1>3, Ranges DEF GovernorInv, Launches, Recorded, Starting, Working,
     Steps, ManagerSame, RunSame, SamePointers
<1>10. Chosen'
  BY <1>1, <1>2, <1>3 DEF GovernorInv, Chosen, Passes, ManagerSame, RunSame, SamePointers
<1>11. KeepsScore'
  BY <1>1, <1>2, <1>3 DEF GovernorInv, KeepsScore, ManagerSame, RunSame, SamePointers
<1>12. Tallied'
  BY <1>1, <1>2, <1>3, Ranges DEF GovernorInv, Tallied, Begun, Starting, Reviewing,
     Counted, Recorded, ManagerSame, RunSame, SamePointers
<1>13. Graded'
  BY <1>1, <1>2, <1>3 DEF GovernorInv, Graded, Passes, Weaker, ManagerSame, RunSame,
     SamePointers
<1>14. Converging'
  BY <1>1, <1>2, <1>3 DEF GovernorInv, Converging, Stopping, Passes, Success, ManagerSame,
     RunSame, SamePointers
<1>15. QuietBaselines => InPlace'
  BY <1>1, <1>2, <1>3 DEF GovernorInv, InPlace, ManagerSame, RunSame, SamePointers
<1> QED
  BY <1>4, <1>5, <1>6, <1>7, <1>8, <1>9, <1>10, <1>11, <1>12, <1>13, <1>14, <1>15 DEF
     GovernorInv
\* What a promotion records is a proof of this run: its reviews are counted.
LEMMA ProofIsRecordable ==
  ASSUME GovernorInv, pc \in {"adopt", "promote"}, verdict # None
  PROVE  /\ Proof(verdict, st.num) \in Proofs
         /\ Proof(verdict, st.num).num = st.num
         /\ Proof(verdict, st.num).score = verdict.value
<1>1. verdict \in Verdict /\ st.num \in NumericState \cup {None}
  BY Ranges, RunFields DEF GovernorInv, GovernorTypeOK
<1>2. verdict.rc \in {0, 1} /\ verdict.value \in Score \cup {NoScore}
  BY <1>1 DEF Verdict
<1>3. st.num # None => st.num.stale \in 0..(MaxIterations + MaxStarts)
  <2>1. Counted(st.num, st.iter + Begun)
    BY DEF GovernorInv, Tallied, Reviewing
  <2>2. Begun \in Int /\ Begun <= MaxStarts
    BY Ranges DEF Begun
  <2> QED  BY <2>1, <2>2, Ranges DEF Counted
<1>4. st.num \in RunNumeric \cup {None}
  BY <1>1, <1>3 DEF NumericState, RunNumeric
<1> QED  BY <1>2, <1>4 DEF Proof, Proofs

\* A baseline that was accepted becomes the first best.
LEMMA BaselinePromoteInv ==
  ASSUME GovernorInv, BaselinePromote
  PROVE  GovernorInv'
<1>1. /\ pc = "adopt" /\ halt = "none" /\ PromoteStep(Proof(verdict, st.num))
      /\ op' # "idle" => pc' = "adopt" /\ halt' = halt /\ cause' = cause
      /\ op' = "idle" /\ ret' = "ok" => pc' = "settle" /\ halt' = halt /\ cause' = cause
      /\ op' = "idle" /\ ret' # "ok" =>
           pc' = "settle" /\ halt' = "failed" /\ cause' = "other"
      /\ st' = st /\ saved' = saved /\ verdict' = verdict /\ launched' = launched
      /\ accepted' = accepted /\ edited' = edited /\ RunSame
  BY DEF BaselinePromote, Continue, Fail, GoTo, Quiet, Attempt, RunSame, GovernorInv, Directed,
     Trying
<1>2. /\ mem # None /\ ret = "ok" /\ op \in {"idle", "promoting"} /\ verdict # None
      /\ op = "idle" => ~mem.exposed
      /\ QuietBaselines => tree = mem.attempted
      /\ mem.attempted \in accepted
  BY <1>1, HasManager
     DEF Unstarted, GovernorInv, Coupled, Directed, InPlace, Chosen, ManagerInv, Coherent,
         CandidateTypeOK
<1> DEFINE e == Proof(verdict, st.num)
<1>3. e \in Proofs /\ e.num = st.num /\ e.score = verdict.value
  BY <1>1, <1>2, ProofIsRecordable
<1>4. PromoteStep(e)
  BY <1>1
<1> HIDE DEF e
<1>5. /\ ManagerInv' /\ tree' = tree /\ mem' # None /\ mem'.attempted = mem.attempted
      /\ op' \in {"idle", "promoting"} /\ (op' # "idle" => ret' = "ok")
      /\ ret' \in {"ok", "err"}
      /\ ~(op' = "idle" /\ ret' = "ok") => mem'.best = mem.best /\ mem'.proof = mem.proof
      /\ op' = "idle" /\ ret' = "ok" =>
           mem'.best = mem.attempted /\ mem'.proof = e /\ mem'.exposed
           /\ journal' = mem' /\ mem.attempted # None
      /\ \/ journal' \in {journal, mem'}
         \/ /\ journal' # None /\ journal'.best = mem.attempted /\ journal'.proof = e
            /\ mem.attempted # None
  BY <1>1, <1>2, <1>3, <1>4, ManagerPromotes DEF GovernorInv
<1>6. ManagerInv'
  BY <1>5
<1>7. GovernorTypeOK'
  BY <1>1, <1>2, <1>3, <1>4, <1>5, HaltNames DEF GovernorInv, GovernorTypeOK, Steps,
     ManagerSame, RunSame
<1>8. Coupled'
  BY <1>1, <1>2, <1>3, <1>4, <1>5 DEF GovernorInv, Coupled, Unstarted, ManagerSame,
     RunSame
<1>9. Directed'
  BY <1>1, <1>2, <1>3, <1>4, <1>5 DEF GovernorInv, Directed, Trying, Working, Stopping,
     CleanupDue, ManagerSame, RunSame
<1>10. Filed'
  BY <1>1, <1>2, <1>3, <1>4, <1>5 DEF GovernorInv, Filed, Working, ManagerSame, RunSame
<1>11. Launches'
  BY <1>1, <1>2, <1>3, <1>4, <1>5, Ranges DEF GovernorInv, Launches, Recorded, Starting,
     Working, Steps, ManagerSame, RunSame
<1>12. Chosen'
  BY <1>1, <1>2, <1>3, <1>4, <1>5 DEF GovernorInv, Chosen, Passes, ManagerSame, RunSame
<1>13. KeepsScore'
  BY <1>1, <1>2, <1>3, <1>4, <1>5 DEF GovernorInv, KeepsScore, ManagerSame, RunSame
<1>14. Tallied'
  <2>1. /\ Begun' = Begun /\ Recorded' = Recorded /\ st.iter = Recorded
        /\ pc \notin Reviewing /\ pc' \notin Reviewing /\ pc' \notin Starting
    BY <1>1 DEF Begun, Recorded, Starting, Reviewing, RunSame, GovernorInv, Launches
  <2>2. Counted(st.num, Recorded + Begun)
    BY <2>1 DEF GovernorInv, Tallied
  <2>3. Counted(e.num, Recorded + Begun)
    BY <1>3, <2>2
  <2>4. mem'.proof # None => Counted(mem'.proof.num, Recorded + Begun)
    BY <1>2, <1>5, <2>3 DEF GovernorInv, Tallied
  <2>5. journal' # None /\ journal'.proof # None =>
          Counted(journal'.proof.num, Recorded + Begun)
    BY <1>5, <2>3, <2>4 DEF GovernorInv, Tallied
  <2> QED
    BY <1>1, <2>1, <2>2, <2>4, <2>5 DEF GovernorInv, Tallied
<1>15. Graded'
  <2>1. Reaches(st.num, verdict.value) /\ (setting.score <=> st.num # None)
        /\ (setting.score => verdict.value # NoScore) /\ verdict.accept
    BY <1>1 DEF GovernorInv, Graded, KeepsScore, Passes
  <2>2. Reaches(e.num, e.score) /\ (setting.score <=> e.num # None)
    BY <1>3, <2>1
  <2>3. mem'.proof # None =>
          Reaches(mem'.proof.num, mem'.proof.score) /\ (setting.score <=> mem'.proof.num # None)
    BY <1>2, <1>5, <2>2 DEF GovernorInv, Graded
  <2>4. journal' # None /\ journal'.proof # None =>
          Reaches(journal'.proof.num, journal'.proof.score)
            /\ (setting.score <=> journal'.proof.num # None)
    BY <1>5, <2>2, <2>3 DEF GovernorInv, Graded
  <2> QED
    BY <1>1, <2>1, <2>3, <2>4 DEF Graded, RunSame
<1>16. Converging'
  BY <1>1, <1>2, <1>3, <1>4, <1>5 DEF GovernorInv, Converging, Stopping, Passes, Success,
     ManagerSame, RunSame
<1>17. QuietBaselines => InPlace'
  BY <1>1, <1>2, <1>3, <1>4, <1>5 DEF GovernorInv, InPlace, ManagerSame, RunSame
<1> QED
  BY <1>6, <1>7, <1>8, <1>9, <1>10, <1>11, <1>12, <1>13, <1>14, <1>15, <1>16, <1>17 DEF
     GovernorInv
\* An attempt that passed its guards becomes the best, or the old best stays.
LEMMA PromoteAttemptInv ==
  ASSUME GovernorInv, PromoteAttempt
  PROVE  GovernorInv'
<1>1. /\ pc = "promote" /\ halt = "none" /\ PromoteStep(Proof(verdict, st.num))
      /\ \/ op' # "idle" /\ pc' = "promote" /\ halt' = halt /\ cause' = cause /\ st' = st
         \/ op' = "idle" /\ ret' = "ok" /\ pc' = "conclude" /\ halt' = halt /\ cause' = cause
            /\ st' = st
         \/ /\ op' = "idle" /\ ret' = "err" /\ pc' = "final" /\ halt' = "failed"
            /\ cause' = "other"
            /\ st' = IF setting.score /\ mem.proof # None
                     THEN [st EXCEPT !.num = mem.proof.num] ELSE st
      /\ saved' = saved /\ verdict' = verdict /\ launched' = launched
      /\ accepted' = accepted /\ edited' = edited /\ RunSame
  BY DEF PromoteAttempt, Continue, Fail, GoTo, Quiet, Attempt, RunSame, GovernorInv, Directed,
     Trying, Working
<1>2. /\ mem # None /\ ret = "ok" /\ op \in {"idle", "promoting"} /\ verdict # None
      /\ op = "idle" => ~mem.exposed
      /\ QuietBaselines => tree = mem.attempted
      /\ mem.attempted \in accepted
  BY <1>1, HasManager
     DEF Unstarted, GovernorInv, Coupled, Directed, InPlace, Chosen, ManagerInv, Coherent,
         CandidateTypeOK
<1> DEFINE e == Proof(verdict, st.num)
<1>3. e \in Proofs /\ e.num = st.num /\ e.score = verdict.value
  BY <1>1, <1>2, ProofIsRecordable
<1>4. PromoteStep(e)
  BY <1>1
<1> HIDE DEF e
<1>5. /\ ManagerInv' /\ tree' = tree /\ mem' # None /\ mem'.attempted = mem.attempted
      /\ op' \in {"idle", "promoting"} /\ (op' # "idle" => ret' = "ok")
      /\ ret' \in {"ok", "err"}
      /\ ~(op' = "idle" /\ ret' = "ok") => mem'.best = mem.best /\ mem'.proof = mem.proof
      /\ op' = "idle" /\ ret' = "ok" =>
           mem'.best = mem.attempted /\ mem'.proof = e /\ mem'.exposed
           /\ journal' = mem' /\ mem.attempted # None
      /\ \/ journal' \in {journal, mem'}
         \/ /\ journal' # None /\ journal'.best = mem.attempted /\ journal'.proof = e
            /\ mem.attempted # None
  BY <1>1, <1>2, <1>3, <1>4, ManagerPromotes DEF GovernorInv
<1>6. /\ st' \in LoopState /\ st'.iter = st.iter /\ st'.halt = st.halt
      /\ setting.score <=> st'.num # None
      /\ \/ st' = st
         \/ mem.proof # None /\ st'.num = mem.proof.num /\ pc' = "final"
  <2>1. st \in LoopState /\ (setting.score <=> st.num # None)
    BY DEF GovernorInv, GovernorTypeOK, KeepsScore
  <2>2. CASE /\ setting.score /\ mem.proof # None /\ pc' = "final"
             /\ st' = [st EXCEPT !.num = mem.proof.num]
    <3>1. mem.proof \in Proofs /\ mem.proof.num # None
      BY <1>2, <2>2 DEF GovernorInv, ManagerInv, Coherent, Graded
    <3>2. mem.proof.num \in NumericState
      BY <3>1, GovernorAssumption DEF Proofs, RunNumeric, NumericState
    <3> QED  BY <2>1, <2>2, <3>1, <3>2 DEF LoopState
  <2>3. CASE st' = st
    BY <2>1, <2>3
  <2> QED  BY <1>1, <2>2, <2>3
<1>7. ManagerInv'
  BY <1>5
<1>8. GovernorTypeOK'
  BY <1>1, <1>2, <1>3, <1>4, <1>5, <1>6, HaltNames DEF GovernorInv, GovernorTypeOK, Steps,
     ManagerSame, RunSame
<1>9. Coupled'
  BY <1>1, <1>2, <1>3, <1>4, <1>5, <1>6 DEF GovernorInv, Coupled, Unstarted, ManagerSame,
     RunSame
<1>10. Directed'
  BY <1>1, <1>2, <1>3, <1>4, <1>5, <1>6 DEF GovernorInv, Directed, Trying, Working,
     Stopping, CleanupDue, ManagerSame, RunSame
<1>11. Filed'
  BY <1>1, <1>2, <1>3, <1>4, <1>5, <1>6 DEF GovernorInv, Filed, Working, ManagerSame,
     RunSame
<1>12. Launches'
  BY <1>1, <1>2, <1>3, <1>4, <1>5, <1>6, Ranges DEF GovernorInv, Launches, Recorded,
     Starting, Working, Steps, ManagerSame, RunSame
<1>13. Chosen'
  BY <1>1, <1>2, <1>3, <1>4, <1>5, <1>6 DEF GovernorInv, Chosen, Passes, ManagerSame,
     RunSame
<1>14. KeepsScore'
  BY <1>1, <1>2, <1>3, <1>4, <1>5, <1>6 DEF GovernorInv, KeepsScore, ManagerSame, RunSame
<1>15. Tallied'
  <2>1. /\ Begun' = Begun /\ Recorded' = Recorded /\ st.iter = Recorded
        /\ pc \notin Reviewing /\ pc' \notin Reviewing /\ pc' \notin Starting
    BY <1>1 DEF Begun, Recorded, Starting, Reviewing, Working, RunSame, GovernorInv, Launches
  <2>2. Counted(st.num, Recorded + Begun)
    BY <2>1 DEF GovernorInv, Tallied
  <2>3. Counted(e.num, Recorded + Begun)
    BY <1>3, <2>2
  <2>4. mem'.proof # None => Counted(mem'.proof.num, Recorded + Begun)
    BY <1>2, <1>5, <2>3 DEF GovernorInv, Tallied
  <2>5. journal' # None /\ journal'.proof # None =>
          Counted(journal'.proof.num, Recorded + Begun)
    BY <1>5, <2>3, <2>4 DEF GovernorInv, Tallied
  <2>6. Counted(st'.num, st'.iter + Begun)
    BY <1>2, <1>6, <2>1, <2>2 DEF GovernorInv, Tallied
  <2>7. saved' # None => Counted(saved'.num, saved'.iter + Begun)
    BY <1>1 DEF GovernorInv, Tallied
  <2> QED
    BY <1>1, <2>1, <2>4, <2>5, <2>6, <2>7 DEF GovernorInv, Tallied
<1>16. Graded'
  <2>1. Reaches(st.num, verdict.value) /\ (setting.score <=> st.num # None)
        /\ (setting.score => verdict.value # NoScore) /\ verdict.accept
    BY <1>1 DEF GovernorInv, Graded, KeepsScore, Passes
  <2>2. Reaches(e.num, e.score) /\ (setting.score <=> e.num # None)
    BY <1>3, <2>1
  <2>3. mem'.proof # None =>
          Reaches(mem'.proof.num, mem'.proof.score) /\ (setting.score <=> mem'.proof.num # None)
    BY <1>2, <1>5, <2>2 DEF GovernorInv, Graded
  <2>4. journal' # None /\ journal'.proof # None =>
          Reaches(journal'.proof.num, journal'.proof.score)
            /\ (setting.score <=> journal'.proof.num # None)
    BY <1>5, <2>2, <2>3 DEF GovernorInv, Graded
  <2>5. pc' = "promote" => Passes' /\ ~Weaker'
    BY <1>1, <1>5 DEF GovernorInv, Graded, Passes, Weaker, RunSame
  <2>6. pc' # "adopt" /\ pc' # "decide" /\ (pc' = "promote" => st' = st /\ verdict' = verdict)
    BY <1>1
  <2> QED
    BY <1>1, <1>6, <2>1, <2>3, <2>4, <2>5, <2>6 DEF Graded, RunSame
<1>17. Converging'
  BY <1>1, <1>2, <1>3, <1>4, <1>5, <1>6 DEF GovernorInv, Converging, Stopping, Passes,
     Success, ManagerSame, RunSame
<1>18. QuietBaselines => InPlace'
  BY <1>1, <1>2, <1>3, <1>4, <1>5, <1>6 DEF GovernorInv, InPlace, ManagerSame, RunSame
<1> QED
  BY <1>7, <1>8, <1>9, <1>10, <1>11, <1>12, <1>13, <1>14, <1>15, <1>16, <1>17, <1>18 DEF
     GovernorInv
LEMMA ReportFields ==
  ASSUME NEW sc \in Report
  PROVE  /\ sc.technical \in BOOLEAN /\ sc.veto \in BOOLEAN
         /\ sc.value \in Score \cup {NoScore}
         /\ sc.technical => sc.value \in Score
<1>1. CASE sc \in [technical: {TRUE}, veto: BOOLEAN, value: Score]
  BY <1>1
<1>2. CASE sc = [technical |-> FALSE, veto |-> FALSE, value |-> NoScore]
  <2>1. sc.technical = FALSE /\ sc.veto = FALSE /\ sc.value = NoScore
    BY <1>2
  <2> QED  BY <2>1
<1> QED  BY <1>1, <1>2 DEF Report

\* One review counts at most once, and an accepted score is at most the new best.
LEMMA ReviewFields ==
  ASSUME NEW n \in NumericState, NEW sc \in Report, sc.technical
  PROVE  /\ Reviewed(n, sc) \in NumericState
         /\ Reviewed(n, sc).stale <= n.stale + 1
         /\ ~sc.veto => Reaches(Reviewed(n, sc), sc.value)
<1>1. /\ n.best \in Score \cup {NoScore} /\ n.anchor \in Score \cup {NoScore}
      /\ n.stale \in Nat /\ NoScore \notin Score /\ None \notin NumericState
  BY ScorePolicyAssumption, GovernorAssumption DEF NumericState, Score
<1>2. sc.value \in Score
  BY ReportFields
<1>3. CASE sc.veto
  <2>1. Reviewed(n, sc) = [n EXCEPT !.stale = @ + 1]
    BY <1>3 DEF Reviewed
  <2> QED  BY <1>1, <1>3, <2>1 DEF NumericState
<1>4. CASE ~sc.veto
  <2> DEFINE b == IF n.best = NoScore \/ Gain(sc.value, n.best) > 0 THEN sc.value ELSE n.best
             a == IF Improves(n, sc.value) THEN sc.value ELSE n.anchor
             s == IF Improves(n, sc.value) THEN 0 ELSE n.stale + 1
  <2>1. Reviewed(n, sc) = [best |-> b, anchor |-> a, stale |-> s]
    BY <1>4 DEF Reviewed
  <2>2. b \in Score
    BY <1>1, <1>2
  <2>3. a \in Score \cup {NoScore}
    BY <1>1, <1>2
  <2>4. s \in Nat /\ s <= n.stale + 1
    BY <1>1
  <2>5. Gain(b, sc.value) >= 0
    <3>1. CASE n.best = NoScore \/ Gain(sc.value, n.best) > 0
      <4>1. b = sc.value /\ sc.value \in Int
        BY <1>2, <3>1, ScorePolicyAssumption DEF Score
      <4> QED  BY <4>1, ScorePolicyAssumption DEF Gain
    <3>2. CASE ~(n.best = NoScore \/ Gain(sc.value, n.best) > 0)
      <4>1. b = n.best /\ n.best \in Int /\ sc.value \in Int /\ ~(Gain(sc.value, n.best) > 0)
        BY <1>1, <1>2, <3>2, ScorePolicyAssumption DEF Score
      <4> QED  BY <4>1, ScorePolicyAssumption DEF Gain
    <3> QED  BY <3>1, <3>2
  <2> HIDE DEF b, a, s
  <2>6. Reviewed(n, sc) \in NumericState
    BY <2>1, <2>2, <2>3, <2>4 DEF NumericState
  <2>7. Reaches(Reviewed(n, sc), sc.value)
    BY <1>1, <2>1, <2>2, <2>5, <2>6 DEF Reaches
  <2> QED  BY <2>1, <2>4, <2>6, <2>7
<1> QED  BY <1>3, <1>4

\* The verdict of a score, and the numeric state that goes with it.
LEMMA ScoreVerdictFields ==
  ASSUME GovernorInv, setting.score, NEW rc \in {0, 1}, NEW sc \in Report
  PROVE  LET v == ScoreVerdict(rc, sc)
             n == Observe(st.num, sc).state
         IN /\ v \in Verdict /\ v.halt \in {"none", "no_progress_detected"}
            /\ n \in NumericState /\ n # None /\ n.stale <= st.num.stale + 1
            /\ v.accept => Reaches(n, v.value) /\ v.value # NoScore
<1>1. st.num \in NumericState
  BY Ranges, RunFields DEF GovernorInv, KeepsScore
<1>2. sc.technical \in BOOLEAN /\ sc.veto \in BOOLEAN /\ sc.value \in Score \cup {NoScore}
  BY ReportFields
<1> DEFINE n == Observe(st.num, sc).state
           v == ScoreVerdict(rc, sc)
<1>3. n = IF sc.technical THEN Reviewed(st.num, sc) ELSE st.num
  BY DEF Observe
<1>4. n \in NumericState /\ n # None /\ n.stale <= st.num.stale + 1
  <2>1. st.num.stale \in Nat /\ None \notin NumericState
    BY <1>1, GovernorAssumption DEF NumericState
  <2>2. CASE sc.technical
    BY <1>1, <1>3, <2>1, <2>2, ReviewFields
  <2>3. CASE ~sc.technical
    BY <1>1, <1>3, <2>1, <2>3
  <2> QED  BY <2>2, <2>3
<1>5. /\ v.rc = rc /\ v.technical = sc.technical /\ v.value = sc.value
      /\ v.accept = (sc.technical /\ ~sc.veto /\ Accepts(st.num, sc.value))
      /\ v.halt \in {"none", "no_progress_detected"} /\ v.target \in BOOLEAN
      /\ v = [rc |-> v.rc, technical |-> v.technical, accept |-> v.accept,
              target |-> v.target, halt |-> v.halt, value |-> v.value]
  BY DEF ScoreVerdict, Observe
<1>6. v \in Verdict
  <2>1. v.accept \in BOOLEAN /\ v.halt \in Halts
    BY <1>5, HaltNames
  <2> HIDE DEF v
  <2> QED  BY <1>2, <1>5, <2>1 DEF Verdict
<1>7. v.accept => Reaches(n, v.value) /\ v.value # NoScore
  <2>1. ASSUME v.accept  PROVE sc.technical /\ ~sc.veto
    BY <1>5, <2>1
  <2>2. ASSUME sc.technical  PROVE sc.value # NoScore
    BY <2>2, ReportFields, ScorePolicyAssumption DEF Score
  <2> HIDE DEF v, n
  <2> QED  BY <1>1, <1>3, <1>5, <2>1, <2>2, ReviewFields
<1> QED  BY <1>4, <1>5, <1>6, <1>7

LEMMA CheckVerdictFields ==
  ASSUME NEW rc \in {0, 1}, NEW why \in {"none", "no_progress_detected"}
  PROVE  /\ CheckVerdict(rc, why) \in Verdict
         /\ CheckVerdict(rc, why).halt \in {"none", "no_progress_detected"}
         /\ CheckVerdict(rc, why).value = NoScore
<1>1. (IF rc = 0 THEN "none" ELSE why) \in Halts
  BY HaltNames
<1> QED  BY <1>1 DEF CheckVerdict, Verdict
LEMMA HookLeavesTree ==
  ASSUME GovernorInv, HookWrites
  PROVE  /\ tree' \in Contents \cup {Torn}
         /\ QuietBaselines /\ setting.baseline => tree' = tree
BY DEF HookWrites, QuietBaselines, GovernorInv, GovernorTypeOK, ManagerInv, CandidateTypeOK

\* The work command is launched once for an iteration that is on disk.
LEMMA ExecInv ==
  ASSUME GovernorInv, Exec
  PROVE  GovernorInv'
<1>1. /\ pc = "exec" /\ halt = "none" /\ tree' \in Contents
      /\ launched' = [launched EXCEPT ![st.iter] = @ + 1]
      /\ \/ pc' = "guards" /\ halt' = halt /\ cause' = cause
         \/ pc' = "final" /\ halt' = "failed" /\ cause' = "other"
      /\ store' = store /\ journal' = journal /\ mem' = mem /\ op' = op /\ ret' = ret
      /\ ctx' = ctx /\ faults' = faults
      /\ st' = st /\ saved' = saved /\ verdict' = verdict
      /\ accepted' = accepted /\ edited' = edited /\ RunSame
  BY DEF Exec, Rewrite, Continue, Fail, GoTo, Quiet, RunSame, GovernorInv, Directed, Trying,
     Working
<1>2. mem # None /\ mem.status = "attempting" /\ ManagerInv'
  BY <1>1, HasManager, ManagerRewritten DEF Unstarted, GovernorInv, Coupled
<1>3. /\ st.iter \in 1..MaxIterations /\ st.iter = Recorded /\ launched[st.iter] = 0
      /\ launched \in [1..MaxIterations -> Nat]
  <2>1. st.iter >= 1 /\ st.iter = Recorded /\ launched[st.iter] = 0
    BY <1>1 DEF GovernorInv, Launches, Working
  <2> QED  BY <2>1, Ranges DEF GovernorInv, GovernorTypeOK
<1>4. /\ launched' \in [1..MaxIterations -> Nat]
      /\ \A i \in 1..MaxIterations :
           launched'[i] = IF i = st.iter THEN 1 ELSE launched[i]
  BY <1>1, <1>3
<1>5. ManagerInv'
  BY <1>2
<1>6. GovernorTypeOK'
  BY <1>1, <1>2, <1>3, <1>4, HaltNames DEF GovernorInv, GovernorTypeOK, Steps,
     ManagerSame, RunSame
<1>7. Coupled'
  BY <1>1, <1>2, <1>3, <1>4 DEF GovernorInv, Coupled, Unstarted, ManagerSame, RunSame
<1>8. Directed'
  BY <1>1, <1>2, <1>3, <1>4 DEF GovernorInv, Directed, Trying, Working, Stopping,
     CleanupDue, ManagerSame, RunSame
<1>9. Filed'
  BY <1>1, <1>2, <1>3, <1>4 DEF GovernorInv, Filed, Working, ManagerSame, RunSame
<1>10. Launches'
  BY <1>1, <1>2, <1>3, <1>4, Ranges DEF GovernorInv, Launches, Recorded, Starting,
     Working, Steps, ManagerSame, RunSame
<1>11. Chosen'
  BY <1>1, <1>2, <1>3, <1>4 DEF GovernorInv, Chosen, Passes, ManagerSame, RunSame
<1>12. KeepsScore'
  BY <1>1, <1>2, <1>3, <1>4 DEF GovernorInv, KeepsScore, ManagerSame, RunSame
<1>13. Tallied'
  BY <1>1, <1>2, <1>3, <1>4, Ranges DEF GovernorInv, Tallied, Begun, Starting, Reviewing,
     Counted, Recorded, ManagerSame, RunSame
<1>14. Graded'
  BY <1>1, <1>2, <1>3, <1>4 DEF GovernorInv, Graded, Passes, Weaker, ManagerSame, RunSame
<1>15. Converging'
  BY <1>1, <1>2, <1>3, <1>4 DEF GovernorInv, Converging, Stopping, Passes, Success,
     ManagerSame, RunSame
<1>16. QuietBaselines => InPlace'
  BY <1>1, <1>2, <1>3, <1>4 DEF GovernorInv, InPlace, ManagerSame, RunSame
<1> QED
  BY <1>5, <1>6, <1>7, <1>8, <1>9, <1>10, <1>11, <1>12, <1>13, <1>14, <1>15, <1>16 DEF
     GovernorInv

\* What check and score make of the captured content.
LEMMA EvaluateInv ==
  ASSUME GovernorInv, Evaluate
  PROVE  GovernorInv'
<1>1. /\ pc = "evaluate" /\ HookWrites /\ halt = "none"
      /\ store' = store /\ journal' = journal /\ mem' = mem /\ op' = op /\ ret' = ret
      /\ ctx' = ctx /\ faults' = faults
      /\ saved' = saved /\ launched' = launched /\ edited' = edited /\ RunSame
  BY DEF Evaluate, Manager, Quiet, RunSame, GovernorInv, Directed, Trying, Working
<1>2. mem # None /\ mem.status = "evaluating" /\ ManagerInv'
  BY <1>1, HasManager, ManagerRewritten, HookLeavesTree DEF Unstarted, GovernorInv, Coupled
<1>3. setting.score <=> st.num # None
  BY DEF GovernorInv, KeepsScore
<1>4. /\ st' \in LoopState /\ st'.iter = st.iter /\ st'.halt = st.halt
      /\ setting.score <=> st'.num # None
      /\ st'.num # None => st'.num.stale <= st.num.stale + 1
      /\ \/ /\ pc' = "final" /\ halt' = "failed" /\ cause' = "other" /\ st' = st
            /\ verdict' = verdict /\ accepted' = accepted
         \/ /\ pc' = "decide" /\ halt' = halt /\ cause' = cause
            /\ verdict' \in Verdict /\ verdict'.halt \in {"none", "no_progress_detected"}
            /\ accepted' = IF verdict'.technical /\ verdict'.accept
                           THEN accepted \cup {mem.attempted} ELSE accepted
            /\ verdict'.accept =>
                 Reaches(st'.num, verdict'.value) /\ (setting.score => verdict'.value # NoScore)
  <2>0. st \in LoopState /\ (st.num # None => st.num.stale \in Nat)
    BY Ranges
  <2>1. CASE Fail("other", "final") /\ UNCHANGED <<st, verdict, accepted>>
    BY <1>3, <2>0, <2>1 DEF Fail, GoTo
  <2>2. CASE \E rc \in {0, 1} :
               /\ setting.score
               /\ \E sc \in {r \in Report : rc = 0 => r.technical} :
                    /\ verdict' = ScoreVerdict(rc, sc)
                    /\ st' = [st EXCEPT !.num = Observe(st.num, sc).state]
               /\ accepted' = IF verdict'.technical /\ verdict'.accept
                              THEN accepted \cup {mem.attempted} ELSE accepted
               /\ Continue("decide")
    <3>1. PICK rc \in {0, 1}, sc \in Report :
            /\ setting.score /\ verdict' = ScoreVerdict(rc, sc)
            /\ st' = [st EXCEPT !.num = Observe(st.num, sc).state]
      BY <2>2
    <3> DEFINE n == Observe(st.num, sc).state
    <3>2. /\ verdict' \in Verdict /\ verdict'.halt \in {"none", "no_progress_detected"}
          /\ n \in NumericState /\ n # None /\ n.stale <= st.num.stale + 1
          /\ verdict'.accept => Reaches(n, verdict'.value) /\ verdict'.value # NoScore
      BY <3>1, ScoreVerdictFields
    <3>3. st' = [st EXCEPT !.num = n]
      BY <3>1
    <3> HIDE DEF n
    <3>4. st' \in LoopState /\ st'.iter = st.iter /\ st'.halt = st.halt /\ st'.num = n
      BY <2>0, <3>2, <3>3 DEF LoopState
    <3> QED  BY <2>2, <3>1, <3>2, <3>4 DEF Continue, GoTo
  <2>3. CASE \E rc \in {0, 1} :
               /\ ~setting.score
               /\ \E why \in {"none", "no_progress_detected"} : verdict' = CheckVerdict(rc, why)
               /\ UNCHANGED st
               /\ accepted' = IF verdict'.technical /\ verdict'.accept
                              THEN accepted \cup {mem.attempted} ELSE accepted
               /\ Continue("decide")
    <3>1. PICK rc \in {0, 1}, why \in {"none", "no_progress_detected"} :
            ~setting.score /\ verdict' = CheckVerdict(rc, why) /\ st' = st
      BY <2>3
    <3>2. /\ verdict' \in Verdict /\ verdict'.halt \in {"none", "no_progress_detected"}
          /\ verdict'.value = NoScore
      BY <3>1, CheckVerdictFields
    <3>3. /\ Reaches(st'.num, verdict'.value)
          /\ setting.score => verdict'.value # NoScore
      BY <3>1, <3>2 DEF Reaches
    <3> QED  BY <1>3, <2>0, <2>3, <3>1, <3>2, <3>3 DEF Continue, GoTo
  <2> QED  BY <2>1, <2>2, <2>3 DEF Evaluate
<1>5. /\ mem.attempted \in Contents \cup {Torn} /\ None \notin Verdict
      /\ pc' \in {"decide", "final"}
      /\ halt' \in Halts /\ cause' \in {"none", "other", "restoration_failed"}
      /\ verdict' \in Verdict \cup {None} /\ accepted' \subseteq Contents \cup {Torn}
      /\ pc' = "decide" => verdict' # None /\ halt' = "none"
      /\ pc' = "final" => halt' # "none"
  <2>1. mem.attempted \in Contents \cup {Torn}
    BY <1>1, <1>2 DEF GovernorInv, Coupled, ManagerInv, CandidateTypeOK, CandidateState
  <2>2. verdict \in Verdict \cup {None} /\ accepted \subseteq Contents \cup {Torn}
        /\ cause \in {"none", "other", "restoration_failed"}
    BY DEF GovernorInv, GovernorTypeOK
  <2> QED  BY <1>1, <1>4, <2>1, <2>2, HaltNames, NoneIsNoRun
<1>6. ManagerInv'
  BY <1>2
<1>7. GovernorTypeOK'
  BY <1>1, <1>4, <1>5 DEF GovernorInv, GovernorTypeOK, Steps, RunSame
<1>8. Coupled'
  BY <1>1, <1>2, <1>3, <1>4, <1>5 DEF GovernorInv, Coupled, Unstarted, ManagerSame,
     RunSame
<1>9. Directed'
  <2>1. verdict' # None => verdict'.halt \in {"none", "no_progress_detected"}
    BY <1>4 DEF GovernorInv, Directed
  <2>2. st'.halt = "none"
    BY <1>1, <1>4 DEF GovernorInv, Directed
  <2> QED  BY <1>5, <2>1, <2>2 DEF Directed, Trying, Working, Stopping
<1>10. Filed'
  BY <1>1, <1>2, <1>3, <1>4, <1>5 DEF GovernorInv, Filed, Working, ManagerSame, RunSame
<1>11. Launches'
  BY <1>1, <1>2, <1>3, <1>4, <1>5, Ranges DEF GovernorInv, Launches, Recorded, Starting,
     Working, Steps, ManagerSame, RunSame
<1>12. Chosen'
  BY <1>1, <1>2, <1>3, <1>4, <1>5 DEF GovernorInv, Chosen, Passes, ManagerSame, RunSame
<1>13. KeepsScore'
  BY <1>1, <1>2, <1>3, <1>4, <1>5 DEF GovernorInv, KeepsScore, ManagerSame, RunSame
<1>14. Tallied'
  <2>1. /\ pc \in Reviewing /\ pc \notin Starting /\ pc' \notin Starting /\ pc' \notin Reviewing
        /\ Begun = starts /\ Begun' = starts /\ Recorded' = Recorded /\ starts' = starts
    BY <1>1, <1>5 DEF Begun, Recorded, Starting, Reviewing, RunSame
  <2>2. Counted(st.num, st.iter - 1 + starts)
    BY <2>1 DEF GovernorInv, Tallied
  <2>3. (st.num # None <=> st'.num # None) /\ (st'.num # None => st'.num.stale \in Nat)
    BY <1>3, <1>4 DEF LoopState, NumericState
  <2>4. Counted(st'.num, st'.iter + Begun')
    BY <1>4, <2>1, <2>2, <2>3, Ranges DEF Counted
  <2> QED
    BY <1>1, <2>1, <2>4 DEF GovernorInv, Tallied
<1>15. Graded'
  BY <1>1, <1>2, <1>3, <1>4, <1>5 DEF GovernorInv, Graded, Passes, Weaker, ManagerSame,
     RunSame
<1>16. Converging'
  BY <1>1, <1>2, <1>3, <1>4, <1>5 DEF GovernorInv, Converging, Stopping, Passes, Success,
     ManagerSame, RunSame
<1>17. QuietBaselines => InPlace'
  BY <1>1, <1>2, <1>3, <1>4, <1>5 DEF GovernorInv, InPlace, ManagerSame, RunSame
<1> QED
  BY <1>6, <1>7, <1>8, <1>9, <1>10, <1>11, <1>12, <1>13, <1>14, <1>15, <1>16, <1>17 DEF
     GovernorInv
\* What check and score make of the baseline.
LEMMA BaselineJudgeInv ==
  ASSUME GovernorInv, BaselineJudge
  PROVE  GovernorInv'
<1>1. /\ pc = "judge" /\ HookWrites /\ halt = "none"
      /\ store' = store /\ journal' = journal /\ mem' = mem /\ op' = op /\ ret' = ret
      /\ ctx' = ctx /\ faults' = faults
      /\ saved' = saved /\ launched' = launched /\ edited' = edited /\ RunSame
  BY DEF BaselineJudge, Manager, Quiet, RunSame, GovernorInv, Directed, Trying, Working
<1>2. mem # None /\ mem.status = "evaluating" /\ ManagerInv'
      /\ (QuietBaselines => tree' = tree)
  BY <1>1, HasManager, ManagerRewritten, HookLeavesTree DEF Unstarted, GovernorInv, Coupled
<1>3. setting.score <=> st.num # None
  BY DEF GovernorInv, KeepsScore
<1>4. /\ st' \in LoopState /\ st'.iter = st.iter /\ st'.halt = st.halt
      /\ setting.score <=> st'.num # None
      /\ st'.num # None => st'.num.stale <= st.num.stale + 1
      /\ \/ verdict' = verdict /\ st' = st
         \/ /\ verdict' \in Verdict /\ verdict'.halt \in {"none", "no_progress_detected"}
            /\ verdict'.accept =>
                 Reaches(st'.num, verdict'.value) /\ (setting.score => verdict'.value # NoScore)
      /\ \/ pc' = "settle" /\ halt' = "failed" /\ cause' = "other" /\ accepted' = accepted
         \/ pc' = "settle" /\ halt' = halt /\ cause' = cause /\ accepted' = accepted
         \/ /\ pc' = "adopt" /\ halt' = halt /\ cause' = cause
            /\ verdict' \in Verdict /\ verdict'.accept
            /\ verdict'.accept =>
                 Reaches(st'.num, verdict'.value) /\ (setting.score => verdict'.value # NoScore)
            /\ accepted' = accepted \cup {mem.attempted}
  <2>0. st \in LoopState /\ (st.num # None => st.num.stale \in Nat)
    BY Ranges
  <2> DEFINE Fate ==
        IF verdict'.halt # "none" THEN Fail("other", "settle") /\ UNCHANGED accepted
        ELSE IF ~verdict'.accept THEN Continue("settle") /\ UNCHANGED accepted
        ELSE Continue("adopt") /\ accepted' = accepted \cup {mem.attempted}
  <2>1. CASE Fail("other", "settle") /\ UNCHANGED <<st, verdict, accepted>>
    BY <1>3, <2>0, <2>1 DEF Fail, GoTo
  <2>2. CASE Fate /\ \E rc \in {0, 1} :
               /\ setting.score
               /\ \E sc \in Report :
                    /\ verdict' = ScoreVerdict(rc, sc)
                    /\ st' = [st EXCEPT !.num = Observe(st.num, sc).state]
    <3>1. PICK rc \in {0, 1}, sc \in Report :
            /\ setting.score /\ verdict' = ScoreVerdict(rc, sc)
            /\ st' = [st EXCEPT !.num = Observe(st.num, sc).state]
      BY <2>2
    <3> DEFINE n == Observe(st.num, sc).state
    <3>2. /\ verdict' \in Verdict /\ verdict'.halt \in {"none", "no_progress_detected"}
          /\ n \in NumericState /\ n # None /\ n.stale <= st.num.stale + 1
          /\ verdict'.accept => Reaches(n, verdict'.value) /\ verdict'.value # NoScore
      BY <3>1, ScoreVerdictFields
    <3>3. st' = [st EXCEPT !.num = n]
      BY <3>1
    <3> HIDE DEF n
    <3>4. st' \in LoopState /\ st'.iter = st.iter /\ st'.halt = st.halt /\ st'.num = n
      BY <2>0, <3>2, <3>3 DEF LoopState
    <3> QED  BY <2>2, <3>1, <3>2, <3>4 DEF Continue, Fail, GoTo
  <2>3. CASE Fate /\ \E rc \in {0, 1} :
               /\ ~setting.score
               /\ verdict' = CheckVerdict(rc, "none")
               /\ UNCHANGED st
    <3>1. PICK rc \in {0, 1} :
            ~setting.score /\ verdict' = CheckVerdict(rc, "none") /\ st' = st
      BY <2>3
    <3>2. /\ verdict' \in Verdict /\ verdict'.halt \in {"none", "no_progress_detected"}
          /\ verdict'.value = NoScore
      BY <3>1, CheckVerdictFields
    <3>3. /\ Reaches(st'.num, verdict'.value)
          /\ setting.score => verdict'.value # NoScore
      BY <3>1, <3>2 DEF Reaches
    <3> QED  BY <1>3, <2>0, <2>3, <3>1, <3>2, <3>3 DEF Continue, Fail, GoTo
  <2> QED  BY <2>1, <2>2, <2>3 DEF BaselineJudge
<1>5. /\ mem.attempted \in Contents \cup {Torn} /\ None \notin Verdict
      /\ pc' \in {"adopt", "settle"}
      /\ halt' \in Halts /\ cause' \in {"none", "other", "restoration_failed"}
      /\ verdict' \in Verdict \cup {None} /\ accepted' \subseteq Contents \cup {Torn}
      /\ pc' = "adopt" => verdict' # None /\ halt' = "none"
  <2>1. mem.attempted \in Contents \cup {Torn}
    BY <1>1, <1>2 DEF GovernorInv, Coupled, ManagerInv, CandidateTypeOK, CandidateState
  <2>2. verdict \in Verdict \cup {None} /\ accepted \subseteq Contents \cup {Torn}
        /\ cause \in {"none", "other", "restoration_failed"}
    BY DEF GovernorInv, GovernorTypeOK
  <2> QED  BY <1>1, <1>4, <2>1, <2>2, HaltNames, NoneIsNoRun
<1>6. ManagerInv'
  BY <1>2
<1>7. GovernorTypeOK'
  BY <1>1, <1>4, <1>5 DEF GovernorInv, GovernorTypeOK, Steps, RunSame
<1>8. Coupled'
  BY <1>1, <1>2, <1>3, <1>4, <1>5 DEF GovernorInv, Coupled, Unstarted, ManagerSame,
     RunSame
<1>9. Directed'
  <2>1. verdict' # None => verdict'.halt \in {"none", "no_progress_detected"}
    BY <1>4 DEF GovernorInv, Directed
  <2>2. st'.halt = "none"
    BY <1>1, <1>4 DEF GovernorInv, Directed
  <2> QED  BY <1>5, <2>1, <2>2 DEF Directed, Trying, Working, Stopping
<1>10. Filed'
  BY <1>1, <1>2, <1>3, <1>4, <1>5 DEF GovernorInv, Filed, Working, ManagerSame, RunSame
<1>11. Launches'
  BY <1>1, <1>2, <1>3, <1>4, <1>5, Ranges DEF GovernorInv, Launches, Recorded, Starting,
     Working, Steps, ManagerSame, RunSame
<1>12. Chosen'
  BY <1>1, <1>2, <1>3, <1>4, <1>5 DEF GovernorInv, Chosen, Passes, ManagerSame, RunSame
<1>13. KeepsScore'
  BY <1>1, <1>2, <1>3, <1>4, <1>5 DEF GovernorInv, KeepsScore, ManagerSame, RunSame
<1>14. Tallied'
  <2>1. /\ pc \notin Reviewing /\ pc \in Starting /\ pc' \notin Starting /\ pc' \notin Reviewing
        /\ Begun = starts - 1 /\ Begun' = starts /\ Recorded' = Recorded /\ starts' = starts
    BY <1>1, <1>5 DEF Begun, Recorded, Starting, Reviewing, RunSame
  <2>2. Counted(st.num, st.iter + Begun)
    BY <2>1 DEF GovernorInv, Tallied
  <2>3. (st.num # None <=> st'.num # None) /\ (st'.num # None => st'.num.stale \in Nat)
    BY <1>3, <1>4 DEF LoopState, NumericState
  <2>4. Counted(st'.num, st'.iter + Begun')
    BY <1>4, <2>1, <2>2, <2>3, Ranges DEF Counted
  <2>5. /\ saved # None => Counted(saved.num, saved.iter + Begun')
        /\ mem.proof # None => Counted(mem.proof.num, Recorded + Begun')
        /\ journal # None /\ journal.proof # None => Counted(journal.proof.num, Recorded + Begun')
    BY <1>2, <2>1, Ranges DEF GovernorInv, Tallied, Counted
  <2> QED
    BY <1>1, <1>5, <2>1, <2>4, <2>5 DEF Tallied
<1>15. Graded'
  BY <1>1, <1>2, <1>3, <1>4, <1>5 DEF GovernorInv, Graded, Passes, Weaker, ManagerSame,
     RunSame
<1>16. Converging'
  <2>1. origin # "converged" /\ origin' = origin
    BY <1>1, <1>2 DEF GovernorInv, Coupled, Converging, RunSame
  <2>2. halt' # Success /\ pc' \in {"adopt", "settle"}
    BY <1>1, <1>4 DEF Success
  <2> QED
    BY <1>1, <2>1, <2>2 DEF GovernorInv, Converging, Stopping, RunSame
<1>17. QuietBaselines => InPlace'
  BY <1>1, <1>2, <1>3, <1>4, <1>5 DEF GovernorInv, InPlace, ManagerSame, RunSame
<1> QED
  BY <1>6, <1>7, <1>8, <1>9, <1>10, <1>11, <1>12, <1>13, <1>14, <1>15, <1>16, <1>17 DEF
     GovernorInv
------------------------------------------------------------------------------
(* The invariant holds throughout, and what it says.                        *)

LEMMA GovernorStarts == Init => GovernorInv
<1> SUFFICES ASSUME Init PROVE GovernorInv
  OBVIOUS
<1>1. /\ pc = "down" /\ st = NewRun(setting.score) /\ saved = None /\ origin = "fresh"
      /\ halt = "none" /\ cause = "none" /\ verdict = None /\ receiptBad = FALSE
      /\ deadline = "ahead" /\ shown = None /\ starts = 0
      /\ launched = [i \in 1..MaxIterations |-> 0] /\ accepted = {} /\ converged = FALSE
      /\ edited = FALSE /\ setting \in Settings
      /\ tree = InitialTree /\ store = {} /\ journal = None /\ mem = None /\ op = "idle"
      /\ ret = "ok" /\ ctx = "live" /\ faults = 0
  BY DEF Init, CandidateInit
<1>2. /\ st \in LoopState /\ st.iter = 0 /\ st.halt = "none" /\ Counted(st.num, 0)
      /\ setting.score <=> st.num # None
  <2>1. setting.score \in BOOLEAN
    BY <1>1, GovernorAssumption
  <2> QED  BY <1>1, <2>1, NewRunFields
<1>3. ManagerInv
  BY <1>1, CandidateAssumption
     DEF ManagerInv, CandidateTypeOK, Pointers, Published, Held, Busy, Coherent, KeptInitial,
         ExposedIsBest
<1>4. GovernorTypeOK
  <2>1. launched \in [1..MaxIterations -> Nat]
    BY <1>1
  <2>2. starts \in 0..MaxStarts
    BY <1>1, GovernorAssumption
  <2>3. accepted \subseteq Contents \cup {Torn}
    BY <1>1
  <2> QED  BY <1>1, <1>2, <2>1, <2>2, <2>3, HaltNames DEF GovernorTypeOK
<1>5. Coupled /\ Directed /\ Filed
  BY <1>1, <1>2 DEF Coupled, Directed, Filed, Unstarted, Trying, Working, Stopping
<1>6. Launches
  BY <1>1, <1>2 DEF Launches, Recorded, Starting, Working, Steps
<1>7. Chosen /\ KeepsScore
  BY <1>1, <1>2 DEF Chosen, KeepsScore
<1>8. Tallied
  BY <1>1, <1>2 DEF Tallied, Begun, Starting, Reviewing
<1>9. Graded
  BY <1>1 DEF Graded
<1>10. Converging
  BY <1>1 DEF Converging, Success, Stopping
<1>11. InPlace
  BY <1>1 DEF InPlace
<1> QED  BY <1>3, <1>4, <1>5, <1>6, <1>7, <1>8, <1>9, <1>10, <1>11 DEF GovernorInv

LEMMA GovernorStutters ==
  ASSUME GovernorInv, UNCHANGED vars
  PROVE  GovernorInv'
<1>1. /\ ManagerSame /\ RunSame /\ ctx' = ctx /\ faults' = faults
      /\ pc' = pc /\ st' = st /\ saved' = saved /\ halt' = halt /\ cause' = cause
      /\ verdict' = verdict /\ launched' = launched /\ accepted' = accepted
      /\ edited' = edited
  BY DEF vars, ManagerSame, RunSame
<1>2. ManagerInv'
  BY <1>1, ManagerRests DEF GovernorInv, ManagerInv, CandidateTypeOK, ManagerSame
<1>3. GovernorTypeOK'
  BY <1>1 DEF GovernorInv, GovernorTypeOK, RunSame
<1>4. Coupled' /\ Directed' /\ Filed'
  BY <1>1 DEF GovernorInv, Coupled, Directed, Filed, CleanupDue, ManagerSame, RunSame
<1>5. Launches'
  BY <1>1 DEF GovernorInv, Launches, Recorded
<1>6. Chosen' /\ KeepsScore'
  BY <1>1 DEF GovernorInv, Chosen, KeepsScore, Passes, ManagerSame, RunSame
<1>7. Tallied'
  BY <1>1 DEF GovernorInv, Tallied, Begun, Recorded, ManagerSame, RunSame
<1>8. Graded'
  BY <1>1 DEF GovernorInv, Graded, Passes, Weaker, ManagerSame, RunSame
<1>9. Converging'
  BY <1>1 DEF GovernorInv, Converging, Passes, ManagerSame, RunSame
<1>10. QuietBaselines => InPlace'
  BY <1>1 DEF GovernorInv, InPlace, ManagerSame, RunSame
<1> QED  BY <1>2, <1>3, <1>4, <1>5, <1>6, <1>7, <1>8, <1>9, <1>10 DEF GovernorInv

LEMMA GovernorSteps ==
  ASSUME GovernorInv, [Next]_vars
  PROVE  GovernorInv'
<1>1. CASE UNCHANGED vars
  BY <1>1, GovernorStutters
<1>2. CASE Start \/ Exit
  BY <1>2, StartInv, ExitInv
<1>3. CASE Environment
  BY <1>3, KillInv, DeadlinePassesInv, SignalInv, ReceiptFailsInv, TamperInv DEF Environment
<1>4. CASE Step
  <2>1. CASE OpenCandidate
    BY <2>1, OpenCandidateInv
  <2>2. CASE Recover
    BY <2>2, RecoverInv
  <2>3. CASE Recheck
    BY <2>3, RecheckInv
  <2>4. CASE FirstPersist
    BY <2>4, FirstPersistInv
  <2>5. CASE IntegrityBaseline
    BY <2>5, IntegrityBaselineInv
  <2>6. CASE BaselineCapture
    BY <2>6, BaselineCaptureInv
  <2>7. CASE BaselineSkipped
    BY <2>7, BaselineSkippedInv
  <2>8. CASE BaselineJudge
    BY <2>8, BaselineJudgeInv
  <2>9. CASE BaselinePromote
    BY <2>9, BaselinePromoteInv
  <2>10. CASE Settle
    BY <2>10, SettleInv
  <2>11. CASE LoopEnds
    BY <2>11, LoopEndsInv
  <2>12. CASE LoopIterates
    BY <2>12, LoopIteratesInv
  <2>13. CASE BeginAttempt
    BY <2>13, BeginAttemptInv
  <2>14. CASE PersistIteration
    BY <2>14, PersistIterationInv
  <2>15. CASE ExecRefused
    BY <2>15, ExecRefusedInv
  <2>16. CASE Exec
    BY <2>16, ExecInv
  <2>17. CASE Guards
    BY <2>17, GuardsInv
  <2>18. CASE CaptureAttempt
    BY <2>18, CaptureAttemptInv
  <2>19. CASE Evaluate
    BY <2>19, EvaluateInv
  <2>20. CASE Decide
    BY <2>20, DecideInv
  <2>21. CASE PromoteAttempt
    BY <2>21, PromoteAttemptInv
  <2>22. CASE RestoreAttempt
    BY <2>22, RestoreAttemptInv
  <2>23. CASE Conclude
    BY <2>23, ConcludeInv
  <2>24. CASE Record
    BY <2>24, RecordInv
  <2>25. CASE Final
    BY <2>25, FinalInv
  <2>26. CASE Cleanup
    BY <2>26, CleanupInv
  <2>27. CASE ReportHalt
    BY <2>27, ReportHaltInv
  <2> QED
    BY <1>4, <2>1, <2>2, <2>3, <2>4, <2>5, <2>6, <2>7, <2>8, <2>9, <2>10, <2>11, <2>12,
       <2>13, <2>14, <2>15, <2>16, <2>17, <2>18, <2>19, <2>20, <2>21, <2>22, <2>23, <2>24,
       <2>25, <2>26, <2>27 DEF Step
<1> QED  BY <1>1, <1>2, <1>3, <1>4 DEF Next

\* The inductive invariant of executeRun, from which the others follow.
THEOREM GovernorCorrect == Spec => []GovernorInv
<1>1. Init => GovernorInv
  BY GovernorStarts
<1>2. GovernorInv /\ [Next]_vars => GovernorInv'
  BY GovernorSteps
<1> QED  BY <1>1, <1>2, PTL DEF Spec

\* The loop state, the state file and what run.go keeps besides have their types.
THEOREM GovernorTypes == Spec => []TypeOK
<1>1. GovernorInv => TypeOK
  BY DEF GovernorInv, ManagerInv, GovernorTypeOK, TypeOK
<1> QED  BY <1>1, GovernorCorrect, PTL

\* Whatever kills the process and whichever save fails, executeRun launches the
\* work command of an iteration at most once.
THEOREM NoReplay == Spec => []OneLaunchPerIteration
<1>1. GovernorInv => OneLaunchPerIteration
  BY DEF GovernorInv, Launches, OneLaunchPerIteration
<1> QED  BY <1>1, GovernorCorrect, PTL

\* The journal never names a content that a guard of executeRun refused.
THEOREM OnlyAcceptedIsCommitted == Spec => []CommittedBestIsAccepted
<1>1. GovernorInv => CommittedBestIsAccepted
  BY DEF GovernorInv, Chosen, CommittedBestIsAccepted
<1> QED  BY <1>1, GovernorCorrect, PTL

\* Whichever step of executeRun a kill interrupts, the journal points to published
\* snapshots, and its best is the manager's or the one it was committing.
THEOREM GovernedRecovery == Spec => []RecoverySnapshot
<1>1. GovernorInv => RecoverySnapshot
  BY DEF GovernorInv, ManagerInv, Pointers, Published, Held, RecoverySnapshot
<1> QED  BY <1>1, GovernorCorrect, PTL
\* The best candidate of the manager changes only when a promotion commits.
LEMMA BestStays ==
  ASSUME GovernorInv, [Next]_vars, mem # None, mem' # None, ~PromoteAttempt, ~BaselinePromote
  PROVE  mem'.best = mem.best
<1>1. mem \in CandidateState
  BY DEF GovernorInv, ManagerInv, CandidateTypeOK
<1>2. ASSUME RestoreStep  PROVE mem'.best = mem.best
  BY <1>1, <1>2
     DEF RestoreStep, RestoreStart, RestoreCopy, RestoreFinish, RestoreFails, GivesUp,
         CandidateState
<1>3. ASSUME Attempted  PROVE mem'.best = mem.best
  BY <1>1, <1>3 DEF Attempted, Snapshot, GivesUp, CandidateState
<1>4. ASSUME Begin  PROVE mem'.best = mem.best
  BY <1>1, <1>4 DEF Begin, CandidateState
<1>5. CASE UNCHANGED mem
  BY <1>5
<1>6. CASE Start \/ Exit \/ Environment
  BY <1>6 DEF Start, Exit, Environment, Kill, DeadlinePasses, Signal, ReceiptFails, Tamper,
              Leave, SetContext, Rewrite, cvars, Manager
<1>7. CASE OpenCandidate
  BY <1>7 DEF OpenCandidate, GovernorInv, Coupled, Unstarted
<1>8. CASE Recover \/ Recheck \/ RestoreAttempt \/ Cleanup
  BY <1>2, <1>8 DEF Recover, Recheck, RestoreAttempt, Cleanup, KeepTree, cvars
<1>9. CASE BaselineCapture \/ CaptureAttempt
  BY <1>3, <1>9 DEF BaselineCapture, CaptureAttempt
<1>10. CASE BeginAttempt
  BY <1>4, <1>10 DEF BeginAttempt, cvars
<1>11. CASE \/ FirstPersist \/ IntegrityBaseline \/ BaselineSkipped \/ BaselineJudge \/ Settle
            \/ LoopEnds \/ LoopIterates \/ PersistIteration \/ ExecRefused \/ Exec \/ Guards
            \/ Evaluate \/ Decide \/ Conclude \/ Record \/ Final \/ ReportHalt
  BY <1>11
     DEF FirstPersist, IntegrityBaseline, BaselineSkipped, BaselineJudge, Settle, LoopEnds,
         LoopIterates, PersistIteration, ExecRefused, Exec, Guards, Evaluate, Decide,
         Conclude, Record, Final, ReportHalt, cvars, Manager, Rewrite, SetContext
<1> QED
  BY <1>5, <1>6, <1>7, <1>8, <1>9, <1>10, <1>11 DEF Next, Step, vars

LEMMA GainsAddUp ==
  ASSUME NEW a \in Int, NEW b \in Int, NEW c \in Int, Gain(a, b) >= 0, Gain(b, c) >= 0
  PROVE  Gain(a, c) >= 0
BY ScorePolicyAssumption DEF Gain

\* A promotion of an attempt does not lower the score of the best.
LEMMA PromotionGains ==
  ASSUME GovernorInv, PromoteAttempt, mem # None, mem' # None, mem'.best # mem.best,
         BestScore(mem) # NoScore
  PROVE  Gain(BestScore(mem'), BestScore(mem)) >= 0
<1> DEFINE e == Proof(verdict, st.num)
<1>1. /\ pc = "promote" /\ PromoteStep(e) /\ verdict # None /\ edited' = edited
      /\ halt = "none"
  BY DEF PromoteAttempt, Attempt, GovernorInv, Directed, Trying, Working
<1>2. /\ ret = "ok" /\ op \in {"idle", "promoting"}
      /\ op = "idle" => ~mem.exposed
      /\ QuietBaselines => tree = mem.attempted
  BY <1>1, HasManager
     DEF Unstarted, GovernorInv, Coupled, InPlace, ManagerInv, Coherent, CandidateTypeOK
<1>3. e \in Proofs /\ e.score = verdict.value
  BY <1>1, ProofIsRecordable
<1> HIDE DEF e
<1>4. mem'.proof = e
  BY <1>1, <1>2, <1>3, ManagerPromotes DEF GovernorInv
<1>5. e # None
  BY <1>3, EvidenceAssumption, CandidateAssumption
<1>6. BestScore(mem') = verdict.value
  BY <1>3, <1>4, <1>5 DEF BestScore
<1>7. /\ mem.proof # None /\ BestScore(mem) = mem.proof.score /\ mem.proof.score # NoScore
      /\ mem.proof \in Proofs
  BY DEF BestScore, GovernorInv, ManagerInv, Coherent
<1>8. /\ mem.proof.num # None /\ mem.proof.num.best # NoScore
      /\ Gain(mem.proof.num.best, mem.proof.score) >= 0
      /\ setting.score
  BY <1>7 DEF GovernorInv, Graded, Reaches
<1>9. verdict.value # NoScore /\ ~Weaker
  BY <1>1, <1>8 DEF GovernorInv, Graded, Passes
<1>10. /\ mem.proof.num.best \in Int /\ mem.proof.score \in Int /\ verdict.value \in Int
  <2>1. mem.proof.num \in RunNumeric /\ mem.proof.score \in Score \cup {NoScore}
    BY <1>7, <1>8 DEF Proofs
  <2>2. mem.proof.num.best \in Score \cup {NoScore}
    BY <2>1 DEF RunNumeric
  <2>3. verdict.value \in Score \cup {NoScore}
    BY <1>1 DEF GovernorInv, GovernorTypeOK, Verdict
  <2> QED  BY <1>7, <1>8, <1>9, <2>1, <2>2, <2>3, ScorePolicyAssumption DEF Score
<1>11. ~(Gain(verdict.value, mem.proof.num.best) < 0)
  BY <1>7, <1>8, <1>9 DEF Weaker
<1>12. Gain(verdict.value, mem.proof.num.best) >= 0
  BY <1>10, <1>11, ScorePolicyAssumption DEF Gain
<1> QED  BY <1>6, <1>7, <1>8, <1>10, <1>12, GainsAddUp

\* Neither a tolerated decrease nor a resumed run with an older numeric state lets
\* promote replace the best by a candidate of a lower score.
THEOREM BestOnlyImproves == Spec => BestNeverWorse
<1>1. GovernorInv /\ [Next]_vars =>
        [mem # None /\ mem' # None /\ mem'.best # mem.best /\ BestScore(mem) # NoScore
           => Gain(BestScore(mem'), BestScore(mem)) >= 0]_vars
  <2> SUFFICES ASSUME GovernorInv, [Next]_vars, mem # None, mem' # None,
                      mem'.best # mem.best, BestScore(mem) # NoScore
               PROVE  Gain(BestScore(mem'), BestScore(mem)) >= 0
    OBVIOUS
  <2>1. CASE PromoteAttempt
    BY <2>1, PromotionGains
  <2>2. CASE BaselinePromote
    <3>1. mem.best = None /\ mem.proof = None
      BY <2>2 DEF BaselinePromote, GovernorInv, Coupled, ManagerInv, Coherent
    <3> QED  BY <3>1 DEF BestScore
  <2> QED  BY <2>1, <2>2, BestStays
<1> QED  BY <1>1, GovernorCorrect, PTL DEF Spec, BestNeverWorse

------------------------------------------------------------------------------
(* What holds when no hook writes the directory of a run with a baseline.   *)

\* What the manager of a run calls exposed is what the directory holds.
THEOREM BestIsInPlace ==
  ASSUME QuietBaselines
  PROVE  Spec => []ExposedIsBest
<1>1. GovernorInv => ExposedIsBest
  BY DEF GovernorInv, ManagerInv
<1> QED  BY <1>1, GovernorCorrect, PTL

\* However a process of executeRun halts, it leaves the best candidate or the
\* initial content in the directory, unless it says that the restoration failed.
THEOREM HaltsRestored ==
  ASSUME QuietBaselines
  PROVE  Spec => []HaltRestores
<1>1. GovernorInv => HaltRestores
  <2> SUFFICES ASSUME GovernorInv, pc = "halted", mem # None, cause # "restoration_failed",
                      ~(edited /\ mem.best = None)
               PROVE  tree = Target(mem)
    BY DEF HaltRestores
  <2>1. mem.exposed \/ mem.status = "restored"
    BY DEF GovernorInv, Directed, CleanupDue
  <2>2. CASE mem.exposed
    BY <2>2 DEF GovernorInv, ManagerInv, ExposedIsBest, Coupled, Target
  <2>3. CASE ~mem.exposed
    BY <2>1, <2>3 DEF GovernorInv, ManagerInv, Coherent, KeptInitial, Target
  <2> QED  BY <2>2, <2>3
<1> QED  BY <1>1, GovernorCorrect, PTL

\* The candidate that a response shows passed its guards and is in the directory,
\* and a converged run shows one.
THEOREM ResponsesAreTrue ==
  ASSUME QuietBaselines
  PROVE  Spec => []ResponseShowsBest
<1>1. GovernorInv => ResponseShowsBest
  BY DEF GovernorInv, Converging, InPlace, ResponseShowsBest
<1> QED  BY <1>1, GovernorCorrect, PTL
------------------------------------------------------------------------------
(* The governor uses the candidate manager as Candidate demands.            *)

\* A fresh start finds no interrupted journal.  It would not restore one: only a
\* resumed run looks at the status, and only a run with a state file is resumed.
FreshFindsSettled == pc = "recover" /\ origin = "fresh" => mem.status \in Settled

\* Between two attempts the journal is settled, or its baseline was not accepted.
Steady ==
  /\ pc \in {"persist0", "integrity", "baseline"} /\ halt = "none" => mem.status \in Settled
  /\ pc \in {"settle", "loop", "begin", "conclude", "record"} /\ halt = "none"
       => mem.status \in Settled \cup {"evaluating"}

\* A restoration ends with the status "restored".
LEMMA RestoringEnds ==
  ASSUME GovernorInv, mem # None, op # "promoting", RestoreStep, edited' = edited
  PROVE  op' = "idle" /\ ret' = "ok" => mem'.status \in Settled
BY ManagerRestores DEF GovernorInv, Settled

\* A promotion of the governor that succeeds ends with a settled status.
LEMMA PromotingEnds ==
  ASSUME GovernorInv, pc \in {"adopt", "promote"}, PromoteStep(Proof(verdict, st.num)),
         edited' = edited
  PROVE  op' = "idle" /\ ret' = "ok" => mem'.status \in Settled
<1> DEFINE e == Proof(verdict, st.num)
<1>1. /\ mem # None /\ ret = "ok" /\ op \in {"idle", "promoting"} /\ verdict # None
      /\ op = "idle" => ~mem.exposed
      /\ QuietBaselines => tree = mem.attempted
  BY HasManager
     DEF Unstarted, GovernorInv, Coupled, Directed, Trying, Working, InPlace, ManagerInv,
         Coherent, CandidateTypeOK
<1>2. e \in Proofs /\ PromoteStep(e)
  BY <1>1, ProofIsRecordable
<1> HIDE DEF e
<1>3. /\ ManagerInv' /\ mem' # None
      /\ op' = "idle" /\ ret' = "ok" => mem'.exposed
  BY <1>1, <1>2, ManagerPromotes DEF GovernorInv
<1> QED  BY <1>3 DEF ManagerInv, Coherent, Settled

LEMMA SteadySteps ==
  ASSUME GovernorInv, Steady, FreshFindsSettled, [Next]_vars
  PROVE  Steady'
<1>1. CASE UNCHANGED vars \/ Start \/ Exit \/ Environment
  BY <1>1
     DEF vars, Start, Exit, Environment, Kill, DeadlinePasses, Signal, ReceiptFails, Tamper,
         Forget, SetContext, Rewrite, Manager, cvars, gvars, GoTo, Steady
<1>2. CASE OpenCandidate
  BY <1>2 DEF OpenCandidate, Continue, Fail, GoTo, Steady
<1>3. CASE Recover
  <2>1. CASE origin = "fresh" /\ mem' = mem /\ pc' = "persist0"
    BY <1>3, <2>1 DEF Recover, FreshFindsSettled, Steady
  <2>2. CASE KeepTree /\ pc' = "persist0"
    <3>1. mem \in CandidateState /\ mem' = mem /\ mem.status \notin Interrupted
      BY <1>3, <2>2, HasManager
         DEF Recover, KeepTree, NeedsRestore, GovernorInv, ManagerInv, CandidateTypeOK, Coupled,
             Directed, Trying, Unstarted
    <3> QED  BY <2>2, <3>1 DEF CandidateState, Steady
  <2>3. CASE pc' \in {"recover", "recheck"} \/ (pc' = "persist0" /\ halt' = "failed")
    BY <2>3 DEF Steady
  <2> QED  BY <1>3, <2>1, <2>2, <2>3 DEF Recover, Continue, Fail, GoTo
<1>4. CASE Recheck
  <2>1. mem # None /\ op # "promoting" /\ edited' = edited /\ mem \in CandidateState
    BY <1>4, HasManager
       DEF Recheck, Attempt, GovernorInv, ManagerInv, CandidateTypeOK, Coupled, Directed,
           Trying, Unstarted
  <2>2. CASE ~NeedsRestore /\ mem' = mem /\ pc' = "persist0"
    BY <2>1, <2>2 DEF NeedsRestore, CandidateState, Steady
  <2>3. CASE RestoreStep /\ op' = "idle" /\ ret' = "ok" /\ pc' = "persist0"
    BY <2>1, <2>3, RestoringEnds DEF Steady
  <2>4. CASE pc' = "recheck" \/ (pc' = "persist0" /\ halt' = "failed")
    BY <2>4 DEF Steady
  <2> QED  BY <1>4, <2>2, <2>3, <2>4 DEF Recheck, Continue, Fail, GoTo, cvars
<1>5. CASE \/ FirstPersist \/ IntegrityBaseline \/ BaselineSkipped \/ Settle \/ LoopEnds
           \/ LoopIterates \/ Conclude \/ Record
  BY <1>5
     DEF FirstPersist, IntegrityBaseline, BaselineSkipped, Settle, LoopEnds, LoopIterates,
         Conclude, Record, Continue, Fail, GoTo, Manager, cvars, Steady, GovernorInv, Directed,
         Trying, Working
<1>6. CASE BaselineJudge
  <2>1. mem' = mem /\ mem.status = "evaluating" /\ pc' \in {"adopt", "settle"}
    BY <1>6 DEF BaselineJudge, Manager, Fail, Continue, GoTo, GovernorInv, Coupled
  <2> QED  BY <2>1 DEF Steady
<1>7. CASE BaselineCapture
  BY <1>7 DEF BaselineCapture, Continue, Fail, GoTo, Steady
<1>8. CASE BaselinePromote \/ PromoteAttempt
  BY <1>8, PromotingEnds
     DEF BaselinePromote, PromoteAttempt, Attempt, Continue, Fail, GoTo, Steady
<1>9. CASE RestoreAttempt
  <2>1. mem # None /\ op # "promoting" /\ edited' = edited
    BY <1>9, HasManager
       DEF RestoreAttempt, Attempt, GovernorInv, Coupled, Directed, Trying, Working, Unstarted
  <2> QED
    BY <1>9, <2>1, RestoringEnds DEF RestoreAttempt, Continue, Fail, GoTo, Steady
<1>10. CASE \/ BeginAttempt \/ PersistIteration \/ ExecRefused \/ Exec \/ Guards
            \/ CaptureAttempt \/ Evaluate \/ Decide \/ Final \/ Cleanup \/ ReportHalt
  <2>1. pc' \in {"persist", "exec", "guards", "capture", "evaluate", "decide", "promote",
                 "reject", "final", "cleanup", "report", "halted"}
    BY <1>10
       DEF BeginAttempt, PersistIteration, ExecRefused, Exec, Guards, CaptureAttempt, Evaluate,
           Decide, Final, Cleanup, ReportHalt, Continue, Fail, GoTo
  <2> QED  BY <2>1 DEF Steady
<1> QED
  BY <1>1, <1>2, <1>3, <1>4, <1>5, <1>6, <1>7, <1>8, <1>9, <1>10 DEF Next, Step
\* One step of a restoration is a step of the manager.
LEMMA RestoringIsAllowed ==
  ASSUME mem # None, RestoreStep, op = "opened" => NeedsRestore
  PROVE  CandidateNext
BY DEF RestoreStep, RestoreStart, CandidateNext

\* The steps that leave the manager alone may meet a fault, or end its context.
LEMMA RestingIsAllowed ==
  ASSUME UNCHANGED <<tree, Manager>>, NoFault \/ Fault
  PROVE  [CandidateNext]_cvars
BY DEF Manager, CandidateNext, FaultElsewhere, NoFault, cvars

LEMMA GovernorAllowed ==
  ASSUME QuietBaselines, GovernorInv, Steady, FreshFindsSettled, [Next]_vars
  PROVE  [CandidateNext]_cvars
<1>1. CASE UNCHANGED vars \/ Start
  BY <1>1 DEF vars, Start, cvars
<1>2. CASE Exit \/ Kill
  <2>1. op = "idle" \/ Kill
    BY <1>2 DEF Exit, GovernorInv, Coupled, GovernorTypeOK, ManagerInv, CandidateTypeOK
  <2>2. (IF deadline = "passed" THEN "done" ELSE "live") \in {"live", "done"}
    OBVIOUS
  <2> QED  BY <1>2, <2>1, <2>2 DEF Exit, Kill, CandidateNext
<1>3. CASE DeadlinePasses
  <2>1. (IF ctx = "cleanup" THEN "cleanup" ELSE "done") \in {"done", "cleanup"}
    OBVIOUS
  <2> QED  BY <1>3, <2>1 DEF DeadlinePasses, CandidateNext
<1>4. CASE Signal
  BY <1>4 DEF Signal, CandidateNext
<1>5. CASE ReceiptFails
  BY <1>5, RestingIsAllowed DEF ReceiptFails
<1>6. CASE Tamper
  BY <1>6 DEF Tamper, GovernorInv, Coupled, Unstarted, CandidateNext
<1>7. CASE OpenCandidate
  BY <1>7 DEF OpenCandidate, GovernorInv, Coupled, Unstarted, CandidateNext
<1>8. CASE Recover
  <2>1. mem # None
    BY <1>8, HasManager DEF Recover, GovernorInv, Directed, Trying, Unstarted
  <2>2. CASE /\ origin = "fresh" /\ op' = "idle"
             /\ UNCHANGED <<tree, store, journal, mem, ret, ctx, faults>>
    <3>1. /\ op = "opened" /\ mem.status \in Settled /\ ~mem.exposed
      BY <1>8, <2>1, <2>2, FreshHidesNothing
         DEF Recover, FreshFindsSettled, GovernorInv, Coupled, Filed
    <3>2. KeepTree
      BY <2>2, <3>1 DEF KeepTree, NeedsRestore, Settled, Interrupted
    <3> QED  BY <2>1, <3>2 DEF CandidateNext
  <2>3. CASE KeepTree
    BY <2>1, <2>3 DEF CandidateNext
  <2>4. CASE RestoreStep /\ (op = "opened" => NeedsRestore)
    BY <2>1, <2>4, RestoringIsAllowed
  <2> QED  BY <1>8, <2>2, <2>3, <2>4 DEF Recover
<1>9. CASE Recheck \/ RestoreAttempt \/ Cleanup
  <2>1. mem # None /\ op # "opened"
    BY <1>9, HasManager
       DEF Recheck, RestoreAttempt, Cleanup, GovernorInv, Coupled, Directed, Trying, Working,
           Unstarted
  <2> QED  BY <1>9, <2>1, RestoringIsAllowed DEF Recheck, RestoreAttempt, Cleanup
<1>10. CASE FirstPersist \/ PersistIteration \/ Record \/ ReportHalt
  BY <1>10, RestingIsAllowed DEF FirstPersist, PersistIteration, Record, ReportHalt, Persist
<1>11. CASE \/ IntegrityBaseline \/ BaselineSkipped \/ Settle \/ LoopEnds \/ LoopIterates
            \/ ExecRefused \/ Guards \/ Decide \/ Conclude
  BY <1>11
     DEF IntegrityBaseline, BaselineSkipped, Settle, LoopEnds, LoopIterates, ExecRefused,
         Guards, Decide, Conclude
<1>12. CASE Final
  BY <1>12 DEF Final, CandidateNext
<1>13. CASE BaselineCapture
  <2>1. /\ halt = "none" /\ mem # None /\ mem.best = None /\ mem.status \in Settled
        /\ Attempted /\ pc = "baseline"
    BY <1>13 DEF BaselineCapture, BaselineDue, Steady
  <2>2. /\ ~mem.exposed /\ mem.status \in {"initial", "restored"} /\ op = "idle" /\ ret = "ok"
    BY <2>1, HasManager
       DEF GovernorInv, ManagerInv, CandidateTypeOK, Coherent, Coupled, Unstarted, Settled
  <2> QED  BY <2>1, <2>2 DEF Ready, CandidateNext
<1>14. CASE BeginAttempt
  <2>1. CASE UNCHANGED cvars
    BY <2>1
  <2>2. CASE Begin
    <3>1. pc = "begin" /\ halt = "none"
      BY <1>14 DEF BeginAttempt, GovernorInv, Directed, Trying
    <3>2. mem # None /\ op = "idle" /\ ret = "ok" /\ mem.status \in Settled \cup {"evaluating"}
      BY <3>1, HasManager
         DEF Steady, GovernorInv, ManagerInv, CandidateTypeOK, Coupled, Unstarted
    <3> QED  BY <2>2, <3>2 DEF Ready, CandidateNext
  <2> QED  BY <1>14, <2>1, <2>2 DEF BeginAttempt
<1>15. CASE Exec \/ Evaluate \/ BaselineJudge
  <2>1. /\ pc \in {"exec", "evaluate", "judge"} /\ halt = "none"
    BY <1>15 DEF Exec, Evaluate, BaselineJudge, GovernorInv, Directed, Trying, Working
  <2>2. /\ mem # None /\ op = "idle" /\ ret = "ok" /\ ~mem.exposed
        /\ mem.status \in {"attempting", "evaluating"}
    BY <2>1, HasManager
       DEF GovernorInv, ManagerInv, CandidateTypeOK, Coherent, Coupled, Unstarted
  <2>3. tree' = tree \/ tree' \in Contents
    BY <1>15 DEF Exec, Evaluate, BaselineJudge, HookWrites, Rewrite
  <2>4. UNCHANGED <<store, journal, mem, op, ret, ctx, faults>>
    BY <1>15 DEF Exec, Evaluate, BaselineJudge, Rewrite, Manager
  <2>5. UNCHANGED cvars \/ Rewrite
    BY <2>3, <2>4 DEF cvars, Rewrite
  <2> QED  BY <2>2, <2>5 DEF Ready, CandidateNext
<1>16. CASE CaptureAttempt
  <2>1. pc = "capture" /\ halt = "none" /\ Attempted
    BY <1>16 DEF CaptureAttempt, GovernorInv, Directed, Trying, Working
  <2>2. /\ mem # None /\ op = "idle" /\ ret = "ok" /\ ~mem.exposed
        /\ mem.status = "attempting"
    BY <2>1, HasManager
       DEF GovernorInv, ManagerInv, CandidateTypeOK, Coherent, Coupled, Unstarted
  <2> QED  BY <2>1, <2>2 DEF Ready, CandidateNext
<1>17. CASE BaselinePromote \/ PromoteAttempt
  <2> DEFINE e == Proof(verdict, st.num)
  <2>1. pc \in {"adopt", "promote"} /\ halt = "none" /\ PromoteStep(e) /\ verdict # None
    BY <1>17 DEF BaselinePromote, PromoteAttempt, GovernorInv, Directed, Trying, Working
  <2>2. mem # None /\ ret = "ok" /\ tree = mem.attempted
        /\ (op = "idle" => mem.status = "evaluating")
    BY <2>1, HasManager DEF GovernorInv, Coupled, InPlace, Unstarted
  <2>3. e \in Evidence
    BY <2>1, ProofIsRecordable, EvidenceAssumption
  <2> HIDE DEF e
  <2>4. CASE op = "idle" /\ (PromoteStage \/ GivesUp)
    BY <2>2, <2>4 DEF Ready, CandidateNext
  <2>5. CASE PromoteCommit(e)
    BY <2>2, <2>3, <2>5 DEF PromoteCommit, CandidateNext
  <2>6. CASE PromoteCancelled
    BY <2>2, <2>6 DEF CandidateNext
  <2> QED  BY <2>1, <2>4, <2>5, <2>6 DEF PromoteStep
<1> QED
  BY <1>1, <1>2, <1>3, <1>4, <1>5, <1>6, <1>7, <1>8, <1>9, <1>10, <1>11, <1>12, <1>13, <1>14,
     <1>15, <1>16, <1>17
     DEF Next, Step, Environment

\* executeRun calls the candidate manager only in the order that Candidate allows,
\* as long as no fresh start finds an interrupted journal.
THEOREM GovernorTransacts ==
  ASSUME QuietBaselines
  PROVE  Spec /\ []FreshFindsSettled => CandidateSpec
<1>1. Init => CandidateInit /\ Steady
  BY DEF Init, Steady
<1>2. GovernorInv /\ Steady /\ FreshFindsSettled /\ [Next]_vars => Steady'
  BY SteadySteps
<1>3. GovernorInv /\ Steady /\ FreshFindsSettled /\ [Next]_vars => [CandidateNext]_cvars
  BY GovernorAllowed
<1> QED  BY <1>1, <1>2, <1>3, GovernorCorrect, PTL DEF Spec, CandidateSpec

\* Then a half restored directory is always announced by the journal, and never
\* captured.
THEOREM GovernedRestoration ==
  ASSUME QuietBaselines
  PROVE  Spec /\ []FreshFindsSettled => []TornIsCovered
BY GovernorTransacts, RestorationCovered, PTL
=============================================================================
