------------------------------- MODULE Governor -------------------------------
(***************************************************************************)
(* The governor of `loopexec run --workflow` with a candidate              *)
(* (cmd/loopexec/run.go, executeRun and verifyBaseline), composed with the *)
(* candidate manager of Candidate and the numeric progress of Numeric.     *)
(*                                                                         *)
(* One run id is started, killed, halted and resumed.  The run lock admits *)
(* one governor at a time, so there is one process; what races with it is  *)
(* the deadline, a signal, and whoever writes the candidate directory.     *)
(* The process keeps `st`, `halt` and `cause`; `saved` is the per-run      *)
(* state file that --resume reads.  Every reason that fail() is given is   *)
(* "failed": only those that are told apart keep their names; "none" is    *)
(* the empty string.                                                       *)
(***************************************************************************)
EXTENDS Candidate, Numeric

CONSTANTS
  MaxIterations,  \* --max-iterations
  MaxStarts,      \* how often the run is started or resumed
  Settings        \* runs considered: records [score, baseline, meddling]

ASSUME GovernorAssumption ==
  /\ MaxIterations \in Nat \ {0}
  /\ MaxStarts \in Nat
  /\ Settings \subseteq [score: BOOLEAN, baseline: BOOLEAN, meddling: BOOLEAN]
  /\ None \notin NumericState

VARIABLES
  setting,    \* is there a score, a baseline; may hooks write the candidate
  pc,         \* the next step of executeRun; "down" without a process
  st,         \* loopState in memory
  saved,      \* run-<id>.state.json, or None
  origin,     \* what the process found: "fresh", "resumed", "converged"
  halt,       \* the halt reason so far
  cause,      \* failure_cause, as far as it is told apart
  verdict,    \* the evaluation of the current attempt, or None
  receiptBad, \* receiptWriter.err: sticky within one process
  deadline,   \* the persisted absolute deadline: "ahead" or "passed"
  shown,      \* best_candidate of the last response, or None
  starts,
  launched,   \* history: launches of the work command per iteration
  accepted,   \* history: contents that passed technical and acceptance guards
  converged,  \* history: some process reported success_condition_met
  edited      \* history: somebody edited the candidate since an attempt was recorded

gvars == <<setting, pc, st, saved, origin, halt, cause, verdict, receiptBad,
           deadline, shown, starts, launched, accepted, converged, edited>>
vars == <<tree, store, journal, mem, op, ret, ctx, faults,
          setting, pc, st, saved, origin, halt, cause, verdict, receiptBad,
          deadline, shown, starts, launched, accepted, converged, edited>>

Success == "success_condition_met"
Halts   == {"none", "failed", Success, "no_progress_detected", "max_iterations_reached"}
Phases  == {"running", "attempting", "evaluated", "halted"}

NewRun(scored) == [iter |-> 0, phase |-> "running", halt |-> "none",
                   num |-> IF scored THEN NewNumeric ELSE None]
LoopState == [iter: 0..MaxIterations, phase: Phases, halt: Halts,
              num: NumericState \cup {None}]

Verdict == [rc: {0, 1}, technical: BOOLEAN, accept: BOOLEAN, target: BOOLEAN,
            halt: Halts, value: Score \cup {NoScore}]

\* What promote(fp, numeric) records, and (history) the candidate's own score.
Proof(v, num) == [rc |-> v.rc, num |-> num, score |-> v.value]

\* The numeric states of a run: each observation counts at most one review without
\* improvement, and there is one per iteration and one per baseline.
RunNumeric == [best: Score \cup {NoScore}, anchor: Score \cup {NoScore},
               stale: 0..(MaxIterations + MaxStarts)]

Proofs == [rc: {0, 1}, num: RunNumeric \cup {None}, score: Score \cup {NoScore}]

ASSUME EvidenceAssumption == Proofs \subseteq Evidence
ASSUME NoneIsNoRun == None \notin LoopState /\ None \notin Verdict

Steps == {"open", "recover", "recheck", "persist0", "integrity", "baseline", "judge",
          "adopt", "settle", "loop", "begin", "persist", "exec", "guards",
          "capture", "evaluate", "decide", "promote", "reject", "conclude",
          "record", "final", "cleanup", "report"}

Init ==
  /\ CandidateInit
  /\ setting \in Settings
  /\ pc = "down"
  /\ st = NewRun(setting.score)
  /\ saved = None
  /\ origin = "fresh"
  /\ halt = "none"
  /\ cause = "none"
  /\ verdict = None
  /\ receiptBad = FALSE
  /\ deadline = "ahead"
  /\ shown = None
  /\ starts = 0
  /\ launched = [i \in 1..MaxIterations |-> 0]
  /\ accepted = {}
  /\ converged = FALSE
  /\ edited = FALSE

------------------------------------------------------------------------------
(* Helpers.                                                                 *)

GoTo(step) == pc' = step
\* fail(reason, cause), and the jump that follows it.
Fail(why, step) == halt' = "failed" /\ cause' = why /\ GoTo(step)
Continue(step)  == UNCHANGED <<halt, cause>> /\ GoTo(step)

\* persist: the per-run state file becomes s.  It fails at once after a lost
\* receipt event, and before or after its rename when the storage fails.
Persist(s, ok) ==
  \/ ~receiptBad /\ saved' = s /\ NoFault /\ ok = TRUE
  \/ receiptBad /\ UNCHANGED saved /\ NoFault /\ ok = FALSE
  \/ ~receiptBad /\ saved' \in {saved, s} /\ Fault /\ ok = FALSE

Quiet == UNCHANGED <<setting, starts, origin, deadline, converged, shown, receiptBad>>

\* A hook may write the candidate directory where the setting lets it.
HookWrites == \/ UNCHANGED tree
              \/ setting.meddling /\ tree' \in Contents

\* What dies with the process.
Forget ==
  /\ pc' = "down"
  /\ st' = NewRun(setting.score)
  /\ origin' = "fresh"
  /\ halt' = "none"
  /\ cause' = "none"
  /\ verdict' = None
  /\ receiptBad' = FALSE

Manager   == <<store, journal, mem, op, ret, ctx>>
Attempt   == <<verdict, launched, accepted, edited>>
Reasons   == <<halt, cause>>

------------------------------------------------------------------------------
(* Starting and resuming: lines 56 to 236.                                  *)

\* The process reads the state file of its run id.  Without one the run is
\* fresh; with one only --resume is admitted (ensureNewRun).
Start ==
  /\ pc = "down"
  /\ starts < MaxStarts
  /\ starts' = starts + 1
  /\ IF saved = None
     THEN /\ origin' = "fresh"
          /\ st' = NewRun(setting.score)
     ELSE /\ origin' = IF saved.halt = Success THEN "converged" ELSE "resumed"
          /\ st' = [saved EXCEPT !.phase = "running", !.halt = "none"]
  /\ GoTo("open")
  /\ UNCHANGED <<cvars, setting, saved, Reasons, Attempt, receiptBad, deadline, shown, converged>>

\* The protected files of a resumed run, then newCandidate.
OpenCandidate ==
  /\ pc = "open"
  /\ Open
  /\ IF ret' = "ok" THEN Continue("recover") ELSE Fail("other", "persist0")
  /\ UNCHANGED <<st, saved, Attempt>> /\ Quiet

\* Line 204: a promotion that was committed before its iteration was recorded.
Recovered(manager, run) ==
  IF /\ origin # "fresh"
     /\ setting.score /\ manager.proof # None
     /\ manager.status = "accepted"
     /\ saved.phase = "attempting"
  THEN [run EXCEPT !.num = manager.proof.num] ELSE run

\* Lines 190 to 198: keep the directory, or restore it.  A fresh start does not
\* look: it keeps whatever an earlier start of its run id has left.
Recover ==
  /\ pc = "recover"
  /\ \/ /\ origin = "fresh"
        /\ op' = "idle"
        /\ Continue("persist0")
        /\ UNCHANGED <<tree, store, journal, mem, ret, ctx, faults, st>>
     \/ /\ origin # "fresh"
        /\ KeepTree
        /\ Continue("persist0")
        /\ st' = Recovered(mem, st)
     \/ /\ origin # "fresh"
        /\ op = "opened" => NeedsRestore
        /\ RestoreStep
        /\ IF op' # "idle"
           THEN Continue(IF op = "opened" /\ mem.status \in Settled THEN "recheck" ELSE "recover")
           ELSE IF ret' = "ok" THEN Continue("recheck")
           ELSE Fail("restoration_failed", "persist0")
        /\ UNCHANGED st
  /\ UNCHANGED <<saved, Attempt>> /\ Quiet

\* Lines 196 to 203: an exposed best that cannot be compared is restored again.
Recheck ==
  /\ pc = "recheck"
  /\ \/ op = "idle" /\ ~NeedsRestore /\ Continue("persist0") /\ UNCHANGED cvars
     \/ /\ op = "idle" => NeedsRestore
        /\ RestoreStep
        /\ IF op' # "idle" THEN Continue("recheck")
           ELSE IF ret' = "ok" THEN Continue("persist0")
           ELSE Fail("restoration_failed", "persist0")
  /\ UNCHANGED <<st, saved, Attempt>> /\ Quiet

\* Line 213: the first save, which every start makes.
FirstPersist ==
  /\ pc = "persist0"
  /\ \E ok \in BOOLEAN :
       /\ Persist(st, ok)
       /\ IF ok THEN Continue("integrity") ELSE Fail("other", "integrity")
  /\ UNCHANGED <<tree, Manager, st, Attempt>> /\ Quiet

\* Lines 216 to 228: the baseline of the integrity collector.
IntegrityBaseline ==
  /\ pc = "integrity"
  /\ \/ Continue("baseline")
     \/ halt = "none" /\ Fail("other", "baseline")
  /\ UNCHANGED <<cvars, st, saved, Attempt>> /\ Quiet

\* Defect: the baseline is verified on every start.
BaselineAlwaysDue == halt = "none" /\ setting.baseline /\ mem # None

BaselineDue == halt = "none" /\ setting.baseline /\ mem # None /\ mem.best = None

\* verifyBaseline, the capture.
BaselineCapture ==
  /\ pc = "baseline"
  /\ BaselineDue
  /\ Attempted
  /\ IF ret' = "ok" THEN Continue("judge") ELSE Fail("other", "settle")
  /\ UNCHANGED <<st, saved, Attempt>> /\ Quiet

BaselineSkipped ==
  /\ pc = "baseline"
  /\ ~BaselineDue
  /\ Continue("settle")
  /\ UNCHANGED <<cvars, st, saved, Attempt>> /\ Quiet

\* What check and score make of a content; with a score, check 0 together with
\* a technical failure is refused by executeRun only.
ScoreVerdict(rc, sc) ==
  LET o == Observe(st.num, sc)
  IN [rc |-> rc, technical |-> sc.technical, accept |-> o.accept,
      target |-> o.target, halt |-> o.halt, value |-> sc.value]
CheckVerdict(rc, why) ==
  [rc |-> rc, technical |-> rc = 0, accept |-> rc = 0, target |-> rc = 0,
   halt |-> IF rc = 0 THEN "none" ELSE why, value |-> NoScore]

\* verifyBaseline, its hooks.
BaselineJudge ==
  /\ pc = "judge"
  /\ HookWrites
  /\ \/ Fail("other", "settle") /\ UNCHANGED <<st, verdict, accepted>>
     \/ /\ ctx # "done"
        /\ \E rc \in {0, 1} :
             \/ /\ setting.score
                /\ \E sc \in Report :
                     /\ verdict' = ScoreVerdict(rc, sc)
                     /\ st' = [st EXCEPT !.num = Observe(st.num, sc).state]
             \/ /\ ~setting.score
                /\ verdict' = CheckVerdict(rc, "none")
                /\ UNCHANGED st
        /\ IF verdict'.halt # "none" THEN Fail("other", "settle") /\ UNCHANGED accepted
           ELSE IF ~verdict'.accept THEN Continue("settle") /\ UNCHANGED accepted
           ELSE Continue("adopt") /\ accepted' = accepted \cup {mem.attempted}
  /\ UNCHANGED <<Manager, faults, saved, launched, edited>> /\ Quiet

\* verifyBaseline, the promotion.
BaselinePromote ==
  /\ pc = "adopt"
  /\ PromoteStep(Proof(verdict, st.num))
  /\ IF op' # "idle" THEN Continue("adopt")
     ELSE IF ret' = "ok" THEN Continue("settle") ELSE Fail("other", "settle")
  /\ UNCHANGED <<st, saved, Attempt>> /\ Quiet

\* Line 234: a run that had converged is not relaunched.
Settle ==
  /\ pc = "settle"
  /\ halt' = IF halt = "none" /\ origin = "converged" THEN Success ELSE halt
  /\ GoTo("loop")
  /\ verdict' = None
  /\ UNCHANGED <<cvars, st, saved, cause, launched, accepted, edited>> /\ Quiet

------------------------------------------------------------------------------
(* One iteration: lines 237 to 456.                                         *)

\* Defect: the bound admits one more iteration.
BoundPassed == st.iter > MaxIterations

AtBound == st.iter >= MaxIterations

\* The loop ends on a halt reason, at the bound, or with the context.
LoopEnds ==
  /\ pc = "loop"
  /\ \/ halt # "none" /\ Continue("final")
     \/ /\ halt = "none" /\ AtBound
        /\ halt' = "max_iterations_reached" /\ GoTo("final") /\ UNCHANGED cause
     \/ /\ halt = "none" /\ ~AtBound
        /\ ctx = "done" /\ Fail("other", "final")
  /\ UNCHANGED <<cvars, st, saved, Attempt>> /\ Quiet

LoopIterates ==
  /\ pc = "loop"
  /\ halt = "none" /\ ~AtBound
  /\ ctx # "done"
  /\ st' = [st EXCEPT !.iter = @ + 1, !.phase = "attempting"]
  /\ verdict' = None
  /\ Continue("begin")
  /\ UNCHANGED <<cvars, saved, launched, accepted, edited>> /\ Quiet

\* intact, then begin.
BeginAttempt ==
  /\ pc = "begin"
  /\ \/ Fail("other", "final") /\ UNCHANGED cvars
     \/ /\ ctx # "done"
        /\ Begin
        /\ IF ret' = "ok" THEN Continue("persist") ELSE Fail("other", "final")
  /\ edited' = (edited /\ journal' = journal)
  /\ UNCHANGED <<st, saved, verdict, launched, accepted>> /\ Quiet

\* Defect: the iteration is recorded only after its work.
PersistIterationLate ==
  /\ pc = "persist"
  /\ Continue("exec")
  /\ UNCHANGED <<cvars, st, saved, Attempt>> /\ Quiet

\* The iteration is on disk before its work command is launched.
PersistIteration ==
  /\ pc = "persist"
  /\ \E ok \in BOOLEAN :
       /\ Persist(st, ok)
       /\ IF ok THEN Continue("exec") ELSE Fail("other", "final")
  /\ UNCHANGED <<tree, Manager, st, Attempt>> /\ Quiet

\* The work command: refused by the budget or the context, or launched.
ExecRefused ==
  /\ pc = "exec"
  /\ Fail("other", "final")
  /\ UNCHANGED <<cvars, st, saved, Attempt>> /\ Quiet

Exec ==
  /\ pc = "exec"
  /\ ctx # "done"
  /\ Rewrite
  /\ launched' = [launched EXCEPT ![st.iter] = @ + 1]
  /\ \/ Continue("guards")
     \/ Fail("other", "final")
  /\ UNCHANGED <<st, saved, verdict, accepted, edited>> /\ Quiet

\* intact and the integrity collector, before the attempt is looked at.
Guards ==
  /\ pc = "guards"
  /\ \/ ctx # "done" /\ Continue("capture")
     \/ Fail("other", "final")
  /\ UNCHANGED <<cvars, st, saved, Attempt>> /\ Quiet

CaptureAttempt ==
  /\ pc = "capture"
  /\ Attempted
  /\ IF ret' = "ok" THEN Continue("evaluate") ELSE Fail("other", "final")
  /\ UNCHANGED <<st, saved, Attempt>> /\ Quiet

\* Defect: a veto or a regression does not reject a technically valid attempt.
PassesTechnical == verdict.technical

\* The guards an attempt must pass to be accepted.
Passes == verdict.technical /\ verdict.accept

\* check, failures and score: lines 319 to 387.
Evaluate ==
  /\ pc = "evaluate"
  /\ HookWrites
  /\ \/ Fail("other", "final") /\ UNCHANGED <<st, verdict, accepted>>
     \/ /\ ctx # "done"
        /\ \E rc \in {0, 1} :
             \/ /\ setting.score
                /\ \E sc \in {r \in Report : rc = 0 => r.technical} :
                     /\ verdict' = ScoreVerdict(rc, sc)
                     /\ st' = [st EXCEPT !.num = Observe(st.num, sc).state]
             \/ /\ ~setting.score
                /\ \E why \in {"none", "no_progress_detected"} : verdict' = CheckVerdict(rc, why)
                /\ UNCHANGED st
        /\ accepted' = IF verdict'.technical /\ verdict'.accept
                       THEN accepted \cup {mem.attempted} ELSE accepted
        /\ Continue("decide")
  /\ UNCHANGED <<Manager, faults, saved, launched, edited>> /\ Quiet

\* Defect: every accepted candidate replaces the best.
WeakerNever == FALSE

\* Line 399: accepted within the tolerance, but below the journal's best.
Weaker ==
  /\ setting.score
  /\ mem.proof # None
  /\ mem.proof.num.best # NoScore
  /\ verdict.value # NoScore
  /\ Gain(verdict.value, mem.proof.num.best) < 0

\* Defect: the directory is not compared with what was captured.
UnchangedNever == TRUE

\* The directory still holds what was captured before the hooks ran.
StillAttempted == tree = mem.attempted

\* Lines 388 to 434: the guards, then the fate of the attempt.
Decide ==
  /\ pc = "decide"
  /\ \/ Fail("other", "final")
     \/ /\ ctx # "done" /\ StillAttempted
        /\ Continue(IF Passes /\ ~Weaker THEN "promote" ELSE "reject")
  /\ UNCHANGED <<cvars, st, saved, Attempt>> /\ Quiet

\* promote; a failure takes the numeric state back to the journal's, if it has one.
PromoteAttempt ==
  /\ pc = "promote"
  /\ PromoteStep(Proof(verdict, st.num))
  /\ \/ op' # "idle" /\ Continue("promote") /\ UNCHANGED st
     \/ op' = "idle" /\ ret' = "ok" /\ Continue("conclude") /\ UNCHANGED st
     \/ /\ op' = "idle" /\ ret' = "err" /\ Fail("other", "final")
        /\ st' = IF setting.score /\ mem.proof # None
                 THEN [st EXCEPT !.num = mem.proof.num] ELSE st
  /\ UNCHANGED <<saved, Attempt>> /\ Quiet

\* Defect: a restoration that failed is tried again.
RestoreUntilDone ==
  /\ pc = "reject"
  /\ RestoreStep
  /\ Continue(IF op' = "idle" /\ ret' = "ok" THEN "conclude" ELSE "reject")
  /\ UNCHANGED <<st, saved, Attempt>> /\ Quiet

\* restore, after a rejection or a weaker acceptance.
RestoreAttempt ==
  /\ pc = "reject"
  /\ RestoreStep
  /\ IF op' # "idle" THEN Continue("reject")
     ELSE IF ret' = "ok" THEN Continue("conclude")
     ELSE Fail("restoration_failed", "final")
  /\ UNCHANGED <<st, saved, Attempt>> /\ Quiet

\* Defect: the check alone decides about success.
SucceedsByCheck == verdict.rc = 0

Succeeds == verdict.rc = 0 /\ verdict.technical /\ verdict.accept /\ verdict.target

\* Lines 435 to 444.
Conclude ==
  /\ pc = "conclude"
  /\ \/ ctx = "done" /\ Fail("other", "final") /\ UNCHANGED st
     \/ /\ ctx # "done"
        /\ halt' = IF Succeeds THEN Success ELSE verdict.halt
        /\ st' = [st EXCEPT !.phase = "evaluated"]
        /\ GoTo("record") /\ UNCHANGED cause
  /\ verdict' = None
  /\ UNCHANGED <<cvars, saved, launched, accepted, edited>> /\ Quiet

\* Lines 445 to 456; the comprehension debt may have grown too large.
Record ==
  /\ pc = "record"
  /\ \E ok \in BOOLEAN :
       /\ Persist(st, ok)
       /\ \/ ok /\ Continue("loop")
          \/ ok /\ halt = "none" /\ halt' = "failed" /\ GoTo("loop") /\ UNCHANGED cause
          \/ ~ok /\ Fail("other", "final")
  /\ UNCHANGED <<tree, Manager, st, Attempt>> /\ Quiet

------------------------------------------------------------------------------
(* The end of a process: lines 460 to 490.                                  *)

\* Defect: a halt for a failure leaves the directory to the next run.
CleanupOnFailureSkipped == /\ mem # None
                           /\ ~mem.exposed
                           /\ mem.status # "restored"
                           /\ halt # "failed"

CleanupDue == /\ mem # None
              /\ ~mem.exposed
              /\ mem.status # "restored"
              /\ cause # "restoration_failed"

Final ==
  /\ pc = "final"
  /\ IF CleanupDue THEN SetContext("cleanup") /\ Continue("cleanup")
     ELSE UNCHANGED cvars /\ Continue("report")
  /\ verdict' = None
  /\ UNCHANGED <<st, saved, launched, accepted, edited>> /\ Quiet

\* The last restoration, under a context of its own.
Cleanup ==
  /\ pc = "cleanup"
  /\ RestoreStep
  /\ IF op' # "idle" THEN Continue("cleanup")
     ELSE IF ret' = "ok" THEN Continue("report")
     ELSE Fail("restoration_failed", "report")
  /\ UNCHANGED <<st, saved, Attempt>> /\ Quiet

\* The final save, and the response: an unsaved final state is internal_error.
ReportHalt ==
  LET last == [st EXCEPT !.halt = halt, !.phase = "halted"]
  IN /\ pc = "report"
     /\ st' = last
     /\ \E ok \in BOOLEAN :
          /\ Persist(last, ok)
          /\ IF ok
             THEN /\ Continue("halted")
                  /\ shown' = IF mem # None /\ mem.exposed THEN mem.best ELSE None
                  /\ converged' = (converged \/ halt = Success)
             ELSE /\ halt' = "failed" /\ GoTo("halted")
                  /\ shown' = None
                  /\ UNCHANGED <<cause, converged>>
     /\ UNCHANGED <<tree, Manager, Attempt, setting, starts, origin, deadline, receiptBad>>

\* The process has answered and is gone.
Exit ==
  /\ pc = "halted"
  /\ Leave(IF deadline = "passed" THEN "done" ELSE "live") /\ NoFault
  /\ Forget
  /\ UNCHANGED <<setting, saved, deadline, shown, starts, launched, accepted, converged, edited>>

------------------------------------------------------------------------------
(* The surroundings.                                                        *)

\* SIGKILL, at any step.
Kill ==
  /\ pc \in Steps
  /\ Leave(IF deadline = "passed" THEN "done" ELSE "live") /\ Fault
  /\ Forget
  /\ UNCHANGED <<setting, saved, deadline, shown, starts, launched, accepted, converged, edited>>

\* The absolute deadline passes; it stays passed for every resumed process.
DeadlinePasses ==
  /\ deadline = "ahead"
  /\ saved # None
  /\ deadline' = "passed"
  /\ SetContext(IF ctx = "cleanup" THEN "cleanup" ELSE "done")
  /\ UNCHANGED <<setting, pc, st, saved, origin, halt, cause, verdict, receiptBad,
                 shown, starts, launched, accepted, converged, edited>>

\* SIGINT or SIGTERM.
Signal ==
  /\ pc \in Steps
  /\ ctx = "live"
  /\ SetContext("done")
  /\ UNCHANGED gvars

\* A receipt event cannot be written.
ReceiptFails ==
  /\ pc \in Steps
  /\ ~receiptBad
  /\ receiptBad' = TRUE
  /\ Fault
  /\ UNCHANGED <<tree, Manager, st, saved, halt, cause, verdict, launched, accepted, edited,
                 setting, pc, starts, origin, deadline, converged, shown>>

\* Between two processes, somebody edits the candidate.
Tamper ==
  /\ pc = "down"
  /\ Rewrite /\ tree' # tree
  /\ journal # None
  /\ edited' = TRUE
  /\ UNCHANGED <<setting, pc, st, saved, origin, halt, cause, verdict, receiptBad,
                 deadline, shown, starts, launched, accepted, converged>>

Step ==
  \/ OpenCandidate \/ Recover \/ Recheck \/ FirstPersist \/ IntegrityBaseline
  \/ BaselineCapture \/ BaselineSkipped \/ BaselineJudge \/ BaselinePromote \/ Settle
  \/ LoopEnds \/ LoopIterates \/ BeginAttempt \/ PersistIteration
  \/ ExecRefused \/ Exec \/ Guards \/ CaptureAttempt \/ Evaluate \/ Decide
  \/ PromoteAttempt \/ RestoreAttempt \/ Conclude \/ Record
  \/ Final \/ Cleanup \/ ReportHalt

Environment == Kill \/ DeadlinePasses \/ Signal \/ ReceiptFails \/ Tamper

Next == Start \/ Step \/ Exit \/ Environment

Spec == Init /\ [][Next]_vars

\* Every command that is launched ends; the process itself never waits.
FairSpec == Spec /\ WF_vars(Step)

------------------------------------------------------------------------------
(* Safety.                                                                  *)

TypeOK ==
  /\ CandidateTypeOK
  /\ setting \in Settings
  /\ pc \in Steps \cup {"down", "halted"}
  /\ st \in LoopState
  /\ saved \in LoopState \cup {None}
  /\ origin \in {"fresh", "resumed", "converged"}
  /\ halt \in Halts
  /\ cause \in {"none", "other", "restoration_failed"}
  /\ verdict \in Verdict \cup {None}
  /\ receiptBad \in BOOLEAN
  /\ deadline \in {"ahead", "passed"}
  /\ shown \in Contents \cup {Torn, None}
  /\ starts \in 0..MaxStarts
  /\ launched \in [1..MaxIterations -> Nat]
  /\ accepted \subseteq Contents \cup {Torn}
  /\ converged \in BOOLEAN
  /\ edited \in BOOLEAN

\* An interrupted work call is never replayed: across kills, failed saves and
\* resumed processes, each iteration launches its work command at most once.
OneLaunchPerIteration == \A i \in 1..MaxIterations : launched[i] <= 1

\* Nothing half-written or rejected is committed: the pointer on disk is always
\* a content that passed its own check and score.
CommittedBestIsAccepted ==
  journal # None /\ journal.best # None => journal.best \in accepted

\* A process that answers leaves the best candidate in the directory, or without
\* one the initial content, unless it says that the restoration failed.  What
\* somebody edited before an attempt was recorded stays, if there is no best.
HaltRestores ==
  pc = "halted" /\ mem # None /\ cause # "restoration_failed" =>
    \/ tree = Target(mem)
    \/ edited /\ mem.best = None

\* The candidate of a response is in the working directory, and a converged run
\* has one.
ResponseShowsBest ==
  pc = "halted" =>
    /\ shown # None => tree = shown /\ shown \in accepted
    /\ halt = Success => shown # None

\* The score of the best candidate, as long as there is one.
BestScore(s) == IF s = None THEN NoScore ELSE IF s.proof = None THEN NoScore ELSE s.proof.score

\* Neither a tolerated decrease, nor a promotion that a kill interrupted, nor a
\* resumed run with an older numeric state, replaces the best by a lower score.
BestNeverWorse ==
  [][mem # None /\ mem' # None /\ mem'.best # mem.best /\ BestScore(mem) # NoScore
       => Gain(BestScore(mem'), BestScore(mem)) >= 0]_vars

------------------------------------------------------------------------------
(* Liveness.                                                                *)

\* Every process that is started answers or is killed.
EveryProcessEnds == (pc \in Steps) ~> (pc \in {"halted", "down"})

------------------------------------------------------------------------------
(* Claims of the documentation that the code does not keep.  The first has  *)
(* a run; TLC refutes the others in the same instances.                     *)

\* A converged run shows a candidate that passes the check.
SuccessShowsGreen == pc = "halted" /\ halt = Success => mem.proof.rc = 0

\* A resumed run that answers has undone what an interrupted attempt left, also
\* when the deadline has passed meanwhile.
ResumeRestores ==
  pc = "halted" /\ origin # "fresh" /\ deadline = "passed" /\ journal # None /\ ~edited
    => tree = Target(journal)

\* A converged run is not relaunched.
ConvergedIsFinal == [][converged => launched' = launched]_vars

\* An accepted score is within the tolerance of the best candidate's.
AcceptedWithinTolerance ==
  pc = "promote" \/ (pc = "reject" /\ verdict.accept) =>
    \/ BestScore(mem) = NoScore
    \/ op # "idle"
    \/ Gain(verdict.value, BestScore(mem)) >= -Tolerance

\* After a failed restoration no candidate is exposed.
FailedRestorationHides ==
  pc = "halted" /\ cause = "restoration_failed" => shown = None
=============================================================================
