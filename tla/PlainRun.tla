------------------------------ MODULE PlainRun ------------------------------
(***************************************************************************)
(* The loop of executeRun without a candidate (cmd/loopexec/run.go): work, *)
(* integrity collector, check and failures collector, the progress tracker *)
(* that decides, and the two copies of the state that are saved, while     *)
(* ack and escalate rewrite one of them and the governor may be killed.    *)
(*                                                                         *)
(* All commands are given (--exec, --check, --failures-cmd, --integrity-   *)
(* cmd, --comprehension-every), no score is.  What a command finds is any  *)
(* outcome.  A context that has ended is seen as a command that fails or   *)
(* at the two places that look.  Governor and BudgetBook have the rest.    *)
(* "none" is the empty halt reason.                                        *)
(***************************************************************************)
EXTENDS Progress

CONSTANTS
  WorkflowRuns,       \* run ids of runs with --workflow, which can be resumed
  LegacyRuns,         \* run ids of runs without
  TimedRuns,          \* those of WorkflowRuns that have a --command-timeout
  Failures,           \* identities that the failures collector may print
  Surface,            \* identities that the integrity collector may print
  MaxIterations,      \* --max-iterations
  NoProgressK,        \* --no-progress-k
  ComprehensionEvery, \* --comprehension-every of each run, 0 for off
  None,
  MaxStarts,          \* bound: governors started
  MaxTrouble          \* bound: writes of the governor that fail, ack and escalate commands

RunID == WorkflowRuns \union LegacyRuns

ASSUME PlainRunAssumption ==
  /\ WorkflowRuns \intersect LegacyRuns = {} /\ None \notin RunID
  /\ TimedRuns \subseteq WorkflowRuns
  /\ {MaxIterations, NoProgressK} \subseteq Nat \ {0}
  /\ ComprehensionEvery \in [RunID -> Nat]
  /\ {MaxStarts, MaxTrouble} \subseteq Nat
  /\ IsFiniteSet(Failures)

VARIABLES
  saved,     \* run-<id>.state.json of each run
  latest,    \* state.json
  pc,        \* the governor: "off", or its next step
  then,      \* the step after a save
  st,        \* loopState in memory
  tracker,
  surface,   \* the members of the integrity baseline
  prior,     \* the halt reason of the state that was resumed, None in a fresh run
  halt,
  lost,      \* receiptWriter.err: an event was not written
  op,        \* the copy that an ack or escalate under way has read
  answer,    \* of the last governor: its run, its number and its exit code
  starts, faults, ops,
  history,   \* ghost: what the tracker of this governor was shown
  workspace, \* the run and the iteration whose work command was the last to write it
  initial,   \* ghost: of each run, the baseline at its fresh start
  missing,   \* ghost: members that the last integrity collector did not print
  unread,    \* ghost: iterations of each run evaluated since its start or an ack at rest
  resumes    \* ghost: governors that resumed each run

files  == <<saved, latest>>
memory == <<st, tracker, surface, prior, halt, lost>>
ghost  == <<history, initial, missing, unread, resumes>>
bounds == <<starts, faults, ops>>
vars   == <<files, pc, then, memory, op, answer, bounds, workspace, ghost>>

Judged  == {"success_condition_met", NoProgress, Oscillation, Regression}
Reasons == Judged \union
  {"none", "metric_integrity_violation", "execution_failure", "objective_unverified",
   "comprehension_debt_exceeded", "max_iterations_reached", "internal_error"}

\* start and save number the governor and its saves; fp is the iteration whose
\* check the fingerprint is of, 0 without one.  The size of the best set and the
\* escalation level are left out: no governor reads them back.
LoopState ==
  [run : RunID, start : 1..MaxStarts, save : Nat, phase : {"running", "attempting", "evaluated", "halted"},
   iter : 0..MaxIterations, rc : {-1, 0, 1}, fp : 0..MaxIterations, halt : Reasons,
   ever : BOOLEAN, base : (SUBSET Surface) \union {None},
   debt : Nat]

ASSUME NoneIsNoState ==
  /\ None \notin LoopState /\ None \notin Reasons /\ \A members \in SUBSET Surface : members # None

TypeOK ==
  /\ saved \in [RunID -> LoopState \union {None}] /\ latest \in LoopState \union {None}
  /\ pc \in {"off", "save", "point", "baseline", "loop", "exec", "members", "check", "judge",
             "count", "finish", "answer"}
  /\ st \in LoopState \union {None} /\ surface \in (SUBSET Surface) \union {None}
  /\ halt \in Reasons /\ lost \in BOOLEAN
  /\ tracker.bestSize \in 0..tracker.initialSize /\ tracker.prev \in tracker.seen \union {{}}
  /\ op \in LoopState \union {None}
  /\ workspace \in [run : RunID \union {None}, iter : 0..MaxIterations]
  /\ starts \in 0..MaxStarts /\ faults + ops \in 0..MaxTrouble

Init ==
  /\ saved = [r \in RunID |-> None] /\ latest = None
  /\ pc = "off" /\ then = "off" /\ st = None /\ tracker = NewTracker /\ surface = None
  /\ prior = None /\ halt = "none" /\ lost = FALSE /\ op = None /\ answer = None
  /\ starts = 0 /\ faults = 0 /\ ops = 0
  /\ workspace = [run |-> None, iter |-> 0]
  /\ history = <<>> /\ initial = [r \in RunID |-> {}] /\ missing = {}
  /\ unread = [r \in RunID |-> 0] /\ resumes = [r \in RunID |-> 0]

------------------------------------------------------------------------------
(* The governor starts.                                                     *)

\* flock: the kernel releases the lock of a governor that is killed.
Locked == pc # "off"

NewState(r) ==
  [run |-> r, start |-> starts', save |-> 0, phase |-> "running", iter |-> 0, rc |-> -1, fp |-> 0,
   halt |-> "none", ever |-> FALSE, base |-> None, debt |-> 0]

Save(next) == pc' = "save" /\ then' = next

\* Bound: a run that another one follows has had one iteration at most.  The other
\* one meets of it no more than what it left in state.json.
Follows(r) == \A q \in RunID \ {r} : saved[q] # None => saved[q].iter <= 1

Begin ==
  /\ ~Locked /\ starts < MaxStarts /\ starts' = starts + 1
  /\ tracker' = NewTracker /\ surface' = None /\ halt' = "none" /\ lost' = FALSE
  /\ history' = <<>> /\ missing' = {} /\ answer' = None
  /\ Save("baseline")
  /\ UNCHANGED <<files, op, faults, ops, workspace, initial>>

\* A legacy run starts anew over what its run id has saved; a workflow run is
\* refused (ensureNewRun).
StartFresh(r) ==
  /\ Follows(r) /\ Begin /\ (r \in WorkflowRuns => saved[r] = None)
  /\ st' = NewState(r) /\ prior' = None
  /\ unread' = [unread EXCEPT ![r] = 0] /\ resumes' = [resumes EXCEPT ![r] = 0]

Resume(r) ==
  /\ Follows(r) /\ Begin /\ r \in WorkflowRuns /\ saved[r] # None
  /\ st' = [saved[r] EXCEPT !.start = starts', !.save = 0, !.phase = "running", !.halt = "none"]
  /\ prior' = saved[r].halt
  /\ resumes' = [resumes EXCEPT ![r] = @ + 1] /\ UNCHANGED unread

Resumed == prior # None

------------------------------------------------------------------------------
(* persist: the copy of the run, then state.json.                           *)

\* An empty list is left out of the JSON, and read back as none.
Written(s) == [s EXCEPT !.base = IF @ = {} THEN None ELSE @, !.save = @ + 1]

Stop(reason) == pc' = "finish" /\ halt' = reason

\* The process is gone, and its memory.
Dies ==
  /\ pc' = "off" /\ then' = "off"
  /\ st' = None /\ tracker' = NewTracker /\ surface' = None /\ prior' = None /\ halt' = "none" /\ lost' = FALSE

\* Defect: the persist that records the end is not looked at.
SaveFailsUnseen(isLost) ==
  IF then = "answer"
  THEN pc' = "answer" /\ lost' = isLost /\ UNCHANGED <<st, tracker, surface, prior, halt, then, answer>>
  ELSE /\ Stop("internal_error") /\ lost' = isLost /\ st' = [st EXCEPT !.save = @ + 1]
       /\ UNCHANGED <<tracker, surface, prior, then, answer>>

\* A persist that fails ends the loop; if it is the last one, it ends the process.
SaveFails(isLost) ==
  IF then = "answer"
  THEN Dies /\ answer' = [run |-> st.run, start |-> st.start, code |-> 50]
  ELSE /\ Stop("internal_error") /\ lost' = isLost /\ st' = [st EXCEPT !.save = @ + 1]
       /\ UNCHANGED <<tracker, surface, prior, then, answer>>

Fault == faults + ops < MaxTrouble /\ faults' = faults + 1

\* An event of the receipt, or the tail of an output, was not written.
EventLost == ~lost /\ Fault /\ SaveFails(TRUE)

\* A lost event fails every later persist.
SaveRun ==
  /\ pc = "save"
  /\ \/ /\ ~lost /\ saved' = [saved EXCEPT ![st.run] = Written(st)]
        /\ pc' = "point" /\ UNCHANGED <<then, memory, answer, faults>>
     \/ lost /\ SaveFails(TRUE) /\ UNCHANGED <<saved, faults>>
     \/ EventLost /\ UNCHANGED saved
     \/ ~lost /\ Fault /\ SaveFails(FALSE) /\ saved' \in {saved, [saved EXCEPT ![st.run] = Written(st)]}
  /\ UNCHANGED <<latest, op, starts, ops, workspace, ghost>>

SaveLatest ==
  /\ pc = "point"
  /\ \/ /\ latest' = Written(st) /\ st' = [st EXCEPT !.save = @ + 1] /\ pc' = then
        /\ UNCHANGED <<then, tracker, surface, prior, halt, lost, answer, faults>>
     \/ Fault /\ SaveFails(FALSE) /\ latest' \in {latest, Written(st)}
  /\ UNCHANGED <<saved, op, starts, ops, workspace, ghost>>

------------------------------------------------------------------------------
(* The loop.                                                                *)

quiet == <<files, prior, lost, op, answer, bounds, unread, resumes>>

\* Defect: on resume the baseline is taken from what is there.
KeepsAny(members) == TRUE

\* A resumed run must find the baseline that it saved.
Keeps(members) == Resumed => members = st.base

Baseline ==
  /\ pc = "baseline"
  /\ \/ Stop("metric_integrity_violation") /\ UNCHANGED <<st, surface, initial, missing>>
     \/ \E members \in SUBSET Surface :
          \/ ~Keeps(members) /\ Stop("metric_integrity_violation") /\ UNCHANGED <<st, surface, initial, missing>>
          \/ /\ Keeps(members) /\ st' = [st EXCEPT !.base = members] /\ surface' = members
             /\ missing' = Surface \ members
             /\ initial' = IF Resumed THEN initial ELSE [initial EXCEPT ![st.run] = members]
             /\ IF prior = "success_condition_met"
                THEN Stop("success_condition_met") ELSE pc' = "loop" /\ UNCHANGED halt
  /\ UNCHANGED <<then, tracker, workspace, history, quiet>>

\* Defect: one iteration above the limit.
PastCap(iter) == iter > MaxIterations

AtCap(iter) == iter >= MaxIterations

IterStart ==
  /\ pc = "loop" /\ halt = "none" /\ ~AtCap(st.iter)
  /\ \/ /\ st' = [st EXCEPT !.iter = @ + 1, !.phase = "attempting",
                            !.fp = IF st.run \in WorkflowRuns THEN 0 ELSE @]
        /\ Save("exec") /\ UNCHANGED halt
     \/ Stop("execution_failure") /\ UNCHANGED <<st, then>>
  /\ UNCHANGED <<tracker, surface, workspace, history, initial, missing, quiet>>

LoopEnds ==
  /\ pc = "loop" /\ (halt # "none" \/ AtCap(st.iter))
  /\ Stop(IF halt = "none" THEN "max_iterations_reached" ELSE halt)
  /\ UNCHANGED <<then, st, tracker, surface, workspace, history, initial, missing, quiet>>

Exec ==
  /\ pc = "exec" /\ workspace' = [run |-> st.run, iter |-> st.iter]
  /\ \/ pc' = "members" /\ UNCHANGED halt
     \/ Stop("execution_failure")
  /\ UNCHANGED <<then, st, tracker, surface, history, initial, missing, quiet>>

\* Defect: members that are new are looked for, not members that are gone.
AddedMembers(baseline, current) == current \ baseline

missingMembers(baseline, current) == baseline \ current

Members ==
  /\ pc = "members"
  /\ \/ Stop("metric_integrity_violation") /\ UNCHANGED missing
     \/ \E current \in SUBSET Surface :
          /\ missing' = Surface \ current
          /\ IF missingMembers(surface, current) # {}
             THEN Stop("metric_integrity_violation") ELSE pc' = "check" /\ UNCHANGED halt
  /\ UNCHANGED <<then, st, tracker, surface, workspace, history, initial, quiet>>

Check ==
  /\ pc = "check"
  /\ \/ Stop("execution_failure") /\ UNCHANGED st
     \/ \E rc \in {0, 1} : st' = [st EXCEPT !.rc = rc, !.fp = st.iter] /\ pc' = "judge" /\ UNCHANGED halt
  /\ UNCHANGED <<then, tracker, surface, workspace, history, initial, missing, quiet>>

\* The tracker is shown the failing set of a red check only.
Progressed(F) ==
  /\ tracker' = Observe(tracker, st.iter, F)
  /\ history' = Append(history, [iter |-> st.iter, F |-> F, said |-> Verdict(tracker, st.iter, F, NoProgressK)])

\* The failures collector, the context, and the verdict of the iteration.
Judge ==
  /\ pc = "judge"
  /\ \/ Stop("objective_unverified") /\ UNCHANGED <<then, st, tracker, history, unread>>
     \/ \E F \in SUBSET Failures, ended \in BOOLEAN :
          /\ IF st.rc = 0 THEN UNCHANGED <<tracker, history>> ELSE Progressed(F)
          /\ st' = [st EXCEPT !.ever = IF st.rc = 0 THEN @ ELSE tracker'.everImproved,
                              !.phase = IF ended THEN @ ELSE "evaluated"]
          /\ IF ended
             THEN Stop("execution_failure") /\ UNCHANGED <<then, unread>>
             ELSE /\ halt' = IF st.rc = 0 THEN "success_condition_met" ELSE Verdict(tracker, st.iter, F, NoProgressK)
                  /\ Save("count") /\ unread' = [unread EXCEPT ![st.run] = @ + 1]
  /\ UNCHANGED <<surface, workspace, prior, initial, missing, files, lost, op, answer, bounds, resumes>>

\* Defect: the debt may exceed the threshold.
InDebtAbove(every, debt) == every > 0 /\ debt > every

InDebt(every, debt) == every > 0 /\ debt >= every

\* The debt grows after its iteration was saved.
Count ==
  /\ pc = "count"
  /\ \/ halt # "none" /\ pc' = "finish" /\ UNCHANGED <<st, halt>>
     \/ /\ halt = "none" /\ pc' = "loop" /\ st' = [st EXCEPT !.debt = @ + 1]
        /\ halt' = IF InDebt(ComprehensionEvery[st.run], st'.debt) THEN "comprehension_debt_exceeded" ELSE "none"
  /\ UNCHANGED <<then, tracker, surface, workspace, history, initial, missing, quiet>>

Finish ==
  /\ pc = "finish"
  /\ st' = [st EXCEPT !.halt = halt, !.phase = "halted"] /\ Save("answer")
  /\ UNCHANGED <<tracker, surface, halt, workspace, history, initial, missing, quiet>>

haltExitCode(reason) ==
  CASE reason = "success_condition_met" -> 10
    [] reason = "max_iterations_reached" -> 12
    [] reason \in {"metric_integrity_violation", "objective_unverified"} -> 13
    [] reason \in {NoProgress, Oscillation, Regression} -> 17
    [] reason = "comprehension_debt_exceeded" -> 19
    [] reason = "execution_failure" -> 40
    [] OTHER -> 50

\* The receipt is flushed before the answer, or the answer is an internal error.
Answer ==
  /\ pc = "answer" /\ Dies
  /\ \E code \in {haltExitCode(halt), 50} :
       /\ answer' = [run |-> st.run, start |-> st.start, code |-> code]
       /\ IF code = haltExitCode(halt) THEN UNCHANGED faults ELSE Fault
  /\ UNCHANGED <<files, op, starts, ops, workspace, ghost>>

Kill == Locked /\ Dies /\ UNCHANGED <<files, op, answer, bounds, workspace, ghost>>

------------------------------------------------------------------------------
(* ack and escalate: they read state.json, change it and write it back,     *)
(* without the lock.                                                        *)

\* Bound: when they are looked at.  Their order matters only against SaveLatest,
\* which writes the same file, and against the life of the governor.
Meets == pc \in {"off", "point", "judge"}

OpReads ==
  /\ Meets /\ op = None /\ latest # None /\ faults + ops < MaxTrouble /\ ops' = ops + 1
  /\ op' = latest
  /\ UNCHANGED <<files, pc, then, memory, answer, starts, faults, workspace, ghost>>

Ack ==
  /\ Meets /\ op # None /\ op' = None
  /\ latest' = [op EXCEPT !.debt = 0]
  /\ unread' = IF Locked THEN unread ELSE [unread EXCEPT ![op.run] = 0]
  /\ UNCHANGED <<saved, pc, then, memory, answer, bounds, workspace, history, initial, missing, resumes>>

Escalate ==
  /\ Meets /\ op # None /\ op' = None
  /\ latest' = op
  /\ UNCHANGED <<saved, pc, then, memory, answer, bounds, workspace, ghost>>

Next ==
  \/ \E r \in RunID : StartFresh(r) \/ Resume(r)
  \/ SaveRun \/ SaveLatest
  \/ Baseline \/ IterStart \/ LoopEnds \/ Exec \/ Members \/ Check \/ Judge \/ Count \/ Finish \/ Answer
  \/ Kill
  \/ OpReads \/ Ack \/ Escalate

Spec == Init /\ [][Next]_vars
------------------------------------------------------------------------------
(* What later commands read from a record: explain-halt, replay, attest.    *)

explainHalt(s) ==
  CASE s.halt = "success_condition_met"            -> "done"
    [] s.halt = "max_iterations_reached" /\ s.ever -> "raise-the-limit"
    [] s.halt = NoProgress /\ s.ever               -> "investigate"
    [] s.halt \in {"max_iterations_reached", NoProgress} /\ ~s.ever -> "do-not-retry"
    [] s.halt \in {Oscillation, Regression}        -> "do-not-retry"
    [] s.halt = "execution_failure"                -> "fix-substrate"
    [] OTHER                                       -> "review"

\* A fingerprint names the iteration that it was taken in: a check gives it again
\* if no work command has written the workspace since, and takes as long again: what
\* the run did not end or truncate, its replay does not, within the same limits.
Found(r) == IF workspace.run = r THEN workspace.iter ELSE 0

\* A replay gives the check of a workflow 30 s where the run has given it no limit.
OutOfTime(r, long) == long /\ r \in WorkflowRuns \ TimedRuns

\* The request of the last iteration is there when its check was run; long says that
\* the check takes more than 30 s.  A check that is ended proves nothing.
verifyWorkflowFingerprint(s, found, long) ==
  s.fp # 0 /\ s.fp = s.iter /\ ~OutOfTime(s.run, long) /\ found = s.fp

verifyStateFingerprint(s, found, long) ==
  IF s.run \in WorkflowRuns THEN verifyWorkflowFingerprint(s, found, long)
  ELSE s.fp # 0 /\ found = s.fp

replay(s, long) ==
  IF verifyStateFingerprint(s, Found(s.run), long) THEN "verified" ELSE "objective_unverified"

\* Neither the debt nor the escalation is signed, nor what only the run uses.
canonicalReceipt(s) == [run |-> s.run, halt |-> s.halt, iter |-> s.iter, fp |-> s.fp]

\* HMAC with one key: signatures are equal when the receipts are.
signReceipt(s) == canonicalReceipt(s)

attestVerifies(signed, s) == signReceipt(signed) = signReceipt(s)

------------------------------------------------------------------------------
(* Properties.                                                              *)

\* In every order of sets that grow, shrink and come back, the tracker says what
\* its documentation defines over the whole series, although it keeps a summary.
TrackerMeetsHistory ==
  \A n \in 1..Len(history) : history[n].said = VerdictOf(SubSeq(history, 1, n), NoProgressK)

\* What explain-halt says of the last record of a run is so.  "done": the check of
\* its last iteration was green, and its integrity collector printed every member
\* of the baseline at the fresh start, also after kills and resumes, and a replay
\* verifies it unless another run wrote the workspace or the replay gives the check
\* less time than the run.  That the run improved: a smaller failing set than the
\* first was seen.
LastRecord(r) == saved[r] # None /\ saved[r].start = starts
AdviceIsEarned ==
  \A r \in RunID : LastRecord(r) =>
    /\ explainHalt(saved[r]) = "done" =>
         /\ saved[r].rc = 0 /\ saved[r].fp = saved[r].iter /\ initial[r] \intersect missing = {}
         /\ workspace.run = r =>
              \A long \in BOOLEAN : ~OutOfTime(r, long) => replay(saved[r], long) = "verified"
    /\ explainHalt(saved[r]) \in {"raise-the-limit", "investigate"} /\ history # <<>> => Improved(history)

\* A replay runs the check of a run that converged against its end-state and confirms
\* the fingerprint (SPEC.md:121), however long the check takes.
ReplayConfirms ==
  \A r \in RunID : LastRecord(r) /\ explainHalt(saved[r]) = "done" /\ workspace.run = r =>
    \A long \in BOOLEAN : replay(saved[r], long) = "verified"

\* state.json never shows what the copy of its run was not given first, whoever
\* is killed between the two and whatever ack writes back, and a signature of one
\* copy is good for the other if they are of the same save.  An exit code that is
\* no internal error was saved in both copies before it was given.
CopiesInStep ==
  /\ latest # None =>
       \/ latest.start < saved[latest.run].start
       \/ latest.start = saved[latest.run].start /\ latest.save < saved[latest.run].save
       \/ /\ latest.start = saved[latest.run].start /\ latest.save = saved[latest.run].save
          /\ attestVerifies(latest, saved[latest.run])
  /\ answer # None /\ answer.code # 50 =>
       /\ LastRecord(answer.run) /\ haltExitCode(saved[answer.run].halt) = answer.code
       /\ ops = 0 => latest = saved[answer.run]

\* Kills and resumes cannot collect more unread iterations than the threshold and
\* one for each resume.
DebtBounds ==
  \A r \in RunID :
    ComprehensionEvery[r] > 0 => unread[r] <= ComprehensionEvery[r] + resumes[r]

\* A run that was acknowledged while no governor ran has the whole threshold before
\* it again (docs/cli-reference.generated.md:273).
AckClears ==
  halt = "comprehension_debt_exceeded" /\ st # None /\ Resumed =>
    unread[st.run] >= ComprehensionEvery[st.run]
==============================================================================
