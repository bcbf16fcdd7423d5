# Verification of loopexec

TLA+ models of `loopexec`, model-checked with TLC and, where a result holds for
every instance, proved with TLAPS.  loopexec is a command line tool that runs a
work command, checks what it left behind, and repeats until a check passes or a
halt reason is reached.  Nothing in it is a long-lived server: its correctness
lives in small JSON files, in the order they are written, and in what the next
process makes of them after the last one was killed.

Paths below are relative to the repository; `cmd/` stands for `cmd/loopexec/`.

- [Inventory](#inventory)
- [Modules](#modules)
- [Runs, bounds and fairness](#runs-bounds-and-fairness)
- [Proofs](#proofs)
- [Where code and documentation disagree](#where-code-and-documentation-disagree)
- [Not modelled](#not-modelled)
- [Plan](#plan)

## Inventory

| Component | Source | State it keeps | Operations | Status |
|---|---|---|---|---|
| Scoped call budget | `cmd/scoped_budget.go` | `policy.json`, `calls/call-%06d.json` of one scope directory, shared by any number of processes | `budget reserve`, `budget status` | modelled, proved |
| Candidate transaction | `cmd/candidate.go`, `internal/workflow/candidate.go` | candidate directory, snapshot store, `candidate.json` journal | open, begin, attempted, promote, restore; file by file: capture, copy, publish, remove, place, verify | modelled, proved at both levels |
| Governor of a workflow run | `cmd/run.go` | loop state in memory, `run-<id>.state.json`, deadline, response | start, resume, baseline, iterations, halts | modelled, proved |
| Numeric progress | `cmd/numeric.go` | best score, patience anchor, stale count | observe | modelled |
| Budget book of a run | `cmd/budget.go`, `cmd/workflow.go` | reservations and usage, saved before and after each paid call | reserve, announce, work, reconcile, load | modelled, proved |
| Two-zone isolation | `cmd/isolate.go` | minted key, env-file, signal goroutine | isolate --execute | modelled, proved |
| Workflow contract, model policy | `internal/workflow/contract.go`, `internal/modelpolicy` | none | parse, validate | partly, as ASSUMEs |
| Runs without a candidate | `cmd/run.go`, `cmd/progress.go` | progress tracker, integrity baseline, comprehension debt, both copies of the state | start, resume, iteration, observe, halt, explain-halt | modelled, proved |
| Launched commands | `internal/subprocess`, `cmd/lifecycle.go` | process group, output tails, goroutine in `Wait` | run, terminate, kill, collect | modelled, proved |
| State file, ack, escalation, watch | `cmd/ops.go`, `cmd/main.go` | `state.json`, `run-<id>.state.json` | persist, ack, escalate; watch | partly: watch and status are left out |
| Run lock | `internal/workflow/lock_*.go` | `flock` | acquire, release | partly: on Unix |
| Receipts, replay, attestation | `cmd/receipt.go`, `cmd/ops.go` | receipt lines, signatures | emit, replay, attest, reexecute | partly: what replay compares and attest signs |
| Context builder | `cmd/context.go` | none | select files | not modelled |
| Doctor, probe, inspect, report, demo | `cmd/*.go` | none | read-only reports | not modelled |
| Tools and scripts | `tools/`, `scripts/` | none | generators | not modelled |

### How they interact

```
 operator ---- run / resume / kill / SIGINT ----+
                                                v
  work, check, score,       +------------------ governor (run.go) ---------------+
  failures, usage hooks <---| launches                                           |
        |                   | begin attempted promote restore    observe         |
        v                   v                                       v            |
  candidate directory <-- candidate manager --> candidate.json   numeric     run-<id>.state.json
                                                                    ^            ^
                            budget book (reserve, reconcile) -------+--- saved --+
  adapters of the hooks --> scoped call budget (its own directory, many processes)

  every hook, collector and check is one call of subprocess.Run (group, deadline, tails)
  ack, escalate --> state.json, the second copy of run-<id>.state.json, without the lock
```

The governor holds the run lock, so one process at a time works on a run id.
What races with it is the absolute deadline, a signal, the hooks and editors that
write the candidate directory, and its own predecessors, which may have died at
any step.  The scoped budget has no lock at all.  `isolate` is a separate command
with two goroutines that share the revocation of one key.

### What is hard

- **Crashes between two writes.**  The journal and the state file are two files.
  A promotion is committed when the journal is renamed, and recorded when the
  state file is saved later; a kill may fall in between, and in the middle of
  copying a directory.
- **Failed writes.**  `Atomic` writes a temporary file, renames it and syncs the
  directory; an error may come before or after the rename, so memory and disk may
  differ either way.
- **Order of guards.**  A halt reason, a deadline, a failed restoration and a
  failed save can all be true of one iteration, and the last assignment wins.
- **Lock-free sharing.**  Reservations rely on `O_EXCL` only, and a file is
  visible before it is written.
- **Money.**  A call is charged by somebody else, while the process may be dead.
- **Two copies.**  The governor saves its state twice, one after the other; a resume
  reads the one, `ack` and `escalate` read and rewrite the other without the lock.
- **Summaries.**  The progress tracker keeps sets of resolved identities and of seen
  sets in place of the series it judges, and forgets them when the process ends.
- **Files that change while they are copied**, and directories where files were.
- **Commands** that ignore SIGTERM, leave descendants behind, or end at the very
  moment their deadline passes.
- **Ceilings.**  What was written at any size is read only up to 1 MiB, and what ran
  without a limit is run again within 30 s.
- **Signals** that reach a process between acquiring a duty and registering the
  code that performs it.

### What makes each component correct

| Component | Properties |
|---|---|
| Scoped budget | no call identity is launched twice; grants stay within the pinned policy; a spent slot is never refunded; every command is answered; the ledger implements one atomic allowance |
| Candidate | what is exposed is published and in the directory; the journal can always be recovered from; a half restored directory is always announced |
| Governor | one launch per iteration; only verified contents are committed; a halt restores; a response shows what is in the directory; the best never gets worse; every process ends |
| Budget book | a saved book can be loaded as long as it is short enough to be read; no charge is lost or invented; strict metering is a cap; observed metering stops after one overspending iteration |
| Snapshots | an answered id names what is stored; a restoration that succeeds left the best tree; an undisturbed one fails for listed reasons only |
| Commands | nothing of an owned group is left; accepted output is whole; every call returns |
| Runs without a candidate | the tracker says what the whole series says; the advice of explain-halt is earned, and a replay that is not cut short confirms it; the copies are in step; the unread debt is bounded |
| Isolation | what was minted is asked back and scrubbed on every return, and one failed removal does not leave its env-file; no zone works on with a revoked key; a received signal ends the run |

The hazards of the code, each at its line, with the properties that would catch
it going wrong, are in `PROJECT.json`.

## Modules

### ScopedBudget, CallAllowance, ScopedBudgetRefinement

`ScopedBudget` is `cmd/scoped_budget.go` as the processes execute it: each step of
a process is one system call that other processes can see.  `tree`, `policyFile`
and `ledger` are the disk; `pc`, `job`, `opened` and `used` are the memory of each
process; `granted` and `launches` are history.  A file exists, as `Partial`, from
its exclusive creation until its content was written.  `ReadDir` returns every file
that was there when it began and any of those created since, so the scan has two
steps (`OpenLedger`, then `ReadInvalid` or `ReadReport`).  `SlotTaken` is the
`ErrExist` branch of the retry loop.  Every write can fail and every process can be
killed at every step.

`CallAllowance` is what an adapter wants to believe: one allowance, pinned by its
first user, spent one call at a time, launched at most once.  `ScopedBudgetRefinement`
maps the ledger to it and states the refinement as a property.

Left out: power loss (what a process wrote stays), flag syntax, the JSON itself.

### Candidate

`candidateManager` and its journal.  `tree` is the content of the candidate
directory (a content, or `Torn` while a restoration copies), `store` the published
snapshots, `journal` what `candidate.json` holds, `mem` the manager of the running
process, `op` what it is in the middle of, `ret` the outcome of its last call, `ctx`
the context its calls run under.  A snapshot id is its content, because ids are
hashes of contents.  `promote` and `restore` take several steps: announce in the
journal, copy, verify, commit in the journal; a kill, or a failed save that may or
may not have reached the disk, can come at each of them.  `CandidateNext` leaves the
order of the calls to the caller, so its theorems hold for any governor; that
executeRun is one of its callers is checked as `CandidateSpec`.

### Numeric

`observe` of `cmd/numeric.go` over integers: a difference of scores is rounded to
nine decimals by the code, so scores are taken as multiples of that unit.

### Governor

`executeRun` and `verifyBaseline` for a run with a candidate, extending `Candidate`
and `Numeric`.  `pc` names the next block of the function; `st`, `halt` and `cause`
are its local variables; `saved` is the per-run state file, the copy `--resume`
reads; "none" is the empty reason.  `edited` is history: somebody edited the directory
since an attempt was last recorded.

| Step (`pc`) | Action | Lines of `cmd/run.go` |
|---|---|---|
| open | `OpenCandidate` | 152-189 |
| recover, recheck | `Recover`, `Recheck` | 190-207 |
| persist0 | `FirstPersist` | 213-215 |
| integrity | `IntegrityBaseline` | 216-228 |
| baseline, judge, adopt | `BaselineCapture`, `BaselineSkipped`, `BaselineJudge`, `BaselinePromote` | 229-233, 492-519 |
| settle | `Settle` | 234-236 |
| loop, begin, persist | `LoopEnds`, `LoopIterates`, `BeginAttempt`, `PersistIteration` | 237-266 |
| exec, guards, capture | `Exec`, `ExecRefused`, `Guards`, `CaptureAttempt` | 267-318 |
| evaluate, decide | `Evaluate`, `Decide` | 319-411 |
| promote, reject | `PromoteAttempt`, `RestoreAttempt` | 405-434 |
| conclude, record | `Conclude`, `Record` | 435-456 |
| final, cleanup, report | `Final`, `Cleanup`, `ReportHalt` | 457-490 |

The environment kills the process at any step, lets the deadline pass, sends a
signal, loses a receipt event, and edits the directory between two processes.

What is abstracted, and why it does not hide what the properties are about:

- `fail()` has many reasons; only `restoration_failed` is looked at later, so the
  others are one reason, `failed`, and most blocks may fail for no modelled cause.
- The budget inside the governor is a work command that may be refused or fail
  (`ExecRefused`, `Exec`); what the book does is `BudgetBook`.
- The comprehension debt is a halt that `Record` may add.  Members of the
  integrity report, the failing set and the tracker are not state here.
- `state.json`, the second copy of the state, is written together with the per-run
  file; nothing the governor does reads it.
- The list of protected files is taken as non-empty and the candidate directory as
  not empty: with these, opening and capturing look at the context, so a deadline
  that has passed is noticed there.
- A policy that drifted, or a budget that cannot be loaded, at a resume is a
  failure of `OpenCandidate` and counts as a fault.
- A deadline that passes before the first save is the same as a signal.

### Snapshot

The calls that `Candidate` takes as one step: `Capture`, `CopyArtifact` and the
bodies of `capture` and `restore`, one path at a time.  `tree` and `dirs` are the
candidate directory, `store` the published snapshots, `manifest` and `staged` what a
call holds in memory and in its `pending-` directory, `i` its place in the walk.  A
manifest is a function from paths to contents and is its own id.  The walk meets the
temporary file that `CopyArtifact` leaves beside its target when it is killed, so a
later restoration has to take that away too.  An attempt may leave any tree of files
and directories; another program may edit any path between two steps, any call may
fail, the governor may be killed, and a published snapshot may rot.

`Capture` refuses trees, and both ends of a restoration begin with it: a path may hold
`Irregular` (a symlink, a special file, a file of more than 1 GiB), the root may be gone or no
directory (`rooted`), and a manifest has at most `MaxFiles` files.  An attempt may leave
any of these, another program may make a path irregular.  `manifest.json` is written
at any size and read up to 1 MiB: `Readable` is the set of manifests that are
short enough, any set in the proofs.  A manifest that is not `Readable` is captured, and is
refused by `validateSnapshot` and by `restore`.

`calm` and `still` are what makes the properties sharp: nothing disturbed the call,
or nothing was edited since its last walk.  `CalmRestoreSucceeds` lists every reason for which an
undisturbed restoration may fail: a damaged snapshot, a manifest that is too long, a
directory in the place of a file (`Obstructed`), a tree that `Capture` refuses (`Refused`).  Left
out: exclude lists, which keep a path out of the model, and the directories of the
store being synced (no power loss).  Permissions that an attempt takes away make a
call fail (`Fail`), so such a restoration is not a calm one; paths that are not UTF-8, which JSON does
not keep, are left out.

### Subprocess

One call of `subprocess.Run`.  `alive`, `doomed` and `holders` are the processes, those
that were sent SIGKILL, and those that hold the output pipes; `wait` is the goroutine
around `c.Wait`; `tail` is the bounded buffer, `copied` what it was given.  `pc` is
`Run`: `select`, then `returned`, or `grace` and `reap` when the context ended first.
The group is owned, joined (`JoinGroup`, the adapters) or none (other systems).
`Event` is what `commandRunner` writes to the receipt, and `Accepted` what `collectorSet`
and `structuredResult` take.  Time is left out: each timer may fire at any moment.
`c.Wait` answers `ErrWaitDelay` only for a command that succeeded, as os/exec does.

### Progress, PlainRun

`Progress` is `progressTracker` as operators over a record, and next to it what a verdict
should be as a property of all the sets shown (`VerdictOf`).  `PlainRun` is `executeRun`
without candidate and score, for runs with and without `--workflow` in one directory:

| Step (`pc`) | Action | Lines of `cmd/run.go` |
|---|---|---|
| off | `StartFresh`, `Resume` | 43-66, 94-121 |
| save, point | `SaveRun`, `SaveLatest` | 133-149 |
| baseline | `Baseline` | 216-236 |
| loop | `IterStart`, `LoopEnds` | 237-266, 457-459 |
| exec, members, check, judge | `Exec`, `Members`, `Check`, `Judge` | 267-448 |
| count | `Count` | 449-456 |
| finish, answer | `Finish`, `Answer` | 470-491 |

`saved` and `latest` are the two copies; every record carries the number of its governor
and of its save, which the code does not have and the properties need.  `OpReads`,
`Ack` and `Escalate` read `state.json`, change it and write it back without the lock.
`history`, `initial`, `missing`, `unread`, `resumes` are ghosts; "none" is the empty halt reason.  `explainHalt`, `replay` and
`attestVerifies` are the commands that read a record later, as operators of it.  `replay` runs the
check again: it takes what the check found then as found again (a deterministic check),
and whether it takes more than 30 s (`long`), which is what the replay of a workflow run
gives it when the run has no `--command-timeout` (`OutOfTime`; `TimedRuns` have one, and a check that ended
within it ends within it again).  `AdviceIsEarned` speaks of the replays that are not cut short.  What a
command or a collector finds is any outcome; the budget hooks of a workflow run are
`BudgetBook`.  Two things are stated because they surprise: an empty integrity baseline
is left out of the JSON (`omitempty`, `cmd/main.go:297`), so every resume of such a run
halts with `integrity_baseline_drift`, and so does a resume of a run that was killed
before its baseline was saved.

### BudgetBook

`reserve`, `reconcile` and `validate` of `cmd/budget.go` and the paid work around
them in `cmd/workflow.go`: the reservation is saved before the work is launched,
the usage is booked and saved after it.  Costs are integers up to `MaxInt`, and
additions beyond it are refused as `safeAdd` does.  The usage hook is truthful
(`Truth`) or says anything (`Lies`); in strict mode the provider enforces the limits
that were reserved, which is what strict asserts of it.  A book is saved at any size, and
`workflow.Read` refuses more than 1 MiB: `Oversized` books have more than `MaxRecords` records
(entries and pending calls), and a process that starts on one halts.  `SavedBookLoads` says that nothing else
makes a saved book one that `loadBudget` refuses.  Tokens, which are booked
like costs, and the rolling cost anomaly are left out.

### Isolate

`loopexec isolate --execute --confirm`: the command and the goroutine that waits for
SIGINT and SIGTERM.  `revoke` tests `report.Revoked`, runs the hook and sets the
field without a lock; the race on that field is modelled as any interleaving of its
reads and writes.  `envFile` tells the env-file of this run from the one that an earlier
run left behind: the reset may fail to remove the latter, and the command returns with it before
anything is minted (`cmd/isolate.go:166-168`).  A mint hook that fails has minted nothing, and killing the
client of the container runtime is taken as ending the zone; both are outside the
repository.

### MC modules, proof modules

The `MC` modules only name the values of constants.
`ScopedBudgetProofs`, `CandidateProofs`, `GovernorProofs`, `SnapshotProofs`,
`BudgetBookProofs`, `PlainRunProofs`, `IsolateProofs` and `SubprocessProofs` hold the
theorems, each about the module it is named for.  Definitions marked
*Defect* in a module are plausible bugs of the definition they stand next to; no
specification uses them.  `PROJECT.json` pairs each property with one of them:
exchanging the two makes TLC report that property.

## Runs, bounds and fairness

| Run | What it asks | Bounds | Distinct states |
|---|---|---|---|
| `scoped_budget` | safety, liveness and refinement of the shared ledger | 2 processes, 2 identities, 2 phases, 2 policies | 205,000 |
| `governor` | safety of runs with a score and baseline, or with check alone and hooks that write | 2 contents, scores 0..2, 2 iterations, 2 starts, 1 fault | 2,900,000 |
| `governor_ends` | every process answers or is killed | 1 iteration, 2 starts, 1 fault | 430,000 |
| `budget_book` | the book across iterations and processes, in four metering settings | 2 calls, 2 iterations, 2 starts, 1 fault, integers to 3, books of 3 records | 2,980,000 |
| `isolate` | revocation and scrubbing on every way out | 2 signals, 2 faults | 4,900 |
| `subprocess` | one command in each kind of group, against its deadline | 1 descendant in the group, 1 outside, 3 units of output, a tail of 2 | 36,900 |
| `snapshot` | capture, publication and restoration file by file | 4 paths (one inside another, one temporary), 2 contents, 1 attempt, 2 disturbances, manifests of 2 files | 4,430,000 |
| `plain_run` | two runs in one directory: verdicts, advice, copies, debt | 3 iterations, 2 failures, 1 member, 2 governors, 1 failed write or ack or escalate, any number of kills | 4,710,000 |
| `success_of_failing_best`, `restore_blocked`, `ack_forgotten`, `signal_skips_revocation` | one claim of the documentation each, which the code does not keep | the smallest instance that shows it | up to the violation |

Why the bounds are enough to meet the interesting cases:

- *scoped_budget*: two processes are needed for a race, two policies for a caller
  whose limits differ from the pinned ones, one of them with a total below the sum
  of its phases.  Each process may run any number of commands one after the other,
  so retries after a kill, lost slots and exhausted budgets all occur.
- *governor*: two contents are an initial and a changed one; three scores with
  tolerance 1 give a gain, a tolerated decrease and one that is too large, and
  target 2 with tolerance 1 gives a success below the target; patience 2 is reached
  across iterations.  Two starts give a resumed run, two iterations a best that a
  later attempt competes with, and one fault (a kill, a failed save or a lost
  receipt) may strike at every step.  With two faults one more thing happens:
  when the first save of a run fails and the process is then killed during its last
  restoration, no state file exists, `--resume` is refused, and the fresh start
  takes over an interrupted journal without restoring (`cmd/run.go:190`).
  `CandidateSpec` excludes that order of calls, so it holds for one fault only.
- *budget_book*: the allowance is less than two full iterations, and the largest
  integer is just above it, so both limits are reached.  Two iterations of two calls make
  four records, one more than a book that can be read has (`MaxRecords`), so a resume
  that is refused for the size of its book occurs.
- *subprocess*: output exceeds the tail by one, so it is cut; one process inside and one
  outside the group are what a signal reaches and does not reach.
- *snapshot*: `x` is in the directory `a`, which may be a file as well, `b` stands beside it;
  so files appear, vanish, change, and turn into directories and back.  `MaxFiles` is 2, one less than the
  files a walk can meet (a kill may leave the temporary one); a manifest
  of `x` and `b` is too long to be read, every other one is not, so the first capture may be
  of either kind.  Two
  disturbances let one hide the other (a kill, then an edit).  One attempt, because a
  second one starts from a state the first one could have left.
- *plain_run*: three iterations are the least that show a regression (a set, another,
  a return) and a stall of two that an equal size must not end.  The workflow run
  has a threshold of two, so the debt is met with one iteration to spare; the legacy
  run has none, so all its iterations run.  A run that another one follows is
  looked at for one iteration (`Follows`), and ack and escalate act where their order
  matters (`Meets`); both are guards of the module, because the run is at the limit of
  what can be checked in minutes.  `TimedRuns` is empty, so replays of the workflow run may be cut short.  Failing
  identities are symmetric.
- `Settings`: runs with a baseline have read-only hooks, as `docs/workflows.md:192`
  asks, and runs without one let check and score write the candidate.  The
  combination is left out because `verifyBaseline` does not look at the directory a
  second time (hazard at `cmd/run.go:518`).

Fairness:

- `ScopedBudget!FairSpec`: each process that runs a command keeps running; it waits
  for nothing but its own system calls.
- `Governor!FairSpec`: weak fairness of `Step`.  Apart from launched commands the
  process never waits, so this assumes that commands end, by themselves or by
  `--command-timeout` and `--timeout`; both are unlimited by default.
- `Isolate!FairSpec`: both goroutines are scheduled and hooks end; a zone need not
  end unless its context is cancelled.
- `Subprocess!FairSpec`: the goroutines run, timers fire, and a process that was sent
  SIGKILL ends.  Commands owe nothing: they may never end by themselves.
- Snapshot and PlainRun state safety only: each step of theirs is a call that returns,
  and that a governor ends is `EveryProcessEnds`.
- `CHECK_DEADLOCK FALSE`: starts, faults, signals and iterations are bounded, and a
  command that has answered is at rest; that nothing stops early is what
  `EveryCommandAnswered`, `EveryProcessEnds` and `SignalEndsRun` say.

## Proofs

Every safety property, every action property and every refinement that a passing run
checks is a theorem too, for every value of the constants that the named assumptions
allow; five of the Governor's have a premise, which is stated with them.
The proof modules follow one argument: a typed inductive invariant, one lemma per
action that it preserves it, and the properties as consequences.

| Module | Inductive invariant | Theorems of the properties |
|---|---|---|
| `ScopedBudgetProofs` | `LedgerInvariant` | `TypeCorrect`, `LaunchOnce`, `Recorded`, `NeverExceeded`, `NeverRefunded`, `LedgerImplementsAllowance` |
| `CandidateProofs` | `CandidateInv` | `CandidateTypes`, `ExposureCorrect`, `RecoveryPossible`, `RestorationCovered` |
| `GovernorProofs` | `GovernorInv` | `GovernorTypes`, `NoReplay`, `OnlyAcceptedIsCommitted`, `GovernedRecovery`, `BestOnlyImproves`, `BestIsInPlace`, `HaltsRestored`, `ResponsesAreTrue`, `GovernorTransacts`, `GovernedRestoration` |
| `SnapshotProofs` | `SnapshotInv` | `SnapshotTypes`, `CapturesWhole`, `RestoresBest`, `CalmRestorations` |
| `BudgetBookProofs` | `BudgetInv` | `BudgetTypes`, `BooksLoad`, `NoChargeLost`, `StrictCaps`, `ObservedHalts` |
| `PlainRunProofs` | `PlainRunInv` | `PlainRunTypes`, `VerdictsMeetHistory`, `AdviceAlwaysEarned`, `CopiesStayInStep`, `DebtsAreBounded` |
| `IsolateProofs` | `IsolateInv` | `IsolateTypes`, `Scrubbed`, `ZonesHoldGoodKeys` |
| `SubprocessProofs` | `CallInv` | `CallTypes`, `GroupEnds`, `WholeAccepted` |

**ScopedBudgetProofs**, for any sets of processes, identities, phases and policies
(`PolicyAssumption`: limits are numbers not above the total; `SentinelAssumption`: an
empty file is neither a record nor a policy).  `TypeCorrect` proves the types.
`LedgerCorrect` proves `LedgerInvariant`, which is stronger than what the runs check:
slots have no gap and only the last may be unwritten; every slot that is being
written has one writer; records are under the pinned policy, with different
identities and within the limits; and, the part that makes it inductive, what a
scan told a process (its identity is not there, there is room) stays true until it
claims the next slot, because nobody else can append a record without taking that
slot.  From it follow the properties, and that the ledger implements `CallAllowance`:
the policy is pinned when its file is written, a call is spent when its slot is
synced, it is launched when the command answers, and every other system call of any
process is a stutter.

**CandidateProofs**, for any set of contents and evidence and any number of faults
(`NoneIsNoState`: the absence of a journal is not a journal).  `CandidateInv` adds to
the types: memory and journal agree, or differ only by the best being committed or
by a restoration in progress (`Midway`); what either points to is published
(`Published`); and an operation holds what its next step needs (`Held`).  Without these,
`ExposedIsBest`, `RecoverySnapshot` and `TornIsCovered` are not inductive: a
restoration is covered only because the journal announced it *before* the first
file was copied.

**GovernorProofs**, for any contents and score policy, any number of iterations,
starts, kills and failed saves (`EvidenceAssumption`: what a run records with a
candidate is evidence; `NoneIsNoRun`: the absence of a state file is not one).
`ManagerInv` is about the manager and its disk, and is preserved by its operations
whichever step of `executeRun` calls them; the other parts of `GovernorInv` tie it to
the step reached: the operation under way (`Coupled`), why the process goes on or
stops (`Directed`), when a state file exists (`Filed`), the iteration on disk, the one in
memory and the launches (`Launches`), what may be promoted (`Chosen`), the numeric state
against the score it was recorded with (`KeepsScore`, `Tallied`, `Graded`), what a converged
run still has after a resume (`Converging`), and what the directory holds (`InPlace`).
Two premises are stated where they are needed, because without them the code does
not keep the promise:

- `QuietBaselines`, for what speaks of the directory: no hook writes the directory of a
  run with a baseline.  `verifyBaseline` promotes what it captured without a second
  look (`cmd/run.go:518`), and `docs/workflows.md:192` asks for read-only hooks there.
- `FreshFindsSettled`, for the order of calls that `Candidate` demands: a fresh start does
  not find an interrupted journal.  It does when the first save of a run failed and
  the process was then killed during its last restoration: there is no state file, so
  `--resume` is refused (`cmd/workflow.go:194-207`), and the fresh start takes the
  journal over without looking at its status (`cmd/run.go:190`).  Every shorter history
  satisfies it, and the run `governor` checks `CandidateSpec` without it for one fault.

`GovernorTransacts` then proves that every step of `executeRun` is a step of `Candidate` or
leaves it alone, and `GovernedRestoration` takes `TornIsCovered` from there.

**SnapshotProofs**, for any paths in any order in which a directory comes before what
is in it, directories one deep, and any number of edits, failures, kills and rotten
snapshots, any `MaxFiles`, and any set of manifests that can be read (`ReadableAssumption`).  `SnapshotInv` says of the paths that a call has passed, and of those it has
not, what the tree, the manifest, the staged files and the target are.  The proof
corrected the model: a walk does not meet what is below a path that it met as a file
(`filepath.WalkDir`), even if another program turns it into a directory meanwhile;
before, a manifest could hold a file inside a file.  That a calm walk is refused for its number
of files only if the tree has too many is a count over finite sets (`MoreFiles`).

**BudgetBookProofs**, for any finite set of names of calls, any charges and limits,
any setting, in every metering mode.  `BudgetInv` says that the iteration is saved before anything is
charged for it (`IterationSaved`), how the book in memory and the saved one may differ
(`BookSaved`), that both are valid, of whatever size (`BooksValid`), that each charge is booked or belongs to the
pending iteration (`ChargesBooked`), and that in strict mode what is booked and what is
reserved stay within the limits together (`StrictWithin`).  The book adds up with a
fold, so the module first proves what it needs of sums over finite sets; the
induction over sets is done by looking at a smallest set that refutes the claim.

**PlainRunProofs**, for any runs, failing identities and members, any limits and any
number of governors, kills, failed writes, acks and escalations (`IsFiniteSet(Failures)`:
a set of failures has a size; `NoneIsNoState`).  The core of `PlainRunInv` is `Tracks`: the
tracker is at every moment the `Summary` of the series of sets it was shown, for series
of any length.  The rest says how far a copy may be behind and what an answer has
saved (`Copies`, `Saved`, `Answered`), what a success stands for (`Succeeds`, `Earns`), and that
a kill forgets at most one iteration of the debt for each resume (`Debts`).  The proof
corrected the model: the verdict of the tracker was a CASE whose arms overlap, which
leaves the choice open; it is the chain of tests that `observe` is.

**IsolateProofs**, for any number of signals and failed steps.  Neither goroutine
locks anything, so `IsolateInv` works with where each of them is: as long as no revoke
hook has ended, those that were started are still running (`AttemptsCounted`); the
goroutine ends the context before it revokes, and the command revokes after its
zones (`ZonesFirst`); the env-file of this run has survived a fault at each try, and that of an earlier
run is there only before the reset or after a fault (`FileCovered`).

**SubprocessProofs**, for any descendants inside and outside the group, any bound of the
tail and any amount of output.  `CallInv` adds to the types what each place of `Run`
knows: SIGTERM and a cause only on the branch of the context (`BranchKnown`); a tail
that lost nothing holds all that was copied, and all was copied when `Wait` met the end
of the pipes (`CopyKnown`); and from the kill of an owned group on, all that lives of it is
doomed (`GroupKilled`).  The last one is inductive because a doomed process starts
nothing and a descendant that left the group never comes back into it: a fork after
the kill can only be a fork of an escapee.

Only model-checked: liveness (`EveryCommandAnswered`, `EveryProcessEnds`,
`SignalEndsRun`, `RunReturns`).  It needs fairness and ENABLED, which the installed
provers do not treat.  The four disagreements below are counterexamples, and theirs
is TLC's work as well.

## Where code and documentation disagree

Each has a run that exhibits it, and is quoted in `PROJECT.json` under "findings".

| Run | What happens |
|---|---|
| `success_of_failing_best` | the run converges while the candidate it shows is a best one whose own check failed |
| `restore_blocked` | an attempt that leaves a directory in the place of a file of the best snapshot cannot be undone: `restore` removes files only, and the rename fails |
| `ack_forgotten` | `ack` clears the debt in `state.json`; `--resume` reads the other copy and halts for the old debt after one iteration |
| `signal_skips_revocation` | SIGINT between the mint hook and `signal.Notify` ends the process with a live key |

TLC refutes seven more claims in the same instances; they are stated in the modules
and have no run of their own (one line of a .cfg checks each):

- `ScopedBudget!InvalidMeansDamage`: a concurrent reservation is refused as damage
  although another process is only between creating and writing a file.
- `Governor!ResumeRestores`: a run resumed after its deadline halts without restoring
  what an interrupted attempt left (`docs/workflows.md:198`).
- `Governor!ConvergedIsFinal`: a converged run, resumed and killed after its first save,
  launches work at the next resume (`docs/workflows.md:139`).
- `Governor!AcceptedWithinTolerance`: a kill after the baseline was promoted loses its
  score, and attempts are judged without a best (`docs/workflows.md:157`).
- `Snapshot!PermittedRestores`: a snapshot of some 7,000 files or more, which `Capture` permits
  (`docs/workflows.md:177`), has a `manifest.json` of more than 1 MiB; it is published as the
  initial one, and no restoration can read it (`cmd/candidate.go:211`).
- `PlainRun!ReplayConfirms`: a run without `--command-timeout` converges with a check of more than
  30 s; `replay` ends that check after 30 s and answers `objective_unverified`
  (`cmd/receipt.go:307`, `SPEC.md:121`).
- `Governor!FailedRestorationHides`: a response carries the best candidate together with
  `restoration_failed` (`docs/workflows.md:199`).

## Not modelled

- **reexecute, status, watch, replay of a candidate**: reexecute starts independent runs
  in copies of the workspace and counts their halts; watch reads a heartbeat that
  nothing else reads.
- **Context builder, doctor, probe, inspect, report, demo, tools, scripts**: pure
  selections, read-only reports, generators.
- **Parsing and validation** of the workflow file and the model policy: what later
  code relies on is in the ASSUMEs of Numeric and BudgetBook.
- **Run lock**: on Unix the kernel releases it with its process, which Governor
  relies on.  Elsewhere it is a file that a crash leaves behind
  (`internal/workflow/lock_other.go`), so that later governors are rejected.
- **Sizes elsewhere**: the workflow file, the journal and the requests of a run are read
  up to 1 MiB too; what the code puts into them is bounded by the workflow file.  `Candidate` takes an
  initial snapshot whose manifest is too long as a restoration that fails.
- **Power loss**: processes are killed, and the file system keeps what they wrote.
- Noticed, and in no property: a breach of a reservation is not in the saved book; the
  tracker forgets at a resume, so an oscillation across it is not reported; a refused
  attempt may leave its score as the best of a run without a candidate; a workflow run
  resumed at its cap halts with `max_iterations_reached` without a check; the baseline's
  request is written as `baseline.check` (`cmd/run.go:497`), so a best candidate of
  iteration 0 cannot be replayed (`cmd/receipt.go:294`).

## Plan

Done, in this order: ScopedBudget with its refinement and proofs; Candidate and
Numeric; Governor over both; CandidateProofs; BudgetBook; Isolate; Subprocess
and its proofs; Snapshot; Progress and PlainRun; then the proofs of Isolate, of the
refinement of CallAllowance, of BudgetBook, Governor, Snapshot and PlainRun.

Next, most important first:

1. Snapshot as a refinement of the one-step capture and restore of Candidate, proved
   as the ledger is: it would carry `CandidateProofs` down to the level of files.
2. A variant for what ends: that each step of a process of Governor, and of a call of
   Subprocess after its deadline, decreases a measure.  It is a safety property, and
   leaves only fairness to TLC.
3. The runs are at their useful number; a new module would replace one of the
   disagreement runs.
