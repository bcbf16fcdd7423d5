------------------------------ MODULE BudgetBook ------------------------------
(***************************************************************************)
(* The budget book of `loopexec run --workflow` (cmd/loopexec/budget.go)   *)
(* and the paid work around it (workflow.go: paid, reconcile,              *)
(* restorePending; run.go: the load and the restart of a run).             *)
(*                                                                         *)
(* The book lives in memory and, saved with Atomic, in budget.json.  The   *)
(* provider charges calls while the work command runs; the usage hook      *)
(* reports them afterwards, truthfully unless `lied`.  A process may be    *)
(* killed between any two steps and the run resumed; the absolute deadline *)
(* makes every hook fail once it has passed.                               *)
(*                                                                         *)
(* Tokens are counted like money and are left out, as are the rolling cost *)
(* anomalies, which need four charged iterations.                          *)
(***************************************************************************)
EXTENDS Integers, FiniteSets, FiniteSetsExt

CONSTANTS
  Name,          \* names of the calls of one iteration
  MaxCost,       \* largest charge or reservation of one call
  MaxInt,        \* math.MaxInt64
  MaxIterations,
  MaxStarts,
  MaxFaults,     \* kills and failed saves
  MaxRecords,    \* what a book of MaxEvidence, 1 MiB, holds
  Settings,      \* runs considered: records [mode, reserve, cap, maxCalls]
  None

ASSUME BudgetAssumption ==
  /\ IsFiniteSet(Name)
  /\ MaxCost \in Nat /\ MaxInt \in Nat
  /\ MaxIterations \in Nat /\ MaxStarts \in Nat /\ MaxFaults \in Nat
  /\ MaxRecords \in Nat
  \* loadWorkflow: strict needs a hook and an allowance, unmetered has none,
  \* and a limit on calls needs the hook.
  /\ Settings \subseteq [mode: {"strict", "observed", "unmetered"}, reserve: BOOLEAN,
                         cap: 0..MaxInt, maxCalls: Nat]
  /\ \A s \in Settings : /\ s.mode = "strict" => s.reserve /\ s.cap > 0
                         /\ s.mode = "unmetered" => s.cap = 0
                         /\ s.maxCalls > 0 => s.reserve

VARIABLES
  setting,
  pc,        \* the next step of the process; "down" without one
  iter,      \* loopState.Iteration
  savedIter, \* the same in run-<id>.state.json, or None
  book,      \* budgetBook in memory
  disk,      \* budget.json, or None
  after,     \* where the process goes when the book has been saved
  expired,   \* the absolute deadline has passed
  starts,
  faults,
  charged,   \* history: what the provider charged
  lied       \* history: a usage report differed from that

vars == <<setting, pc, iter, savedIter, book, disk, after, expired, starts, faults,
          charged, lied>>
run == <<setting, iter, savedIter, expired, starts>>

CallID == (1..MaxIterations) \X Name
\* A report about one call; money is absent, 0, when unknown or skipped.
Entry == [status: {"actual"}, usd: 0..MaxCost] \cup [status: {"unknown", "skipped"}, usd: {0}]
Skipped == [status |-> "skipped", usd |-> 0]
Partials(S, T) == UNION {[D -> T] : D \in SUBSET S}

\* Calls that a hook may name in iteration i.
Calls(i) == {i} \X Name
\* Preflight: pending.calls is None when no reservation hook was asked.
Pending == [iter: 1..MaxIterations, calls: Partials(CallID, 0..MaxCost) \cup {None}]

\* f, and g where f says nothing.
Joined(f, g) == [x \in DOMAIN f \cup DOMAIN g |-> IF x \in DOMAIN f THEN f[x] ELSE g[x]]

Usd(entries, ids) == MapThenSumSet(LAMBDA id : entries[id].usd, ids)
Used(entries)     == Usd(entries, DOMAIN entries)
Count(entries)    == Cardinality({id \in DOMAIN entries : entries[id].status # "skipped"})

NewBook(mode) == [usd |-> 0, calls |-> 0, known |-> mode # "unmetered",
                  entries |-> <<>>, pending |-> None]

\* The length of budget.json, counted in its entries and reserved calls.
Records(b) ==
  Cardinality(DOMAIN b.entries)
    + (IF b.pending = None \/ b.pending.calls = None THEN 0 ELSE Cardinality(DOMAIN b.pending.calls))

\* workflow.Read refuses more than MaxEvidence; Atomic saves a book of any length.
Oversized(b) == Records(b) > MaxRecords

\* budgetBook.validate.
Valid(b, mode) ==
  /\ b.usd = Used(b.entries)
  /\ b.calls = Count(b.entries)
  /\ b.known = (mode # "unmetered"
                /\ \A id \in DOMAIN b.entries : b.entries[id].status # "unknown")
  /\ mode # "unmetered" => \A id \in DOMAIN b.entries : b.entries[id].status # "unknown"

loadBudget(b, mode) == ~Oversized(b) /\ Valid(b, mode)

------------------------------------------------------------------------------
(* reserve and reconcile: pure functions of the book.                       *)

Total(calls) == MapThenSumSet(LAMBDA id : calls[id], DOMAIN calls)

\* Defect: the reservation is compared with the whole allowance.
OverAllowanceFresh(b, calls) == setting.cap > 0 /\ Total(calls) > setting.cap

OverAllowance(b, calls) ==
  setting.cap > 0 /\ (b.usd >= setting.cap \/ Total(calls) > setting.cap - b.usd)

TooManyCalls(b, calls) ==
  setting.maxCalls > 0 /\ Cardinality(DOMAIN calls) > setting.maxCalls - b.calls

\* reserve: the reason a reservation is denied, "" when it is taken.
ReserveReason(b, calls) ==
  IF \/ b.pending # None
     \/ DOMAIN calls \cap DOMAIN b.entries # {}
     \/ Total(calls) > MaxInt
  THEN "cost_anomaly"
  ELSE IF OverAllowance(b, calls) \/ TooManyCalls(b, calls) THEN "budget_exceeded"
  ELSE ""

\* Defect: sums are not checked.
OverflowsNever(b, u) == FALSE

\* safeAdd fails for the new total.
Overflows(b, u) == b.usd + Usd(u, DOMAIN u \ DOMAIN b.entries) > MaxInt

\* The usage u of iteration i is refused as a whole.
Refused(b, i, u) ==
  LET reserved == IF b.pending = None \/ b.pending.calls = None
                  THEN None ELSE DOMAIN b.pending.calls
      fresh == DOMAIN u \ DOMAIN b.entries
  IN \/ b.pending # None /\ b.pending.iter # i
     \/ \E id \in DOMAIN u \cap DOMAIN b.entries : u[id] # b.entries[id]
     \/ reserved # None /\ (\E id \in fresh : id \notin reserved)
     \/ setting.mode # "unmetered" /\ \E id \in fresh : u[id].status = "unknown"
     \/ reserved # None /\ (\E id \in reserved : id \notin DOMAIN u)
     \/ Overflows(b, u)

\* A call that cost more than was reserved for it.
Breach(b, u) ==
  /\ b.pending # None /\ b.pending.calls # None
  /\ \E id \in DOMAIN u \ DOMAIN b.entries : u[id].usd > b.pending.calls[id]

\* Defect: a skipped call is counted.
BookedWithSkipped(b, u) ==
  [usd     |-> b.usd + Usd(u, DOMAIN u \ DOMAIN b.entries),
   calls   |-> b.calls + Cardinality(DOMAIN u \ DOMAIN b.entries),
   known   |-> b.known /\ \A id \in DOMAIN u : u[id].status # "unknown",
   entries |-> Joined(b.entries, u),
   pending |-> None]

\* The book with the whole batch committed.
Booked(b, u) ==
  [usd     |-> b.usd + Usd(u, DOMAIN u \ DOMAIN b.entries),
   calls   |-> b.calls + Cardinality({id \in DOMAIN u \ DOMAIN b.entries :
                                        u[id].status # "skipped"}),
   known   |-> b.known /\ \A id \in DOMAIN u : u[id].status # "unknown",
   entries |-> Joined(b.entries, u),
   pending |-> None]

\* reconcile: a breach is retained in the book, and halts.
Reason(b, i, u) ==
  IF Refused(b, i, u) THEN "cost_anomaly"
  ELSE IF Breach(b, u) THEN "cost_anomaly"
  ELSE IF \/ setting.cap > 0 /\ Booked(b, u).usd > setting.cap
          \/ setting.maxCalls > 0 /\ Booked(b, u).calls > setting.maxCalls
       THEN "budget_exceeded"
  ELSE ""

------------------------------------------------------------------------------
Init ==
  /\ setting \in Settings
  /\ pc = "down"
  /\ iter = 0
  /\ savedIter = None
  /\ book = NewBook(setting.mode)
  /\ disk = None
  /\ after = "none"
  /\ expired = FALSE
  /\ starts = 0
  /\ faults = 0
  /\ charged = <<>>
  /\ lied = FALSE

GoTo(step) == pc' = step
Fault == faults < MaxFaults /\ faults' = faults + 1
Ledger == <<book, disk, charged, lied>>

\* saveBudget: done, or failed before or after the rename.
Save(step) ==
  \/ disk' = book /\ GoTo(step) /\ UNCHANGED faults
  \/ disk' \in {disk, book} /\ GoTo("halted") /\ Fault

\* A process starts or resumes.  A book that loadBudget refuses halts the run; a
\* pending reservation is reconciled before anything.
Start ==
  /\ pc \in {"down", "halted"}
  /\ starts < MaxStarts
  /\ starts' = starts + 1
  /\ iter' = IF savedIter = None THEN 0 ELSE savedIter
  /\ book' = IF disk = None THEN NewBook(setting.mode) ELSE disk
  /\ after' = "none"
  /\ GoTo(IF disk # None /\ ~loadBudget(disk, setting.mode) THEN "halted"
          ELSE IF book'.pending # None THEN "usage" ELSE "next")
  /\ UNCHANGED <<setting, savedIter, disk, expired, faults, charged, lied>>

\* The iteration is saved before its reservation.
Iterate ==
  /\ pc = "next"
  /\ iter < MaxIterations /\ ~expired
  /\ iter' = iter + 1
  /\ \/ savedIter' = iter + 1 /\ GoTo("reserve") /\ UNCHANGED faults
     \/ savedIter' \in {savedIter, iter + 1} /\ GoTo("halted") /\ Fault
  /\ UNCHANGED <<setting, expired, starts, Ledger, after>>

\* The loop ends: at its bound, with the context, or on any other halt reason.
Finish ==
  /\ pc = "next"
  /\ GoTo("halted")
  /\ UNCHANGED <<run, faults, Ledger, after>>

\* paid with a reservation hook: it answers, or the answer is unusable.
Reserve ==
  /\ pc = "reserve"
  /\ setting.reserve
  /\ \/ /\ ~expired
        /\ \E calls \in Partials(Calls(iter), 0..MaxCost) :
             IF ReserveReason(book, calls) = ""
             THEN /\ book' = [book EXCEPT !.pending = [iter |-> iter, calls |-> calls]]
                  /\ GoTo("save")
             ELSE GoTo("halted") /\ UNCHANGED book
     \/ GoTo("halted") /\ UNCHANGED book
  /\ UNCHANGED <<run, faults, disk, charged, lied, after>>

\* Defect: an observed run with nothing left works on.
ObservedExhaustedNever == FALSE

ObservedExhausted == setting.cap > 0 /\ book.usd >= setting.cap

\* paid without one: the allowance is looked at, and the work is announced.
Announce ==
  /\ pc = "reserve"
  /\ ~setting.reserve
  /\ IF ObservedExhausted THEN GoTo("halted") /\ UNCHANGED book
     ELSE /\ book' = [book EXCEPT !.pending = [iter |-> iter, calls |-> None]]
          /\ GoTo("save")
  /\ UNCHANGED <<run, faults, disk, charged, lied, after>>

\* Defect: the reservation is saved together with the usage only.
SaveReservationLate ==
  /\ pc = "save"
  /\ GoTo("work")
  /\ UNCHANGED <<run, faults, Ledger, after>>

SaveReservation ==
  /\ pc = "save"
  /\ Save("work")
  /\ UNCHANGED <<run, book, charged, lied, after>>

\* What the provider may charge for: in strict mode only what was reserved and
\* within its bounds (the adapter answered enforced:true); a skipped call is free.
Chargeable ==
  {w \in Partials(Calls(iter), Entry) :
     /\ setting.mode # "unmetered" => \A id \in DOMAIN w : w[id].status = "actual"
     /\ \A id \in DOMAIN w : w[id].status # "skipped"
     /\ setting.mode = "strict" =>
          \A id \in DOMAIN w : /\ id \in DOMAIN book.pending.calls
                               /\ w[id].usd <= book.pending.calls[id]}

\* The work command runs to its end, or until the deadline.
Work ==
  /\ pc = "work"
  /\ IF expired THEN UNCHANGED <<charged, expired>> /\ GoTo("halted")
     ELSE /\ \E w \in Chargeable : charged' = Joined(charged, w)
          /\ \/ GoTo("usage") /\ UNCHANGED expired
             \/ expired' = TRUE /\ GoTo("halted")
  /\ UNCHANGED <<setting, iter, savedIter, starts, faults, book, disk, lied, after>>

\* The truth about iteration i; reserved calls that were not made are skipped.
Truth(i) ==
  LET made == {id \in DOMAIN charged : id[1] = i}
      reserved == IF book.pending.calls = None THEN {} ELSE DOMAIN book.pending.calls
  IN [id \in made \cup reserved |-> IF id \in made THEN charged[id] ELSE Skipped]

\* Reports that differ from the truth in one call.
Lies(i) ==
  {[id \in DOMAIN Truth(i) \ {lost} |-> Truth(i)[id]] : lost \in DOMAIN Truth(i)}
    \cup {[Truth(i) EXCEPT ![id] = e] : id \in DOMAIN Truth(i), e \in Entry}

\* reconcile, in memory: refused, or committed as a whole.  A report that does
\* not arrive leaves the reservation pending and halts the run.
Usage ==
  /\ pc = "usage"
  /\ \/ GoTo("halted") /\ UNCHANGED <<book, after, lied>>
     \/ /\ ~expired
        /\ \E u \in {Truth(book.pending.iter)} \cup Lies(book.pending.iter) :
             LET i == book.pending.iter IN
             /\ lied' = (lied \/ u # Truth(i))
             /\ book' = IF Refused(book, i, u) THEN book ELSE Booked(book, u)
             /\ after' = IF Reason(book, i, u) = "" THEN "next" ELSE "halted"
        /\ GoTo("book")
  /\ UNCHANGED <<run, faults, disk, charged>>

SaveUsage ==
  /\ pc = "book"
  /\ Save(after)
  /\ after' = "none"
  /\ UNCHANGED <<run, book, charged, lied>>

\* SIGKILL; while the work runs the provider may have charged.
Kill ==
  /\ pc \notin {"down", "halted"}
  /\ Fault
  /\ GoTo("down")
  /\ \/ UNCHANGED charged
     \/ pc = "work" /\ ~expired /\ \E w \in Chargeable : charged' = Joined(charged, w)
  /\ after' = "none"
  /\ book' = NewBook(setting.mode)
  /\ UNCHANGED <<run, disk, lied>>

DeadlinePasses ==
  /\ savedIter # None
  /\ ~expired
  /\ expired' = TRUE
  /\ UNCHANGED <<setting, pc, iter, savedIter, book, disk, after, starts, faults, charged, lied>>

Next ==
  \/ Start \/ Iterate \/ Finish \/ Reserve \/ Announce \/ SaveReservation
  \/ Work \/ Usage \/ SaveUsage \/ Kill \/ DeadlinePasses

Spec == Init /\ [][Next]_vars

------------------------------------------------------------------------------
(* Properties.                                                              *)

Entries == Partials(CallID, Entry)
Book == [usd: 0..MaxInt, calls: Nat, known: BOOLEAN, entries: Entries,
         pending: Pending \cup {None}]

ASSUME SentinelAssumption ==
  None \notin (0..MaxIterations) \cup Partials(CallID, 0..MaxCost) \cup Pending \cup Book

TypeOK ==
  /\ setting \in Settings
  /\ pc \in {"down", "next", "reserve", "save", "work", "usage", "book", "halted"}
  /\ iter \in 0..MaxIterations
  /\ savedIter \in (0..MaxIterations) \cup {None}
  /\ book \in Book
  /\ disk \in Book \cup {None}
  /\ after \in {"none", "next", "halted"}
  /\ expired \in BOOLEAN
  /\ starts \in 0..MaxStarts
  /\ faults \in 0..MaxFaults
  /\ charged \in Entries
  /\ lied \in BOOLEAN

\* loadBudget refuses a book that the program saved for its length alone, whatever
\* the hooks reported and wherever a process was killed.
SavedBookLoads == disk # None => loadBudget(disk, setting.mode) \/ Oversized(disk)

Resolved(id) == disk # None /\ id \in DOMAIN disk.entries /\ disk.entries[id] = charged[id]
Unresolved(id) == disk # None /\ disk.pending # None /\ disk.pending.iter = id[1]

\* No charge is lost: as long as the usage hook tells the truth, each call the
\* provider charged is in budget.json with its amount, or its iteration is still
\* a pending reservation there; and no charge is invented.
ChargesKept ==
  ~lied =>
    /\ \A id \in DOMAIN charged : Resolved(id) \/ Unresolved(id)
    /\ disk # None => \A id \in DOMAIN disk.entries :
                        id \in DOMAIN charged \/ disk.entries[id] = Skipped

\* Strict metering is preventive: what the provider charged stays within the
\* allowance and the call limit, across kills, failed saves and resumed runs.
StrictIsACap ==
  setting.mode = "strict" /\ ~lied =>
    /\ Used(charged) <= setting.cap
    /\ setting.maxCalls > 0 => Count(charged) <= setting.maxCalls

\* Observed metering stops further work: nothing is charged once the charges
\* have reached the allowance, so one iteration at most overspends.
ObservedStops ==
  [][setting.cap > 0 /\ ~lied /\ charged' # charged => Used(charged) < setting.cap]_vars
=============================================================================
