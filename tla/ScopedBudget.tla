---------------------------- MODULE ScopedBudget ----------------------------
(***************************************************************************)
(* The shared call budget of `loopexec budget reserve` and `budget status` *)
(* (cmd/loopexec/scoped_budget.go).  Any number of operating-system        *)
(* processes share one scope directory.  There is no lock: the only atomic *)
(* primitives are Mkdir and O_CREATE|O_EXCL.  A record file exists, empty, *)
(* from its exclusive creation until its writer has written it, and stays  *)
(* empty for ever if the writer dies or its write fails.                   *)
(*                                                                         *)
(* A process is killed by Crash, at any of its steps.  A granted slot is   *)
(* a reservation that was returned to the caller, which then launches one  *)
(* model call.                                                             *)
(***************************************************************************)
EXTENDS Integers, FiniteSets

CONSTANTS
  Proc,      \* operating-system processes that run `loopexec budget ...`
  CallID,    \* values of --call-id
  Phase,     \* values of --phase
  Policy,    \* policies a caller may pass: records [max, limits]
  Partial,   \* content of a file that was created and not (fully) written
  NoPolicy,  \* policy.json does not exist
  NoJob      \* the process runs no command

Call == [call: CallID, phase: Phase, policy: Policy]

ASSUME PolicyAssumption ==
  \A q \in Policy : /\ q.max \in Nat
                    /\ DOMAIN q.limits \subseteq Phase
                    /\ q.limits \in [DOMAIN q.limits -> 0..q.max]

ASSUME SentinelAssumption ==
  /\ Partial \notin Call
  /\ Partial \notin Policy
  /\ NoPolicy \notin Policy \cup {Partial}

VARIABLES
  tree,       \* directories that exist: "none", "scope", "calls" (scope and calls)
  policyFile, \* content of policy.json: NoPolicy, Partial or the pinned policy
  ledger,     \* call-%06d.json files: slot number -> Partial or the reservation
  pc,         \* what each process does next
  job,        \* its command: NoJob or a Job
  opened,     \* slots that existed when its directory scan began
  used,       \* report.Used after a successful scan
  reply,      \* outcome of its last command
  granted,    \* slots whose reservation was returned to a caller
  launches    \* how often each call identity was granted

disk    == <<tree, policyFile, ledger>>
locals  == <<pc, job, opened, used, reply>>
history == <<granted, launches>>
vars    == <<tree, policyFile, ledger, pc, job, opened, used, reply, granted, launches>>

Job == [op: {"reserve"}, call: CallID, phase: Phase, policy: Policy]
         \cup [op: {"status"}, policy: Policy]

ReserveSteps == {"mkdir", "mkcalls", "pin", "pinwrite", "pinread",
                 "create", "write", "sync"}
ScanSteps    == {"open", "read"}
Steps        == {"idle"} \cup ReserveSteps \cup ScanSteps
Replies      == {"none", "granted", "ok", "duplicate", "exhausted",
                 "invalid", "failed", "killed"}

\* A running process has a command, and only `reserve` creates files.
JobFits(j, step) ==
  /\ step # "idle" => j \in Job
  /\ step \in ReserveSteps => j.op = "reserve"

Slots == DOMAIN ledger

(***************************************************************************)
(* scopedStatus over the first n records, under the caller's policy q.     *)
(***************************************************************************)
Written(n) == \A s \in 1..n : ledger[s] # Partial

UsedInPhase(n, ph) == {s \in 1..n : ledger[s].phase = ph}

\* Defect: the call identity is not compared with the ledger.
ReservedIgnored(n, c) == FALSE

Reserved(n, c) == \E s \in 1..n : ledger[s].call = c

LedgerValid(n, q) ==
  /\ Written(n)
  /\ \A s \in 1..n : /\ ledger[s].policy = q
                     /\ ledger[s].phase \in DOMAIN q.limits
  /\ \A s, t \in 1..n : ledger[s].call = ledger[t].call => s = t
  /\ n <= q.max
  /\ \A ph \in DOMAIN q.limits : Cardinality(UsedInPhase(n, ph)) <= q.limits[ph]

\* Defect: one call too many.
ExhaustedLate(n, q, ph) ==
  n > q.max \/ Cardinality(UsedInPhase(n, ph)) = q.limits[ph]

\* Defect: only the total is compared.
ExhaustedInTotal(n, q, ph) == n = q.max

Exhausted(n, q, ph) ==
  \/ n = q.max
  \/ Cardinality(UsedInPhase(n, ph)) = q.limits[ph]

-----------------------------------------------------------------------------
Init ==
  /\ tree = "none"
  /\ policyFile = NoPolicy
  /\ ledger = [s \in {} |-> Partial]
  /\ pc = [p \in Proc |-> "idle"]
  /\ job = [p \in Proc |-> NoJob]
  /\ opened = [p \in Proc |-> {}]
  /\ used = [p \in Proc |-> 0]
  /\ reply = [p \in Proc |-> "none"]
  /\ granted = {}
  /\ launches = [c \in CallID |-> 0]

\* The command of p ends with outcome r; its memory is gone.
Finish(p, r) ==
  /\ pc' = [pc EXCEPT ![p] = "idle"]
  /\ job' = [job EXCEPT ![p] = NoJob]
  /\ opened' = [opened EXCEPT ![p] = {}]
  /\ used' = [used EXCEPT ![p] = 0]
  /\ reply' = [reply EXCEPT ![p] = r]

Goto(p, step) ==
  /\ pc' = [pc EXCEPT ![p] = step]
  /\ UNCHANGED <<job, opened, used, reply>>

\* A new command.  `reserve` starts with the validation of the phase, before
\* anything is created; `status` goes straight to the scan.
Begin(p, j) ==
  /\ pc[p] = "idle"
  /\ job' = [job EXCEPT ![p] = j]
  /\ pc' = [pc EXCEPT ![p] = IF j.op = "reserve" THEN "mkdir" ELSE "open"]
  /\ j.op = "reserve" => j.phase \in DOMAIN j.policy.limits
  /\ reply' = [reply EXCEPT ![p] = "none"]
  /\ UNCHANGED <<disk, opened, used, history>>

Mkdir(p) ==
  /\ pc[p] = "mkdir"
  /\ tree' = IF tree = "none" THEN "scope" ELSE tree
  /\ Goto(p, "mkcalls")
  /\ UNCHANGED <<policyFile, ledger, history>>

MkdirCalls(p) ==
  /\ pc[p] = "mkcalls"
  /\ tree' = "calls"
  /\ Goto(p, "pin")
  /\ UNCHANGED <<policyFile, ledger, history>>

\* pinScopedPolicy: exclusive creation of policy.json ...
PinCreate(p) ==
  /\ pc[p] = "pin"
  /\ policyFile = NoPolicy
  /\ policyFile' = Partial
  /\ Goto(p, "pinwrite")
  /\ UNCHANGED <<tree, ledger, history>>

PinExists(p) ==
  /\ pc[p] = "pin"
  /\ policyFile # NoPolicy
  /\ Goto(p, "pinread")
  /\ UNCHANGED <<disk, history>>

\* ... its content, written and synced ...
PinWrite(p) ==
  /\ pc[p] = "pinwrite"
  /\ policyFile' = job[p].policy
  /\ Goto(p, "pinread")
  /\ UNCHANGED <<tree, ledger, history>>

\* ... or a write or sync error, which leaves the file as it is.
PinWriteFails(p) ==
  /\ pc[p] = "pinwrite"
  /\ policyFile' \in {Partial, job[p].policy}
  /\ Finish(p, "failed")
  /\ UNCHANGED <<tree, ledger, history>>

PinRead(p) ==
  /\ pc[p] = "pinread"
  /\ IF policyFile = job[p].policy THEN Goto(p, "open") ELSE Finish(p, "invalid")
  /\ UNCHANGED <<disk, history>>

\* scopedStatus up to the start of ReadDir.
OpenLedger(p) ==
  /\ pc[p] = "open"
  /\ \/ /\ tree = "none"
        /\ Finish(p, "ok")
     \/ /\ tree # "none"
        /\ policyFile # job[p].policy \/ tree # "calls"
        /\ Finish(p, "invalid")
     \/ /\ tree = "calls"
        /\ policyFile = job[p].policy
        /\ opened' = [opened EXCEPT ![p] = Slots]
        /\ pc' = [pc EXCEPT ![p] = "read"]
        /\ UNCHANGED <<job, used, reply>>
  /\ UNCHANGED <<disk, history>>

\* The rest of scopedStatus and the decision of reserveScopedCall.  ReadDir
\* returns every file that existed when the scan began and any of those created
\* since.  Records are written once, so reading them one after the other sees
\* what one read at the end of the scan sees.
Listed(p, new) == opened[p] \cup new

ReadInvalid(p) ==
  /\ pc[p] = "read"
  /\ \E new \in SUBSET (Slots \ opened[p]) :
       LET n == Cardinality(Listed(p, new))
       IN  Listed(p, new) # 1..n \/ ~LedgerValid(n, job[p].policy)
  /\ Finish(p, "invalid")
  /\ UNCHANGED <<disk, history>>

ReadReport(p) ==
  /\ pc[p] = "read"
  /\ \E new \in SUBSET (Slots \ opened[p]) :
       LET n == Cardinality(Listed(p, new))
           q == job[p].policy
       IN  /\ Listed(p, new) = 1..n
           /\ LedgerValid(n, q)
           /\ \/ job[p].op = "status" /\ Finish(p, "ok")
              \/ /\ job[p].op = "reserve"
                 /\ Reserved(n, job[p].call)
                 /\ Finish(p, "duplicate")
              \/ /\ job[p].op = "reserve"
                 /\ ~Reserved(n, job[p].call)
                 /\ Exhausted(n, q, job[p].phase)
                 /\ Finish(p, "exhausted")
              \/ /\ job[p].op = "reserve"
                 /\ ~Reserved(n, job[p].call)
                 /\ ~Exhausted(n, q, job[p].phase)
                 /\ used' = [used EXCEPT ![p] = n]
                 /\ opened' = [opened EXCEPT ![p] = {}]
                 /\ pc' = [pc EXCEPT ![p] = "create"]
                 /\ UNCHANGED <<job, reply>>
  /\ UNCHANGED <<disk, history>>

\* Defect: the count is used as the next number.
ClaimLast(p) == used[p]

\* The slot the process claims: call-%06d.json numbered report.Used+1.
Claim(p) == used[p] + 1

\* Defect: the creation is retried without reading the ledger again.
SlotTakenNoRescan(p) ==
  /\ pc[p] = "create"
  /\ Claim(p) \in Slots
  /\ pc' = [pc EXCEPT ![p] = "create"]
  /\ reply' = [reply EXCEPT ![p] = "none"]
  /\ UNCHANGED <<disk, job, opened, used, history>>

SlotTaken(p) ==
  /\ pc[p] = "create"
  /\ Claim(p) \in Slots
  /\ pc' = [pc EXCEPT ![p] = "open"]
  /\ used' = [used EXCEPT ![p] = 0]
  /\ UNCHANGED <<disk, job, opened, reply, history>>

\* Defect: the reservation is returned before its record is written.
SlotCreateUnwritten(p) ==
  /\ pc[p] = "create"
  /\ Claim(p) \notin Slots
  /\ ledger' = [s \in Slots \cup {Claim(p)} |->
                   IF s = Claim(p) THEN Partial ELSE ledger[s]]
  /\ Goto(p, "sync")
  /\ UNCHANGED <<tree, policyFile, history>>

SlotCreate(p) ==
  /\ pc[p] = "create"
  /\ Claim(p) \notin Slots
  /\ ledger' = [s \in Slots \cup {Claim(p)} |->
                   IF s = Claim(p) THEN Partial ELSE ledger[s]]
  /\ Goto(p, "write")
  /\ UNCHANGED <<tree, policyFile, history>>

SlotCreateFails(p) ==
  /\ pc[p] = "create"
  /\ Claim(p) \notin Slots
  /\ Finish(p, "failed")
  /\ UNCHANGED <<disk, history>>

Reservation(p) ==
  [call |-> job[p].call, phase |-> job[p].phase, policy |-> job[p].policy]

SlotWrite(p) ==
  /\ pc[p] = "write"
  /\ ledger' = [ledger EXCEPT ![Claim(p)] = Reservation(p)]
  /\ Goto(p, "sync")
  /\ UNCHANGED <<tree, policyFile, history>>

\* Defect: a failed write removes the file and so refunds the slot.
SlotWriteRemoves(p) ==
  /\ pc[p] = "write"
  /\ ledger' = [s \in Slots \ {Claim(p)} |-> ledger[s]]
  /\ Finish(p, "failed")
  /\ UNCHANGED <<tree, policyFile, history>>

SlotWriteFails(p) ==
  /\ pc[p] = "write"
  /\ Finish(p, "failed")
  /\ UNCHANGED <<disk, history>>

\* The record and its directory are synced: the reservation is returned.
Grant(p) ==
  /\ pc[p] = "sync"
  /\ granted' = granted \cup {Claim(p)}
  /\ launches' = [launches EXCEPT ![job[p].call] = @ + 1]
  /\ Finish(p, "granted")
  /\ UNCHANGED disk

SyncFails(p) ==
  /\ pc[p] = "sync"
  /\ Finish(p, "failed")
  /\ UNCHANGED <<disk, history>>

Crash(p) ==
  /\ pc[p] # "idle"
  /\ Finish(p, "killed")
  /\ UNCHANGED <<disk, history>>

\* What a process does when nothing fails.
Step(p) ==
  \/ Mkdir(p) \/ MkdirCalls(p)
  \/ PinCreate(p) \/ PinExists(p) \/ PinWrite(p) \/ PinRead(p)
  \/ OpenLedger(p) \/ ReadInvalid(p) \/ ReadReport(p)
  \/ SlotTaken(p) \/ SlotCreate(p) \/ SlotWrite(p) \/ Grant(p)

Fault(p) ==
  PinWriteFails(p) \/ SlotCreateFails(p) \/ SlotWriteFails(p) \/ SyncFails(p) \/ Crash(p)

Next == \E p \in Proc : (\E j \in Job : Begin(p, j)) \/ Step(p) \/ Fault(p)

Spec == Init /\ [][Next]_vars

\* A started command runs: nothing blocks it but its own system calls.
FairSpec == Spec /\ \A p \in Proc : WF_vars(Step(p))

-----------------------------------------------------------------------------
\* The variables range over what the code can store in them.
TypeOK ==
  /\ tree \in {"none", "scope", "calls"}
  /\ policyFile \in Policy \cup {NoPolicy, Partial}
  /\ Slots \subseteq Nat \ {0}
  /\ IsFiniteSet(Slots)
  /\ ledger \in [Slots -> Call \cup {Partial}]
  /\ pc \in [Proc -> Steps]
  /\ job \in [Proc -> Job \cup {NoJob}]
  /\ \A p \in Proc : JobFits(job[p], pc[p])
  /\ \A p \in Proc : opened[p] \subseteq Slots
  /\ used \in [Proc -> Nat]
  /\ reply \in [Proc -> Replies]
  /\ granted \subseteq Nat
  /\ launches \in [CallID -> Nat]

-----------------------------------------------------------------------------
\* No call identity is launched twice, whatever the interleaving of concurrent
\* reservations, retries after a kill and lost slots (errScopedDuplicate).
LaunchedAtMostOnce == \A c \in CallID : launches[c] <= 1

\* The grants of all processes together stay within the pinned policy, in total
\* and per phase, although no lock orders the reservations.
GrantsWithinAllowance ==
  granted # {} =>
    /\ policyFile \in Policy
    /\ Cardinality(granted) <= policyFile.max
    /\ \A ph \in DOMAIN policyFile.limits :
         Cardinality({s \in granted : ledger[s].phase = ph}) <= policyFile.limits[ph]

\* Every reservation that was returned is in the ledger, written, under the
\* pinned policy: a process that reads the ledger later cannot miss it.
GrantsRecorded ==
  \A s \in granted : s \in Slots /\ ledger[s] # Partial /\ ledger[s].policy = policyFile

\* The slot numbers have no gap and only the last one can be unwritten: a crash
\* damages at most one record and never the count of the others.
DamageOnlyAtEnd ==
  /\ Slots = 1..Cardinality(Slots)
  /\ \A s \in Slots : ledger[s] = Partial => s = Cardinality(Slots)

\* A record is written once and never removed or changed afterwards, and the
\* same holds of the policy: a spent slot is never refunded.
SpentForever ==
  [][/\ \A s \in Slots : /\ s \in DOMAIN ledger'
                         /\ ledger[s] # Partial => ledger'[s] = ledger[s]
     /\ policyFile \in Policy => policyFile' = policyFile]_vars

\* Every command that is not killed gets an answer: the retry loop of
\* reserveScopedCall (ErrExist -> continue) cannot spin for ever.
EveryCommandAnswered == \A p \in Proc : pc[p] # "idle" ~> pc[p] = "idle"

-----------------------------------------------------------------------------
(***************************************************************************)
(* The inductive invariant behind the properties above, as named parts.    *)
(***************************************************************************)
WrittenSlots == {s \in Slots : ledger[s] # Partial}

RecordsPinned ==
  /\ Slots # {} => policyFile \in Policy
  /\ \A s \in WrittenSlots : ledger[s].policy = policyFile
  /\ \A s, t \in WrittenSlots : ledger[s].call = ledger[t].call => s = t

WithinLimits ==
  policyFile \in Policy =>
    /\ \A s \in Slots : s <= policyFile.max
    /\ \A ph \in DOMAIN policyFile.limits :
         Cardinality({s \in WrittenSlots : ledger[s].phase = ph}) <= policyFile.limits[ph]

\* What a process that passed the scan knows, and still knows when it claims.
Scanned(p) ==
  /\ job[p].op = "reserve"
  /\ job[p].policy = policyFile
  /\ job[p].phase \in DOMAIN policyFile.limits
  /\ 1..used[p] \subseteq WrittenSlots
  /\ ~Reserved(used[p], job[p].call)
  /\ used[p] < policyFile.max
  /\ Cardinality(UsedInPhase(used[p], job[p].phase)) < policyFile.limits[job[p].phase]

ProcessKnowledge ==
  \A p \in Proc :
    /\ pc[p] # "idle" /\ job[p].op = "reserve" => job[p].phase \in DOMAIN job[p].policy.limits
    /\ pc[p] = "pinwrite" => policyFile = Partial
    /\ pc[p] = "read" => policyFile = job[p].policy
    /\ pc[p] = "create" => Scanned(p)
    /\ pc[p] = "write" => /\ Scanned(p)
                          /\ Slots = 1..Claim(p)
                          /\ ledger[Claim(p)] = Partial
    /\ pc[p] = "sync" => /\ Claim(p) \in Slots \ granted
                         /\ ledger[Claim(p)] = Reservation(p)

OneWriter ==
  \A p, r \in Proc :
    p # r => /\ ~(pc[p] = "pinwrite" /\ pc[r] = "pinwrite")
             /\ ~(pc[p] = "write" /\ pc[r] = "write")
             /\ pc[p] = "sync" /\ pc[r] = "sync" => Claim(p) # Claim(r)

LaunchesGranted ==
  /\ granted \subseteq WrittenSlots
  /\ \A c \in CallID : /\ launches[c] <= 1
                       /\ launches[c] = 1 => \E s \in granted : ledger[s].call = c

LedgerInvariant ==
  /\ DamageOnlyAtEnd /\ RecordsPinned /\ WithinLimits
  /\ ProcessKnowledge /\ OneWriter /\ LaunchesGranted

-----------------------------------------------------------------------------
\* A file a process created and can no longer write.
Damaged ==
  \/ \E s \in Slots : /\ ledger[s] = Partial
                      /\ ~\E p \in Proc : pc[p] = "write" /\ Claim(p) = s
  \/ policyFile = Partial /\ ~\E p \in Proc : pc[p] = "pinwrite"

\* Refuted by TLC, in no run: errScopedPolicy, "scoped budget policy changed or
\* ledger is invalid", is answered only to a caller whose policy is not the pinned
\* one or when a dead writer left a damaged file.
InvalidMeansDamage ==
  [][\A p \in Proc :
       pc[p] # "idle" /\ reply[p] # "invalid" /\ reply'[p] = "invalid" =>
         \/ Damaged
         \/ policyFile \in Policy /\ policyFile # job[p].policy]_vars
=============================================================================
