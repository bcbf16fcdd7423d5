------------------------- MODULE ScopedBudgetProofs -------------------------
(***************************************************************************)
(* The safety of the shared call budget for every set of processes, call   *)
(* identities, phases and policies.  LedgerInvariant is inductive: a       *)
(* process that passed the scan still knows what it read when it claims    *)
(* the next slot, because records are written once, the slots have no gap  *)
(* and the exclusive creation succeeds only on the slot after the last.    *)
(***************************************************************************)
EXTENDS ScopedBudgetRefinement, FiniteSetTheorems, TLAPS

LEMMA InitTyped == Init => TypeOK
<1> SUFFICES ASSUME Init PROVE TypeOK  OBVIOUS
<1>1. Slots = {}  BY DEF Init, Slots
<1>2. IsFiniteSet(Slots)  BY <1>1, FS_EmptySet
<1>3. \A p \in Proc : JobFits(job[p], pc[p])
  BY DEF Init, JobFits, ReserveSteps
<1> QED  BY <1>1, <1>2, <1>3 DEF Init, TypeOK, Steps, Replies, Slots

\* The end of a command and a jump keep the local types.
LEMMA FinishTyped ==
  ASSUME TypeOK, NEW p \in Proc, NEW r \in Replies, Finish(p, r)
  PROVE  /\ pc' \in [Proc -> Steps]
         /\ job' \in [Proc -> Job \cup {NoJob}]
         /\ \A q \in Proc : JobFits(job'[q], pc'[q])
         /\ \A q \in Proc : opened'[q] \subseteq Slots
         /\ used' \in [Proc -> Nat]
         /\ reply' \in [Proc -> Replies]
<1>1. \A q \in Proc : pc'[q] # "idle" => q # p /\ job'[q] = job[q] /\ pc'[q] = pc[q]
  BY DEF TypeOK, Finish
<1>3. \A q \in Proc : JobFits(job'[q], pc'[q])
  BY <1>1 DEF TypeOK, JobFits, ReserveSteps
<1>2. \A q \in Proc : opened'[q] \subseteq Slots
  BY DEF TypeOK, Finish
<1> QED  BY <1>2, <1>3 DEF TypeOK, Finish, Steps

LEMMA GotoTyped ==
  ASSUME TypeOK, NEW p \in Proc, NEW s \in Steps, Goto(p, s),
         pc[p] \in ReserveSteps
  PROVE  /\ pc' \in [Proc -> Steps]
         /\ job' \in [Proc -> Job \cup {NoJob}]
         /\ \A q \in Proc : JobFits(job'[q], pc'[q])
         /\ \A q \in Proc : opened'[q] \subseteq Slots
         /\ used' \in [Proc -> Nat]
         /\ reply' \in [Proc -> Replies]
<1>1. \A q \in Proc : JobFits(job'[q], pc'[q])
  BY DEF TypeOK, Goto, JobFits, ReserveSteps
<1> QED
  BY <1>1 DEF TypeOK, Goto

LEMMA BeginTyped ==
  ASSUME TypeOK, NEW p \in Proc, NEW j \in Job, Begin(p, j)
  PROVE  TypeOK'
<1>1. \A q \in Proc : JobFits(job'[q], pc'[q])
  BY DEF TypeOK, Begin, JobFits, Job, ReserveSteps
<1> QED
  BY <1>1 DEF TypeOK, Begin, disk, history, Slots, Steps, ReserveSteps, ScanSteps, Replies

\* A claimed slot keeps the ledger a finite function on positive numbers.
LEMMA ClaimTyped ==
  ASSUME TypeOK, NEW p \in Proc, NEW e \in Call \cup {Partial},
         ledger' = [s \in Slots \cup {Claim(p)} |-> IF s = Claim(p) THEN e ELSE ledger[s]]
  PROVE  /\ Slots' = Slots \cup {Claim(p)}
         /\ Slots' \subseteq Nat \ {0}
         /\ IsFiniteSet(Slots')
         /\ ledger' \in [Slots' -> Call \cup {Partial}]
<1>1. Slots' = Slots \cup {Claim(p)}
  BY DEF Slots
<1>2. Claim(p) \in Nat \ {0}
  BY DEF TypeOK, Claim
<1>3. IsFiniteSet(Slots')
  BY <1>1, FS_AddElement DEF TypeOK
<1> QED
  BY <1>1, <1>2, <1>3 DEF TypeOK

LEMMA StepTyped ==
  ASSUME TypeOK, NEW p \in Proc, Step(p) \/ Fault(p)
  PROVE  TypeOK'
<1> USE DEF disk, history, Slots
<1>1. /\ pc[p] # "idle" => job[p] \in Job
      /\ pc[p] \in ReserveSteps => job[p].op = "reserve"
  BY DEF TypeOK, JobFits
<1>2. CASE Mkdir(p) \/ MkdirCalls(p) \/ PinExists(p) \/ PinCreate(p)
  <2>1. \E s \in Steps : Goto(p, s) /\ pc[p] \in ReserveSteps
    BY <1>2 DEF Mkdir, MkdirCalls, PinExists, PinCreate, Steps, ReserveSteps
  <2>2. /\ tree' \in {"none", "scope", "calls"}
        /\ policyFile' \in Policy \cup {NoPolicy, Partial}
        /\ UNCHANGED <<ledger, granted, launches>>
    BY <1>2 DEF TypeOK, Mkdir, MkdirCalls, PinExists, PinCreate
  <2> QED
    BY <2>1, <2>2, GotoTyped DEF TypeOK
<1>3. CASE PinWrite(p)
  <2>1. Goto(p, "pinread") /\ pc[p] \in ReserveSteps
    BY <1>3 DEF PinWrite, ReserveSteps
  <2>2. policyFile' \in Policy
    BY <1>1, <1>3 DEF PinWrite, Job, ReserveSteps
  <2> QED
    BY <1>3, <2>1, <2>2, GotoTyped DEF TypeOK, PinWrite, Steps, ReserveSteps
<1>4. CASE PinWriteFails(p)
  <2>1. policyFile' \in Policy \cup {Partial}
    BY <1>1, <1>4 DEF PinWriteFails, Job, ReserveSteps
  <2> QED
    BY <1>4, <2>1, FinishTyped DEF TypeOK, PinWriteFails, Replies
<1>5. CASE PinRead(p)
  <2>1. (Goto(p, "open") /\ pc[p] \in ReserveSteps) \/ Finish(p, "invalid")
    BY <1>5 DEF PinRead, ReserveSteps
  <2> QED
    BY <1>5, <2>1, GotoTyped, FinishTyped
    DEF TypeOK, PinRead, Steps, ScanSteps, Replies
<1>6. CASE OpenLedger(p)
  <2>1. CASE Finish(p, "ok") \/ Finish(p, "invalid")
    BY <1>6, <2>1, FinishTyped DEF TypeOK, OpenLedger, Replies
  <2>2. CASE /\ opened' = [opened EXCEPT ![p] = Slots]
             /\ pc' = [pc EXCEPT ![p] = "read"]
             /\ UNCHANGED <<job, used, reply>>
    <3>1. pc[p] = "open"
      BY <1>6 DEF OpenLedger
    <3>2. \A q \in Proc : JobFits(job'[q], pc'[q])
      BY <2>2, <3>1 DEF TypeOK, JobFits, ReserveSteps
    <3> QED
      BY <1>6, <2>2, <3>1, <3>2 DEF TypeOK, OpenLedger, Steps, ScanSteps
  <2> QED
    BY <1>6, <2>1, <2>2 DEF OpenLedger
<1>7. CASE ReadInvalid(p)
  BY <1>7, FinishTyped DEF TypeOK, ReadInvalid, Replies
<1>8. CASE ReadReport(p)
  <2>1. CASE Finish(p, "ok") \/ Finish(p, "duplicate") \/ Finish(p, "exhausted")
    BY <1>8, <2>1, FinishTyped DEF TypeOK, ReadReport, Replies
  <2>2. CASE \E new \in SUBSET (Slots \ opened[p]) :
                LET n == Cardinality(Listed(p, new)) IN
                /\ Listed(p, new) = 1..n
                /\ used' = [used EXCEPT ![p] = n]
                /\ opened' = [opened EXCEPT ![p] = {}]
                /\ pc' = [pc EXCEPT ![p] = "create"]
                /\ UNCHANGED <<job, reply>>
                /\ job[p].op = "reserve"
    <3>1. PICK new \in SUBSET (Slots \ opened[p]) :
                /\ used' = [used EXCEPT ![p] = Cardinality(Listed(p, new))]
                /\ Listed(p, new) = 1..Cardinality(Listed(p, new))
                /\ opened' = [opened EXCEPT ![p] = {}]
                /\ pc' = [pc EXCEPT ![p] = "create"]
                /\ UNCHANGED <<job, reply>>
                /\ job[p].op = "reserve"
      BY <2>2
    <3>2. Cardinality(Listed(p, new)) \in Nat
      BY FS_Subset, FS_CardinalityType DEF TypeOK, Listed
    <3>3. pc[p] = "read"
      BY <1>8 DEF ReadReport
    <3>4. \A q \in Proc : JobFits(job'[q], pc'[q])
      BY <3>1, <3>3 DEF TypeOK, JobFits, ReserveSteps
    <3> QED
      BY <1>8, <3>1, <3>2, <3>4 DEF TypeOK, ReadReport, Steps, ReserveSteps
  <2> QED
    BY <1>8, <2>1, <2>2 DEF ReadReport
<1>9. CASE SlotTaken(p)
  <2>1. \A q \in Proc : JobFits(job'[q], pc'[q])
    BY <1>9 DEF TypeOK, SlotTaken, JobFits, ReserveSteps
  <2> QED
    BY <1>9, <2>1 DEF TypeOK, SlotTaken, Steps, ScanSteps
<1>10. CASE SlotCreate(p)
  <2>1. Goto(p, "write") /\ pc[p] \in ReserveSteps
    BY <1>10 DEF SlotCreate, ReserveSteps
  <2>2. /\ Slots' = Slots \cup {Claim(p)}
        /\ Slots' \subseteq Nat \ {0}
        /\ IsFiniteSet(Slots')
        /\ ledger' \in [Slots' -> Call \cup {Partial}]
    BY <1>10, ClaimTyped DEF SlotCreate
  <2> QED
    BY <1>10, <2>1, <2>2, GotoTyped DEF TypeOK, SlotCreate, Steps, ReserveSteps
<1>11. CASE SlotCreateFails(p) \/ SlotWriteFails(p) \/ SyncFails(p) \/ Crash(p)
  <2>1. /\ Finish(p, "failed") \/ Finish(p, "killed")
        /\ UNCHANGED <<disk, history>>
    BY <1>11 DEF SlotCreateFails, SlotWriteFails, SyncFails, Crash
  <2> QED
    BY <2>1, FinishTyped DEF TypeOK, Replies
<1>12. CASE SlotWrite(p)
  <2>1. Goto(p, "sync") /\ pc[p] \in ReserveSteps
    BY <1>12 DEF SlotWrite, ReserveSteps
  <2>2. Slots' = Slots
    BY <1>12 DEF TypeOK, SlotWrite
  <2>3. Reservation(p) \in Call
    BY <1>1, <2>1 DEF Job, Reservation, Call, ReserveSteps
  <2>4. ledger' \in [Slots' -> Call \cup {Partial}]
    BY <1>12, <2>2, <2>3 DEF TypeOK, SlotWrite
  <2>5. Slots' \subseteq Nat \ {0} /\ IsFiniteSet(Slots')
    BY <2>2 DEF TypeOK
  <2>6. UNCHANGED <<tree, policyFile, granted, launches>>
    BY <1>12 DEF SlotWrite
  <2>7. "sync" \in Steps
    BY DEF Steps, ReserveSteps
  <2>8. /\ pc' \in [Proc -> Steps]
        /\ job' \in [Proc -> Job \cup {NoJob}]
        /\ \A q \in Proc : JobFits(job'[q], pc'[q])
        /\ \A q \in Proc : opened'[q] \subseteq Slots
        /\ used' \in [Proc -> Nat]
        /\ reply' \in [Proc -> Replies]
    BY ONLY TypeOK, <2>1, <2>7, p \in Proc, GotoTyped
  <2> QED
    BY <2>2, <2>4, <2>5, <2>6, <2>8 DEF TypeOK
<1>13. CASE Grant(p)
  <2>1. Claim(p) \in Nat
    BY DEF TypeOK, Claim
  <2>2. launches' \in [CallID -> Nat]
    <3>1. job[p].call \in CallID
      BY <1>1, <1>13 DEF Grant, Job, ReserveSteps
    <3> QED
      BY <1>13, <3>1 DEF TypeOK, Grant
  <2> QED
    BY <1>13, <2>1, <2>2, FinishTyped DEF TypeOK, Grant, Replies
<1> QED
  BY <1>2, <1>3, <1>4, <1>5, <1>6, <1>7, <1>8, <1>9, <1>10, <1>11, <1>12, <1>13
  DEF Step, Fault

\* The state stays within its types (process locals, ledger and history).
THEOREM TypeCorrect == Spec => []TypeOK
<1>1. TypeOK /\ [Next]_vars => TypeOK'
  <2> SUFFICES ASSUME TypeOK, [Next]_vars PROVE TypeOK'
    OBVIOUS
  <2>1. CASE UNCHANGED vars
    BY <2>1 DEF TypeOK, vars, Slots
  <2>2. CASE Next
    BY <2>2, BeginTyped, StepTyped DEF Next
  <2> QED
    BY <2>1, <2>2
<1> QED
  BY <1>1, InitTyped, PTL DEF Spec
-----------------------------------------------------------------------------
LEMMA InitLedger == Init => LedgerInvariant
<1> SUFFICES ASSUME Init PROVE LedgerInvariant  OBVIOUS
<1>1. Slots = {} /\ WrittenSlots = {} /\ Cardinality(Slots) = 0
  BY FS_EmptySet DEF Init, Slots, WrittenSlots
<1>2. DamageOnlyAtEnd
  BY <1>1 DEF DamageOnlyAtEnd
<1>3. RecordsPinned /\ WithinLimits
  BY <1>1, SentinelAssumption DEF Init, RecordsPinned, WithinLimits
<1>4. ProcessKnowledge /\ OneWriter
  BY DEF Init, ProcessKnowledge, OneWriter
<1>5. LaunchesGranted
  BY <1>1 DEF Init, LaunchesGranted
<1> QED
  BY <1>2, <1>3, <1>4, <1>5 DEF LedgerInvariant

\* The last slot is the only one that may be unwritten.
LEMMA SlotFacts ==
  ASSUME TypeOK, DamageOnlyAtEnd
  PROVE  /\ Cardinality(Slots) \in Nat
         /\ Slots = 1..Cardinality(Slots)
         /\ WrittenSlots \subseteq Slots
         /\ \A s \in Slots \ WrittenSlots : s = Cardinality(Slots)
         /\ \A s \in WrittenSlots : ledger[s] \in Call
BY FS_CardinalityType DEF TypeOK, DamageOnlyAtEnd, WrittenSlots, Slots

\* What a process learned from the scan stays true while written records stay.
LEMMA ScannedStable ==
  ASSUME TypeOK, NEW p \in Proc, Scanned(p),
         \A s \in WrittenSlots : s \in WrittenSlots' /\ ledger'[s] = ledger[s],
         policyFile' = policyFile, job'[p] = job[p], used'[p] = used[p]
  PROVE  Scanned(p)'
<1>1. 1..used[p] \subseteq WrittenSlots'
  BY DEF Scanned
<1>2. \A s \in 1..used[p] : ledger'[s] = ledger[s]
  BY DEF Scanned
<1>3. UsedInPhase(used[p], job[p].phase)' = UsedInPhase(used[p], job[p].phase)
  BY <1>2 DEF UsedInPhase
<1>4. ~Reserved(used[p], job[p].call)'
  BY <1>2 DEF Scanned, Reserved
<1> QED
  BY <1>1, <1>3, <1>4 DEF Scanned

\* A step that only changes the memory of p, and does not take p to a point
\* where it owns a file, keeps the invariant if p knows what it should.
LEMMA PrivateStep ==
  ASSUME TypeOK, LedgerInvariant, NEW p \in Proc,
         UNCHANGED <<policyFile, ledger, granted, launches>>,
         \A q \in Proc \ {p} :
           pc'[q] = pc[q] /\ job'[q] = job[q] /\ used'[q] = used[q],
         pc'[p] \notin {"pinwrite", "write", "sync"},
         pc'[p] = "read" => policyFile = job'[p].policy,
         pc'[p] = "create" => Scanned(p)',
         pc'[p] # "idle" /\ job'[p].op = "reserve" =>
           job'[p].phase \in DOMAIN job'[p].policy.limits
  PROVE  LedgerInvariant'
<1>1. Slots' = Slots /\ WrittenSlots' = WrittenSlots
  BY DEF Slots, WrittenSlots
<1>2. DamageOnlyAtEnd'
  BY <1>1 DEF LedgerInvariant, DamageOnlyAtEnd
<1>3. RecordsPinned' /\ WithinLimits' /\ LaunchesGranted'
  BY <1>1 DEF LedgerInvariant, RecordsPinned, WithinLimits, LaunchesGranted
<1>4. OneWriter'
  BY DEF LedgerInvariant, OneWriter, Claim
<1>5. ProcessKnowledge'
  <2>1. \A q \in Proc \ {p} : Scanned(q) => Scanned(q)'
    BY <1>1, ScannedStable
  <2> QED
    BY <1>1, <2>1 DEF LedgerInvariant, ProcessKnowledge, Claim, Reservation
<1> QED
  BY <1>2, <1>3, <1>4, <1>5 DEF LedgerInvariant

LEMMA FinishKeepsLedger ==
  ASSUME TypeOK, LedgerInvariant, NEW p \in Proc, NEW r \in Replies, Finish(p, r),
         UNCHANGED <<policyFile, ledger, granted, launches>>
  PROVE  LedgerInvariant'
<1>1. pc'[p] = "idle"
  BY DEF TypeOK, Finish
<1>2. \A q \in Proc \ {p} :
        pc'[q] = pc[q] /\ job'[q] = job[q] /\ used'[q] = used[q]
  BY DEF TypeOK, Finish
<1> QED
  BY <1>1, <1>2, PrivateStep

\* Steps of p before it owns a file.
LEMMA GotoKeepsLedger ==
  ASSUME TypeOK, LedgerInvariant, NEW p \in Proc, NEW s \in Steps, Goto(p, s),
         pc[p] # "idle", s \notin {"pinwrite", "write", "sync", "read", "create"},
         UNCHANGED <<policyFile, ledger, granted, launches>>
  PROVE  LedgerInvariant'
<1>1. /\ pc'[p] = s
      /\ \A q \in Proc \ {p} :
           pc'[q] = pc[q] /\ job'[q] = job[q] /\ used'[q] = used[q]
  BY DEF TypeOK, Goto
<1>2. job'[p].op = "reserve" => job'[p].phase \in DOMAIN job'[p].policy.limits
  BY DEF LedgerInvariant, ProcessKnowledge, Goto
<1> QED
  BY <1>1, <1>2, PrivateStep

LEMMA BeginKeepsLedger ==
  ASSUME TypeOK, LedgerInvariant, NEW p \in Proc, NEW j \in Job, Begin(p, j)
  PROVE  LedgerInvariant'
<1>1. /\ pc'[p] \in {"mkdir", "open"}
      /\ job'[p] = j
      /\ \A q \in Proc \ {p} :
           pc'[q] = pc[q] /\ job'[q] = job[q] /\ used'[q] = used[q]
  BY DEF TypeOK, Begin
<1>2. /\ j.op = "reserve" => j.phase \in DOMAIN j.policy.limits
      /\ UNCHANGED <<policyFile, ledger, granted, launches>>
  BY DEF Begin, disk, history
<1> QED
  BY <1>1, <1>2, PrivateStep

\* The scan: what a successful one leaves in memory is Scanned.
LEMMA ReadKeepsLedger ==
  ASSUME TypeOK, LedgerInvariant, NEW p \in Proc, ReadReport(p)
  PROVE  LedgerInvariant'
<1>1. UNCHANGED <<policyFile, ledger, granted, launches>>
  BY DEF ReadReport, disk, history
<1>2. CASE \E r \in Replies : Finish(p, r)
  BY <1>1, <1>2, FinishKeepsLedger
<1>3. CASE \E new \in SUBSET (Slots \ opened[p]) :
              LET n == Cardinality(Listed(p, new))
                  q == job[p].policy
              IN  /\ Listed(p, new) = 1..n
                  /\ LedgerValid(n, q)
                  /\ job[p].op = "reserve"
                  /\ ~Reserved(n, job[p].call)
                  /\ ~Exhausted(n, q, job[p].phase)
                  /\ used' = [used EXCEPT ![p] = n]
                  /\ pc' = [pc EXCEPT ![p] = "create"]
                  /\ UNCHANGED job
  <2> DEFINE q == job[p].policy
             ph == job[p].phase
  <2>1. PICK new \in SUBSET (Slots \ opened[p]) :
              LET n == Cardinality(Listed(p, new))
              IN  /\ Listed(p, new) = 1..n
                  /\ LedgerValid(n, q)
                  /\ job[p].op = "reserve"
                  /\ ~Reserved(n, job[p].call)
                  /\ ~Exhausted(n, q, ph)
                  /\ used' = [used EXCEPT ![p] = n]
                  /\ pc' = [pc EXCEPT ![p] = "create"]
                  /\ UNCHANGED job
    BY <1>3
  <2> DEFINE n == Cardinality(Listed(p, new))
  <2>2. Listed(p, new) \subseteq Slots /\ n \in Nat
    BY FS_Subset, FS_CardinalityType DEF TypeOK, Listed
  <2>3. pc[p] = "read" /\ policyFile = q /\ q \in Policy /\ ph \in DOMAIN q.limits
    <3>1. pc[p] = "read"
      BY DEF ReadReport
    <3> QED
      BY <2>1, <3>1 DEF LedgerInvariant, ProcessKnowledge, TypeOK, JobFits, Job
  <2>4. UsedInPhase(n, ph) \subseteq 1..n /\ IsFiniteSet(1..n)
    BY <2>2, FS_Interval DEF UsedInPhase
  <2>5. Cardinality(UsedInPhase(n, ph)) \in Nat
    BY <2>4, FS_Subset, FS_CardinalityType
  <2>6. q.limits[ph] \in Nat /\ q.max \in Nat
    BY <2>3, PolicyAssumption
  <2>7. n < q.max /\ Cardinality(UsedInPhase(n, ph)) < q.limits[ph]
    <3>1. n <= q.max /\ Cardinality(UsedInPhase(n, ph)) <= q.limits[ph]
      BY <2>1, <2>3 DEF LedgerValid
    <3>2. n # q.max /\ Cardinality(UsedInPhase(n, ph)) # q.limits[ph]
      BY <2>1 DEF Exhausted
    <3> QED
      BY <2>2, <2>5, <2>6, <3>1, <3>2
  <2>8. 1..n \subseteq WrittenSlots
    BY <2>1, <2>2 DEF LedgerValid, Written, WrittenSlots
  <2>9. /\ pc'[p] = "create" /\ used'[p] = n /\ job'[p] = job[p]
        /\ \A r \in Proc \ {p} :
             pc'[r] = pc[r] /\ job'[r] = job[r] /\ used'[r] = used[r]
    BY <2>1 DEF TypeOK
  <2>10. /\ {s \in 1..used'[p] : ledger'[s].phase = job'[p].phase} = UsedInPhase(n, ph)
         /\ WrittenSlots' = WrittenSlots
    BY <1>1, <2>9 DEF UsedInPhase, WrittenSlots, Slots
  <2>11. Scanned(p)'
    BY <1>1, <2>1, <2>3, <2>7, <2>8, <2>9, <2>10 DEF Scanned, UsedInPhase, Reserved
  <2>12. job'[p].phase \in DOMAIN job'[p].policy.limits
    BY <2>3, <2>9
  <2> QED
    BY <1>1, <2>9, <2>11, <2>12, PrivateStep
<1> QED
  BY <1>2, <1>3 DEF ReadReport, Replies

\* While there is no pinned policy nothing is claimed and nobody is past the scan.
LEMMA Unpinned ==
  ASSUME TypeOK, LedgerInvariant, policyFile \notin Policy
  PROVE  /\ Slots = {}
         /\ \A p \in Proc : pc[p] \notin {"read", "create", "write", "sync"}
<1>1. Slots = {}
  BY DEF LedgerInvariant, RecordsPinned
<1>2. \A p \in Proc : pc[p] # "idle" => job[p].policy \in Policy
  BY DEF TypeOK, JobFits, Job
<1>3. \A p \in Proc : pc[p] \notin {"read", "create", "write"}
  BY <1>2 DEF LedgerInvariant, ProcessKnowledge, Scanned
<1>4. \A p \in Proc : pc[p] # "sync"
  BY <1>1 DEF LedgerInvariant, ProcessKnowledge
<1> QED
  BY <1>1, <1>3, <1>4

\* Creating or writing policy.json: only its one creator can write it.
LEMMA PinKeepsLedger ==
  ASSUME TypeOK, LedgerInvariant, NEW p \in Proc,
         PinCreate(p) \/ PinWrite(p) \/ PinWriteFails(p)
  PROVE  LedgerInvariant'
<1>1. policyFile \notin Policy
  BY SentinelAssumption DEF LedgerInvariant, ProcessKnowledge, PinCreate, PinWrite, PinWriteFails
<1>2. /\ Slots = {}
      /\ \A q \in Proc : pc[q] \notin {"read", "create", "write", "sync"}
  BY <1>1, Unpinned
<1>3. UNCHANGED <<ledger, granted, launches>>
  BY DEF PinCreate, PinWrite, PinWriteFails, history
<1>4. /\ pc'[p] \in {"pinwrite", "pinread", "idle"}
      /\ \A q \in Proc \ {p} : pc'[q] = pc[q] /\ job'[q] = job[q]
      /\ pc'[p] # "idle" => job'[p] = job[p]
  BY DEF TypeOK, PinCreate, PinWrite, PinWriteFails, Goto, Finish
<1>5. /\ pc'[p] = "pinwrite" => policyFile = NoPolicy /\ policyFile' = Partial
      /\ pc'[p] # "pinwrite" => pc[p] = "pinwrite"
      /\ pc[p] # "idle"
  BY DEF TypeOK, PinCreate, PinWrite, PinWriteFails, Goto, Finish
<1>6. \A q \in Proc \ {p} : pc'[q] # "pinwrite"
  BY <1>4, <1>5, SentinelAssumption DEF LedgerInvariant, ProcessKnowledge, OneWriter
<1>7. Slots' = {} /\ WrittenSlots' = {} /\ WrittenSlots = {} /\ Cardinality({}) = 0
  BY <1>2, <1>3, FS_EmptySet DEF Slots, WrittenSlots
<1>8. DamageOnlyAtEnd' /\ RecordsPinned' /\ LaunchesGranted'
  BY <1>3, <1>7
  DEF LedgerInvariant, DamageOnlyAtEnd, RecordsPinned, LaunchesGranted
<1>9. WithinLimits'
  <2>1. ASSUME policyFile' \in Policy, NEW ph \in DOMAIN policyFile'.limits
        PROVE  Cardinality({s \in {} : ledger'[s].phase = ph}) <= policyFile'.limits[ph]
    <3>1. {s \in {} : ledger'[s].phase = ph} = {}
      OBVIOUS
    <3>2. policyFile'.limits[ph] \in Nat
      BY <2>1, PolicyAssumption
    <3> QED
      BY <1>7, <3>1, <3>2
  <2> QED
    BY <1>7, <2>1 DEF WithinLimits
<1>10. OneWriter'
  BY <1>2, <1>4, <1>6 DEF OneWriter
<1>11. ProcessKnowledge'
  <2> SUFFICES ASSUME NEW q \in Proc
               PROVE  /\ pc'[q] = "pinwrite" => policyFile' = Partial
                      /\ pc'[q] # "idle" /\ job'[q].op = "reserve" =>
                           job'[q].phase \in DOMAIN job'[q].policy.limits
                      /\ pc'[q] \notin {"read", "create", "write", "sync"}
    BY DEF ProcessKnowledge
  <2> QED
    BY <1>2, <1>4, <1>5, <1>6 DEF LedgerInvariant, ProcessKnowledge
<1> QED
  BY <1>8, <1>9, <1>10, <1>11 DEF LedgerInvariant

\* Claiming a slot: exclusive creation succeeds only on the slot after the last.
LEMMA CreateKeepsLedger ==
  ASSUME TypeOK, LedgerInvariant, NEW p \in Proc, SlotCreate(p)
  PROVE  LedgerInvariant'
<1> DEFINE n == Cardinality(Slots)
<1>1. /\ n \in Nat /\ Slots = 1..n /\ WrittenSlots \subseteq Slots
      /\ \A s \in WrittenSlots : ledger[s] \in Call
  BY SlotFacts DEF LedgerInvariant
<1>2. Scanned(p) /\ used[p] \in Nat /\ Claim(p) \notin Slots
  BY DEF LedgerInvariant, ProcessKnowledge, SlotCreate, TypeOK
<1>3. used[p] = n /\ Claim(p) = n + 1 /\ WrittenSlots = 1..n
  <2>1. 1..used[p] \subseteq 1..n
    BY <1>1, <1>2 DEF Scanned
  <2>2. used[p] <= n
    BY <1>1, <1>2, <2>1
  <2>3. used[p] >= n
    BY <1>1, <1>2 DEF Claim
  <2>4. used[p] = n
    BY <1>1, <1>2, <2>2, <2>3
  <2> QED
    BY <1>1, <1>2, <2>4 DEF Scanned, Claim
<1>4. /\ Slots' = 1..(n + 1)
      /\ ledger'[n + 1] = Partial
      /\ \A s \in 1..n : ledger'[s] = ledger[s]
  BY <1>1, <1>3 DEF SlotCreate, Slots
<1>5. WrittenSlots' = WrittenSlots
  BY <1>1, <1>3, <1>4 DEF WrittenSlots
<1>6. UNCHANGED <<policyFile, granted, launches>>
  BY DEF SlotCreate, history
<1>7. /\ pc' = [pc EXCEPT ![p] = "write"] /\ UNCHANGED <<job, used>>
      /\ pc[p] = "create"
  BY DEF SlotCreate, Goto
<1>8. policyFile \in Policy
  <2>1. job[p].policy \in Policy
    BY <1>7 DEF TypeOK, JobFits, Job
  <2> QED
    BY <1>2, <2>1 DEF Scanned
<1>9. DamageOnlyAtEnd'
  <2>1. Cardinality(Slots') = n + 1
    BY <1>1, <1>4, FS_Interval
  <2> QED
    BY <1>1, <1>3, <1>4, <1>5, <2>1 DEF DamageOnlyAtEnd, WrittenSlots
<1>10. RecordsPinned'
  BY <1>1, <1>3, <1>4, <1>5, <1>6, <1>8 DEF LedgerInvariant, RecordsPinned
<1>11. WithinLimits'
  <2>1. \A s \in Slots' : s <= policyFile.max
    BY <1>1, <1>2, <1>3, <1>4, <1>8, PolicyAssumption DEF Scanned
  <2>2. \A ph : {s \in WrittenSlots' : ledger'[s].phase = ph}
                = {s \in WrittenSlots : ledger[s].phase = ph}
    BY <1>3, <1>4, <1>5
  <2> QED
    BY <1>6, <1>8, <2>1, <2>2 DEF LedgerInvariant, WithinLimits
<1>12. \A q \in Proc \ {p} : pc[q] # "write"
  <2> SUFFICES ASSUME NEW q \in Proc, pc[q] = "write" PROVE FALSE
    OBVIOUS
  <2>1. Slots = 1..Claim(q) /\ ledger[Claim(q)] = Partial /\ Claim(q) \in Nat \ {0}
    BY DEF LedgerInvariant, ProcessKnowledge, TypeOK, Claim
  <2> QED
    BY <1>1, <1>3, <2>1 DEF WrittenSlots
<1>13. \A q \in Proc : Scanned(q) => Scanned(q)'
  <2>1. \A s \in WrittenSlots : s \in WrittenSlots' /\ ledger'[s] = ledger[s]
    BY <1>3, <1>4, <1>5
  <2> QED
    BY <1>6, <1>7, <2>1, ScannedStable
<1>14. OneWriter'
  BY <1>7, <1>12 DEF LedgerInvariant, OneWriter, TypeOK, Claim
<1>15. ProcessKnowledge'
  <2>1. Claim(p)' = n + 1
    BY <1>3, <1>7 DEF Claim
  <2>2. \A q \in Proc : pc[q] = "sync" =>
          Claim(q)' \in Slots' \ granted' /\ ledger'[Claim(q)'] = Reservation(q)'
    BY <1>1, <1>4, <1>6, <1>7
    DEF LedgerInvariant, ProcessKnowledge, Claim, Reservation
  <2> QED
    BY <1>2, <1>4, <1>6, <1>7, <1>12, <1>13, <2>1, <2>2
    DEF LedgerInvariant, ProcessKnowledge, TypeOK
<1>16. LaunchesGranted'
  BY <1>3, <1>4, <1>5, <1>6 DEF LedgerInvariant, LaunchesGranted
<1> QED
  BY <1>9, <1>10, <1>11, <1>14, <1>15, <1>16 DEF LedgerInvariant

\* A process that writes its record is alone behind n written ones.
LEMMA WriteFacts ==
  ASSUME TypeOK, LedgerInvariant, NEW p \in Proc, SlotWrite(p)
  PROVE  LET n == used[p]
             e == Reservation(p)
         IN  /\ n \in Nat /\ Claim(p) = n + 1 /\ pc[p] = "write"
             /\ Scanned(p) /\ Slots = 1..(n + 1) /\ ledger[n + 1] = Partial
             /\ WrittenSlots = 1..n
             /\ \A s \in 1..n : ledger[s] \in Call
             /\ e \in Call /\ e # Partial
             /\ e.call = job[p].call /\ e.phase = job[p].phase /\ e.policy = policyFile
             /\ Slots' = Slots
             /\ ledger'[n + 1] = e
             /\ \A s \in 1..n : ledger'[s] = ledger[s]
             /\ WrittenSlots' = 1..(n + 1)
<1> DEFINE n == used[p]
           e == Reservation(p)
<1>1. /\ n \in Nat /\ Claim(p) = n + 1 /\ pc[p] = "write"
      /\ Scanned(p) /\ Slots = 1..(n + 1) /\ ledger[n + 1] = Partial
  BY DEF LedgerInvariant, ProcessKnowledge, SlotWrite, TypeOK, Claim
<1>2. /\ WrittenSlots = 1..n
      /\ \A s \in 1..n : ledger[s] \in Call
  <2>1. WrittenSlots = 1..n
    BY <1>1 DEF Scanned, WrittenSlots
  <2> QED
    BY <2>1, SlotFacts DEF LedgerInvariant
<1>3. /\ e \in Call /\ e # Partial
      /\ e.call = job[p].call /\ e.phase = job[p].phase /\ e.policy = policyFile
  <2>1. job[p] \in Job /\ job[p].op = "reserve"
    BY <1>1 DEF TypeOK, JobFits, ReserveSteps
  <2>2. e \in Call
    BY <2>1 DEF Job, Call, Reservation
  <2> QED
    BY <1>1, <2>2, SentinelAssumption DEF Reservation, Scanned
<1>4. /\ Slots' = Slots
      /\ ledger'[n + 1] = e
      /\ \A s \in 1..n : ledger'[s] = ledger[s]
  BY <1>1 DEF SlotWrite, Slots, TypeOK
<1>5. WrittenSlots' = 1..(n + 1)
  BY <1>1, <1>2, <1>3, <1>4 DEF WrittenSlots
<1> QED
  BY <1>1, <1>2, <1>3, <1>4, <1>5

\* Writing the claimed record spends one call of its phase.
LEMMA WriteKeepsLedger ==
  ASSUME TypeOK, LedgerInvariant, NEW p \in Proc, SlotWrite(p)
  PROVE  LedgerInvariant'
<1> DEFINE n == used[p]
           e == Reservation(p)
<1>1. /\ n \in Nat /\ Claim(p) = n + 1 /\ pc[p] = "write"
      /\ Scanned(p) /\ Slots = 1..(n + 1) /\ ledger[n + 1] = Partial
  BY WriteFacts
<1>2. /\ WrittenSlots = 1..n
      /\ \A s \in 1..n : ledger[s] \in Call
  BY WriteFacts
<1>3. /\ e \in Call /\ e # Partial
      /\ e.call = job[p].call /\ e.phase = job[p].phase /\ e.policy = policyFile
  BY WriteFacts
<1>4. /\ Slots' = Slots
      /\ ledger'[n + 1] = e
      /\ \A s \in 1..n : ledger'[s] = ledger[s]
  BY WriteFacts
<1>5. WrittenSlots' = 1..(n + 1)
  BY WriteFacts
<1>6. UNCHANGED <<policyFile, granted, launches>>
  BY DEF SlotWrite, history
<1>7. pc' = [pc EXCEPT ![p] = "sync"] /\ UNCHANGED <<job, used>>
  BY DEF SlotWrite, Goto
<1>8. policyFile \in Policy
  BY <1>3 DEF Call
<1>9. DamageOnlyAtEnd'
  BY <1>1, <1>4, <1>5 DEF LedgerInvariant, DamageOnlyAtEnd, WrittenSlots
<1>10. RecordsPinned'
  <2>1. \A s \in 1..n : ledger[s].policy = policyFile /\ ledger[s].call # e.call
    BY <1>1, <1>2, <1>3 DEF LedgerInvariant, RecordsPinned, Scanned, Reserved
  <2>2. \A s, t \in 1..n : ledger[s].call = ledger[t].call => s = t
    BY <1>2 DEF LedgerInvariant, RecordsPinned
  <2>3. \A s \in 1..(n + 1) : s \in 1..n \/ s = n + 1
    BY <1>1
  <2> QED
    BY <1>3, <1>4, <1>5, <1>6, <1>8, <2>1, <2>2, <2>3 DEF RecordsPinned
<1>11. WithinLimits'
  <2>1. \A s \in Slots' : s <= policyFile.max
    BY <1>4, <1>8 DEF LedgerInvariant, WithinLimits
  <2>2. ASSUME NEW ph \in DOMAIN policyFile.limits
        PROVE  Cardinality({s \in WrittenSlots' : ledger'[s].phase = ph})
                 <= policyFile.limits[ph]
    <3> DEFINE InPhase == {s \in WrittenSlots' : ledger'[s].phase = ph}
    <3>0. \A s : s \in InPhase <=> \/ s \in 1..n /\ ledger[s].phase = ph
                                   \/ s = n + 1 /\ e.phase = ph
      BY <1>1, <1>4, <1>5
    <3>1. ASSUME ph = e.phase PROVE Cardinality(InPhase) <= policyFile.limits[ph]
      <4>1. InPhase = UsedInPhase(n, ph) \cup {n + 1}
        <5>1. \A s : s \in InPhase <=> s \in UsedInPhase(n, ph) \cup {n + 1}
          BY <3>0, <3>1 DEF UsedInPhase
        <5> HIDE DEF InPhase
        <5> QED
          BY <5>1
      <4>2. IsFiniteSet(UsedInPhase(n, ph)) /\ n + 1 \notin UsedInPhase(n, ph)
        <5>1. UsedInPhase(n, ph) \subseteq 1..n
          BY DEF UsedInPhase
        <5>2. n \in Nat
          BY <1>1
        <5>3. IsFiniteSet(1..n)
          BY <5>2, FS_Interval
        <5>4. n + 1 \notin 1..n
          BY <5>2
        <5> QED
          BY <5>1, <5>3, <5>4, FS_Subset
      <4>3. Cardinality(UsedInPhase(n, ph)) \in Nat
        BY <4>2, FS_CardinalityType
      <4>4. Cardinality(UsedInPhase(n, ph) \cup {n + 1}) = Cardinality(UsedInPhase(n, ph)) + 1
        BY <4>2, FS_AddElement
      <4>5. Cardinality(UsedInPhase(n, ph)) < policyFile.limits[ph]
        BY <1>1, <1>3, <3>1 DEF Scanned
      <4>6. policyFile.limits[ph] \in Nat
        BY <1>8, PolicyAssumption
      <4>7. Cardinality(InPhase) = Cardinality(UsedInPhase(n, ph)) + 1
        BY <4>1, <4>4
      <4> HIDE DEF InPhase
      <4> QED
        BY <4>3, <4>5, <4>6, <4>7
    <3>2. ASSUME ph # e.phase PROVE Cardinality(InPhase) <= policyFile.limits[ph]
      <4>1. InPhase = {s \in WrittenSlots : ledger[s].phase = ph}
        <5>1. \A s : s \in InPhase <=> s \in {t \in WrittenSlots : ledger[t].phase = ph}
          BY <1>2, <3>0, <3>2
        <5> HIDE DEF InPhase
        <5> QED
          BY <5>1
      <4> QED
        BY <1>8, <4>1 DEF LedgerInvariant, WithinLimits
    <3> HIDE DEF InPhase
    <3>3. Cardinality(InPhase) <= policyFile.limits[ph]
      BY <3>1, <3>2
    <3> QED
      BY <3>3 DEF InPhase
  <2> QED
    BY <1>6, <2>1, <2>2 DEF WithinLimits
<1>12. \A q \in Proc : Scanned(q) => Scanned(q)'
  <2>1. \A s \in WrittenSlots : s \in WrittenSlots' /\ ledger'[s] = ledger[s]
    BY <1>1, <1>2, <1>4, <1>5
  <2> QED
    BY <1>6, <1>7, <2>1, ScannedStable
<1>13. \A q \in Proc \ {p} : pc[q] # "write"
  BY <1>1 DEF LedgerInvariant, OneWriter
<1>14. \A q \in Proc \ {p} : pc[q] = "sync" =>
         /\ Claim(q) # Claim(p)
         /\ Claim(q)' \in Slots' \ granted'
         /\ ledger'[Claim(q)'] = Reservation(q)'
  <2> SUFFICES ASSUME NEW q \in Proc \ {p}, pc[q] = "sync"
               PROVE  /\ Claim(q) # Claim(p)
                      /\ Claim(q)' \in Slots' \ granted'
                      /\ ledger'[Claim(q)'] = Reservation(q)'
    OBVIOUS
  <2>1. Claim(q) \in Slots \ granted /\ ledger[Claim(q)] = Reservation(q)
    BY DEF LedgerInvariant, ProcessKnowledge
  <2>2. job[q] \in Job /\ job[q].op = "reserve"
    BY DEF TypeOK, JobFits, ReserveSteps
  <2>3. Reservation(q) # Partial
    BY <2>2, SentinelAssumption DEF Job, Call, Reservation
  <2>4. Claim(q) # n + 1
    BY <1>1, <2>1, <2>3
  <2> QED
    BY <1>1, <1>4, <1>6, <1>7, <2>1, <2>4 DEF Claim, Reservation
<1>15. OneWriter'
  BY <1>7, <1>13, <1>14 DEF LedgerInvariant, OneWriter, TypeOK, Claim
<1>16. ProcessKnowledge'
  <2>1. /\ Claim(p)' \in Slots' \ granted'
        /\ ledger'[Claim(p)'] = Reservation(p)'
    <3>1. Claim(p)' = n + 1 /\ Reservation(p)' = e
      BY <1>1, <1>7 DEF Claim, Reservation
    <3>2. n + 1 \notin granted
      BY <1>1, <1>2 DEF LedgerInvariant, LaunchesGranted
    <3> QED
      BY <1>1, <1>4, <1>6, <3>1, <3>2
  <2> QED
    BY <1>1, <1>6, <1>7, <1>12, <1>13, <1>14, <2>1
    DEF LedgerInvariant, ProcessKnowledge, TypeOK
<1>17. LaunchesGranted'
  BY <1>1, <1>2, <1>4, <1>5, <1>6 DEF LedgerInvariant, LaunchesGranted
<1> QED
  BY <1>9, <1>10, <1>11, <1>15, <1>16, <1>17 DEF LedgerInvariant

\* The record of a reservation that is returned is there, and its call was never
\* launched before.
LEMMA GrantFacts ==
  ASSUME TypeOK, LedgerInvariant, NEW p \in Proc, Grant(p)
  PROVE  LET c == job[p].call
         IN  /\ pc[p] = "sync"
             /\ Claim(p) \in Slots \ granted /\ ledger[Claim(p)] = Reservation(p)
             /\ job[p] \in Job /\ job[p].op = "reserve"
             /\ c \in CallID /\ ledger[Claim(p)].call = c
             /\ Claim(p) \in WrittenSlots
             /\ launches[c] = 0
<1> DEFINE c == job[p].call
<1>1. /\ pc[p] = "sync"
      /\ Claim(p) \in Slots \ granted /\ ledger[Claim(p)] = Reservation(p)
      /\ job[p] \in Job /\ job[p].op = "reserve"
  BY DEF LedgerInvariant, ProcessKnowledge, Grant, TypeOK, JobFits, ReserveSteps
<1>2. /\ c \in CallID /\ ledger[Claim(p)].call = c
      /\ Claim(p) \in WrittenSlots
  BY <1>1, SentinelAssumption DEF Job, Call, Reservation, WrittenSlots
<1>3. launches[c] = 0
  <2>1. launches[c] # 1
    <3> SUFFICES ASSUME launches[c] = 1 PROVE FALSE
      OBVIOUS
    <3>1. PICK s \in granted : ledger[s].call = c
      BY <1>2 DEF LedgerInvariant, LaunchesGranted
    <3>2. s = Claim(p)
      BY <1>2, <3>1 DEF LedgerInvariant, LaunchesGranted, RecordsPinned
    <3> QED
      BY <1>1, <3>2
  <2> QED
    BY <1>2, <2>1 DEF LedgerInvariant, LaunchesGranted, TypeOK
<1> QED
  BY <1>1, <1>2, <1>3

\* Returning a reservation launches its call.
LEMMA GrantKeepsLedger ==
  ASSUME TypeOK, LedgerInvariant, NEW p \in Proc, Grant(p)
  PROVE  LedgerInvariant'
<1> DEFINE c == job[p].call
<1>1. /\ pc[p] = "sync"
      /\ Claim(p) \in Slots \ granted /\ ledger[Claim(p)] = Reservation(p)
      /\ job[p] \in Job /\ job[p].op = "reserve"
  BY GrantFacts
<1>2. /\ c \in CallID /\ ledger[Claim(p)].call = c
      /\ Claim(p) \in WrittenSlots
  BY GrantFacts
<1>3. /\ UNCHANGED <<policyFile, ledger>>
      /\ Slots' = Slots /\ WrittenSlots' = WrittenSlots
      /\ granted' = granted \cup {Claim(p)}
      /\ launches' = [launches EXCEPT ![c] = @ + 1]
  BY DEF Grant, disk, Slots, WrittenSlots
<1>4. /\ pc'[p] = "idle"
      /\ \A q \in Proc \ {p} :
           pc'[q] = pc[q] /\ job'[q] = job[q] /\ used'[q] = used[q]
  BY DEF Grant, Finish, TypeOK
<1>5. launches[c] = 0
  BY GrantFacts
<1>6. LaunchesGranted'
  <2>1. launches'[c] = 1 /\ \A d \in CallID \ {c} : launches'[d] = launches[d]
    BY <1>2, <1>3, <1>5 DEF TypeOK
  <2>2. granted' \subseteq WrittenSlots'
    BY <1>2, <1>3 DEF LedgerInvariant, LaunchesGranted
  <2> QED
    BY <1>2, <1>3, <2>1, <2>2 DEF LedgerInvariant, LaunchesGranted
<1>7. DamageOnlyAtEnd' /\ RecordsPinned' /\ WithinLimits'
  BY <1>3 DEF LedgerInvariant, DamageOnlyAtEnd, RecordsPinned, WithinLimits
<1>8. OneWriter'
  BY <1>4 DEF LedgerInvariant, OneWriter, Claim
<1>9. ProcessKnowledge'
  <2>1. \A q \in Proc \ {p} : Scanned(q) => Scanned(q)'
    BY <1>3, <1>4, ScannedStable
  <2>2. \A q \in Proc \ {p} : pc[q] = "sync" => Claim(q) # Claim(p)
    BY <1>1 DEF LedgerInvariant, OneWriter
  <2> QED
    BY <1>3, <1>4, <2>1, <2>2
    DEF LedgerInvariant, ProcessKnowledge, Claim, Reservation
<1> QED
  BY <1>6, <1>7, <1>8, <1>9 DEF LedgerInvariant

\* Every other step of a process changes only its own memory.
LEMMA StepKeepsLedger ==
  ASSUME TypeOK, LedgerInvariant, NEW p \in Proc, Step(p) \/ Fault(p)
  PROVE  LedgerInvariant'
<1> USE DEF disk, history
<1>1. CASE Mkdir(p) \/ MkdirCalls(p) \/ PinExists(p)
  <2>1. /\ \E s \in {"mkcalls", "pin", "pinread"} : Goto(p, s)
        /\ pc[p] # "idle"
        /\ UNCHANGED <<policyFile, ledger, granted, launches>>
    BY <1>1 DEF Mkdir, MkdirCalls, PinExists
  <2> QED
    BY <2>1, GotoKeepsLedger DEF Steps, ReserveSteps
<1>2. CASE PinCreate(p) \/ PinWrite(p) \/ PinWriteFails(p)
  BY <1>2, PinKeepsLedger
<1>3. CASE PinRead(p)
  <2>1. /\ Goto(p, "open") \/ Finish(p, "invalid")
        /\ pc[p] # "idle"
        /\ UNCHANGED <<policyFile, ledger, granted, launches>>
    BY <1>3 DEF PinRead
  <2> QED
    BY <2>1, GotoKeepsLedger, FinishKeepsLedger DEF Steps, ScanSteps, Replies
<1>4. CASE OpenLedger(p)
  <2>1. UNCHANGED <<policyFile, ledger, granted, launches>> /\ pc[p] = "open"
    BY <1>4 DEF OpenLedger
  <2>2. CASE Finish(p, "ok") \/ Finish(p, "invalid")
    BY <2>1, <2>2, FinishKeepsLedger DEF Replies
  <2>3. CASE /\ policyFile = job[p].policy
             /\ pc' = [pc EXCEPT ![p] = "read"]
             /\ UNCHANGED <<job, used>>
    <3>1. /\ pc'[p] = "read"
          /\ job'[p].op = "reserve" => job'[p].phase \in DOMAIN job'[p].policy.limits
          /\ \A q \in Proc \ {p} :
               pc'[q] = pc[q] /\ job'[q] = job[q] /\ used'[q] = used[q]
      BY <2>1, <2>3 DEF TypeOK, LedgerInvariant, ProcessKnowledge
    <3> QED
      BY <2>1, <2>3, <3>1, PrivateStep
  <2> QED
    BY <1>4, <2>2, <2>3 DEF OpenLedger
<1>5. CASE ReadInvalid(p)
  BY <1>5, FinishKeepsLedger DEF ReadInvalid, Replies
<1>6. CASE ReadReport(p)
  BY <1>6, ReadKeepsLedger
<1>7. CASE SlotTaken(p)
  <2>1. /\ UNCHANGED <<policyFile, ledger, granted, launches>>
        /\ pc'[p] = "open"
        /\ job'[p].op = "reserve" => job'[p].phase \in DOMAIN job'[p].policy.limits
        /\ \A q \in Proc \ {p} :
             pc'[q] = pc[q] /\ job'[q] = job[q] /\ used'[q] = used[q]
    BY <1>7 DEF SlotTaken, TypeOK, LedgerInvariant, ProcessKnowledge
  <2> QED
    BY <2>1, PrivateStep
<1>8. CASE SlotCreate(p)
  BY <1>8, CreateKeepsLedger
<1>9. CASE SlotWrite(p)
  BY <1>9, WriteKeepsLedger
<1>10. CASE Grant(p)
  BY <1>10, GrantKeepsLedger
<1>11. CASE SlotCreateFails(p) \/ SlotWriteFails(p) \/ SyncFails(p) \/ Crash(p)
  <2>1. /\ Finish(p, "failed") \/ Finish(p, "killed")
        /\ UNCHANGED <<policyFile, ledger, granted, launches>>
    BY <1>11 DEF SlotCreateFails, SlotWriteFails, SyncFails, Crash
  <2> QED
    BY <2>1, FinishKeepsLedger DEF Replies
<1> QED
  BY <1>1, <1>2, <1>3, <1>4, <1>5, <1>6, <1>7, <1>8, <1>9, <1>10, <1>11
  DEF Step, Fault

-----------------------------------------------------------------------------
\* The inductive invariant of the ledger (scoped_budget.go, reserveScopedCall,
\* scopedStatus, exclusiveJSON) holds in every reachable state.
THEOREM LedgerCorrect == Spec => []LedgerInvariant
<1>1. TypeOK /\ LedgerInvariant /\ [Next]_vars => LedgerInvariant'
  <2> SUFFICES ASSUME TypeOK, LedgerInvariant, [Next]_vars PROVE LedgerInvariant'
    OBVIOUS
  <2>1. CASE UNCHANGED vars
    BY <2>1
    DEF vars, LedgerInvariant, DamageOnlyAtEnd, RecordsPinned, WithinLimits,
        ProcessKnowledge, OneWriter, LaunchesGranted, WrittenSlots, Slots,
        Scanned, Reserved, UsedInPhase, Claim, Reservation
  <2>2. CASE Next
    BY <2>2, BeginKeepsLedger, StepKeepsLedger DEF Next
  <2> QED
    BY <2>1, <2>2
<1> QED
  BY <1>1, InitLedger, TypeCorrect, PTL DEF Spec

\* No call identity is granted twice by `budget reserve`.
THEOREM LaunchOnce == Spec => []LaunchedAtMostOnce
<1>1. LedgerInvariant => LaunchedAtMostOnce
  BY DEF LedgerInvariant, LaunchesGranted, LaunchedAtMostOnce
<1> QED
  BY <1>1, LedgerCorrect, PTL

\* A returned reservation is on disk, complete, under the pinned policy.
THEOREM Recorded == Spec => []GrantsRecorded
<1>1. LedgerInvariant => GrantsRecorded
  BY DEF LedgerInvariant, LaunchesGranted, RecordsPinned, WrittenSlots, GrantsRecorded
<1> QED
  BY <1>1, LedgerCorrect, PTL

\* The grants stay within the pinned policy, in total and in each phase.
THEOREM NeverExceeded == Spec => []GrantsWithinAllowance
<1>1. TypeOK /\ LedgerInvariant => GrantsWithinAllowance
  <2> SUFFICES ASSUME TypeOK, LedgerInvariant, granted # {}
               PROVE  /\ policyFile \in Policy
                      /\ Cardinality(granted) <= policyFile.max
                      /\ \A ph \in DOMAIN policyFile.limits :
                           Cardinality({s \in granted : ledger[s].phase = ph})
                             <= policyFile.limits[ph]
    BY DEF GrantsWithinAllowance
  <2> DEFINE n == Cardinality(Slots)
  <2>1. /\ n \in Nat /\ Slots = 1..n
        /\ granted \subseteq WrittenSlots /\ WrittenSlots \subseteq Slots
        /\ IsFiniteSet(Slots)
    BY SlotFacts DEF LedgerInvariant, LaunchesGranted, TypeOK
  <2>2. policyFile \in Policy
    BY <2>1 DEF LedgerInvariant, RecordsPinned
  <2>3. Cardinality(granted) <= policyFile.max
    <3>1. n \in Slots
      BY <2>1
    <3>2. n <= policyFile.max
      BY <2>2, <3>1 DEF LedgerInvariant, WithinLimits
    <3>3. Cardinality(granted) <= n /\ Cardinality(granted) \in Nat
      BY <2>1, FS_Subset, FS_CardinalityType
    <3> QED
      BY <2>1, <2>2, <3>2, <3>3, PolicyAssumption
  <2>4. ASSUME NEW ph \in DOMAIN policyFile.limits
        PROVE  Cardinality({s \in granted : ledger[s].phase = ph}) <= policyFile.limits[ph]
    <3> DEFINE G == {s \in granted : ledger[s].phase = ph}
               W == {s \in WrittenSlots : ledger[s].phase = ph}
    <3>1. G \subseteq W /\ W \subseteq Slots
      BY <2>1
    <3>2. Cardinality(W) <= policyFile.limits[ph]
      BY <2>2 DEF LedgerInvariant, WithinLimits
    <3>3. policyFile.limits[ph] \in Nat
      BY <2>2, PolicyAssumption
    <3> HIDE DEF G, W
    <3>4. IsFiniteSet(W)
      BY <2>1, <3>1, FS_Subset
    <3>5. Cardinality(G) <= Cardinality(W) /\ Cardinality(G) \in Nat /\ Cardinality(W) \in Nat
      BY <3>1, <3>4, FS_Subset, FS_CardinalityType
    <3>6. Cardinality(G) <= policyFile.limits[ph]
      BY <3>2, <3>3, <3>5
    <3> QED
      BY <3>6 DEF G
  <2> QED
    BY <2>2, <2>3, <2>4
<1> QED
  BY <1>1, TypeCorrect, LedgerCorrect, PTL

\* A written record and the pinned policy are never changed or removed.
THEOREM NeverRefunded == Spec => SpentForever
<1> DEFINE Kept == /\ \A s \in Slots : /\ s \in DOMAIN ledger'
                                       /\ ledger[s] # Partial => ledger'[s] = ledger[s]
                   /\ policyFile \in Policy => policyFile' = policyFile
<1>1. TypeOK /\ LedgerInvariant /\ [Next]_vars => [Kept]_vars
  <2> SUFFICES ASSUME TypeOK, LedgerInvariant, Next PROVE Kept
    BY DEF vars
  <2>1. CASE \E p \in Proc : SlotCreate(p)
    BY <2>1 DEF SlotCreate, Slots
  <2>2. CASE \E p \in Proc : SlotWrite(p)
    <3>1. PICK p \in Proc : SlotWrite(p)
      BY <2>2
    <3>2. ledger[Claim(p)] = Partial
      BY <3>1 DEF LedgerInvariant, ProcessKnowledge, SlotWrite
    <3> QED
      BY <3>1, <3>2 DEF SlotWrite, Slots, TypeOK
  <2>3. CASE \E p \in Proc : PinCreate(p) \/ PinWrite(p) \/ PinWriteFails(p)
    <3>1. policyFile \notin Policy
      BY <2>3, SentinelAssumption
      DEF LedgerInvariant, ProcessKnowledge, PinCreate, PinWrite, PinWriteFails
    <3> QED
      BY <2>3, <3>1 DEF PinCreate, PinWrite, PinWriteFails, Slots
  <2>4. CASE UNCHANGED <<policyFile, ledger>>
    BY <2>4 DEF Slots
  <2> QED
    BY <2>1, <2>2, <2>3, <2>4
    DEF Next, Step, Fault, Begin, Mkdir, MkdirCalls, PinExists, PinRead, OpenLedger,
        ReadInvalid, ReadReport, SlotTaken, Grant, SlotCreateFails, SlotWriteFails,
        SyncFails, Crash, disk
<1> QED
  BY <1>1, TypeCorrect, LedgerCorrect, PTL DEF Spec, SpentForever

-----------------------------------------------------------------------------
(* The refinement of CallAllowance.                                         *)

\* The records of the abstract allowance, from the slots of the ledger.
Record(s) == [call |-> ledger[s].call, phase |-> ledger[s].phase]

LEMMA SpentIsImage == /\ Spent = {Record(s) : s \in WrittenSlots}
                      /\ Spent' = {Record(s)' : s \in WrittenSlots'}
  BY DEF Spent, WrittenSlots, Record

\* CallAllowance counts with an instance of its own of FiniteSets.
LEMMA SameCardinality == ASSUME NEW S PROVE Allowance!Cardinality(S) = Cardinality(S)
  BY DEF Allowance!Cardinality, Cardinality

\* No more calls are spent than slots are written, in total and in each phase.
LEMMA SpentBounded ==
  ASSUME NEW n \in Nat, WrittenSlots = 1..n, NEW ph
  PROVE  /\ Cardinality(Spent) \in Nat /\ Cardinality(Spent) <= n
         /\ Cardinality({e \in Spent : e.phase = ph}) \in Nat
         /\ Cardinality({e \in Spent : e.phase = ph}) <= Cardinality(UsedInPhase(n, ph))
         /\ Cardinality(UsedInPhase(n, ph)) \in Nat
<1>1. IsFiniteSet(1..n) /\ Cardinality(1..n) = n
  BY FS_Interval
<1>2. IsFiniteSet(Spent) /\ Cardinality(Spent) <= n
  <2> DEFINE f == [s \in 1..n |-> Record(s)]
  <2>1. f \in Surjection(1..n, Spent)
    BY SpentIsImage DEF Surjection
  <2> HIDE DEF f
  <2> QED
    BY <1>1, <2>1, FS_Surjection
<1>3. IsFiniteSet(UsedInPhase(n, ph))
  BY <1>1, FS_Subset DEF UsedInPhase
<1>4. /\ IsFiniteSet({e \in Spent : e.phase = ph})
      /\ Cardinality({e \in Spent : e.phase = ph}) <= Cardinality(UsedInPhase(n, ph))
  <2> DEFINE U == UsedInPhase(n, ph)
             T == {e \in Spent : e.phase = ph}
             f == [s \in U |-> Record(s)]
  <2>1. f \in [U -> T]
    BY SpentIsImage DEF UsedInPhase, Record
  <2>2. \A e \in T : \E s \in U : f[s] = e
    BY SpentIsImage DEF UsedInPhase, Record
  <2>3. f \in Surjection(U, T)
    BY <2>1, <2>2 DEF Surjection
  <2> HIDE DEF f, T, U
  <2>4. IsFiniteSet(U)
    BY <1>3 DEF U
  <2>5. IsFiniteSet(T) /\ Cardinality(T) <= Cardinality(U)
    BY <2>3, <2>4, FS_Surjection
  <2> QED
    BY <2>5 DEF T, U
<1> QED
  BY <1>2, <1>3, <1>4, FS_CardinalityType

\* While policy and ledger stay, so does what the callers were promised.
LEMMA PromiseKept ==
  ASSUME UNCHANGED <<policyFile, ledger>>
  PROVE  Pinned' = Pinned /\ Spent' = Spent
  BY DEF Pinned, Spent, Slots

\* A written record is a call spent.
LEMMA WriteSpends ==
  ASSUME TypeOK, LedgerInvariant, NEW p \in Proc, SlotWrite(p)
  PROVE  \E c \in CallID, ph \in Phase : Allowance!Spend(c, ph)
<1> PICK n, e : n = used[p] /\ e = Reservation(p)
  OBVIOUS
<1>1. /\ n \in Nat /\ Scanned(p) /\ WrittenSlots = 1..n /\ WrittenSlots' = 1..(n + 1)
      /\ e \in Call /\ e.call = job[p].call /\ e.phase = job[p].phase /\ e.policy = policyFile
      /\ ledger'[n + 1] = e /\ \A s \in 1..n : ledger'[s] = ledger[s]
  BY WriteFacts
<1>2. UNCHANGED <<policyFile, launches>>
  BY DEF SlotWrite, history
<1>3. policyFile \in Policy /\ e.call \in CallID /\ e.phase \in Phase
  BY <1>1 DEF Call
<1>4. Pinned = policyFile /\ Pinned' = Pinned /\ Pinned # NoPolicy
  BY <1>2, <1>3, SentinelAssumption DEF Pinned
<1>5. Spent' = Spent \cup {[call |-> e.call, phase |-> e.phase]}
  <2>1. \A s \in 1..n : Record(s)' = Record(s)
    BY <1>1 DEF Record
  <2>2. \A s \in {n + 1} : Record(s)' = [call |-> e.call, phase |-> e.phase]
    BY <1>1 DEF Record
  <2>3. Spent' = {Record(s)' : s \in 1..(n + 1)}
    BY <1>1, SpentIsImage
  <2>4. Spent = {Record(s) : s \in 1..n}
    BY <1>1, SpentIsImage
  <2>5. 1..(n + 1) = 1..n \cup {n + 1}
    BY <1>1
  <2> QED
    BY <2>1, <2>2, <2>3, <2>4, <2>5
<1>6. \A r \in Spent : r.call # e.call
  BY <1>1, SpentIsImage DEF Scanned, Reserved, Record
<1>7. /\ e.phase \in DOMAIN policyFile.limits
      /\ n < policyFile.max /\ policyFile.max \in Nat
      /\ Cardinality(UsedInPhase(n, e.phase)) < policyFile.limits[e.phase]
      /\ policyFile.limits[e.phase] \in Nat
  BY <1>1, <1>3, PolicyAssumption DEF Scanned
<1>8. /\ Cardinality(Spent) \in Nat /\ Cardinality(Spent) <= n
      /\ Cardinality({r \in Spent : r.phase = e.phase}) \in Nat
      /\ Cardinality({r \in Spent : r.phase = e.phase})
           <= Cardinality(UsedInPhase(n, e.phase))
      /\ Cardinality(UsedInPhase(n, e.phase)) \in Nat
  BY <1>1, SpentBounded
<1>9. /\ Allowance!Cardinality(Spent) < policyFile.max
      /\ Allowance!Cardinality({r \in Spent : r.phase = e.phase})
           < policyFile.limits[e.phase]
  BY <1>1, <1>7, <1>8, SameCardinality
<1>10. Allowance!Spend(e.call, e.phase)
  BY <1>2, <1>4, <1>5, <1>6, <1>7, <1>9 DEF Allowance!Spend
<1> QED
  BY <1>3, <1>10

\* A returned reservation is a call launched.
LEMMA GrantLaunches ==
  ASSUME TypeOK, LedgerInvariant, NEW p \in Proc, Grant(p)
  PROVE  \E c \in CallID : Allowance!Launch(c)
<1> DEFINE c == job[p].call
<1>1. /\ c \in CallID /\ Claim(p) \in WrittenSlots /\ ledger[Claim(p)].call = c
      /\ launches[c] = 0
  BY GrantFacts
<1>2. /\ UNCHANGED <<policyFile, ledger>>
      /\ launches' = [launches EXCEPT ![c] = @ + 1]
  BY DEF Grant, disk
<1>3. \E e \in Spent : e.call = c
  <2>1. Record(Claim(p)) \in Spent
    BY <1>1, SpentIsImage
  <2> QED
    BY <1>1, <2>1 DEF Record
<1>4. launches' = [launches EXCEPT ![c] = 1]
  BY <1>1, <1>2
<1>5. Allowance!Launch(c)
  BY <1>1, <1>2, <1>3, <1>4, PromiseKept DEF Allowance!Launch
<1> QED
  BY <1>1, <1>5

\* The policy is pinned when policy.json is written, whole.
LEMMA PolicyPins ==
  ASSUME TypeOK, LedgerInvariant, NEW p \in Proc,
         PinCreate(p) \/ PinWrite(p) \/ PinWriteFails(p)
  PROVE  (\E q \in Policy : Allowance!Pin(q)) \/ UNCHANGED <<Pinned, Spent, launches>>
<1>1. UNCHANGED <<ledger, launches>> /\ Spent' = Spent
  BY DEF PinCreate, PinWrite, PinWriteFails, history, Spent, Slots
<1>2. policyFile \in {NoPolicy, Partial} /\ Pinned = NoPolicy
  BY SentinelAssumption
  DEF LedgerInvariant, ProcessKnowledge, PinCreate, PinWrite, PinWriteFails, Pinned
<1>3. policyFile' = Partial \/ policyFile' \in Policy
  <2>1. pc[p] = "pinwrite" => job[p].policy \in Policy
    BY DEF TypeOK, JobFits, Job
  <2> QED
    BY <2>1 DEF PinCreate, PinWrite, PinWriteFails
<1>4. CASE policyFile' = Partial
  BY <1>1, <1>2, <1>4, SentinelAssumption DEF Pinned
<1>5. CASE policyFile' \in Policy
  <2>1. Pinned' = policyFile'
    BY <1>5 DEF Pinned
  <2>2. Allowance!Pin(policyFile')
    BY <1>1, <1>2, <2>1 DEF Allowance!Pin
  <2> QED
    BY <1>5, <2>2
<1> QED
  BY <1>3, <1>4, <1>5

\* A slot that was claimed and not written spends nothing.
LEMMA ClaimSpendsNothing ==
  ASSUME NEW p \in Proc, SlotCreate(p)
  PROVE  UNCHANGED <<Pinned, Spent, launches>>
<1>1. UNCHANGED <<policyFile, launches>> /\ Claim(p) \notin Slots
  BY DEF SlotCreate, history
<1>2. Slots' = Slots \cup {Claim(p)}
  BY DEF SlotCreate, Slots
<1>3. ledger'[Claim(p)] = Partial /\ \A s \in Slots : ledger'[s] = ledger[s]
  BY <1>1 DEF SlotCreate
<1>4. WrittenSlots' = WrittenSlots
  BY <1>2, <1>3 DEF WrittenSlots
<1>5. \A s \in WrittenSlots : Record(s)' = Record(s)
  BY <1>3 DEF WrittenSlots, Record
<1>6. Spent' = Spent
  BY <1>4, <1>5, SpentIsImage
<1> QED
  BY <1>1, <1>6 DEF Pinned

\* Every interleaving of reservations, kills and failed writes looks to the callers
\* like one atomic allowance: each step spends, launches or pins, or changes nothing
\* that CallAllowance speaks of.
THEOREM LedgerImplementsAllowance == Spec => ImplementsAllowance
<1>1. Init => Allowance!AllowanceInit
  <2> SUFFICES ASSUME Init PROVE Allowance!AllowanceInit
    OBVIOUS
  <2>1. Slots = {} /\ Spent = {}
    BY DEF Init, Slots, Spent
  <2>2. Pinned = NoPolicy
    BY SentinelAssumption DEF Init, Pinned
  <2> QED
    BY <2>1, <2>2 DEF Init, Allowance!AllowanceInit
<1>2. TypeOK /\ LedgerInvariant /\ [Next]_vars
        => [Allowance!AllowanceNext]_(Allowance!allowanceVars)
  <2> SUFFICES ASSUME TypeOK, LedgerInvariant, [Next]_vars
               PROVE  Allowance!AllowanceNext \/ UNCHANGED <<Pinned, Spent, launches>>
    BY DEF Allowance!allowanceVars
  <2>1. CASE \E p \in Proc : SlotWrite(p)
    BY <2>1, WriteSpends DEF Allowance!AllowanceNext
  <2>2. CASE \E p \in Proc : Grant(p)
    BY <2>2, GrantLaunches DEF Allowance!AllowanceNext
  <2>3. CASE \E p \in Proc : PinCreate(p) \/ PinWrite(p) \/ PinWriteFails(p)
    BY <2>3, PolicyPins DEF Allowance!AllowanceNext
  <2>4. CASE \E p \in Proc : SlotCreate(p)
    BY <2>4, ClaimSpendsNothing
  <2>5. CASE UNCHANGED <<policyFile, ledger, launches>>
    BY <2>5, PromiseKept
  <2> QED
    BY <2>1, <2>2, <2>3, <2>4, <2>5
    DEF vars, Next, Step, Fault, Begin, Mkdir, MkdirCalls, PinExists, PinRead, OpenLedger,
        ReadInvalid, ReadReport, SlotTaken, SlotCreateFails, SlotWriteFails,
        SyncFails, Crash, disk, history
<1> QED
  BY <1>1, <1>2, TypeCorrect, LedgerCorrect, PTL
  DEF Spec, ImplementsAllowance, Allowance!AllowanceSpec
=============================================================================
