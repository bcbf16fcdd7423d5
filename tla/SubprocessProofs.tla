-------------------------- MODULE SubprocessProofs --------------------------
(***************************************************************************)
(* Theorems about Subprocess, for any descendants, any bound of the tail   *)
(* and any amount of output.                                               *)
(***************************************************************************)
EXTENDS Subprocess, TLAPS

Group == {leader} \union Members

\* Before the command is started there is nothing to signal or to collect.
NotStarted ==
  pc = "new" => started = {} /\ exit = "none" /\ wait = "running"

\* A tail that lost nothing holds what was copied; a wait that met the end of the
\* pipes copied everything.
CopyKnown ==
  /\ ~tail.truncated => tail.kept = copied
  /\ wait = "nil" => copied = written

\* SIGTERM is sent, and a cause noted, only on the branch of the context.
BranchKnown ==
  /\ pc \in {"new", "select"} => ~termed /\ result.cause = ""
  /\ pc \in {"grace", "reap"} => result.cause \in {"deadline_exceeded", "cancelled"}

\* Both branches have killed the group when they are through.
GroupKilled ==
  pc \in {"reap", "returned"} /\ group = "owned" => alive \intersect Group \subseteq doomed

\* A success without a cause is one that c.Wait has reported as such.
SuccessReported ==
  pc = "returned" /\ result.cause = "" /\ result.exit = "zero" => ~termed /\ wait = "nil"

CallInv ==
  TypeOK /\ NotStarted /\ CopyKnown /\ BranchKnown /\ GroupKilled /\ SuccessReported

------------------------------------------------------------------------------
LEMMA InitCall == Init => CallInv
  <1> SUFFICES ASSUME Init
               PROVE  CallInv
    OBVIOUS
  <1>1. /\ pc = "new" /\ wait = "running" /\ result.cause = "" /\ ~termed
        /\ tail.kept = copied
    BY DEF Init, NoResult
  <1>2. TypeOK
    <2>1. result \in [cause : Causes, exit : {"none", "zero", "nonzero", "signal"},
                      event : {"none", "command_end", "command_timeout", "command_cancelled"}]
      BY DEF Init, NoResult, Causes
    <2>2. written \in 0..MaxOutput /\ copied \in 0..written
      BY SubprocessAssumption DEF Init
    <2>3. tail \in [kept : 0..Limit, truncated : BOOLEAN]
      <3>1. 0 \in 0..Limit
        BY SubprocessAssumption
      <3> QED
        BY <3>1 DEF Init
    <2> QED
      BY <2>1, <2>2, <2>3 DEF Init, TypeOK
  <1>3. NotStarted
    BY DEF Init, NotStarted
  <1> QED
    BY <1>1, <1>2, <1>3 DEF CallInv, CopyKnown, BranchKnown, GroupKilled, SuccessReported

\* The tail buffer stays within its limit, and loses nothing unless it says so.
LEMMA TailBounded ==
  ASSUME NEW t \in [kept : 0..Limit, truncated : BOOLEAN], NEW n \in Nat \ {0}
  PROVE  /\ TailWrite(t, n) \in [kept : 0..Limit, truncated : BOOLEAN]
         /\ ~TailWrite(t, n).truncated => ~t.truncated /\ TailWrite(t, n).kept = t.kept + n
  <1>1. t.kept \in 0..Limit /\ t.truncated \in BOOLEAN /\ Limit \in Nat \ {0}
    BY SubprocessAssumption
  <1>2. TailWrite(t, n).kept \in 0..Limit /\ TailWrite(t, n).truncated \in BOOLEAN
    BY <1>1 DEF TailWrite
  <1>3. TailWrite(t, n) \in [kept : 0..Limit, truncated : BOOLEAN]
    BY <1>2 DEF TailWrite
  <1>4. ~TailWrite(t, n).truncated => ~t.truncated /\ t.kept + n <= Limit
    <2>1. TailWrite(t, n).truncated = (t.truncated \/ t.kept + n > Limit)
      BY DEF TailWrite
    <2>2. ~(t.kept + n > Limit) => t.kept + n <= Limit
      BY <1>1
    <2> QED
      BY <2>1, <2>2
  <1>5. t.kept + n <= Limit => TailWrite(t, n).kept = t.kept + n
    <2> SUFFICES ASSUME t.kept + n <= Limit
                 PROVE  TailWrite(t, n).kept = t.kept + n
      OBVIOUS
    <2>1. CASE n >= Limit
      BY <1>1, <2>1 DEF TailWrite
    <2>2. CASE ~(n >= Limit)
      BY <1>1, <2>2 DEF TailWrite
    <2> QED
      BY <2>1, <2>2
  <1> QED
    BY <1>3, <1>4, <1>5

LEMMA ForkKeeps ==
  ASSUME CallInv, NEW p \in Process, NEW child \in Process, Fork(p, child)
  PROVE  CallInv'
  <1> USE DEF CallInv
  <1>1. started # {} /\ pc # "new"
    BY DEF Fork, Running, TypeOK, NotStarted
  <1>2. TypeOK'
    BY DEF Fork, Running, TypeOK
  <1>3. GroupKilled'
    <2>1. SUFFICES ASSUME pc \in {"reap", "returned"}, group = "owned"
                   PROVE  (alive \intersect Group \subseteq doomed)'
      BY DEF GroupKilled, Fork
    <2>2. p \in Escapees /\ child \in Escapees
      BY <2>1 DEF Fork, Running, GroupKilled, Group, Process
    <2>3. child \notin Group
      BY <2>2, SubprocessAssumption DEF Group
    <2> QED
      BY <2>1, <2>3 DEF Fork, GroupKilled
  <1>4. NotStarted' /\ CopyKnown' /\ BranchKnown' /\ SuccessReported'
    BY <1>1 DEF Fork, NotStarted, CopyKnown, BranchKnown, SuccessReported
  <1> QED
    BY <1>2, <1>3, <1>4

LEMMA WriteKeeps ==
  ASSUME CallInv, NEW p \in Process, Write(p)
  PROVE  CallInv'
  <1> USE DEF CallInv
  <1>1. pc # "new" /\ wait # "nil"
    BY DEF Write, Running, TypeOK, NotStarted
  <1>2. written' \in 0..MaxOutput /\ copied' \in 0..written'
    BY SubprocessAssumption DEF Write, TypeOK
  <1>3. TypeOK'
    BY <1>2 DEF Write, TypeOK
  <1>4. CopyKnown'
    BY <1>1 DEF Write, CopyKnown
  <1>5. NotStarted' /\ BranchKnown' /\ GroupKilled' /\ SuccessReported'
    BY <1>1 DEF Write, NotStarted, BranchKnown, GroupKilled, SuccessReported
  <1> QED
    BY <1>3, <1>4, <1>5

LEMMA EndsKeeps ==
  ASSUME CallInv, NEW p \in Process, Ends(p)
  PROVE  CallInv'
  <1> USE DEF CallInv
  <1>1. pc # "new"
    BY DEF Ends, TypeOK, NotStarted
  <1>2. TypeOK'
    BY DEF Ends, TypeOK
  <1>3. GroupKilled'
    BY DEF Ends, GroupKilled
  <1>4. NotStarted' /\ CopyKnown' /\ BranchKnown' /\ SuccessReported'
    BY <1>1 DEF Ends, NotStarted, CopyKnown, BranchKnown, SuccessReported
  <1> QED
    BY <1>2, <1>3, <1>4

LEMMA CopyKeeps ==
  ASSUME CallInv, Copy
  PROVE  CallInv'
  <1> USE DEF CallInv
  <1>1. PICK n \in 1..(written - copied) : tail' = TailWrite(tail, n) /\ copied' = copied + n
    BY DEF Copy
  <1>2. /\ written \in Nat /\ copied \in 0..written /\ written \in 0..MaxOutput
        /\ n \in Nat \ {0} /\ copied + n \in 0..written
        /\ tail \in [kept : 0..Limit, truncated : BOOLEAN]
    BY <1>1, SubprocessAssumption DEF TypeOK
  <1>3. /\ tail' \in [kept : 0..Limit, truncated : BOOLEAN]
        /\ ~tail'.truncated => ~tail.truncated /\ tail'.kept = tail.kept + n
    BY <1>1, <1>2, TailBounded
  <1>4. pc # "new" /\ wait # "nil"
    BY DEF Copy, NotStarted
  <1>5. TypeOK'
    BY <1>1, <1>2, <1>3 DEF Copy, TypeOK, command
  <1>6. CopyKnown'
    BY <1>1, <1>2, <1>3, <1>4 DEF Copy, CopyKnown, command
  <1>7. NotStarted' /\ BranchKnown' /\ GroupKilled' /\ SuccessReported'
    BY <1>4 DEF Copy, NotStarted, BranchKnown, GroupKilled, SuccessReported, command
  <1> QED
    BY <1>5, <1>6, <1>7

LEMMA WaitKeeps ==
  ASSUME CallInv, Reap \/ WaitEnds \/ WaitDelayPasses
  PROVE  CallInv'
  <1> USE DEF CallInv
  <1>1. /\ UNCHANGED <<pc, group, ctx, termed, copied, tail, result>>
        /\ UNCHANGED <<started, alive, doomed, holders, exit, written>>
        /\ wait \in {"running", "reaped"} /\ wait' \in {"reaped", "nil", "delay"}
        /\ wait' = "nil" => copied = written
    BY DEF Reap, WaitEnds, WaitDelayPasses, command
  <1>2. pc # "new"
    BY DEF Reap, WaitEnds, WaitDelayPasses, NotStarted
  <1>3. TypeOK'
    BY <1>1 DEF TypeOK
  <1>4. CopyKnown'
    BY <1>1 DEF CopyKnown
  <1>5. NotStarted' /\ BranchKnown' /\ GroupKilled' /\ SuccessReported'
    BY <1>1, <1>2 DEF NotStarted, BranchKnown, GroupKilled, SuccessReported
  <1> QED
    BY <1>3, <1>4, <1>5

LEMMA StartKeeps ==
  ASSUME CallInv, Refuse \/ Start
  PROVE  CallInv'
  <1> USE DEF CallInv
  <1>1. CASE Refuse
    <2>1. /\ pc = "new" /\ pc' = "returned" /\ exit = "none" /\ result'.exit = "none"
          /\ result' \in [cause : Causes, exit : {"none"}, event : {"command_end", "command_timeout", "command_cancelled"}]
      <3>1. PICK cause \in {"start_failed", "deadline_exceeded", "cancelled"} : Return(cause)
        BY <1>1 DEF Refuse, TypeOK
      <3>2. pc = "new" /\ exit = "none"
        BY <1>1 DEF Refuse, NotStarted
      <3>3. pc' = "returned" /\ result' = [cause |-> cause, exit |-> "none", event |-> Event(cause)]
        BY <3>1, <3>2 DEF Return
      <3>4. Event(cause) \in {"command_end", "command_timeout", "command_cancelled"}
        BY DEF Event
      <3>5. cause \in Causes
        BY DEF Causes
      <3> QED
        BY <3>2, <3>3, <3>4, <3>5
    <2>2. alive = {}
      BY <2>1 DEF TypeOK, NotStarted
    <2>3. /\ UNCHANGED <<group, ctx, termed, wait, copied, tail>>
          /\ UNCHANGED <<started, alive, doomed, holders, exit, written>>
      BY <1>1 DEF Refuse, command
    <2>4. TypeOK'
      BY <2>1, <2>3 DEF TypeOK
    <2>5. CopyKnown'
      BY <2>3 DEF CopyKnown
    <2>6. NotStarted' /\ BranchKnown' /\ GroupKilled' /\ SuccessReported'
      BY <2>1, <2>2, <2>3 DEF NotStarted, BranchKnown, GroupKilled, SuccessReported
    <2> QED
      BY <2>4, <2>5, <2>6
  <1>2. CASE Start
    <2>1. TypeOK'
      BY <1>2 DEF Start, TypeOK, NotStarted, Process
    <2>2. CopyKnown'
      BY <1>2 DEF Start, CopyKnown
    <2>3. NotStarted' /\ BranchKnown' /\ GroupKilled' /\ SuccessReported'
      BY <1>2 DEF Start, NotStarted, BranchKnown, GroupKilled, SuccessReported
    <2> QED
      BY <2>1, <2>2, <2>3
  <1> QED
    BY <1>1, <1>2

LEMMA ContextKeeps ==
  ASSUME CallInv, NEW cause \in {"deadline_exceeded", "cancelled"}, ContextEnds(cause)
  PROVE  CallInv'
  <1> USE DEF CallInv
  <1>1. /\ UNCHANGED <<pc, group, termed, wait, copied, tail, result>>
        /\ UNCHANGED <<started, alive, doomed, holders, exit, written>>
        /\ ctx' = cause
    BY DEF ContextEnds, command
  <1>2. TypeOK'
    BY <1>1 DEF TypeOK
  <1> QED
    BY <1>1, <1>2 DEF NotStarted, CopyKnown, BranchKnown, GroupKilled, SuccessReported

\* SIGKILL reaches living processes only, and the whole of a group that is owned.
LEMMA KillReaches ==
  ASSUME TypeOK, Kill
  PROVE  /\ doomed' \subseteq alive
         /\ group = "owned" => alive \intersect Group \subseteq doomed'
  BY DEF Kill, KillSet, TypeOK, Group

LEMMA SelectDoneKeeps ==
  ASSUME CallInv, SelectDone
  PROVE  CallInv'
  <1> USE DEF CallInv
  <1>1. /\ doomed' \subseteq alive
        /\ group = "owned" => alive \intersect Group \subseteq doomed'
    BY KillReaches DEF SelectDone, TypeOK
  <1>2. /\ result' \in [cause : Causes, exit : {"none", "zero", "nonzero", "signal"},
                        event : {"command_end", "command_timeout", "command_cancelled"}]
        /\ result'.cause = "" /\ result'.exit = "zero" => wait = "nil"
    <2>1. result' = [cause |-> CauseOfWait, exit |-> exit, event |-> Event(CauseOfWait)]
      BY DEF SelectDone, Return
    <2>2. CauseOfWait \in {"", "pipe_timeout"} /\ exit \in {"none", "zero", "nonzero", "signal"}
      BY DEF CauseOfWait, TypeOK
    <2>3. Event(CauseOfWait) \in {"command_end", "command_timeout", "command_cancelled"}
      BY DEF Event
    <2>4. CauseOfWait = "" /\ exit = "zero" => wait = "nil"
      BY DEF SelectDone, Done, CauseOfWait
    <2> QED
      BY <2>1, <2>2, <2>3, <2>4 DEF Causes
  <1>3. ~termed /\ pc' = "returned"
    BY DEF SelectDone, Return, BranchKnown
  <1>4. TypeOK'
    BY <1>1, <1>2, <1>3 DEF SelectDone, TypeOK
  <1>5. CopyKnown' /\ SuccessReported'
    BY <1>2, <1>3 DEF SelectDone, CopyKnown, SuccessReported
  <1>6. NotStarted' /\ BranchKnown' /\ GroupKilled'
    BY <1>1, <1>3 DEF SelectDone, NotStarted, BranchKnown, GroupKilled
  <1> QED
    BY <1>4, <1>5, <1>6

LEMMA SelectContextKeeps ==
  ASSUME CallInv, SelectContext
  PROVE  CallInv'
  <1> USE DEF CallInv
  <1>1. doomed' \subseteq alive /\ termed' \in BOOLEAN
    BY KillReaches DEF SelectContext, TypeOK
  <1>2. /\ result' \in [cause : {"deadline_exceeded", "cancelled"}, exit : {"none", "zero", "nonzero", "signal"},
                        event : {"none", "command_end", "command_timeout", "command_cancelled"}]
        /\ pc' = "grace"
    BY DEF SelectContext, TypeOK
  <1>3. result' \in [cause : Causes, exit : {"none", "zero", "nonzero", "signal"},
                     event : {"none", "command_end", "command_timeout", "command_cancelled"}]
    BY <1>2 DEF Causes
  <1>4. TypeOK'
    BY <1>1, <1>2, <1>3 DEF SelectContext, TypeOK
  <1>5. NotStarted' /\ CopyKnown' /\ BranchKnown' /\ GroupKilled' /\ SuccessReported'
    BY <1>2 DEF SelectContext, NotStarted, CopyKnown, BranchKnown, GroupKilled, SuccessReported
  <1> QED
    BY <1>4, <1>5

LEMMA GraceKeeps ==
  ASSUME CallInv, GracePasses \/ ReapDone
  PROVE  CallInv'
  <1> USE DEF CallInv
  <1>1. CASE GracePasses
    <2>1. /\ doomed' \subseteq alive
          /\ group = "owned" => alive \intersect Group \subseteq doomed'
      BY <1>1, KillReaches DEF GracePasses
    <2>2. TypeOK'
      BY <1>1, <2>1 DEF GracePasses, TypeOK
    <2>3. NotStarted' /\ CopyKnown' /\ BranchKnown' /\ GroupKilled' /\ SuccessReported'
      BY <1>1, <2>1 DEF GracePasses, NotStarted, CopyKnown, BranchKnown, GroupKilled, SuccessReported
    <2> QED
      BY <2>2, <2>3
  <1>2. CASE ReapDone
    <2>1. /\ result' \in [cause : {"deadline_exceeded", "cancelled"}, exit : {"none", "zero", "nonzero", "signal"},
                          event : {"command_end", "command_timeout", "command_cancelled"}]
          /\ pc = "reap" /\ pc' = "returned"
      BY <1>2 DEF ReapDone, Return, Event, BranchKnown, TypeOK
    <2>2. /\ UNCHANGED <<group, ctx, termed, wait, copied, tail>>
          /\ UNCHANGED <<started, alive, doomed, holders, exit, written>>
      BY <1>2 DEF ReapDone, command
    <2>3. TypeOK'
      <3>1. result' \in [cause : Causes, exit : {"none", "zero", "nonzero", "signal"},
                         event : {"none", "command_end", "command_timeout", "command_cancelled"}]
        BY <2>1 DEF Causes
      <3> QED
        BY <2>1, <2>2, <3>1 DEF TypeOK
    <2>4. NotStarted' /\ CopyKnown' /\ BranchKnown' /\ GroupKilled' /\ SuccessReported'
      BY <2>1, <2>2 DEF NotStarted, CopyKnown, BranchKnown, GroupKilled, SuccessReported
    <2> QED
      BY <2>3, <2>4
  <1> QED
    BY <1>1, <1>2

LEMMA StepKeeps == CallInv /\ [Next]_vars => CallInv'
  <1> SUFFICES ASSUME CallInv, [Next]_vars
               PROVE  CallInv'
    OBVIOUS
  <1>1. CASE RunSteps
    BY <1>1, StartKeeps, SelectDoneKeeps, SelectContextKeeps, GraceKeeps DEF RunSteps
  <1>2. CASE WaitSteps
    BY <1>2, WaitKeeps, CopyKeeps DEF WaitSteps
  <1>3. CASE \E cause \in {"deadline_exceeded", "cancelled"} : ContextEnds(cause)
    BY <1>3, ContextKeeps
  <1>4. CASE \E p, child \in Process : Fork(p, child)
    BY <1>4, ForkKeeps
  <1>5. CASE \E p \in Process : Write(p) \/ Ends(p)
    BY <1>5, WriteKeeps, EndsKeeps
  <1>6. CASE UNCHANGED vars
    <2>1. /\ UNCHANGED <<pc, group, ctx, termed, wait, copied, tail, result>>
          /\ UNCHANGED <<started, alive, doomed, holders, exit, written>>
      BY <1>6 DEF vars, command
    <2>2. TypeOK'
      BY <2>1 DEF CallInv, TypeOK
    <2>3. NotStarted' /\ CopyKnown' /\ BranchKnown' /\ GroupKilled' /\ SuccessReported'
      BY <2>1 DEF CallInv, NotStarted, CopyKnown, BranchKnown, GroupKilled, SuccessReported
    <2> QED
      BY <2>2, <2>3 DEF CallInv
  <1> QED
    BY <1>1, <1>2, <1>3, <1>4, <1>5, <1>6 DEF Next

------------------------------------------------------------------------------
\* The inductive invariant of a call of Run (process.go:66-135): what each branch
\* of the select knows about the group, the copy and the wait when it returns.
THEOREM CallCorrect == Spec => []CallInv
  <1> QED
    BY InitCall, StepKeeps, PTL DEF Spec

\* The variables keep their types: the tail stays within its limit, and signals
\* reach living processes only.
THEOREM CallTypes == Spec => []TypeOK
  <1>1. CallInv => TypeOK
    BY DEF CallInv
  <1> QED
    BY <1>1, CallCorrect, PTL

\* No process of an owned group outlives the call, whatever it leaves behind.
THEOREM GroupEnds == Spec => []OwnedGroupEnds
  <1>1. CallInv => OwnedGroupEnds
    BY DEF CallInv, GroupKilled, OwnedGroupEnds, Group
  <1> QED
    BY <1>1, CallCorrect, PTL

\* What the collectors accept is the whole output of a command that ended by itself.
THEOREM WholeAccepted == Spec => []AcceptedIsWhole
  <1>1. CallInv => AcceptedIsWhole
    BY DEF CallInv, CopyKnown, SuccessReported, AcceptedIsWhole, Accepted
  <1> QED
    BY <1>1, CallCorrect, PTL
==============================================================================
