----------------------------- MODULE Subprocess -----------------------------
(***************************************************************************)
(* One call of subprocess.Run (internal/subprocess): a command, the group  *)
(* of processes it starts, the goroutine in c.Wait, the copy of its output *)
(* into bounded tails, and the context of the call, whose deadline or      *)
(* cancellation races with all of them.                                    *)
(*                                                                         *)
(* Time is left out: a timer may fire at any moment after it was set.  A   *)
(* process that is sent SIGKILL does nothing more, and is gone some time   *)
(* later.  Commands do what they like: they ignore SIGTERM, never end, or  *)
(* leave descendants behind, in their group or outside it.                 *)
(***************************************************************************)
EXTENDS Integers

CONSTANTS
  leader,   \* the command itself
  Members,  \* descendants in its process group
  Escapees, \* descendants that left the group (setsid)
  Limit,    \* Options.Limit, in units of output
  MaxOutput \* bound: units of output that the command and its descendants write

Process == {leader} \union Members \union Escapees

ASSUME SubprocessAssumption ==
  /\ leader \notin Members \union Escapees /\ Members \intersect Escapees = {}
  /\ Limit \in Nat \ {0} /\ MaxOutput \in Nat

VARIABLES
  pc,      \* of Run: "new", "select", "grace", "reap", "returned"
  group,   \* "owned", "joined" (JoinGroup: a caller's), "none" (not darwin, not linux)
  ctx,     \* "live" or the cause that ended it
  started, \* processes that were ever started
  alive,
  doomed,  \* living processes that were sent SIGKILL
  termed,  \* SIGTERM was sent
  holders, \* processes that hold a descriptor of the output pipes
  exit,    \* how the leader ended: "none", "zero", "nonzero", "signal"
  wait,    \* c.Wait: "running", "reaped", then what it sent: "nil", "delay"
  written, \* units of output written to the pipes
  copied,  \* units that the copy has read
  tail,    \* the tail buffer: how many of the last units it holds, and truncated
  result   \* of the call: its cause, exit code and the event of the receipt

command == <<started, alive, doomed, holders, exit, written>>
vars    == <<pc, group, ctx, termed, wait, copied, tail, result, command>>

Causes == {"", "start_failed", "deadline_exceeded", "cancelled", "pipe_timeout"}
NoResult == [cause |-> "", exit |-> "none", event |-> "none"]

TypeOK ==
  /\ pc \in {"new", "select", "grace", "reap", "returned"}
  /\ group \in {"owned", "joined", "none"} /\ termed \in BOOLEAN
  /\ ctx \in {"live", "deadline_exceeded", "cancelled"}
  /\ doomed \subseteq alive /\ alive \subseteq started /\ started \subseteq Process
  /\ holders \subseteq alive
  /\ exit \in {"none", "zero", "nonzero", "signal"}
  /\ wait \in {"running", "reaped", "nil", "delay"}
  /\ written \in 0..MaxOutput /\ copied \in 0..written
  /\ tail \in [kept : 0..Limit, truncated : BOOLEAN]
  /\ result \in [cause : Causes, exit : {"none", "zero", "nonzero", "signal"},
                 event : {"none", "command_end", "command_timeout", "command_cancelled"}]

Init ==
  /\ pc = "new" /\ ctx = "live" /\ termed = FALSE
  /\ group \in {"owned", "joined", "none"}
  /\ started = {} /\ alive = {} /\ doomed = {} /\ holders = {}
  /\ exit = "none" /\ wait = "running"
  /\ written = 0 /\ copied = 0
  /\ tail = [kept |-> 0, truncated |-> FALSE]
  /\ result = NoResult

------------------------------------------------------------------------------
(* The command, its descendants, and the signals they are sent.             *)

Running == alive \ doomed

\* A descendant inherits the pipes of its parent, or closes them.
Fork(p, child) ==
  /\ p \in Running /\ child \notin started /\ (p \in Escapees => child \in Escapees)
  /\ started' = started \union {child} /\ alive' = alive \union {child}
  /\ holders' \in {holders} \union (IF p \in holders THEN {holders \union {child}} ELSE {})
  /\ UNCHANGED <<pc, group, ctx, termed, wait, copied, tail, result, doomed, exit, written>>

Write(p) ==
  /\ p \in Running \intersect holders /\ wait \in {"running", "reaped"}
  /\ written < MaxOutput /\ written' = written + 1
  /\ UNCHANGED <<pc, group, ctx, termed, wait, copied, tail, result, started, alive, doomed, holders, exit>>

\* By itself, by SIGTERM unless it is ignored, or by the SIGKILL it was sent.
Ends(p) ==
  /\ p \in alive
  /\ alive' = alive \ {p} /\ doomed' = doomed \ {p} /\ holders' = holders \ {p}
  /\ exit' \in IF p # leader THEN {exit}
               ELSE IF p \in doomed THEN {"signal"}
               ELSE {"zero", "nonzero"} \union (IF termed THEN {"signal"} ELSE {})
  /\ UNCHANGED <<pc, group, ctx, termed, wait, copied, tail, result, started, written>>

\* Defect: the group is not killed, only its leader.
KillLeader == {leader}

\* syscall.Kill(-pid, SIGKILL), or the leader alone where no group is owned.
KillSet == {leader} \union (IF group = "owned" THEN Members ELSE {})
Kill == doomed' = doomed \union (alive \intersect KillSet)

------------------------------------------------------------------------------
(* The tail buffer and c.Wait.                                              *)

\* Defect: the tail is not cut.
TailWriteUncut(t, n) == [kept |-> t.kept + n, truncated |-> t.truncated \/ t.kept + n > Limit]

\* tail.Write of n units: the buffer keeps the last Limit of them.
TailWrite(t, n) ==
  [kept      |-> IF n >= Limit THEN Limit ELSE IF t.kept + n > Limit THEN Limit ELSE t.kept + n,
   truncated |-> t.truncated \/ t.kept + n > Limit]

Copy ==
  /\ wait \in {"running", "reaped"} /\ started # {}
  /\ \E n \in 1..(written - copied) : tail' = TailWrite(tail, n) /\ copied' = copied + n
  /\ UNCHANGED <<pc, group, ctx, termed, wait, result, command>>

\* c.Wait sees that the command has ended; WaitDelay begins.
Reap ==
  /\ wait = "running" /\ exit # "none" /\ wait' = "reaped"
  /\ UNCHANGED <<pc, group, ctx, termed, copied, tail, result, command>>

\* The copy met the end of the pipes: no process holds them.
WaitEnds ==
  /\ wait = "reaped" /\ holders = {} /\ copied = written /\ wait' = "nil"
  /\ UNCHANGED <<pc, group, ctx, termed, copied, tail, result, command>>

\* Defect: no WaitDelay is set.
WaitDelayNever == FALSE /\ UNCHANGED vars

\* WaitDelay passes first: the pipes are closed on whoever holds them.
WaitDelayPasses ==
  /\ wait = "reaped" /\ (holders # {} \/ copied # written) /\ wait' = "delay"
  /\ UNCHANGED <<pc, group, ctx, termed, copied, tail, result, command>>

------------------------------------------------------------------------------
(* Run.                                                                     *)

\* The event of commandRunner.run and argv.
Event(cause) ==
  CASE cause \in {"deadline_exceeded", "pipe_timeout"} -> "command_timeout"
    [] cause = "cancelled"                             -> "command_cancelled"
    [] OTHER                                           -> "command_end"

Return(cause) ==
  /\ pc' = "returned"
  /\ result' = [cause |-> cause, exit |-> exit, event |-> Event(cause)]

\* Nothing is started: no argv, a context that is over, a program that is not there.
Refuse ==
  /\ pc = "new"
  /\ IF ctx # "live" THEN Return(ctx) \/ Return("start_failed") ELSE Return("start_failed")
  /\ UNCHANGED <<group, ctx, termed, wait, copied, tail, command>>

Start ==
  /\ pc = "new" /\ ctx = "live" /\ pc' = "select"
  /\ started' = {leader} /\ alive' = {leader} /\ holders' = {leader}
  /\ UNCHANGED <<group, ctx, termed, wait, copied, tail, result, doomed, exit, written>>

\* The total deadline, the deadline of this command, or a cancellation.
ContextEnds(cause) ==
  /\ ctx = "live" /\ pc # "returned" /\ ctx' = cause
  /\ UNCHANGED <<pc, group, termed, wait, copied, tail, result, command>>

Done == wait \in {"nil", "delay"}

\* Defect: ErrWaitDelay is not looked at.
CauseIgnored == ""

\* c.Wait returns ErrWaitDelay only when the command succeeded; without another
\* cause that is a timeout of the pipes.
CauseOfWait == IF wait = "delay" /\ exit = "zero" THEN "pipe_timeout" ELSE ""

\* When both channels are ready, select takes either.  A call that does not own
\* the group leaves its descendants to the governor that does.
SelectDone ==
  /\ pc = "select" /\ Done
  /\ IF group = "owned" THEN Kill ELSE UNCHANGED doomed
  /\ Return(CauseOfWait)
  /\ UNCHANGED <<group, ctx, termed, wait, copied, tail, started, alive, holders, exit, written>>

SelectContext ==
  /\ pc = "select" /\ ctx # "live"
  /\ pc' = "grace" /\ result' = [result EXCEPT !.cause = ctx]
  /\ IF group = "none" THEN Kill /\ UNCHANGED termed ELSE termed' = TRUE /\ UNCHANGED doomed
  /\ UNCHANGED <<group, ctx, wait, copied, tail, started, alive, holders, exit, written>>

\* The grace is waited for in full.
GracePasses ==
  /\ pc = "grace" /\ pc' = "reap" /\ Kill
  /\ UNCHANGED <<group, ctx, termed, wait, copied, tail, result, started, alive, holders, exit, written>>

ReapDone ==
  /\ pc = "reap" /\ Done
  /\ Return(result.cause)
  /\ UNCHANGED <<group, ctx, termed, wait, copied, tail, command>>

RunSteps == Refuse \/ Start \/ SelectDone \/ SelectContext \/ GracePasses \/ ReapDone
WaitSteps == Reap \/ WaitEnds \/ WaitDelayPasses \/ Copy

Next ==
  \/ RunSteps \/ WaitSteps
  \/ \E cause \in {"deadline_exceeded", "cancelled"} : ContextEnds(cause)
  \/ \E p, child \in Process : Fork(p, child)
  \/ \E p \in Process : Write(p) \/ Ends(p)

Spec == Init /\ [][Next]_vars

\* The goroutines run, timers fire and SIGKILL kills; commands owe nothing.
FairSpec ==
  /\ Spec
  /\ WF_vars(RunSteps) /\ WF_vars(Reap) /\ WF_vars(WaitEnds \/ WaitDelayPasses)
  /\ \A p \in Process : WF_vars(p \in doomed /\ Ends(p))

------------------------------------------------------------------------------
(* Properties.                                                              *)

\* No process of an owned group outlives the call unless its SIGKILL is on the way,
\* whichever branch of the select was taken and whoever the command left behind.
OwnedGroupEnds ==
  pc = "returned" /\ group = "owned" => alive \intersect ({leader} \union Members) \subseteq doomed

\* What collectorSet and structuredResult accept (exit code 0, no cause, nothing
\* truncated) is the whole output of a command that ended by itself, also when the
\* deadline passes while the command ends, or a descendant still holds the pipes.
Accepted == pc = "returned" /\ result.exit = "zero" /\ result.cause = "" /\ ~tail.truncated
AcceptedIsWhole == Accepted => ~termed /\ tail.kept = written

\* A call whose context is over, or whose command has ended, returns: no command
\* that ignores SIGTERM and no descendant that keeps the pipes can hold it.
RunReturns == (ctx # "live" \/ exit # "none") ~> pc = "returned"
==============================================================================
