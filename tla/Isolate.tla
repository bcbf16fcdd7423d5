------------------------------- MODULE Isolate -------------------------------
(***************************************************************************)
(* `loopexec isolate --execute --confirm` (cmd/loopexec/isolate.go): a key *)
(* is minted, written to an env-file, handed to the agent zone, and has to *)
(* be revoked and scrubbed on every way out.  Two goroutines share that    *)
(* duty without a lock: `pc` is the command, `sig` the goroutine that      *)
(* waits for SIGINT and SIGTERM.                                           *)
(*                                                                         *)
(* A mint hook that fails has minted nothing; a revoke hook that fails     *)
(* leaves the key live.  SIGKILL, and a signal with its default            *)
(* disposition, end the process where it is.  The hooks of the operator    *)
(* and the container runtime are outside src/.                             *)
(***************************************************************************)
EXTENDS Integers

CONSTANTS
  MaxSignals, \* SIGINT and SIGTERM that somebody sends to the process
  MaxFaults   \* failed steps, and SIGKILL

ASSUME IsolateAssumption == MaxSignals \in Nat /\ MaxFaults \in Nat

VARIABLES
  hooks,     \* --mint-cmd and --revoke-cmd: "none", "both", "mint" alone
  pc,        \* the next step of the command
  sig,       \* the next step of the signal goroutine
  key,       \* at the provider: "none", "live", "revoked"
  text,      \* what the mint hook printed: "empty", "plain", "newline"
  revoked,   \* report.Revoked
  attempts,  \* history: revoke hooks that were started
  envFile,   \* agent.env: "none", "old" of an earlier process, "own" of this one
  zone,      \* the zone that runs: "none", "exec", "agent"
  cancelled, \* the context of the zones
  handler,   \* disposition of SIGINT and SIGTERM: "default", "caught"
  channel,   \* signals in sigCh, which holds one
  exit,      \* "running", "returned", "signalled", "killed"
  signals,
  faults

credential == <<key, text, revoked, attempts>>
signalling == <<cancelled, handler, channel, signals>>
vars == <<hooks, pc, sig, credential, envFile, zone, signalling, exit, faults>>

MainSteps == {"reset", "mint", "register", "check", "write", "exec", "agent", "scrub",
              "revoke", "hook", "receipt", "last", "lasthook", "stop", "cancel",
              "cleanup", "final", "finalhook", "gone"}
SignalSteps == {"none", "waiting", "cancel", "remove", "revoke", "hook", "raise", "done"}

Minted == text # "empty"

Init ==
  /\ hooks \in {"none", "both", "mint"}
  /\ pc = "reset" /\ sig = "none"
  /\ key = "none" /\ text = "empty" /\ revoked = FALSE /\ attempts = 0
  /\ envFile \in {"none", "old"}
  /\ zone = "none"
  /\ cancelled = FALSE /\ handler = "default" /\ channel = 0 /\ signals = 0
  /\ exit = "running"
  /\ faults = 0

Fault   == faults < MaxFaults /\ faults' = faults + 1
NoFault == UNCHANGED faults
\* The command goes from one step to another, and the goroutine likewise.
Main(from, to)   == exit = "running" /\ pc = from /\ pc' = to /\ UNCHANGED <<hooks, sig>>
Signal(from, to) == exit = "running" /\ sig = from /\ sig' = to /\ UNCHANGED <<hooks, pc>>
Return == exit' = "returned"

------------------------------------------------------------------------------
(* The command.                                                             *)

\* The sandbox is emptied and cloned into, unless a mint hook stands alone.  What
\* cannot be emptied may still hold the env-file of an earlier process.
Reset ==
  /\ \/ /\ \/ hooks = "both" /\ Main("reset", "mint") /\ UNCHANGED exit
           \/ hooks = "none" /\ Main("reset", "register") /\ UNCHANGED exit
           \/ hooks = "mint" /\ Main("reset", "gone") /\ Return
        /\ envFile' = "none" /\ NoFault
     \/ Main("reset", "gone") /\ Return /\ envFile' \in {envFile, "none"} /\ Fault
  /\ UNCHANGED <<credential, zone, signalling>>

Mint ==
  /\ \/ /\ Main("mint", "register")
        /\ text' \in {"empty", "plain", "newline"}
        /\ key' = IF text' = "empty" THEN "none" ELSE "live"
        /\ UNCHANGED exit /\ NoFault
     \/ Main("mint", "gone") /\ Return /\ Fault /\ UNCHANGED <<key, text>>
  /\ UNCHANGED <<revoked, attempts, envFile, zone, signalling>>

\* The deferred cleanup, then signal.Notify and its goroutine.
Register ==
  /\ exit = "running" /\ pc = "register" /\ pc' = "check"
  /\ handler' = "caught"
  /\ sig' = "waiting"
  /\ UNCHANGED <<hooks, credential, envFile, zone, cancelled, channel, signals, exit, faults>>

CheckKey ==
  /\ Main("check", IF text = "newline" THEN "stop" ELSE "write")
  /\ UNCHANGED <<credential, envFile, zone, signalling, exit, faults>>

\* A write that fails may leave the file.
WriteEnv ==
  /\ \/ Main("write", "exec") /\ envFile' = "own" /\ NoFault
     \/ Main("write", "stop") /\ envFile' \in {envFile, "own"} /\ Fault
  /\ UNCHANGED <<credential, zone, signalling, exit>>

\* runRuntime: nothing is started under a context that is over.
ZoneStarts(z) ==
  /\ Main(z, z)
  /\ zone = "none" /\ ~cancelled
  /\ zone' = z
  /\ UNCHANGED <<credential, envFile, signalling, exit, faults>>

\* The zone ends by itself, or is killed with its context.
ZoneEnds(z, next) ==
  /\ Main(z, next)
  /\ zone = z \/ cancelled
  /\ zone' = "none"
  /\ UNCHANGED <<credential, envFile, signalling, exit, faults>>

\* A file that cannot be removed is an error, reported after the revocation.
Scrub ==
  /\ \/ Main("scrub", "revoke") /\ envFile' = "none" /\ NoFault
     \/ Main("scrub", "last") /\ envFile # "none" /\ Fault /\ UNCHANGED envFile
  /\ UNCHANGED <<credential, zone, signalling, exit>>

\* revoke, its test, at three places of the command.
RevokeTest(from, hook, next) ==
  /\ IF Minted /\ ~revoked
     THEN Main(from, hook) /\ attempts' = attempts + 1
     ELSE Main(from, next) /\ UNCHANGED attempts
  /\ exit' = IF pc' = "gone" THEN "returned" ELSE exit
  /\ UNCHANGED <<key, text, revoked, envFile, zone, signalling, faults>>

\* Defect: a revocation is not recorded.
HookUnrecorded ==
  /\ UNCHANGED revoked
  /\ \/ key' = "revoked" /\ NoFault
     \/ UNCHANGED key /\ Fault
  /\ UNCHANGED <<text, attempts, envFile, zone, signalling>>

\* The outcome of a revoke hook is not looked at.
HookRuns ==
  /\ revoked' = TRUE
  /\ \/ key' = "revoked" /\ NoFault
     \/ UNCHANGED key /\ Fault
  /\ UNCHANGED <<text, attempts, envFile, zone, signalling>>

RevokeHook(hook, next) ==
  /\ Main(hook, next)
  /\ HookRuns
  /\ exit' = IF next = "gone" THEN "returned" ELSE exit

Receipt ==
  /\ Main("receipt", "stop")
  /\ NoFault \/ Fault
  /\ UNCHANGED <<credential, envFile, zone, signalling, exit>>

\* The deferred calls, last one first: signal.Stop, cancel, cleanup.
Stop ==
  /\ Main("stop", "cancel")
  /\ handler' = "default"
  /\ UNCHANGED <<credential, envFile, zone, cancelled, channel, signals, exit, faults>>

Cancel ==
  /\ Main("cancel", "cleanup")
  /\ cancelled' = TRUE
  /\ UNCHANGED <<credential, envFile, zone, handler, channel, signals, exit, faults>>

Removes == \/ envFile' = "none" /\ NoFault
           \/ envFile # "none" /\ UNCHANGED envFile /\ Fault

\* Defect: the deferred cleanup only revokes.
CleanupRevokesOnly ==
  /\ Main("cleanup", "final")
  /\ UNCHANGED <<credential, envFile, zone, signalling, exit, faults>>

Cleanup ==
  /\ Main("cleanup", "final")
  /\ Removes
  /\ UNCHANGED <<credential, zone, signalling, exit>>

Command ==
  \/ Reset \/ Mint \/ Register \/ CheckKey \/ WriteEnv
  \/ ZoneStarts("exec") \/ ZoneEnds("exec", "agent")
  \/ ZoneStarts("agent") \/ ZoneEnds("agent", "scrub")
  \/ Scrub \/ RevokeTest("revoke", "hook", "receipt") \/ RevokeHook("hook", "receipt") \/ Receipt
  \/ RevokeTest("last", "lasthook", "stop") \/ RevokeHook("lasthook", "stop")
  \/ Stop \/ Cancel \/ Cleanup
  \/ RevokeTest("final", "finalhook", "gone") \/ RevokeHook("finalhook", "gone")

------------------------------------------------------------------------------
(* The signal goroutine.                                                    *)

\* Defect: the key is revoked while the zones may still start.
SignalReceivedLate ==
  /\ Signal("waiting", "remove")
  /\ channel = 1 /\ channel' = 0
  /\ UNCHANGED <<credential, envFile, zone, cancelled, handler, signals, exit, faults>>

\* A signal is received; cancel ends the zones before cleanup revokes.
SignalReceived ==
  /\ Signal("waiting", "remove")
  /\ channel = 1 /\ channel' = 0
  /\ cancelled' = TRUE
  /\ UNCHANGED <<credential, envFile, zone, handler, signals, exit, faults>>

SignalCleanup ==
  /\ Signal("remove", "revoke")
  /\ Removes
  /\ UNCHANGED <<credential, zone, signalling, exit>>

SignalTest ==
  /\ IF Minted /\ ~revoked
     THEN Signal("revoke", "hook") /\ attempts' = attempts + 1
     ELSE Signal("revoke", "raise") /\ UNCHANGED attempts
  /\ UNCHANGED <<key, text, revoked, envFile, zone, signalling, exit, faults>>

SignalHook == Signal("hook", "raise") /\ HookRuns /\ UNCHANGED exit

\* The process sends itself the signal again: it ends where nothing catches
\* signals any more, and else the signal stays in the channel.
SignalRaise ==
  /\ Signal("raise", "done")
  /\ IF handler = "caught" THEN channel' = 1 /\ UNCHANGED exit
     ELSE exit' = "signalled" /\ UNCHANGED channel
  /\ UNCHANGED <<credential, envFile, zone, cancelled, handler, signals, faults>>

Goroutine == SignalReceived \/ SignalCleanup \/ SignalTest \/ SignalHook \/ SignalRaise

------------------------------------------------------------------------------
SignalArrives ==
  /\ exit = "running"
  /\ signals < MaxSignals /\ signals' = signals + 1
  /\ IF handler = "caught" THEN channel' = 1 /\ UNCHANGED exit
     ELSE exit' = "signalled" /\ UNCHANGED channel
  /\ UNCHANGED <<hooks, pc, sig, credential, envFile, zone, cancelled, handler, faults>>

Kill ==
  /\ exit = "running" /\ exit' = "killed"
  /\ Fault
  /\ UNCHANGED <<hooks, pc, sig, credential, envFile, zone, signalling>>

Next == Command \/ Goroutine \/ SignalArrives \/ Kill

Spec == Init /\ [][Next]_vars

\* Both goroutines are scheduled, and the hooks end; a zone need not, unless its
\* context is over.
Prompt   == Command /\ (zone' # "none" \/ zone = "none" \/ cancelled)
FairSpec == Spec /\ WF_vars(Prompt) /\ WF_vars(Goroutine)

------------------------------------------------------------------------------
TypeOK ==
  /\ hooks \in {"none", "both", "mint"}
  /\ pc \in MainSteps /\ sig \in SignalSteps
  /\ key \in {"none", "live", "revoked"}
  /\ text \in {"empty", "plain", "newline"}
  /\ revoked \in BOOLEAN /\ attempts \in 0..2
  /\ envFile \in {"none", "old", "own"}
  /\ zone \in {"none", "exec", "agent"}
  /\ cancelled \in BOOLEAN /\ handler \in {"default", "caught"} /\ channel \in 0..1
  /\ exit \in {"running", "returned", "signalled", "killed"}
  /\ signals \in 0..MaxSignals /\ faults \in 0..MaxFaults

\* However the two goroutines interleave, a command that returns has asked for
\* the revocation of what it minted, and one fault cannot leave the env-file it
\* wrote; where it leaves one of an earlier process, it could not empty the
\* sandbox and minted nothing.
ReturnScrubs ==
  exit = "returned" =>
    /\ Minted => attempts > 0
    /\ envFile = "own" => faults > 1
    /\ envFile = "old" => ~Minted /\ faults > 0

\* The zones use the key only while it is good: none starts once a revocation
\* was asked for, and one that still runs then has lost its context.
NoZoneOnRevokedKey == zone # "none" /\ attempts > 0 => cancelled

\* As soon as a signal was received, the revocation follows, unless the process
\* is killed; the zone that holds the key ends with it.
SignalEndsRun ==
  sig = "remove" ~> \/ zone = "none" /\ (Minted => attempts > 0)
                    \/ exit \in {"signalled", "killed"}

\* A signal that can be caught never ends the process with a live key.
SignalRevokes == exit = "signalled" => key # "live"
=============================================================================
