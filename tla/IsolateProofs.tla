---------------------------- MODULE IsolateProofs ----------------------------
(***************************************************************************)
(* The command and its signal goroutine keep their promises about the key, *)
(* for any number of signals and of failed steps.  Neither goroutine locks *)
(* anything: what makes the invariant inductive is where each of them is.  *)
(***************************************************************************)
EXTENDS Isolate, TLAPS

HookSteps  == {"hook", "lasthook", "finalhook"}
\* Steps of the command after which it starts no zone, reached past "revoke" or "last".
Over       == {"hook", "lasthook", "finalhook", "receipt", "stop", "cancel", "cleanup", "final", "gone"}
\* Steps of the signal goroutine once it has received a signal.
Received   == {"cancel", "remove", "revoke", "hook", "raise", "done"}

Holds(b) == IF b THEN 1 ELSE 0

\* As long as no revoke hook has ended, those that were started are still running.
AttemptsCounted ==
  IF revoked THEN attempts > 0
  ELSE attempts = Holds(pc \in HookSteps) + Holds(sig = "hook")

\* A zone runs only where the command waits for it; the signal goroutine ends the
\* context before it asks for a revocation, the command has passed its zones.
ZonesFirst ==
  /\ zone # "none" => pc = zone
  /\ pc \in {"reset", "mint", "register"} => sig = "none"
  /\ sig \in Received => cancelled
  /\ attempts > 0 => cancelled \/ pc \in Over

\* Who leaves its own env-file where it is has met a fault, at every try; one of
\* an earlier process outlives only a sandbox that could not be emptied.
FileCovered ==
  /\ envFile = "old" => pc = "reset" \/ (pc = "gone" /\ ~Minted /\ faults > 0)
  /\ pc \in {"reset", "mint", "register", "check", "write", "revoke", "hook", "receipt"} => envFile # "own"
  /\ pc \in {"last", "lasthook", "stop", "cancel", "cleanup"} /\ envFile = "own" => faults > 0
  /\ pc \in {"final", "finalhook", "gone"} /\ envFile = "own" => faults > 1

\* What the command knows about the key where it ends.
KeyCovered ==
  /\ pc \in {"reset", "mint"} => ~Minted
  /\ pc = "gone" /\ Minted => attempts > 0
  /\ exit = "returned" => pc = "gone"

IsolateInv == TypeOK /\ AttemptsCounted /\ ZonesFirst /\ FileCovered /\ KeyCovered

------------------------------------------------------------------------------
LEMMA InitKeeps == Init => IsolateInv
  <1> SUFFICES ASSUME Init
               PROVE  IsolateInv
    OBVIOUS
  <1>1. 0 \in 0..MaxSignals /\ 0 \in 0..MaxFaults /\ 0 \in 0..2 /\ 0 \in 0..1
    BY IsolateAssumption
  <1>2. TypeOK
    BY <1>1 DEF Init, TypeOK, MainSteps, SignalSteps
  <1>3. AttemptsCounted /\ ZonesFirst /\ FileCovered /\ KeyCovered
    BY DEF Init, AttemptsCounted, ZonesFirst, FileCovered, KeyCovered, HookSteps, Received, Over, Holds, Minted
  <1> QED
    BY <1>2, <1>3 DEF IsolateInv

\* A fault that is met is counted.
LEMMA FaultCounted ==
  ASSUME TypeOK, Fault \/ NoFault
  PROVE  faults' \in 0..MaxFaults /\ faults' >= faults /\ (Fault => faults' = faults + 1)
  BY IsolateAssumption DEF TypeOK, Fault, NoFault

LEMMA ResetKeeps ==
  ASSUME IsolateInv, Reset
  PROVE  IsolateInv'
  <1> USE DEF IsolateInv, Main, credential, signalling, Reset, Return
  <1>1. TypeOK'
    <2>1. TypeOK /\ (Fault \/ NoFault)
      OBVIOUS
    <2>2. faults' \in 0..MaxFaults
      BY <2>1, FaultCounted
    <2>3. pc' \in MainSteps /\ envFile' \in {"none", "old", "own"} /\ exit' \in {exit, "returned"}
      BY <2>1 DEF TypeOK, MainSteps
    <2>4. UNCHANGED <<hooks, sig, credential, zone, signalling>>
      OBVIOUS
    <2> HIDE DEF IsolateInv, Main, Reset, Return
    <2> QED
      BY <2>1, <2>2, <2>3, <2>4 DEF TypeOK
  <1>2. AttemptsCounted'
    BY DEF AttemptsCounted, HookSteps, Holds, TypeOK, ZonesFirst
  <1>3. ZonesFirst'
    BY DEF ZonesFirst, Received, Over, TypeOK
  <1>4. FileCovered'
    BY FaultCounted DEF FileCovered, Minted, KeyCovered, TypeOK
  <1>5. KeyCovered'
    BY DEF KeyCovered, Minted, AttemptsCounted, HookSteps, Holds, TypeOK
  <1> QED
    BY <1>1, <1>2, <1>3, <1>4, <1>5

LEMMA MintKeeps ==
  ASSUME IsolateInv, Mint
  PROVE  IsolateInv'
  <1> USE DEF IsolateInv, Main, credential, signalling, Mint, Return
  <1>1. TypeOK'
    BY FaultCounted, IsolateAssumption DEF TypeOK, MainSteps, SignalSteps, AttemptsCounted, HookSteps, Holds, Minted
  <1>2. AttemptsCounted'
    BY DEF AttemptsCounted, HookSteps, Holds, TypeOK, ZonesFirst
  <1>3. ZonesFirst'
    BY DEF ZonesFirst, Received, Over, TypeOK
  <1>4. FileCovered'
    BY FaultCounted DEF FileCovered, Minted, KeyCovered, TypeOK
  <1>5. KeyCovered'
    BY DEF KeyCovered, Minted, AttemptsCounted, HookSteps, Holds, TypeOK
  <1> QED
    BY <1>1, <1>2, <1>3, <1>4, <1>5

LEMMA RegisterKeeps ==
  ASSUME IsolateInv, Register
  PROVE  IsolateInv'
  <1> USE DEF IsolateInv, credential, signalling, Register
  <1>1. TypeOK'
    BY IsolateAssumption DEF TypeOK, MainSteps, SignalSteps, AttemptsCounted, HookSteps, Holds, Minted
  <1>2. AttemptsCounted'
    BY DEF AttemptsCounted, HookSteps, Holds, TypeOK, ZonesFirst
  <1>3. ZonesFirst'
    BY DEF ZonesFirst, Received, Over, TypeOK
  <1>4. FileCovered'
    BY DEF FileCovered, Minted, KeyCovered, TypeOK
  <1>5. KeyCovered'
    BY DEF KeyCovered, Minted, AttemptsCounted, HookSteps, Holds, TypeOK
  <1> QED
    BY <1>1, <1>2, <1>3, <1>4, <1>5

LEMMA CheckKeyKeeps ==
  ASSUME IsolateInv, CheckKey
  PROVE  IsolateInv'
  <1> USE DEF IsolateInv, Main, credential, signalling, CheckKey
  <1>1. TypeOK'
    BY IsolateAssumption DEF TypeOK, MainSteps, SignalSteps, AttemptsCounted, HookSteps, Holds, Minted
  <1>2. AttemptsCounted'
    BY DEF AttemptsCounted, HookSteps, Holds, TypeOK, ZonesFirst
  <1>3. ZonesFirst'
    BY DEF ZonesFirst, Received, Over, TypeOK
  <1>4. FileCovered'
    BY DEF FileCovered, Minted, KeyCovered, TypeOK
  <1>5. KeyCovered'
    BY DEF KeyCovered, Minted, AttemptsCounted, HookSteps, Holds, TypeOK
  <1> QED
    BY <1>1, <1>2, <1>3, <1>4, <1>5

LEMMA WriteEnvKeeps ==
  ASSUME IsolateInv, WriteEnv
  PROVE  IsolateInv'
  <1> USE DEF IsolateInv, Main, credential, signalling, WriteEnv
  <1>1. TypeOK'
    <2>1. TypeOK /\ (Fault \/ NoFault)
      OBVIOUS
    <2>2. faults' \in 0..MaxFaults
      BY <2>1, FaultCounted
    <2>3. pc' \in MainSteps /\ envFile' \in {"none", "old", "own"} /\ exit' \in {exit, "returned"}
      BY <2>1 DEF TypeOK, MainSteps
    <2>4. UNCHANGED <<hooks, sig, credential, zone, signalling>>
      OBVIOUS
    <2> HIDE DEF IsolateInv, Main, WriteEnv
    <2> QED
      BY <2>1, <2>2, <2>3, <2>4 DEF TypeOK
  <1>2. AttemptsCounted'
    BY DEF AttemptsCounted, HookSteps, Holds, TypeOK, ZonesFirst
  <1>3. ZonesFirst'
    BY DEF ZonesFirst, Received, Over, TypeOK
  <1>4. FileCovered'
    <2>1. pc' = "stop" => faults' > 0
      BY FaultCounted DEF TypeOK
    <2>2. pc' \in {"exec", "stop"}
      OBVIOUS
    <2> QED
      BY <2>1, <2>2 DEF FileCovered, Minted
  <1>5. KeyCovered'
    BY DEF KeyCovered, Minted, AttemptsCounted, HookSteps, Holds, TypeOK
  <1> QED
    BY <1>1, <1>2, <1>3, <1>4, <1>5

LEMMA ZoneKeeps ==
  ASSUME IsolateInv, NEW z \in {"exec", "agent"}, NEW next \in {"agent", "scrub"}, z = "exec" <=> next = "agent", ZoneStarts(z) \/ ZoneEnds(z, next)
  PROVE  IsolateInv'
  <1> USE DEF IsolateInv, Main, credential, signalling, ZoneStarts, ZoneEnds
  <1>1. TypeOK'
    BY IsolateAssumption DEF TypeOK, MainSteps, SignalSteps, AttemptsCounted, HookSteps, Holds, Minted
  <1>2. AttemptsCounted'
    BY DEF AttemptsCounted, HookSteps, Holds, TypeOK, ZonesFirst
  <1>3. ZonesFirst'
    BY DEF ZonesFirst, Received, Over, TypeOK
  <1>4. FileCovered'
    BY DEF FileCovered, Minted, KeyCovered, TypeOK
  <1>5. KeyCovered'
    BY DEF KeyCovered, Minted, AttemptsCounted, HookSteps, Holds, TypeOK
  <1> QED
    BY <1>1, <1>2, <1>3, <1>4, <1>5

LEMMA ScrubKeeps ==
  ASSUME IsolateInv, Scrub
  PROVE  IsolateInv'
  <1> USE DEF IsolateInv, Main, credential, signalling, Scrub
  <1>1. TypeOK'
    <2>1. TypeOK /\ (Fault \/ NoFault)
      OBVIOUS
    <2>2. faults' \in 0..MaxFaults
      BY <2>1, FaultCounted
    <2>3. pc' \in MainSteps /\ envFile' \in {"none", "old", "own"} /\ exit' \in {exit, "returned"}
      BY <2>1 DEF TypeOK, MainSteps
    <2>4. UNCHANGED <<hooks, sig, credential, zone, signalling>>
      OBVIOUS
    <2> HIDE DEF IsolateInv, Main, Scrub
    <2> QED
      BY <2>1, <2>2, <2>3, <2>4 DEF TypeOK
  <1>2. AttemptsCounted'
    BY DEF AttemptsCounted, HookSteps, Holds, TypeOK, ZonesFirst
  <1>3. ZonesFirst'
    BY DEF ZonesFirst, Received, Over, TypeOK
  <1>4. FileCovered'
    BY FaultCounted DEF FileCovered, Minted, KeyCovered, TypeOK
  <1>5. KeyCovered'
    BY DEF KeyCovered, Minted, AttemptsCounted, HookSteps, Holds, TypeOK
  <1> QED
    BY <1>1, <1>2, <1>3, <1>4, <1>5

LEMMA RevokeTestKeeps ==
  ASSUME IsolateInv, NEW from, NEW hook, NEW next,
         <<from, hook, next>> \in {<<"revoke", "hook", "receipt">>, <<"last", "lasthook", "stop">>, <<"final", "finalhook", "gone">>}, RevokeTest(from, hook, next)
  PROVE  IsolateInv'
  <1> USE DEF IsolateInv, Main, credential, signalling, RevokeTest
  <1>1. TypeOK'
    BY IsolateAssumption DEF TypeOK, MainSteps, SignalSteps, AttemptsCounted, HookSteps, Holds, Minted
  <1>2. AttemptsCounted'
    BY DEF AttemptsCounted, HookSteps, Holds, TypeOK, ZonesFirst
  <1>3. ZonesFirst'
    BY DEF ZonesFirst, Received, Over, TypeOK
  <1>4. FileCovered'
    BY DEF FileCovered, Minted, KeyCovered, TypeOK
  <1>5. KeyCovered'
    BY DEF KeyCovered, Minted, AttemptsCounted, HookSteps, Holds, TypeOK
  <1> QED
    BY <1>1, <1>2, <1>3, <1>4, <1>5

LEMMA RevokeHookKeeps ==
  ASSUME IsolateInv, NEW hook, NEW next,
         <<hook, next>> \in {<<"hook", "receipt">>, <<"lasthook", "stop">>, <<"finalhook", "gone">>}, RevokeHook(hook, next)
  PROVE  IsolateInv'
  <1> USE DEF IsolateInv, Main, credential, signalling, RevokeHook, HookRuns
  <1>1. TypeOK'
    BY FaultCounted, IsolateAssumption DEF TypeOK, MainSteps, SignalSteps, AttemptsCounted, HookSteps, Holds, Minted
  <1>2. AttemptsCounted'
    BY DEF AttemptsCounted, HookSteps, Holds, TypeOK, ZonesFirst
  <1>3. ZonesFirst'
    BY DEF ZonesFirst, Received, Over, TypeOK
  <1>4. FileCovered'
    BY FaultCounted DEF FileCovered, Minted, KeyCovered, TypeOK
  <1>5. KeyCovered'
    BY DEF KeyCovered, Minted, AttemptsCounted, HookSteps, Holds, TypeOK
  <1> QED
    BY <1>1, <1>2, <1>3, <1>4, <1>5

LEMMA ReceiptKeeps ==
  ASSUME IsolateInv, Receipt
  PROVE  IsolateInv'
  <1> USE DEF IsolateInv, Main, credential, signalling, Receipt
  <1>1. TypeOK'
    BY FaultCounted, IsolateAssumption DEF TypeOK, MainSteps, SignalSteps, AttemptsCounted, HookSteps, Holds, Minted
  <1>2. AttemptsCounted'
    BY DEF AttemptsCounted, HookSteps, Holds, TypeOK, ZonesFirst
  <1>3. ZonesFirst'
    BY DEF ZonesFirst, Received, Over, TypeOK
  <1>4. FileCovered'
    BY FaultCounted DEF FileCovered, Minted, KeyCovered, TypeOK
  <1>5. KeyCovered'
    BY DEF KeyCovered, Minted, AttemptsCounted, HookSteps, Holds, TypeOK
  <1> QED
    BY <1>1, <1>2, <1>3, <1>4, <1>5

LEMMA StopKeeps ==
  ASSUME IsolateInv, Stop \/ Cancel
  PROVE  IsolateInv'
  <1> USE DEF IsolateInv, Main, credential, signalling, Stop, Cancel
  <1>1. TypeOK'
    BY IsolateAssumption DEF TypeOK, MainSteps, SignalSteps, AttemptsCounted, HookSteps, Holds, Minted
  <1>2. AttemptsCounted'
    BY DEF AttemptsCounted, HookSteps, Holds, TypeOK, ZonesFirst
  <1>3. ZonesFirst'
    BY DEF ZonesFirst, Received, Over, TypeOK
  <1>4. FileCovered'
    BY DEF FileCovered, Minted, KeyCovered, TypeOK
  <1>5. KeyCovered'
    BY DEF KeyCovered, Minted, AttemptsCounted, HookSteps, Holds, TypeOK
  <1> QED
    BY <1>1, <1>2, <1>3, <1>4, <1>5

LEMMA CleanupKeeps ==
  ASSUME IsolateInv, Cleanup
  PROVE  IsolateInv'
  <1> USE DEF IsolateInv, Main, credential, signalling, Cleanup, Removes
  <1>1. TypeOK'
    <2>1. faults' \in 0..MaxFaults /\ envFile' \in {"none", "old", "own"}
      BY FaultCounted DEF TypeOK
    <2> QED
      BY <2>1 DEF TypeOK, MainSteps, SignalSteps
  <1>2. AttemptsCounted'
    BY DEF AttemptsCounted, HookSteps, Holds, TypeOK, ZonesFirst
  <1>3. ZonesFirst'
    BY DEF ZonesFirst, Received, Over, TypeOK
  <1>4. FileCovered'
    BY FaultCounted DEF FileCovered, Minted, KeyCovered, TypeOK
  <1>5. KeyCovered'
    BY DEF KeyCovered, Minted, AttemptsCounted, HookSteps, Holds, TypeOK
  <1> QED
    BY <1>1, <1>2, <1>3, <1>4, <1>5

LEMMA SignalReceivedKeeps ==
  ASSUME IsolateInv, SignalReceived
  PROVE  IsolateInv'
  <1> USE DEF IsolateInv, Signal, credential, signalling, SignalReceived
  <1>1. TypeOK'
    BY IsolateAssumption DEF TypeOK, MainSteps, SignalSteps, AttemptsCounted, HookSteps, Holds, Minted
  <1>2. AttemptsCounted'
    BY DEF AttemptsCounted, HookSteps, Holds, TypeOK, ZonesFirst
  <1>3. ZonesFirst'
    BY DEF ZonesFirst, Received, Over, TypeOK
  <1>4. FileCovered'
    BY DEF FileCovered, Minted, KeyCovered, TypeOK
  <1>5. KeyCovered'
    BY DEF KeyCovered, Minted, AttemptsCounted, HookSteps, Holds, TypeOK
  <1> QED
    BY <1>1, <1>2, <1>3, <1>4, <1>5

LEMMA SignalCleanupKeeps ==
  ASSUME IsolateInv, SignalCleanup
  PROVE  IsolateInv'
  <1> USE DEF IsolateInv, Signal, credential, signalling, SignalCleanup, Removes
  <1>1. TypeOK'
    <2>1. faults' \in 0..MaxFaults /\ envFile' \in {"none", "old", "own"}
      BY FaultCounted DEF TypeOK
    <2> QED
      BY <2>1 DEF TypeOK, MainSteps, SignalSteps
  <1>2. AttemptsCounted'
    BY DEF AttemptsCounted, HookSteps, Holds, TypeOK, ZonesFirst
  <1>3. ZonesFirst'
    BY DEF ZonesFirst, Received, Over, TypeOK
  <1>4. FileCovered'
    BY FaultCounted DEF FileCovered, Minted, KeyCovered, TypeOK
  <1>5. KeyCovered'
    BY DEF KeyCovered, Minted, AttemptsCounted, HookSteps, Holds, TypeOK
  <1> QED
    BY <1>1, <1>2, <1>3, <1>4, <1>5

LEMMA SignalTestKeeps ==
  ASSUME IsolateInv, SignalTest
  PROVE  IsolateInv'
  <1> USE DEF IsolateInv, Signal, credential, signalling, SignalTest
  <1>1. TypeOK'
    BY IsolateAssumption DEF TypeOK, MainSteps, SignalSteps, AttemptsCounted, HookSteps, Holds, Minted
  <1>2. AttemptsCounted'
    BY DEF AttemptsCounted, HookSteps, Holds, TypeOK, ZonesFirst
  <1>3. ZonesFirst'
    BY DEF ZonesFirst, Received, Over, TypeOK
  <1>4. FileCovered'
    BY DEF FileCovered, Minted, KeyCovered, TypeOK
  <1>5. KeyCovered'
    BY DEF KeyCovered, Minted, AttemptsCounted, HookSteps, Holds, TypeOK
  <1> QED
    BY <1>1, <1>2, <1>3, <1>4, <1>5

LEMMA SignalHookKeeps ==
  ASSUME IsolateInv, SignalHook
  PROVE  IsolateInv'
  <1> USE DEF IsolateInv, Signal, credential, signalling, SignalHook, HookRuns
  <1>1. TypeOK'
    BY FaultCounted, IsolateAssumption DEF TypeOK, MainSteps, SignalSteps, AttemptsCounted, HookSteps, Holds, Minted
  <1>2. AttemptsCounted'
    BY DEF AttemptsCounted, HookSteps, Holds, TypeOK, ZonesFirst
  <1>3. ZonesFirst'
    BY DEF ZonesFirst, Received, Over, TypeOK
  <1>4. FileCovered'
    BY FaultCounted DEF FileCovered, Minted, KeyCovered, TypeOK
  <1>5. KeyCovered'
    BY DEF KeyCovered, Minted, AttemptsCounted, HookSteps, Holds, TypeOK
  <1> QED
    BY <1>1, <1>2, <1>3, <1>4, <1>5

LEMMA SignalRaiseKeeps ==
  ASSUME IsolateInv, SignalRaise \/ SignalArrives
  PROVE  IsolateInv'
  <1> USE DEF IsolateInv, Signal, credential, signalling, SignalRaise, SignalArrives
  <1>1. TypeOK'
    BY IsolateAssumption DEF TypeOK, MainSteps, SignalSteps, AttemptsCounted, HookSteps, Holds, Minted
  <1>2. AttemptsCounted'
    BY DEF AttemptsCounted, HookSteps, Holds, TypeOK, ZonesFirst
  <1>3. ZonesFirst'
    BY DEF ZonesFirst, Received, Over, TypeOK
  <1>4. FileCovered'
    BY DEF FileCovered, Minted, KeyCovered, TypeOK
  <1>5. KeyCovered'
    BY DEF KeyCovered, Minted, AttemptsCounted, HookSteps, Holds, TypeOK
  <1> QED
    BY <1>1, <1>2, <1>3, <1>4, <1>5

LEMMA KillKeeps ==
  ASSUME IsolateInv, Kill
  PROVE  IsolateInv'
  <1> USE DEF IsolateInv, credential, signalling, Kill
  <1>1. TypeOK'
    BY FaultCounted, IsolateAssumption DEF TypeOK, MainSteps, SignalSteps, AttemptsCounted, HookSteps, Holds, Minted
  <1>2. AttemptsCounted'
    BY DEF AttemptsCounted, HookSteps, Holds, TypeOK, ZonesFirst
  <1>3. ZonesFirst'
    BY DEF ZonesFirst, Received, Over, TypeOK
  <1>4. FileCovered'
    BY FaultCounted DEF FileCovered, Minted, KeyCovered, TypeOK
  <1>5. KeyCovered'
    BY DEF KeyCovered, Minted, AttemptsCounted, HookSteps, Holds, TypeOK
  <1> QED
    BY <1>1, <1>2, <1>3, <1>4, <1>5

LEMMA StepKeeps == IsolateInv /\ [Next]_vars => IsolateInv'
  <1> SUFFICES ASSUME IsolateInv, [Next]_vars
               PROVE  IsolateInv'
    OBVIOUS
  <1>1. CASE Command
    BY <1>1, ResetKeeps, MintKeeps, RegisterKeeps, CheckKeyKeeps, WriteEnvKeeps, ZoneKeeps, ScrubKeeps,
       RevokeTestKeeps, RevokeHookKeeps, ReceiptKeeps, StopKeeps, CleanupKeeps DEF Command
  <1>2. CASE Goroutine
    BY <1>2, SignalReceivedKeeps, SignalCleanupKeeps, SignalTestKeeps, SignalHookKeeps, SignalRaiseKeeps
       DEF Goroutine
  <1>3. CASE SignalArrives \/ Kill
    BY <1>3, SignalRaiseKeeps, KillKeeps
  <1>4. CASE UNCHANGED vars
    <2>1. UNCHANGED <<hooks, pc, sig, key, text, revoked, attempts, envFile, zone, cancelled, handler,
                      channel, signals, exit, faults>>
      BY <1>4 DEF vars, credential, signalling
    <2>2. TypeOK'
      BY <2>1 DEF IsolateInv, TypeOK
    <2>3. AttemptsCounted' /\ ZonesFirst' /\ FileCovered' /\ KeyCovered'
      BY <2>1 DEF IsolateInv, AttemptsCounted, ZonesFirst, FileCovered, KeyCovered, Minted
    <2> QED
      BY <2>2, <2>3 DEF IsolateInv
  <1> QED
    BY <1>1, <1>2, <1>3, <1>4 DEF Next

------------------------------------------------------------------------------
\* What the command and its signal goroutine (isolate.go, cleanup and revoke) know
\* of each other at every step.
THEOREM IsolateCorrect == Spec => []IsolateInv
  <1> QED
    BY InitKeeps, StepKeeps, PTL DEF Spec

\* The variables keep their types: at most two revoke hooks are ever started.
THEOREM IsolateTypes == Spec => []TypeOK
  <1>1. IsolateInv => TypeOK
    BY DEF IsolateInv
  <1> QED
    BY <1>1, IsolateCorrect, PTL

\* A command that returns has asked for the revocation, one fault cannot leave the
\* env-file it wrote, and one of an earlier process stays only where the sandbox
\* could not be emptied and nothing was minted (isolate.go, cleanup and its defer).
THEOREM Scrubbed == Spec => []ReturnScrubs
  <1>1. IsolateInv => ReturnScrubs
    BY DEF IsolateInv, FileCovered, KeyCovered, ReturnScrubs
  <1> QED
    BY <1>1, IsolateCorrect, PTL

\* No zone that may still start, and none that keeps its context, holds a key whose
\* revocation was asked for.
THEOREM ZonesHoldGoodKeys == Spec => []NoZoneOnRevokedKey
  <1>1. IsolateInv => NoZoneOnRevokedKey
    BY DEF IsolateInv, TypeOK, ZonesFirst, Over, NoZoneOnRevokedKey
  <1> QED
    BY <1>1, IsolateCorrect, PTL
==============================================================================
