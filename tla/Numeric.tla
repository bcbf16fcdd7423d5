------------------------------- MODULE Numeric -------------------------------
(***************************************************************************)
(* Numeric progress (cmd/loopexec/numeric.go): what one score observation  *)
(* does to the best accepted score, the patience anchor and the count of   *)
(* reviews without improvement.  Scores are integers: scoreDelta rounds    *)
(* every difference to nine decimals, so a score is a multiple of 1e-9.    *)
(***************************************************************************)
EXTENDS Integers

CONSTANTS
  Sign,           \* 1: direction "maximize", -1: "minimize"
  MinScore,
  MaxScore,
  TargetScore,
  MinImprovement, \* gain over the anchor that resets patience
  Tolerance,      \* acceptance band below the best and the target
  Patience,
  NoScore         \* a nil score

ASSUME ScorePolicyAssumption ==  \* validScorePolicy
  /\ Sign \in {1, -1}
  /\ MinScore \in Int /\ MaxScore \in Int /\ MinScore < MaxScore
  /\ TargetScore \in MinScore..MaxScore
  /\ MinImprovement \in Nat \ {0}
  /\ Tolerance \in Nat
  /\ Patience \in Nat \ {0}
  /\ NoScore \notin Int

Score == MinScore..MaxScore

NumericState == [best: Score \cup {NoScore}, anchor: Score \cup {NoScore}, stale: Nat]
NewNumeric   == [best |-> NoScore, anchor |-> NoScore, stale |-> 0]

\* How much better v is than w.
Gain(v, w) == Sign * (v - w)

\* A valid score report: a veto and a value come only with technical success.
Report == [technical: {TRUE}, veto: BOOLEAN, value: Score]
            \cup {[technical |-> FALSE, veto |-> FALSE, value |-> NoScore]}

Accepts(n, v) == n.best = NoScore \/ Gain(v, n.best) >= -Tolerance
Improves(n, v) == n.anchor = NoScore \/ Gain(v, n.anchor) >= MinImprovement

\* The state after a reviewed, technically valid score.
Reviewed(n, sc) ==
  IF sc.veto THEN [n EXCEPT !.stale = @ + 1]
  ELSE [best   |-> IF n.best = NoScore \/ Gain(sc.value, n.best) > 0
                   THEN sc.value ELSE n.best,
        anchor |-> IF Improves(n, sc.value) THEN sc.value ELSE n.anchor,
        stale  |-> IF Improves(n, sc.value) THEN 0 ELSE n.stale + 1]

\* observe: [state, accept, target, halt]; "none" is the empty halt reason.
Observe(n, sc) ==
  LET next   == IF sc.technical THEN Reviewed(n, sc) ELSE n
      accept == sc.technical /\ ~sc.veto /\ Accepts(n, sc.value)
      target == accept /\ Gain(sc.value, TargetScore) >= -Tolerance
  IN [state  |-> next,
      accept |-> accept,
      target |-> target,
      halt   |-> IF sc.technical /\ next.stale >= Patience /\ ~target
                 THEN "no_progress_detected" ELSE "none"]
=============================================================================
