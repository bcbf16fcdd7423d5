---------------------------- MODULE MCPlainRun -----------------------------
(* Values of the constants of PlainRun for TLC.                             *)
EXTENDS PlainRun, TLC

CONSTANTS w, l, f1, f2, m

OneWorkflow == {w}
OneLegacy   == {l}
TwoFailures == {f1, f2}
OneMember   == {m}
Thresholds  == (w :> 2) @@ (l :> 0)
AnyFailures == Permutations({f1, f2})
==============================================================================
