------------------------------ MODULE MCGovernor ------------------------------
(* Small instances of Governor for TLC: scores 0..2, target 2, tolerance 1. *)
EXTENDS Governor, TLC

CONSTANTS c0, c1

Two == {c0, c1}

\* Without a baseline, hooks may write the candidate; with one, they may not.
Scored    == {[score |-> TRUE,  baseline |-> FALSE, meddling |-> FALSE]}
Ordinary  == {[score |-> TRUE,  baseline |-> TRUE,  meddling |-> FALSE],
              [score |-> FALSE, baseline |-> FALSE, meddling |-> TRUE]}
Baselined == {[score |-> TRUE,  baseline |-> TRUE,  meddling |-> FALSE]}
Unscored  == {[score |-> FALSE, baseline |-> FALSE, meddling |-> FALSE]}
=============================================================================
