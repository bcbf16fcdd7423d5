----------------------------- MODULE MCBudgetBook -----------------------------
(* A small instance of BudgetBook for TLC: two calls in an iteration, and a *)
(* book that is too long when both iterations have both.                    *)
EXTENDS BudgetBook

Setting(mode, reserve, cap, maxCalls) ==
  [mode |-> mode, reserve |-> reserve, cap |-> cap, maxCalls |-> maxCalls]

\* Every kind of metering; the allowance is less than two full iterations, and
\* the largest integer is just above it.
Modes == {Setting("strict", TRUE, 2, 3), Setting("observed", FALSE, 2, 0),
          Setting("observed", TRUE, 2, 0), Setting("unmetered", TRUE, 0, 0)}
=============================================================================
