----------------------- MODULE ScopedBudgetRefinement -----------------------
(***************************************************************************)
(* The lock-free ledger of ScopedBudget implements CallAllowance.  A call  *)
(* is spent when its record is written, not when its slot is claimed: the  *)
(* slot of a writer that died in between blocks the scope and spends none. *)
(***************************************************************************)
EXTENDS ScopedBudget

Pinned == IF policyFile \in Policy THEN policyFile ELSE NoPolicy

Spent == {[call |-> ledger[s].call, phase |-> ledger[s].phase] :
            s \in {t \in Slots : ledger[t] # Partial}}

Allowance == INSTANCE CallAllowance WITH
  Unpinned <- NoPolicy, pinned <- Pinned, spent <- Spent, launches <- launches

\* Every interleaving of reservations, kills and failed writes looks to the
\* callers like one atomic allowance (scoped_budget.go reserveScopedCall).
ImplementsAllowance == Allowance!AllowanceSpec
=============================================================================
