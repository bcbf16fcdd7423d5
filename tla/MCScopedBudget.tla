--------------------------- MODULE MCScopedBudget ---------------------------
(* Small instances of ScopedBudget for TLC. *)
EXTENDS ScopedBudgetRefinement, TLC

CONSTANTS builder, critic

\* Narrow: the total binds before the phases do.  Wide: one builder call, and a
\* caller whose file raises the total after the scope was pinned, or pins it first.
Narrow == [max |-> 1, limits |-> (builder :> 1) @@ (critic :> 1)]
Wide   == [max |-> 2, limits |-> (builder :> 1) @@ (critic :> 2)]

Phases      == {builder, critic}
OnePolicy   == {Narrow}
TwoPolicies == {Narrow, Wide}
=============================================================================
