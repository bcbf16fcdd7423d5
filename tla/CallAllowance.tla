---------------------------- MODULE CallAllowance ----------------------------
(***************************************************************************)
(* What the shared call budget promises to the adapters that use it: one   *)
(* allowance, pinned by its first user, from which calls are spent one at  *)
(* a time.  A call is launched only after it was spent, at most once; a    *)
(* spent call whose caller dies is lost, never refunded.                   *)
(***************************************************************************)
EXTENDS Integers, FiniteSets

CONSTANTS
  CallID, Phase,
  Policy,   \* policies: records [max, limits]
  Unpinned  \* nothing was reserved yet

VARIABLES
  pinned,   \* the policy in force, or Unpinned
  spent,    \* the calls spent so far: records [call, phase]
  launches  \* how often each call was launched

allowanceVars == <<pinned, spent, launches>>

AllowanceInit ==
  /\ pinned = Unpinned
  /\ spent = {}
  /\ launches = [c \in CallID |-> 0]

Pin(q) ==
  /\ pinned = Unpinned
  /\ pinned' = q
  /\ UNCHANGED <<spent, launches>>

Spend(c, ph) ==
  /\ pinned # Unpinned
  /\ ph \in DOMAIN pinned.limits
  /\ \A e \in spent : e.call # c
  /\ Cardinality(spent) < pinned.max
  /\ Cardinality({e \in spent : e.phase = ph}) < pinned.limits[ph]
  /\ spent' = spent \cup {[call |-> c, phase |-> ph]}
  /\ UNCHANGED <<pinned, launches>>

Launch(c) ==
  /\ \E e \in spent : e.call = c
  /\ launches[c] = 0
  /\ launches' = [launches EXCEPT ![c] = 1]
  /\ UNCHANGED <<pinned, spent>>

AllowanceNext ==
  \/ \E q \in Policy : Pin(q)
  \/ \E c \in CallID : Launch(c) \/ \E ph \in Phase : Spend(c, ph)

AllowanceSpec == AllowanceInit /\ [][AllowanceNext]_allowanceVars
=============================================================================
