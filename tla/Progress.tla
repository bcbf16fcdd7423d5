------------------------------ MODULE Progress ------------------------------
(***************************************************************************)
(* The progress tracker of a run over a failing set (cmd/loopexec,         *)
(* progress.go), and what it is supposed to compute from the sets that it  *)
(* was shown.  The hash of a set stands for the set.                       *)
(***************************************************************************)
EXTENDS Integers, Sequences, FiniteSets

NoProgress  == "no_progress_detected"
Oscillation == "oscillation_detected"
Regression  == "same_test_regressed"
Progressing == "none"  \* the empty halt reason

\* bestIter and lastBestIter are always set together, and so are one field.
NewTracker == [started |-> FALSE, initialSize |-> 0, bestSize |-> 0, bestIter |-> 0,
               everImproved |-> FALSE, resolved |-> {}, prev |-> {}, seen |-> {}]

First(t, iter, F) ==
  [t EXCEPT !.started = TRUE, !.initialSize = Cardinality(F), !.bestSize = Cardinality(F),
            !.bestIter = iter, !.seen = {F}, !.prev = F]

Returned(t, F) == F \intersect t.resolved # {}

\* Defect: an equal size counts as progress.
ImprovesOrHolds(t, F) == Cardinality(F) <= t.bestSize

Improves(t, F) == Cardinality(F) < t.bestSize

Ratchet(t, iter, F) ==
  [t EXCEPT !.seen = @ \union {F}, !.resolved = @ \union (t.prev \ F), !.prev = F,
            !.bestSize = IF Improves(t, F) THEN Cardinality(F) ELSE @,
            !.bestIter = IF Improves(t, F) THEN iter ELSE @,
            !.everImproved = @ \/ (Improves(t, F) /\ Cardinality(F) < t.initialSize)]

\* observe: the tracker after the failing set of an iteration ...
Observe(t, iter, F) ==
  IF ~t.started          THEN First(t, iter, F)
  ELSE IF F \in t.seen   THEN t
  ELSE IF Returned(t, F) THEN [t EXCEPT !.seen = @ \union {F}]
  ELSE Ratchet(t, iter, F)

\* ... and the halt reason that it computes from it.
Verdict(t, iter, F, k) ==
  IF ~t.started          THEN Progressing
  ELSE IF F \in t.seen   THEN Oscillation
  ELSE IF Returned(t, F) THEN Regression
  ELSE IF iter - Ratchet(t, iter, F).bestIter >= k THEN NoProgress
  ELSE Progressing

------------------------------------------------------------------------------
(* The verdict as a property of all the sets shown, in order: records of an *)
(* iteration and its set.                                                   *)

Size(h, j) == Cardinality(h[j].F)

Repeats(h) == \E j \in 1..Len(h) - 1 : h[j].F = h[Len(h)].F

Regresses(h) ==
  \E j, m \in 1..Len(h) - 1 :
    j < m /\ (h[j].F \ h[m].F) \intersect h[Len(h)].F # {}

Leads(h, j) == \A m \in 1..j - 1 : Size(h, j) < Size(h, m)

Stalls(h, k) == \A j \in 1..Len(h) : Leads(h, j) => h[Len(h)].iter - h[j].iter >= k

VerdictOf(h, k) ==
  IF Repeats(h)        THEN Oscillation
  ELSE IF Regresses(h) THEN Regression
  ELSE IF Stalls(h, k) THEN NoProgress
  ELSE Progressing

Improved(h) == \E j \in 1..Len(h) : Size(h, j) < Size(h, 1)
==============================================================================
