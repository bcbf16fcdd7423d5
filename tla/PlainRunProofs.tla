---------------------------- MODULE PlainRunProofs ----------------------------
(***************************************************************************)
(* The loop of a run without a candidate, for every set of runs, failures  *)
(* and members, every limit, and any number of governors, kills, failed    *)
(* writes, acks and escalations.                                           *)
(*                                                                         *)
(* PlainRunInv is inductive.  Its parts follow the properties: what the    *)
(* tracker remembers of the sets it was shown (Tracks), how far a copy of  *)
(* the state may be behind (Copies, Saved), what a success stands for      *)
(* (Succeeds), and what a kill may forget of the debt (Debts).             *)
(***************************************************************************)
EXTENDS PlainRun, FiniteSetTheorems, SequenceTheorems, TLAPS

Success == "success_condition_met"

\* Where the governor is: its first save and the baseline; the loop up to a
\* verdict; and so whether it will judge again.
Saving  == pc \in {"save", "point"}
Opening == (Saving /\ then = "baseline") \/ pc = "baseline"
Working == (Saving /\ then = "exec") \/ pc \in {"exec", "members", "check", "judge"}
Judging == Opening \/ Working \/ (pc = "loop" /\ halt = "none")
Ending  == Saving /\ then = "answer"

Shown == [iter : Nat, F : SUBSET Failures, said : Reasons]

Trackers ==
  [started : BOOLEAN, initialSize : Nat, bestSize : Nat, bestIter : Nat, everImproved : BOOLEAN,
   resolved : SUBSET Failures, prev : SUBSET Failures, seen : SUBSET SUBSET Failures]

MoreTypes ==
  /\ tracker \in Trackers /\ history \in Seq(Shown)
  /\ prior \in Reasons \union {None} /\ ops \in Nat /\ faults \in Nat
  /\ initial \in [RunID -> SUBSET Surface] /\ missing \in SUBSET Surface
  /\ unread \in [RunID -> Nat] /\ resumes \in [RunID -> Nat]

\* The memory of the governor is there while it runs.
Lives ==
  /\ pc = "off" <=> st = None
  /\ pc = "off" =>
       tracker = NewTracker /\ surface = None /\ prior = None /\ halt = "none" /\ lost = FALSE
  /\ pc # "off" => st.start = starts /\ answer = None
  /\ Saving => then \in {"baseline", "exec", "count", "answer"}
  /\ Judging => halt = "none"
  /\ Working => st.iter >= 1
  /\ answer # None => answer.run \in RunID
  /\ op # None => ops > 0

\* What a tracker holds of the sets that it was shown.
Summary(t, h) ==
  IF h = <<>> THEN t = NewTracker
  ELSE
    /\ t.started /\ t.prev = h[Len(h)].F
    /\ \A F \in SUBSET Failures : F \in t.seen <=> \E j \in 1..Len(h) : h[j].F = F
    /\ \A f \in Failures :
         f \in t.resolved <=> \E j, n \in 1..Len(h) : j < n /\ f \in h[j].F \ h[n].F
    /\ \E b \in 1..Len(h) :
         /\ Leads(h, b) /\ \A j \in 1..Len(h) : Size(h, b) <= Size(h, j)
         /\ t.bestSize = Size(h, b) /\ t.bestIter = h[b].iter
    /\ t.initialSize = Size(h, 1)
    /\ t.everImproved => t.bestSize < t.initialSize

Tracks ==
  /\ Opening => history = <<>>
  /\ pc # "off" /\ halt = "none" => Summary(tracker, history)
  /\ pc # "off" => \A j \in 1..Len(history) : history[j].iter <= st.iter
  /\ Working => \A j \in 1..Len(history) : history[j].iter < st.iter
  /\ \A j, n \in 1..Len(history) : j < n => history[j].iter < history[n].iter
  /\ pc # "off" /\ history # <<>> => st.ever = tracker.everImproved
  /\ history # <<>> /\ tracker.everImproved => Improved(history)

\* A copy that was read or written before.
Behind(c, s) ==
  \/ c.start < s.start
  \/ c.start = s.start /\ c.save < s.save
  \/ c.start = s.start /\ c.save = s.save /\ attestVerifies(c, s)

Copies ==
  /\ latest # None => saved[latest.run] # None /\ Behind(latest, saved[latest.run])
  /\ op # None => saved[op.run] # None /\ Behind(op, saved[op.run])

\* What is saved of each run, and of the run under way.
Saved ==
  /\ \A r \in RunID : saved[r] # None =>
       /\ saved[r].run = r /\ saved[r].start <= starts
       /\ saved[r].base \in {None, initial[r]}
       /\ pc # "off" /\ saved[r].start = starts => r = st.run
  /\ pc = "point" => saved[st.run] = Written(st)
  /\ pc # "off" =>
       /\ saved[st.run] # None /\ saved[st.run].start = starts =>
            /\ pc # "point" => saved[st.run].save <= st.save
            /\ ~(pc = "point" /\ Ending) /\ pc # "answer" => saved[st.run].halt = "none"
       /\ st.base \in {None, initial[st.run]}
       /\ st.halt = IF Ending \/ pc = "answer" THEN halt ELSE "none"
  /\ pc \in {"baseline", "loop", "exec", "members", "check", "judge", "count"}
        \/ (Saving /\ then \in {"exec", "count"}) =>
       saved[st.run] # None /\ saved[st.run].start = starts
  /\ pc = "answer" =>
       /\ saved[st.run] # None /\ saved[st.run].start = starts /\ saved[st.run].halt = halt
       /\ ops = 0 => latest = saved[st.run]
  /\ Opening /\ ~Resumed => st.base = None
  /\ pc = "baseline" /\ ~Resumed => saved[st.run].base = None
  /\ Working \/ pc \in {"loop", "count"} \/ (Saving /\ then = "count") =>
       surface = initial[st.run]

\* What success stands for.
Succeeded(s) ==
  /\ s.rc = 0 /\ s.fp = s.iter /\ s.fp # 0
  /\ workspace.run = s.run => workspace.iter = s.iter

Succeeds ==
  /\ \A r \in RunID : saved[r] # None /\ saved[r].halt = Success => Succeeded(saved[r])
  /\ halt = Success => Succeeded(st) /\ initial[st.run] \intersect missing = {}
  /\ Opening /\ prior = Success => Succeeded(st)
  /\ pc \in {"members", "check", "judge"} => workspace = [run |-> st.run, iter |-> st.iter]
  /\ pc \in {"check", "judge"} => initial[st.run] \intersect missing = {}
  /\ pc = "judge" => st.fp = st.iter

\* A kill forgets what was judged after the last save.
Debts ==
  /\ \A r \in RunID : saved[r] # None => unread[r] <= saved[r].debt + resumes[r] + 1
  /\ pc \in {"exec", "members", "check", "judge"} => saved[st.run].debt = st.debt
  /\ pc # "off" =>
       /\ unread[st.run] <= st.debt + resumes[st.run] + 1
       /\ Judging => unread[st.run] <= st.debt + resumes[st.run]
       /\ Judging /\ ComprehensionEvery[st.run] > 0 =>
            unread[st.run] < ComprehensionEvery[st.run] + resumes[st.run]

\* What the records of the last governor say of it.
Earns ==
  \A r \in RunID : saved[r] # None /\ saved[r].start = starts =>
    /\ saved[r].halt = Success => initial[r] \intersect missing = {}
    /\ saved[r].halt # "none" /\ saved[r].ever /\ history # <<>> => Improved(history)

Answered ==
  answer # None /\ answer.code # 50 =>
    /\ saved[answer.run] # None /\ saved[answer.run].start = starts
    /\ haltExitCode(saved[answer.run].halt) = answer.code
    /\ ops = 0 => latest = saved[answer.run]

PlainRunInv ==
  /\ TypeOK /\ MoreTypes /\ Lives /\ Tracks /\ Copies /\ Saved /\ Succeeds /\ Debts
  /\ Earns /\ Answered /\ TrackerMeetsHistory /\ DebtBounds

------------------------------------------------------------------------------
(* Failing sets and records.                                                *)

LEMMA Sizes ==
  /\ Cardinality({}) = 0
  /\ \A F \in SUBSET Failures : Cardinality(F) \in Nat
<1>1. IsFiniteSet(Failures)
  BY PlainRunAssumption
<1>2. ASSUME NEW F \in SUBSET Failures  PROVE Cardinality(F) \in Nat
  <2>1. IsFiniteSet(F)
    BY <1>1, FS_Subset
  <2> QED  BY <2>1, FS_CardinalityType
<1> QED  BY <1>2, FS_EmptySet

LEMMA Limits ==
  /\ MaxIterations \in Nat \ {0} /\ NoProgressK \in Nat \ {0}
  /\ MaxStarts \in Nat /\ MaxTrouble \in Nat /\ ComprehensionEvery \in [RunID -> Nat]
  /\ None \notin RunID /\ None \notin LoopState /\ None \notin Reasons
  /\ \A members \in SUBSET Surface : members # None
BY PlainRunAssumption, NoneIsNoState

\* What is written is the state in memory, numbered.
LEMMA WrittenState ==
  ASSUME NEW s \in LoopState
  PROVE  /\ Written(s) \in LoopState /\ Written(s) # None /\ s # None
         /\ Written(s).run = s.run /\ Written(s).start = s.start /\ Written(s).save = s.save + 1
         /\ Written(s).iter = s.iter /\ Written(s).rc = s.rc /\ Written(s).fp = s.fp
         /\ Written(s).halt = s.halt /\ Written(s).ever = s.ever /\ Written(s).debt = s.debt
         /\ Written(s).base \in {None, s.base}
<1>1. Written(s) \in LoopState
  <2>1. s.save + 1 \in Nat
    BY DEF LoopState
  <2>2. (IF s.base = {} THEN None ELSE s.base) \in (SUBSET Surface) \union {None}
    BY DEF LoopState
  <2> QED  BY <2>1, <2>2 DEF Written, LoopState
<1>2. Written(s) # None /\ s # None
  BY <1>1, Limits
<1> QED  BY <1>1, <1>2 DEF Written, LoopState

\* The last number of a save is the only change that a failed save makes to the state.
LEMMA SavedState ==
  ASSUME NEW s \in LoopState, NEW t, t = [s EXCEPT !.save = @ + 1]
  PROVE  /\ t \in LoopState /\ t # None /\ t.save = s.save + 1 /\ s.save \in Nat
         /\ t.run = s.run /\ t.start = s.start /\ t.iter = s.iter /\ t.rc = s.rc /\ t.fp = s.fp
         /\ t.halt = s.halt /\ t.ever = s.ever /\ t.debt = s.debt /\ t.base = s.base
<1>1. t \in LoopState
  BY DEF LoopState
<1>2. t # None
  BY <1>1, Limits
<1> QED  BY <1>1, <1>2 DEF LoopState

------------------------------------------------------------------------------
(* The tracker against the history.                                         *)

LEMMA ObserveType ==
  ASSUME NEW t \in Trackers, NEW iter \in Nat, NEW F \in SUBSET Failures
  PROVE  /\ Observe(t, iter, F) \in Trackers
         /\ (t.bestSize \in 0..t.initialSize /\ t.prev \in t.seen \union {{}}) =>
              /\ Observe(t, iter, F).bestSize \in 0..Observe(t, iter, F).initialSize
              /\ Observe(t, iter, F).prev \in Observe(t, iter, F).seen \union {{}}
<1>1. Cardinality(F) \in Nat
  BY Sizes
<1>2. First(t, iter, F) \in Trackers /\ Ratchet(t, iter, F) \in Trackers
  BY <1>1 DEF First, Ratchet, Improves, Trackers
<1>3. [t EXCEPT !.seen = @ \union {F}] \in Trackers
  BY DEF Trackers
<1>4. Observe(t, iter, F) \in
        {First(t, iter, F), t, [t EXCEPT !.seen = @ \union {F}], Ratchet(t, iter, F)}
  BY DEF Observe
<1>5. /\ First(t, iter, F).bestSize \in 0..First(t, iter, F).initialSize
      /\ First(t, iter, F).prev \in First(t, iter, F).seen
  BY <1>1 DEF First, Trackers
<1>6. ASSUME t.bestSize \in 0..t.initialSize
      PROVE  Ratchet(t, iter, F).bestSize \in 0..Ratchet(t, iter, F).initialSize
  BY <1>1, <1>6 DEF Ratchet, Improves, Trackers
<1>7. Ratchet(t, iter, F).prev \in Ratchet(t, iter, F).seen
  BY DEF Ratchet, Trackers
<1>8. DEFINE u == [t EXCEPT !.seen = @ \union {F}]
<1>9. u.bestSize = t.bestSize /\ u.initialSize = t.initialSize /\ u.prev = t.prev
      /\ u.seen = t.seen \union {F}
  BY DEF Trackers
<1> HIDE DEF u
<1> QED  BY <1>2, <1>3, <1>4, <1>5, <1>6, <1>7, <1>9 DEF u

\* A history and one more set.
Extended(h, e, g) ==
  /\ Len(h) \in Nat /\ g \in Seq(Shown) /\ g # <<>> /\ Len(g) = Len(h) + 1
  /\ \A j \in 1..Len(h) :
       /\ g[j] = h[j] /\ h[j] \in Shown /\ h[j].F \in SUBSET Failures /\ h[j].iter \in Nat
       /\ Size(g, j) = Size(h, j) /\ Size(h, j) \in Nat
  /\ g[Len(g)] = e /\ Size(g, Len(g)) = Cardinality(e.F) /\ Cardinality(e.F) \in Nat
  /\ h = <<>> <=> Len(h) = 0

LEMMA Shows ==
  ASSUME NEW h \in Seq(Shown), NEW e \in Shown, NEW g, g = Append(h, e)
  PROVE  Extended(h, e, g)
<1>1. e.F \in SUBSET Failures
  BY DEF Shown
<1>2. /\ Len(h) \in Nat /\ g \in Seq(Shown) /\ g # <<>> /\ Len(g) = Len(h) + 1
      /\ \A j \in 1..Len(h) : g[j] = h[j] /\ h[j] \in Shown
      /\ g[Len(g)] = e
      /\ h = <<>> <=> Len(h) = 0
  BY AppendProperties, ElementOfSeq, LenProperties, EmptySeq
<1>3. \A j \in 1..Len(h) : h[j].F \in SUBSET Failures /\ h[j].iter \in Nat
  BY <1>2 DEF Shown
<1> QED  BY <1>1, <1>2, <1>3, Sizes DEF Size, Extended

LEMMA SummaryImproves ==
  ASSUME NEW t \in Trackers, NEW h \in Seq(Shown), Summary(t, h), t.everImproved
  PROVE  Improved(h)
<1>1. h # <<>>
  BY DEF Summary, NewTracker
<1>2. PICK b \in 1..Len(h) : t.bestSize = Size(h, b)
  BY <1>1 DEF Summary
<1> QED  BY <1>1, <1>2 DEF Summary, Improved

\* The ratchet keeps the summary.
LEMMA RatchetFits ==
  ASSUME NEW t \in Trackers, NEW h \in Seq(Shown), h # <<>>, Summary(t, h),
         NEW iter \in Nat, NEW F \in SUBSET Failures, NEW e \in Shown, e.iter = iter, e.F = F,
         NEW g, g = Append(h, e)
  PROVE  Summary(Ratchet(t, iter, F), g)
<1> DEFINE u == Ratchet(t, iter, F)
<1>1. /\ Len(h) \in Nat /\ Len(h) >= 1 /\ g # <<>> /\ Len(g) = Len(h) + 1
      /\ \A j \in 1..Len(h) :
           /\ g[j] = h[j] /\ h[j].F \in SUBSET Failures
           /\ Size(g, j) = Size(h, j) /\ Size(h, j) \in Nat
      /\ g[Len(g)].F = F /\ g[Len(g)].iter = iter
      /\ Size(g, Len(g)) = Cardinality(F) /\ Cardinality(F) \in Nat
  <2>1. Extended(h, e, g)
    BY Shows
  <2>2. Len(h) # 0
    BY <2>1 DEF Extended
  <2> QED  BY <2>1, <2>2 DEF Extended
<1>2. /\ t.started /\ t.prev = h[Len(h)].F
      /\ \A G \in SUBSET Failures : G \in t.seen <=> \E j \in 1..Len(h) : h[j].F = G
      /\ \A f \in Failures :
           f \in t.resolved <=> \E j, n \in 1..Len(h) : j < n /\ f \in h[j].F \ h[n].F
      /\ t.initialSize = Size(h, 1)
      /\ t.everImproved => t.bestSize < t.initialSize
  BY DEF Summary
<1>3. /\ u.started = t.started /\ u.prev = F /\ u.seen = t.seen \union {F}
      /\ u.resolved = t.resolved \union (t.prev \ F) /\ u.initialSize = t.initialSize
      /\ u.bestSize = IF Cardinality(F) < t.bestSize THEN Cardinality(F) ELSE t.bestSize
      /\ u.bestIter = IF Cardinality(F) < t.bestSize THEN iter ELSE t.bestIter
      /\ u.everImproved = (t.everImproved \/ (Cardinality(F) < t.bestSize /\ Cardinality(F) < t.initialSize))
  BY DEF Ratchet, Improves, Trackers
<1> HIDE DEF u
<1>4. \A G \in SUBSET Failures : G \in u.seen <=> \E j \in 1..Len(g) : g[j].F = G
  <2>1. ASSUME NEW G \in SUBSET Failures, G \in u.seen  PROVE \E j \in 1..Len(g) : g[j].F = G
    <3>1. CASE G = F
      BY <1>1, <3>1
    <3>2. CASE G # F
      <4>1. PICK j \in 1..Len(h) : h[j].F = G
        BY <1>2, <1>3, <2>1, <3>2
      <4> QED  BY <1>1, <4>1
    <3> QED  BY <3>1, <3>2
  <2>2. ASSUME NEW G \in SUBSET Failures, NEW j \in 1..Len(g), g[j].F = G  PROVE G \in u.seen
    <3>1. CASE j \in 1..Len(h)
      BY <1>1, <1>2, <1>3, <2>2, <3>1
    <3>2. CASE j = Len(g)
      BY <1>1, <1>3, <2>2, <3>2
    <3> QED  BY <1>1, <3>1, <3>2
  <2> QED  BY <2>1, <2>2
<1>5. \A f \in Failures : f \in u.resolved <=> \E j, n \in 1..Len(g) : j < n /\ f \in g[j].F \ g[n].F
  <2>1. ASSUME NEW f \in Failures, f \in u.resolved
        PROVE  \E j, n \in 1..Len(g) : j < n /\ f \in g[j].F \ g[n].F
    <3>1. CASE f \in t.resolved
      <4>1. PICK j \in 1..Len(h), n \in 1..Len(h) : j < n /\ f \in h[j].F \ h[n].F
        BY <1>2, <3>1
      <4>2. j \in 1..Len(g) /\ n \in 1..Len(g) /\ g[j] = h[j] /\ g[n] = h[n]
        BY <1>1
      <4> QED  BY <4>1, <4>2
    <3>2. CASE f \in t.prev \ F
      <4>1. f \in g[Len(h)].F \ g[Len(g)].F
        BY <1>1, <1>2, <3>2
      <4> QED  BY <1>1, <4>1
    <3> QED  BY <1>3, <2>1, <3>1, <3>2
  <2>2. ASSUME NEW f \in Failures, NEW j \in 1..Len(g), NEW n \in 1..Len(g), j < n,
               f \in g[j].F \ g[n].F
        PROVE  f \in u.resolved
    <3>1. j \in 1..Len(h) /\ f \in h[j].F
      BY <1>1, <2>2
    <3>2. CASE n \in 1..Len(h)
      BY <1>1, <1>2, <1>3, <2>2, <3>1, <3>2
    <3>3. CASE n = Len(g)
      <4>1. f \notin F
        BY <1>1, <2>2, <3>3
      <4>2. CASE f \in h[Len(h)].F
        BY <1>2, <1>3, <4>1, <4>2
      <4>3. CASE f \notin h[Len(h)].F
        <5>1. Len(h) \in 1..Len(h) /\ j < Len(h)
          BY <1>1, <3>1, <4>3
        <5> QED  BY <1>2, <1>3, <3>1, <4>3, <5>1
      <4> QED  BY <4>2, <4>3
    <3> QED  BY <1>1, <3>2, <3>3
  <2> QED  BY <2>1, <2>2
<1>6. \E b \in 1..Len(g) :
        /\ Leads(g, b) /\ \A j \in 1..Len(g) : Size(g, b) <= Size(g, j)
        /\ u.bestSize = Size(g, b) /\ u.bestIter = g[b].iter
  <2>1. PICK b \in 1..Len(h) :
          /\ Leads(h, b) /\ \A j \in 1..Len(h) : Size(h, b) <= Size(h, j)
          /\ t.bestSize = Size(h, b) /\ t.bestIter = h[b].iter
    BY DEF Summary
  <2>2. CASE Cardinality(F) < t.bestSize
    <3>1. \A j \in 1..Len(h) : Size(g, Len(g)) < Size(g, j)
      BY <1>1, <2>1, <2>2
    <3>2. Leads(g, Len(g))
      BY <1>1, <3>1 DEF Leads
    <3>3. \A j \in 1..Len(g) : Size(g, Len(g)) <= Size(g, j)
      BY <1>1, <3>1
    <3> QED  BY <1>1, <1>3, <2>2, <3>2, <3>3
  <2>3. CASE ~(Cardinality(F) < t.bestSize)
    <3>1. b \in 1..Len(g) /\ Leads(g, b) /\ Size(g, b) = Size(h, b) /\ g[b].iter = h[b].iter
      BY <1>1, <2>1 DEF Leads
    <3>2. \A j \in 1..Len(g) : Size(g, b) <= Size(g, j)
      BY <1>1, <2>1, <2>3, <3>1
    <3> QED  BY <1>3, <2>1, <2>3, <3>1, <3>2
  <2> QED  BY <2>2, <2>3
<1>7. u.initialSize = Size(g, 1)
  BY <1>1, <1>2, <1>3
<1>8. u.everImproved => u.bestSize < u.initialSize
  <2>1. t.bestSize \in Nat
    BY DEF Trackers
  <2>2. t.initialSize \in Nat /\ u.bestSize <= t.bestSize
    BY <1>1, <1>3, <2>1 DEF Trackers
  <2>3. CASE t.everImproved
    BY <1>1, <1>2, <1>3, <2>1, <2>2, <2>3
  <2>4. CASE Cardinality(F) < t.bestSize /\ Cardinality(F) < t.initialSize
    BY <1>1, <1>3, <2>1, <2>2, <2>4
  <2> QED  BY <1>3, <2>3, <2>4
<1>9. u.started /\ u.prev = g[Len(g)].F
  BY <1>1, <1>2, <1>3
<1> QED  BY <1>1, <1>4, <1>5, <1>6, <1>7, <1>8, <1>9 DEF Summary, u

\* The first set that leads in a summary is as old as the last improvement.
LEMMA StallFits ==
  ASSUME NEW t \in Trackers, NEW g \in Seq(Shown), g # <<>>, Summary(t, g), NEW k \in Nat,
         \A j, n \in 1..Len(g) : j < n => g[j].iter < g[n].iter
  PROVE  g[Len(g)].iter - t.bestIter >= k <=> Stalls(g, k)
<1>1. /\ Len(g) \in Nat /\ Len(g) >= 1
      /\ \A j \in 1..Len(g) : g[j].iter \in Nat /\ Size(g, j) \in Nat
  <2>1. Len(g) \in Nat /\ Len(g) >= 1 /\ \A j \in 1..Len(g) : g[j] \in Shown
    BY ElementOfSeq, EmptySeq, LenProperties
  <2> QED  BY <2>1, Sizes DEF Shown, Size
<1>2. PICK b \in 1..Len(g) :
        /\ Leads(g, b) /\ \A j \in 1..Len(g) : Size(g, b) <= Size(g, j)
        /\ t.bestIter = g[b].iter
  BY DEF Summary
<1>3. ASSUME NEW j \in 1..Len(g), Leads(g, j)  PROVE g[j].iter <= g[b].iter
  <2>1. j <= b
    BY <1>1, <1>2, <1>3 DEF Leads
  <2> QED  BY <1>1, <2>1
<1>4. Len(g) \in 1..Len(g)
  BY <1>1
<1>5. ASSUME g[Len(g)].iter - g[b].iter >= k, NEW j \in 1..Len(g), Leads(g, j)
      PROVE  g[Len(g)].iter - g[j].iter >= k
  <2>1. g[j].iter <= g[b].iter
    BY <1>3, <1>5
  <2>2. g[Len(g)].iter \in Nat /\ g[j].iter \in Nat /\ g[b].iter \in Nat
    BY <1>1, <1>4
  <2> QED  BY <1>5, <2>1, <2>2
<1> QED  BY <1>2, <1>5 DEF Stalls

\* The verdict of the tracker is that of the whole history, and as long as the verdict
\* is to go on, it still has the summary.
Ordered(h, iter) ==
  /\ \A j \in 1..Len(h) : h[j].iter < iter
  /\ \A j, n \in 1..Len(h) : j < n => h[j].iter < h[n].iter

LEMMA VerdictFits ==
  ASSUME NEW t \in Trackers, NEW h \in Seq(Shown), NEW e \in Shown, NEW k \in Nat \ {0},
         Summary(t, h), Ordered(h, e.iter)
  PROVE  /\ Verdict(t, e.iter, e.F, k) = VerdictOf(Append(h, e), k)
         /\ Verdict(t, e.iter, e.F, k) = Progressing =>
              Summary(Observe(t, e.iter, e.F), Append(h, e))
         /\ Observe(t, e.iter, e.F).everImproved => Improved(Append(h, e))
<1> DEFINE g == Append(h, e)  iter == e.iter  F == e.F
<1>0. /\ iter \in Nat /\ F \in SUBSET Failures /\ e.iter = iter /\ e.F = F /\ g = Append(h, e)
      /\ \A j \in 1..Len(h) : h[j].iter < iter
      /\ \A j, n \in 1..Len(h) : j < n => h[j].iter < h[n].iter
  BY DEF Shown, Ordered
<1> SUFFICES /\ Verdict(t, iter, F, k) = VerdictOf(g, k)
             /\ Verdict(t, iter, F, k) = Progressing => Summary(Observe(t, iter, F), g)
             /\ Observe(t, iter, F).everImproved => Improved(g)
  OBVIOUS
<1> HIDE DEF g, iter, F
<1>1. /\ Len(h) \in Nat /\ g \in Seq(Shown) /\ g # <<>> /\ Len(g) = Len(h) + 1
      /\ \A j \in 1..Len(h) :
           /\ g[j] = h[j] /\ h[j].F \in SUBSET Failures /\ h[j].iter \in Nat
           /\ Size(g, j) = Size(h, j) /\ Size(h, j) \in Nat
      /\ g[Len(g)].F = F /\ g[Len(g)].iter = iter
      /\ Size(g, Len(g)) = Cardinality(F) /\ Cardinality(F) \in Nat
      /\ h = <<>> <=> Len(h) = 0
  <2>1. Extended(h, e, g)
    BY <1>0, Shows
  <2> QED  BY <1>0, <2>1 DEF Extended
<1>2. ASSUME NEW j \in 1..Len(g), NEW n \in 1..Len(g), j < n  PROVE g[j].iter < g[n].iter
  <2>1. j \in 1..Len(h) /\ g[j] = h[j]
    BY <1>1, <1>2
  <2>2. CASE n \in 1..Len(h)
    BY <1>0, <1>1, <1>2, <2>1, <2>2
  <2>3. CASE n = Len(g)
    BY <1>0, <1>1, <2>1, <2>3
  <2> QED  BY <1>1, <2>2, <2>3
<1>3. Observe(t, iter, F) \in Trackers
  BY <1>0, ObserveType
<1>4. CASE h = <<>>
  <2>1. t = NewTracker /\ Len(g) = 1
    BY <1>1, <1>4 DEF Summary
  <2>2. Verdict(t, iter, F, k) = Progressing /\ Observe(t, iter, F) = First(t, iter, F)
    <3>1. ~t.started
      BY <2>1 DEF NewTracker
    <3> QED  BY <3>1 DEF Verdict, Observe
  <2>3. ~Repeats(g) /\ ~Regresses(g)
    BY <2>1 DEF Repeats, Regresses
  <2>4. Leads(g, 1) /\ ~(g[Len(g)].iter - g[1].iter >= k)
    BY <1>0, <1>1, <2>1 DEF Leads
  <2>5. VerdictOf(g, k) = Progressing
    BY <2>1, <2>3, <2>4 DEF VerdictOf, Stalls
  <2>6. LET u == First(t, iter, F)
        IN  /\ u.started /\ u.prev = F /\ u.seen = {F} /\ u.resolved = {} /\ ~u.everImproved
            /\ u.bestSize = Cardinality(F) /\ u.bestIter = iter /\ u.initialSize = Cardinality(F)
    BY <2>1 DEF First, NewTracker
  <2>7. Summary(First(t, iter, F), g)
    BY <1>1, <2>1, <2>4, <2>6 DEF Summary
  <2> QED  BY <2>2, <2>5, <2>6, <2>7
<1>5. CASE h # <<>>
  <2>1. /\ t.started /\ Len(h) >= 1
        /\ \A G \in SUBSET Failures : G \in t.seen <=> \E j \in 1..Len(h) : h[j].F = G
        /\ \A f \in Failures :
             f \in t.resolved <=> \E j, n \in 1..Len(h) : j < n /\ f \in h[j].F \ h[n].F
    <3>1. Len(h) >= 1
      BY <1>1, <1>5
    <3>2. Summary(t, h)
      OBVIOUS
    <3> QED  BY <1>5, <3>1, <3>2, Zenon DEF Summary
  <2>2. F \in t.seen <=> Repeats(g)
    <3>1. F \in t.seen <=> \E j \in 1..Len(h) : g[j].F = F
      BY <1>0, <1>1, <2>1
    <3>2. Len(g) - 1 = Len(h)
      BY <1>1
    <3> QED  BY <1>1, <3>1, <3>2 DEF Repeats
  <2>3. Returned(t, F) <=> Regresses(g)
    <3>1. ASSUME Returned(t, F)  PROVE Regresses(g)
      <4>1. PICK f \in F : f \in t.resolved
        BY <3>1 DEF Returned
      <4>2. PICK j \in 1..Len(h), n \in 1..Len(h) : j < n /\ f \in h[j].F \ h[n].F
        BY <1>0, <2>1, <4>1
      <4>3. f \in (g[j].F \ g[n].F) \intersect g[Len(g)].F
        BY <1>1, <4>1, <4>2
      <4> QED  BY <1>1, <4>2, <4>3 DEF Regresses
    <3>2. ASSUME Regresses(g)  PROVE Returned(t, F)
      <4>1. PICK j \in 1..Len(g) - 1, n \in 1..Len(g) - 1 :
              j < n /\ (g[j].F \ g[n].F) \intersect g[Len(g)].F # {}
        BY <3>2 DEF Regresses
      <4>2. PICK f : f \in (g[j].F \ g[n].F) \intersect F
        BY <1>1, <4>1
      <4>3. j \in 1..Len(h) /\ n \in 1..Len(h) /\ f \in Failures /\ f \in h[j].F \ h[n].F
        BY <1>1, <4>2
      <4> QED  BY <2>1, <4>1, <4>2, <4>3 DEF Returned
    <3> QED  BY <3>1, <3>2
  <2>4. Ratchet(t, iter, F) \in Trackers
    BY <1>0, <1>1 DEF Ratchet, Improves, Trackers
  <2>5. Summary(Ratchet(t, iter, F), g)
    BY <1>0, <1>5, RatchetFits
  <2>6. iter - Ratchet(t, iter, F).bestIter >= k <=> Stalls(g, k)
    BY <1>1, <1>2, <2>4, <2>5, StallFits
  <2>7. Verdict(t, iter, F, k) = VerdictOf(g, k)
    BY <2>1, <2>2, <2>3, <2>6 DEF Verdict, VerdictOf
  <2>8. ASSUME Verdict(t, iter, F, k) = Progressing  PROVE Summary(Observe(t, iter, F), g)
    <3>1. F \notin t.seen /\ ~Returned(t, F)
      BY <2>1, <2>8 DEF Verdict, Progressing, Oscillation, Regression
    <3> QED  BY <2>1, <2>5, <3>1 DEF Observe
  <2>9. ASSUME Observe(t, iter, F).everImproved  PROVE Improved(g)
    <3>1. CASE F \notin t.seen /\ ~Returned(t, F)
      <4>1. Observe(t, iter, F) = Ratchet(t, iter, F)
        BY <2>1, <3>1 DEF Observe
      <4> QED  BY <1>1, <2>4, <2>5, <2>9, <4>1, SummaryImproves
    <3>2. CASE F \in t.seen \/ Returned(t, F)
      <4>1. Observe(t, iter, F).everImproved = t.everImproved
        BY <2>1, <3>2 DEF Observe, Trackers
      <4>2. PICK j \in 1..Len(h) : Size(h, j) < Size(h, 1)
        BY <2>9, <4>1, SummaryImproves DEF Improved
      <4>3. j \in 1..Len(g) /\ Size(g, j) < Size(g, 1)
        BY <1>1, <2>1, <4>2
      <4> QED  BY <4>3 DEF Improved
    <3> QED  BY <3>1, <3>2
  <2> QED  BY <2>7, <2>8, <2>9
<1> QED  BY <1>4, <1>5

\* Two sequences that begin alike.
LEMMA SameStart ==
  ASSUME NEW h \in Seq(Shown), NEW g \in Seq(Shown), NEW n \in 1..Len(h), Len(h) <= Len(g),
         \A j \in 1..Len(h) : g[j] = h[j]
  PROVE  SubSeq(g, 1, n) = SubSeq(h, 1, n)
<1>1. Len(h) \in Nat /\ n \in Nat /\ 1 \in Int /\ n \in Int /\ 1 <= n
  BY LenProperties
<1>2. \A j \in 1..n : j \in 1..Len(h) /\ h[j] \in Shown /\ g[j] = h[j] /\ g[j] \in Shown
  BY <1>1, ElementOfSeq
<1>3. /\ SubSeq(h, 1, n) \in Seq(Shown) /\ SubSeq(g, 1, n) \in Seq(Shown)
      /\ Len(SubSeq(h, 1, n)) = n /\ Len(SubSeq(g, 1, n)) = n
      /\ \A j \in 1..n : SubSeq(h, 1, n)[j] = h[j] /\ SubSeq(g, 1, n)[j] = g[j]
  BY <1>1, <1>2, SubSeqProperties
<1> QED  BY <1>2, <1>3, SeqEqual

LEMMA NewTrackerType == NewTracker \in Trackers
BY DEF NewTracker, Trackers

\* What the verdict changes in the state.
EverAs(t, s, e) == \E phase \in {s.phase, "evaluated"} : t = [s EXCEPT !.ever = e, !.phase = phase]

LEMMA EverState ==
  ASSUME NEW s \in LoopState, NEW e \in BOOLEAN, NEW t, EverAs(t, s, e)
  PROVE  /\ t \in LoopState /\ t # None /\ t.iter = s.iter /\ t.fp = s.fp /\ t.rc = s.rc
         /\ t.run = s.run /\ t.start = s.start /\ t.halt = s.halt
         /\ t.debt = s.debt /\ t.base = s.base /\ t.save = s.save /\ t.ever = e
<1>0. PICK phase \in {s.phase, "evaluated"} : t = [s EXCEPT !.ever = e, !.phase = phase]
  BY DEF EverAs
<1>1. t \in LoopState
  BY <1>0 DEF LoopState
<1>2. t # None
  BY <1>1, Limits
<1> QED  BY <1>0, <1>1, <1>2 DEF LoopState

------------------------------------------------------------------------------
(* The governor and its memory.                                             *)

LEMMA Memory ==
  ASSUME PlainRunInv
  PROVE  /\ pc # "off" =>
              /\ st \in LoopState /\ st # None /\ st.start = starts /\ st.run \in RunID
              /\ st.save \in Nat /\ st.debt \in Nat /\ st.iter \in 0..MaxIterations
              /\ answer = None
         /\ \A r \in RunID : saved[r] # None =>
              /\ saved[r] \in LoopState /\ saved[r].run = r
              /\ saved[r].save \in Nat /\ saved[r].debt \in Nat /\ saved[r].start \in Nat
              /\ saved[r].iter \in Nat
         /\ starts \in Nat /\ saved \in [RunID -> LoopState \union {None}]
         /\ unread \in [RunID -> Nat] /\ resumes \in [RunID -> Nat]
<1>1. /\ st \in LoopState \union {None} /\ (pc = "off" <=> st = None)
      /\ pc # "off" => st.start = starts /\ answer = None
      /\ saved \in [RunID -> LoopState \union {None}] /\ starts \in Nat
      /\ unread \in [RunID -> Nat] /\ resumes \in [RunID -> Nat]
      /\ \A r \in RunID : saved[r] # None => saved[r].run = r
  BY Limits DEF PlainRunInv, TypeOK, MoreTypes, Lives, Saved
<1>2. \A s \in LoopState : /\ s.run \in RunID /\ s.save \in Nat /\ s.debt \in Nat /\ s.start \in Nat
                           /\ s.iter \in 0..MaxIterations /\ s.iter \in Nat
  BY Limits DEF LoopState
<1> QED  BY <1>1, <1>2

\* A governor starts a run anew.
LEMMA StartFreshInv ==
  ASSUME PlainRunInv, NEW r \in RunID, StartFresh(r)
  PROVE  PlainRunInv'
<1>1. /\ pc = "off" /\ starts < MaxStarts /\ starts' = starts + 1 /\ tracker' = NewTracker
      /\ surface' = None /\ halt' = "none" /\ lost' = FALSE /\ history' = <<>> /\ missing' = {}
      /\ answer' = None /\ pc' = "save" /\ then' = "baseline" /\ prior' = None
      /\ st' = NewState(r)
      /\ unread' = [unread EXCEPT ![r] = 0] /\ resumes' = [resumes EXCEPT ![r] = 0]
      /\ saved' = saved /\ latest' = latest /\ op' = op /\ faults' = faults /\ ops' = ops
      /\ workspace' = workspace /\ initial' = initial
  BY DEF StartFresh, Begin, Locked, Save, files, bounds
<1>2. /\ st' \in LoopState /\ st' # None /\ st'.run = r /\ st'.start = starts' /\ st'.save = 0
      /\ st'.halt = "none" /\ st'.base = None /\ st'.debt = 0 /\ st'.iter = 0
      /\ starts \in Nat /\ starts' \in 1..MaxStarts
  <2>1. starts \in Nat /\ starts' \in 1..MaxStarts
    BY <1>1, Limits DEF PlainRunInv, TypeOK
  <2>2. st' \in LoopState
    BY <1>1, <2>1, Limits DEF NewState, LoopState, Reasons
  <2>3. st' # None
    BY <2>2, Limits
  <2> QED  BY <1>1, <2>1, <2>2, <2>3 DEF NewState
<1>3. /\ \A q \in RunID : saved[q] # None => saved[q].start # starts'
      /\ None # Success
  <2>1. Success \in Reasons
    BY DEF Success, Reasons, Judged
  <2> QED  BY <1>1, <1>2, <2>1, Memory, Limits DEF PlainRunInv, Saved
<1>4. TypeOK'
  <2>1. tracker'.bestSize \in 0..tracker'.initialSize /\ tracker'.prev \in tracker'.seen \union {{}}
    BY <1>1 DEF NewTracker
  <2>2. starts' \in 0..MaxStarts /\ faults' + ops' \in 0..MaxTrouble
    BY <1>1, <1>2, Limits DEF PlainRunInv, TypeOK
  <2> QED  BY <1>1, <1>2, <2>1, <2>2 DEF PlainRunInv, TypeOK, Reasons
<1>5. MoreTypes'
  BY <1>1, <1>2, <1>3, NewTrackerType DEF PlainRunInv, MoreTypes
<1>6. Lives'
  BY <1>1, <1>2, <1>3 DEF PlainRunInv, Lives, Saving, Opening, Working, Judging, Ending
<1>7. Tracks'
  BY <1>1, <1>2, <1>3 DEF PlainRunInv, Tracks, Saving, Opening, Working, Judging,
     Ending, Summary
<1>8. Copies'
  BY <1>1, <1>2, <1>3, Memory DEF PlainRunInv, Copies, Behind, attestVerifies,
     signReceipt, canonicalReceipt
<1>9. Saved'
  BY <1>1, <1>2, <1>3, Memory DEF PlainRunInv, Saved, Resumed, Saving, Opening, Working,
     Judging, Ending
<1>10. Succeeds'
  BY <1>1, <1>2, <1>3 DEF PlainRunInv, Succeeds, Succeeded, Success, Saving, Opening,
     Working, Judging, Ending
<1>11. Debts'
  BY <1>1, <1>2, <1>3, Memory, Limits DEF PlainRunInv, Debts, DebtBounds, Saving,
     Opening, Working, Judging, Ending
<1>12. Earns'
  BY <1>1, <1>2, <1>3 DEF PlainRunInv, Earns, Success
<1>13. Answered'
  BY <1>1, <1>2, <1>3 DEF PlainRunInv, Answered
<1>14. TrackerMeetsHistory'
  BY <1>1, <1>2, <1>3 DEF PlainRunInv, TrackerMeetsHistory
<1>15. DebtBounds'
  BY <1>1, <1>2, <1>3, Memory, Limits DEF PlainRunInv, DebtBounds
<1> QED
  BY <1>4, <1>5, <1>6, <1>7, <1>8, <1>9, <1>10, <1>11, <1>12, <1>13, <1>14, <1>15 DEF
     PlainRunInv

\* A governor resumes a workflow run.
LEMMA ResumeInv ==
  ASSUME PlainRunInv, NEW r \in RunID, Resume(r)
  PROVE  PlainRunInv'
<1>1. /\ pc = "off" /\ starts < MaxStarts /\ starts' = starts + 1 /\ tracker' = NewTracker
      /\ surface' = None /\ halt' = "none" /\ lost' = FALSE /\ history' = <<>> /\ missing' = {}
      /\ answer' = None /\ pc' = "save" /\ then' = "baseline" /\ prior' = saved[r].halt
      /\ saved[r] # None
      /\ st' = [saved[r] EXCEPT !.start = starts', !.save = 0, !.phase = "running", !.halt = "none"]
      /\ resumes' = [resumes EXCEPT ![r] = @ + 1]
      /\ saved' = saved /\ latest' = latest /\ op' = op /\ faults' = faults /\ ops' = ops
      /\ workspace' = workspace /\ initial' = initial /\ unread' = unread
  BY DEF Resume, Begin, Locked, Save, files, bounds
<1>2. /\ st' \in LoopState /\ st' # None /\ st'.run = r /\ st'.start = starts' /\ st'.save = 0
      /\ st'.halt = "none" /\ st'.base = saved[r].base /\ st'.debt = saved[r].debt
      /\ st'.iter = saved[r].iter /\ st'.rc = saved[r].rc /\ st'.fp = saved[r].fp
      /\ starts \in Nat /\ starts' \in 1..MaxStarts /\ prior' \in Reasons
  <2>1. starts \in Nat /\ starts' \in 1..MaxStarts
    BY <1>1, Limits DEF PlainRunInv, TypeOK
  <2>2. saved[r] \in LoopState /\ saved[r].run = r
    BY <1>1, Memory
  <2>3. st' \in LoopState
    BY <1>1, <2>1, <2>2 DEF LoopState, Reasons
  <2>4. st' # None
    BY <2>3, Limits
  <2> QED  BY <1>1, <2>1, <2>2, <2>3, <2>4 DEF LoopState
<1>3. /\ \A q \in RunID : saved[q] # None => saved[q].start # starts'
      /\ prior' # None
  BY <1>1, <1>2, Memory, Limits DEF PlainRunInv, Saved
<1>4. /\ resumes[r] \in Nat /\ resumes'[r] = resumes[r] + 1 /\ unread[r] \in Nat
      /\ \A q \in RunID : q # r => resumes'[q] = resumes[q]
      /\ \A q \in RunID : unread[q] \in Nat /\ resumes[q] \in Nat
  BY <1>1, Memory
<1>5. TypeOK'
  <2>1. tracker'.bestSize \in 0..tracker'.initialSize /\ tracker'.prev \in tracker'.seen \union {{}}
    BY <1>1 DEF NewTracker
  <2>2. starts' \in 0..MaxStarts /\ faults' + ops' \in 0..MaxTrouble
    BY <1>1, <1>2, Limits DEF PlainRunInv, TypeOK
  <2> QED  BY <1>1, <1>2, <2>1, <2>2 DEF PlainRunInv, TypeOK, Reasons
<1>6. MoreTypes'
  BY <1>1, <1>2, <1>3, <1>4, NewTrackerType DEF PlainRunInv, MoreTypes
<1>7. Lives'
  BY <1>1, <1>2, <1>3, <1>4 DEF PlainRunInv, Lives, Saving, Opening, Working, Judging,
     Ending
<1>8. Tracks'
  BY <1>1, <1>2, <1>3, <1>4 DEF PlainRunInv, Tracks, Saving, Opening, Working, Judging,
     Ending, Summary
<1>9. Copies'
  BY <1>1, <1>2, <1>3, <1>4, Memory DEF PlainRunInv, Copies, Behind, attestVerifies,
     signReceipt, canonicalReceipt
<1>10. Saved'
  BY <1>1, <1>2, <1>3, <1>4, Memory DEF PlainRunInv, Saved, Resumed, Saving, Opening,
     Working, Judging, Ending
<1>11. Succeeds'
  BY <1>1, <1>2, <1>3, <1>4 DEF PlainRunInv, Succeeds, Succeeded, Success, Saving,
     Opening, Working, Judging, Ending
<1>12. Debts'
  <2>1. \A q \in RunID : saved'[q] # None => unread'[q] <= saved'[q].debt + resumes'[q] + 1
    <3>1. ASSUME NEW q \in RunID, saved[q] # None  PROVE unread[q] <= saved[q].debt + resumes'[q] + 1
      <4>1. unread[q] <= saved[q].debt + resumes[q] + 1 /\ saved[q].debt \in Nat
        BY <3>1, Memory DEF PlainRunInv, Debts
      <4> QED  BY <1>4, <4>1
    <3> QED  BY <1>1, <3>1
  <2>2. unread'[st'.run] <= st'.debt + resumes'[st'.run]
    <3>1. unread[r] <= saved[r].debt + resumes[r] + 1 /\ saved[r].debt \in Nat
      BY <1>1, Memory DEF PlainRunInv, Debts
    <3> QED  BY <1>1, <1>2, <1>4, <3>1
  <2>3. ComprehensionEvery[r] > 0 => unread[r] < ComprehensionEvery[r] + resumes'[r]
    BY <1>4, Limits DEF PlainRunInv, DebtBounds
  <2>4. st'.debt \in Nat
    BY <1>1, <1>2, Memory
  <2> QED  BY <1>1, <1>2, <1>4, <2>1, <2>2, <2>3, <2>4 DEF Debts
<1>13. Earns'
  BY <1>1, <1>2, <1>3, <1>4 DEF PlainRunInv, Earns, Success
<1>14. Answered'
  BY <1>1, <1>2, <1>3, <1>4 DEF PlainRunInv, Answered
<1>15. TrackerMeetsHistory'
  BY <1>1, <1>2, <1>3, <1>4 DEF PlainRunInv, TrackerMeetsHistory
<1>16. DebtBounds'
  <2>1. ASSUME NEW q \in RunID, ComprehensionEvery[q] > 0
        PROVE  unread'[q] <= ComprehensionEvery[q] + resumes'[q]
    <3>1. unread[q] <= ComprehensionEvery[q] + resumes[q] /\ ComprehensionEvery[q] \in Nat
      BY <2>1, Limits DEF PlainRunInv, DebtBounds
    <3>2. resumes'[q] \in {resumes[q], resumes[q] + 1} /\ unread' = unread
      BY <1>1, <1>4
    <3> QED  BY <1>4, <3>1, <3>2
  <2> QED  BY <2>1 DEF DebtBounds
<1> QED
  BY <1>5, <1>6, <1>7, <1>8, <1>9, <1>10, <1>11, <1>12, <1>13, <1>14, <1>15, <1>16 DEF
     PlainRunInv

\* A copy that is behind what is saved of its run stays behind what is saved next.
LEMMA StillBehind ==
  ASSUME PlainRunInv, pc # "off", NEW c \in LoopState, saved[c.run] # None, Behind(c, saved[c.run]),
         saved' = saved \/ (pc = "save" /\ saved' = [saved EXCEPT ![st.run] = Written(st)])
  PROVE  saved'[c.run] # None /\ Behind(c, saved'[c.run])
<1>1. /\ st \in LoopState /\ st.start = starts /\ st.run \in RunID /\ c.run \in RunID
      /\ st.save \in Nat /\ starts \in Nat /\ DOMAIN saved = RunID
      /\ c.start \in Nat /\ c.save \in Nat
  BY Memory DEF LoopState
<1>2. /\ Written(st) # None /\ Written(st).start = st.start /\ Written(st).save = st.save + 1
  BY <1>1, WrittenState
<1>3. CASE saved' = saved
  BY <1>3
<1>4. CASE pc = "save" /\ saved' = [saved EXCEPT ![st.run] = Written(st)] /\ c.run # st.run
  BY <1>1, <1>4
<1>5. CASE pc = "save" /\ saved' = [saved EXCEPT ![st.run] = Written(st)] /\ c.run = st.run
  <2>1. saved[st.run].start <= starts /\ saved[st.run].start \in Nat /\ saved[st.run].save \in Nat
    BY <1>1, <1>5, Memory DEF PlainRunInv, Saved
  <2>2. saved[st.run].start = starts => saved[st.run].save <= st.save
    BY <1>1, <1>5 DEF PlainRunInv, Saved
  <2>3. saved'[c.run] = Written(st)
    BY <1>1, <1>5
  <2> QED  BY <1>1, <1>2, <1>5, <2>1, <2>2, <2>3 DEF Behind
<1> QED  BY <1>3, <1>4, <1>5

\* The copy of the run is written.
LEMMA SaveRunDoneInv ==
  ASSUME PlainRunInv, pc = "save", pc' = "point",
         saved' = [saved EXCEPT ![st.run] = Written(st)],
         UNCHANGED <<latest, then, memory, op, answer, bounds, workspace, ghost>>
  PROVE  PlainRunInv'
<1>1. /\ pc = "save" /\ pc' = "point" /\ saved' = [saved EXCEPT ![st.run] = Written(st)]
      /\ latest' = latest /\ then' = then /\ st' = st /\ tracker' = tracker
      /\ surface' = surface /\ prior' = prior /\ halt' = halt /\ lost' = lost /\ op' = op
      /\ answer' = answer /\ starts' = starts /\ faults' = faults /\ ops' = ops
      /\ history' = history /\ workspace' = workspace /\ initial' = initial
      /\ missing' = missing /\ unread' = unread /\ resumes' = resumes
  BY DEF memory, bounds, ghost
<1>2. /\ st \in LoopState /\ st # None /\ st.start = starts /\ st.run \in RunID /\ answer = None
      /\ st.save \in Nat /\ starts \in Nat /\ st.debt \in Nat
      /\ DOMAIN saved = RunID /\ \A r \in RunID : r # st.run => saved'[r] = saved[r]
      /\ saved'[st.run] = Written(st)
  BY <1>1, Memory
<1>3. /\ Written(st) \in LoopState /\ Written(st) # None
      /\ Written(st).run = st.run /\ Written(st).start = st.start /\ Written(st).save = st.save + 1
      /\ Written(st).iter = st.iter /\ Written(st).rc = st.rc /\ Written(st).fp = st.fp
      /\ Written(st).halt = st.halt /\ Written(st).ever = st.ever /\ Written(st).debt = st.debt
      /\ Written(st).base \in {None, st.base}
  BY <1>2, WrittenState
<1>4. then \in {"baseline", "exec", "count", "answer"}
      /\ st.halt = (IF then = "answer" THEN halt ELSE "none")
  BY <1>1 DEF PlainRunInv, Lives, Saved, Saving, Ending
<1>5. st.halt = Success => halt = Success /\ then = "answer"
  BY <1>4 DEF Success
<1>6. TypeOK'
  BY <1>1, <1>2, <1>3, <1>4, <1>5, Limits DEF PlainRunInv, TypeOK
<1>7. MoreTypes'
  BY <1>1, <1>2, <1>3, <1>4, <1>5 DEF PlainRunInv, MoreTypes
<1>8. Lives'
  BY <1>1, <1>2, <1>3, <1>4, <1>5 DEF PlainRunInv, Lives, Saving, Opening, Working,
     Judging, Ending
<1>9. Tracks'
  BY <1>1, <1>2, <1>3, <1>4, <1>5 DEF PlainRunInv, Tracks, Saving, Opening, Working,
     Judging, Ending
<1>10. Copies'
  BY <1>1, <1>2, StillBehind DEF PlainRunInv, Copies, TypeOK, LoopState
<1>11. Saved'
  BY <1>1, <1>2, <1>3, <1>4, <1>5, Memory DEF PlainRunInv, Saved, Resumed, Saving,
     Opening, Working, Judging, Ending
<1>12. Succeeds'
  BY <1>1, <1>2, <1>3, <1>4, <1>5 DEF PlainRunInv, Succeeds, Succeeded, Success, Saving,
     Opening, Working, Judging, Ending
<1>13. Debts'
  BY <1>1, <1>2, <1>3, <1>4, <1>5, Memory, Limits DEF PlainRunInv, Debts, DebtBounds,
     Saving, Opening, Working, Judging, Ending
<1>14. Earns'
  BY <1>1, <1>2, <1>3, <1>4, <1>5 DEF PlainRunInv, Earns, Succeeds, Tracks, Success
<1>15. Answered'
  BY <1>1, <1>2, <1>3, <1>4, <1>5 DEF PlainRunInv, Answered
<1>16. TrackerMeetsHistory'
  BY <1>1, <1>2, <1>3, <1>4, <1>5 DEF PlainRunInv, TrackerMeetsHistory
<1>17. DebtBounds'
  BY <1>1, <1>2, <1>3, <1>4, <1>5, Memory, Limits DEF PlainRunInv, DebtBounds
<1> QED
  BY <1>6, <1>7, <1>8, <1>9, <1>10, <1>11, <1>12, <1>13, <1>14, <1>15, <1>16, <1>17 DEF
     PlainRunInv

\* The state of the directory is written, and the governor goes on.
LEMMA SaveLatestDoneInv ==
  ASSUME PlainRunInv, pc = "point", pc' = then, latest' = Written(st),
         st' = [st EXCEPT !.save = @ + 1],
         UNCHANGED <<saved, then, tracker, surface, prior, halt, lost, op, answer, bounds, workspace, ghost>>
  PROVE  PlainRunInv'
<1>1. /\ pc = "point" /\ pc' = then /\ latest' = Written(st) /\ st' = [st EXCEPT !.save = @ + 1]
      /\ saved' = saved /\ then' = then /\ tracker' = tracker /\ surface' = surface
      /\ prior' = prior /\ halt' = halt /\ lost' = lost /\ op' = op /\ answer' = answer
      /\ starts' = starts /\ faults' = faults /\ ops' = ops /\ history' = history
      /\ workspace' = workspace /\ initial' = initial /\ missing' = missing
      /\ unread' = unread /\ resumes' = resumes
  BY DEF bounds, ghost
<1>2. /\ st \in LoopState /\ st # None /\ st.start = starts /\ st.run \in RunID /\ answer = None
      /\ st.save \in Nat /\ starts \in Nat /\ st.debt \in Nat
  BY <1>1, Memory
<1>3. /\ Written(st) \in LoopState /\ Written(st) # None
      /\ Written(st).run = st.run /\ Written(st).start = st.start /\ Written(st).save = st.save + 1
      /\ Written(st).iter = st.iter /\ Written(st).rc = st.rc /\ Written(st).fp = st.fp
      /\ Written(st).halt = st.halt /\ Written(st).ever = st.ever /\ Written(st).debt = st.debt
      /\ Written(st).base \in {None, st.base}
  BY <1>2, WrittenState
<1>4. /\ st' \in LoopState /\ st' # None /\ st'.save = st.save + 1
      /\ st'.run = st.run /\ st'.start = st.start /\ st'.iter = st.iter /\ st'.rc = st.rc
      /\ st'.fp = st.fp /\ st'.halt = st.halt /\ st'.ever = st.ever /\ st'.debt = st.debt
      /\ st'.base = st.base
  BY <1>1, <1>2, SavedState
<1>5. /\ then \in {"baseline", "exec", "count", "answer"} /\ saved[st.run] = Written(st)
      /\ st.halt = (IF then = "answer" THEN halt ELSE "none")
  BY <1>1 DEF PlainRunInv, Lives, Saved, Saving, Ending
<1>6. TypeOK'
  BY <1>1, <1>2, <1>3, <1>4, <1>5, Limits DEF PlainRunInv, TypeOK
<1>7. MoreTypes'
  BY <1>1, <1>2, <1>3, <1>4, <1>5 DEF PlainRunInv, MoreTypes
<1>8. Lives'
  BY <1>1, <1>2, <1>3, <1>4, <1>5 DEF PlainRunInv, Lives, Saving, Opening, Working,
     Judging, Ending
<1>9. Tracks'
  BY <1>1, <1>2, <1>3, <1>4, <1>5 DEF PlainRunInv, Tracks, Saving, Opening, Working,
     Judging, Ending
<1>10. Copies'
  <2>1. Behind(latest', saved'[latest'.run]) /\ saved'[latest'.run] # None
    BY <1>1, <1>2, <1>3, <1>5 DEF Behind, attestVerifies
  <2> QED  BY <1>1, <2>1 DEF PlainRunInv, Copies
<1>11. Saved'
  BY <1>1, <1>2, <1>3, <1>4, <1>5, Memory DEF PlainRunInv, Saved, Resumed, Saving,
     Opening, Working, Judging, Ending
<1>12. Succeeds'
  BY <1>1, <1>2, <1>3, <1>4, <1>5 DEF PlainRunInv, Succeeds, Succeeded, Success, Saving,
     Opening, Working, Judging, Ending
<1>13. Debts'
  BY <1>1, <1>2, <1>3, <1>4, <1>5, Memory, Limits DEF PlainRunInv, Debts, DebtBounds,
     Saving, Opening, Working, Judging, Ending
<1>14. Earns'
  BY <1>1, <1>2, <1>3, <1>4, <1>5 DEF PlainRunInv, Earns, Success
<1>15. Answered'
  BY <1>1, <1>2, <1>3, <1>4, <1>5 DEF PlainRunInv, Answered
<1>16. TrackerMeetsHistory'
  BY <1>1, <1>2, <1>3, <1>4, <1>5 DEF PlainRunInv, TrackerMeetsHistory
<1>17. DebtBounds'
  BY <1>1, <1>2, <1>3, <1>4, <1>5, Memory, Limits DEF PlainRunInv, DebtBounds
<1> QED
  BY <1>6, <1>7, <1>8, <1>9, <1>10, <1>11, <1>12, <1>13, <1>14, <1>15, <1>16, <1>17 DEF
     PlainRunInv

\* A save fails, and the loop ends.
LEMMA SaveStoppedInv ==
  ASSUME PlainRunInv, Saving, then # "answer", pc' = "finish", halt' = "internal_error",
         st' = [st EXCEPT !.save = @ + 1],
         lost' \in BOOLEAN, faults' \in Nat, faults' + ops \in 0..MaxTrouble,
         \/ saved' = saved
         \/ pc = "save" /\ saved' = [saved EXCEPT ![st.run] = Written(st)],
         \/ latest' = latest
         \/ pc = "point" /\ latest' = Written(st),
         UNCHANGED <<then, tracker, surface, prior, op, answer, starts, ops, workspace, ghost>>
  PROVE  PlainRunInv'
<1>1. /\ pc' = "finish" /\ halt' = "internal_error" /\ st' = [st EXCEPT !.save = @ + 1]
      /\ Saving /\ then # "answer" /\ lost' \in BOOLEAN
      /\ faults' \in Nat /\ faults' + ops \in 0..MaxTrouble
      /\ saved' = saved \/ (pc = "save" /\ saved' = [saved EXCEPT ![st.run] = Written(st)])
      /\ latest' = latest \/ (pc = "point" /\ latest' = Written(st))
      /\ then' = then /\ tracker' = tracker /\ surface' = surface /\ prior' = prior
      /\ op' = op /\ answer' = answer /\ starts' = starts /\ ops' = ops
      /\ history' = history /\ workspace' = workspace /\ initial' = initial
      /\ missing' = missing /\ unread' = unread /\ resumes' = resumes
  BY DEF ghost
<1>2. /\ st \in LoopState /\ st # None /\ st.start = starts /\ st.run \in RunID /\ answer = None
      /\ st.save \in Nat /\ starts \in Nat /\ st.debt \in Nat /\ pc # "off"
      /\ DOMAIN saved = RunID /\ DOMAIN saved' = RunID
      /\ \A r \in RunID : r # st.run => saved'[r] = saved[r]
      /\ saved'[st.run] \in {saved[st.run], Written(st)}
  BY <1>1, Memory DEF Saving
<1>3. /\ Written(st) \in LoopState /\ Written(st) # None
      /\ Written(st).run = st.run /\ Written(st).start = st.start /\ Written(st).save = st.save + 1
      /\ Written(st).iter = st.iter /\ Written(st).rc = st.rc /\ Written(st).fp = st.fp
      /\ Written(st).halt = st.halt /\ Written(st).ever = st.ever /\ Written(st).debt = st.debt
      /\ Written(st).base \in {None, st.base}
  BY <1>2, WrittenState
<1>4. /\ st' \in LoopState /\ st' # None /\ st'.save = st.save + 1
      /\ st'.run = st.run /\ st'.start = st.start /\ st'.iter = st.iter /\ st'.rc = st.rc
      /\ st'.fp = st.fp /\ st'.halt = st.halt /\ st'.ever = st.ever /\ st'.debt = st.debt
      /\ st'.base = st.base
  BY <1>1, <1>2, SavedState
<1>5. /\ then \in {"baseline", "exec", "count"} /\ st.halt = "none"
      /\ pc = "point" => saved[st.run] = Written(st)
  BY <1>1 DEF PlainRunInv, Lives, Saved, Saving, Ending
<1>6. "internal_error" \in Reasons
  BY DEF Reasons
<1>7. TypeOK'
  BY <1>1, <1>2, <1>3, <1>4, <1>5, <1>6, Limits DEF PlainRunInv, TypeOK
<1>8. MoreTypes'
  BY <1>1, <1>2, <1>3, <1>4, <1>5, <1>6 DEF PlainRunInv, MoreTypes
<1>9. Lives'
  BY <1>1, <1>2, <1>3, <1>4, <1>5, <1>6 DEF PlainRunInv, Lives, Saving, Opening,
     Working, Judging, Ending
<1>10. Tracks'
  BY <1>1, <1>2, <1>3, <1>4, <1>5, <1>6 DEF PlainRunInv, Tracks, Saving, Opening,
     Working, Judging, Ending
<1>11. Copies'
  <2>1. /\ latest # None => saved'[latest.run] # None /\ Behind(latest, saved'[latest.run])
        /\ op # None => saved'[op.run] # None /\ Behind(op, saved'[op.run])
    BY <1>1, <1>2, StillBehind DEF PlainRunInv, Copies, TypeOK, LoopState
  <2>2. ASSUME pc = "point", latest' = Written(st)
        PROVE  saved'[latest'.run] # None /\ Behind(latest', saved'[latest'.run])
    <3>1. saved'[latest'.run] = latest'
      BY <1>1, <1>2, <1>3, <2>2 DEF PlainRunInv, Saved
    <3> QED  BY <1>3, <2>2, <3>1 DEF Behind, attestVerifies
  <2> QED  BY <1>1, <2>1, <2>2 DEF Copies
<1>12. Saved'
  BY <1>1, <1>2, <1>3, <1>4, <1>5, <1>6, Memory DEF PlainRunInv, Saved, Resumed, Saving,
     Opening, Working, Judging, Ending
<1>13. Succeeds'
  BY <1>1, <1>2, <1>3, <1>4, <1>5, <1>6 DEF PlainRunInv, Succeeds, Succeeded, Success,
     Saving, Opening, Working, Judging, Ending
<1>14. Debts'
  BY <1>1, <1>2, <1>3, <1>4, <1>5, <1>6, Memory, Limits DEF PlainRunInv, Debts,
     DebtBounds, Saving, Opening, Working, Judging, Ending
<1>15. Earns'
  BY <1>1, <1>2, <1>3, <1>4, <1>5, <1>6 DEF PlainRunInv, Earns, Success
<1>16. Answered'
  BY <1>1, <1>2, <1>3, <1>4, <1>5, <1>6 DEF PlainRunInv, Answered
<1>17. TrackerMeetsHistory'
  BY <1>1, <1>2, <1>3, <1>4, <1>5, <1>6 DEF PlainRunInv, TrackerMeetsHistory
<1>18. DebtBounds'
  BY <1>1, <1>2, <1>3, <1>4, <1>5, <1>6, Memory, Limits DEF PlainRunInv, DebtBounds
<1> QED
  BY <1>7, <1>8, <1>9, <1>10, <1>11, <1>12, <1>13, <1>14, <1>15, <1>16, <1>17, <1>18 DEF
     PlainRunInv

\* The last save fails, and the process ends.
LEMMA SaveDiedInv ==
  ASSUME PlainRunInv, Saving, then = "answer", Dies,
         answer' = [run |-> st.run, start |-> st.start, code |-> 50],
         lost' \in BOOLEAN, faults' \in Nat, faults' + ops \in 0..MaxTrouble,
         \/ saved' = saved
         \/ pc = "save" /\ saved' = [saved EXCEPT ![st.run] = Written(st)],
         \/ latest' = latest
         \/ pc = "point" /\ latest' = Written(st),
         UNCHANGED <<op, starts, ops, workspace, ghost>>
  PROVE  PlainRunInv'
<1>1. /\ pc' = "off" /\ then' = "off" /\ st' = None /\ tracker' = NewTracker /\ surface' = None
      /\ prior' = None /\ halt' = "none" /\ lost' = FALSE
      /\ answer' = [run |-> st.run, start |-> st.start, code |-> 50]
      /\ Saving /\ then = "answer" /\ faults' \in Nat /\ faults' + ops \in 0..MaxTrouble
      /\ saved' = saved \/ (pc = "save" /\ saved' = [saved EXCEPT ![st.run] = Written(st)])
      /\ latest' = latest \/ (pc = "point" /\ latest' = Written(st))
      /\ op' = op /\ starts' = starts /\ ops' = ops /\ history' = history
      /\ workspace' = workspace /\ initial' = initial /\ missing' = missing
      /\ unread' = unread /\ resumes' = resumes
  BY DEF ghost, Dies
<1>2. /\ st \in LoopState /\ st # None /\ st.start = starts /\ st.run \in RunID /\ answer = None
      /\ st.save \in Nat /\ starts \in Nat /\ st.debt \in Nat /\ pc # "off"
      /\ DOMAIN saved = RunID /\ DOMAIN saved' = RunID
      /\ \A r \in RunID : r # st.run => saved'[r] = saved[r]
      /\ saved'[st.run] \in {saved[st.run], Written(st)}
  BY <1>1, Memory DEF Saving
<1>3. /\ Written(st) \in LoopState /\ Written(st) # None
      /\ Written(st).run = st.run /\ Written(st).start = st.start /\ Written(st).save = st.save + 1
      /\ Written(st).iter = st.iter /\ Written(st).rc = st.rc /\ Written(st).fp = st.fp
      /\ Written(st).halt = st.halt /\ Written(st).ever = st.ever /\ Written(st).debt = st.debt
      /\ Written(st).base \in {None, st.base}
  BY <1>2, WrittenState
<1>4. st.halt = halt /\ (pc = "point" => saved[st.run] = Written(st))
  BY <1>1 DEF PlainRunInv, Lives, Saved, Saving, Ending
<1>5. st.halt = Success => halt = Success
  BY <1>4
<1>6. TypeOK'
  <2>1. tracker'.bestSize \in 0..tracker'.initialSize /\ tracker'.prev \in tracker'.seen \union {{}}
    BY <1>1 DEF NewTracker
  <2>2. saved' \in [RunID -> LoopState \union {None}] /\ latest' \in LoopState \union {None}
    BY <1>1, <1>2, <1>3 DEF PlainRunInv, TypeOK
  <2> QED  BY <1>1, <2>1, <2>2 DEF PlainRunInv, TypeOK, Reasons
<1>7. MoreTypes'
  BY <1>1, <1>2, <1>3, <1>4, <1>5, NewTrackerType DEF PlainRunInv, MoreTypes
<1>8. Lives'
  BY <1>1, <1>2, <1>3, <1>4, <1>5 DEF PlainRunInv, Lives, Saving, Opening, Working,
     Judging, Ending
<1>9. Tracks'
  BY <1>1, <1>2 DEF PlainRunInv, Tracks, NewTracker, Saving, Opening, Working, Judging
<1>10. Copies'
  <2>1. /\ latest # None => saved'[latest.run] # None /\ Behind(latest, saved'[latest.run])
        /\ op # None => saved'[op.run] # None /\ Behind(op, saved'[op.run])
    BY <1>1, <1>2, StillBehind DEF PlainRunInv, Copies, TypeOK, LoopState
  <2>2. ASSUME pc = "point", latest' = Written(st)
        PROVE  saved'[latest'.run] # None /\ Behind(latest', saved'[latest'.run])
    <3>1. saved'[latest'.run] = latest'
      BY <1>1, <1>2, <1>3, <2>2 DEF PlainRunInv, Saved
    <3> QED  BY <1>3, <2>2, <3>1 DEF Behind, attestVerifies
  <2> QED  BY <1>1, <2>1, <2>2 DEF Copies
<1>11. Saved'
  BY <1>1, <1>2, <1>3, <1>4, <1>5, Memory DEF PlainRunInv, Saved, Resumed, Saving,
     Opening, Working, Judging, Ending
<1>12. Succeeds'
  BY <1>1, <1>2, <1>3, <1>4, <1>5 DEF PlainRunInv, Succeeds, Succeeded, Success, Saving,
     Opening, Working, Judging, Ending
<1>13. Debts'
  BY <1>1, <1>2, <1>3, <1>4, <1>5, Memory, Limits DEF PlainRunInv, Debts, DebtBounds,
     Saving, Opening, Working, Judging, Ending
<1>14. Earns'
  BY <1>1, <1>2, <1>3, <1>4, <1>5 DEF PlainRunInv, Earns, Succeeds, Tracks, Saving, Success
<1>15. Answered'
  BY <1>1, <1>2, <1>3, <1>4, <1>5 DEF PlainRunInv, Answered
<1>16. TrackerMeetsHistory'
  BY <1>1, <1>2, <1>3, <1>4, <1>5 DEF PlainRunInv, TrackerMeetsHistory
<1>17. DebtBounds'
  BY <1>1, <1>2, <1>3, <1>4, <1>5, Memory, Limits DEF PlainRunInv, DebtBounds
<1> QED
  BY <1>6, <1>7, <1>8, <1>9, <1>10, <1>11, <1>12, <1>13, <1>14, <1>15, <1>16, <1>17 DEF
     PlainRunInv

\* The loop ends before a verdict.
LEMMA StopsInv ==
  ASSUME PlainRunInv, NEW reason \in Reasons \ {"none"}, reason = Success => halt = Success,
         pc \in {"baseline", "loop", "exec", "members", "check", "judge"}, Stop(reason),
         UNCHANGED <<files, then, st, tracker, surface, prior, lost, op, answer, bounds, workspace, ghost>>
  PROVE  PlainRunInv'
<1>1. /\ pc \in {"baseline", "loop", "exec", "members", "check", "judge"} /\ pc' = "finish"
      /\ halt' \in Reasons /\ halt' # "none" /\ (halt' = Success => halt = Success)
      /\ saved' = saved /\ latest' = latest /\ then' = then /\ st' = st
      /\ tracker' = tracker /\ surface' = surface /\ prior' = prior /\ lost' = lost
      /\ op' = op /\ answer' = answer /\ starts' = starts /\ faults' = faults /\ ops' = ops
      /\ history' = history /\ workspace' = workspace /\ initial' = initial
      /\ missing' = missing /\ unread' = unread /\ resumes' = resumes
  BY DEF Stop, Success, files, bounds, ghost
<1>2. /\ st \in LoopState /\ st # None /\ st.start = starts /\ st.run \in RunID /\ answer = None
      /\ starts \in Nat /\ st.debt \in Nat /\ pc # "off"
  BY <1>1, Memory
<1>3. TypeOK'
  BY <1>1, <1>2, Limits DEF PlainRunInv, TypeOK
<1>4. MoreTypes'
  BY <1>1, <1>2 DEF PlainRunInv, MoreTypes
<1>5. Lives'
  BY <1>1, <1>2 DEF PlainRunInv, Lives, Saving, Opening, Working, Judging, Ending
<1>6. Tracks'
  BY <1>1, <1>2 DEF PlainRunInv, Tracks, Saving, Opening, Working, Judging, Ending
<1>7. Copies'
  BY <1>1, <1>2, Memory DEF PlainRunInv, Copies, Behind, attestVerifies, signReceipt,
     canonicalReceipt
<1>8. Saved'
  BY <1>1, <1>2, Memory DEF PlainRunInv, Saved, Resumed, Saving, Opening, Working,
     Judging, Ending
<1>9. Succeeds'
  BY <1>1, <1>2 DEF PlainRunInv, Succeeds, Succeeded, Success, Saving, Opening, Working,
     Judging, Ending
<1>10. Debts'
  BY <1>1, <1>2, Memory, Limits DEF PlainRunInv, Debts, DebtBounds, Saving, Opening,
     Working, Judging, Ending
<1>11. Earns'
  BY <1>1, <1>2 DEF PlainRunInv, Earns, Success
<1>12. Answered'
  BY <1>1, <1>2 DEF PlainRunInv, Answered
<1>13. TrackerMeetsHistory'
  BY <1>1, <1>2 DEF PlainRunInv, TrackerMeetsHistory
<1>14. DebtBounds'
  BY <1>1, <1>2, Memory, Limits DEF PlainRunInv, DebtBounds
<1> QED
  BY <1>3, <1>4, <1>5, <1>6, <1>7, <1>8, <1>9, <1>10, <1>11, <1>12, <1>13, <1>14 DEF
     PlainRunInv

\* The baseline is taken, as it was saved if the run was resumed.
LEMMA BaselineTakenInv ==
  ASSUME PlainRunInv, NEW members \in SUBSET Surface, pc = "baseline", Keeps(members),
         st' = [st EXCEPT !.base = members], surface' = members, missing' = Surface \ members,
         initial' = (IF Resumed THEN initial ELSE [initial EXCEPT ![st.run] = members]),
         IF prior = "success_condition_met"
         THEN Stop("success_condition_met") ELSE pc' = "loop" /\ UNCHANGED halt,
         UNCHANGED <<then, tracker, workspace, history, quiet>>
  PROVE  PlainRunInv'
<1>1. /\ pc = "baseline" /\ Keeps(members) /\ st' = [st EXCEPT !.base = members]
      /\ surface' = members /\ missing' = Surface \ members
      /\ initial' = (IF Resumed THEN initial ELSE [initial EXCEPT ![st.run] = members])
      /\ \/ prior = Success /\ pc' = "finish" /\ halt' = Success
         \/ prior # Success /\ pc' = "loop" /\ halt' = halt
      /\ saved' = saved /\ latest' = latest /\ then' = then /\ tracker' = tracker
      /\ prior' = prior /\ lost' = lost /\ op' = op /\ answer' = answer /\ starts' = starts
      /\ faults' = faults /\ ops' = ops /\ history' = history /\ workspace' = workspace
      /\ unread' = unread /\ resumes' = resumes
  BY DEF Stop, Success, quiet, files, bounds
<1>2. /\ st \in LoopState /\ st # None /\ st.start = starts /\ st.run \in RunID /\ answer = None
      /\ starts \in Nat /\ st.debt \in Nat /\ pc # "off"
  BY <1>1, Memory
<1>3. /\ halt = "none" /\ history = <<>> /\ saved[st.run] # None /\ saved[st.run].start = starts
      /\ saved[st.run].halt = "none" /\ st.halt = "none" /\ st.base \in {None, initial[st.run]}
      /\ ~Resumed => saved[st.run].base = None
      /\ initial \in [RunID -> SUBSET Surface]
  BY <1>1, <1>2 DEF PlainRunInv, MoreTypes, Lives, Tracks, Saved, Saving, Opening, Judging, Ending
<1>4. /\ st' \in LoopState /\ st' # None /\ st'.base = members /\ members # None
      /\ st'.run = st.run /\ st'.start = st.start /\ st'.iter = st.iter /\ st'.rc = st.rc
      /\ st'.fp = st.fp /\ st'.halt = st.halt /\ st'.ever = st.ever /\ st'.debt = st.debt
      /\ st'.save = st.save
  <2>1. st' \in LoopState
    BY <1>1, <1>2 DEF LoopState
  <2> QED  BY <1>1, <1>2, <2>1, Limits DEF LoopState
<1>5. /\ initial' \in [RunID -> SUBSET Surface] /\ initial'[st.run] = members
      /\ \A r \in RunID : r # st.run => initial'[r] = initial[r]
  BY <1>1, <1>2, <1>3, <1>4 DEF Keeps
<1>6. Success \in Reasons
  BY DEF Success, Reasons, Judged
<1>7. TypeOK'
  BY <1>1, <1>2, <1>3, <1>4, <1>5, <1>6, Limits DEF PlainRunInv, TypeOK
<1>8. MoreTypes'
  BY <1>1, <1>2, <1>3, <1>4, <1>5, <1>6 DEF PlainRunInv, MoreTypes
<1>9. Lives'
  BY <1>1, <1>2, <1>3, <1>4, <1>5, <1>6 DEF PlainRunInv, Lives, Saving, Opening,
     Working, Judging, Ending
<1>10. Tracks'
  BY <1>1, <1>2, <1>3, <1>4, <1>5, <1>6 DEF PlainRunInv, Tracks, Saving, Opening,
     Working, Judging, Ending
<1>11. Copies'
  BY <1>1, <1>2, <1>3, <1>4, <1>5, <1>6, Memory DEF PlainRunInv, Copies, Behind,
     attestVerifies, signReceipt, canonicalReceipt
<1>12. Saved'
  BY <1>1, <1>2, <1>3, <1>4, <1>5, <1>6, Memory DEF PlainRunInv, Saved, Resumed, Saving,
     Opening, Working, Judging, Ending
<1>13. Succeeds'
  BY <1>1, <1>2, <1>3, <1>4, <1>5, <1>6 DEF PlainRunInv, Succeeds, Succeeded, Success,
     Saving, Opening, Working, Judging, Ending
<1>14. Debts'
  BY <1>1, <1>2, <1>3, <1>4, <1>5, <1>6, Memory, Limits DEF PlainRunInv, Debts,
     DebtBounds, Saving, Opening, Working, Judging, Ending
<1>15. Earns'
  BY <1>1, <1>2, <1>3, <1>4, <1>5, <1>6 DEF PlainRunInv, Earns, Success, Saved
<1>16. Answered'
  BY <1>1, <1>2, <1>3, <1>4, <1>5, <1>6 DEF PlainRunInv, Answered
<1>17. TrackerMeetsHistory'
  BY <1>1, <1>2, <1>3, <1>4, <1>5, <1>6 DEF PlainRunInv, TrackerMeetsHistory
<1>18. DebtBounds'
  BY <1>1, <1>2, <1>3, <1>4, <1>5, <1>6, Memory, Limits DEF PlainRunInv, DebtBounds
<1> QED
  BY <1>7, <1>8, <1>9, <1>10, <1>11, <1>12, <1>13, <1>14, <1>15, <1>16, <1>17, <1>18 DEF
     PlainRunInv

\* An iteration begins.
LEMMA IterStartedInv ==
  ASSUME PlainRunInv, pc = "loop", halt = "none", ~AtCap(st.iter), Save("exec"),
         st' = [st EXCEPT !.iter = @ + 1, !.phase = "attempting",
                          !.fp = IF st.run \in WorkflowRuns THEN 0 ELSE @],
         UNCHANGED <<halt, tracker, surface, workspace, history, initial, missing, quiet>>
  PROVE  PlainRunInv'
<1>1. /\ pc = "loop" /\ halt = "none" /\ ~AtCap(st.iter) /\ pc' = "save" /\ then' = "exec"
      /\ st' = [st EXCEPT !.iter = @ + 1, !.phase = "attempting",
                          !.fp = IF st.run \in WorkflowRuns THEN 0 ELSE @]
      /\ saved' = saved /\ latest' = latest /\ tracker' = tracker /\ surface' = surface
      /\ prior' = prior /\ halt' = halt /\ lost' = lost /\ op' = op /\ answer' = answer
      /\ starts' = starts /\ faults' = faults /\ ops' = ops /\ history' = history
      /\ workspace' = workspace /\ initial' = initial /\ missing' = missing
      /\ unread' = unread /\ resumes' = resumes
  BY DEF Save, quiet, files, bounds
<1>2. /\ st \in LoopState /\ st # None /\ st.start = starts /\ st.run \in RunID /\ answer = None
      /\ starts \in Nat /\ st.debt \in Nat /\ pc # "off"
  BY <1>1, Memory
<1>3. /\ st' \in LoopState /\ st' # None /\ st'.iter = st.iter + 1 /\ st.iter \in Nat
      /\ st'.run = st.run /\ st'.start = st.start /\ st'.rc = st.rc /\ st'.halt = st.halt
      /\ st'.ever = st.ever /\ st'.debt = st.debt /\ st'.base = st.base /\ st'.save = st.save
  <2>1. st.iter \in Nat /\ st.iter + 1 \in 0..MaxIterations
    BY <1>1, <1>2, Memory, Limits DEF AtCap
  <2>2. st' \in LoopState
    <3>1. (IF st.run \in WorkflowRuns THEN 0 ELSE st.fp) \in 0..MaxIterations
      BY <1>2, Limits DEF LoopState
    <3> QED  BY <1>1, <1>2, <2>1, <3>1 DEF LoopState
  <2> QED  BY <1>1, <1>2, <2>1, <2>2, Limits DEF LoopState
<1>4. \A j \in 1..Len(history) : history[j].iter \in Nat
  <2>1. \A j \in 1..Len(history) : history[j] \in Shown
    BY ElementOfSeq DEF PlainRunInv, MoreTypes
  <2> QED  BY <2>1 DEF Shown
<1>5. TypeOK'
  BY <1>1, <1>2, <1>3, <1>4, Limits DEF PlainRunInv, TypeOK
<1>6. MoreTypes'
  BY <1>1, <1>2, <1>3, <1>4 DEF PlainRunInv, MoreTypes
<1>7. Lives'
  BY <1>1, <1>2, <1>3, <1>4 DEF PlainRunInv, Lives, Saving, Opening, Working, Judging,
     Ending
<1>8. Tracks'
  BY <1>1, <1>2, <1>3, <1>4 DEF PlainRunInv, Tracks, Saving, Opening, Working, Judging,
     Ending
<1>9. Copies'
  BY <1>1, <1>2, <1>3, <1>4, Memory DEF PlainRunInv, Copies, Behind, attestVerifies,
     signReceipt, canonicalReceipt
<1>10. Saved'
  BY <1>1, <1>2, <1>3, <1>4, Memory DEF PlainRunInv, Saved, Resumed, Saving, Opening,
     Working, Judging, Ending
<1>11. Succeeds'
  BY <1>1, <1>2, <1>3, <1>4 DEF PlainRunInv, Succeeds, Succeeded, Success, Saving,
     Opening, Working, Judging, Ending
<1>12. Debts'
  BY <1>1, <1>2, <1>3, <1>4, Memory, Limits DEF PlainRunInv, Debts, DebtBounds, Saving,
     Opening, Working, Judging, Ending
<1>13. Earns'
  BY <1>1, <1>2, <1>3, <1>4 DEF PlainRunInv, Earns, Success
<1>14. Answered'
  BY <1>1, <1>2, <1>3, <1>4 DEF PlainRunInv, Answered
<1>15. TrackerMeetsHistory'
  BY <1>1, <1>2, <1>3, <1>4 DEF PlainRunInv, TrackerMeetsHistory
<1>16. DebtBounds'
  BY <1>1, <1>2, <1>3, <1>4, Memory, Limits DEF PlainRunInv, DebtBounds
<1> QED
  BY <1>5, <1>6, <1>7, <1>8, <1>9, <1>10, <1>11, <1>12, <1>13, <1>14, <1>15, <1>16 DEF
     PlainRunInv

\* The work command is run.
LEMMA ExecInv ==
  ASSUME PlainRunInv, Exec
  PROVE  PlainRunInv'
<1>1. /\ pc = "exec" /\ workspace' = [run |-> st.run, iter |-> st.iter]
      /\ \/ pc' = "members" /\ halt' = halt
         \/ pc' = "finish" /\ halt' = "execution_failure"
      /\ saved' = saved /\ latest' = latest /\ then' = then /\ st' = st
      /\ tracker' = tracker /\ surface' = surface /\ prior' = prior /\ lost' = lost
      /\ op' = op /\ answer' = answer /\ starts' = starts /\ faults' = faults /\ ops' = ops
      /\ history' = history /\ initial' = initial /\ missing' = missing /\ unread' = unread
      /\ resumes' = resumes
  BY DEF Exec, Stop, quiet, files, bounds
<1>2. /\ st \in LoopState /\ st # None /\ st.start = starts /\ st.run \in RunID /\ answer = None
      /\ starts \in Nat /\ st.debt \in Nat /\ pc # "off"
  BY <1>1, Memory
<1>3. /\ halt = "none" /\ saved[st.run] # None /\ saved[st.run].halt = "none" /\ st.halt = "none"
      /\ st.iter \in 0..MaxIterations /\ \A r \in RunID : saved[r] # None => saved[r].run = r
  BY <1>1, <1>2, Memory DEF PlainRunInv, Lives, Saved, Saving, Working, Judging, Ending
<1>4. TypeOK'
  BY <1>1, <1>2, <1>3, Limits DEF PlainRunInv, TypeOK, Reasons
<1>5. MoreTypes'
  BY <1>1, <1>2, <1>3 DEF PlainRunInv, MoreTypes
<1>6. Lives'
  BY <1>1, <1>2, <1>3 DEF PlainRunInv, Lives, Saving, Opening, Working, Judging, Ending
<1>7. Tracks'
  BY <1>1, <1>2, <1>3 DEF PlainRunInv, Tracks, Saving, Opening, Working, Judging, Ending
<1>8. Copies'
  BY <1>1, <1>2, <1>3, Memory DEF PlainRunInv, Copies, Behind, attestVerifies,
     signReceipt, canonicalReceipt
<1>9. Saved'
  BY <1>1, <1>2, <1>3, Memory DEF PlainRunInv, Saved, Resumed, Saving, Opening, Working,
     Judging, Ending
<1>10. Succeeds'
  BY <1>1, <1>2, <1>3 DEF PlainRunInv, Succeeds, Succeeded, Success, Saving, Opening,
     Working, Judging, Ending
<1>11. Debts'
  BY <1>1, <1>2, <1>3, Memory, Limits DEF PlainRunInv, Debts, DebtBounds, Saving,
     Opening, Working, Judging, Ending
<1>12. Earns'
  BY <1>1, <1>2, <1>3 DEF PlainRunInv, Earns, Success
<1>13. Answered'
  BY <1>1, <1>2, <1>3 DEF PlainRunInv, Answered
<1>14. TrackerMeetsHistory'
  BY <1>1, <1>2, <1>3 DEF PlainRunInv, TrackerMeetsHistory
<1>15. DebtBounds'
  BY <1>1, <1>2, <1>3, Memory, Limits DEF PlainRunInv, DebtBounds
<1> QED
  BY <1>4, <1>5, <1>6, <1>7, <1>8, <1>9, <1>10, <1>11, <1>12, <1>13, <1>14, <1>15 DEF
     PlainRunInv

\* The integrity members are collected again.
LEMMA MembersInv ==
  ASSUME PlainRunInv, Members
  PROVE  PlainRunInv'
<1>1. /\ pc = "members"
      /\ \/ pc' = "finish" /\ halt' = "metric_integrity_violation" /\ missing' \in SUBSET Surface
         \/ /\ pc' = "check" /\ halt' = halt
            /\ \E current \in SUBSET Surface :
                 missing' = Surface \ current /\ missingMembers(surface, current) = {}
      /\ saved' = saved /\ latest' = latest /\ then' = then /\ st' = st
      /\ tracker' = tracker /\ surface' = surface /\ prior' = prior /\ lost' = lost
      /\ op' = op /\ answer' = answer /\ starts' = starts /\ faults' = faults /\ ops' = ops
      /\ history' = history /\ workspace' = workspace /\ initial' = initial
      /\ unread' = unread /\ resumes' = resumes
  BY DEF Members, Stop, quiet, files, bounds, PlainRunInv, MoreTypes
<1>2. /\ st \in LoopState /\ st # None /\ st.start = starts /\ st.run \in RunID /\ answer = None
      /\ starts \in Nat /\ st.debt \in Nat /\ pc # "off"
  BY <1>1, Memory
<1>3. /\ halt = "none" /\ saved[st.run] # None /\ saved[st.run].start = starts
      /\ saved[st.run].halt = "none" /\ st.halt = "none" /\ surface = initial[st.run]
      /\ \A r \in RunID : saved[r] # None /\ saved[r].start = starts => r = st.run
  BY <1>1, <1>2 DEF PlainRunInv, Lives, Saved, Saving, Working, Judging, Ending
<1>4. missing' \in SUBSET Surface /\ (pc' = "check" => initial[st.run] \intersect missing' = {})
  BY <1>1, <1>3 DEF missingMembers
<1>5. TypeOK'
  BY <1>1, <1>2, <1>3, <1>4, Limits DEF PlainRunInv, TypeOK, Reasons
<1>6. MoreTypes'
  BY <1>1, <1>2, <1>3, <1>4 DEF PlainRunInv, MoreTypes
<1>7. Lives'
  BY <1>1, <1>2, <1>3, <1>4 DEF PlainRunInv, Lives, Saving, Opening, Working, Judging,
     Ending
<1>8. Tracks'
  BY <1>1, <1>2, <1>3, <1>4 DEF PlainRunInv, Tracks, Saving, Opening, Working, Judging,
     Ending
<1>9. Copies'
  BY <1>1, <1>2, <1>3, <1>4, Memory DEF PlainRunInv, Copies, Behind, attestVerifies,
     signReceipt, canonicalReceipt
<1>10. Saved'
  BY <1>1, <1>2, <1>3, <1>4, Memory DEF PlainRunInv, Saved, Resumed, Saving, Opening,
     Working, Judging, Ending
<1>11. Succeeds'
  BY <1>1, <1>2, <1>3, <1>4 DEF PlainRunInv, Succeeds, Succeeded, Success, Saving,
     Opening, Working, Judging, Ending
<1>12. Debts'
  BY <1>1, <1>2, <1>3, <1>4, Memory, Limits DEF PlainRunInv, Debts, DebtBounds, Saving,
     Opening, Working, Judging, Ending
<1>13. Earns'
  BY <1>1, <1>2, <1>3, <1>4 DEF PlainRunInv, Earns, Success
<1>14. Answered'
  BY <1>1, <1>2, <1>3, <1>4 DEF PlainRunInv, Answered
<1>15. TrackerMeetsHistory'
  BY <1>1, <1>2, <1>3, <1>4 DEF PlainRunInv, TrackerMeetsHistory
<1>16. DebtBounds'
  BY <1>1, <1>2, <1>3, <1>4, Memory, Limits DEF PlainRunInv, DebtBounds
<1> QED
  BY <1>5, <1>6, <1>7, <1>8, <1>9, <1>10, <1>11, <1>12, <1>13, <1>14, <1>15, <1>16 DEF
     PlainRunInv

\* The check answers.
LEMMA CheckedInv ==
  ASSUME PlainRunInv, NEW rc \in {0, 1}, pc = "check", pc' = "judge",
         st' = [st EXCEPT !.rc = rc, !.fp = st.iter],
         UNCHANGED <<halt, then, tracker, surface, workspace, history, initial, missing, quiet>>
  PROVE  PlainRunInv'
<1>1. /\ pc = "check" /\ pc' = "judge" /\ st' = [st EXCEPT !.rc = rc, !.fp = st.iter]
      /\ saved' = saved /\ latest' = latest /\ then' = then /\ tracker' = tracker
      /\ surface' = surface /\ prior' = prior /\ halt' = halt /\ lost' = lost /\ op' = op
      /\ answer' = answer /\ starts' = starts /\ faults' = faults /\ ops' = ops
      /\ history' = history /\ workspace' = workspace /\ initial' = initial
      /\ missing' = missing /\ unread' = unread /\ resumes' = resumes
  BY DEF quiet, files, bounds
<1>2. /\ st \in LoopState /\ st # None /\ st.start = starts /\ st.run \in RunID /\ answer = None
      /\ starts \in Nat /\ st.debt \in Nat /\ pc # "off"
  BY <1>1, Memory
<1>3. /\ st' \in LoopState /\ st' # None /\ st'.iter = st.iter /\ st'.fp = st.iter
      /\ st'.run = st.run /\ st'.start = st.start /\ st'.halt = st.halt
      /\ st'.ever = st.ever /\ st'.debt = st.debt /\ st'.base = st.base /\ st'.save = st.save
  <2>1. st' \in LoopState
    BY <1>1, <1>2 DEF LoopState
  <2> QED  BY <1>1, <1>2, <2>1, Limits DEF LoopState
<1>4. halt = "none" /\ st.halt = "none"
  BY <1>1, <1>2 DEF PlainRunInv, Lives, Saved, Saving, Working, Judging, Ending
<1>5. TypeOK'
  BY <1>1, <1>2, <1>3, <1>4, Limits DEF PlainRunInv, TypeOK
<1>6. MoreTypes'
  BY <1>1, <1>2, <1>3, <1>4 DEF PlainRunInv, MoreTypes
<1>7. Lives'
  BY <1>1, <1>2, <1>3, <1>4 DEF PlainRunInv, Lives, Saving, Opening, Working, Judging,
     Ending
<1>8. Tracks'
  BY <1>1, <1>2, <1>3, <1>4 DEF PlainRunInv, Tracks, Saving, Opening, Working, Judging,
     Ending
<1>9. Copies'
  BY <1>1, <1>2, <1>3, <1>4, Memory DEF PlainRunInv, Copies, Behind, attestVerifies,
     signReceipt, canonicalReceipt
<1>10. Saved'
  BY <1>1, <1>2, <1>3, <1>4, Memory DEF PlainRunInv, Saved, Resumed, Saving, Opening,
     Working, Judging, Ending
<1>11. Succeeds'
  BY <1>1, <1>2, <1>3, <1>4 DEF PlainRunInv, Succeeds, Succeeded, Success, Saving,
     Opening, Working, Judging, Ending, Saved
<1>12. Debts'
  BY <1>1, <1>2, <1>3, <1>4, Memory, Limits DEF PlainRunInv, Debts, DebtBounds, Saving,
     Opening, Working, Judging, Ending
<1>13. Earns'
  BY <1>1, <1>2, <1>3, <1>4 DEF PlainRunInv, Earns, Success
<1>14. Answered'
  BY <1>1, <1>2, <1>3, <1>4 DEF PlainRunInv, Answered
<1>15. TrackerMeetsHistory'
  BY <1>1, <1>2, <1>3, <1>4 DEF PlainRunInv, TrackerMeetsHistory
<1>16. DebtBounds'
  BY <1>1, <1>2, <1>3, <1>4, Memory, Limits DEF PlainRunInv, DebtBounds
<1> QED
  BY <1>5, <1>6, <1>7, <1>8, <1>9, <1>10, <1>11, <1>12, <1>13, <1>14, <1>15, <1>16 DEF
     PlainRunInv

\* A green check is a success, unless the context has ended.
LEMMA JudgedGreenInv ==
  ASSUME PlainRunInv, pc = "judge", st.rc = 0, EverAs(st', st, st.ever),
         \/ /\ pc' = "finish" /\ halt' = "execution_failure" /\ then' = then
            /\ unread' = unread
         \/ /\ pc' = "save" /\ then' = "count"
            /\ halt' = Success /\ unread' = [unread EXCEPT ![st.run] = @ + 1],
         UNCHANGED <<tracker, history>>,
         UNCHANGED <<surface, workspace, prior, initial, missing, files, lost, op, answer, bounds, resumes>>
  PROVE  PlainRunInv'
<1>1. /\ pc = "judge" /\ st.rc = 0 /\ EverAs(st', st, st.ever)
      /\ \/ /\ pc' = "finish" /\ halt' = "execution_failure" /\ then' = then
            /\ unread' = unread
         \/ /\ pc' = "save" /\ then' = "count"
            /\ halt' = Success /\ unread' = [unread EXCEPT ![st.run] = @ + 1]
      /\ saved' = saved /\ latest' = latest /\ tracker' = tracker /\ surface' = surface
      /\ prior' = prior /\ lost' = lost /\ op' = op /\ answer' = answer /\ starts' = starts
      /\ faults' = faults /\ ops' = ops /\ history' = history /\ workspace' = workspace
      /\ initial' = initial /\ missing' = missing /\ resumes' = resumes
  BY DEF files, bounds
<1>2. /\ st \in LoopState /\ st # None /\ st.start = starts /\ st.run \in RunID /\ answer = None
      /\ starts \in Nat /\ st.debt \in Nat /\ pc # "off"
  BY <1>1, Memory
<1>3. /\ st' \in LoopState /\ st' # None /\ st'.iter = st.iter /\ st'.fp = st.fp /\ st'.rc = st.rc
      /\ st'.run = st.run /\ st'.start = st.start /\ st'.halt = st.halt
      /\ st'.debt = st.debt /\ st'.base = st.base /\ st'.save = st.save /\ st'.ever = st.ever
  <2>1. st.ever \in BOOLEAN
    BY <1>2 DEF LoopState
  <2> QED  BY <1>1, <1>2, <2>1, EverState
<1>4. /\ halt = "none" /\ st.halt = "none" /\ saved[st.run] # None /\ saved[st.run].start = starts
      /\ saved[st.run].halt = "none" /\ saved[st.run].debt = st.debt /\ st.iter >= 1
      /\ st.iter \in 0..MaxIterations /\ unread[st.run] \in Nat
      /\ unread[st.run] <= st.debt + resumes[st.run]
  BY <1>1, <1>2, Memory DEF PlainRunInv, Lives, Saved, Debts, Saving, Working, Judging, Ending
<1>5. /\ \A r \in RunID : unread[r] \in Nat /\ resumes[r] \in Nat
      /\ pc' = "save" => unread'[st.run] = unread[st.run] + 1
      /\ \A r \in RunID : r # st.run => unread'[r] = unread[r]
      /\ pc' = "finish" => unread' = unread
      /\ unread' \in [RunID -> Nat]
  <2>1. unread \in [RunID -> Nat] /\ resumes \in [RunID -> Nat]
    BY Memory
  <2>2. \/ pc' = "finish" /\ unread' = unread
        \/ pc' = "save" /\ unread' = [unread EXCEPT ![st.run] = @ + 1]
    BY <1>1
  <2> QED  BY <1>2, <2>1, <2>2
<1>6. TypeOK'
  BY <1>1, <1>2, <1>3, <1>4, <1>5, Limits DEF PlainRunInv, TypeOK, Reasons, Judged,
     Success
<1>7. MoreTypes'
  BY <1>1, <1>2, <1>3, <1>4, <1>5 DEF PlainRunInv, MoreTypes
<1>8. Lives'
  BY <1>1, <1>2, <1>3, <1>4, <1>5 DEF PlainRunInv, Lives, Saving, Opening, Working,
     Judging, Ending
<1>9. Tracks'
  BY <1>1, <1>2, <1>3, <1>4, <1>5 DEF PlainRunInv, Tracks, Saving, Opening, Working,
     Judging, Ending
<1>10. Copies'
  BY <1>1, <1>2, <1>3, <1>4, <1>5, Memory DEF PlainRunInv, Copies, Behind,
     attestVerifies, signReceipt, canonicalReceipt
<1>11. Saved'
  BY <1>1, <1>2, <1>3, <1>4, <1>5, Memory DEF PlainRunInv, Saved, Resumed, Saving,
     Opening, Working, Judging, Ending
<1>12. Succeeds'
  BY <1>1, <1>2, <1>3, <1>4, <1>5 DEF PlainRunInv, Succeeds, Succeeded, Success, Saving,
     Opening, Working, Judging, Ending
<1>13. Debts'
  BY <1>1, <1>2, <1>3, <1>4, <1>5, Memory, Limits DEF PlainRunInv, Debts, DebtBounds,
     Saving, Opening, Working, Judging, Ending
<1>14. Earns'
  BY <1>1, <1>2, <1>3, <1>4, <1>5 DEF PlainRunInv, Earns, Success
<1>15. Answered'
  BY <1>1, <1>2, <1>3, <1>4, <1>5 DEF PlainRunInv, Answered
<1>16. TrackerMeetsHistory'
  BY <1>1, <1>2, <1>3, <1>4, <1>5 DEF PlainRunInv, TrackerMeetsHistory
<1>17. DebtBounds'
  BY <1>1, <1>2, <1>3, <1>4, <1>5, Memory, Limits DEF PlainRunInv, DebtBounds, Debts,
     Working, Judging
<1> QED
  BY <1>6, <1>7, <1>8, <1>9, <1>10, <1>11, <1>12, <1>13, <1>14, <1>15, <1>16, <1>17 DEF
     PlainRunInv

\* The failing set of a red check is shown to the tracker, and the verdict is its own,
\* unless the context has ended.
LEMMA JudgedRedInv ==
  ASSUME PlainRunInv, NEW F \in SUBSET Failures, pc = "judge", Progressed(F),
         EverAs(st', st, tracker'.everImproved),
         \/ /\ pc' = "finish" /\ halt' = "execution_failure" /\ then' = then /\ unread' = unread
         \/ /\ pc' = "save" /\ then' = "count"
            /\ halt' = Verdict(tracker, st.iter, F, NoProgressK)
            /\ unread' = [unread EXCEPT ![st.run] = @ + 1],
         UNCHANGED <<surface, workspace, prior, initial, missing, files, lost, op, answer, bounds, resumes>>
  PROVE  PlainRunInv'
<1>1. /\ pc = "judge" /\ EverAs(st', st, tracker'.everImproved)
      /\ tracker' = Observe(tracker, st.iter, F)
      /\ history' = Append(history, [iter |-> st.iter, F |-> F,
                                     said |-> Verdict(tracker, st.iter, F, NoProgressK)])
      /\ \/ /\ pc' = "finish" /\ halt' = "execution_failure" /\ then' = then /\ unread' = unread
         \/ /\ pc' = "save" /\ then' = "count"
            /\ halt' = Verdict(tracker, st.iter, F, NoProgressK)
            /\ unread' = [unread EXCEPT ![st.run] = @ + 1]
      /\ saved' = saved /\ latest' = latest /\ surface' = surface /\ prior' = prior
      /\ lost' = lost /\ op' = op /\ answer' = answer /\ starts' = starts
      /\ faults' = faults /\ ops' = ops /\ workspace' = workspace /\ initial' = initial
      /\ missing' = missing /\ resumes' = resumes
  BY DEF Progressed, files, bounds
<1>2. /\ st \in LoopState /\ st # None /\ st.start = starts /\ st.run \in RunID /\ answer = None
      /\ starts \in Nat /\ st.debt \in Nat /\ pc # "off"
      /\ tracker \in Trackers /\ history \in Seq(Shown) /\ st.iter \in Nat
      /\ tracker' \in Trackers /\ tracker'.everImproved \in BOOLEAN
  <2>1. /\ pc # "off" /\ tracker \in Trackers /\ history \in Seq(Shown) /\ st.iter \in Nat
    BY <1>1, Memory, Limits DEF PlainRunInv, MoreTypes
  <2>2. tracker' \in Trackers
    BY <1>1, <2>1, ObserveType
  <2> QED  BY <2>1, <2>2, Memory DEF Trackers
<1>3. /\ st' \in LoopState /\ st' # None /\ st'.iter = st.iter /\ st'.fp = st.fp /\ st'.rc = st.rc
      /\ st'.run = st.run /\ st'.start = st.start /\ st'.halt = st.halt
      /\ st'.debt = st.debt /\ st'.base = st.base /\ st'.save = st.save
      /\ st'.ever = tracker'.everImproved
  BY <1>1, <1>2, EverState
<1>4. /\ halt = "none" /\ st.halt = "none" /\ saved[st.run] # None /\ saved[st.run].start = starts
      /\ saved[st.run].halt = "none" /\ saved[st.run].debt = st.debt /\ st.iter >= 1
      /\ st.iter \in 0..MaxIterations /\ unread[st.run] \in Nat
      /\ unread[st.run] <= st.debt + resumes[st.run]
  BY <1>1, <1>2, Memory DEF PlainRunInv, Lives, Saved, Debts, Saving, Working, Judging, Ending
<1>5. /\ \A r \in RunID : unread[r] \in Nat /\ resumes[r] \in Nat
      /\ pc' = "save" => unread'[st.run] = unread[st.run] + 1
      /\ \A r \in RunID : r # st.run => unread'[r] = unread[r]
      /\ pc' = "finish" => unread' = unread
      /\ unread' \in [RunID -> Nat]
  <2>1. unread \in [RunID -> Nat] /\ resumes \in [RunID -> Nat]
    BY Memory
  <2>2. \/ pc' = "finish" /\ unread' = unread
        \/ pc' = "save" /\ unread' = [unread EXCEPT ![st.run] = @ + 1]
    BY <1>1
  <2> QED  BY <1>2, <2>1, <2>2
<1> DEFINE said == Verdict(tracker, st.iter, F, NoProgressK)
           shown == [iter |-> st.iter, F |-> F, said |-> said]
<1>6. said \in {NoProgress, Oscillation, Regression, Progressing}
  BY DEF Verdict
<1>7. said \in Reasons /\ shown \in Shown /\ shown.iter = st.iter /\ shown.F = F /\ shown.said = said
      /\ said # Success
  BY <1>2, <1>6 DEF Reasons, Judged, Shown, NoProgress, Oscillation, Regression, Progressing, Success
<1> HIDE DEF said
<1>8. Extended(history, shown, history')
  BY <1>1, <1>2, <1>7, Shows DEF said
<1>9. /\ Summary(tracker, history)
      /\ \A j \in 1..Len(history) : history[j].iter < st.iter
      /\ \A j, n \in 1..Len(history) : j < n => history[j].iter < history[n].iter
  BY <1>1, <1>4 DEF PlainRunInv, Tracks, Working
<1>10. /\ said = VerdictOf(history', NoProgressK)
       /\ said = Progressing => Summary(tracker', history')
       /\ tracker'.everImproved => Improved(history')
  <2>1. history' = Append(history, shown)
    BY <1>1 DEF said
  <2>2. NoProgressK \in Nat \ {0}
    BY Limits
  <2> HIDE DEF shown
  <2>3. /\ Verdict(tracker, st.iter, F, NoProgressK) = VerdictOf(history', NoProgressK)
        /\ Verdict(tracker, st.iter, F, NoProgressK) = Progressing =>
             Summary(Observe(tracker, st.iter, F), history')
        /\ Observe(tracker, st.iter, F).everImproved => Improved(history')
    <3>1. /\ tracker \in Trackers /\ history \in Seq(Shown) /\ Summary(tracker, history)
          /\ shown \in Shown /\ shown.iter = st.iter /\ shown.F = F /\ Ordered(history, shown.iter)
      BY <1>2, <1>7, <1>9 DEF shown, Ordered
    <3> QED  BY <2>1, <2>2, <3>1, VerdictFits
  <2> QED  BY <1>1, <2>3 DEF said
<1>11. /\ pc' = "finish" => halt' = "execution_failure" /\ then' = then
       /\ pc' = "save" => then' = "count" /\ halt' = said
       /\ pc' \in {"finish", "save"} /\ halt' \in Reasons /\ halt' # Success
  BY <1>1, <1>7 DEF said, Reasons, Success
<1>12. TypeOK'
  <2>1. tracker'.bestSize \in 0..tracker'.initialSize /\ tracker'.prev \in tracker'.seen \union {{}}
    BY <1>1, <1>2, ObserveType DEF PlainRunInv, TypeOK
  <2> QED  BY <1>1, <1>2, <1>3, <1>11, <2>1 DEF PlainRunInv, TypeOK
<1>13. MoreTypes'
  <2>1. history' \in Seq(Shown)
    BY <1>8 DEF Extended
  <2> QED  BY <1>1, <1>2, <1>5, <2>1 DEF PlainRunInv, MoreTypes
<1>14. Lives'
  BY <1>1, <1>2, <1>3, <1>4, <1>5, <1>6, <1>7, <1>8, <1>9, <1>10, <1>11 DEF PlainRunInv,
     Lives, Saving, Opening, Working, Judging, Ending
<1>15. Tracks'
  <2>1. /\ Len(history) \in Nat /\ Len(history') = Len(history) + 1 /\ history' # <<>>
        /\ \A j \in 1..Len(history) : history'[j] = history[j] /\ history[j].iter \in Nat
        /\ history'[Len(history')] = shown
    BY <1>8 DEF Extended
  <2>2. ASSUME NEW j \in 1..Len(history')  PROVE history'[j].iter <= st.iter
    <3>1. CASE j \in 1..Len(history)
      BY <1>2, <1>9, <2>1, <3>1
    <3>2. CASE j = Len(history')
      BY <1>2, <1>7, <2>1, <3>2
    <3> QED  BY <2>1, <3>1, <3>2
  <2>3. ASSUME NEW j \in 1..Len(history'), NEW n \in 1..Len(history'), j < n
        PROVE  history'[j].iter < history'[n].iter
    <3>1. j \in 1..Len(history) /\ history'[j] = history[j]
      BY <2>1, <2>3
    <3>2. CASE n \in 1..Len(history)
      BY <1>9, <2>1, <2>3, <3>1, <3>2
    <3>3. CASE n = Len(history')
      BY <1>7, <1>9, <2>1, <3>1, <3>3
    <3> QED  BY <2>1, <3>2, <3>3
  <2>4. pc' # "off" /\ ~Opening' /\ ~Working'
    BY <1>11 DEF Opening, Working, Saving
  <2>5. pc' # "off" /\ halt' = "none" => Summary(tracker', history')
    BY <1>10, <1>11 DEF Progressing
  <2> QED  BY <1>3, <1>10, <2>1, <2>2, <2>3, <2>4, <2>5 DEF Tracks
<1>16. Copies'
  BY <1>1, <1>2, <1>3, <1>4, <1>5, <1>6, <1>7, <1>8, <1>9, <1>10, <1>11, Memory DEF
     PlainRunInv, Copies, Behind, attestVerifies, signReceipt, canonicalReceipt
<1>17. Saved'
  BY <1>1, <1>2, <1>3, <1>4, <1>5, <1>6, <1>7, <1>8, <1>9, <1>10, <1>11, Memory DEF
     PlainRunInv, Saved, Resumed, Saving, Opening, Working, Judging, Ending
<1>18. Succeeds'
  BY <1>1, <1>2, <1>3, <1>4, <1>5, <1>6, <1>7, <1>8, <1>9, <1>10, <1>11 DEF PlainRunInv,
     Succeeds, Succeeded, Success, Saving, Opening, Working, Judging, Ending
<1>19. Debts'
  <2>1. \A r \in RunID : saved[r] # None => unread'[r] <= saved[r].debt + resumes[r] + 1
    <3>1. ASSUME NEW r \in RunID, saved[r] # None, r # st.run
          PROVE  unread'[r] <= saved[r].debt + resumes[r] + 1
      BY <1>5, <3>1 DEF PlainRunInv, Debts
    <3>2. unread'[st.run] <= saved[st.run].debt + resumes[st.run] + 1
      BY <1>1, <1>2, <1>4, <1>5, <1>11
    <3> QED  BY <3>1, <3>2
  <2>2. unread'[st.run] <= st.debt + resumes[st.run] + 1
    BY <1>2, <1>4, <1>5, <1>11
  <2>3. ~Judging' /\ pc' \in {"finish", "save"}
    BY <1>1, <1>11 DEF Judging, Opening, Working, Saving
  <2> QED  BY <1>1, <1>3, <2>1, <2>2, <2>3 DEF Debts
<1>20. Earns'
  BY <1>1, <1>4, <1>10 DEF PlainRunInv, Earns, Saved
<1>21. Answered'
  BY <1>1, <1>2, <1>3, <1>4, <1>5, <1>6, <1>7, <1>8, <1>9, <1>10, <1>11 DEF PlainRunInv,
     Answered
<1>22. TrackerMeetsHistory'
  <2>1. ASSUME NEW n \in 1..Len(history')
        PROVE  history'[n].said = VerdictOf(SubSeq(history', 1, n), NoProgressK)
    <3>1. /\ Len(history) \in Nat /\ Len(history') = Len(history) + 1 /\ history' \in Seq(Shown)
          /\ \A j \in 1..Len(history) : history'[j] = history[j]
          /\ history'[Len(history')] = shown
      BY <1>8 DEF Extended
    <3>2. CASE n \in 1..Len(history)
      <4>1. SubSeq(history', 1, n) = SubSeq(history, 1, n)
        BY <1>2, <3>1, <3>2, SameStart
      <4>2. history[n].said = VerdictOf(SubSeq(history, 1, n), NoProgressK)
        BY <3>2 DEF PlainRunInv, TrackerMeetsHistory
      <4> QED  BY <3>1, <3>2, <4>1, <4>2
    <3>3. CASE n = Len(history')
      <4>1. SubSeq(history', 1, n) = history'
        BY <3>1, <3>3, SubSeqFull
      <4> QED  BY <1>7, <1>10, <3>1, <3>3, <4>1
    <3> QED  BY <3>1, <3>2, <3>3
  <2> QED  BY <2>1 DEF TrackerMeetsHistory
<1>23. DebtBounds'
  <2>1. ComprehensionEvery[st.run] > 0 => unread[st.run] < ComprehensionEvery[st.run] + resumes[st.run]
    BY <1>1, <1>2 DEF PlainRunInv, Debts, Judging, Working
  <2>2. ASSUME NEW r \in RunID, ComprehensionEvery[r] > 0
        PROVE  unread'[r] <= ComprehensionEvery[r] + resumes'[r]
    <3>1. CASE r # st.run \/ unread' = unread
      BY <1>1, <1>5, <2>2, <3>1 DEF PlainRunInv, DebtBounds
    <3>2. CASE r = st.run /\ pc' = "save"
      BY <1>1, <1>5, <2>1, <2>2, <3>2, Limits
    <3> QED  BY <1>5, <1>11, <3>1, <3>2
  <2> QED  BY <2>2 DEF DebtBounds
<1> QED
  BY <1>12, <1>13, <1>14, <1>15, <1>16, <1>17, <1>18, <1>19, <1>20, <1>21, <1>22, <1>23
     DEF PlainRunInv

\* The debt grows after its iteration was saved.
LEMMA CountInv ==
  ASSUME PlainRunInv, Count
  PROVE  PlainRunInv'
<1>1. /\ pc = "count"
      /\ \/ halt # "none" /\ pc' = "finish" /\ st' = st /\ halt' = halt
         \/ /\ halt = "none" /\ pc' = "loop" /\ st' = [st EXCEPT !.debt = @ + 1]
            /\ halt' = IF InDebt(ComprehensionEvery[st.run], st'.debt)
                       THEN "comprehension_debt_exceeded" ELSE "none"
      /\ saved' = saved /\ latest' = latest /\ then' = then /\ tracker' = tracker
      /\ surface' = surface /\ prior' = prior /\ lost' = lost /\ op' = op
      /\ answer' = answer /\ starts' = starts /\ faults' = faults /\ ops' = ops
      /\ history' = history /\ workspace' = workspace /\ initial' = initial
      /\ missing' = missing /\ unread' = unread /\ resumes' = resumes
  BY DEF Count, quiet, files, bounds
<1>2. /\ st \in LoopState /\ st # None /\ st.start = starts /\ st.run \in RunID /\ answer = None
      /\ starts \in Nat /\ st.debt \in Nat /\ pc # "off"
  BY <1>1, Memory
<1>3. /\ st' \in LoopState /\ st' # None /\ st'.iter = st.iter /\ st'.fp = st.fp /\ st'.rc = st.rc
      /\ st'.run = st.run /\ st'.start = st.start /\ st'.halt = st.halt /\ st'.ever = st.ever
      /\ st'.base = st.base /\ st'.save = st.save
      /\ pc' = "loop" => st'.debt = st.debt + 1
      /\ pc' = "finish" => st' = st
  <2>1. st.debt + 1 \in Nat
    BY <1>2
  <2>2. st' \in LoopState
    BY <1>1, <1>2, <2>1 DEF LoopState
  <2> QED  BY <1>1, <1>2, <2>2, Limits DEF LoopState
<1>4. /\ pc' \in {"loop", "finish"} /\ halt' \in Reasons /\ (halt' = Success => halt = Success)
      /\ halt' = "none" => halt = "none" /\ pc' = "loop"
      /\ st.halt = "none" /\ saved[st.run] # None /\ saved[st.run].start = starts
      /\ saved[st.run].halt = "none"
  BY <1>1, <1>2 DEF PlainRunInv, TypeOK, Saved, Saving, Ending, Reasons, Success
<1>5. TypeOK'
  BY <1>1, <1>2, <1>3, <1>4, Limits DEF PlainRunInv, TypeOK
<1>6. MoreTypes'
  BY <1>1, <1>2, <1>3, <1>4 DEF PlainRunInv, MoreTypes
<1>7. Lives'
  BY <1>1, <1>2, <1>3, <1>4 DEF PlainRunInv, Lives, Saving, Opening, Working, Judging,
     Ending
<1>8. Tracks'
  BY <1>1, <1>2, <1>3, <1>4 DEF PlainRunInv, Tracks, Saving, Opening, Working, Judging,
     Ending
<1>9. Copies'
  BY <1>1, <1>2, <1>3, <1>4, Memory DEF PlainRunInv, Copies, Behind, attestVerifies,
     signReceipt, canonicalReceipt
<1>10. Saved'
  BY <1>1, <1>2, <1>3, <1>4, Memory DEF PlainRunInv, Saved, Resumed, Saving, Opening,
     Working, Judging, Ending
<1>11. Succeeds'
  BY <1>1, <1>2, <1>3, <1>4 DEF PlainRunInv, Succeeds, Succeeded, Success, Saving,
     Opening, Working, Judging, Ending
<1>12. Debts'
  <2>1. unread[st.run] <= st.debt + resumes[st.run] + 1 /\ unread[st.run] \in Nat
        /\ resumes[st.run] \in Nat /\ ComprehensionEvery[st.run] \in Nat
    BY <1>1, <1>2, Memory, Limits DEF PlainRunInv, Debts
  <2>2. pc' = "loop" => unread[st.run] <= st'.debt + resumes[st.run]
    BY <1>2, <1>3, <2>1
  <2>3. unread[st.run] <= st'.debt + resumes[st.run] + 1
    BY <1>2, <1>3, <1>4, <2>1
  <2>4. ASSUME halt' = "none", ComprehensionEvery[st.run] > 0
        PROVE  unread[st.run] < ComprehensionEvery[st.run] + resumes[st.run]
    <3>1. pc' = "loop" /\ ~(st'.debt >= ComprehensionEvery[st.run])
      BY <1>1, <1>4, <2>4 DEF InDebt
    <3> QED  BY <1>2, <1>3, <2>1, <2>2, <3>1
  <2>5. Judging' => pc' = "loop" /\ halt' = "none"
    BY <1>4 DEF Judging, Opening, Working, Saving
  <2> QED  BY <1>1, <1>3, <1>4, <2>2, <2>3, <2>4, <2>5 DEF PlainRunInv, Debts
<1>13. Earns'
  BY <1>1, <1>2, <1>3, <1>4 DEF PlainRunInv, Earns, Success
<1>14. Answered'
  BY <1>1, <1>2, <1>3, <1>4 DEF PlainRunInv, Answered
<1>15. TrackerMeetsHistory'
  BY <1>1, <1>2, <1>3, <1>4 DEF PlainRunInv, TrackerMeetsHistory
<1>16. DebtBounds'
  BY <1>1, <1>2, <1>3, <1>4, Memory, Limits DEF PlainRunInv, DebtBounds
<1> QED
  BY <1>5, <1>6, <1>7, <1>8, <1>9, <1>10, <1>11, <1>12, <1>13, <1>14, <1>15, <1>16 DEF
     PlainRunInv

\* The end is recorded.
LEMMA FinishInv ==
  ASSUME PlainRunInv, Finish
  PROVE  PlainRunInv'
<1>1. /\ pc = "finish" /\ st' = [st EXCEPT !.halt = halt, !.phase = "halted"]
      /\ pc' = "save" /\ then' = "answer"
      /\ saved' = saved /\ latest' = latest /\ tracker' = tracker /\ surface' = surface
      /\ prior' = prior /\ halt' = halt /\ lost' = lost /\ op' = op /\ answer' = answer
      /\ starts' = starts /\ faults' = faults /\ ops' = ops /\ history' = history
      /\ workspace' = workspace /\ initial' = initial /\ missing' = missing
      /\ unread' = unread /\ resumes' = resumes
  BY DEF Finish, Save, quiet, files, bounds
<1>2. /\ st \in LoopState /\ st # None /\ st.start = starts /\ st.run \in RunID /\ answer = None
      /\ starts \in Nat /\ st.debt \in Nat /\ pc # "off"
  BY <1>1, Memory
<1>3. /\ st' \in LoopState /\ st' # None /\ st'.iter = st.iter /\ st'.fp = st.fp /\ st'.rc = st.rc
      /\ st'.run = st.run /\ st'.start = st.start /\ st'.halt = halt /\ st'.ever = st.ever
      /\ st'.base = st.base /\ st'.save = st.save /\ st'.debt = st.debt
  <2>1. st' \in LoopState
    BY <1>1, <1>2 DEF LoopState, PlainRunInv, TypeOK
  <2> QED  BY <1>1, <1>2, <2>1, Limits DEF LoopState
<1>4. TypeOK'
  BY <1>1, <1>2, <1>3, Limits DEF PlainRunInv, TypeOK
<1>5. MoreTypes'
  BY <1>1, <1>2, <1>3 DEF PlainRunInv, MoreTypes
<1>6. Lives'
  BY <1>1, <1>2, <1>3 DEF PlainRunInv, Lives, Saving, Opening, Working, Judging, Ending
<1>7. Tracks'
  BY <1>1, <1>2, <1>3 DEF PlainRunInv, Tracks, Saving, Opening, Working, Judging, Ending
<1>8. Copies'
  BY <1>1, <1>2, <1>3, Memory DEF PlainRunInv, Copies, Behind, attestVerifies,
     signReceipt, canonicalReceipt
<1>9. Saved'
  BY <1>1, <1>2, <1>3, Memory DEF PlainRunInv, Saved, Resumed, Saving, Opening, Working,
     Judging, Ending
<1>10. Succeeds'
  BY <1>1, <1>2, <1>3 DEF PlainRunInv, Succeeds, Succeeded, Success, Saving, Opening,
     Working, Judging, Ending
<1>11. Debts'
  BY <1>1, <1>2, <1>3, Memory, Limits DEF PlainRunInv, Debts, DebtBounds, Saving,
     Opening, Working, Judging, Ending
<1>12. Earns'
  BY <1>1, <1>2, <1>3 DEF PlainRunInv, Earns, Success
<1>13. Answered'
  BY <1>1, <1>2, <1>3 DEF PlainRunInv, Answered
<1>14. TrackerMeetsHistory'
  BY <1>1, <1>2, <1>3 DEF PlainRunInv, TrackerMeetsHistory
<1>15. DebtBounds'
  BY <1>1, <1>2, <1>3, Memory, Limits DEF PlainRunInv, DebtBounds
<1> QED
  BY <1>4, <1>5, <1>6, <1>7, <1>8, <1>9, <1>10, <1>11, <1>12, <1>13, <1>14, <1>15 DEF
     PlainRunInv

\* The governor answers, and its process ends.
LEMMA AnswerInv ==
  ASSUME PlainRunInv, Answer
  PROVE  PlainRunInv'
<1>1. /\ pc' = "off" /\ then' = "off" /\ st' = None /\ tracker' = NewTracker /\ surface' = None
      /\ prior' = None /\ halt' = "none" /\ lost' = FALSE /\ pc # "off"
      /\ pc = "answer" /\ (faults' = faults \/ faults' = faults + 1) /\ faults' + ops <= MaxTrouble
      /\ \E code \in {haltExitCode(halt), 50} :
           answer' = [run |-> st.run, start |-> st.start, code |-> code]
      /\ saved' = saved /\ latest' = latest /\ op' = op /\ starts' = starts /\ ops' = ops
      /\ history' = history /\ workspace' = workspace /\ initial' = initial
      /\ missing' = missing /\ unread' = unread /\ resumes' = resumes
  <2>1. /\ faults \in Nat /\ ops \in Nat /\ MaxTrouble \in Nat /\ faults + ops <= MaxTrouble
    BY Limits DEF PlainRunInv, TypeOK, MoreTypes
  <2>2. faults' = faults \/ (faults + ops < MaxTrouble /\ faults' = faults + 1)
    BY DEF Answer, Fault
  <2>3. (faults' = faults \/ faults' = faults + 1) /\ faults' + ops <= MaxTrouble
    BY <2>1, <2>2
  <2> QED  BY <2>3 DEF Answer, Dies, files, ghost
<1>2. /\ st \in LoopState /\ st # None /\ st.start = starts /\ st.run \in RunID /\ answer = None
      /\ starts \in Nat /\ st.debt \in Nat 
  BY <1>1, Memory
<1>3. /\ saved[st.run] # None /\ saved[st.run].start = starts /\ saved[st.run].halt = halt
      /\ ops = 0 => latest = saved[st.run]
      /\ faults' \in Nat /\ faults' + ops \in 0..MaxTrouble
  <2>1. /\ (faults' = faults \/ faults' = faults + 1) /\ faults' + ops <= MaxTrouble
        /\ faults \in Nat /\ ops \in Nat /\ MaxTrouble \in Nat
    BY <1>1, Limits, Zenon DEF PlainRunInv, MoreTypes
  <2>2. faults' \in Nat /\ faults' + ops \in 0..MaxTrouble
    BY <2>1
  <2> QED  BY <1>1, <1>2, <2>2 DEF PlainRunInv, Saved
<1>4. TypeOK'
  <2>1. tracker'.bestSize \in 0..tracker'.initialSize /\ tracker'.prev \in tracker'.seen \union {{}}
    BY <1>1 DEF NewTracker
  <2> QED  BY <1>1, <1>3, <2>1 DEF PlainRunInv, TypeOK, Reasons
<1>5. MoreTypes'
  BY <1>1, <1>2, <1>3, NewTrackerType DEF PlainRunInv, MoreTypes
<1>6. Lives'
  BY <1>1, <1>2, <1>3 DEF PlainRunInv, Lives, Saving, Opening, Working, Judging, Ending
<1>7. Tracks'
  BY <1>1, <1>2 DEF PlainRunInv, Tracks, NewTracker, Saving, Opening, Working, Judging
<1>8. Copies'
  BY <1>1, <1>2, <1>3, Memory DEF PlainRunInv, Copies, Behind, attestVerifies,
     signReceipt, canonicalReceipt
<1>9. Saved'
  BY <1>1, <1>2, <1>3, Memory DEF PlainRunInv, Saved, Resumed, Saving, Opening, Working,
     Judging, Ending
<1>10. Succeeds'
  BY <1>1, <1>2, <1>3 DEF PlainRunInv, Succeeds, Succeeded, Success, Saving, Opening,
     Working, Judging, Ending
<1>11. Debts'
  BY <1>1, <1>2, <1>3, Memory, Limits DEF PlainRunInv, Debts, DebtBounds, Saving,
     Opening, Working, Judging, Ending
<1>12. Earns'
  BY <1>1, <1>2, <1>3 DEF PlainRunInv, Earns, Success
<1>13. Answered'
  BY <1>1, <1>2, <1>3 DEF PlainRunInv, Answered
<1>14. TrackerMeetsHistory'
  BY <1>1, <1>2, <1>3 DEF PlainRunInv, TrackerMeetsHistory
<1>15. DebtBounds'
  BY <1>1, <1>2, <1>3, Memory, Limits DEF PlainRunInv, DebtBounds
<1> QED
  BY <1>4, <1>5, <1>6, <1>7, <1>8, <1>9, <1>10, <1>11, <1>12, <1>13, <1>14, <1>15 DEF
     PlainRunInv

\* The governor is killed.
LEMMA KillInv ==
  ASSUME PlainRunInv, Kill
  PROVE  PlainRunInv'
<1>1. /\ pc' = "off" /\ then' = "off" /\ st' = None /\ tracker' = NewTracker /\ surface' = None
      /\ prior' = None /\ halt' = "none" /\ lost' = FALSE /\ pc # "off"
      /\ saved' = saved /\ latest' = latest /\ op' = op /\ answer' = answer
      /\ starts' = starts /\ faults' = faults /\ ops' = ops /\ workspace' = workspace
      /\ history' = history /\ initial' = initial /\ missing' = missing
      /\ unread' = unread /\ resumes' = resumes
  BY DEF Kill, Locked, Dies, files, bounds, ghost
<1>2. /\ st \in LoopState /\ st # None /\ st.start = starts /\ st.run \in RunID /\ answer = None
      /\ starts \in Nat /\ st.debt \in Nat 
  BY <1>1, Memory
<1>3. TypeOK'
  <2>1. tracker'.bestSize \in 0..tracker'.initialSize /\ tracker'.prev \in tracker'.seen \union {{}}
    BY <1>1 DEF NewTracker
  <2> QED  BY <1>1, <2>1 DEF PlainRunInv, TypeOK, Reasons
<1>4. MoreTypes'
  BY <1>1, <1>2, NewTrackerType DEF PlainRunInv, MoreTypes
<1>5. Lives'
  BY <1>1, <1>2 DEF PlainRunInv, Lives, Saving, Opening, Working, Judging, Ending
<1>6. Tracks'
  BY <1>1, <1>2 DEF PlainRunInv, Tracks, NewTracker, Saving, Opening, Working, Judging
<1>7. Copies'
  BY <1>1, <1>2, Memory DEF PlainRunInv, Copies, Behind, attestVerifies, signReceipt,
     canonicalReceipt
<1>8. Saved'
  BY <1>1, <1>2, Memory DEF PlainRunInv, Saved, Resumed, Saving, Opening, Working,
     Judging, Ending
<1>9. Succeeds'
  BY <1>1, <1>2 DEF PlainRunInv, Succeeds, Succeeded, Success, Saving, Opening, Working,
     Judging, Ending
<1>10. Debts'
  BY <1>1, <1>2, Memory, Limits DEF PlainRunInv, Debts, DebtBounds, Saving, Opening,
     Working, Judging, Ending
<1>11. Earns'
  BY <1>1, <1>2 DEF PlainRunInv, Earns, Success
<1>12. Answered'
  BY <1>1, <1>2 DEF PlainRunInv, Answered
<1>13. TrackerMeetsHistory'
  BY <1>1, <1>2 DEF PlainRunInv, TrackerMeetsHistory
<1>14. DebtBounds'
  BY <1>1, <1>2, Memory, Limits DEF PlainRunInv, DebtBounds
<1> QED
  BY <1>3, <1>4, <1>5, <1>6, <1>7, <1>8, <1>9, <1>10, <1>11, <1>12, <1>13, <1>14 DEF
     PlainRunInv

\* An ack or an escalate reads the state of the directory.
LEMMA OpReadsInv ==
  ASSUME PlainRunInv, OpReads
  PROVE  PlainRunInv'
<1>1. /\ op = None /\ latest # None /\ faults + ops < MaxTrouble /\ ops' = ops + 1 /\ op' = latest
      /\ saved' = saved /\ latest' = latest /\ pc' = pc /\ then' = then /\ st' = st
      /\ tracker' = tracker /\ surface' = surface /\ prior' = prior /\ halt' = halt
      /\ lost' = lost /\ answer' = answer /\ starts' = starts /\ faults' = faults
      /\ history' = history /\ workspace' = workspace /\ initial' = initial
      /\ missing' = missing /\ unread' = unread /\ resumes' = resumes
  BY DEF OpReads, files, memory, ghost
<1>2. /\ latest # None => latest \in LoopState
      /\ op # None => op \in LoopState /\ ops > 0
      /\ ops \in Nat /\ faults \in Nat /\ MaxTrouble \in Nat
  BY Limits DEF PlainRunInv, TypeOK, MoreTypes, Lives
<1>3. ops' \in Nat /\ ops' # 0 /\ ops' > 0 /\ faults' + ops' \in 0..MaxTrouble
  BY <1>1, <1>2
<1>4. TypeOK'
  BY <1>1, <1>2, <1>3, Limits DEF PlainRunInv, TypeOK
<1>5. MoreTypes'
  BY <1>1, <1>2, <1>3 DEF PlainRunInv, MoreTypes
<1>6. Lives'
  BY <1>1, <1>2, <1>3 DEF PlainRunInv, Lives, Saving, Opening, Working, Judging, Ending
<1>7. Tracks'
  BY <1>1, <1>2, <1>3 DEF PlainRunInv, Tracks, Saving, Opening, Working, Judging, Ending
<1>8. Copies'
  BY <1>1, <1>2, <1>3, Memory DEF PlainRunInv, Copies, Behind, attestVerifies,
     signReceipt, canonicalReceipt
<1>9. Saved'
  BY <1>1, <1>2, <1>3, Memory DEF PlainRunInv, Saved, Resumed, Saving, Opening, Working,
     Judging, Ending
<1>10. Succeeds'
  BY <1>1, <1>2, <1>3 DEF PlainRunInv, Succeeds, Succeeded, Success, Saving, Opening,
     Working, Judging, Ending
<1>11. Debts'
  BY <1>1, <1>2, <1>3, Memory, Limits DEF PlainRunInv, Debts, DebtBounds, Saving,
     Opening, Working, Judging, Ending
<1>12. Earns'
  BY <1>1, <1>2, <1>3 DEF PlainRunInv, Earns, Success
<1>13. Answered'
  BY <1>1, <1>2, <1>3 DEF PlainRunInv, Answered
<1>14. TrackerMeetsHistory'
  BY <1>1, <1>2, <1>3 DEF PlainRunInv, TrackerMeetsHistory
<1>15. DebtBounds'
  BY <1>1, <1>2, <1>3, Memory, Limits DEF PlainRunInv, DebtBounds
<1> QED
  BY <1>4, <1>5, <1>6, <1>7, <1>8, <1>9, <1>10, <1>11, <1>12, <1>13, <1>14, <1>15 DEF
     PlainRunInv

\* An ack writes the state that it read, without the debt.
LEMMA AckInv ==
  ASSUME PlainRunInv, Ack
  PROVE  PlainRunInv'
<1>1. /\ op # None /\ op' = None /\ latest' = [op EXCEPT !.debt = 0]
      /\ unread' = (IF pc # "off" THEN unread ELSE [unread EXCEPT ![op.run] = 0])
      /\ saved' = saved /\ pc' = pc /\ then' = then /\ st' = st /\ tracker' = tracker
      /\ surface' = surface /\ prior' = prior /\ halt' = halt /\ lost' = lost
      /\ answer' = answer /\ starts' = starts /\ faults' = faults /\ ops' = ops
      /\ history' = history /\ workspace' = workspace /\ initial' = initial
      /\ missing' = missing /\ resumes' = resumes
  BY DEF Ack, Locked, memory, bounds
<1>2. /\ latest # None => latest \in LoopState
      /\ op # None => op \in LoopState /\ ops > 0
      /\ ops \in Nat /\ faults \in Nat /\ MaxTrouble \in Nat
  BY Limits DEF PlainRunInv, TypeOK, MoreTypes, Lives
<1>3. /\ latest' \in LoopState /\ latest' # None /\ latest'.run = op.run /\ op.run \in RunID
      /\ latest'.start = op.start /\ latest'.save = op.save /\ latest'.halt = op.halt
      /\ latest'.iter = op.iter /\ latest'.fp = op.fp /\ ops # 0
  <2>1. latest' \in LoopState
    BY <1>1, <1>2 DEF LoopState
  <2> QED  BY <1>1, <1>2, <2>1, Limits DEF LoopState
<1>4. /\ unread' \in [RunID -> Nat] /\ resumes \in [RunID -> Nat]
      /\ \A r \in RunID : unread'[r] \in {0, unread[r]} /\ unread[r] \in Nat /\ resumes[r] \in Nat
      /\ pc # "off" => unread' = unread
      /\ \A r \in RunID : saved[r] # None => saved[r].debt \in Nat
  BY <1>1, <1>3, Memory
<1>5. TypeOK'
  BY <1>1, <1>2, <1>3, <1>4, Limits DEF PlainRunInv, TypeOK
<1>6. MoreTypes'
  BY <1>1, <1>2, <1>3, <1>4 DEF PlainRunInv, MoreTypes
<1>7. Lives'
  BY <1>1, <1>2, <1>3, <1>4 DEF PlainRunInv, Lives, Saving, Opening, Working, Judging,
     Ending
<1>8. Tracks'
  BY <1>1, <1>2, <1>3, <1>4 DEF PlainRunInv, Tracks, Saving, Opening, Working, Judging,
     Ending
<1>9. Copies'
  BY <1>1, <1>2, <1>3, <1>4, Memory DEF PlainRunInv, Copies, Behind, attestVerifies,
     signReceipt, canonicalReceipt
<1>10. Saved'
  BY <1>1, <1>2, <1>3, <1>4, Memory DEF PlainRunInv, Saved, Resumed, Saving, Opening,
     Working, Judging, Ending
<1>11. Succeeds'
  BY <1>1, <1>2, <1>3, <1>4 DEF PlainRunInv, Succeeds, Succeeded, Success, Saving,
     Opening, Working, Judging, Ending
<1>12. Debts'
  <2>1. ASSUME NEW r \in RunID, saved[r] # None
        PROVE  unread'[r] <= saved[r].debt + resumes[r] + 1
    BY <1>4, <2>1 DEF PlainRunInv, Debts
  <2>2. (pc # "off" => Debts) /\ (Judging' <=> Judging) /\ (pc = "off" => ~Judging)
    BY <1>1 DEF PlainRunInv, Judging, Opening, Working, Saving
  <2> QED  BY <1>1, <1>4, <2>1, <2>2 DEF PlainRunInv, Debts
<1>13. Earns'
  BY <1>1, <1>2, <1>3, <1>4 DEF PlainRunInv, Earns, Success
<1>14. Answered'
  BY <1>1, <1>2, <1>3, <1>4 DEF PlainRunInv, Answered
<1>15. TrackerMeetsHistory'
  BY <1>1, <1>2, <1>3, <1>4 DEF PlainRunInv, TrackerMeetsHistory
<1>16. DebtBounds'
  BY <1>1, <1>2, <1>3, <1>4, Memory, Limits DEF PlainRunInv, DebtBounds
<1> QED
  BY <1>5, <1>6, <1>7, <1>8, <1>9, <1>10, <1>11, <1>12, <1>13, <1>14, <1>15, <1>16 DEF
     PlainRunInv

\* An escalate writes the state that it read.
LEMMA EscalateInv ==
  ASSUME PlainRunInv, Escalate
  PROVE  PlainRunInv'
<1>1. /\ op # None /\ op' = None /\ latest' = op
      /\ saved' = saved /\ pc' = pc /\ then' = then /\ st' = st /\ tracker' = tracker
      /\ surface' = surface /\ prior' = prior /\ halt' = halt /\ lost' = lost
      /\ answer' = answer /\ starts' = starts /\ faults' = faults /\ ops' = ops
      /\ history' = history /\ workspace' = workspace /\ initial' = initial
      /\ missing' = missing /\ unread' = unread /\ resumes' = resumes
  BY DEF Escalate, memory, bounds, ghost
<1>2. /\ latest # None => latest \in LoopState
      /\ op # None => op \in LoopState /\ ops > 0
      /\ ops \in Nat /\ faults \in Nat /\ MaxTrouble \in Nat
  BY Limits DEF PlainRunInv, TypeOK, MoreTypes, Lives
<1>3. latest' \in LoopState /\ latest' # None /\ ops # 0
  BY <1>1, <1>2, Limits
<1>4. TypeOK'
  BY <1>1, <1>2, <1>3, Limits DEF PlainRunInv, TypeOK
<1>5. MoreTypes'
  BY <1>1, <1>2, <1>3 DEF PlainRunInv, MoreTypes
<1>6. Lives'
  BY <1>1, <1>2, <1>3 DEF PlainRunInv, Lives, Saving, Opening, Working, Judging, Ending
<1>7. Tracks'
  BY <1>1, <1>2, <1>3 DEF PlainRunInv, Tracks, Saving, Opening, Working, Judging, Ending
<1>8. Copies'
  BY <1>1, <1>2, <1>3, Memory DEF PlainRunInv, Copies, Behind, attestVerifies,
     signReceipt, canonicalReceipt
<1>9. Saved'
  BY <1>1, <1>2, <1>3, Memory DEF PlainRunInv, Saved, Resumed, Saving, Opening, Working,
     Judging, Ending
<1>10. Succeeds'
  BY <1>1, <1>2, <1>3 DEF PlainRunInv, Succeeds, Succeeded, Success, Saving, Opening,
     Working, Judging, Ending
<1>11. Debts'
  BY <1>1, <1>2, <1>3, Memory, Limits DEF PlainRunInv, Debts, DebtBounds, Saving,
     Opening, Working, Judging, Ending
<1>12. Earns'
  BY <1>1, <1>2, <1>3 DEF PlainRunInv, Earns, Success
<1>13. Answered'
  BY <1>1, <1>2, <1>3 DEF PlainRunInv, Answered
<1>14. TrackerMeetsHistory'
  BY <1>1, <1>2, <1>3 DEF PlainRunInv, TrackerMeetsHistory
<1>15. DebtBounds'
  BY <1>1, <1>2, <1>3, Memory, Limits DEF PlainRunInv, DebtBounds
<1> QED
  BY <1>4, <1>5, <1>6, <1>7, <1>8, <1>9, <1>10, <1>11, <1>12, <1>13, <1>14, <1>15 DEF
     PlainRunInv

------------------------------------------------------------------------------
(* The actions of the module are made of these steps.                       *)

\* A save that fails ends the loop, or the process if it is the last one.
LEMMA SaveFailsInv ==
  ASSUME PlainRunInv, Saving, NEW isLost \in BOOLEAN, SaveFails(isLost), faults' = faults \/ Fault,
         \/ saved' = saved
         \/ pc = "save" /\ saved' = [saved EXCEPT ![st.run] = Written(st)],
         \/ latest' = latest
         \/ pc = "point" /\ latest' = Written(st),
         UNCHANGED <<op, starts, ops, workspace, ghost>>
  PROVE  PlainRunInv'
<1>1. faults' \in Nat /\ faults' + ops \in 0..MaxTrouble
  <2>1. faults \in Nat /\ ops \in Nat /\ faults + ops \in 0..MaxTrouble /\ MaxTrouble \in Nat
    BY Limits DEF PlainRunInv, TypeOK, MoreTypes
  <2>2. faults' = faults \/ (faults + ops < MaxTrouble /\ faults' = faults + 1)
    BY DEF Fault
  <2> QED  BY <2>1, <2>2
<1>2. CASE then = "answer"
  <2>1. Dies /\ answer' = [run |-> st.run, start |-> st.start, code |-> 50]
    BY <1>2 DEF SaveFails
  <2>2. lost' \in BOOLEAN
    BY <2>1 DEF Dies
  <2> QED  BY <1>1, <1>2, <2>1, <2>2, SaveDiedInv
<1>3. CASE then # "answer"
  <2>1. /\ pc' = "finish" /\ halt' = "internal_error" /\ lost' = isLost
        /\ st' = [st EXCEPT !.save = @ + 1] /\ UNCHANGED <<tracker, surface, prior, then, answer>>
    BY <1>3 DEF SaveFails, Stop
  <2>2. UNCHANGED <<then, tracker, surface, prior, op, answer, starts, ops, workspace, ghost>>
    BY <2>1
  <2> QED  BY <1>1, <1>3, <2>1, <2>2, SaveStoppedInv
<1> QED  BY <1>2, <1>3

LEMMA SaveRunInv ==
  ASSUME PlainRunInv, SaveRun
  PROVE  PlainRunInv'
<1>1. pc = "save" /\ Saving /\ UNCHANGED <<latest, op, starts, ops, workspace, ghost>>
      /\ latest' = latest /\ UNCHANGED <<op, starts, ops, workspace, ghost>>
  BY DEF SaveRun, Saving
<1>2. CASE /\ ~lost /\ saved' = [saved EXCEPT ![st.run] = Written(st)]
           /\ pc' = "point" /\ UNCHANGED <<then, memory, answer, faults>>
  <2>1. UNCHANGED <<latest, then, memory, op, answer, bounds, workspace, ghost>>
    BY <1>1, <1>2 DEF bounds
  <2> QED  BY <1>1, <1>2, <2>1, SaveRunDoneInv
<1>3. CASE lost /\ SaveFails(TRUE) /\ UNCHANGED <<saved, faults>>
  <2>1. saved' = saved /\ faults' = faults /\ TRUE \in BOOLEAN
    BY <1>3
  <2> QED  BY <1>1, <1>3, <2>1, SaveFailsInv
<1>4. CASE EventLost /\ UNCHANGED saved
  <2>1. SaveFails(TRUE) /\ Fault /\ saved' = saved /\ TRUE \in BOOLEAN
    BY <1>4 DEF EventLost
  <2> QED  BY <1>1, <2>1, SaveFailsInv
<1>5. CASE ~lost /\ Fault /\ SaveFails(FALSE) /\ saved' \in {saved, [saved EXCEPT ![st.run] = Written(st)]}
  <2>1. FALSE \in BOOLEAN /\ (saved' = saved \/ saved' = [saved EXCEPT ![st.run] = Written(st)])
    BY <1>5
  <2> QED  BY <1>1, <1>5, <2>1, SaveFailsInv
<1> QED  BY <1>2, <1>3, <1>4, <1>5 DEF SaveRun

LEMMA SaveLatestInv ==
  ASSUME PlainRunInv, SaveLatest
  PROVE  PlainRunInv'
<1>1. pc = "point" /\ Saving /\ saved' = saved /\ UNCHANGED <<saved, op, starts, ops, workspace, ghost>>
      /\ UNCHANGED <<op, starts, ops, workspace, ghost>>
  BY DEF SaveLatest, Saving
<1>2. CASE /\ latest' = Written(st) /\ st' = [st EXCEPT !.save = @ + 1] /\ pc' = then
           /\ UNCHANGED <<then, tracker, surface, prior, halt, lost, answer, faults>>
  <2>1. UNCHANGED <<saved, then, tracker, surface, prior, halt, lost, op, answer, bounds, workspace, ghost>>
    BY <1>1, <1>2 DEF bounds
  <2> QED  BY <1>1, <1>2, <2>1, SaveLatestDoneInv
<1>3. CASE Fault /\ SaveFails(FALSE) /\ latest' \in {latest, Written(st)}
  <2>1. FALSE \in BOOLEAN /\ (latest' = latest \/ latest' = Written(st))
    BY <1>3
  <2> QED  BY <1>1, <1>3, <2>1, SaveFailsInv
<1> QED  BY <1>2, <1>3 DEF SaveLatest

\* The reasons that end the loop before a verdict.
LEMMA StopReasons ==
  /\ {"metric_integrity_violation", "execution_failure", "objective_unverified",
      "comprehension_debt_exceeded", "max_iterations_reached"} \subseteq Reasons \ {"none", Success}
BY DEF Reasons, Success

LEMMA BaselineInv ==
  ASSUME PlainRunInv, Baseline
  PROVE  PlainRunInv'
<1>1. pc = "baseline" /\ UNCHANGED <<then, tracker, workspace, history, quiet>>
  BY DEF Baseline
<1>2. CASE Stop("metric_integrity_violation") /\ UNCHANGED <<st, surface, initial, missing>>
  <2>1. UNCHANGED <<files, then, st, tracker, surface, prior, lost, op, answer, bounds, workspace, ghost>>
    BY <1>1, <1>2 DEF quiet, ghost
  <2> QED  BY <1>1, <1>2, <2>1, StopReasons, StopsInv
<1>3. ASSUME NEW members \in SUBSET Surface,
             Keeps(members) /\ st' = [st EXCEPT !.base = members] /\ surface' = members,
             missing' = Surface \ members,
             initial' = (IF Resumed THEN initial ELSE [initial EXCEPT ![st.run] = members]),
             IF prior = "success_condition_met"
             THEN Stop("success_condition_met") ELSE pc' = "loop" /\ UNCHANGED halt
      PROVE  PlainRunInv'
  BY <1>1, <1>3, BaselineTakenInv
<1> QED  BY <1>2, <1>3 DEF Baseline

LEMMA IterStartInv ==
  ASSUME PlainRunInv, IterStart
  PROVE  PlainRunInv'
<1>1. /\ pc = "loop" /\ halt = "none" /\ ~AtCap(st.iter)
      /\ UNCHANGED <<tracker, surface, workspace, history, initial, missing, quiet>>
  BY DEF IterStart
<1>2. CASE /\ st' = [st EXCEPT !.iter = @ + 1, !.phase = "attempting",
                               !.fp = IF st.run \in WorkflowRuns THEN 0 ELSE @]
           /\ Save("exec") /\ UNCHANGED halt
  <2>1. UNCHANGED <<halt, tracker, surface, workspace, history, initial, missing, quiet>>
    BY <1>1, <1>2
  <2> QED  BY <1>1, <1>2, <2>1, IterStartedInv
<1>3. CASE Stop("execution_failure") /\ UNCHANGED <<st, then>>
  <2>1. UNCHANGED <<files, then, st, tracker, surface, prior, lost, op, answer, bounds, workspace, ghost>>
    BY <1>1, <1>3 DEF quiet, ghost
  <2> QED  BY <1>1, <1>3, <2>1, StopReasons, StopsInv
<1> QED  BY <1>2, <1>3 DEF IterStart

LEMMA LoopEndsInv ==
  ASSUME PlainRunInv, LoopEnds
  PROVE  PlainRunInv'
<1> DEFINE reason == IF halt = "none" THEN "max_iterations_reached" ELSE halt
<1>1. pc = "loop" /\ Stop(reason)
      /\ UNCHANGED <<files, then, st, tracker, surface, prior, lost, op, answer, bounds, workspace, ghost>>
  BY DEF LoopEnds, quiet, ghost
<1>2. reason \in Reasons \ {"none"} /\ (reason = Success => halt = Success)
  BY StopReasons DEF PlainRunInv, TypeOK, Success
<1> QED  BY <1>1, <1>2, StopsInv

LEMMA CheckInv ==
  ASSUME PlainRunInv, Check
  PROVE  PlainRunInv'
<1>1. pc = "check" /\ UNCHANGED <<then, tracker, surface, workspace, history, initial, missing, quiet>>
  BY DEF Check
<1>2. CASE Stop("execution_failure") /\ UNCHANGED st
  <2>1. UNCHANGED <<files, then, st, tracker, surface, prior, lost, op, answer, bounds, workspace, ghost>>
    BY <1>1, <1>2 DEF quiet, ghost
  <2> QED  BY <1>1, <1>2, <2>1, StopReasons, StopsInv
<1>3. ASSUME NEW rc \in {0, 1}, st' = [st EXCEPT !.rc = rc, !.fp = st.iter], pc' = "judge", UNCHANGED halt
      PROVE  PlainRunInv'
  <2>1. UNCHANGED <<halt, then, tracker, surface, workspace, history, initial, missing, quiet>>
    BY <1>1, <1>3
  <2> QED  BY <1>1, <1>3, <2>1, CheckedInv
<1> QED  BY <1>2, <1>3 DEF Check

LEMMA JudgeInv ==
  ASSUME PlainRunInv, Judge
  PROVE  PlainRunInv'
<1>1. /\ pc = "judge"
      /\ UNCHANGED <<surface, workspace, prior, initial, missing, files, lost, op, answer, bounds, resumes>>
  BY DEF Judge
<1>2. CASE Stop("objective_unverified") /\ UNCHANGED <<then, st, tracker, history, unread>>
  <2>1. UNCHANGED <<files, then, st, tracker, surface, prior, lost, op, answer, bounds, workspace, ghost>>
    BY <1>1, <1>2 DEF ghost
  <2> QED  BY <1>1, <1>2, <2>1, StopReasons, StopsInv
<1>3. ASSUME NEW F \in SUBSET Failures, NEW ended \in BOOLEAN,
             IF st.rc = 0 THEN UNCHANGED <<tracker, history>> ELSE Progressed(F),
             EverAs(st', st, IF st.rc = 0 THEN st.ever ELSE tracker'.everImproved),
             IF ended
             THEN Stop("execution_failure") /\ UNCHANGED <<then, unread>>
             ELSE /\ halt' = IF st.rc = 0 THEN Success ELSE Verdict(tracker, st.iter, F, NoProgressK)
                  /\ Save("count") /\ unread' = [unread EXCEPT ![st.run] = @ + 1]
      PROVE  PlainRunInv'
  <2>1. CASE st.rc = 0
    <3>1. EverAs(st', st, st.ever) /\ UNCHANGED <<tracker, history>>
      BY <1>3, <2>1
    <3>2. \/ /\ pc' = "finish" /\ halt' = "execution_failure" /\ then' = then
             /\ unread' = unread
          \/ /\ pc' = "save" /\ then' = "count"
             /\ halt' = Success /\ unread' = [unread EXCEPT ![st.run] = @ + 1]
      BY <1>3, <2>1 DEF Stop, Save
    <3> QED  BY <1>1, <2>1, <3>1, <3>2, JudgedGreenInv
  <2>2. CASE st.rc # 0
    <3>1. EverAs(st', st, tracker'.everImproved) /\ Progressed(F)
      BY <1>3, <2>2
    <3>2. \/ /\ pc' = "finish" /\ halt' = "execution_failure" /\ then' = then /\ unread' = unread
          \/ /\ pc' = "save" /\ then' = "count"
             /\ halt' = Verdict(tracker, st.iter, F, NoProgressK)
             /\ unread' = [unread EXCEPT ![st.run] = @ + 1]
      BY <1>3, <2>2 DEF Stop, Save
    <3> QED  BY <1>1, <3>1, <3>2, JudgedRedInv
  <2> QED  BY <2>1, <2>2
<1>4. \A e : \A ended \in BOOLEAN :
        st' = [st EXCEPT !.ever = IF st.rc = 0 THEN @ ELSE e, !.phase = IF ended THEN @ ELSE "evaluated"]
          => EverAs(st', st, IF st.rc = 0 THEN st.ever ELSE e)
  BY Zenon DEF EverAs
<1> QED  BY <1>2, <1>3, <1>4, Zenon DEF Judge, Success

LEMMA InitInv ==
  ASSUME Init
  PROVE  PlainRunInv
<1>1. /\ saved = [r \in RunID |-> None] /\ latest = None
      /\ pc = "off" /\ then = "off" /\ st = None /\ tracker = NewTracker /\ surface = None
      /\ prior = None /\ halt = "none" /\ lost = FALSE /\ op = None /\ answer = None
      /\ starts = 0 /\ faults = 0 /\ ops = 0 /\ workspace = [run |-> None, iter |-> 0]
      /\ history = <<>> /\ initial = [r \in RunID |-> {}] /\ missing = {}
      /\ unread = [r \in RunID |-> 0] /\ resumes = [r \in RunID |-> 0]
  BY DEF Init
<1>2. \A r \in RunID : saved[r] = None /\ unread[r] = 0 /\ resumes[r] = 0
  BY <1>1
<1>3. TypeOK
  <2>1. tracker.bestSize \in 0..tracker.initialSize /\ tracker.prev \in tracker.seen \union {{}}
    BY <1>1 DEF NewTracker
  <2>2. workspace \in [run : RunID \union {None}, iter : 0..MaxIterations]
    BY <1>1, Limits
  <2>3. starts \in 0..MaxStarts /\ faults + ops \in 0..MaxTrouble
    BY <1>1, Limits
  <2>4. saved \in [RunID -> LoopState \union {None}] /\ surface \in (SUBSET Surface) \union {None}
    BY <1>1
  <2> QED  BY <1>1, <2>1, <2>2, <2>3, <2>4 DEF TypeOK, Reasons
<1>4. MoreTypes
  <2>1. history \in Seq(Shown)
    BY <1>1
  <2>2. initial \in [RunID -> SUBSET Surface] /\ unread \in [RunID -> Nat] /\ resumes \in [RunID -> Nat]
    BY <1>1
  <2> QED  BY <1>1, <2>1, <2>2, NewTrackerType DEF MoreTypes
<1>5. Lives
  BY <1>1 DEF Lives, Saving, Opening, Working, Judging
<1>6. Tracks
  BY <1>1 DEF Tracks, NewTracker, Saving, Opening, Working
<1>7. Copies /\ Saved
  BY <1>1, <1>2 DEF Copies, Saved, Resumed, Saving, Opening, Working, Ending
<1>8. Succeeds
  BY <1>1, <1>2 DEF Succeeds, Success, Saving, Opening
<1>9. Debts /\ DebtBounds
  BY <1>1, <1>2, Limits DEF Debts, DebtBounds
<1>10. Earns /\ Answered /\ TrackerMeetsHistory
  BY <1>1, <1>2 DEF Earns, Answered, TrackerMeetsHistory
<1> QED  BY <1>3, <1>4, <1>5, <1>6, <1>7, <1>8, <1>9, <1>10 DEF PlainRunInv

LEMMA StutterInv ==
  ASSUME PlainRunInv, UNCHANGED vars
  PROVE  PlainRunInv'
<1>1. /\ saved' = saved /\ latest' = latest /\ pc' = pc /\ then' = then /\ st' = st
      /\ tracker' = tracker /\ surface' = surface /\ prior' = prior /\ halt' = halt
      /\ lost' = lost /\ op' = op /\ answer' = answer /\ starts' = starts
      /\ faults' = faults /\ ops' = ops /\ history' = history /\ workspace' = workspace
      /\ initial' = initial /\ missing' = missing /\ unread' = unread /\ resumes' = resumes
  BY DEF vars, files, memory, ghost, bounds
<1>2. TypeOK' /\ MoreTypes' /\ DebtBounds' /\ TrackerMeetsHistory'
  BY <1>1 DEF PlainRunInv, TypeOK, MoreTypes, DebtBounds, TrackerMeetsHistory
<1>3. Lives' /\ Tracks'
  BY <1>1 DEF PlainRunInv, Lives, Tracks, Saving, Opening, Working, Judging
<1>4. Copies' /\ Earns' /\ Answered'
  BY <1>1 DEF PlainRunInv, Copies, Earns, Answered
<1>5. Saved'
  BY <1>1 DEF PlainRunInv, Saved, Resumed, Saving, Opening, Working, Ending
<1>6. Succeeds' /\ Debts'
  BY <1>1 DEF PlainRunInv, Succeeds, Succeeded, Debts, Saving, Opening, Working, Judging
<1> QED  BY <1>2, <1>3, <1>4, <1>5, <1>6 DEF PlainRunInv

LEMMA NextInv ==
  ASSUME PlainRunInv, [Next]_vars
  PROVE  PlainRunInv'
<1>1. ASSUME NEW r \in RunID, StartFresh(r)  PROVE PlainRunInv'
  BY <1>1, StartFreshInv
<1>2. ASSUME NEW r \in RunID, Resume(r)  PROVE PlainRunInv'
  BY <1>2, ResumeInv
<1>3. CASE SaveRun
  BY <1>3, SaveRunInv
<1>4. CASE SaveLatest
  BY <1>4, SaveLatestInv
<1>5. CASE Baseline
  BY <1>5, BaselineInv
<1>6. CASE IterStart
  BY <1>6, IterStartInv
<1>7. CASE LoopEnds
  BY <1>7, LoopEndsInv
<1>8. CASE Exec
  BY <1>8, ExecInv
<1>9. CASE Members
  BY <1>9, MembersInv
<1>10. CASE Check
  BY <1>10, CheckInv
<1>11. CASE Judge
  BY <1>11, JudgeInv
<1>12. CASE Count
  BY <1>12, CountInv
<1>13. CASE Finish
  BY <1>13, FinishInv
<1>14. CASE Answer
  BY <1>14, AnswerInv
<1>15. CASE Kill
  BY <1>15, KillInv
<1>16. CASE OpReads
  BY <1>16, OpReadsInv
<1>17. CASE Ack
  BY <1>17, AckInv
<1>18. CASE Escalate
  BY <1>18, EscalateInv
<1>19. CASE UNCHANGED vars
  BY <1>19, StutterInv
<1> QED
  BY <1>1, <1>2, <1>3, <1>4, <1>5, <1>6, <1>7, <1>8, <1>9, <1>10, <1>11, <1>12, <1>13,
     <1>14, <1>15, <1>16, <1>17, <1>18, <1>19 DEF Next

------------------------------------------------------------------------------
(* The properties.                                                          *)

\* The invariant holds in every reachable state.
THEOREM PlainRunCorrect == Spec => []PlainRunInv
<1>1. Init => PlainRunInv
  BY InitInv
<1>2. PlainRunInv /\ [Next]_vars => PlainRunInv'
  BY NextInv
<1> QED  BY <1>1, <1>2, PTL DEF Spec

\* The state of the governor, of its two files, of its tracker and of the operator's
\* command is of its type.
THEOREM PlainRunTypes == Spec => []TypeOK
<1>1. PlainRunInv => TypeOK
  BY DEF PlainRunInv
<1> QED  BY <1>1, PlainRunCorrect, PTL

\* Every verdict of observe (progress.go) is the verdict of all the failing sets that it
\* was shown: what it keeps of them is enough, for every number and order of sets.
THEOREM VerdictsMeetHistory == Spec => []TrackerMeetsHistory
<1>1. PlainRunInv => TrackerMeetsHistory
  BY DEF PlainRunInv
<1> QED  BY <1>1, PlainRunCorrect, PTL

\* The debt at the threshold ends the loop, and kills and resumes cost one unread
\* iteration each at most.
THEOREM DebtsAreBounded == Spec => []DebtBounds
<1>1. PlainRunInv => DebtBounds
  BY DEF PlainRunInv
<1> QED  BY <1>1, PlainRunCorrect, PTL

\* What the invariant says of the advice: success is that of the last iteration.
LEMMA AdviceFromInv ==
  ASSUME PlainRunInv
  PROVE  AdviceIsEarned
<1>1. SUFFICES ASSUME NEW r \in RunID, LastRecord(r)
               PROVE  /\ explainHalt(saved[r]) = "done" =>
                           /\ saved[r].rc = 0 /\ saved[r].fp = saved[r].iter
                           /\ initial[r] \intersect missing = {}
                           /\ workspace.run = r =>
                              \A long \in BOOLEAN : ~OutOfTime(r, long) => replay(saved[r], long) = "verified"
                      /\ explainHalt(saved[r]) \in {"raise-the-limit", "investigate"} /\ history # <<>> =>
                           Improved(history)
  BY DEF AdviceIsEarned
<1>2. saved[r] # None /\ saved[r].start = starts /\ saved[r].run = r
  BY <1>1, Memory DEF LastRecord
<1>3. ASSUME explainHalt(saved[r]) = "done"  PROVE saved[r].halt = Success
  BY <1>3 DEF explainHalt, Success
<1>4. ASSUME explainHalt(saved[r]) \in {"raise-the-limit", "investigate"}
      PROVE  saved[r].halt # "none" /\ saved[r].ever
  BY <1>4 DEF explainHalt, NoProgress, Oscillation, Regression
<1>5. ASSUME saved[r].halt = Success
      PROVE  /\ saved[r].rc = 0 /\ saved[r].fp = saved[r].iter
             /\ initial[r] \intersect missing = {}
             /\ workspace.run = r =>
                  \A long \in BOOLEAN : ~OutOfTime(r, long) => replay(saved[r], long) = "verified"
  <2>1. Succeeded(saved[r]) /\ initial[r] \intersect missing = {}
    BY <1>2, <1>5 DEF PlainRunInv, Succeeds, Earns
  <2>2. ASSUME workspace.run = r, NEW long \in BOOLEAN, ~OutOfTime(r, long)
        PROVE  replay(saved[r], long) = "verified"
    <3>1. saved[r].fp # 0 /\ saved[r].fp = saved[r].iter /\ workspace.iter = saved[r].iter
      BY <1>2, <2>1, <2>2 DEF Succeeded
    <3>2. Found(r) = saved[r].fp
      BY <2>2, <3>1 DEF Found
    <3> QED  BY <1>2, <2>2, <3>1, <3>2 DEF replay, verifyStateFingerprint, verifyWorkflowFingerprint
  <2> QED  BY <2>1, <2>2 DEF Succeeded
<1>6. ASSUME saved[r].halt # "none" /\ saved[r].ever, history # <<>>  PROVE Improved(history)
  BY <1>2, <1>6 DEF PlainRunInv, Earns
<1> QED  BY <1>3, <1>4, <1>5, <1>6

\* What explain-halt says of the last record of a run is so, whatever was killed,
\* resumed, lost or written over before; a replay verifies what it calls done unless
\* it ends the check after 30 s where the run gave it no limit (receipt.go:305).
THEOREM AdviceAlwaysEarned == Spec => []AdviceIsEarned
<1>1. PlainRunInv => AdviceIsEarned
  BY AdviceFromInv
<1> QED  BY <1>1, PlainRunCorrect, PTL

\* state.json is never ahead of the copy of its run, nor different from it at the same
\* save, and an exit code that is no internal error was saved in both.
THEOREM CopiesStayInStep == Spec => []CopiesInStep
<1>1. PlainRunInv => CopiesInStep
  BY DEF PlainRunInv, Copies, Behind, Answered, CopiesInStep, LastRecord
<1> QED  BY <1>1, PlainRunCorrect, PTL
=============================================================================
