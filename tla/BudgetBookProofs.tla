--------------------------- MODULE BudgetBookProofs ---------------------------
(***************************************************************************)
(* Proofs about BudgetBook, for every set of calls, every bound on charges *)
(* and every setting of a run.                                             *)
(*                                                                         *)
(* The book adds up reports with MapThenSumSet.  The first part proves     *)
(* what is needed of such sums; where an induction over sets is called     *)
(* for, it looks at a smallest set that would refute the claim.            *)
(***************************************************************************)
EXTENDS BudgetBook, FiniteSetTheorems, WellFoundedInduction, TLAPS

-----------------------------------------------------------------------------
(* Sums over finite sets.                                                   *)

\* Among the refuted subsets of a finite set there is a smallest one.
LEMMA SmallestSubset ==
  ASSUME NEW S, IsFiniteSet(S), NEW Bad, Bad \subseteq SUBSET S, Bad # {}
  PROVE  \E s \in Bad : \A t \in Bad : t \subseteq s => t = s
<1>1. Bad \subseteq FiniteSubsetsOf(S)
  BY FS_Subset DEF FiniteSubsetsOf
<1>2. \E s \in Bad : \A t \in Bad : ~(<<t, s>> \in StrictSubsetOrdering(S))
  BY <1>1, FS_StrictSubsetOrderingWellFounded, WFMin
<1> QED
  BY <1>2 DEF StrictSubsetOrdering

First(s) == CHOOSE x \in s : TRUE

\* g sums f over the subsets of S, in the order that MapThenFoldSet takes.
Sums(g, f, S) ==
  g = [s \in SUBSET S |-> IF s = {} THEN 0 ELSE f[First(s)] + g[s \ {First(s)}]]

SumOver(f, S) == (CHOOSE g : Sums(g, f, S))[S]

LEMMA FirstIsMember == ASSUME NEW s, s # {} PROVE First(s) \in s
  BY DEF First

\* Two such functions agree where they sum the same.
LEMMA SumsAgree ==
  ASSUME NEW S, IsFiniteSet(S), NEW f, NEW g, Sums(g, f, S),
         NEW T, NEW k, NEW h, Sums(h, k, T),
         NEW U, U \subseteq S, U \subseteq T, \A x \in U : f[x] = k[x]
  PROVE  g[U] = h[U]
<1> DEFINE Bad == {s \in SUBSET U : g[s] # h[s]}
<1>1. SUFFICES ASSUME Bad # {} PROVE FALSE
  OBVIOUS
<1>2. IsFiniteSet(U)
  BY FS_Subset
<1>3. PICK s \in Bad : \A t \in Bad : t \subseteq s => t = s
  <2> HIDE DEF Bad
  <2>1. Bad \subseteq SUBSET U
    BY DEF Bad
  <2> QED
    BY <1>1, <1>2, <2>1, SmallestSubset
<1>4. s \in SUBSET S /\ s \in SUBSET T
  OBVIOUS
<1>5. CASE s = {}
  BY <1>3, <1>4, <1>5 DEF Sums
<1>6. CASE s # {}
  <2> DEFINE x == First(s)
             r == s \ {x}
  <2>1. x \in s
    BY <1>6, FirstIsMember
  <2>2. r \subseteq s /\ r # s /\ r \in SUBSET U
    BY <2>1
  <2>3. g[r] = h[r]
    BY <1>3, <2>2
  <2>4. g[s] = f[x] + g[r] /\ h[s] = k[x] + h[r]
    BY <1>4, <1>6 DEF Sums
  <2>5. f[x] = k[x]
    BY <2>1
  <2> QED
    BY <1>3, <2>3, <2>4, <2>5
<1> QED
  BY <1>5, <1>6

\* Over a finite set there is one.
LEMMA SumsExist ==
  ASSUME NEW S, IsFiniteSet(S), NEW f
  PROVE  \E g : Sums(g, f, S)
<1> DEFINE Bad == {s \in SUBSET S : ~ \E g : Sums(g, f, s)}
<1>1. SUFFICES ASSUME Bad # {} PROVE FALSE
  OBVIOUS
<1>2. PICK s \in Bad : \A t \in Bad : t \subseteq s => t = s
  <2> HIDE DEF Bad
  <2>1. Bad \subseteq SUBSET S
    BY DEF Bad
  <2> QED
    BY <1>1, <2>1, SmallestSubset
<1> DEFINE G(t) == CHOOSE g : Sums(g, f, t)
           Value(t) == IF t = {} THEN 0 ELSE f[First(t)] + G(t \ {First(t)})[t \ {First(t)}]
           h == [t \in SUBSET s |-> Value(t)]
<1>3. \A t : t \subseteq s /\ t # s => Sums(G(t), f, t)
  BY <1>2
<1>4. \A t : t \subseteq s /\ t # s => G(t)[t] = Value(t)
  <2> SUFFICES ASSUME NEW t, t \subseteq s, t # s PROVE G(t)[t] = Value(t)
    OBVIOUS
  <2>1. Sums(G(t), f, t)
    BY <1>3
  <2> HIDE DEF G
  <2>2. CASE t = {}
    BY <2>1, <2>2 DEF Sums
  <2>3. CASE t # {}
    <3> DEFINE r == t \ {First(t)}
    <3>1. r \subseteq t /\ r \subseteq s /\ r # s
      OBVIOUS
    <3>2. Sums(G(r), f, r)
      BY <1>3, <3>1
    <3>3. IsFiniteSet(t)
      BY FS_Subset
    <3>4. G(t)[r] = G(r)[r]
      BY <2>1, <3>1, <3>2, <3>3, SumsAgree
    <3>5. G(t)[t] = f[First(t)] + G(t)[r]
      BY <2>1, <2>3 DEF Sums
    <3> QED
      BY <2>3, <3>4, <3>5
  <2> QED
    BY <2>2, <2>3
<1>5. Sums(h, f, s)
  <2>1. ASSUME NEW t \in SUBSET s
        PROVE  h[t] = IF t = {} THEN 0 ELSE f[First(t)] + h[t \ {First(t)}]
    <3>1. h[t] = Value(t)
      OBVIOUS
    <3> DEFINE r == t \ {First(t)}
    <3>2. CASE t # {}
      <4>1. First(t) \in t
        BY <3>2, FirstIsMember
      <4>2. r \subseteq s /\ r # s
        BY <4>1
      <4>3. G(r)[r] = Value(r)
        BY <1>4, <4>2
      <4>4. h[r] = Value(r)
        BY <4>2
      <4> HIDE DEF h, G
      <4> QED
        BY <3>1, <3>2, <4>3, <4>4
    <3> QED
      BY <3>1, <3>2
  <2>2. h = [t \in SUBSET s |-> h[t]]
    OBVIOUS
  <2> HIDE DEF h
  <2> QED
    BY <2>1, <2>2 DEF Sums
<1> QED
  BY <1>2, <1>5

LEMMA SumEquation ==
  ASSUME NEW S, IsFiniteSet(S), NEW f
  PROVE  Sums(CHOOSE g : Sums(g, f, S), f, S)
  BY SumsExist

\* A sum depends on the values that are summed only.
LEMMA SumSame ==
  ASSUME NEW S, IsFiniteSet(S), NEW f, NEW k, \A x \in S : f[x] = k[x]
  PROVE  SumOver(f, S) = SumOver(k, S)
<1> DEFINE g == CHOOSE g : Sums(g, f, S)
           h == CHOOSE h : Sums(h, k, S)
<1>1. Sums(g, f, S) /\ Sums(h, k, S)
  BY SumEquation
<1> HIDE DEF g, h
<1>2. g[S] = h[S]
  BY <1>1, SumsAgree
<1> QED
  BY <1>2 DEF SumOver, g, h

LEMMA SumEmpty == ASSUME NEW f PROVE SumOver(f, {}) = 0
<1> DEFINE g == CHOOSE g : Sums(g, f, {})
<1>1. Sums(g, f, {})
  BY SumEquation, FS_EmptySet
<1> HIDE DEF g
<1>2. g[{}] = 0
  BY <1>1 DEF Sums
<1> QED
  BY <1>2 DEF SumOver, g

LEMMA SumFirst ==
  ASSUME NEW S, IsFiniteSet(S), S # {}, NEW f
  PROVE  SumOver(f, S) = f[First(S)] + SumOver(f, S \ {First(S)})
<1> DEFINE r == S \ {First(S)}
           g == CHOOSE g : Sums(g, f, S)
           h == CHOOSE h : Sums(h, f, r)
<1>1. IsFiniteSet(r)
  BY FS_RemoveElement
<1>2. Sums(g, f, S) /\ Sums(h, f, r)
  BY <1>1, SumEquation
<1> HIDE DEF g, h
<1>3. g[S] = f[First(S)] + g[r]
  BY <1>2 DEF Sums
<1>4. g[r] = h[r]
  BY <1>2, SumsAgree
<1> QED
  BY <1>3, <1>4 DEF SumOver, g, h

Naturals(f, S) == \A x \in S : f[x] \in Nat

LEMMA SumNatural ==
  ASSUME NEW S, IsFiniteSet(S), NEW f, Naturals(f, S)
  PROVE  SumOver(f, S) \in Nat
<1> DEFINE Bad == {s \in SUBSET S : SumOver(f, s) \notin Nat}
<1>1. SUFFICES ASSUME Bad # {} PROVE FALSE
  OBVIOUS
<1>2. PICK s \in Bad : \A t \in Bad : t \subseteq s => t = s
  <2> HIDE DEF Bad
  <2>1. Bad \subseteq SUBSET S
    BY DEF Bad
  <2> QED
    BY <1>1, <2>1, SmallestSubset
<1>3. s # {}
  <2>1. SumOver(f, {}) \in Nat
    BY SumEmpty
  <2> QED
    BY <1>2, <2>1
<1>4. First(s) \in s
  BY <1>3, FirstIsMember
<1>5. SumOver(f, s \ {First(s)}) \in Nat
  BY <1>2, <1>4
<1>6. f[First(s)] \in Nat
  BY <1>4 DEF Naturals
<1>7. SumOver(f, s) = f[First(s)] + SumOver(f, s \ {First(s)})
  BY <1>3, FS_Subset, SumFirst
<1> QED
  BY <1>2, <1>5, <1>6, <1>7

\* The order in which a set is summed makes no difference.
LEMMA SumAdd ==
  ASSUME NEW S, IsFiniteSet(S), NEW f, Naturals(f, S)
  PROVE  \A x \in S : SumOver(f, S) = f[x] + SumOver(f, S \ {x})
<1> DEFINE Bad == {s \in SUBSET S : \E x \in s : SumOver(f, s) # f[x] + SumOver(f, s \ {x})}
<1>1. SUFFICES ASSUME Bad # {} PROVE FALSE
  OBVIOUS
<1>2. PICK s \in Bad : \A t \in Bad : t \subseteq s => t = s
  <2> HIDE DEF Bad
  <2>1. Bad \subseteq SUBSET S
    BY DEF Bad
  <2> QED
    BY <1>1, <2>1, SmallestSubset
<1>3. PICK x \in s : SumOver(f, s) # f[x] + SumOver(f, s \ {x})
  BY <1>2
<1> DEFINE y == First(s)
<1>4. y \in s
  BY <1>3, FirstIsMember
<1>5. IsFiniteSet(s)
  BY FS_Subset
<1>6. SumOver(f, s) = f[y] + SumOver(f, s \ {y})
  BY <1>3, <1>5, SumFirst
<1>7. x # y
  BY <1>3, <1>6
<1> HIDE DEF y
<1>8. /\ s \ {y} \subseteq s /\ s \ {y} # s /\ s \ {y} \notin Bad
      /\ s \ {x} \subseteq s /\ s \ {x} # s /\ s \ {x} \notin Bad
  BY <1>2, <1>3, <1>4
<1>9. SumOver(f, s \ {y}) = f[x] + SumOver(f, (s \ {y}) \ {x})
  BY <1>3, <1>7, <1>8
<1>10. SumOver(f, s \ {x}) = f[y] + SumOver(f, (s \ {x}) \ {y})
  BY <1>4, <1>7, <1>8
<1>11. (s \ {x}) \ {y} = (s \ {y}) \ {x}
  OBVIOUS
<1> DEFINE rest == SumOver(f, (s \ {y}) \ {x})
<1>12. rest \in Nat /\ f[x] \in Nat /\ f[y] \in Nat
  <2>1. IsFiniteSet((s \ {y}) \ {x}) /\ Naturals(f, (s \ {y}) \ {x})
    BY <1>5, FS_RemoveElement DEF Naturals
  <2> QED
    BY <1>4, <2>1, SumNatural DEF Naturals
<1>13. SumOver(f, s) = f[y] + (f[x] + rest) /\ SumOver(f, s \ {x}) = f[y] + rest
  BY <1>6, <1>9, <1>10, <1>11
<1>14. SumOver(f, s) = f[x] + SumOver(f, s \ {x})
  BY <1>12, <1>13
<1> QED
  BY <1>3, <1>14

LEMMA SumUnion ==
  ASSUME NEW S, IsFiniteSet(S), NEW T, IsFiniteSet(T), S \cap T = {},
         NEW f, Naturals(f, S \cup T)
  PROVE  SumOver(f, S \cup T) = SumOver(f, S) + SumOver(f, T)
<1> DEFINE Bad == {s \in SUBSET S : SumOver(f, s \cup T) # SumOver(f, s) + SumOver(f, T)}
<1>1. SUFFICES ASSUME Bad # {} PROVE FALSE
  OBVIOUS
<1>2. PICK s \in Bad : \A t \in Bad : t \subseteq s => t = s
  <2> HIDE DEF Bad
  <2>1. Bad \subseteq SUBSET S
    BY DEF Bad
  <2> QED
    BY <1>1, <2>1, SmallestSubset
<1>3. SumOver(f, T) \in Nat
  BY SumNatural DEF Naturals
<1>4. s # {}
  <2>1. {} \cup T = T /\ SumOver(f, {}) = 0
    BY SumEmpty
  <2>2. {} \notin Bad
    BY <1>3, <2>1
  <2> QED
    BY <1>2, <2>2
<1>5. PICK x : x \in s
  BY <1>4
<1> DEFINE r == s \ {x}
<1>6. r \subseteq s /\ r # s /\ r \notin Bad
  BY <1>2, <1>5
<1>7. SumOver(f, r \cup T) = SumOver(f, r) + SumOver(f, T)
  BY <1>6
<1>8. IsFiniteSet(s) /\ IsFiniteSet(r) /\ IsFiniteSet(s \cup T)
  BY FS_Subset, FS_Union, FS_RemoveElement
<1>9. SumOver(f, s) = f[x] + SumOver(f, r)
  BY <1>5, <1>8, SumAdd DEF Naturals
<1>10. SumOver(f, s \cup T) = f[x] + SumOver(f, r \cup T)
  <2>1. (s \cup T) \ {x} = r \cup T
    BY <1>5
  <2> QED
    BY <1>5, <1>8, <2>1, SumAdd DEF Naturals
<1>11. f[x] \in Nat /\ SumOver(f, r) \in Nat
  BY <1>5, <1>8, SumNatural DEF Naturals
<1>12. SumOver(f, s \cup T) = SumOver(f, s) + SumOver(f, T)
  BY <1>3, <1>7, <1>9, <1>10, <1>11
<1> QED
  BY <1>2, <1>12

\* Less in each summand, and fewer of them.
LEMMA SumMonotone ==
  ASSUME NEW S, NEW T, IsFiniteSet(T), S \subseteq T,
         NEW f, NEW k, Naturals(f, S), Naturals(k, T), \A x \in S : f[x] <= k[x]
  PROVE  /\ SumOver(f, S) \in Nat /\ SumOver(k, T) \in Nat
         /\ SumOver(f, S) <= SumOver(k, T)
<1> DEFINE Bad == {s \in SUBSET S : ~(SumOver(f, s) <= SumOver(k, s))}
<1>1. IsFiniteSet(S) /\ IsFiniteSet(T \ S)
  BY FS_Subset, FS_Difference
<1>2. ASSUME Bad # {} PROVE FALSE
  <2>1. PICK s \in Bad : \A t \in Bad : t \subseteq s => t = s
    <3> HIDE DEF Bad
    <3>1. Bad \subseteq SUBSET S
      BY DEF Bad
    <3> QED
      BY <1>1, <1>2, <3>1, SmallestSubset
  <2>2. s # {}
    <3>1. SumOver(f, {}) = 0 /\ SumOver(k, {}) = 0
      BY SumEmpty
    <3>2. {} \notin Bad
      BY <3>1
    <3> QED
      BY <2>1, <3>2
  <2>3. PICK x : x \in s
    BY <2>2
  <2> DEFINE r == s \ {x}
  <2>4. IsFiniteSet(s) /\ IsFiniteSet(r)
    BY <1>1, FS_Subset, FS_RemoveElement
  <2>5. SumOver(f, r) <= SumOver(k, r)
    BY <2>1, <2>3
  <2>6. SumOver(f, s) = f[x] + SumOver(f, r) /\ SumOver(k, s) = k[x] + SumOver(k, r)
    BY <2>3, <2>4, SumAdd DEF Naturals
  <2>7. SumOver(f, r) \in Nat /\ SumOver(k, r) \in Nat
    BY <2>4, SumNatural DEF Naturals
  <2>8. f[x] \in Nat /\ k[x] \in Nat /\ f[x] <= k[x]
    BY <2>3 DEF Naturals
  <2>9. SumOver(f, s) <= SumOver(k, s)
    BY <2>5, <2>6, <2>7, <2>8
  <2> QED
    BY <2>1, <2>9
<1>3. SumOver(f, S) <= SumOver(k, S)
  BY <1>2
<1>4. SumOver(k, T) = SumOver(k, S) + SumOver(k, T \ S)
  <2>1. T = S \cup (T \ S) /\ S \cap (T \ S) = {}
    OBVIOUS
  <2> HIDE DEF Bad
  <2> QED
    BY <1>1, <2>1, SumUnion
<1>5. SumOver(f, S) \in Nat /\ SumOver(k, S) \in Nat /\ SumOver(k, T \ S) \in Nat
  BY <1>1, SumNatural DEF Naturals
<1> QED
  BY <1>3, <1>4, <1>5

\* What the book adds up, in these terms.
LEMMA UsdIsSum ==
  ASSUME NEW entries, NEW ids, IsFiniteSet(ids)
  PROVE  Usd(entries, ids) = SumOver([id \in ids |-> entries[id].usd], ids)
<1> DEFINE f == [id \in ids |-> entries[id].usd]
           Equation(g) == g = [s \in SUBSET ids |->
             IF s = {} THEN 0 ELSE entries[First(s)].usd + g[s \ {First(s)}]]
           g0 == CHOOSE g : Equation(g)
<1>1. Usd(entries, ids) = g0[ids]
  BY DEF Usd, MapThenSumSet, MapThenFoldSet, First
<1>2. \A s \in SUBSET ids : s # {} => f[First(s)] = entries[First(s)].usd
  BY FirstIsMember
<1> HIDE DEF f
<1>3. \A g : Sums(g, f, ids) <=> Equation(g)
  <2> SUFFICES ASSUME NEW g PROVE Sums(g, f, ids) <=> Equation(g)
    OBVIOUS
  <2>1. [s \in SUBSET ids |-> IF s = {} THEN 0 ELSE f[First(s)] + g[s \ {First(s)}]]
        = [s \in SUBSET ids |-> IF s = {} THEN 0 ELSE entries[First(s)].usd + g[s \ {First(s)}]]
    BY <1>2
  <2> QED
    BY <2>1 DEF Sums
<1> HIDE DEF Equation
<1>4. Equation(g0)
  BY <1>3, SumsExist
<1> HIDE DEF g0
<1>5. Sums(g0, f, ids)
  BY <1>3, <1>4
<1> DEFINE h == CHOOSE h : Sums(h, f, ids)
<1>6. Sums(h, f, ids)
  BY SumEquation
<1> HIDE DEF h
<1>7. g0[ids] = h[ids]
  BY <1>5, <1>6, SumsAgree
<1> QED
  BY <1>1, <1>7 DEF SumOver, h, f

LEMMA TotalIsSum ==
  ASSUME NEW calls, IsFiniteSet(DOMAIN calls)
  PROVE  Total(calls) = SumOver(calls, DOMAIN calls)
  BY DEF Total, MapThenSumSet, MapThenFoldSet, SumOver, Sums, First

-----------------------------------------------------------------------------
(* The inductive invariant.                                                 *)

Alive == pc \notin {"down", "halted"}

\* What a restart would load, and the iteration it would continue from.
Saved == IF disk = None THEN NewBook(setting.mode) ELSE disk
Last  == IF savedIter = None THEN 0 ELSE savedIter

\* The iteration is saved before anything is reserved or charged for it.
IterationSaved ==
  /\ Alive => iter = Last
  /\ \A id \in DOMAIN charged : id[1] <= Last
  /\ pc \in {"reserve", "save", "work"} =>
       iter >= 1 /\ \A id \in DOMAIN charged : id[1] < iter

\* The book in memory is the saved one, but for what is about to be saved.
BookSaved ==
  /\ pc \in {"next", "reserve", "work", "usage"} => book = Saved
  /\ pc \in {"next", "reserve"} => book.pending = None
  /\ pc \in {"save", "work"} => book.pending # None /\ book.pending.iter = iter
  /\ pc = "save" => Saved.pending = None /\ book = [Saved EXCEPT !.pending = book.pending]
  /\ pc = "usage" => book.pending # None
  /\ pc = "book" => after # "none" /\ (after = "next" => book.pending = None)

BooksValid ==
  /\ Valid(Saved, setting.mode)
  /\ Alive => Valid(book, setting.mode)

\* A book speaks of the charges w: it has them, or they belong to the iteration
\* that is pending; and it has no other.
Accounts(b, w) ==
  /\ \A id \in DOMAIN w :
       \/ id \in DOMAIN b.entries /\ b.entries[id] = w[id]
       \/ b.pending # None /\ b.pending.iter = id[1]
  /\ \A id \in DOMAIN b.entries : id \in DOMAIN w \/ b.entries[id] = Skipped

ChargesBooked == ~lied => Accounts(Saved, charged) /\ (Alive => Accounts(book, charged))

\* What is booked and what is reserved stay within the limits of s together, and
\* what was charged since stays within what was reserved.
Within(s, b, w) ==
  IF b.pending = None
  THEN /\ b.usd <= s.cap
       /\ s.maxCalls > 0 => b.calls <= s.maxCalls
  ELSE /\ b.pending.calls # None
       /\ b.usd + Total(b.pending.calls) <= s.cap
       /\ s.maxCalls > 0 => b.calls + Cardinality(DOMAIN b.pending.calls) <= s.maxCalls
       /\ \A id \in DOMAIN w : id[1] = b.pending.iter =>
            id \in DOMAIN b.pending.calls /\ w[id].usd <= b.pending.calls[id]

StrictWithin ==
  setting.mode = "strict" /\ ~lied =>
    Within(setting, Saved, charged) /\ (Alive => Within(setting, book, charged))

\* Nothing is begun with the allowance used up.
RoomLeft == pc \in {"save", "work"} /\ setting.cap > 0 => book.usd < setting.cap

BudgetInv ==
  TypeOK /\ IterationSaved /\ BookSaved /\ BooksValid /\ ChargesBooked /\ StrictWithin
    /\ RoomLeft

-----------------------------------------------------------------------------
(* Reports and books.                                                       *)

LEMMA PartialIs ==
  ASSUME NEW S, NEW T, NEW f
  PROVE  f \in Partials(S, T) <=> f \in [DOMAIN f -> T] /\ DOMAIN f \subseteq S
  BY DEF Partials

LEMMA IdsFinite == IsFiniteSet(CallID)
<1>1. IsFiniteSet(1..MaxIterations)
  BY FS_Interval, BudgetAssumption
<1> QED
  BY <1>1, FS_Product, BudgetAssumption DEF CallID

LEMMA EntryFacts ==
  /\ Skipped \in Entry
  /\ \A e \in Entry : e.usd \in Nat /\ e.usd <= MaxCost
  BY BudgetAssumption DEF Entry, Skipped

LEMMA ReportFacts ==
  ASSUME NEW u \in Entries
  PROVE  /\ u \in [DOMAIN u -> Entry] /\ DOMAIN u \subseteq CallID /\ IsFiniteSet(DOMAIN u)
         /\ \A id \in DOMAIN u : u[id] \in Entry /\ u[id].usd \in Nat
<1>1. u \in [DOMAIN u -> Entry] /\ DOMAIN u \subseteq CallID
  BY PartialIs DEF Entries
<1>2. IsFiniteSet(DOMAIN u)
  BY <1>1, IdsFinite, FS_Subset
<1> QED
  BY <1>1, <1>2, EntryFacts

LEMMA UsdNatural ==
  ASSUME NEW u \in Entries, NEW ids, ids \subseteq DOMAIN u
  PROVE  IsFiniteSet(ids) /\ Usd(u, ids) \in Nat
<1>1. IsFiniteSet(ids)
  BY ReportFacts, FS_Subset
<1> DEFINE f == [id \in ids |-> u[id].usd]
<1>2. Naturals(f, ids)
  BY ReportFacts DEF Naturals
<1> HIDE DEF f
<1>3. SumOver(f, ids) \in Nat
  BY <1>1, <1>2, SumNatural
<1> QED
  BY <1>1, <1>3, UsdIsSum DEF f

LEMMA JoinedFacts ==
  ASSUME NEW f \in Entries, NEW g \in Entries
  PROVE  /\ Joined(f, g) \in Entries
         /\ DOMAIN Joined(f, g) = DOMAIN f \cup DOMAIN g
         /\ \A id \in DOMAIN f : Joined(f, g)[id] = f[id]
         /\ \A id \in DOMAIN g \ DOMAIN f : Joined(f, g)[id] = g[id]
<1> DEFINE h == Joined(f, g)
<1>1. /\ DOMAIN h = DOMAIN f \cup DOMAIN g
      /\ \A id \in DOMAIN f : h[id] = f[id]
      /\ \A id \in DOMAIN g \ DOMAIN f : h[id] = g[id]
      /\ h = [id \in DOMAIN h |-> h[id]]
  BY DEF Joined
<1> HIDE DEF h
<1>2. h \in [DOMAIN h -> Entry]
  BY <1>1, ReportFacts
<1>3. h \in Entries
  BY <1>1, <1>2, ReportFacts, PartialIs DEF Entries
<1> QED
  BY <1>1, <1>3 DEF h

\* A book grows by what is new in a report.
LEMMA UsedOfJoined ==
  ASSUME NEW f \in Entries, NEW g \in Entries
  PROVE  Used(Joined(f, g)) = Used(f) + Usd(g, DOMAIN g \ DOMAIN f)
<1> DEFINE D == DOMAIN f
           F == DOMAIN g \ D
           j == Joined(f, g)
           fj == [id \in D \cup F |-> j[id].usd]
           ff == [id \in D |-> f[id].usd]
           fg == [id \in F |-> g[id].usd]
<1>1. IsFiniteSet(D) /\ IsFiniteSet(F) /\ IsFiniteSet(D \cup F) /\ D \cap F = {}
  BY ReportFacts, FS_Difference, FS_Union
<1>2. /\ DOMAIN j = D \cup F /\ j \in Entries
      /\ \A id \in D : j[id] = f[id]
      /\ \A id \in F : j[id] = g[id]
  BY JoinedFacts
<1> HIDE DEF j
<1>3. Naturals(fj, D \cup F)
  BY <1>2, ReportFacts DEF Naturals
<1>4. /\ \A id \in D : fj[id] = ff[id]
      /\ \A id \in F : fj[id] = fg[id]
  BY <1>2
<1>5. Used(j) = SumOver(fj, D \cup F)
  BY <1>1, <1>2, UsdIsSum DEF Used
<1>6. Used(f) = SumOver(ff, D) /\ Usd(g, F) = SumOver(fg, F)
  BY <1>1, UsdIsSum DEF Used
<1> HIDE DEF fj, ff, fg, D, F
<1>7. SumOver(fj, D \cup F) = SumOver(fj, D) + SumOver(fj, F)
  BY <1>1, <1>3, SumUnion
<1>8. SumOver(fj, D) = SumOver(ff, D) /\ SumOver(fj, F) = SumOver(fg, F)
  BY <1>1, <1>4, SumSame
<1> QED
  BY <1>5, <1>6, <1>7, <1>8 DEF j, D, F

LEMMA CountOfJoined ==
  ASSUME NEW f \in Entries, NEW g \in Entries
  PROVE  /\ Count(f) \in Nat
         /\ Count(Joined(f, g))
              = Count(f) + Cardinality({id \in DOMAIN g \ DOMAIN f : g[id].status # "skipped"})
<1> DEFINE A == {id \in DOMAIN f : f[id].status # "skipped"}
           B == {id \in DOMAIN g \ DOMAIN f : g[id].status # "skipped"}
           j == Joined(f, g)
<1>1. IsFiniteSet(A) /\ IsFiniteSet(B) /\ A \cap B = {}
  <2>1. A \subseteq DOMAIN f /\ B \subseteq DOMAIN g /\ A \cap B = {}
    OBVIOUS
  <2> HIDE DEF A, B
  <2> QED
    BY <2>1, ReportFacts, FS_Subset
<1>2. {id \in DOMAIN j : j[id].status # "skipped"} = A \cup B
  <2>1. /\ DOMAIN j = DOMAIN f \cup DOMAIN g
        /\ \A id \in DOMAIN f : j[id] = f[id]
        /\ \A id \in DOMAIN g \ DOMAIN f : j[id] = g[id]
    BY JoinedFacts
  <2> HIDE DEF j
  <2> QED
    BY <2>1
<1>3. /\ Cardinality(A) \in Nat /\ Cardinality(B) \in Nat
      /\ Cardinality(A \cup B) = Cardinality(A) + Cardinality(B)
  <2> HIDE DEF A, B
  <2>1. Cardinality(A \cap B) = 0
    BY <1>1, FS_EmptySet
  <2>2. Cardinality(A) \in Nat /\ Cardinality(B) \in Nat
    BY <1>1, FS_CardinalityType
  <2>3. Cardinality(A \cup B) = Cardinality(A) + Cardinality(B) - Cardinality(A \cap B)
    BY <1>1, FS_Union
  <2> QED
    BY <2>1, <2>2, <2>3
<1> QED
  BY <1>2, <1>3 DEF Count

LEMMA BookIs ==
  ASSUME NEW b
  PROVE  b \in Book => /\ b.usd \in 0..MaxInt /\ b.calls \in Nat /\ b.known \in BOOLEAN
                       /\ b.entries \in Entries /\ b.pending \in Pending \cup {None}
  BY DEF Book

LEMMA SentinelFacts ==
  /\ None \notin 0..MaxIterations
  /\ None \notin Partials(CallID, 0..MaxCost)
  /\ None \notin Pending
  /\ None \notin Book
  BY SentinelAssumption

LEMMA NewBookFacts ==
  ASSUME NEW mode \in {"strict", "observed", "unmetered"}
  PROVE  /\ NewBook(mode) \in Book /\ Valid(NewBook(mode), mode)
         /\ NewBook(mode).pending = None /\ DOMAIN NewBook(mode).entries = {}
         /\ NewBook(mode).usd = 0 /\ NewBook(mode).calls = 0
<1> DEFINE b == NewBook(mode)
<1>1. /\ b.usd = 0 /\ b.calls = 0 /\ b.known = (mode # "unmetered")
      /\ b.entries = <<>> /\ b.pending = None /\ DOMAIN <<>> = {}
  BY DEF NewBook
<1>2. <<>> \in Entries
  <2>1. <<>> \in [{} -> Entry]
    OBVIOUS
  <2> QED
    BY <2>1 DEF Entries, Partials
<1>3. Used(<<>>) = 0
  <2>1. DOMAIN <<>> = {} /\ IsFiniteSet({})
    BY FS_EmptySet
  <2>2. Usd(<<>>, {}) = SumOver([id \in {} |-> <<>>[id].usd], {})
    BY <2>1, UsdIsSum
  <2> QED
    BY <2>1, <2>2, SumEmpty DEF Used
<1>4. Count(<<>>) = 0
  <2>1. {id \in DOMAIN <<>> : <<>>[id].status # "skipped"} = {}
    OBVIOUS
  <2> QED
    BY <2>1, FS_EmptySet DEF Count
<1>5. b \in Book
  <2>1. 0 \in 0..MaxInt
    BY BudgetAssumption
  <2> QED
    BY <1>2, <2>1 DEF NewBook, Book
<1> HIDE DEF b
<1>6. Valid(b, mode)
  BY <1>1, <1>3, <1>4 DEF Valid
<1> QED
  BY <1>1, <1>5, <1>6 DEF b

\* reconcile keeps a book that loadBudget accepts.
LEMMA BookedIsValid ==
  ASSUME NEW b \in Book, Valid(b, setting.mode), NEW u \in Entries, NEW i, ~Refused(b, i, u)
  PROVE  /\ Booked(b, u) \in Book
         /\ Valid(Booked(b, u), setting.mode)
<1> DEFINE c == Booked(b, u)
           fresh == DOMAIN u \ DOMAIN b.entries
           counted == {id \in fresh : u[id].status # "skipped"}
<1>1. /\ b.usd \in Nat /\ b.calls \in Nat /\ b.entries \in Entries
      /\ b.usd = Used(b.entries) /\ b.calls = Count(b.entries)
  BY BookIs DEF Valid
<1>2. /\ c.usd = b.usd + Usd(u, fresh)
      /\ c.calls = b.calls + Cardinality(counted)
      /\ c.known = (b.known /\ \A id \in DOMAIN u : u[id].status # "unknown")
      /\ c.entries = Joined(b.entries, u)
      /\ c.pending = None
      /\ c = [usd |-> c.usd, calls |-> c.calls, known |-> c.known, entries |-> c.entries,
              pending |-> c.pending]
  BY DEF Booked
<1>3. c.usd = Used(c.entries)
  BY <1>1, <1>2, UsedOfJoined
<1>4. c.calls = Count(c.entries) /\ c.calls \in Nat
  <2>1. c.calls = Count(c.entries)
    BY <1>1, <1>2, CountOfJoined
  <2>2. Count(c.entries) \in Nat
    BY <1>1, <1>2, JoinedFacts, CountOfJoined
  <2> QED
    BY <2>1, <2>2
<1>5. /\ c.entries \in Entries /\ DOMAIN c.entries = DOMAIN b.entries \cup fresh
      /\ \A id \in DOMAIN b.entries : c.entries[id] = b.entries[id]
      /\ \A id \in fresh : c.entries[id] = u[id]
  <2> DEFINE e == b.entries
  <2>1. e \in Entries /\ c.entries = Joined(e, u) /\ fresh = DOMAIN u \ DOMAIN e
    BY <1>1, <1>2
  <2> HIDE DEF e, c, fresh
  <2>2. /\ c.entries \in Entries /\ DOMAIN c.entries = DOMAIN e \cup DOMAIN u
        /\ \A id \in DOMAIN e : c.entries[id] = e[id]
        /\ \A id \in fresh : c.entries[id] = u[id]
    <3>1. /\ Joined(e, u) \in Entries
          /\ DOMAIN Joined(e, u) = DOMAIN e \cup DOMAIN u
          /\ \A id \in DOMAIN e : Joined(e, u)[id] = e[id]
          /\ \A id \in DOMAIN u \ DOMAIN e : Joined(e, u)[id] = u[id]
      BY <2>1, JoinedFacts
    <3> QED
      BY <2>1, <3>1
  <2> QED
    BY <2>1, <2>2 DEF e
<1>6. c.usd \in 0..MaxInt
  <2>1. Usd(u, fresh) \in Nat
    BY UsdNatural
  <2>2. ~(b.usd + Usd(u, fresh) > MaxInt)
    BY DEF Refused, Overflows
  <2> QED
    BY <1>1, <1>2, <2>1, <2>2, BudgetAssumption
<1> HIDE DEF c
<1>7. c \in Book
  <2>1. c.known \in BOOLEAN
    BY <1>2, BookIs
  <2> QED
    BY <1>2, <1>4, <1>5, <1>6, <2>1 DEF Book
<1>9. setting.mode # "unmetered" => \A id \in fresh : u[id].status # "unknown"
  BY DEF Refused
<1>10. \A id \in DOMAIN u : id \in fresh \/ u[id] = b.entries[id]
  BY DEF Refused
<1>11. /\ setting.mode # "unmetered" => \A id \in DOMAIN b.entries : b.entries[id].status # "unknown"
       /\ b.known = (setting.mode # "unmetered"
                     /\ \A id \in DOMAIN b.entries : b.entries[id].status # "unknown")
  BY DEF Valid
<1> HIDE DEF fresh
<1>12. setting.mode # "unmetered" => \A id \in DOMAIN c.entries : c.entries[id].status # "unknown"
  BY <1>5, <1>9, <1>11
<1>13. c.known = (setting.mode # "unmetered"
                  /\ \A id \in DOMAIN c.entries : c.entries[id].status # "unknown")
  <2>1. CASE setting.mode = "unmetered"
    BY <2>1, <1>2, <1>11
  <2>2. CASE setting.mode # "unmetered"
    <3>1. b.known
      BY <2>2, <1>11
    <3>2. \A id \in DOMAIN u : u[id].status # "unknown"
      BY <2>2, <1>9, <1>10, <1>11 DEF fresh
    <3> QED
      BY <2>2, <3>1, <3>2, <1>2, <1>12
  <2> QED
    BY <2>1, <2>2
<1> QED
  BY <1>3, <1>4, <1>7, <1>12, <1>13 DEF Valid, c

-----------------------------------------------------------------------------
(* The steps.                                                               *)

LEMMA InvFacts ==
  ASSUME BudgetInv
  PROVE  /\ Saved \in Book /\ Last \in 0..MaxIterations
         /\ setting.mode \in {"strict", "observed", "unmetered"}
         /\ setting.cap \in 0..MaxInt /\ setting.maxCalls \in Nat /\ setting.reserve \in BOOLEAN
         /\ setting.mode = "strict" => setting.reserve /\ setting.cap > 0
<1>1. /\ setting \in Settings
      /\ setting.mode \in {"strict", "observed", "unmetered"}
      /\ setting.cap \in 0..MaxInt /\ setting.maxCalls \in Nat /\ setting.reserve \in BOOLEAN
      /\ setting.mode = "strict" => setting.reserve /\ setting.cap > 0
  BY BudgetAssumption DEF BudgetInv, TypeOK
<1>2. Last \in 0..MaxIterations
  BY BudgetAssumption DEF BudgetInv, TypeOK, Last
<1>3. Saved \in Book
  BY <1>1, NewBookFacts DEF BudgetInv, TypeOK, Saved
<1> QED
  BY <1>1, <1>2, <1>3

LEMMA InitHolds == Init => BudgetInv
<1> SUFFICES ASSUME Init PROVE BudgetInv
  OBVIOUS
<1> DEFINE b == NewBook(setting.mode)
<1>1. /\ setting.mode \in {"strict", "observed", "unmetered"} /\ setting.cap \in Nat
      /\ setting.maxCalls \in Nat
  BY BudgetAssumption DEF Init
<1>2. /\ b \in Book /\ Valid(b, setting.mode) /\ b.pending = None
      /\ DOMAIN b.entries = {} /\ b.usd = 0 /\ b.calls = 0
  BY <1>1, NewBookFacts
<1> HIDE DEF b
<1>3. TypeOK
  <2>1. <<>> \in Entries
    <3>1. <<>> \in [{} -> Entry]
      OBVIOUS
    <3> QED
      BY <3>1 DEF Entries, Partials
  <2>2. /\ 0 \in 0..MaxIterations /\ 0 \in 0..MaxStarts /\ 0 \in 0..MaxFaults
    BY BudgetAssumption
  <2> QED
    BY <1>2, <2>1, <2>2 DEF Init, TypeOK, b
<1>4. Saved = b /\ Last = 0 /\ ~Alive /\ DOMAIN charged = {}
  BY DEF Init, Saved, Last, Alive, b
<1>5. IterationSaved /\ BookSaved /\ RoomLeft
  BY <1>4 DEF Init, IterationSaved, BookSaved, RoomLeft
<1>6. BooksValid /\ ChargesBooked
  BY <1>2, <1>4 DEF BooksValid, ChargesBooked, Accounts
<1>7. StrictWithin
  BY <1>1, <1>2, <1>4 DEF StrictWithin, Within
<1> QED
  BY <1>3, <1>5, <1>6, <1>7 DEF BudgetInv

LEMMA StartHolds == ASSUME BudgetInv, Start PROVE BudgetInv'
<1>1. /\ Saved \in Book /\ Last \in 0..MaxIterations
      /\ setting.mode \in {"strict", "observed", "unmetered"}
  BY InvFacts
<1>2. /\ book' = Saved /\ Saved' = Saved /\ iter' = Last /\ Last' = Last
      /\ starts < MaxStarts /\ starts' = starts + 1 /\ after' = "none"
      /\ UNCHANGED <<setting, savedIter, disk, expired, faults, charged, lied>>
  BY DEF Start, Saved, Last
\* A book too long to be read halts the process where it starts.
<1>3. /\ pc' \in {"halted", "usage", "next"}
      /\ pc' # "halted" => pc' = IF Saved.pending # None THEN "usage" ELSE "next"
  BY DEF Start, GoTo, Saved
<1>4. TypeOK'
  <2>1. starts' \in 0..MaxStarts
    BY <1>2, BudgetAssumption DEF BudgetInv, TypeOK
  <2> QED
    BY <1>1, <1>2, <1>3, <2>1 DEF BudgetInv, TypeOK
<1>5. IterationSaved'
  BY <1>2, <1>3 DEF BudgetInv, IterationSaved, Alive
<1>6. BookSaved'
  BY <1>2, <1>3 DEF BudgetInv, BookSaved
<1>7. BooksValid' /\ ChargesBooked' /\ StrictWithin'
  BY <1>2, <1>3 DEF BudgetInv, BooksValid, ChargesBooked, StrictWithin
<1>8. RoomLeft'
  BY <1>3 DEF RoomLeft
<1> QED
  BY <1>4, <1>5, <1>6, <1>7, <1>8 DEF BudgetInv

LEMMA IterateHolds == ASSUME BudgetInv, Iterate PROVE BudgetInv'
<1>1. /\ pc = "next" /\ iter < MaxIterations /\ iter' = iter + 1 /\ iter = Last
      /\ iter \in Nat /\ Last \in Nat
      /\ UNCHANGED <<setting, expired, starts, book, disk, charged, lied, after>>
      /\ \/ pc' = "reserve" /\ savedIter' = iter + 1 /\ UNCHANGED faults
         \/ pc' = "halted" /\ savedIter' \in {savedIter, iter + 1} /\ Fault
  BY BudgetAssumption
  DEF Iterate, BudgetInv, IterationSaved, Alive, TypeOK, Ledger, GoTo, Last
<1>2. Saved' = Saved
  BY <1>1 DEF Saved
<1>3. iter' \in 0..MaxIterations /\ savedIter' \in (0..MaxIterations) \cup {None}
  BY <1>1, BudgetAssumption DEF BudgetInv, TypeOK
<1>4. TypeOK'
  <2>1. faults' \in 0..MaxFaults
    BY <1>1, BudgetAssumption DEF BudgetInv, TypeOK, Fault
  <2> QED
    BY <1>1, <1>3, <2>1 DEF BudgetInv, TypeOK
<1>5. IterationSaved'
  <2>1. Last' \in {iter, iter + 1} /\ (pc' = "reserve" => Last' = iter + 1)
    BY <1>1, SentinelFacts, <1>3 DEF Last
  <2>2. \A id \in DOMAIN charged : id[1] <= iter /\ id[1] \in Nat
    <3>1. DOMAIN charged \subseteq CallID
      BY ReportFacts DEF BudgetInv, TypeOK
    <3> QED
      BY <1>1, <3>1 DEF BudgetInv, IterationSaved, CallID
  <2> QED
    BY <1>1, <2>1, <2>2 DEF IterationSaved, Alive
<1>6. BookSaved'
  BY <1>1, <1>2 DEF BudgetInv, BookSaved
<1>7. BooksValid' /\ ChargesBooked' /\ StrictWithin'
  BY <1>1, <1>2 DEF BudgetInv, BooksValid, ChargesBooked, StrictWithin, Alive
<1>8. RoomLeft'
  BY <1>1 DEF RoomLeft
<1> QED
  BY <1>4, <1>5, <1>6, <1>7, <1>8 DEF BudgetInv

\* Nothing but the step and the deadline changes, and the process stops or
\* nothing stops it.
LEMMA HaltHolds ==
  ASSUME BudgetInv,
         UNCHANGED <<setting, iter, savedIter, book, disk, after, starts, faults, charged, lied>>,
         expired' \in BOOLEAN, pc' \in {"halted", pc}
  PROVE  BudgetInv'
<1>1. Saved' = Saved /\ Last' = Last /\ (Alive' => Alive)
  BY DEF Saved, Last, Alive
<1>2. TypeOK'
  BY DEF BudgetInv, TypeOK
<1>3. IterationSaved' /\ BookSaved' /\ RoomLeft'
  BY <1>1 DEF BudgetInv, IterationSaved, BookSaved, RoomLeft, Alive
<1>4. BooksValid' /\ ChargesBooked' /\ StrictWithin'
  BY <1>1 DEF BudgetInv, BooksValid, ChargesBooked, StrictWithin
<1> QED
  BY <1>2, <1>3, <1>4 DEF BudgetInv

LEMMA PendingSet ==
  ASSUME NEW b \in Book, NEW q \in Pending \cup {None}
  PROVE  LET c == [b EXCEPT !.pending = q] IN
         /\ c \in Book /\ c.pending = q
         /\ c.usd = b.usd /\ c.calls = b.calls /\ c.known = b.known /\ c.entries = b.entries
  BY DEF Book

\* A reservation or an announcement is taken.
LEMMA ReservedHolds ==
  ASSUME BudgetInv, pc = "reserve", NEW q \in Pending, q.iter = iter,
         book' = [book EXCEPT !.pending = q], pc' = "save",
         UNCHANGED <<setting, iter, savedIter, disk, after, expired, starts, faults, charged, lied>>,
         setting.cap > 0 => book.usd < setting.cap,
         setting.mode = "strict" =>
           /\ q.calls # None
           /\ book.usd + Total(q.calls) <= setting.cap
           /\ setting.maxCalls > 0 =>
                book.calls + Cardinality(DOMAIN q.calls) <= setting.maxCalls
  PROVE  BudgetInv'
<1>1. /\ Alive /\ Alive' /\ Saved' = Saved /\ Last' = Last
      /\ book = Saved /\ book \in Book /\ book.pending = None
  BY DEF BudgetInv, TypeOK, BookSaved, Saved, Last, Alive
<1>2. /\ book' \in Book /\ book'.pending = q /\ book'.usd = book.usd /\ book'.calls = book.calls
      /\ book'.known = book.known /\ book'.entries = book.entries
  BY <1>1, PendingSet
<1>3. q # None
  BY SentinelFacts
<1>4. TypeOK'
  BY <1>2 DEF BudgetInv, TypeOK
<1>5. IterationSaved'
  BY <1>1 DEF BudgetInv, IterationSaved
<1>6. BookSaved'
  BY <1>1, <1>2, <1>3 DEF BookSaved
<1>7. BooksValid'
  <2>1. Valid(book, setting.mode) /\ Valid(Saved, setting.mode)
    BY <1>1 DEF BudgetInv, BooksValid
  <2>2. Valid(book', setting.mode)
    BY <1>2, <2>1 DEF Valid
  <2> QED
    BY <1>1, <2>1, <2>2 DEF BooksValid
<1>8. ChargesBooked'
  <2>1. ~lied => Accounts(Saved, charged) /\ Accounts(book, charged)
    BY <1>1 DEF BudgetInv, ChargesBooked
  <2>2. ~lied => Accounts(book', charged)
    BY <1>1, <1>2, <2>1 DEF Accounts
  <2> QED
    BY <1>1, <2>1, <2>2 DEF ChargesBooked
<1>9. StrictWithin'
  <2>1. setting.mode = "strict" /\ ~lied => Within(setting, Saved, charged)
    BY DEF BudgetInv, StrictWithin
  <2>2. \A id \in DOMAIN charged : id[1] # iter
    <3>1. \A id \in DOMAIN charged : id[1] \in Int
      BY ReportFacts DEF BudgetInv, TypeOK, CallID
    <3> QED
      BY <3>1 DEF BudgetInv, IterationSaved, TypeOK
  <2>3. setting.mode = "strict" => Within(setting, book', charged)
    BY <1>2, <1>3, <2>2 DEF Within
  <2> QED
    BY <1>1, <2>1, <2>3 DEF StrictWithin
<1>10. RoomLeft'
  BY <1>2 DEF RoomLeft
<1> QED
  BY <1>4, <1>5, <1>6, <1>7, <1>8, <1>9, <1>10 DEF BudgetInv

LEMMA CallsFinite ==
  ASSUME NEW calls \in Partials(CallID, 0..MaxCost)
  PROVE  /\ IsFiniteSet(DOMAIN calls) /\ Naturals(calls, DOMAIN calls)
         /\ Cardinality(DOMAIN calls) \in Nat /\ Total(calls) \in Nat
<1>1. calls \in [DOMAIN calls -> 0..MaxCost] /\ DOMAIN calls \subseteq CallID
  BY PartialIs
<1>2. IsFiniteSet(DOMAIN calls)
  BY <1>1, IdsFinite, FS_Subset
<1>3. Naturals(calls, DOMAIN calls)
  BY <1>1, BudgetAssumption DEF Naturals
<1> QED
  BY <1>2, <1>3, FS_CardinalityType, SumNatural, TotalIsSum

LEMMA ReserveHolds == ASSUME BudgetInv, Reserve PROVE BudgetInv'
<1>1. /\ pc = "reserve"
      /\ UNCHANGED <<setting, iter, savedIter, expired, starts, faults, disk, charged, lied, after>>
  BY DEF Reserve, run
<1>2. CASE pc' = "halted" /\ UNCHANGED book
  BY <1>1, <1>2, HaltHolds DEF BudgetInv, TypeOK
<1>3. ASSUME NEW calls \in Partials(Calls(iter), 0..MaxCost), ReserveReason(book, calls) = "",
             book' = [book EXCEPT !.pending = [iter |-> iter, calls |-> calls]], pc' = "save"
      PROVE  BudgetInv'
  <2> DEFINE q == [iter |-> iter, calls |-> calls]
  <2>1. iter \in 1..MaxIterations
    BY <1>1, BudgetAssumption DEF BudgetInv, TypeOK, IterationSaved
  <2>2. calls \in Partials(CallID, 0..MaxCost)
    <3>1. calls \in [DOMAIN calls -> 0..MaxCost] /\ DOMAIN calls \subseteq Calls(iter)
      BY <1>3, PartialIs
    <3>2. Calls(iter) \subseteq CallID
      BY <2>1 DEF Calls, CallID
    <3> QED
      BY <3>1, <3>2, PartialIs
  <2>3. q \in Pending /\ q.iter = iter /\ q.calls = calls
    BY <2>1, <2>2 DEF Pending
  <2>4. calls # None
    BY <2>2, SentinelFacts
  <2>5. ~OverAllowance(book, calls) /\ ~TooManyCalls(book, calls)
    BY <1>3 DEF ReserveReason
  <2>6. /\ Cardinality(DOMAIN calls) \in Nat /\ Total(calls) \in Nat
        /\ book.usd \in Nat /\ book.calls \in Nat /\ setting.cap \in Nat
        /\ setting.maxCalls \in Nat
    BY <2>2, CallsFinite, InvFacts, BookIs DEF BudgetInv, TypeOK
  <2>7. setting.cap > 0 => book.usd < setting.cap /\ book.usd + Total(calls) <= setting.cap
    BY <2>5, <2>6 DEF OverAllowance
  <2>8. setting.maxCalls > 0 => book.calls + Cardinality(DOMAIN calls) <= setting.maxCalls
    BY <2>5, <2>6 DEF TooManyCalls
  <2>9. setting.mode = "strict" => setting.cap > 0
    BY InvFacts
  <2> HIDE DEF q
  <2>10. book' = [book EXCEPT !.pending = q]
    BY <1>3 DEF q
  <2> QED
    BY <1>1, <1>3, <2>3, <2>4, <2>7, <2>8, <2>9, <2>10, ReservedHolds
<1> QED
  BY <1>2, <1>3 DEF Reserve, GoTo

LEMMA AnnounceHolds == ASSUME BudgetInv, Announce PROVE BudgetInv'
<1>1. /\ pc = "reserve" /\ ~setting.reserve
      /\ UNCHANGED <<setting, iter, savedIter, expired, starts, faults, disk, charged, lied, after>>
  BY DEF Announce, run
<1>2. CASE pc' = "halted" /\ UNCHANGED book
  BY <1>1, <1>2, HaltHolds DEF BudgetInv, TypeOK
<1>3. CASE /\ ~ObservedExhausted /\ pc' = "save"
           /\ book' = [book EXCEPT !.pending = [iter |-> iter, calls |-> None]]
  <2> DEFINE q == [iter |-> iter, calls |-> None]
  <2>1. iter \in 1..MaxIterations
    BY <1>1, BudgetAssumption DEF BudgetInv, TypeOK, IterationSaved
  <2>2. q \in Pending /\ q.iter = iter
    BY <2>1 DEF Pending
  <2>3. setting.cap > 0 => book.usd < setting.cap
    BY <1>3, InvFacts, BookIs DEF BudgetInv, TypeOK, ObservedExhausted
  <2>4. setting.mode # "strict"
    BY <1>1, InvFacts
  <2> HIDE DEF q
  <2>5. book' = [book EXCEPT !.pending = q]
    BY <1>3 DEF q
  <2> QED
    BY <1>1, <1>3, <2>2, <2>3, <2>4, <2>5, ReservedHolds
<1> QED
  BY <1>2, <1>3 DEF Announce, GoTo

\* What saveBudget leaves on disk: the book before, or the book in memory.
LEMMA SaveFacts ==
  ASSUME BudgetInv, NEW step, Save(step), UNCHANGED setting
  PROVE  /\ disk' \in Book \cup {None} /\ faults' \in 0..MaxFaults
         /\ pc' \in {step, "halted"} /\ Saved' \in {Saved, book}
         /\ pc' = step /\ step # "halted" => Saved' = book
<1>1. book \in Book /\ book # None
  BY SentinelFacts DEF BudgetInv, TypeOK
<1>2. /\ disk' \in {disk, book} /\ pc' \in {step, "halted"}
      /\ pc' = step /\ step # "halted" => disk' = book
  BY DEF Save, GoTo
<1>3. faults' \in 0..MaxFaults
  BY BudgetAssumption DEF Save, Fault, BudgetInv, TypeOK
<1> QED
  BY <1>1, <1>2, <1>3 DEF BudgetInv, TypeOK, Saved

LEMMA SaveReservationHolds == ASSUME BudgetInv, SaveReservation PROVE BudgetInv'
<1>1. /\ pc = "save" /\ Save("work")
      /\ UNCHANGED <<setting, iter, savedIter, expired, starts, book, charged, lied, after>>
  BY DEF SaveReservation, run
<1>2. /\ disk' \in Book \cup {None} /\ faults' \in 0..MaxFaults
      /\ pc' \in {"work", "halted"} /\ Saved' \in {Saved, book}
      /\ pc' = "work" => Saved' = book
  BY <1>1, SaveFacts
<1>3. Last' = Last /\ Alive
  BY <1>1 DEF Last, Alive
<1>4. TypeOK'
  BY <1>1, <1>2 DEF BudgetInv, TypeOK
<1>5. IterationSaved' /\ BookSaved' /\ RoomLeft'
  BY <1>1, <1>2, <1>3 DEF BudgetInv, IterationSaved, BookSaved, RoomLeft, Alive
<1>6. BooksValid' /\ ChargesBooked' /\ StrictWithin'
  BY <1>1, <1>2, <1>3 DEF BudgetInv, BooksValid, ChargesBooked, StrictWithin
<1> QED
  BY <1>4, <1>5, <1>6 DEF BudgetInv

LEMMA SaveUsageHolds == ASSUME BudgetInv, SaveUsage PROVE BudgetInv'
<1>1. /\ pc = "book" /\ Save(after) /\ after' = "none"
      /\ UNCHANGED <<setting, iter, savedIter, expired, starts, book, charged, lied>>
      /\ after \in {"next", "halted"} /\ (after = "next" => book.pending = None)
  BY DEF SaveUsage, run, BudgetInv, TypeOK, BookSaved
<1>2. /\ disk' \in Book \cup {None} /\ faults' \in 0..MaxFaults
      /\ pc' \in {after, "halted"} /\ Saved' \in {Saved, book}
      /\ pc' = after /\ after # "halted" => Saved' = book
  BY <1>1, SaveFacts
<1>3. Last' = Last /\ Alive
  BY <1>1 DEF Last, Alive
<1>4. TypeOK'
  BY <1>1, <1>2 DEF BudgetInv, TypeOK
<1>5. IterationSaved' /\ BookSaved' /\ RoomLeft'
  BY <1>1, <1>2, <1>3 DEF BudgetInv, IterationSaved, BookSaved, RoomLeft, Alive
<1>6. BooksValid' /\ ChargesBooked' /\ StrictWithin'
  BY <1>1, <1>2, <1>3 DEF BudgetInv, BooksValid, ChargesBooked, StrictWithin
<1> QED
  BY <1>4, <1>5, <1>6 DEF BudgetInv

\* What the provider charges while the work runs is announced by the saved book.
LEMMA ChargeFacts ==
  ASSUME BudgetInv, pc = "work", NEW w \in Chargeable
  PROVE  LET c == Joined(charged, w) IN
         /\ c \in Entries /\ \A id \in DOMAIN c : id[1] <= Last
         /\ book = Saved
         /\ ~lied => Accounts(Saved, c)
         /\ setting.mode = "strict" /\ ~lied => Within(setting, Saved, c)
<1> DEFINE c == Joined(charged, w)
<1>1. /\ iter = Last /\ iter \in 1..MaxIterations /\ book = Saved
      /\ Saved.pending # None /\ Saved.pending.iter = iter
  BY BudgetAssumption DEF BudgetInv, TypeOK, IterationSaved, BookSaved, Alive
<1>2. w \in Partials(Calls(iter), Entry)
  BY DEF Chargeable
<1>3. w \in Entries /\ DOMAIN w \subseteq Calls(iter)
  BY <1>1, <1>2, PartialIs DEF Entries, Calls, CallID
<1>4. charged \in Entries
  BY DEF BudgetInv, TypeOK
<1>5. /\ c \in Entries /\ DOMAIN c = DOMAIN charged \cup DOMAIN w
      /\ \A id \in DOMAIN charged : c[id] = charged[id]
      /\ \A id \in DOMAIN w \ DOMAIN charged : c[id] = w[id]
  BY <1>3, <1>4, JoinedFacts
<1> HIDE DEF c
<1>6. \A id \in DOMAIN w : id[1] = iter
  BY <1>3 DEF Calls
<1>7. \A id \in DOMAIN c : id[1] <= Last
  BY <1>1, <1>5, <1>6 DEF BudgetInv, IterationSaved
<1>8. ~lied => Accounts(Saved, c)
  <2>1. ~lied => Accounts(Saved, charged)
    BY DEF BudgetInv, ChargesBooked
  <2> QED
    BY <1>1, <1>5, <1>6, <2>1 DEF Accounts
<1>9. ASSUME setting.mode = "strict", ~lied
      PROVE  Within(setting, Saved, c)
  <2>1. Within(setting, Saved, charged)
    BY <1>9 DEF BudgetInv, StrictWithin
  <2>2. \A id \in DOMAIN w : /\ id \in DOMAIN Saved.pending.calls
                             /\ w[id].usd <= Saved.pending.calls[id]
    BY <1>1, <1>9 DEF Chargeable
  <2> QED
    BY <1>1, <1>5, <2>1, <2>2 DEF Within
<1> QED
  BY <1>1, <1>5, <1>7, <1>8, <1>9 DEF c

LEMMA WorkHolds == ASSUME BudgetInv, Work PROVE BudgetInv'
<1>1. /\ pc = "work" /\ expired \in BOOLEAN
      /\ UNCHANGED <<setting, iter, savedIter, starts, faults, book, disk, lied, after>>
  BY DEF Work, BudgetInv, TypeOK
<1>2. CASE UNCHANGED <<charged, expired>> /\ pc' = "halted"
  BY <1>1, <1>2, HaltHolds
<1>3. ASSUME NEW w \in Chargeable, charged' = Joined(charged, w),
             pc' \in {"usage", "halted"}, expired' \in BOOLEAN
      PROVE  BudgetInv'
  <2>1. /\ charged' \in Entries /\ \A id \in DOMAIN charged' : id[1] <= Last
        /\ book = Saved
        /\ ~lied => Accounts(Saved, charged')
        /\ setting.mode = "strict" /\ ~lied => Within(setting, Saved, charged')
    BY <1>1, <1>3, ChargeFacts
  <2>2. Saved' = Saved /\ Last' = Last /\ Alive
    BY <1>1 DEF Saved, Last, Alive
  <2>3. TypeOK'
    BY <1>1, <1>3, <2>1 DEF BudgetInv, TypeOK
  <2>4. IterationSaved' /\ BookSaved' /\ RoomLeft'
    BY <1>1, <1>3, <2>1, <2>2 DEF BudgetInv, IterationSaved, BookSaved, RoomLeft, Alive
  <2>5. BooksValid' /\ ChargesBooked' /\ StrictWithin'
    BY <1>1, <2>1, <2>2 DEF BudgetInv, BooksValid, ChargesBooked, StrictWithin
  <2> QED
    BY <2>3, <2>4, <2>5 DEF BudgetInv
<1> QED
  BY <1>1, <1>2, <1>3 DEF Work, GoTo

LEMMA KillHolds == ASSUME BudgetInv, Kill PROVE BudgetInv'
<1>1. /\ pc' = "down" /\ after' = "none" /\ book' = NewBook(setting.mode)
      /\ UNCHANGED <<setting, iter, savedIter, expired, starts, disk, lied>>
      /\ faults' \in 0..MaxFaults
  BY BudgetAssumption DEF Kill, Fault, GoTo, run, BudgetInv, TypeOK
<1>2. Saved' = Saved /\ Last' = Last /\ ~Alive'
  BY <1>1 DEF Saved, Last, Alive
<1>3. book' \in Book
  BY <1>1, InvFacts, NewBookFacts
<1>4. /\ charged' \in Entries /\ \A id \in DOMAIN charged' : id[1] <= Last
      /\ ~lied => Accounts(Saved, charged')
      /\ setting.mode = "strict" /\ ~lied => Within(setting, Saved, charged')
  <2>1. CASE UNCHANGED charged
    BY <2>1 DEF BudgetInv, TypeOK, IterationSaved, ChargesBooked, StrictWithin
  <2>2. CASE pc = "work" /\ \E w \in Chargeable : charged' = Joined(charged, w)
    BY <2>2, ChargeFacts
  <2> QED
    BY <2>1, <2>2 DEF Kill
<1>5. TypeOK'
  BY <1>1, <1>3, <1>4 DEF BudgetInv, TypeOK
<1>6. IterationSaved' /\ BookSaved' /\ RoomLeft'
  BY <1>1, <1>2, <1>4 DEF IterationSaved, BookSaved, RoomLeft
<1>7. BooksValid' /\ ChargesBooked' /\ StrictWithin'
  BY <1>1, <1>2, <1>4 DEF BudgetInv, BooksValid, ChargesBooked, StrictWithin
<1> QED
  BY <1>5, <1>6, <1>7 DEF BudgetInv

\* The true report about the pending iteration, and the false ones.
LEMMA TruthFacts ==
  ASSUME BudgetInv, pc = "usage"
  PROVE  LET i == book.pending.iter
             t == Truth(i)
             reserved == IF book.pending.calls = None THEN {} ELSE DOMAIN book.pending.calls
         IN /\ t \in Entries /\ Lies(i) \subseteq Entries
            /\ DOMAIN t = {id \in DOMAIN charged : id[1] = i} \cup reserved
            /\ \A id \in DOMAIN charged : id[1] = i => t[id] = charged[id]
            /\ \A id \in DOMAIN t : id \notin DOMAIN charged => t[id] = Skipped
            /\ \A id \in reserved : id[1] # i /\ id \in DOMAIN charged => t[id] = Skipped
<1> DEFINE i == book.pending.iter
           t == Truth(i)
           made == {id \in DOMAIN charged : id[1] = i}
           reserved == IF book.pending.calls = None THEN {} ELSE DOMAIN book.pending.calls
<1>1. /\ DOMAIN t = made \cup reserved
      /\ \A id \in DOMAIN t : t[id] = IF id \in made THEN charged[id] ELSE Skipped
      /\ t = [id \in DOMAIN t |-> t[id]]
  BY DEF Truth
<1>2. /\ charged \in Entries
      /\ \A id \in DOMAIN charged : charged[id] \in Entry /\ id \in CallID
  BY ReportFacts DEF BudgetInv, TypeOK
<1>3. reserved \subseteq CallID
  <2>1. book.pending \in Pending
    BY BookIs DEF BudgetInv, TypeOK, BookSaved
  <2>2. book.pending.calls \in Partials(CallID, 0..MaxCost) \cup {None}
    BY <2>1 DEF Pending
  <2> QED
    BY <2>2, PartialIs
<1> HIDE DEF t, reserved, i
<1>4. /\ DOMAIN t \subseteq CallID
      /\ \A id \in DOMAIN t : t[id] \in Entry
  BY <1>1, <1>2, <1>3, EntryFacts
<1>5. t \in Entries
  BY <1>1, <1>4, PartialIs DEF Entries
<1>6. Lies(i) \subseteq Entries
  <2>1. ASSUME NEW lost \in DOMAIN t
        PROVE  [id \in DOMAIN t \ {lost} |-> t[id]] \in Entries
    BY <1>4, PartialIs DEF Entries
  <2>2. ASSUME NEW lie \in DOMAIN t, NEW e \in Entry
        PROVE  [t EXCEPT ![lie] = e] \in Entries
    BY <1>1, <1>4, PartialIs DEF Entries
  <2>3. Lies(i) = {[id \in DOMAIN t \ {lost} |-> t[id]] : lost \in DOMAIN t}
                    \cup {[t EXCEPT ![lie] = e] : lie \in DOMAIN t, e \in Entry}
    BY DEF Lies, t
  <2> SUFFICES ASSUME NEW r \in Lies(i) PROVE r \in Entries
    OBVIOUS
  <2>4. CASE \E lost \in DOMAIN t : r = [id \in DOMAIN t \ {lost} |-> t[id]]
    BY <2>1, <2>4
  <2>5. CASE \E lie \in DOMAIN t, e \in Entry : r = [t EXCEPT ![lie] = e]
    BY <2>2, <2>5
  <2> QED
    BY <2>3, <2>4, <2>5
<1> QED
  BY <1>1, <1>5, <1>6 DEF t, i, reserved

\* The batch that a true report leaves: everything pending is resolved.
LEMMA BookedAccounts ==
  ASSUME NEW b \in Book, NEW w \in Entries, Accounts(b, w), b.pending # None,
         NEW u \in Entries,
         \A id \in DOMAIN w : id[1] = b.pending.iter => id \in DOMAIN u /\ u[id] = w[id],
         \A id \in DOMAIN u : id \in DOMAIN w \/ u[id] = Skipped,
         ~Refused(b, b.pending.iter, u)
  PROVE  Accounts(Booked(b, u), w)
<1> DEFINE c == Booked(b, u)
<1>1. b.entries \in Entries
  BY BookIs
<1>2. c.pending = None /\ c.entries = Joined(b.entries, u)
  BY DEF Booked
<1>3. /\ DOMAIN Joined(b.entries, u) = DOMAIN b.entries \cup DOMAIN u
      /\ \A id \in DOMAIN b.entries : Joined(b.entries, u)[id] = b.entries[id]
      /\ \A id \in DOMAIN u \ DOMAIN b.entries : Joined(b.entries, u)[id] = u[id]
  BY <1>1, JoinedFacts
<1> HIDE DEF c
<1>4. \A id \in DOMAIN u \cap DOMAIN b.entries : u[id] = b.entries[id]
  BY DEF Refused
<1>5. \A id \in DOMAIN w : id \in DOMAIN c.entries /\ c.entries[id] = w[id]
  BY <1>2, <1>3, <1>4 DEF Accounts
<1>6. \A id \in DOMAIN c.entries : id \in DOMAIN w \/ c.entries[id] = Skipped
  BY <1>2, <1>3 DEF Accounts
<1>7. Accounts(c, w)
  BY <1>5, <1>6 DEF Accounts
<1> QED
  BY <1>7 DEF c

\* A batch of calls that were reserved, none above its reservation, stays within
\* what the reservation left free.
LEMMA BookedWithin ==
  ASSUME NEW s, s.cap \in Nat, s.maxCalls \in Nat,
         NEW b \in Book, NEW w, Within(s, b, w), b.pending # None, NEW u \in Entries,
         \A id \in DOMAIN u : /\ id \in DOMAIN b.pending.calls
                              /\ u[id].usd <= b.pending.calls[id]
  PROVE  Within(s, Booked(b, u), w)
<1> DEFINE c == Booked(b, u)
           fresh == DOMAIN u \ DOMAIN b.entries
           calls == b.pending.calls
           f == [id \in fresh |-> u[id].usd]
           counted == {id \in fresh : u[id].status # "skipped"}
<1>1. /\ b.usd \in Nat /\ b.calls \in Nat /\ b.pending \in Pending
      /\ calls # None /\ calls \in Partials(CallID, 0..MaxCost)
  <2>1. /\ b.usd \in Nat /\ b.calls \in Nat /\ b.pending \in Pending
    BY BookIs
  <2>2. calls # None
    BY DEF Within
  <2> QED
    BY <2>1, <2>2 DEF Pending
<1>2. /\ c.usd = b.usd + Usd(u, fresh) /\ c.calls = b.calls + Cardinality(counted)
      /\ c.pending = None
  BY DEF Booked
<1>3. /\ b.usd + Total(calls) <= s.cap
      /\ s.maxCalls > 0 => b.calls + Cardinality(DOMAIN calls) <= s.maxCalls
  BY DEF Within
<1> HIDE DEF c, calls
<1>4. /\ IsFiniteSet(DOMAIN calls) /\ Naturals(calls, DOMAIN calls)
      /\ Cardinality(DOMAIN calls) \in Nat /\ Total(calls) = SumOver(calls, DOMAIN calls)
      /\ Total(calls) \in Nat
  BY <1>1, CallsFinite, TotalIsSum
<1>5. fresh \subseteq DOMAIN calls /\ \A id \in fresh : f[id] \in Nat /\ f[id] <= calls[id]
  BY ReportFacts DEF calls
<1>6. IsFiniteSet(fresh) /\ Usd(u, fresh) = SumOver(f, fresh)
  BY <1>4, <1>5, FS_Subset, UsdIsSum
<1> HIDE DEF f
<1>7. Usd(u, fresh) \in Nat /\ Usd(u, fresh) <= Total(calls)
  <2>1. Naturals(f, fresh)
    BY <1>5 DEF Naturals
  <2> HIDE DEF fresh
  <2> QED
    BY <1>4, <1>5, <1>6, <2>1, SumMonotone
<1>8. Cardinality(counted) \in Nat /\ Cardinality(counted) <= Cardinality(DOMAIN calls)
  <2>1. counted \subseteq DOMAIN calls
    BY <1>5
  <2> HIDE DEF counted
  <2> QED
    BY <1>4, <2>1, FS_Subset, FS_CardinalityType
<1> HIDE DEF fresh, counted
<1>9. c.usd <= s.cap
  BY <1>1, <1>2, <1>3, <1>4, <1>7
<1>10. s.maxCalls > 0 => c.calls <= s.maxCalls
  BY <1>1, <1>2, <1>3, <1>4, <1>8
<1>11. Within(s, c, w)
  BY <1>2, <1>9, <1>10 DEF Within
<1> QED
  BY <1>11 DEF c

LEMMA UsageHolds == ASSUME BudgetInv, Usage PROVE BudgetInv'
<1> DEFINE i == book.pending.iter
<1>1. /\ pc = "usage" /\ book = Saved /\ book \in Book /\ book.pending # None
      /\ UNCHANGED <<setting, iter, savedIter, expired, starts, faults, disk, charged>>
  BY DEF Usage, run, BudgetInv, TypeOK, BookSaved
<1>2. Saved' = Saved /\ Last' = Last /\ Alive
  BY <1>1 DEF Saved, Last, Alive
<1>3. CASE pc' = "halted" /\ UNCHANGED <<book, after, lied>>
  BY <1>1, <1>3, HaltHolds DEF BudgetInv, TypeOK
<1>4. ASSUME NEW u \in {Truth(i)} \cup Lies(i),
             lied' = (lied \/ u # Truth(i)), pc' = "book",
             book' = IF Refused(book, i, u) THEN book ELSE Booked(book, u),
             after' = IF Reason(book, i, u) = "" THEN "next" ELSE "halted"
      PROVE  BudgetInv'
  <2>1. u \in Entries /\ charged \in Entries
    BY <1>1, TruthFacts DEF BudgetInv, TypeOK
  <2>2. Valid(book, setting.mode)
    BY <1>2 DEF BudgetInv, BooksValid
  <2>3. book' \in Book /\ Valid(book', setting.mode)
    BY <1>1, <1>4, <2>1, <2>2, BookedIsValid
  <2>4. after' = "next" => book'.pending = None
    <3>1. after' = "next" => ~Refused(book, i, u)
      BY <1>4 DEF Reason
    <3>2. Booked(book, u).pending = None
      BY DEF Booked
    <3> QED
      BY <1>4, <3>1, <3>2
  <2>5. TypeOK'
    <3>1. lied' \in BOOLEAN /\ after' \in {"none", "next", "halted"}
      BY <1>4
    <3> QED
      BY <1>1, <1>4, <2>3, <3>1 DEF BudgetInv, TypeOK
  <2>6. IterationSaved' /\ BookSaved' /\ RoomLeft'
    BY <1>1, <1>2, <1>4, <2>4 DEF BudgetInv, IterationSaved, BookSaved, RoomLeft, Alive
  <2>7. BooksValid'
    BY <1>1, <1>2, <2>3 DEF BudgetInv, BooksValid
  <2>8. ~lied' => ~lied /\ u = Truth(i)
    BY <1>4
  <2>9. ~lied' =>
          /\ \A id \in DOMAIN charged : id[1] = i => id \in DOMAIN u /\ u[id] = charged[id]
          /\ \A id \in DOMAIN u : id \in DOMAIN charged \/ u[id] = Skipped
    BY <1>1, <2>8, TruthFacts
  <2>10. ChargesBooked'
    <3>1. ~lied => Accounts(Saved, charged) /\ Accounts(book, charged)
      BY <1>2 DEF BudgetInv, ChargesBooked
    <3>2. ~lied' => Accounts(book', charged)
      BY <1>1, <1>4, <2>1, <2>8, <2>9, <3>1, BookedAccounts
    <3> QED
      BY <1>1, <1>2, <2>8, <3>1, <3>2 DEF ChargesBooked
  <2>11. StrictWithin'
    <3>1. setting.mode = "strict" /\ ~lied =>
            Within(setting, Saved, charged) /\ Within(setting, book, charged)
      BY <1>2 DEF BudgetInv, StrictWithin
    <3>2. ASSUME setting.mode = "strict", ~lied'
          PROVE  Within(setting, book', charged)
      <4>1. Within(setting, book, charged)
        BY <2>8, <3>1, <3>2
      <4>2. ASSUME NEW id \in DOMAIN u
            PROVE  id \in DOMAIN book.pending.calls /\ u[id].usd <= book.pending.calls[id]
        <5>1. book.pending.calls # None
          BY <1>1, <4>1 DEF Within
        <5>2. CASE id \in DOMAIN charged /\ id[1] = i
          <6>1. u[id] = charged[id]
            BY <2>9, <3>2, <5>2
          <6> QED
            BY <1>1, <4>1, <5>2, <6>1 DEF Within
        <5>3. CASE ~(id \in DOMAIN charged /\ id[1] = i)
          <6>1. id \in DOMAIN book.pending.calls /\ u[id] = Skipped
            BY <1>1, <2>8, <3>2, <5>1, <5>3, TruthFacts
          <6>2. book.pending.calls[id] \in Nat
            <7>1. book.pending.calls \in Partials(CallID, 0..MaxCost)
              BY <1>1, <5>1, BookIs DEF Pending
            <7> QED
              BY <6>1, <7>1, CallsFinite DEF Naturals
          <6> QED
            BY <6>1, <6>2 DEF Skipped
        <5> QED
          BY <5>2, <5>3
      <4>3. setting.cap \in Nat /\ setting.maxCalls \in Nat
        BY InvFacts
      <4>4. Within(setting, Booked(book, u), charged)
        BY <1>1, <2>1, <4>1, <4>2, <4>3, BookedWithin
      <4> QED
        BY <1>4, <4>1, <4>4
    <3> QED
      BY <1>1, <1>2, <2>8, <3>1, <3>2 DEF StrictWithin
  <2> QED
    BY <2>5, <2>6, <2>7, <2>10, <2>11 DEF BudgetInv
<1> QED
  BY <1>3, <1>4 DEF Usage, GoTo

LEMMA StepHolds == BudgetInv /\ [Next]_vars => BudgetInv'
<1> SUFFICES ASSUME BudgetInv, [Next]_vars PROVE BudgetInv'
  OBVIOUS
<1>1. CASE Start
  BY <1>1, StartHolds
<1>2. CASE Iterate
  BY <1>2, IterateHolds
<1>3. CASE Finish
  BY <1>3, HaltHolds DEF Finish, run, Ledger, GoTo, BudgetInv, TypeOK
<1>4. CASE Reserve
  BY <1>4, ReserveHolds
<1>5. CASE Announce
  BY <1>5, AnnounceHolds
<1>6. CASE SaveReservation
  BY <1>6, SaveReservationHolds
<1>7. CASE Work
  BY <1>7, WorkHolds
<1>8. CASE Usage
  BY <1>8, UsageHolds
<1>9. CASE SaveUsage
  BY <1>9, SaveUsageHolds
<1>10. CASE Kill
  BY <1>10, KillHolds
<1>11. CASE DeadlinePasses
  BY <1>11, HaltHolds DEF DeadlinePasses
<1>12. CASE UNCHANGED vars
  BY <1>12, HaltHolds DEF vars, BudgetInv, TypeOK
<1> QED
  BY <1>1, <1>2, <1>3, <1>4, <1>5, <1>6, <1>7, <1>8, <1>9, <1>10, <1>11, <1>12 DEF Next

-----------------------------------------------------------------------------
(* The theorems.                                                            *)

\* The book in memory and the one on disk differ only by what is about to be
\* saved, and together they speak of every charge (workflow.go paid, reconcile).
THEOREM BudgetCorrect == Spec => []BudgetInv
  BY InitHolds, StepHolds, PTL DEF Spec

\* The variables keep their types; the sums never exceed the largest integer.
THEOREM BudgetTypes == Spec => []TypeOK
<1>1. BudgetInv => TypeOK
  BY DEF BudgetInv
<1> QED
  BY <1>1, BudgetCorrect, PTL

\* A book that saveBudget wrote is a book that loadBudget accepts, unless it has
\* grown past what workflow.Read reads.
THEOREM BooksLoad == Spec => []SavedBookLoads
<1>1. BudgetInv => SavedBookLoads
  BY DEF BudgetInv, BooksValid, Saved, SavedBookLoads, loadBudget
<1> QED
  BY <1>1, BudgetCorrect, PTL

\* With a truthful usage hook no charge is lost, and none is invented.
THEOREM NoChargeLost == Spec => []ChargesKept
<1>1. BudgetInv => ChargesKept
  <2> SUFFICES ASSUME BudgetInv, ~lied PROVE ChargesKept
    BY DEF ChargesKept
  <2>1. Accounts(Saved, charged) /\ setting.mode \in {"strict", "observed", "unmetered"}
    BY InvFacts DEF BudgetInv, ChargesBooked
  <2>2. CASE disk # None
    BY <2>1, <2>2 DEF Accounts, ChargesKept, Resolved, Unresolved, Saved
  <2>3. CASE disk = None
    <3>1. DOMAIN Saved.entries = {} /\ Saved.pending = None
      BY <2>1, <2>3, NewBookFacts DEF Saved
    <3> QED
      BY <2>1, <2>3, <3>1 DEF Accounts, ChargesKept
  <2> QED
    BY <2>2, <2>3
<1> QED
  BY <1>1, BudgetCorrect, PTL

\* What was charged and is booked is at most what is booked.
LEMMA BookedBounds ==
  ASSUME NEW e \in Entries, NEW w \in Entries, NEW A, A \subseteq DOMAIN w,
         \A id \in A : id \in DOMAIN e /\ e[id] = w[id]
  PROVE  /\ Usd(w, A) \in Nat /\ Used(e) \in Nat /\ Usd(w, A) <= Used(e)
         /\ Cardinality({id \in A : w[id].status # "skipped"}) \in Nat
         /\ Cardinality({id \in A : w[id].status # "skipped"}) <= Count(e)
<1> DEFINE D == DOMAIN e
           f == [id \in A |-> w[id].usd]
           k == [id \in D |-> e[id].usd]
<1>1. IsFiniteSet(D) /\ A \subseteq D /\ IsFiniteSet(A)
  BY ReportFacts, FS_Subset
<1>2. /\ \A id \in A : f[id] \in Nat /\ f[id] <= k[id]
      /\ \A id \in D : k[id] \in Nat
  BY ReportFacts
<1>3. Usd(w, A) = SumOver(f, A) /\ Used(e) = SumOver(k, D)
  BY <1>1, UsdIsSum DEF Used
<1> HIDE DEF f, k, D
<1>4. /\ SumOver(f, A) \in Nat /\ SumOver(k, D) \in Nat
      /\ SumOver(f, A) <= SumOver(k, D)
  <2>1. Naturals(f, A) /\ Naturals(k, D)
    BY <1>2 DEF Naturals
  <2> QED
    BY <1>1, <1>2, <2>1, SumMonotone
<1>5. {id \in A : w[id].status # "skipped"} \subseteq {id \in D : e[id].status # "skipped"}
  BY DEF D
<1>6. IsFiniteSet({id \in D : e[id].status # "skipped"})
  BY <1>1, FS_Subset
<1> QED
  BY <1>3, <1>4, <1>5, <1>6, FS_Subset, FS_CardinalityType DEF Count, D

\* The charges are at most what is booked and, of the iteration that is pending,
\* what was reserved.
LEMMA ChargesBounded ==
  ASSUME BudgetInv, setting.mode = "strict", ~lied
  PROVE  /\ Used(charged) <= setting.cap
         /\ setting.maxCalls > 0 => Count(charged) <= setting.maxCalls
<1> DEFINE b == Saved
           w == charged
           calls == b.pending.calls
           A == {id \in DOMAIN w : id \in DOMAIN b.entries /\ b.entries[id] = w[id]}
           B == DOMAIN w \ A
           CA == {id \in A : w[id].status # "skipped"}
           CB == {id \in B : w[id].status # "skipped"}
           f == [id \in DOMAIN w |-> w[id].usd]
<1>1. /\ b \in Book /\ w \in Entries /\ setting.cap \in Nat /\ setting.maxCalls \in Nat
      /\ Accounts(b, w) /\ Within(setting, b, w) /\ Valid(b, setting.mode)
  BY InvFacts DEF BudgetInv, TypeOK, ChargesBooked, StrictWithin, BooksValid
<1>2. /\ b.usd \in Nat /\ b.calls \in Nat /\ b.entries \in Entries /\ b.pending \in Pending \cup {None}
      /\ b.usd = Used(b.entries) /\ b.calls = Count(b.entries)
  BY <1>1, BookIs DEF Valid
<1> HIDE DEF b, w
<1>3. /\ A \subseteq DOMAIN w /\ B \subseteq DOMAIN w /\ DOMAIN w = A \cup B /\ A \cap B = {}
      /\ IsFiniteSet(A) /\ IsFiniteSet(B) /\ IsFiniteSet(DOMAIN w)
  <2>1. /\ A \subseteq DOMAIN w /\ B \subseteq DOMAIN w /\ DOMAIN w = A \cup B /\ A \cap B = {}
    OBVIOUS
  <2> HIDE DEF A, B
  <2> QED
    BY <1>1, <2>1, ReportFacts, FS_Subset
<1>4. /\ Usd(w, A) \in Nat /\ Usd(w, A) <= b.usd
      /\ Cardinality(CA) \in Nat /\ Cardinality(CA) <= b.calls
  <2>1. \A id \in A : id \in DOMAIN b.entries /\ b.entries[id] = w[id]
    OBVIOUS
  <2> DEFINE e == b.entries
  <2>2. \A id \in A : id \in DOMAIN e /\ e[id] = w[id]
    OBVIOUS
  <2>3. e \in Entries
    BY <1>2
  <2> HIDE DEF A, e
  <2>4. /\ Usd(w, A) \in Nat /\ Usd(w, A) <= Used(e)
        /\ Cardinality(CA) \in Nat /\ Cardinality(CA) <= Count(e)
    BY <1>1, <1>3, <2>2, <2>3, BookedBounds
  <2> QED
    BY <1>2, <2>4 DEF e
<1>5. /\ Usd(w, B) \in Nat /\ Usd(w, DOMAIN w) = Usd(w, A) + Usd(w, B)
  <2> HIDE DEF A, B
  <2> DEFINE fa == [id \in A |-> w[id].usd]
             fb == [id \in B |-> w[id].usd]
  <2>1. Naturals(f, A \cup B)
    BY <1>1, <1>3, ReportFacts DEF Naturals
  <2>2. (\A id \in A : fa[id] = f[id]) /\ (\A id \in B : fb[id] = f[id])
    BY <1>3
  <2>3. /\ Usd(w, A) = SumOver(fa, A) /\ Usd(w, B) = SumOver(fb, B)
        /\ Usd(w, DOMAIN w) = SumOver(f, DOMAIN w)
    BY <1>3, UsdIsSum
  <2> HIDE DEF f, fa, fb
  <2>4. SumOver(f, A \cup B) = SumOver(f, A) + SumOver(f, B)
    BY <1>3, <2>1, SumUnion
  <2>5. SumOver(fa, A) = SumOver(f, A) /\ SumOver(fb, B) = SumOver(f, B)
    BY <1>3, <2>2, SumSame
  <2>6. Usd(w, B) \in Nat
    BY <1>1, <1>3, UsdNatural
  <2> QED
    BY <1>3, <2>3, <2>4, <2>5, <2>6
<1>6. Cardinality(CB) \in Nat /\ Count(w) = Cardinality(CA) + Cardinality(CB)
  <2>1. /\ {id \in DOMAIN w : w[id].status # "skipped"} = CA \cup CB
        /\ CA \subseteq A /\ CB \subseteq B /\ CA \cap CB = {}
    OBVIOUS
  <2> HIDE DEF A, B, CA, CB
  <2>2. IsFiniteSet(CA) /\ IsFiniteSet(CB)
    BY <1>3, <2>1, FS_Subset
  <2>3. Cardinality(CA \cup CB) = Cardinality(CA) + Cardinality(CB) - Cardinality(CA \cap CB)
    BY <2>2, FS_Union
  <2>4. /\ Cardinality(CA \cap CB) = 0
        /\ Cardinality(CA) \in Nat /\ Cardinality(CB) \in Nat
    BY <2>1, <2>2, FS_EmptySet, FS_CardinalityType
  <2>5. Count(w) = Cardinality(CA \cup CB)
    BY <2>1 DEF Count
  <2> HIDE DEF Count
  <2> QED
    BY <2>3, <2>4, <2>5
<1>7. \A id \in B : b.pending # None /\ b.pending.iter = id[1] /\ id \in DOMAIN w
  BY <1>1 DEF Accounts
<1> HIDE DEF A, CA
<1>8. CASE b.pending = None
  <2>1. B = {} /\ CB = {}
    BY <1>7, <1>8
  <2>2. Usd(w, {}) = 0 /\ Cardinality({}) = 0
    BY SumEmpty, UsdIsSum, FS_EmptySet
  <2> HIDE DEF B, CB
  <2>3. Used(w) <= b.usd /\ Count(w) <= b.calls
    BY <1>2, <1>4, <1>5, <1>6, <2>1, <2>2 DEF Used
  <2>4. /\ b.usd <= setting.cap
        /\ setting.maxCalls > 0 => b.calls <= setting.maxCalls
    BY <1>1, <1>8 DEF Within
  <2>5. Used(w) \in Nat /\ Count(w) \in Nat
    BY <1>4, <1>5, <1>6, <2>1 DEF Used
  <2> QED
    BY <1>1, <1>2, <2>3, <2>4, <2>5 DEF w
<1>9. CASE b.pending # None
  <2>1. /\ calls # None /\ b.usd + Total(calls) <= setting.cap
        /\ setting.maxCalls > 0 => b.calls + Cardinality(DOMAIN calls) <= setting.maxCalls
        /\ \A id \in B : id \in DOMAIN calls /\ w[id].usd <= calls[id]
    BY <1>1, <1>7, <1>9 DEF Within
  <2>2. calls \in Partials(CallID, 0..MaxCost)
    BY <1>2, <1>9, <2>1 DEF Pending
  <2> HIDE DEF calls, B
  <2>3. /\ IsFiniteSet(DOMAIN calls) /\ Naturals(calls, DOMAIN calls)
        /\ Cardinality(DOMAIN calls) \in Nat /\ Total(calls) = SumOver(calls, DOMAIN calls)
        /\ Total(calls) \in Nat
    BY <2>2, CallsFinite, TotalIsSum
  <2>4. Usd(w, B) <= Total(calls)
    <3> DEFINE fb == [id \in B |-> w[id].usd]
    <3>1. \A id \in B : fb[id] \in Nat /\ fb[id] <= calls[id]
      BY <1>1, <1>3, <2>1, ReportFacts
    <3>2. Usd(w, B) = SumOver(fb, B)
      BY <1>3, UsdIsSum
    <3> HIDE DEF fb
    <3>3. Naturals(fb, B) /\ B \subseteq DOMAIN calls
      BY <2>1, <3>1 DEF Naturals
    <3>4. SumOver(fb, B) <= SumOver(calls, DOMAIN calls)
      BY <2>3, <3>1, <3>3, SumMonotone
    <3> QED
      BY <2>3, <3>2, <3>4
  <2>5. Cardinality(CB) <= Cardinality(DOMAIN calls)
    <3>1. CB \subseteq DOMAIN calls
      BY <2>1
    <3> HIDE DEF CB
    <3> QED
      BY <2>3, <3>1, FS_Subset
  <2> HIDE DEF CB
  <2>6. Used(w) <= setting.cap
    BY <1>1, <1>2, <1>4, <1>5, <2>1, <2>3, <2>4 DEF Used
  <2>7. setting.maxCalls > 0 => Count(w) <= setting.maxCalls
    BY <1>1, <1>2, <1>4, <1>6, <2>1, <2>3, <2>5
  <2> QED
    BY <2>6, <2>7 DEF w
<1> QED
  BY <1>8, <1>9

\* Strict metering prevents: the provider's charges never exceed the allowance or
\* the call limit (budget.go reserve, with an adapter that enforces its bounds).
THEOREM StrictCaps == Spec => []StrictIsACap
<1>1. BudgetInv => StrictIsACap
  BY ChargesBounded DEF StrictIsACap
<1> QED
  BY <1>1, BudgetCorrect, PTL

\* Observed metering halts: no work is begun once the charges have reached the
\* allowance.
THEOREM ObservedHalts == Spec => ObservedStops
<1>1. BudgetInv /\ [Next]_vars
        => [setting.cap > 0 /\ ~lied /\ charged' # charged => Used(charged) < setting.cap]_vars
  <2> SUFFICES ASSUME BudgetInv, Next, setting.cap > 0, ~lied, charged' # charged
               PROVE  Used(charged) < setting.cap
    OBVIOUS
  <2>1. pc = "work"
    BY DEF Next, Start, Iterate, Finish, Reserve, Announce, SaveReservation, Work, Usage,
           SaveUsage, Kill, DeadlinePasses, run, Ledger
  <2>2. /\ book \in Book /\ charged \in Entries /\ setting.cap \in Nat
        /\ book.usd = Used(book.entries) /\ book.usd < setting.cap /\ Accounts(book, charged)
        /\ book.pending.iter = iter
    BY <2>1, InvFacts
    DEF BudgetInv, TypeOK, BooksValid, Valid, RoomLeft, ChargesBooked, BookSaved, Alive
  <2>3. \A id \in DOMAIN charged : id[1] # iter
    <3>1. \A id \in DOMAIN charged : id[1] \in Int
      BY ReportFacts DEF BudgetInv, TypeOK, CallID
    <3> QED
      BY <2>1, <3>1 DEF BudgetInv, IterationSaved, TypeOK
  <2> DEFINE e == book.entries
             w == charged
  <2>4. \A id \in DOMAIN w : id \in DOMAIN e /\ e[id] = w[id]
    BY <2>2, <2>3 DEF Accounts
  <2>5. e \in Entries /\ w \in Entries
    BY <2>2, BookIs
  <2> HIDE DEF e, w
  <2>6. Usd(w, DOMAIN w) \in Nat /\ Used(e) \in Nat /\ Usd(w, DOMAIN w) <= Used(e)
    BY <2>4, <2>5, BookedBounds
  <2> QED
    BY <2>2, <2>6 DEF Used, e, w
<1> QED
  BY <1>1, BudgetCorrect, PTL DEF Spec, ObservedStops
=============================================================================
