----------------------------- MODULE DataLemmas -----------------------------
(***************************************************************************)
(* Facts about the data the other modules are built from: induction over   *)
(* numbers and finite sets, finite sums, and sorting.                      *)
(*                                                                         *)
(* The induction theorems of the library take a predicate as a parameter.  *)
(* Here the predicate is a set, and every induction is a minimal           *)
(* counterexample: a set of pairs that is well-founded has a minimal       *)
(* element in every set that is not empty (WFMin).                         *)
(***************************************************************************)
EXTENDS Integers, FiniteSets, Functions, FiniteSetTheorems, WellFoundedInduction, TLAPS

\* A set of numbers that is not empty has a least one.
LEMMA LeastOf ==
  ASSUME NEW T \in SUBSET Nat, T # {}
  PROVE  \E m \in T : \A k \in T : m <= k
<1> DEFINE R == OpToRel(<, Nat)
<1>1. IsWellFoundedOn(R, Nat) BY NatLessThanWellFounded
<1>2. ASSUME NEW x \in Nat, NEW y \in Nat, x < y PROVE <<x, y>> \in R
  <2>1. <<x, y>> \in Nat \X Nat /\ <<x, y>>[1] < <<x, y>>[2] BY <1>2
  <2> QED BY <2>1, Zenon DEF OpToRel
<1> HIDE DEF R
<1>3. PICK m \in T : \A k \in T : ~(<<k, m>> \in R) BY <1>1, WFMin
<1>4. \A k \in T : ~(k < m) BY <1>2, <1>3
<1> QED BY <1>4

\* Induction over the numbers, with a set for the predicate.
LEMMA InductionOnNat ==
  ASSUME NEW T, 0 \in T, \A n \in Nat : n \in T => n + 1 \in T
  PROVE  \A n \in Nat : n \in T
<1> SUFFICES ASSUME Nat \ T # {} PROVE FALSE OBVIOUS
<1>1. PICK m \in Nat \ T : \A k \in Nat \ T : m <= k BY LeastOf
<1>2. m # 0 /\ m - 1 \in Nat BY <1>1
<1>3. m - 1 \in T BY <1>1, <1>2
<1>4. (m - 1) + 1 \in T BY <1>2, <1>3
<1> QED BY <1>1, <1>2, <1>4

\* Induction over the subsets of a finite set.
LEMMA InductionOnSubsets ==
  ASSUME NEW S, IsFiniteSet(S), NEW F,
         \A s \in SUBSET S : (\A t \in SUBSET s : t # s => t \in F) => s \in F
  PROVE  \A s \in SUBSET S : s \in F
<1> SUFFICES ASSUME (SUBSET S) \ F # {} PROVE FALSE OBVIOUS
<1> DEFINE R == StrictSubsetOrdering(S)
           T == (SUBSET S) \ F
<1>0. IsWellFoundedOn(R, SUBSET S)
  <2>1. FiniteSubsetsOf(S) = SUBSET S BY FS_FiniteSubsetsOfFinite
  <2>2. IsWellFoundedOn(R, FiniteSubsetsOf(S)) BY FS_StrictSubsetOrderingWellFounded
  <2> QED BY <2>1, <2>2
<1>1. T \subseteq SUBSET S /\ T # {} OBVIOUS
<1> HIDE DEF R, T
<1>2. PICK s \in T : \A t \in T : ~(<<t, s>> \in R) BY <1>0, <1>1, WFMin
<1> USE DEF R, T
<1>3. ASSUME NEW t \in SUBSET s, t # s, t \notin F PROVE FALSE
  BY <1>2, <1>3 DEF StrictSubsetOrdering
<1> QED BY <1>2, <1>3

(***************************************************************************)
(* Sums.  The fold that defines them picks the elements in some order.     *)
(***************************************************************************)
\* The element that the fold takes out of a set.
Pick(s) == CHOOSE x \in s : TRUE

\* One turn of the fold, and the functions that are right about every subset.
Folded(f, g, s) == IF s = {} THEN 0 ELSE f[Pick(s)] + g[s \ {Pick(s)}]
SumsUp(f, S, g) == g = [s \in SUBSET S |-> Folded(f, g, s)]

\* A set is one element smaller without the one that is picked.
LEMMA PickFacts ==
  ASSUME NEW s, IsFiniteSet(s), s # {}
  PROVE  /\ Pick(s) \in s
         /\ IsFiniteSet(s \ {Pick(s)})
         /\ Cardinality(s) \in Nat /\ Cardinality(s) > 0
         /\ Cardinality(s \ {Pick(s)}) = Cardinality(s) - 1
<1>1. Pick(s) \in s BY DEF Pick
<1>2. Cardinality(s) \in Nat /\ Cardinality(s) # 0 BY FS_CardinalityType, FS_EmptySet
<1> QED BY <1>1, <1>2, FS_RemoveElement

\* The recursion has a solution: one that is right up to n elements extends
\* to n + 1.
LEMMA SumExists ==
  ASSUME NEW f, NEW S, IsFiniteSet(S)
  PROVE  \E g : SumsUp(f, S, g)
<1> DEFINE Right(g, n) ==
             /\ g = [s \in SUBSET S |-> g[s]]
             /\ \A s \in SUBSET S : Cardinality(s) <= n => g[s] = Folded(f, g, s)
           T == {n \in Nat : \E g : Right(g, n)}
<1>1. \A s \in SUBSET S : IsFiniteSet(s) /\ Cardinality(s) \in Nat
  BY FS_Subset, FS_CardinalityType
<1>2. 0 \in T
  <2> DEFINE g == [s \in SUBSET S |-> 0]
  <2>1. ASSUME NEW s \in SUBSET S, Cardinality(s) <= 0 PROVE g[s] = Folded(f, g, s)
    <3>1. s = {} BY <1>1, <2>1, FS_EmptySet
    <3> QED BY <3>1 DEF Folded
  <2>2. g = [s \in SUBSET S |-> g[s]] OBVIOUS
  <2> HIDE DEF g
  <2> QED BY <2>1, <2>2
<1>3. ASSUME NEW n \in Nat, n \in T PROVE n + 1 \in T
  <2>1. PICK g : Right(g, n) BY <1>3
  <2> DEFINE h == [s \in SUBSET S |-> IF Cardinality(s) <= n THEN g[s] ELSE Folded(f, g, s)]
  <2>2. ASSUME NEW s \in SUBSET S, Cardinality(s) <= n + 1 PROVE h[s] = Folded(f, h, s)
    <3>1. h[s] = Folded(f, g, s) BY <2>1
    <3>2. CASE s = {} BY <3>1, <3>2 DEF Folded
    <3>3. CASE s # {}
      <4>1. s \ {Pick(s)} \in SUBSET S /\ Cardinality(s \ {Pick(s)}) <= n
        BY <1>1, <2>2, <3>3, PickFacts
      <4>2. h[s \ {Pick(s)}] = g[s \ {Pick(s)}] BY <4>1
      <4> QED BY <3>1, <3>3, <4>2 DEF Folded
    <3> QED BY <3>2, <3>3
  <2>3. h = [s \in SUBSET S |-> h[s]] OBVIOUS
  <2> HIDE DEF h
  <2>4. Right(h, n + 1) BY <2>2, <2>3
  <2> HIDE DEF Right
  <2> QED BY <2>4
<1>4. Cardinality(S) \in T
  <2> HIDE DEF T
  <2> QED BY <1>1, <1>2, <1>3, InductionOnNat
<1>5. PICK g : Right(g, Cardinality(S)) BY <1>4
<1>6. \A s \in SUBSET S : Cardinality(s) <= Cardinality(S) BY FS_Subset
<1>7. g = [s \in SUBSET S |-> Folded(f, g, s)]
  BY <1>5, <1>6
<1> QED BY <1>7 DEF SumsUp

\* It has one solution, also over the subsets of a smaller set.
LEMMA SumIsUnique ==
  ASSUME NEW f, NEW S, IsFiniteSet(S), NEW T \in SUBSET S, NEW g, NEW h,
         SumsUp(f, S, g), SumsUp(f, T, h)
  PROVE  g[T] = h[T]
<1> DEFINE F == {s \in SUBSET T : g[s] = h[s]}
<1>1. ASSUME NEW s \in SUBSET T, \A t \in SUBSET s : t # s => t \in F PROVE s \in F
  <2>1. g[s] = Folded(f, g, s) /\ h[s] = Folded(f, h, s) BY DEF SumsUp
  <2>2. CASE s = {} BY <2>1, <2>2 DEF Folded
  <2>3. CASE s # {}
    <3>1. IsFiniteSet(s) BY FS_Subset
    <3>2. s \ {Pick(s)} # s BY <2>3, <3>1, PickFacts
    <3>3. g[s \ {Pick(s)}] = h[s \ {Pick(s)}] BY <1>1, <3>2
    <3> QED BY <2>1, <2>3, <3>3 DEF Folded
  <2> QED BY <2>2, <2>3
<1>2. IsFiniteSet(T) BY FS_Subset
<1>3. T \in F
  <2> HIDE DEF F
  <2> QED BY <1>1, <1>2, InductionOnSubsets
<1> QED BY <1>3

\* The sum is the value of the solution.
LEMMA SumIsSolution ==
  ASSUME NEW f, NEW S, IsFiniteSet(S)
  PROVE  \E g : SumsUp(f, S, g) /\ SumFunctionOnSet(f, S) = g[S]
<1>1. SumFunctionOnSet(f, S) = (CHOOSE g : SumsUp(f, S, g))[S]
  BY Zenon DEF SumFunctionOnSet, FoldFunctionOnSet, MapThenFoldSet, SumsUp, Folded, Pick
<1> QED BY <1>1, SumExists

\* One turn of the fold.
LEMMA SumUnfolds ==
  ASSUME NEW f, NEW S, IsFiniteSet(S)
  PROVE  SumFunctionOnSet(f, S) =
           IF S = {} THEN 0 ELSE f[Pick(S)] + SumFunctionOnSet(f, S \ {Pick(S)})
<1>1. PICK g : SumsUp(f, S, g) /\ SumFunctionOnSet(f, S) = g[S] BY SumIsSolution
<1>2. g[S] = Folded(f, g, S) BY <1>1 DEF SumsUp
<1>3. CASE S = {} BY <1>1, <1>2, <1>3 DEF Folded
<1>4. CASE S # {}
  <2> DEFINE T == S \ {Pick(S)}
  <2>1. IsFiniteSet(T) /\ T \in SUBSET S BY FS_Subset
  <2>2. PICK h : SumsUp(f, T, h) /\ SumFunctionOnSet(f, T) = h[T] BY <2>1, SumIsSolution
  <2>3. g[T] = h[T] BY <1>1, <2>1, <2>2, SumIsUnique
  <2> QED BY <1>1, <1>2, <1>4, <2>2, <2>3 DEF Folded
<1> QED BY <1>3, <1>4

\* The empty sum.
LEMMA SumOfNone == \A f : SumFunctionOnSet(f, {}) = 0
BY FS_EmptySet, SumUnfolds

\* A sum of integers is one.
LEMMA SumIsInt ==
  ASSUME NEW f, NEW S, IsFiniteSet(S), \A x \in S : f[x] \in Int
  PROVE  SumFunctionOnSet(f, S) \in Int
<1> DEFINE F == {s \in SUBSET S : SumFunctionOnSet(f, s) \in Int}
<1>1. ASSUME NEW s \in SUBSET S, \A t \in SUBSET s : t # s => t \in F PROVE s \in F
  <2>1. IsFiniteSet(s) BY FS_Subset
  <2>2. CASE s = {} BY <2>2, SumOfNone
  <2>3. CASE s # {}
    <3>1. Pick(s) \in s /\ s \ {Pick(s)} # s BY <2>1, <2>3, PickFacts
    <3>2. SumFunctionOnSet(f, s \ {Pick(s)}) \in Int BY <1>1, <3>1
    <3>3. SumFunctionOnSet(f, s) = f[Pick(s)] + SumFunctionOnSet(f, s \ {Pick(s)})
      BY <2>1, <2>3, SumUnfolds
    <3> QED BY <3>1, <3>2, <3>3
  <2> QED BY <2>2, <2>3
<1>2. S \in F
  <2> HIDE DEF F
  <2> QED BY <1>1, InductionOnSubsets
<1> QED BY <1>2

\* A sum of naturals is one.
LEMMA SumIsNat ==
  ASSUME NEW f, NEW S, IsFiniteSet(S), \A x \in S : f[x] \in Nat
  PROVE  SumFunctionOnSet(f, S) \in Nat
<1> DEFINE F == {s \in SUBSET S : SumFunctionOnSet(f, s) \in Nat}
<1>1. ASSUME NEW s \in SUBSET S, \A t \in SUBSET s : t # s => t \in F PROVE s \in F
  <2>1. IsFiniteSet(s) BY FS_Subset
  <2>2. CASE s = {} BY <2>2, SumOfNone
  <2>3. CASE s # {}
    <3>1. Pick(s) \in s /\ s \ {Pick(s)} # s BY <2>1, <2>3, PickFacts
    <3>2. SumFunctionOnSet(f, s \ {Pick(s)}) \in Nat BY <1>1, <3>1
    <3>3. SumFunctionOnSet(f, s) = f[Pick(s)] + SumFunctionOnSet(f, s \ {Pick(s)})
      BY <2>1, <2>3, SumUnfolds
    <3> QED BY <3>1, <3>2, <3>3
  <2> QED BY <2>2, <2>3
<1>2. S \in F
  <2> HIDE DEF F
  <2> QED BY <1>1, InductionOnSubsets
<1> QED BY <1>2

\* Any element can be the one that is added last.
LEMMA SumTakesOut ==
  ASSUME NEW f, NEW S, IsFiniteSet(S), \A x \in S : f[x] \in Int, NEW y \in S
  PROVE  SumFunctionOnSet(f, S) = f[y] + SumFunctionOnSet(f, S \ {y})
<1> DEFINE Sum(s) == SumFunctionOnSet(f, s)
           F == {s \in SUBSET S : \A z \in s : Sum(s) = f[z] + Sum(s \ {z})}
<1>1. ASSUME NEW s \in SUBSET S, \A t \in SUBSET s : t # s => t \in F PROVE s \in F
  <2> SUFFICES ASSUME NEW z \in s PROVE Sum(s) = f[z] + Sum(s \ {z}) OBVIOUS
  <2> DEFINE p == Pick(s)
  <2>1. IsFiniteSet(s) BY FS_Subset
  <2>2. p \in s /\ Sum(s) = f[p] + Sum(s \ {p}) BY <2>1, SumUnfolds, PickFacts
  <2>3. CASE p # z
    <3> HIDE DEF p
    <3>1. Sum(s \ {p}) = f[z] + Sum((s \ {p}) \ {z}) BY <1>1, <2>2, <2>3
    <3>2. Sum(s \ {z}) = f[p] + Sum((s \ {z}) \ {p}) BY <1>1, <2>2, <2>3
    <3>3. (s \ {p}) \ {z} = (s \ {z}) \ {p} OBVIOUS
    <3>4. Sum((s \ {z}) \ {p}) \in Int
      <4>1. IsFiniteSet((s \ {z}) \ {p}) BY <2>1, FS_Subset
      <4> QED BY <4>1, SumIsInt
    <3>5. f[p] \in Int /\ f[z] \in Int BY <2>2
    <3>6. Sum(s) = f[p] + (f[z] + Sum((s \ {z}) \ {p})) BY <2>2, <3>1, <3>3
    <3> QED BY <3>2, <3>4, <3>5, <3>6
  <2>4. CASE p = z BY <2>2, <2>4
  <2> QED BY <2>3, <2>4
<1>2. S \in F
  <2> HIDE DEF F
  <2> QED BY <1>1, InductionOnSubsets
<1> QED BY <1>2

\* A sum grows with its terms.
LEMMA SumIsMonotone ==
  ASSUME NEW S, IsFiniteSet(S), NEW f, NEW g,
         \A x \in S : f[x] \in Int /\ g[x] \in Int /\ f[x] <= g[x]
  PROVE  SumFunctionOnSet(f, S) <= SumFunctionOnSet(g, S)
<1> DEFINE F == {s \in SUBSET S : SumFunctionOnSet(f, s) <= SumFunctionOnSet(g, s)}
<1>1. ASSUME NEW s \in SUBSET S, \A t \in SUBSET s : t # s => t \in F PROVE s \in F
  <2>1. IsFiniteSet(s) BY FS_Subset
  <2>2. CASE s = {} BY <2>2, SumOfNone
  <2>3. CASE s # {}
    <3> DEFINE p == Pick(s)
    <3>1. p \in s /\ IsFiniteSet(s \ {p}) BY <2>1, <2>3, PickFacts
    <3>2. /\ SumFunctionOnSet(f, s) = f[p] + SumFunctionOnSet(f, s \ {p})
          /\ SumFunctionOnSet(g, s) = g[p] + SumFunctionOnSet(g, s \ {p})
      BY <2>1, <2>3, SumUnfolds
    <3>3. SumFunctionOnSet(f, s \ {p}) \in Int /\ SumFunctionOnSet(g, s \ {p}) \in Int
      BY <3>1, SumIsInt
    <3>4. SumFunctionOnSet(f, s \ {p}) <= SumFunctionOnSet(g, s \ {p}) BY <1>1, <3>1
    <3>5. f[p] \in Int /\ g[p] \in Int /\ f[p] <= g[p] BY <3>1
    <3> HIDE DEF p
    <3> QED BY <3>2, <3>3, <3>4, <3>5
  <2> QED BY <2>2, <2>3
<1>2. S \in F
  <2> HIDE DEF F
  <2> QED BY <1>1, InductionOnSubsets
<1> QED BY <1>2

\* A sum depends on its terms only.
LEMMA SumOfSame ==
  ASSUME NEW S, IsFiniteSet(S), NEW f, NEW g,
         \A x \in S : f[x] \in Int /\ g[x] = f[x]
  PROVE  SumFunctionOnSet(f, S) = SumFunctionOnSet(g, S)
<1>1. SumFunctionOnSet(f, S) <= SumFunctionOnSet(g, S) BY SumIsMonotone
<1>2. SumFunctionOnSet(g, S) <= SumFunctionOnSet(f, S) BY SumIsMonotone
<1>3. SumFunctionOnSet(f, S) \in Int BY SumIsInt
<1>4. SumFunctionOnSet(g, S) \in Int BY SumIsInt
<1> QED BY <1>1, <1>2, <1>3, <1>4

\* Sums of the same terms add up.
LEMMA SumOfSums ==
  ASSUME NEW S, IsFiniteSet(S), NEW f, NEW g, NEW h,
         \A x \in S : f[x] \in Int /\ g[x] \in Int /\ h[x] = f[x] + g[x]
  PROVE  SumFunctionOnSet(h, S) = SumFunctionOnSet(f, S) + SumFunctionOnSet(g, S)
<1> DEFINE F == {s \in SUBSET S :
                  SumFunctionOnSet(h, s) = SumFunctionOnSet(f, s) + SumFunctionOnSet(g, s)}
<1>1. ASSUME NEW s \in SUBSET S, \A t \in SUBSET s : t # s => t \in F PROVE s \in F
  <2>1. IsFiniteSet(s) BY FS_Subset
  <2>2. CASE s = {} BY <2>2, SumOfNone
  <2>3. CASE s # {}
    <3> DEFINE p == Pick(s)
    <3>1. p \in s /\ IsFiniteSet(s \ {p}) BY <2>1, <2>3, PickFacts
    <3>2. /\ SumFunctionOnSet(f, s) = f[p] + SumFunctionOnSet(f, s \ {p})
          /\ SumFunctionOnSet(g, s) = g[p] + SumFunctionOnSet(g, s \ {p})
          /\ SumFunctionOnSet(h, s) = h[p] + SumFunctionOnSet(h, s \ {p})
      BY <2>1, <2>3, SumUnfolds
    <3>3. SumFunctionOnSet(f, s \ {p}) \in Int /\ SumFunctionOnSet(g, s \ {p}) \in Int
      BY <3>1, SumIsInt
    <3>4. SumFunctionOnSet(h, s \ {p}) = SumFunctionOnSet(f, s \ {p}) + SumFunctionOnSet(g, s \ {p})
      BY <1>1, <3>1
    <3>5. f[p] \in Int /\ g[p] \in Int /\ h[p] = f[p] + g[p] BY <3>1
    <3> HIDE DEF p
    <3> QED BY <3>2, <3>3, <3>4, <3>5
  <2> QED BY <2>2, <2>3
<1>2. S \in F
  <2> HIDE DEF F
  <2> QED BY <1>1, InductionOnSubsets
<1> QED BY <1>2

\* Sums over disjoint sets add up.
LEMMA SumOfUnion ==
  ASSUME NEW S, IsFiniteSet(S), NEW T, IsFiniteSet(T), S \cap T = {}, NEW f,
         \A x \in S \cup T : f[x] \in Int
  PROVE  SumFunctionOnSet(f, S \cup T) = SumFunctionOnSet(f, S) + SumFunctionOnSet(f, T)
<1> DEFINE Sum(s) == SumFunctionOnSet(f, s)
           F == {s \in SUBSET S : Sum(s \cup T) = Sum(s) + Sum(T)}
<1>0. Sum(T) \in Int BY SumIsInt
<1>1. ASSUME NEW s \in SUBSET S, \A t \in SUBSET s : t # s => t \in F PROVE s \in F
  <2>1. IsFiniteSet(s) BY FS_Subset
  <2>2. CASE s = {}
    <3>1. Sum(s) = 0 /\ s \cup T = T BY <2>2, SumOfNone
    <3>2. Sum(s \cup T) = Sum(T) BY <3>1
    <3> QED BY <1>0, <3>1, <3>2
  <2>3. CASE s # {}
    <3>1. PICK p : p \in s BY <2>3
    <3>2. IsFiniteSet(s \cup T) /\ IsFiniteSet(s \ {p}) BY <2>1, FS_Union, FS_Subset
    <3>3. Sum(s) = f[p] + Sum(s \ {p}) BY <2>1, <3>1, SumTakesOut
    <3>4. Sum(s \cup T) = f[p] + Sum((s \cup T) \ {p}) BY <3>1, <3>2, SumTakesOut
    <3>5. (s \cup T) \ {p} = (s \ {p}) \cup T BY <3>1
    <3>6. Sum((s \ {p}) \cup T) = Sum(s \ {p}) + Sum(T) BY <1>1, <3>1
    <3>7. Sum(s \ {p}) \in Int /\ f[p] \in Int BY <3>1, <3>2, SumIsInt
    <3>8. Sum(s \cup T) = f[p] + (Sum(s \ {p}) + Sum(T)) BY <3>4, <3>5, <3>6
    <3> QED BY <1>0, <3>3, <3>7, <3>8
  <2> QED BY <2>2, <2>3
<1>2. S \in F
  <2> HIDE DEF F
  <2> QED BY <1>1, InductionOnSubsets
<1> QED BY <1>2

\* A sum does not depend on what its terms are called.
LEMMA SumOfRenamed ==
  ASSUME NEW S, IsFiniteSet(S), NEW T, NEW h \in Bijection(S, T), NEW f, NEW g,
         \A x \in S : f[x] \in Int /\ f[x] = g[h[x]]
  PROVE  SumFunctionOnSet(f, S) = SumFunctionOnSet(g, T)
<1> DEFINE Im(s) == {h[x] : x \in s}
           F == {s \in SUBSET S : SumFunctionOnSet(f, s) = SumFunctionOnSet(g, Im(s))}
<1>0. /\ h \in [S -> T] /\ \A x, y \in S : h[x] = h[y] => x = y
      /\ Im(S) = T
  BY DEF Bijection, Injection, Surjection, IsInjective
<1>1. ASSUME NEW s \in SUBSET S, \A t \in SUBSET s : t # s => t \in F PROVE s \in F
  <2>1. IsFiniteSet(s) BY FS_Subset
  <2>2. CASE s = {}
    <3>1. Im(s) = {} /\ IsFiniteSet(Im(s)) BY <2>2, FS_EmptySet
    <3> QED BY <2>1, <2>2, <3>1, SumUnfolds
  <2>3. CASE s # {}
    <3>1. PICK p : p \in s BY <2>3
    <3>2. SumFunctionOnSet(f, s) = f[p] + SumFunctionOnSet(f, s \ {p}) BY <2>1, <3>1, SumTakesOut
    <3>3. IsFiniteSet(Im(s))
      <4> DEFINE k == [x \in s |-> h[x]]
      <4>1. k \in Surjection(s, Im(s)) BY DEF Surjection
      <4> QED BY <2>1, <4>1, FS_Surjection
    <3>4. \A y \in Im(s) : g[y] \in Int BY <1>0
    <3>5. SumFunctionOnSet(g, Im(s)) = g[h[p]] + SumFunctionOnSet(g, Im(s) \ {h[p]})
      BY <3>1, <3>3, <3>4, SumTakesOut
    <3>6. Im(s) \ {h[p]} = Im(s \ {p}) BY <1>0, <3>1
    <3>7. SumFunctionOnSet(f, s \ {p}) = SumFunctionOnSet(g, Im(s \ {p})) BY <1>1, <3>1
    <3>8. f[p] = g[h[p]] BY <3>1
    <3> QED BY <3>2, <3>5, <3>6, <3>7, <3>8
  <2> QED BY <2>2, <2>3
<1>2. S \in F
  <2> HIDE DEF F
  <2> QED BY <1>1, InductionOnSubsets
<1> QED BY <1>0, <1>2

\* A sum of ones counts.
LEMMA SumOfOnes ==
  ASSUME NEW S, IsFiniteSet(S), NEW f, \A x \in S : f[x] = 1
  PROVE  SumFunctionOnSet(f, S) = Cardinality(S)
<1> DEFINE F == {s \in SUBSET S : SumFunctionOnSet(f, s) = Cardinality(s)}
<1>1. ASSUME NEW s \in SUBSET S, \A t \in SUBSET s : t # s => t \in F PROVE s \in F
  <2>1. IsFiniteSet(s) BY FS_Subset
  <2>2. CASE s = {} BY <2>2, SumOfNone, FS_EmptySet
  <2>3. CASE s # {}
    <3> DEFINE p == Pick(s)
    <3>1. /\ p \in s /\ Cardinality(s) \in Nat
          /\ Cardinality(s \ {p}) = Cardinality(s) - 1
      BY <2>1, <2>3, PickFacts
    <3>2. SumFunctionOnSet(f, s) = f[p] + SumFunctionOnSet(f, s \ {p}) BY <2>1, <2>3, SumUnfolds
    <3>3. SumFunctionOnSet(f, s \ {p}) = Cardinality(s \ {p}) BY <1>1, <3>1
    <3>4. f[p] = 1 BY <3>1
    <3> HIDE DEF p
    <3> QED BY <3>1, <3>2, <3>3, <3>4
  <2> QED BY <2>2, <2>3
<1>2. S \in F
  <2> HIDE DEF F
  <2> QED BY <1>1, InductionOnSubsets
<1> QED BY <1>2

(***************************************************************************)
(* Sorting by a strict total order: R is the set of pairs in order.        *)
(***************************************************************************)
\* R orders S strictly and totally.
Orders(R, S) ==
  /\ \A d \in S : <<d, d>> \notin R
  /\ \A d, e, x \in S : <<d, e>> \in R /\ <<e, x>> \in R => <<d, x>> \in R
  /\ \A d, e \in S : d # e => <<d, e>> \in R \/ <<e, d>> \in R

\* What comes before an element.
Below(R, S, e) == {d \in S : <<d, e>> \in R}

\* The number of elements below it tells an element's place.
LEMMA PlacesAreOrdered ==
  ASSUME NEW S, IsFiniteSet(S), NEW R, Orders(R, S)
  PROVE  /\ \A e \in S : Cardinality(Below(R, S, e)) \in 0 .. Cardinality(S) - 1
         /\ \A d, e \in S : <<d, e>> \in R =>
              Cardinality(Below(R, S, d)) < Cardinality(Below(R, S, e))
         /\ \A d, e \in S : d # e => Cardinality(Below(R, S, d)) # Cardinality(Below(R, S, e))
<1>1. ASSUME NEW e \in S
      PROVE  /\ IsFiniteSet(Below(R, S, e)) /\ Cardinality(Below(R, S, e)) \in Nat
             /\ Cardinality(Below(R, S, e)) < Cardinality(S)
             /\ Cardinality(S) \in Nat
  <2>1. Below(R, S, e) \in SUBSET S /\ e \notin Below(R, S, e) BY DEF Below, Orders
  <2> QED BY <2>1, FS_Subset, FS_CardinalityType
<1>2. ASSUME NEW d \in S, NEW e \in S, <<d, e>> \in R
      PROVE  Cardinality(Below(R, S, d)) < Cardinality(Below(R, S, e))
  <2>1. Below(R, S, d) \in SUBSET Below(R, S, e) BY <1>2 DEF Below, Orders
  <2>2. d \in Below(R, S, e) /\ d \notin Below(R, S, d) BY <1>2 DEF Below, Orders
  <2> QED BY <1>1, <2>1, <2>2, FS_Subset
<1>3. ASSUME NEW d \in S, NEW e \in S, d # e
      PROVE  Cardinality(Below(R, S, d)) # Cardinality(Below(R, S, e))
  <2>1. <<d, e>> \in R \/ <<e, d>> \in R BY <1>3 DEF Orders
  <2> QED BY <1>1, <1>2, <2>1
<1> QED BY <1>1, <1>2, <1>3

\* Every place is taken once.
LEMMA PlacesAreTaken ==
  ASSUME NEW S, IsFiniteSet(S), NEW R, Orders(R, S)
  PROVE  \A k \in 0 .. Cardinality(S) - 1 : \E e \in S : Cardinality(Below(R, S, e)) = k
<1> DEFINE place == [e \in S |-> Cardinality(Below(R, S, e))]
           P == 0 .. Cardinality(S) - 1
<1>1. place \in [S -> P] BY PlacesAreOrdered
<1>2. \A d, e \in S : d # e => place[d] # place[e]
  BY PlacesAreOrdered
<1>3. place \in Injection(S, P)
  <2> HIDE DEF place, P
  <2> QED BY <1>1, <1>2 DEF Injection, IsInjective
<1>4. IsFiniteSet(P) /\ Cardinality(P) = Cardinality(S)
  <2>1. Cardinality(S) \in Nat BY FS_CardinalityType
  <2> QED BY <2>1, FS_Interval
<1>5. place \in Surjection(S, P)
  <2> HIDE DEF place, P
  <2> QED BY <1>3, <1>4, FS_Injection
<1> QED BY <1>5 DEF Surjection

\* A sequence that has every element at its place has each of them once, in
\* order.
LEMMA SortIsRight ==
  ASSUME NEW S, IsFiniteSet(S), NEW R, Orders(R, S), NEW s,
         \A k \in 1 .. Cardinality(S) : s[k] \in S /\ Cardinality(Below(R, S, s[k])) = k - 1
  PROVE  /\ \A e \in S : \E k \in 1 .. Cardinality(S) : s[k] = e
         /\ \A j, k \in 1 .. Cardinality(S) : j < k => <<s[j], s[k]>> \in R
         /\ \A j, k \in 1 .. Cardinality(S) : j # k => s[j] # s[k]
<1> DEFINE n == Cardinality(S)
           Place(e) == Cardinality(Below(R, S, e))
<1>1. n \in Nat BY FS_CardinalityType
<1>2. ASSUME NEW k \in 1 .. n PROVE s[k] \in S /\ Place(s[k]) = k - 1
  OBVIOUS
<1>3. ASSUME NEW d \in S, NEW e \in S, Place(d) = Place(e) PROVE d = e
  BY <1>3, PlacesAreOrdered
<1>4. ASSUME NEW e \in S PROVE \E k \in 1 .. n : s[k] = e
  <2>1. Place(e) \in 0 .. n - 1 BY PlacesAreOrdered
  <2>2. Place(e) + 1 \in 1 .. n /\ Place(s[Place(e) + 1]) = Place(e) BY <1>1, <1>2, <2>1
  <2> QED BY <1>2, <1>3, <2>2
<1>5. ASSUME NEW j \in 1 .. n, NEW k \in 1 .. n, j < k PROVE <<s[j], s[k]>> \in R
  <2> DEFINE d == s[j]
             e == s[k]
  <2>1. d \in S /\ e \in S /\ Place(d) = j - 1 /\ Place(e) = k - 1 BY <1>2
  <2> HIDE DEF d, e
  <2>2. Place(d) < Place(e) BY <1>1, <1>5, <2>1
  <2>3. ~(Place(e) < Place(d)) /\ d # e BY <1>1, <2>1, <2>2
  <2>4. <<e, d>> \notin R BY <2>1, <2>3, PlacesAreOrdered
  <2>5. <<d, e>> \in R BY <2>1, <2>3, <2>4 DEF Orders
  <2> QED BY <2>5 DEF d, e
<1>6. ASSUME NEW j \in 1 .. n, NEW k \in 1 .. n, j # k PROVE s[j] # s[k]
  <2>1. Place(s[j]) = j - 1 /\ Place(s[k]) = k - 1 BY <1>2
  <2>2. j - 1 # k - 1 BY <1>1, <1>6
  <2> QED BY <2>1, <2>2
<1> QED BY <1>4, <1>5, <1>6

\* A sequence that has at every place the element of that place, if there is
\* one, is the set in order.
LEMMA SortedByPlace ==
  ASSUME NEW S, IsFiniteSet(S), NEW R, Orders(R, S), NEW s,
         \A k \in 1 .. Cardinality(S) : \A e \in S :
           Cardinality(Below(R, S, e)) = k - 1 =>
             s[k] \in S /\ Cardinality(Below(R, S, s[k])) = k - 1
  PROVE  /\ \A k \in 1 .. Cardinality(S) : s[k] \in S
         /\ \A e \in S : \E k \in 1 .. Cardinality(S) : s[k] = e
         /\ \A j, k \in 1 .. Cardinality(S) : j < k => <<s[j], s[k]>> \in R
<1>1. Cardinality(S) \in Nat BY FS_CardinalityType
<1>2. ASSUME NEW k \in 1 .. Cardinality(S)
      PROVE  s[k] \in S /\ Cardinality(Below(R, S, s[k])) = k - 1
  <2>1. k - 1 \in 0 .. Cardinality(S) - 1 BY <1>1
  <2>2. PICK e \in S : Cardinality(Below(R, S, e)) = k - 1 BY <2>1, PlacesAreTaken
  <2> QED BY <2>2
<1> QED BY <1>2, SortIsRight
=============================================================================
