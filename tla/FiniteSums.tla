----------------------------- MODULE FiniteSums -----------------------------
(***************************************************************************)
(* Sums over finite sets, for the proofs about costs.  MapThenSumSet and   *)
(* SumFunctionOnSet of the community modules fold a set in an unspecified  *)
(* order, through a function that recursion defines; here that function is *)
(* shown to exist, and the sum not to depend on the order.                 *)
(***************************************************************************)
EXTENDS Integers, FiniteSets, Functions, FiniteSetTheorems, TLAPS

\* Induction over the subsets of a finite set.  The property is the set T of those that
\* have it: the induction theorems of the library take it as an operator.
LEMMA SetInduction ==
  ASSUME NEW S, IsFiniteSet(S), NEW T \in SUBSET SUBSET S, {} \in T,
         \A A \in T, x \in S : x \notin A => A \cup {x} \in T
  PROVE  \A A \in SUBSET S : A \in T
<1> SUFFICES ASSUME (SUBSET S) \ T # {} PROVE FALSE
  OBVIOUS
<1> DEFINE Bad == (SUBSET S) \ T
<1>1. IsWellFoundedOn(StrictSubsetOrdering(S), SUBSET S)
  BY FS_StrictSubsetOrderingWellFounded, FS_FiniteSubsetsOfFinite
<1>2. PICK A \in Bad : \A B \in Bad : ~ (<<B, A>> \in StrictSubsetOrdering(S))
  BY <1>1, WFMin
<1>3. PICK x \in A : TRUE
  OBVIOUS
<1>4. A \ {x} \in SUBSET S /\ A \ {x} # A /\ <<A \ {x}, A>> \in StrictSubsetOrdering(S)
  BY <1>3 DEF StrictSubsetOrdering
<1>5. A \ {x} \in T
  BY <1>2, <1>4
<1>6. (A \ {x}) \cup {x} = A
  BY <1>3
<1> QED
  BY <1>2, <1>3, <1>5, <1>6

\* Induction over the natural numbers, in the same form.
LEMMA NatInductionSet ==
  ASSUME NEW T \in SUBSET Nat, 0 \in T, \A n \in T : n + 1 \in T
  PROVE  T = Nat
<1> SUFFICES ASSUME Nat \ T # {} PROVE FALSE
  OBVIOUS
<1> DEFINE Bad == Nat \ T
<1>1. IsWellFoundedOn(OpToRel(<, Nat), Nat)
  BY NatLessThanWellFounded
<1>2. PICK n \in Bad : \A m \in Bad : ~ (<<m, n>> \in OpToRel(<, Nat))
  BY <1>1, WFMin
<1>3. n # 0 /\ n - 1 \in Nat /\ (n - 1) + 1 = n /\ n - 1 < n
  OBVIOUS
<1>4. <<n - 1, n>> \in OpToRel(<, Nat)
  BY <1>3 DEF OpToRel
<1> QED
  BY <1>2, <1>3, <1>4

\* A set of natural numbers has a smallest element.
LEMMA Smallest ==
  ASSUME NEW T \in SUBSET Nat, T # {}
  PROVE  \E n \in T : \A m \in T : n <= m
<1>1. IsWellFoundedOn(OpToRel(<, Nat), Nat)
  BY NatLessThanWellFounded
<1>2. PICK n \in T : \A m \in T : ~ (<<m, n>> \in OpToRel(<, Nat))
  BY <1>1, WFMin
<1>3. ASSUME NEW m \in T PROVE ~ (m < n)
  BY <1>2, <1>3 DEF OpToRel
<1> QED
  BY <1>3

-----------------------------------------------------------------------------
\* The sum of w over the finite set S, as MapThenSumSet of the community modules adds it:
\* element by element, in the order of CHOOSE.
Sum(w, S) == SumFunctionOnSet(w, S)

\* The element that is added first.
Pick(S) == CHOOSE x \in S : TRUE

\* g holds the sums of w over the subsets of S of n elements at most.
IsPartialSum(g, w, S, n) ==
  g = [s \in {t \in SUBSET S : Cardinality(t) <= n} |->
         IF s = {} THEN 0 ELSE w[Pick(s)] + g[s \ {Pick(s)}]]

\* They exist, by induction on n.
LEMMA PartialSumExists ==
  ASSUME NEW w, NEW S, IsFiniteSet(S)
  PROVE  \A n \in Nat : \E g : IsPartialSum(g, w, S, n)
<1> DEFINE T == {n \in Nat : \E g : IsPartialSum(g, w, S, n)}
<1>0. \A t \in SUBSET S : IsFiniteSet(t) /\ Cardinality(t) \in Nat
  BY FS_Subset, FS_CardinalityType
<1>1. 0 \in T
  <2> DEFINE g == [s \in {t \in SUBSET S : Cardinality(t) <= 0} |-> 0]
  <2>1. \A s \in SUBSET S : Cardinality(s) <= 0 => s = {}
    BY <1>0, FS_EmptySet
  <2>2. IsPartialSum(g, w, S, 0)
    BY <2>1 DEF IsPartialSum
  <2> HIDE DEF g
  <2> QED
    BY <2>2
<1>2. ASSUME NEW n \in T PROVE n + 1 \in T
  <2>1. PICK g : IsPartialSum(g, w, S, n)
    OBVIOUS
  <2> DEFINE D(k) == {t \in SUBSET S : Cardinality(t) <= k}
             h == [s \in D(n + 1) |-> IF s = {} THEN 0 ELSE w[Pick(s)] + g[s \ {Pick(s)}]]
  <2>2. ASSUME NEW s \in D(n + 1), s # {} PROVE s \ {Pick(s)} \in D(n)
    <3>1. Pick(s) \in s
      BY <2>2 DEF Pick
    <3>2. Cardinality(s \ {Pick(s)}) = Cardinality(s) - 1
      BY <1>0, <3>1, FS_RemoveElement
    <3> QED
      BY <1>0, <3>2
  <2>3. \A s \in D(n) : s \in D(n + 1)
    BY <1>0
  <2>4. g = [s \in D(n) |-> IF s = {} THEN 0 ELSE w[Pick(s)] + g[s \ {Pick(s)}]]
    BY <2>1 DEF IsPartialSum
  <2>5. \A s \in D(n) : h[s] = g[s]
    BY <2>3, <2>4
  <2> HIDE DEF D
  <2>6. h = [s \in D(n + 1) |-> IF s = {} THEN 0 ELSE w[Pick(s)] + h[s \ {Pick(s)}]]
    BY <2>2, <2>5
  <2> HIDE DEF h
  <2>7. IsPartialSum(h, w, S, n + 1)
    BY <2>6 DEF IsPartialSum, D
  <2> QED
    BY <2>7
<1>3. T = Nat
  BY <1>1, <1>2, NatInductionSet
<1> QED
  BY <1>3

\* g holds the sums of w over all subsets of S, by the recursion that computes them.
IsSum(g, w, S) ==
  g = [s \in SUBSET S |-> IF s = {} THEN 0 ELSE w[Pick(s)] + g[s \ {Pick(s)}]]

\* The recursion has a solution.
LEMMA SumExists ==
  ASSUME NEW w, NEW S, IsFiniteSet(S)
  PROVE  \E g : IsSum(g, w, S)
<1>1. \A t \in SUBSET S : Cardinality(t) <= Cardinality(S) /\ Cardinality(S) \in Nat
  BY FS_Subset, FS_CardinalityType
<1>2. PICK g : IsPartialSum(g, w, S, Cardinality(S))
  BY <1>1, PartialSumExists
<1>3. {t \in SUBSET S : Cardinality(t) <= Cardinality(S)} = SUBSET S
  BY <1>1
<1>4. IsSum(g, w, S)
  BY <1>2, <1>3 DEF IsPartialSum, IsSum
<1> QED
  BY <1>4

\* The solution that the recursion stands for.
TheSum(w, S) == CHOOSE g : IsSum(g, w, S)

\* The sum is read off that solution.
LEMMA SumIs ==
  ASSUME NEW w, NEW S
  PROVE  Sum(w, S) = TheSum(w, S)[S]
BY DEF Sum, SumFunctionOnSet, FoldFunctionOnSet, MapThenFoldSet, TheSum, IsSum, Pick

\* A set of subsets of a finite set has a minimal element.
LEMMA MinimalSet ==
  ASSUME NEW S, IsFiniteSet(S), NEW T \in SUBSET SUBSET S, T # {}
  PROVE  \E A \in T : \A B \in SUBSET A : B # A => B \notin T
<1>1. IsWellFoundedOn(StrictSubsetOrdering(S), SUBSET S)
  BY FS_StrictSubsetOrderingWellFounded, FS_FiniteSubsetsOfFinite
<1>2. PICK A \in T : \A B \in T : ~ (<<B, A>> \in StrictSubsetOrdering(S))
  BY <1>1, WFMin
<1> QED
  BY <1>2 DEF StrictSubsetOrdering

\* Solutions over S and over a part of it agree.
LEMMA SumRestricts ==
  ASSUME NEW w, NEW S, IsFiniteSet(S), NEW A \in SUBSET S,
         NEW g, IsSum(g, w, S), NEW h, IsSum(h, w, A)
  PROVE  \A B \in SUBSET A : g[B] = h[B]
<1> SUFFICES ASSUME {B \in SUBSET A : g[B] # h[B]} # {} PROVE FALSE
  OBVIOUS
<1> DEFINE Bad == {B \in SUBSET A : g[B] # h[B]}
<1>1. IsFiniteSet(A) /\ Bad \in SUBSET SUBSET A /\ Bad # {}
  BY FS_Subset
<1>2. PICK B \in Bad : \A C \in SUBSET B : C # B => C \notin Bad
  <2> HIDE DEF Bad
  <2> QED
    BY <1>1, MinimalSet
<1>3. B # {} /\ B \in SUBSET A /\ B \in SUBSET S
  BY <1>2 DEF IsSum
<1>4. Pick(B) \in B
  BY <1>3 DEF Pick
<1>5. g[B \ {Pick(B)}] = h[B \ {Pick(B)}]
  BY <1>2, <1>3, <1>4
<1>6. /\ g[B] = w[Pick(B)] + g[B \ {Pick(B)}]
      /\ h[B] = w[Pick(B)] + h[B \ {Pick(B)}]
  BY <1>3 DEF IsSum
<1> QED
  BY <1>2, <1>5, <1>6

\* Nothing adds up to 0.
LEMMA SumEmpty == \A w : Sum(w, {}) = 0
<1> TAKE w
<1>1. IsSum(TheSum(w, {}), w, {})
  BY SumExists, FS_EmptySet DEF TheSum
<1> QED
  BY <1>1, SumIs DEF IsSum

\* One element at a time: the one that CHOOSE takes.
LEMMA SumPicks ==
  ASSUME NEW w, NEW S, IsFiniteSet(S), S # {}
  PROVE  Sum(w, S) = w[Pick(S)] + Sum(w, S \ {Pick(S)})
<1> DEFINE R == S \ {Pick(S)}
<1>1. IsFiniteSet(R) /\ R \in SUBSET S
  BY FS_Subset
<1>2. IsSum(TheSum(w, S), w, S) /\ IsSum(TheSum(w, R), w, R)
  BY <1>1, SumExists DEF TheSum
<1>3. TheSum(w, S)[R] = TheSum(w, R)[R]
  BY <1>1, <1>2, SumRestricts
<1>4. TheSum(w, S)[S] = w[Pick(S)] + TheSum(w, S)[R]
  BY <1>2 DEF IsSum
<1> QED
  BY <1>3, <1>4, SumIs

\* Integers add up to an integer.
LEMMA SumType ==
  ASSUME NEW w, NEW S, IsFiniteSet(S), \A x \in S : w[x] \in Int
  PROVE  Sum(w, S) \in Int
<1> SUFFICES ASSUME Sum(w, S) \notin Int PROVE FALSE
  OBVIOUS
<1> DEFINE T == {A \in SUBSET S : Sum(w, A) \notin Int}
<1>0. T \in SUBSET SUBSET S /\ T # {}
  OBVIOUS
<1>1. PICK A \in T : \A B \in SUBSET A : B # A => B \notin T
  <2> HIDE DEF T
  <2> QED
    BY <1>0, MinimalSet
<1>2. A \in SUBSET S /\ IsFiniteSet(A) /\ Sum(w, A) \notin Int
  BY FS_Subset
<1>3. A # {}
  BY <1>2, SumEmpty
<1>4. Pick(A) \in A
  BY <1>3 DEF Pick
<1>5. Sum(w, A \ {Pick(A)}) \in Int
  BY <1>1, <1>2, <1>4
<1>6. Sum(w, A) = w[Pick(A)] + Sum(w, A \ {Pick(A)})
  BY <1>2, <1>3, SumPicks
<1> QED
  BY <1>2, <1>4, <1>5, <1>6

\* One element at a time: whichever it is.
LEMMA SumElement ==
  ASSUME NEW w, NEW S, IsFiniteSet(S), \A x \in S : w[x] \in Int, NEW y \in S
  PROVE  Sum(w, S) = w[y] + Sum(w, S \ {y})
<1> SUFFICES ASSUME Sum(w, S) # w[y] + Sum(w, S \ {y}) PROVE FALSE
  OBVIOUS
<1> DEFINE T == {A \in SUBSET S : \E x \in A : Sum(w, A) # w[x] + Sum(w, A \ {x})}
<1>0. T \in SUBSET SUBSET S /\ T # {}
  OBVIOUS
<1>1. PICK A \in T : \A B \in SUBSET A : B # A => B \notin T
  <2> HIDE DEF T
  <2> QED
    BY <1>0, MinimalSet
<1>2. PICK x \in A : Sum(w, A) # w[x] + Sum(w, A \ {x})
  BY <1>1
<1>3. /\ A \in SUBSET S /\ IsFiniteSet(A)
      /\ \A B \in SUBSET A : IsFiniteSet(B) /\ Sum(w, B) \in Int
  BY FS_Subset, SumType
<1> DEFINE p == Pick(A)
<1>4. p \in A
  BY <1>2 DEF Pick
<1>5. Sum(w, A) = w[p] + Sum(w, A \ {p})
  BY <1>2, <1>3, SumPicks
<1>6. p # x
  BY <1>2, <1>5
<1> HIDE DEF p
<1>7. Sum(w, A \ {p}) = w[x] + Sum(w, (A \ {p}) \ {x})
  BY <1>1, <1>2, <1>4, <1>6
<1>8. Sum(w, A \ {x}) = w[p] + Sum(w, (A \ {x}) \ {p})
  BY <1>1, <1>2, <1>4, <1>6
<1>9. (A \ {p}) \ {x} = (A \ {x}) \ {p}
  OBVIOUS
<1> DEFINE r == Sum(w, (A \ {x}) \ {p})
<1>10. r \in Int /\ w[p] \in Int /\ w[x] \in Int
  BY <1>2, <1>3, <1>4
<1>11. Sum(w, A) = w[p] + (w[x] + r) /\ Sum(w, A \ {x}) = w[p] + r
  BY <1>5, <1>7, <1>8, <1>9
<1> HIDE DEF r, T
<1> QED
  BY <1>2, <1>10, <1>11

\* A new element is added.
LEMMA SumAdd ==
  ASSUME NEW w, NEW S, IsFiniteSet(S), NEW y, y \notin S, \A x \in S \cup {y} : w[x] \in Int
  PROVE  Sum(w, S \cup {y}) = w[y] + Sum(w, S)
<1>1. IsFiniteSet(S \cup {y})
  BY FS_AddElement
<1>2. (S \cup {y}) \ {y} = S
  OBVIOUS
<1> QED
  BY <1>1, <1>2, SumElement

\* Disjoint parts are added apart.
LEMMA SumDisjoint ==
  ASSUME NEW w, NEW S, NEW A \in SUBSET S, NEW B \in SUBSET S, IsFiniteSet(S),
         A \cap B = {}, \A x \in S : w[x] \in Int
  PROVE  Sum(w, A \cup B) = Sum(w, A) + Sum(w, B)
<1> DEFINE T == {C \in SUBSET B : Sum(w, A \cup C) = Sum(w, A) + Sum(w, C)}
<1>1. IsFiniteSet(B) /\ \A C \in SUBSET S : IsFiniteSet(C) /\ Sum(w, C) \in Int
  BY FS_Subset, SumType
<1>2. {} \in T
  BY <1>1, SumEmpty
<1>3. ASSUME NEW C \in T, NEW x \in B, x \notin C PROVE C \cup {x} \in T
  <2>1. Sum(w, C \cup {x}) = w[x] + Sum(w, C)
    BY <1>1, <1>3, SumAdd
  <2>2. x \notin A \cup C /\ A \cup C \in SUBSET S
    BY <1>3
  <2>3. Sum(w, (A \cup C) \cup {x}) = w[x] + Sum(w, A \cup C)
    BY <1>1, <2>2, SumAdd
  <2>4. A \cup (C \cup {x}) = (A \cup C) \cup {x}
    OBVIOUS
  <2>5. Sum(w, A \cup C) = Sum(w, A) + Sum(w, C)
    OBVIOUS
  <2>6. w[x] \in Int /\ Sum(w, A) \in Int /\ Sum(w, C) \in Int /\ C \cup {x} \in SUBSET B
    BY <1>1
  <2>7. Sum(w, A \cup (C \cup {x})) = w[x] + (Sum(w, A) + Sum(w, C))
    BY <2>3, <2>4, <2>5
  <2>8. \A i, j, k \in Int : i + (j + k) = j + (i + k)
    OBVIOUS
  <2>9. Sum(w, A \cup (C \cup {x})) = Sum(w, A) + Sum(w, C \cup {x})
    BY <2>1, <2>6, <2>7, <2>8
  <2> QED
    BY <2>6, <2>9
<1>4. \A C \in SUBSET B : C \in T
  BY <1>1, <1>2, <1>3, SetInduction
<1> QED
  BY <1>4

\* Equal summands have equal sums.
LEMMA SumEqual ==
  ASSUME NEW v, NEW w, NEW S, IsFiniteSet(S), \A x \in S : v[x] \in Int /\ v[x] = w[x]
  PROVE  Sum(v, S) = Sum(w, S)
<1> DEFINE T == {A \in SUBSET S : Sum(v, A) = Sum(w, A)}
<1>1. {} \in T
  BY SumEmpty
<1>2. ASSUME NEW A \in T, NEW x \in S, x \notin A PROVE A \cup {x} \in T
  <2>1. IsFiniteSet(A)
    BY FS_Subset
  <2>2. Sum(v, A \cup {x}) = v[x] + Sum(v, A) /\ Sum(w, A \cup {x}) = w[x] + Sum(w, A)
    BY <1>2, <2>1, SumAdd
  <2> QED
    BY <2>2
<1>3. \A A \in SUBSET S : A \in T
  <2>1. T \in SUBSET SUBSET S
    OBVIOUS
  <2> HIDE DEF T
  <2> QED
    BY <1>1, <1>2, <2>1, SetInduction
<1> QED
  BY <1>3

\* Larger summands have a larger sum.
LEMMA SumMonotone ==
  ASSUME NEW v, NEW w, NEW S, IsFiniteSet(S),
         \A x \in S : v[x] \in Int /\ w[x] \in Int /\ v[x] <= w[x]
  PROVE  Sum(v, S) <= Sum(w, S)
<1> DEFINE T == {A \in SUBSET S : Sum(v, A) <= Sum(w, A)}
<1>1. {} \in T
  BY SumEmpty
<1>2. ASSUME NEW A \in T, NEW x \in S, x \notin A PROVE A \cup {x} \in T
  <2>1. IsFiniteSet(A) /\ Sum(v, A) \in Int /\ Sum(w, A) \in Int
    BY FS_Subset, SumType
  <2>2. /\ Sum(v, A \cup {x}) = v[x] + Sum(v, A)
        /\ Sum(w, A \cup {x}) = w[x] + Sum(w, A)
    BY <1>2, <2>1, SumAdd
  <2>3. Sum(v, A) <= Sum(w, A) /\ A \cup {x} \in SUBSET S
    OBVIOUS
  <2>4. Sum(v, A \cup {x}) <= Sum(w, A \cup {x})
    <3> HIDE DEF T
    <3> QED
      BY <2>1, <2>2, <2>3
  <2> QED
    BY <2>3, <2>4
<1>3. \A A \in SUBSET S : A \in T
  <2>1. T \in SUBSET SUBSET S
    OBVIOUS
  <2> HIDE DEF T
  <2> QED
    BY <1>1, <1>2, <2>1, SetInduction
<1> QED
  BY <1>3

\* A sum of equal numbers.
LEMMA SumConstant ==
  ASSUME NEW w, NEW S, IsFiniteSet(S), NEW c \in Int, \A x \in S : w[x] = c
  PROVE  Sum(w, S) = c * Cardinality(S)
<1> DEFINE T == {A \in SUBSET S : Sum(w, A) = c * Cardinality(A)}
<1>1. {} \in T
  BY SumEmpty, FS_EmptySet
<1>2. ASSUME NEW A \in T, NEW x \in S, x \notin A PROVE A \cup {x} \in T
  <2>1. IsFiniteSet(A) /\ Cardinality(A) \in Nat
    BY FS_Subset, FS_CardinalityType
  <2>2. Sum(w, A \cup {x}) = c + Sum(w, A) /\ Cardinality(A \cup {x}) = Cardinality(A) + 1
    BY <1>2, <2>1, SumAdd, FS_AddElement
  <2>3. Sum(w, A) = c * Cardinality(A) /\ A \cup {x} \in SUBSET S
    OBVIOUS
  <2>4. \A n \in Nat : c + c * n = c * (n + 1)
    OBVIOUS
  <2>5. Sum(w, A \cup {x}) = c * Cardinality(A \cup {x})
    <3> HIDE DEF T
    <3> QED
      BY <2>1, <2>2, <2>3, <2>4
  <2> QED
    BY <2>3, <2>5
<1>3. \A A \in SUBSET S : A \in T
  <2>1. T \in SUBSET SUBSET S
    OBVIOUS
  <2> HIDE DEF T
  <2> QED
    BY <1>1, <1>2, <2>1, SetInduction
<1> QED
  BY <1>3

\* Zeros add up to 0.
LEMMA SumZero ==
  ASSUME NEW w, NEW S, IsFiniteSet(S), \A x \in S : w[x] = 0
  PROVE  Sum(w, S) = 0
<1>1. Cardinality(S) \in Nat
  BY FS_CardinalityType
<1>2. Sum(w, S) = 0 * Cardinality(S)
  BY SumConstant
<1>3. \A n \in Nat : 0 * n = 0
  OBVIOUS
<1> QED
  BY <1>1, <1>2, <1>3

\* Natural numbers add up to a natural number.
LEMMA SumNat ==
  ASSUME NEW w, NEW S, IsFiniteSet(S), \A x \in S : w[x] \in Nat
  PROVE  Sum(w, S) \in Nat
<1> DEFINE z == [x \in S |-> 0]
<1>1. Sum(z, S) = 0
  BY SumZero
<1>2. \A x \in S : z[x] \in Int /\ w[x] \in Int /\ z[x] <= w[x]
  OBVIOUS
<1> HIDE DEF z
<1>3. Sum(z, S) <= Sum(w, S)
  BY <1>2, SumMonotone
<1>4. Sum(w, S) \in Int
  BY <1>2, SumType
<1> QED
  BY <1>1, <1>3, <1>4

\* A sum of ones and zeros counts.
LEMMA SumCounts ==
  ASSUME NEW w, NEW S, IsFiniteSet(S), NEW E \in SUBSET S,
         \A x \in S : w[x] = IF x \in E THEN 1 ELSE 0
  PROVE  Sum(w, S) = Cardinality(E)
<1> DEFINE Z == S \ E
<1>1. IsFiniteSet(E) /\ IsFiniteSet(Z) /\ Cardinality(E) \in Nat /\ S = E \cup Z
      /\ E \cap Z = {} /\ Z \in SUBSET S
  BY FS_Subset, FS_CardinalityType
<1>2. Sum(w, E) = 1 * Cardinality(E)
  <2>1. \A x \in E : w[x] = 1
    OBVIOUS
  <2> QED
    BY <1>1, <2>1, SumConstant
<1>3. Sum(w, Z) = 0
  <2>1. \A x \in Z : w[x] = 0
    OBVIOUS
  <2> HIDE DEF Z
  <2> QED
    BY <1>1, <2>1, SumZero
<1>4. Sum(w, E \cup Z) = Sum(w, E) + Sum(w, Z)
  <2>1. \A x \in S : w[x] \in Int
    OBVIOUS
  <2> HIDE DEF Z
  <2> QED
    BY <1>1, <2>1, SumDisjoint
<1>5. \A n \in Nat : 1 * n + 0 = n
  OBVIOUS
<1>6. Sum(w, E \cup Z) = Cardinality(E)
  BY <1>1, <1>2, <1>3, <1>4, <1>5
<1> QED
  BY <1>1, <1>6

\* Of the summands w over B, g replaces those of D with room, which are larger by v; the
\* others of D are v.
Replaces(w, v, B, D, room, g) ==
  /\ IsFiniteSet(B) /\ D \in SUBSET B /\ room \in SUBSET D
  /\ \A x \in B : w[x] \in Int
  /\ \A x \in D : v[x] \in Int
  /\ \A x \in room : g[x] \notin B /\ w[g[x]] \in Int /\ w[x] = w[g[x]] + v[x]
  /\ \A x, y \in room : g[x] = g[y] => x = y
  /\ \A x \in D : x \notin room => w[x] = v[x]

\* Elements D of a sum are replaced by g, or dropped: the sum falls by what v says of
\* each.
LEMMA SumReplaces ==
  ASSUME NEW w, NEW v, NEW B, NEW D, NEW room, NEW g, Replaces(w, v, B, D, room, g)
  PROVE  /\ IsFiniteSet((B \ D) \cup {g[x] : x \in room})
         /\ Sum(w, B) = Sum(w, (B \ D) \cup {g[x] : x \in room}) + Sum(v, D)
<1> DEFINE M(A) == (B \ A) \cup {g[x] : x \in room \cap A}
           Good(A) == /\ IsFiniteSet(M(A)) /\ \A x \in M(A) : w[x] \in Int
                      /\ Sum(w, B) = Sum(w, M(A)) + Sum(v, A)
           T == {A \in SUBSET D : Good(A)}
<1> USE DEF Replaces
<1>0. IsFiniteSet(D) /\ Sum(w, B) \in Int
  BY FS_Subset, SumType
<1>1. {} \in T
  <2>1. M({}) = B
    OBVIOUS
  <2>2. Sum(v, {}) = 0
    BY SumEmpty
  <2>3. Good({})
    <3> HIDE DEF M
    <3> QED
      BY <1>0, <2>1, <2>2
  <2> QED
    BY <2>3
<1>2. ASSUME NEW A \in T, NEW x \in D, x \notin A PROVE A \cup {x} \in T
  <2>1. Good(A) /\ A \in SUBSET D
    BY <1>2
  <2> DEFINE L == M(A) \ {x}
  <2>2. x \in M(A) /\ IsFiniteSet(L) /\ (\A y \in L : w[y] \in Int) /\ w[x] \in Int /\ v[x] \in Int
    <3>1. x \in M(A)
      BY <1>2
    <3> HIDE DEF M
    <3> QED
      BY <2>1, <3>1, FS_RemoveElement
  <2>3. Sum(w, M(A)) = w[x] + Sum(w, L)
    <3> HIDE DEF M
    <3> QED
      BY <2>1, <2>2, SumElement
  <2>4. Sum(v, A \cup {x}) = v[x] + Sum(v, A)
    <3>1. IsFiniteSet(A) /\ \A y \in A \cup {x} : v[y] \in Int
      BY <1>0, <2>1, FS_Subset
    <3> QED
      BY <1>2, <3>1, SumAdd
  <2>5. Sum(v, A) \in Int /\ Sum(w, L) \in Int /\ Sum(w, M(A)) \in Int
    <3>1. IsFiniteSet(A) /\ \A y \in A : v[y] \in Int
      BY <1>0, <2>1, FS_Subset
    <3> HIDE DEF M, L
    <3> QED
      BY <2>1, <2>2, <3>1, SumType
  <2>6. CASE x \notin room
    <3>1. M(A \cup {x}) = L
      BY <1>2, <2>1, <2>6
    <3>2. w[x] = v[x]
      BY <2>6
    <3>3. Good(A \cup {x})
      <4> HIDE DEF M, L
      <4>1. Sum(w, B) = Sum(w, L) + (v[x] + Sum(v, A))
        BY <2>1, <2>2, <2>3, <2>5, <3>2
      <4> QED
        BY <2>2, <2>4, <3>1, <4>1
    <3> QED
      BY <2>1, <3>3
  <2>7. CASE x \in room
    <3>1. M(A \cup {x}) = L \cup {g[x]} /\ g[x] \notin L
      BY <1>2, <2>1, <2>7
    <3>2. w[x] = w[g[x]] + v[x] /\ w[g[x]] \in Int
      BY <2>7
    <3>3. Sum(w, L \cup {g[x]}) = w[g[x]] + Sum(w, L)
      <4> HIDE DEF M, L
      <4> QED
        BY <2>2, <3>1, <3>2, SumAdd
    <3>4. IsFiniteSet(L \cup {g[x]}) /\ \A y \in L \cup {g[x]} : w[y] \in Int
      <4> HIDE DEF M, L
      <4> QED
        BY <2>2, <3>2, FS_AddElement
    <3>5. Good(A \cup {x})
      <4> HIDE DEF M, L
      <4>1. Sum(w, B) = (w[g[x]] + Sum(w, L)) + (v[x] + Sum(v, A))
        BY <2>1, <2>2, <2>3, <2>5, <3>2
      <4> QED
        BY <2>4, <3>1, <3>3, <3>4, <4>1
    <3> QED
      BY <2>1, <3>5
  <2> QED
    BY <2>6, <2>7
<1>3. \A A \in SUBSET D : A \in T
  <2>1. T \in SUBSET SUBSET D
    OBVIOUS
  <2> HIDE DEF T
  <2> QED
    BY <1>0, <1>1, <1>2, <2>1, SetInduction
<1>4. Good(D) /\ M(D) = (B \ D) \cup {g[x] : x \in room}
  <2>1. room \cap D = room
    OBVIOUS
  <2> QED
    BY <1>3, <2>1
<1> QED
  BY <1>4

\* Sums add up summand by summand.
LEMMA SumPlus ==
  ASSUME NEW u, NEW v, NEW w, NEW S, IsFiniteSet(S),
         \A x \in S : v[x] \in Int /\ w[x] \in Int /\ u[x] = v[x] + w[x]
  PROVE  Sum(u, S) = Sum(v, S) + Sum(w, S)
<1> DEFINE T == {A \in SUBSET S : Sum(u, A) = Sum(v, A) + Sum(w, A)}
<1>1. {} \in T
  BY SumEmpty
<1>2. ASSUME NEW A \in T, NEW x \in S, x \notin A PROVE A \cup {x} \in T
  <2>1. IsFiniteSet(A) /\ \A y \in A \cup {x} : u[y] \in Int /\ v[y] \in Int /\ w[y] \in Int
    BY FS_Subset
  <2>2. /\ Sum(u, A \cup {x}) = u[x] + Sum(u, A)
        /\ Sum(v, A \cup {x}) = v[x] + Sum(v, A)
        /\ Sum(w, A \cup {x}) = w[x] + Sum(w, A)
    BY <1>2, <2>1, SumAdd
  <2>3. Sum(u, A) = Sum(v, A) + Sum(w, A) /\ Sum(v, A) \in Int /\ Sum(w, A) \in Int
    BY <2>1, SumType
  <2>4. u[x] = v[x] + w[x] /\ v[x] \in Int /\ w[x] \in Int
    OBVIOUS
  <2>5. Sum(u, A \cup {x}) = Sum(v, A \cup {x}) + Sum(w, A \cup {x})
    <3> HIDE DEF T
    <3> QED
      BY <2>2, <2>3, <2>4
  <2> QED
    BY <2>5
<1>3. \A A \in SUBSET S : A \in T
  <2>1. T \in SUBSET SUBSET S
    OBVIOUS
  <2> HIDE DEF T
  <2> QED
    BY <1>1, <1>2, <2>1, SetInduction
<1> QED
  BY <1>3

\* Where a summand is c on E and 0 elsewhere, the sum counts E.
LEMMA SumOver ==
  ASSUME NEW w, NEW S, IsFiniteSet(S), NEW E \in SUBSET S, NEW c \in Int,
         \A x \in S : w[x] = IF x \in E THEN c ELSE 0
  PROVE  Sum(w, S) = c * Cardinality(E) /\ IsFiniteSet(E) /\ Cardinality(E) \in Nat
<1> DEFINE Z == S \ E
<1>1. IsFiniteSet(E) /\ IsFiniteSet(Z) /\ Cardinality(E) \in Nat /\ S = E \cup Z
      /\ E \cap Z = {} /\ Z \in SUBSET S
  BY FS_Subset, FS_CardinalityType
<1>2. Sum(w, E) = c * Cardinality(E)
  <2>1. \A x \in E : w[x] = c
    OBVIOUS
  <2> QED
    BY <1>1, <2>1, SumConstant
<1>3. Sum(w, Z) = 0
  <2>1. \A x \in Z : w[x] = 0
    OBVIOUS
  <2> HIDE DEF Z
  <2> QED
    BY <1>1, <2>1, SumZero
<1>4. Sum(w, E \cup Z) = Sum(w, E) + Sum(w, Z)
  <2>1. \A x \in S : w[x] \in Int
    OBVIOUS
  <2> HIDE DEF Z
  <2> QED
    BY <1>1, <2>1, SumDisjoint
<1> DEFINE k == Cardinality(E)
<1>5. c * k \in Int
  <2>1. k \in Int
    BY <1>1
  <2> HIDE DEF k
  <2> QED
    BY <2>1
<1>6. Sum(w, E \cup Z) = c * k + 0
  BY <1>2, <1>3, <1>4
<1> HIDE DEF k, Z
<1> QED
  BY <1>1, <1>5, <1>6 DEF k

\* A part whose summands are zero can be left out.
LEMMA SumWithout ==
  ASSUME NEW v, NEW w, NEW S, IsFiniteSet(S), NEW A \in SUBSET S,
         \A x \in S : v[x] = IF x \in A THEN w[x] ELSE 0,
         \A x \in A : w[x] \in Int
  PROVE  Sum(v, S) = Sum(w, A)
<1> DEFINE Z == S \ A
<1>1. IsFiniteSet(A) /\ IsFiniteSet(Z) /\ S = A \cup Z /\ A \cap Z = {} /\ Z \in SUBSET S
  BY FS_Subset
<1>2. \A x \in S : v[x] \in Int
  OBVIOUS
<1>3. Sum(v, Z) = 0
  <2>1. \A x \in Z : v[x] = 0
    OBVIOUS
  <2> HIDE DEF Z
  <2> QED
    BY <1>1, <2>1, SumZero
<1>4. Sum(v, A) = Sum(w, A)
  <2>1. \A x \in A : v[x] \in Int /\ v[x] = w[x]
    OBVIOUS
  <2> QED
    BY <1>1, <2>1, SumEqual
<1>5. Sum(v, A \cup Z) = Sum(v, A) + Sum(v, Z) /\ Sum(v, A) \in Int
  <2>1. \A x \in A : v[x] \in Int
    BY <1>2
  <2> HIDE DEF Z
  <2> QED
    BY <1>1, <1>2, <2>1, SumDisjoint, SumType
<1> HIDE DEF Z
<1> QED
  BY <1>1, <1>3, <1>4, <1>5

\* A nonempty finite set of numbers has a largest element.
LEMMA Largest ==
  ASSUME NEW S, IsFiniteSet(S), S # {}, S \in SUBSET Nat
  PROVE  \E n \in S : \A k \in S : n >= k
<1> DEFINE T == {A \in SUBSET S : A = {} \/ \E n \in A : \A k \in A : n >= k}
<1>1. {} \in T /\ T \in SUBSET SUBSET S
  OBVIOUS
<1>2. ASSUME NEW A \in T, NEW x \in S, x \notin A PROVE A \cup {x} \in T
  <2>1. CASE A = {}
    <3>1. x >= x /\ x \in Nat
      OBVIOUS
    <3> QED
      BY <2>1, <3>1
  <2>2. CASE A # {}
    <3>1. PICK n \in A : \A k \in A : n >= k
      BY <1>2, <2>2
    <3>2. n \in Nat /\ x \in Nat /\ A \in SUBSET Nat
      OBVIOUS
    <3>3. CASE n >= x
      BY <3>1, <3>3
    <3>4. CASE ~ (n >= x)
      <4>1. \A k \in A \cup {x} : x >= k
        <5>1. ASSUME NEW k \in A PROVE x >= k
          <6>1. n >= k /\ k \in Nat
            BY <3>1, <3>2
          <6> HIDE DEF T
          <6> QED
            BY <3>2, <3>4, <6>1
        <5> QED
          BY <3>2, <5>1
      <4> QED
        BY <4>1
    <3> QED
      BY <3>3, <3>4
  <2> QED
    BY <2>1, <2>2
<1> HIDE DEF T
<1>3. S \in T
  BY <1>1, <1>2, SetInduction
<1> QED
  BY <1>3 DEF T
=============================================================================
