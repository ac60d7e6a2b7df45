--------------------------- MODULE Searches_proofs ---------------------------
(***************************************************************************)
(* Safety of OLL with weights, and of all searches together: the program   *)
(* runs one of them, of those whose proofs are here or in                  *)
(* SingleSearches_proofs.                                                  *)
(***************************************************************************)
EXTENDS SingleSearches_proofs

-----------------------------------------------------------------------------
(***************************************************************************)
(* Weighted OLL: what a core of weight m does.  Heavier soft clauses and   *)
(* bounds are split, what is left of them stays assumed.                   *)
(***************************************************************************)

\* The instance of weighted OLL counts as this module does,
LEMMA OllWCardinality == \A S : OllW!Cardinality(S) = Cardinality(S)
  BY Zenon DEF OllW!Cardinality, Cardinality

\* also the literals of totalizers over totalizers,
LEMMA OllWCounts == \A cs, S : OllW!Counts(cs, S) = Counts(cs, S)
  BY Zenon DEF OllW!Counts, Counts, OllW!Cardinality, Cardinality, OllW!IsSoft, IsSoft

\* reads literals and builds totalizers alike,
LEMMA OllWReads ==
  /\ \A l : OllW!IsSoft(l) <=> IsSoft(l)
  /\ \A i : OllW!SoftLit(i) = SoftLit(i)
  /\ \A t, k : OllW!OutLit(t, k) = OutLit(t, k)
  /\ \A cs, S, l : OllW!True(cs, S, l) <=> True(cs, S, l)
  /\ \A cs, S, l : OllW!Excess(cs, S, l) = Excess(cs, S, l)
  /\ \A lits, k : OllW!Card(lits, k) = Card(lits, k)
  /\ \A cs, l : OllW!NextBound(cs, l) = NextBound(cs, l)
  /\ \A cs, outs : OllW!RaiseAll(cs, outs) = RaiseAll(cs, outs)
  BY OllWCardinality, OllWCounts
     DEF OllW!IsSoft, IsSoft, OllW!SoftLit, SoftLit, OllW!OutLit, OutLit, OllW!True, True,
         OllW!Excess, Excess, OllW!Card, Card, OllW!NextBound, NextBound, OllW!RaiseAll, RaiseAll

\* and adds up weights alike.
LEMMA OllWSums ==
  /\ \A F : OllW!Cost(F) = Sum(weight, F)
  /\ \A w, S : OllW!SumFunctionOnSet(w, S) = Sum(w, S)
<1>1. \A F : OllW!Cost(F) = Sum(weight, F)
  BY Zenon DEF OllW!Cost, OllW!MapThenSumSet, OllW!MapThenFoldSet,
     Sum, SumFunctionOnSet, FoldFunctionOnSet, MapThenFoldSet
<1>2. \A w, S : OllW!SumFunctionOnSet(w, S) = Sum(w, S)
  BY Zenon DEF OllW!SumFunctionOnSet, OllW!FoldFunctionOnSet, OllW!MapThenFoldSet,
     Sum, SumFunctionOnSet, FoldFunctionOnSet, MapThenFoldSet
<1> QED
  BY <1>1, <1>2

\* The sequence H lists the elements of S, each once.
Lists(H, S) ==
  /\ H \in Seq(S) /\ Len(H) \in Nat
  /\ \A i, j \in 1 .. Len(H) : H[i] = H[j] => i = j
  /\ \A x \in S : \E j \in 1 .. Len(H) : H[j] = x

\* SetToSeq does so for a finite set.
LEMMA Listed ==
  ASSUME NEW S, IsFiniteSet(S)
  PROVE  Lists(OllW!SetToSeq(S), S)
<1> DEFINE n == Cardinality(S)
           H == OllW!SetToSeq(S)
<1>1. n \in Nat
  BY FS_CardinalityType
<1>2. H = CHOOSE f \in [1 .. n -> S] : \A a, b \in DOMAIN f : f[a] = f[b] => a = b
  BY OllWCardinality DEF OllW!SetToSeq, OllW!IsInjective
<1>3. ExistsBijection(1 .. n, S)
  BY <1>1, FS_CountingElements, FS_NatBijection
<1>4. PICK f \in Bijection(1 .. n, S) : TRUE
  BY <1>3 DEF ExistsBijection
<1>5. f \in [1 .. n -> S] /\ \A a, b \in DOMAIN f : f[a] = f[b] => a = b
  BY <1>4 DEF Bijection, Injection, IsInjective
<1>6. H \in [1 .. n -> S] /\ \A a, b \in DOMAIN H : H[a] = H[b] => a = b
  <2> DEFINE X == [1 .. n -> S]
             Q(h) == \A a, b \in DOMAIN h : h[a] = h[b] => a = b
  <2> HIDE DEF H, n
  <2>1. f \in X /\ Q(f)
    BY <1>5
  <2>2. H = CHOOSE h \in X : Q(h)
    BY <1>2
  <2> HIDE DEF X, Q
  <2>3. H \in X /\ Q(H)
    BY <2>1, <2>2
  <2> QED
    BY <2>3 DEF X, Q
<1>7. {H[j] : j \in 1 .. n} = S
  <2> DEFINE R == {H[j] : j \in 1 .. n}
  <2>1. IsFiniteSet(1 .. n) /\ Cardinality(1 .. n) = n
    <3> HIDE DEF n
    <3>1. 0 \in Int /\ 1 \in Int /\ n \in Int /\ (1 > n => n = 0) /\ n - 1 + 1 = n
      BY <1>1
    <3> QED
      BY <3>1, FS_Interval
  <2>2. \A a, b \in 1 .. n : H[a] = H[b] => a = b
    BY <1>6
  <2>3. Cardinality(R) = n
    BY <2>1, <2>2, FiniteImage
  <2>4. R \in SUBSET S
    BY <1>6
  <2> HIDE DEF R, H
  <2> QED
    BY <2>3, <2>4, FS_Subset DEF R
<1>8. H \in Seq(S) /\ Len(H) = n
  BY <1>1, <1>6
<1>9. \A x \in S : \E j \in 1 .. n : H[j] = x
  <2> HIDE DEF H, n
  <2>1. \A x \in S : x \in {H[j] : j \in 1 .. n}
    BY <1>7
  <2> QED
    BY <2>1
<1> HIDE DEF H, n
<1> QED
  BY <1>1, <1>6, <1>8, <1>9 DEF H, Lists

\* q is s followed by r.
Follows(q, s, r) ==
  /\ Len(q) = Len(s) + Len(r)
  /\ \A i \in 1 .. Len(s) : q[i] = s[i]
  /\ \A j \in 1 .. Len(r) : q[Len(s) + j] = r[j]

\* Two sequences in a row.
LEMMA Concatenated ==
  ASSUME NEW T, NEW s \in Seq(T), NEW r \in Seq(T)
  PROVE  s \o r \in Seq(T) /\ Follows(s \o r, s, r)
  BY DEF Follows

\* A function on an initial segment of the numbers is a sequence.
LEMMA Tabulated ==
  ASSUME NEW T, NEW n \in Nat, NEW f \in [1 .. n -> T]
  PROVE  f \in Seq(T) /\ Len(f) = n /\ DOMAIN f = 1 .. n
  OBVIOUS

\* A soft clause or copy.
Entries == [clause : Soft, weight : Nat \ {0}, active : BOOLEAN]

\* What may be assumed: soft clauses and copies, outputs of totalizers.
Assumable == {SoftLit(i) : i \in Nat} \cup Outputs

\* The totalizers of weighted OLL.
Counters == TotalizersOver(Assumable)

\* The types of the variables; totalizers form no cycle and count existing clauses.
OllWTyped ==
  /\ weight \in OllWeightings /\ feasible \in Instances
  /\ nbSatisfiable \in Nat /\ ubCost \in Nat
  /\ model \in (SUBSET Soft) \cup {NULL}
  /\ status \in {"searching", "OPTIMUM", "UNSATISFIABLE"}
  /\ soft \in Seq(Entries)
  /\ cards \in Seq(Counters) /\ WellFormed(cards)
  /\ \A t \in 1 .. Len(cards) : \A l \in cards[t].lits : IsSoft(l) => l[2] \in 1 .. Len(soft)
  /\ DOMAIN bounds \in SUBSET Outputs /\ IsFiniteSet(DOMAIN bounds)
  /\ bounds \in [DOMAIN bounds -> Nat \ {0}]
  /\ minWeight \in Nat \/ Soft = {}

\* A totalizer has at most one bound, the highest output that is encoded.
HeavyEncoded ==
  \A l \in DOMAIN bounds : /\ l[2] \in 1 .. Len(cards)
                           /\ cards[l[2]].upTo = l[3]
                           /\ l[3] < Cardinality(cards[l[2]].lits)

\* The soft clauses and copies that are not active.
Inactive == {SoftLit(i) : i \in {j \in 1 .. Len(soft) : ~ soft[j].active}}

\* The soft clauses of a core, and its bounds of weight m and heavier.
Joined(C) == {i \in 1 .. Len(soft) : SoftLit(i) \in C}
HeavySofts(C, m) == {i \in Joined(C) : soft[i].weight > m}
Raised(C, m) == {l \in C : ~ IsSoft(l) /\ bounds[l] = m}
Divided(C, m) == {l \in C : ~ IsSoft(l) /\ bounds[l] > m}

\* A core paid for with m: clauses and bounds that are assumed, none lighter than m.
PaidCore(C, m) ==
  /\ C \in SUBSET (Inactive \cup DOMAIN bounds)
  /\ IsFiniteSet(C) /\ C # {}
  /\ m \in Nat \ {0}
  /\ \A i \in Joined(C) : soft[i].weight >= m
  /\ \A l \in CoreOutputs(C) : bounds[l] >= m

\* The soft clauses after the core: heavy ones keep the rest and get active copies, in the
\* order H; the others become active.
SoftsAfter(sf, C, m, H) ==
  /\ sf \in Seq(Entries) /\ Len(sf) = Len(soft) + Len(H)
  /\ \A i \in 1 .. Len(soft) :
       /\ sf[i].clause = soft[i].clause
       /\ sf[i].weight = IF i \in HeavySofts(C, m) THEN soft[i].weight - m ELSE soft[i].weight
       /\ sf[i].active <=> soft[i].active \/ (i \in Joined(C) /\ i \notin HeavySofts(C, m))
  /\ \A j \in 1 .. Len(H) :
       sf[Len(soft) + j] = [clause |-> soft[H[j]].clause, weight |-> m, active |-> TRUE]

\* SplitSoft does so.
LEMMA SplitSofts ==
  ASSUME OllWTyped, NEW C, NEW m, PaidCore(C, m)
  PROVE  /\ OllW!Heavy(C, m) = OllW!SetToSeq(HeavySofts(C, m))
         /\ Lists(OllW!Heavy(C, m), HeavySofts(C, m))
         /\ SoftsAfter(OllW!SplitSoft(C, m), C, m, OllW!Heavy(C, m))
<1> DEFINE n == Len(soft)
           H == OllW!Heavy(C, m)
           k == Len(H)
           kept == [i \in 1 .. n |->
                      IF SoftLit(i) \notin C THEN soft[i]
                      ELSE IF soft[i].weight > m THEN [soft[i] EXCEPT !.weight = @ - m]
                      ELSE [soft[i] EXCEPT !.active = TRUE]]
           copies == [j \in 1 .. k |->
                        [clause |-> soft[H[j]].clause, weight |-> m, active |-> TRUE]]
<1>1. /\ soft \in Seq(Entries) /\ n \in Nat /\ DOMAIN soft = 1 .. n
      /\ \A i \in 1 .. n : soft[i] \in Entries
  BY DEF OllWTyped
<1>2. H = OllW!SetToSeq(HeavySofts(C, m))
  <2>1. {i \in DOMAIN soft : SoftLit(i) \in C /\ soft[i].weight > m} = HeavySofts(C, m)
    BY <1>1 DEF HeavySofts, Joined
  <2> QED
    BY <2>1, OllWReads DEF OllW!Heavy
<1>3. Lists(H, HeavySofts(C, m))
  <2>1. HeavySofts(C, m) \in SUBSET (1 .. n)
    BY DEF HeavySofts, Joined
  <2>2. IsFiniteSet(1 .. n)
    <3> HIDE DEF n
    <3>1. 1 \in Int /\ n \in Int
      BY <1>1
    <3> QED
      BY <3>1, FS_Interval
  <2>3. IsFiniteSet(HeavySofts(C, m))
    BY <2>1, <2>2, FS_Subset
  <2> QED
    BY <1>2, <2>3, Listed
<1>4. /\ k \in Nat /\ DOMAIN H = 1 .. k
      /\ \A j \in 1 .. k : H[j] \in HeavySofts(C, m) /\ H[j] \in 1 .. n
  BY <1>3 DEF Lists, HeavySofts, Joined
<1>5. OllW!SplitSoft(C, m) = kept \o copies
  BY <1>1, <1>4, OllWReads DEF OllW!SplitSoft
<1> HIDE DEF H
<1>6. ASSUME NEW i \in 1 .. n
      PROVE  /\ kept[i] \in Entries
             /\ kept[i].clause = soft[i].clause
             /\ kept[i].weight = IF i \in HeavySofts(C, m) THEN soft[i].weight - m ELSE soft[i].weight
             /\ kept[i].active <=> soft[i].active \/ (i \in Joined(C) /\ i \notin HeavySofts(C, m))
  <2> DEFINE e == soft[i]
  <2>1. e = [clause |-> e.clause, weight |-> e.weight, active |-> e.active]
        /\ e.clause \in Soft /\ e.weight \in Nat \ {0} /\ e.active \in BOOLEAN
    BY <1>1 DEF Entries
  <2>2. /\ i \in Joined(C) <=> SoftLit(i) \in C
        /\ i \in HeavySofts(C, m) <=> SoftLit(i) \in C /\ e.weight > m
    BY DEF Joined, HeavySofts
  <2>3. m \in Nat \ {0}
    BY DEF PaidCore
  <2>4. CASE SoftLit(i) \notin C
    <3>1. kept[i] = e
      BY <2>4
    <3> HIDE DEF kept, n
    <3> QED
      BY <2>1, <2>2, <2>4, <3>1 DEF Entries
  <2>5. CASE SoftLit(i) \in C /\ e.weight > m
    <3>1. kept[i] = [e EXCEPT !.weight = @ - m]
      BY <2>5
    <3> HIDE DEF kept, e, n
    <3>2. kept[i] = [clause |-> e.clause, weight |-> e.weight - m, active |-> e.active]
      BY <2>1, <3>1
    <3>3. e.weight - m \in Nat \ {0}
      BY <2>1, <2>3, <2>5
    <3>4. /\ kept[i] \in Entries /\ kept[i].clause = e.clause
          /\ kept[i].weight = e.weight - m /\ kept[i].active = e.active
      BY <2>1, <3>2, <3>3 DEF Entries
    <3> QED
      BY <2>2, <2>5, <3>4 DEF e
  <2>6. CASE SoftLit(i) \in C /\ ~ (e.weight > m)
    <3>1. kept[i] = [e EXCEPT !.active = TRUE]
      BY <2>6
    <3> HIDE DEF kept, e, n
    <3>2. kept[i] = [clause |-> e.clause, weight |-> e.weight, active |-> TRUE]
      BY <2>1, <3>1
    <3>4. /\ kept[i] \in Entries /\ kept[i].clause = e.clause
          /\ kept[i].weight = e.weight /\ kept[i].active = TRUE
      BY <2>1, <3>2 DEF Entries
    <3> QED
      BY <2>2, <2>6, <3>4 DEF e
  <2> QED
    BY <2>4, <2>5, <2>6
<1>7. \A j \in 1 .. k : copies[j] \in Entries
  <2>1. ASSUME NEW j \in 1 .. k PROVE copies[j] \in Entries
    <3>1. soft[H[j]].clause \in Soft /\ m \in Nat \ {0}
      BY <1>1, <1>4 DEF Entries, PaidCore
    <3> QED
      BY <3>1 DEF Entries
  <2> QED
    BY <2>1
<1>8. /\ kept \in Seq(Entries) /\ Len(kept) = n /\ copies \in Seq(Entries) /\ Len(copies) = k
  <2>1. kept \in [1 .. n -> Entries]
    <3>1. \A i \in 1 .. n : kept[i] \in Entries
      BY <1>6
    <3>2. kept = [i \in 1 .. n |-> kept[i]]
      OBVIOUS
    <3> HIDE DEF kept, n
    <3> QED
      BY <3>1, <3>2
  <2>2. copies \in [1 .. k -> Entries]
    <3>1. copies = [i \in 1 .. k |-> copies[i]]
      OBVIOUS
    <3> HIDE DEF copies, k
    <3> QED
      BY <1>7, <3>1
  <2> HIDE DEF kept, copies, n, k
  <2> QED
    BY <1>1, <1>4, <2>1, <2>2, Tabulated
<1> DEFINE sf == kept \o copies
<1>9. /\ sf \in Seq(Entries) /\ Len(sf) = n + k
      /\ \A i \in 1 .. n : sf[i] = kept[i]
      /\ \A j \in 1 .. k : sf[n + j] = copies[j]
  <2> HIDE DEF kept, copies, n, k
  <2>1. kept \in Seq(Entries) /\ copies \in Seq(Entries) /\ Len(kept) = n /\ Len(copies) = k
    BY <1>8
  <2>2. sf \in Seq(Entries) /\ Follows(sf, kept, copies)
    BY <2>1, Concatenated
  <2> HIDE DEF sf
  <2> QED
    BY <2>1, <2>2 DEF Follows
<1>10. \A j \in 1 .. k : copies[j] = [clause |-> soft[H[j]].clause, weight |-> m, active |-> TRUE]
  OBVIOUS
<1> HIDE DEF kept, copies, sf
<1>11. SoftsAfter(sf, C, m, H)
  BY <1>6, <1>9, <1>10 DEF SoftsAfter
<1> QED
  BY <1>2, <1>3, <1>5, <1>11 DEF sf, H

\* The literals that join the new core: the clauses and bounds of weight m, the copies of
\* the heavy clauses and the duplicates of the heavy bounds.
Relax(C, m, H, P) ==
  {l \in C : IsSoft(l) /\ soft[l[2]].weight = m}
    \cup {SoftLit(Len(soft) + j) : j \in 1 .. Len(H)}
    \cup Raised(C, m)
    \cup {OutLit(Len(cards) + j, P[j][3]) : j \in 1 .. Len(P)}

\* The literal that joins it for a literal of the core.
Joins(C, m, H, P) ==
  [l \in C |->
     IF IsSoft(l)
       THEN IF soft[l[2]].weight = m THEN l
            ELSE SoftLit(Len(soft) + CHOOSE j \in 1 .. Len(H) : H[j] = l[2])
       ELSE IF bounds[l] = m THEN l
            ELSE OutLit(Len(cards) + CHOOSE j \in 1 .. Len(P) : P[j] = l, l[3])]

\* A core that is paid for, with its heavy clauses and bounds in the order of H and P.
Paid(C, m, H, P) ==
  PaidCore(C, m) /\ Lists(H, HeavySofts(C, m)) /\ Lists(P, Divided(C, m))

\* The literals of a core, one by one.
LEMMA CoreLiteral ==
  ASSUME OllWTyped, HeavyEncoded, NEW C, NEW m, PaidCore(C, m), NEW l \in C
  PROVE  /\ l \in Assumable
         /\ IsSoft(l) => /\ l = SoftLit(l[2]) /\ l[2] \in Joined(C)
                         /\ l[2] \in 1 .. Len(soft) /\ l[2] \in Nat
                         /\ soft[l[2]] \in Entries /\ soft[l[2]].weight \in Nat \ {0}
                         /\ ~ soft[l[2]].active
                         /\ soft[l[2]].weight >= m
                         /\ l[2] \in HeavySofts(C, m) <=> soft[l[2]].weight # m
         /\ ~ IsSoft(l) => /\ l \in CoreOutputs(C) /\ l \in DOMAIN bounds /\ l \in Outputs
                           /\ l = OutLit(l[2], l[3]) /\ l[2] \in 1 .. Len(cards)
                           /\ l[2] \in Nat /\ l[3] \in Nat
                           /\ bounds[l] \in Nat \ {0} /\ bounds[l] >= m
                           /\ l \in Raised(C, m) <=> bounds[l] = m
                           /\ l \in Divided(C, m) <=> bounds[l] # m
<1>1. /\ l \in Inactive \cup DOMAIN bounds /\ DOMAIN bounds \in SUBSET Outputs /\ m \in Nat \ {0}
      /\ soft \in Seq(Entries) /\ bounds \in [DOMAIN bounds -> Nat \ {0}]
  BY DEF PaidCore, OllWTyped
<1>2. CASE IsSoft(l)
  <2>1. l \notin DOMAIN bounds
    BY <1>1, <1>2, LiteralsAre
  <2>2. PICK i \in 1 .. Len(soft) : l = SoftLit(i) /\ ~ soft[i].active
    BY <1>1, <2>1 DEF Inactive
  <2>3. l[2] = i
    BY <2>2, LiteralsAre
  <2>4. i \in Joined(C) /\ i \in Nat
    BY <1>1, <2>2 DEF Joined
  <2>5. soft[i] \in Entries /\ soft[i].weight \in Nat \ {0} /\ soft[i].weight >= m
    <3>1. soft[i] \in Entries
      BY <1>1
    <3>2. soft[i].weight >= m
      BY <2>4 DEF PaidCore
    <3> QED
      BY <3>1, <3>2 DEF Entries
  <2>6. i \in HeavySofts(C, m) <=> soft[i].weight # m
    BY <1>1, <2>4, <2>5 DEF HeavySofts
  <2>7. l \in Assumable
    BY <2>2, <2>4 DEF Assumable
  <2> QED
    BY <1>2, <2>2, <2>3, <2>4, <2>5, <2>6, <2>7
<1>3. CASE ~ IsSoft(l)
  <2>1. l \in DOMAIN bounds
    BY <1>1, <1>3, LiteralsAre DEF Inactive
  <2>2. l \in Outputs /\ l \in CoreOutputs(C) /\ bounds[l] \in Nat \ {0}
    BY <1>1, <1>3, <2>1 DEF CoreOutputs
  <2>3. l = OutLit(l[2], l[3]) /\ l[2] \in Nat /\ l[3] \in Nat
    BY <2>2, LiteralsAre
  <2>4. l[2] \in 1 .. Len(cards)
    BY <2>1 DEF HeavyEncoded
  <2>5. bounds[l] >= m
    BY <2>2 DEF PaidCore
  <2>6. /\ l \in Raised(C, m) <=> bounds[l] = m
        /\ l \in Divided(C, m) <=> bounds[l] # m
    BY <1>1, <1>3, <2>2, <2>5 DEF Raised, Divided
  <2>7. l \in Assumable
    BY <2>2 DEF Assumable
  <2> QED
    BY <1>3, <2>1, <2>2, <2>3, <2>4, <2>5, <2>6, <2>7
<1> QED
  BY <1>2, <1>3

\* What joins for each literal of the core.
LEMMA JoinsIs ==
  ASSUME OllWTyped, HeavyEncoded, NEW C, NEW m, NEW H, NEW P, Paid(C, m, H, P), NEW l \in C
  PROVE  /\ IsSoft(l) /\ soft[l[2]].weight = m => Joins(C, m, H, P)[l] = l
         /\ IsSoft(l) /\ soft[l[2]].weight # m =>
              \E j \in 1 .. Len(H) :
                H[j] = l[2] /\ Joins(C, m, H, P)[l] = SoftLit(Len(soft) + j)
         /\ ~ IsSoft(l) /\ bounds[l] = m => Joins(C, m, H, P)[l] = l
         /\ ~ IsSoft(l) /\ bounds[l] # m =>
              \E j \in 1 .. Len(P) :
                P[j] = l /\ Joins(C, m, H, P)[l] = OutLit(Len(cards) + j, l[3])
<1> DEFINE g == Joins(C, m, H, P)[l]
<1>1. PaidCore(C, m) /\ Lists(H, HeavySofts(C, m)) /\ Lists(P, Divided(C, m))
  BY DEF Paid
<1>2. ASSUME IsSoft(l), soft[l[2]].weight # m
      PROVE  \E j \in 1 .. Len(H) : H[j] = l[2] /\ g = SoftLit(Len(soft) + j)
  <2> DEFINE k == CHOOSE j \in 1 .. Len(H) : H[j] = l[2]
  <2>1. l[2] \in HeavySofts(C, m)
    BY <1>1, <1>2, CoreLiteral
  <2>2. k \in 1 .. Len(H) /\ H[k] = l[2]
    BY <1>1, <2>1 DEF Lists
  <2>3. g = SoftLit(Len(soft) + k)
    BY <1>2 DEF Joins
  <2> QED
    BY <2>2, <2>3
<1>3. ASSUME ~ IsSoft(l), bounds[l] # m
      PROVE  \E j \in 1 .. Len(P) : P[j] = l /\ g = OutLit(Len(cards) + j, l[3])
  <2> DEFINE k == CHOOSE j \in 1 .. Len(P) : P[j] = l
  <2>1. l \in Divided(C, m)
    BY <1>1, <1>3, CoreLiteral
  <2>2. k \in 1 .. Len(P) /\ P[k] = l
    BY <1>1, <2>1 DEF Lists
  <2>3. g = OutLit(Len(cards) + k, l[3])
    BY <1>3 DEF Joins
  <2> QED
    BY <2>2, <2>3
<1>4. ASSUME IsSoft(l), soft[l[2]].weight = m PROVE g = l
  BY <1>4 DEF Joins
<1>5. ASSUME ~ IsSoft(l), bounds[l] = m PROVE g = l
  BY <1>5 DEF Joins
<1> QED
  BY <1>2, <1>3, <1>4, <1>5

\* One literal joins for each literal of the core, and no other.
LEMMA RelaxIs ==
  ASSUME OllWTyped, HeavyEncoded, NEW C, NEW m, NEW H, NEW P, Paid(C, m, H, P)
  PROVE  /\ Relax(C, m, H, P) = {Joins(C, m, H, P)[l] : l \in C}
         /\ \A k, l \in C : Joins(C, m, H, P)[k] = Joins(C, m, H, P)[l] => k = l
         /\ IsFiniteSet(Relax(C, m, H, P))
         /\ Cardinality(Relax(C, m, H, P)) = Cardinality(C)
         /\ Cardinality(C) \in Nat \ {0}
<1> DEFINE g == Joins(C, m, H, P)
           image == {g[l] : l \in C}
<1>1. /\ PaidCore(C, m) /\ Lists(H, HeavySofts(C, m)) /\ Lists(P, Divided(C, m))
      /\ Len(soft) \in Nat /\ Len(cards) \in Nat /\ Len(H) \in Nat /\ Len(P) \in Nat
  BY DEF Paid, OllWTyped, WellFormed, Lists
<1>2. ASSUME NEW l \in C PROVE g[l] \in Relax(C, m, H, P)
  <2>1. CASE IsSoft(l) /\ soft[l[2]].weight = m
    BY <2>1, JoinsIs DEF Relax
  <2>2. CASE IsSoft(l) /\ soft[l[2]].weight # m
    BY <2>2, JoinsIs DEF Relax
  <2>3. CASE ~ IsSoft(l) /\ bounds[l] = m
    BY <2>3, JoinsIs DEF Relax, Raised
  <2>4. CASE ~ IsSoft(l) /\ bounds[l] # m
    <3>1. PICK j \in 1 .. Len(P) : P[j] = l /\ g[l] = OutLit(Len(cards) + j, l[3])
      BY <2>4, JoinsIs
    <3> QED
      BY <3>1 DEF Relax
  <2> QED
    BY <2>1, <2>2, <2>3, <2>4
<1>3. ASSUME NEW x \in Relax(C, m, H, P) PROVE x \in image
  <2>1. CASE x \in {l \in C : IsSoft(l) /\ soft[l[2]].weight = m}
    <3>1. x \in C /\ g[x] = x
      BY <2>1, JoinsIs
    <3> QED
      BY <3>1
  <2>2. CASE x \in {SoftLit(Len(soft) + j) : j \in 1 .. Len(H)}
    <3>1. PICK j \in 1 .. Len(H) : x = SoftLit(Len(soft) + j)
      BY <2>2
    <3> DEFINE l == SoftLit(H[j])
    <3>2. H[j] \in HeavySofts(C, m)
      BY <1>1 DEF Lists
    <3>3. l \in C /\ IsSoft(l) /\ l[2] = H[j]
      BY <3>2, LiteralsAre DEF HeavySofts, Joined
    <3>4. soft[l[2]].weight # m
      BY <1>1, <3>2, <3>3, CoreLiteral
    <3>5. PICK k \in 1 .. Len(H) : H[k] = l[2] /\ g[l] = SoftLit(Len(soft) + k)
      BY <3>3, <3>4, JoinsIs
    <3>6. k = j
      BY <1>1, <3>3, <3>5 DEF Lists
    <3> HIDE DEF l, g
    <3> QED
      BY <3>1, <3>3, <3>5, <3>6
  <2>3. CASE x \in Raised(C, m)
    <3>1. x \in C /\ g[x] = x
      BY <2>3, JoinsIs DEF Raised
    <3> QED
      BY <3>1
  <2>4. CASE x \in {OutLit(Len(cards) + j, P[j][3]) : j \in 1 .. Len(P)}
    <3>1. PICK j \in 1 .. Len(P) : x = OutLit(Len(cards) + j, P[j][3])
      BY <2>4
    <3>2. P[j] \in Divided(C, m)
      BY <1>1 DEF Lists
    <3>3. P[j] \in C /\ ~ IsSoft(P[j])
      BY <3>2 DEF Divided
    <3>4. bounds[P[j]] # m
      BY <1>1, <3>2, <3>3, CoreLiteral
    <3>5. PICK k \in 1 .. Len(P) : P[k] = P[j] /\ g[P[j]] = OutLit(Len(cards) + k, P[j][3])
      BY <3>3, <3>4, JoinsIs
    <3>6. k = j
      BY <1>1, <3>5 DEF Lists
    <3> HIDE DEF g
    <3> QED
      BY <3>1, <3>3, <3>5, <3>6
  <2> QED
    BY <2>1, <2>2, <2>3, <2>4 DEF Relax
<1>4. Relax(C, m, H, P) = image
  BY <1>2, <1>3
<1>5. ASSUME NEW l \in C
      PROVE  \/ IsSoft(l) /\ g[l] = l /\ l[2] \in 1 .. Len(soft)
             \/ /\ IsSoft(l) /\ l = SoftLit(l[2])
                /\ \E j \in 1 .. Len(H) : H[j] = l[2] /\ g[l] = SoftLit(Len(soft) + j)
             \/ ~ IsSoft(l) /\ g[l] = l /\ l[2] \in 1 .. Len(cards)
             \/ /\ ~ IsSoft(l)
                /\ \E j \in 1 .. Len(P) : P[j] = l /\ g[l] = OutLit(Len(cards) + j, l[3])
  <2>1. CASE IsSoft(l) /\ soft[l[2]].weight = m
    BY <1>1, <2>1, JoinsIs, CoreLiteral
  <2>2. CASE IsSoft(l) /\ soft[l[2]].weight # m
    BY <1>1, <2>2, JoinsIs, CoreLiteral
  <2>3. CASE ~ IsSoft(l) /\ bounds[l] = m
    BY <1>1, <2>3, JoinsIs, CoreLiteral
  <2>4. CASE ~ IsSoft(l) /\ bounds[l] # m
    <3>1. PICK j \in 1 .. Len(P) : P[j] = l /\ g[l] = OutLit(Len(cards) + j, l[3])
      BY <2>4, JoinsIs
    <3> QED
      BY <2>4, <3>1
  <2> QED
    BY <2>1, <2>2, <2>3, <2>4
<1> HIDE DEF g
<1>6. ASSUME NEW k \in C, NEW l \in C, g[k] = g[l] PROVE k = l
  <2>1. CASE IsSoft(k) /\ g[k] = k /\ k[2] \in 1 .. Len(soft)
    <3>1. IsSoft(g[l]) /\ g[l][2] \in 1 .. Len(soft)
      BY <1>6, <2>1
    <3>2. ASSUME NEW j \in 1 .. Len(H), g[l] = SoftLit(Len(soft) + j) PROVE FALSE
      BY <1>1, <3>1, <3>2, LiteralsAre
    <3>3. IsSoft(l) /\ g[l] = l
      BY <1>5, <3>1, <3>2, LiteralsAre
    <3> QED
      BY <1>6, <2>1, <3>3
  <2>2. CASE IsSoft(k) /\ k = SoftLit(k[2])
             /\ \E j \in 1 .. Len(H) : H[j] = k[2] /\ g[k] = SoftLit(Len(soft) + j)
    <3>1. PICK i \in 1 .. Len(H) : H[i] = k[2] /\ g[l] = SoftLit(Len(soft) + i)
      BY <1>6, <2>2
    <3>2. IsSoft(g[l]) /\ g[l][2] = Len(soft) + i
      BY <3>1, LiteralsAre
    <3>3. ~ (g[l] = l /\ l[2] \in 1 .. Len(soft))
      BY <1>1, <3>2
    <3>4. IsSoft(l) /\ l = SoftLit(l[2])
          /\ \E j \in 1 .. Len(H) : H[j] = l[2] /\ g[l] = SoftLit(Len(soft) + j)
      BY <1>5, <3>2, <3>3, LiteralsAre
    <3>5. PICK j \in 1 .. Len(H) : H[j] = l[2] /\ g[l] = SoftLit(Len(soft) + j)
      BY <3>4
    <3>6. Len(soft) + i = Len(soft) + j
      BY <3>2, <3>5, LiteralsAre
    <3>7. i = j
      BY <1>1, <3>6
    <3> QED
      BY <2>2, <3>1, <3>4, <3>5, <3>7
  <2>3. CASE ~ IsSoft(k) /\ g[k] = k /\ k[2] \in 1 .. Len(cards)
    <3>1. ~ IsSoft(g[l]) /\ g[l][2] \in 1 .. Len(cards)
      BY <1>6, <2>3
    <3>2. ASSUME NEW j \in 1 .. Len(P), g[l] = OutLit(Len(cards) + j, l[3]) PROVE FALSE
      BY <1>1, <3>1, <3>2, LiteralsAre
    <3>3. ~ IsSoft(l) /\ g[l] = l
      BY <1>5, <3>1, <3>2, LiteralsAre
    <3> QED
      BY <1>6, <2>3, <3>3
  <2>4. CASE ~ IsSoft(k)
             /\ \E j \in 1 .. Len(P) : P[j] = k /\ g[k] = OutLit(Len(cards) + j, k[3])
    <3>1. PICK i \in 1 .. Len(P) : P[i] = k /\ g[l] = OutLit(Len(cards) + i, k[3])
      BY <1>6, <2>4
    <3>2. ~ IsSoft(g[l]) /\ g[l][2] = Len(cards) + i
      BY <3>1, LiteralsAre
    <3>3. ~ (g[l] = l /\ l[2] \in 1 .. Len(cards))
      BY <1>1, <3>2
    <3>4. PICK j \in 1 .. Len(P) : P[j] = l /\ g[l] = OutLit(Len(cards) + j, l[3])
      BY <1>5, <3>2, <3>3, LiteralsAre
    <3>6. Len(cards) + i = Len(cards) + j
      BY <3>2, <3>4, LiteralsAre
    <3>7. i = j
      BY <1>1, <3>6
    <3> QED
      BY <3>1, <3>4, <3>7
  <2> QED
    BY <1>5, <2>1, <2>2, <2>3, <2>4
<1>7. IsFiniteSet(C) /\ Cardinality(C) \in Nat \ {0}
  BY <1>1, FS_CardinalityType, FS_EmptySet DEF PaidCore
<1>8. IsFiniteSet(image) /\ Cardinality(image) = Cardinality(C)
  <2>1. IsFiniteSet({g[x] : x \in C}) /\ Cardinality({g[x] : x \in C}) = Cardinality(C)
    BY <1>6, <1>7, FiniteImage
  <2> QED
    BY <2>1
<1> QED
  BY <1>4, <1>6, <1>7, <1>8 DEF g

\* The totalizers after the core: those of raised bounds encoded further, a duplicate for
\* each divided bound, and one that counts the core, unless it is a single literal.
Duplicate(P, j) == Card(cards[P[j][2]].lits, P[j][3] + 1)

RaisedCounters(C, m, P) ==
  RaiseAll(cards, Raised(C, m)) \o [j \in 1 .. Len(P) |-> Duplicate(P, j)]

CountersOf(C, m, H, P) ==
  IF Cardinality(C) = 1 THEN RaisedCounters(C, m, P)
  ELSE Append(RaisedCounters(C, m, P), Card(Relax(C, m, H, P), 1))

\* What that makes of the totalizers before the core.
CountersAfter(cs, C, m, H, P) ==
  /\ cs \in Seq(Counters)
  /\ Len(cs) = Len(cards) + Len(P) + (IF Cardinality(C) = 1 THEN 0 ELSE 1)
  /\ \A t \in 1 .. Len(cards) :
       /\ cs[t].lits = cards[t].lits
       /\ cs[t].upTo = IF \E l \in Raised(C, m) : l[2] = t THEN cards[t].upTo + 1
                       ELSE cards[t].upTo
  /\ \A j \in 1 .. Len(P) :
       /\ cs[Len(cards) + j].lits = cards[P[j][2]].lits
       /\ cs[Len(cards) + j].upTo = P[j][3] + 1
  /\ Cardinality(C) # 1 =>
       /\ cs[Len(cards) + Len(P) + 1].lits = Relax(C, m, H, P)
       /\ cs[Len(cards) + Len(P) + 1].upTo = 1

\* The heavy bounds of a core, in the order P.
LEMMA DividedIs ==
  ASSUME OllWTyped, HeavyEncoded, NEW C, NEW m, NEW H, NEW P, Paid(C, m, H, P),
         NEW j \in 1 .. Len(P)
  PROVE  /\ P[j] \in Divided(C, m) /\ P[j] \in DOMAIN bounds /\ P[j] \in CoreOutputs(C)
         /\ P[j][2] \in 1 .. Len(cards) /\ P[j][3] \in Nat
         /\ cards[P[j][2]] \in Counters /\ cards[P[j][2]].lits \in SUBSET Assumable
         /\ Duplicate(P, j) \in Counters
         /\ Duplicate(P, j).lits = cards[P[j][2]].lits
         /\ Duplicate(P, j).upTo = P[j][3] + 1
<1>1. PaidCore(C, m) /\ Lists(P, Divided(C, m)) /\ cards \in Seq(Counters)
  BY DEF Paid, OllWTyped
<1>2. P[j] \in Divided(C, m)
  BY <1>1 DEF Lists
<1>3. P[j] \in C /\ ~ IsSoft(P[j])
  BY <1>2 DEF Divided
<1>4. /\ P[j] \in DOMAIN bounds /\ P[j] \in CoreOutputs(C)
      /\ P[j][2] \in 1 .. Len(cards) /\ P[j][3] \in Nat
  BY <1>1, <1>3, CoreLiteral
<1>5. cards[P[j][2]] \in Counters
  BY <1>1, <1>4
<1>6. cards[P[j][2]].lits \in SUBSET Assumable
  BY <1>5 DEF Counters, TotalizersOver
<1>7. Duplicate(P, j) = [lits |-> cards[P[j][2]].lits, upTo |-> P[j][3] + 1]
  BY DEF Duplicate, Card
<1>8. Duplicate(P, j) \in Counters
  BY <1>4, <1>6, <1>7 DEF Counters, TotalizersOver
<1> QED
  BY <1>2, <1>4, <1>5, <1>6, <1>7, <1>8

\* The literals that join are literals.
LEMMA RelaxTyped ==
  ASSUME OllWTyped, HeavyEncoded, NEW C, NEW m, NEW H, NEW P, Paid(C, m, H, P)
  PROVE  /\ Relax(C, m, H, P) \in SUBSET Assumable
         /\ \A l \in Relax(C, m, H, P) : IsSoft(l) => l[2] \in 1 .. Len(soft) + Len(H)
<1>1. /\ PaidCore(C, m) /\ Lists(H, HeavySofts(C, m)) /\ Lists(P, Divided(C, m))
      /\ Len(soft) \in Nat /\ Len(cards) \in Nat /\ Len(H) \in Nat /\ Len(P) \in Nat
  BY DEF Paid, OllWTyped, WellFormed, Lists
<1>2. ASSUME NEW l \in C
      PROVE  /\ Joins(C, m, H, P)[l] \in Assumable
             /\ IsSoft(Joins(C, m, H, P)[l]) =>
                  Joins(C, m, H, P)[l][2] \in 1 .. Len(soft) + Len(H)
  <2> DEFINE x == Joins(C, m, H, P)[l]
  <2>1. CASE IsSoft(l) /\ soft[l[2]].weight = m
    <3>1. x = l /\ l \in Assumable /\ l[2] \in 1 .. Len(soft)
      BY <1>1, <2>1, JoinsIs, CoreLiteral
    <3> QED
      BY <1>1, <3>1
  <2>2. CASE IsSoft(l) /\ soft[l[2]].weight # m
    <3>1. PICK j \in 1 .. Len(H) : x = SoftLit(Len(soft) + j)
      BY <2>2, JoinsIs
    <3>2. Len(soft) + j \in 1 .. Len(soft) + Len(H) /\ Len(soft) + j \in Nat
      BY <1>1
    <3>3. x \in Assumable /\ x[2] = Len(soft) + j
      BY <3>1, <3>2, LiteralsAre DEF Assumable
    <3> QED
      BY <3>2, <3>3
  <2>3. CASE ~ IsSoft(l) /\ bounds[l] = m
    <3>1. x = l /\ l \in Assumable
      BY <1>1, <2>3, JoinsIs, CoreLiteral
    <3> QED
      BY <2>3, <3>1
  <2>4. CASE ~ IsSoft(l) /\ bounds[l] # m
    <3>1. PICK j \in 1 .. Len(P) : P[j] = l /\ x = OutLit(Len(cards) + j, l[3])
      BY <2>4, JoinsIs
    <3>2. Len(cards) + j \in Nat /\ l[3] \in Nat
      BY <1>1, <2>4, CoreLiteral
    <3>3. x \in Assumable /\ ~ IsSoft(x)
      BY <3>1, <3>2, LiteralsAre DEF Assumable, Outputs
    <3> QED
      BY <3>3
  <2> QED
    BY <2>1, <2>2, <2>3, <2>4
<1>3. \A x \in Relax(C, m, H, P) : \E l \in C : x = Joins(C, m, H, P)[l]
  BY RelaxIs
<1> QED
  BY <1>2, <1>3

\* The totalizers are as CountersAfter says.
LEMMA CountersAre ==
  ASSUME OllWTyped, HeavyEncoded, NEW C, NEW m, NEW H, NEW P, Paid(C, m, H, P)
  PROVE  CountersAfter(CountersOf(C, m, H, P), C, m, H, P)
<1> DEFINE n == Len(cards)
           k == Len(P)
           raised == RaiseAll(cards, Raised(C, m))
           copies == [j \in 1 .. k |-> Duplicate(P, j)]
           both == raised \o copies
<1>1. n \in Nat /\ k \in Nat /\ PaidCore(C, m) /\ cards \in Seq(Counters)
  BY DEF Paid, OllWTyped, Lists
<1>2. Raised(C, m) \in SUBSET Outputs
      /\ \A l \in Raised(C, m) : l[2] \in 1 .. n /\ cards[l[2]].upTo = l[3]
  <2>1. ASSUME NEW l \in Raised(C, m)
        PROVE  l \in Outputs /\ l[2] \in 1 .. n /\ cards[l[2]].upTo = l[3]
    <3>1. l \in C /\ ~ IsSoft(l)
      BY DEF Raised
    <3>2. l \in DOMAIN bounds /\ l \in Outputs
      BY <1>1, <3>1, CoreLiteral
    <3> QED
      BY <3>2 DEF HeavyEncoded
  <2> QED
    BY <2>1
<1>3. /\ raised \in Seq(Counters) /\ Len(raised) = n
      /\ \A t \in 1 .. n :
              /\ raised[t].lits = cards[t].lits
              /\ raised[t].upTo =
                   IF \E l \in Raised(C, m) : l[2] = t THEN cards[t].upTo + 1 ELSE cards[t].upTo
  BY <1>1, <1>2, RaiseIs DEF Counters
<1>4. \A j \in 1 .. k : /\ copies[j] \in Counters
                        /\ copies[j].lits = cards[P[j][2]].lits
                        /\ copies[j].upTo = P[j][3] + 1
  BY DividedIs
<1>5. copies \in [1 .. k -> Counters]
  BY <1>4
<1> HIDE DEF raised, copies
<1>6. copies \in Seq(Counters) /\ Len(copies) = k
  BY <1>1, <1>5, Tabulated
<1>7. both \in Seq(Counters) /\ Follows(both, raised, copies)
  BY <1>3, <1>6, Concatenated
<1>8. RaisedCounters(C, m, P) = both
  BY DEF RaisedCounters, raised, copies
<1> HIDE DEF both
<1>9. /\ both \in Seq(Counters) /\ Len(both) = n + k
      /\ \A t \in 1 .. n : both[t] = raised[t]
      /\ \A j \in 1 .. k : both[n + j] = copies[j]
  BY <1>3, <1>6, <1>7 DEF Follows
<1>10. CASE Cardinality(C) = 1
  <2>1. CountersOf(C, m, H, P) = both
    BY <1>8, <1>10 DEF CountersOf
  <2>2. Len(both) = n + k + 0
    BY <1>1, <1>9
  <2> QED
    BY <1>3, <1>4, <1>9, <1>10, <2>1, <2>2 DEF CountersAfter
<1>11. CASE Cardinality(C) # 1
  <2> DEFINE x == [lits |-> Relax(C, m, H, P), upTo |-> 1]
             cs == Append(both, x)
  <2>1. CountersOf(C, m, H, P) = cs /\ x \in Counters
    BY <1>8, <1>11, RelaxTyped DEF CountersOf, Card, Counters, TotalizersOver
  <2>2. /\ cs \in Seq(Counters) /\ Len(cs) = Len(both) + 1
        /\ \A t \in 1 .. Len(both) : cs[t] = both[t]
        /\ cs[Len(both) + 1] = x
    <3> HIDE DEF x
    <3>1. /\ Append(both, x) \in Seq(Counters) /\ Len(Append(both, x)) = Len(both) + 1
          /\ \A t \in 1 .. Len(both) : Append(both, x)[t] = both[t]
      BY <1>9, <2>1, Appended
    <3>2. Append(both, x)[Len(both) + 1] = x
      BY <1>9, <2>1, Appended
    <3> QED
      BY <3>1, <3>2
  <2>3. x.lits = Relax(C, m, H, P) /\ x.upTo = 1
    OBVIOUS
  <2> HIDE DEF x, cs
  <2>4. /\ Len(cs) = n + k + 1 /\ cs[n + k + 1] = x
        /\ \A t \in 1 .. n : cs[t] = raised[t]
        /\ \A j \in 1 .. k : cs[n + j] = copies[j]
    <3>1. \A t \in 1 .. n : t \in 1 .. Len(both)
      BY <1>1, <1>9
    <3>2. \A j \in 1 .. k : n + j \in 1 .. Len(both)
      BY <1>1, <1>9
    <3> QED
      BY <1>9, <2>2, <3>1, <3>2
  <2>5. \A t \in 1 .. n :
          /\ cs[t].lits = cards[t].lits
          /\ cs[t].upTo = IF \E l \in Raised(C, m) : l[2] = t THEN cards[t].upTo + 1
                          ELSE cards[t].upTo
    BY <1>3, <2>4
  <2>6. \A j \in 1 .. k : cs[n + j].lits = cards[P[j][2]].lits /\ cs[n + j].upTo = P[j][3] + 1
    BY <1>4, <2>4
  <2>7. cs \in Seq(Counters) /\ Len(cs) = n + k + (IF Cardinality(C) = 1 THEN 0 ELSE 1)
    BY <1>11, <2>2, <2>4
  <2>8. cs[n + k + 1].lits = Relax(C, m, H, P) /\ cs[n + k + 1].upTo = 1
    BY <2>3, <2>4
  <2> QED
    BY <2>1, <2>5, <2>6, <2>7, <2>8 DEF CountersAfter
<1> QED
  BY <1>10, <1>11

\* They form no cycle, and count existing clauses and copies.
LEMMA CountersFormed ==
  ASSUME OllWTyped, HeavyEncoded, NEW C, NEW m, NEW H, NEW P, Paid(C, m, H, P),
         NEW cs, CountersAfter(cs, C, m, H, P)
  PROVE  /\ WellFormed(cs)
         /\ \A t \in 1 .. Len(cs) : \A l \in cs[t].lits :
              IsSoft(l) => l[2] \in 1 .. Len(soft) + Len(H)
<1> DEFINE n == Len(cards)
           k == Len(P)
           Fine(t) == /\ IsFiniteSet(cs[t].lits)
                      /\ \A l \in cs[t].lits : ~ IsSoft(l) =>
                           l[2] \in 1 .. t - 1 /\ l[3] \in Nat /\ l[3] <= cs[l[2]].upTo
                      /\ \A l \in cs[t].lits : IsSoft(l) => l[2] \in 1 .. Len(soft) + Len(H)
<1>1. /\ n \in Nat /\ k \in Nat /\ WellFormed(cards) /\ cards \in Seq(Counters)
      /\ Len(soft) \in Nat /\ Len(H) \in Nat
      /\ \A t \in 1 .. n : \A l \in cards[t].lits : IsSoft(l) => l[2] \in 1 .. Len(soft)
      /\ Len(cs) = n + k + (IF Cardinality(C) = 1 THEN 0 ELSE 1)
      /\ PaidCore(C, m)
  BY DEF Paid, OllWTyped, Lists, CountersAfter
<1>2. \A t \in 1 .. n : cards[t].upTo \in Nat /\ cs[t].upTo \in Nat /\ cards[t].upTo <= cs[t].upTo
  <2>1. \A t \in 1 .. n : cards[t] \in Counters
    BY <1>1
  <2>2. \A t \in 1 .. n : cards[t].upTo \in Nat
    BY <2>1 DEF Counters, TotalizersOver
  <2> QED
    BY <2>2 DEF CountersAfter
<1>3. ASSUME NEW t \in 1 .. n, NEW l \in cards[t].lits
      PROVE  /\ ~ IsSoft(l) => l[2] \in 1 .. t - 1 /\ l[3] \in Nat /\ l[3] <= cs[l[2]].upTo
             /\ IsSoft(l) => l[2] \in 1 .. Len(soft) + Len(H)
  <2>1. IsSoft(l) => l[2] \in 1 .. Len(soft) + Len(H)
    <3>1. IsSoft(l) => l[2] \in 1 .. Len(soft)
      BY <1>1
    <3> QED
      BY <1>1, <3>1
  <2>2. ASSUME ~ IsSoft(l)
        PROVE  l[2] \in 1 .. t - 1 /\ l[3] \in Nat /\ l[3] <= cs[l[2]].upTo
    <3>1. l[2] \in 1 .. t - 1 /\ l[3] \in Nat /\ l[3] <= cards[l[2]].upTo
      BY <1>1, <2>2 DEF WellFormed
    <3>2. l[2] \in 1 .. n
      BY <1>1, <3>1
    <3> QED
      BY <1>2, <3>1, <3>2, AtMostTrans
  <2> QED
    BY <2>1, <2>2
<1>4. ASSUME NEW t \in 1 .. n PROVE Fine(t)
  <2>1. cs[t].lits = cards[t].lits
    BY DEF CountersAfter
  <2>2. IsFiniteSet(cards[t].lits)
    BY <1>1 DEF WellFormed
  <2> QED
    BY <1>3, <2>1, <2>2
<1>5. ASSUME NEW j \in 1 .. k PROVE Fine(n + j)
  <2> DEFINE t == P[j][2]
  <2>1. cs[n + j].lits = cards[t].lits
    BY DEF CountersAfter
  <2>2. t \in 1 .. n
    BY DividedIs
  <2>3. IsFiniteSet(cards[t].lits)
    BY <1>1, <2>2 DEF WellFormed
  <2>4. 1 .. t - 1 \subseteq 1 .. (n + j) - 1
    <3> HIDE DEF t
    <3> QED
      BY <1>1, <2>2
  <2> HIDE DEF t
  <2> QED
    BY <1>3, <2>1, <2>2, <2>3, <2>4
<1>6. ASSUME Cardinality(C) # 1 PROVE Fine(n + k + 1)
  <2> DEFINE R == Relax(C, m, H, P)
  <2>1. cs[n + k + 1].lits = R
    BY <1>6 DEF CountersAfter
  <2>2. IsFiniteSet(R) /\ \A l \in R : IsSoft(l) => l[2] \in 1 .. Len(soft) + Len(H)
    BY RelaxIs, RelaxTyped
  <2> DEFINE g == Joins(C, m, H, P)
  <2>3. ASSUME NEW l \in C, ~ IsSoft(g[l])
        PROVE  g[l][2] \in 1 .. n + k /\ g[l][3] \in Nat /\ g[l][3] <= cs[g[l][2]].upTo
    <3>1. ~ IsSoft(l)
      BY <2>3, JoinsIs, LiteralsAre
    <3>2. l \in DOMAIN bounds /\ l[2] \in 1 .. n /\ l[3] \in Nat /\ cards[l[2]].upTo = l[3]
      BY <1>1, <3>1, CoreLiteral DEF HeavyEncoded
    <3>3. CASE bounds[l] = m
      <4>1. g[l] = l
        BY <3>1, <3>3, JoinsIs
      <4>2. l[2] \in 1 .. n + k
        BY <1>1, <3>2
      <4>3. l[3] <= cs[l[2]].upTo
        BY <1>2, <3>2
      <4> QED
        BY <3>2, <4>1, <4>2, <4>3
    <3>4. CASE bounds[l] # m
      <4>1. PICK j \in 1 .. k : P[j] = l /\ g[l] = OutLit(n + j, l[3])
        BY <3>1, <3>4, JoinsIs
      <4>2. g[l][2] = n + j /\ g[l][3] = l[3] /\ n + j \in 1 .. n + k
        BY <1>1, <4>1, LiteralsAre
      <4>3. cs[n + j].upTo = l[3] + 1
        BY <4>1 DEF CountersAfter
      <4> HIDE DEF g
      <4> QED
        BY <3>2, <4>2, <4>3
    <3> QED
      BY <3>3, <3>4
  <2>4. \A x \in R : \E l \in C : x = g[l]
    BY RelaxIs
  <2>5. (n + k + 1) - 1 = n + k
    BY <1>1
  <2> HIDE DEF R, g
  <2> QED
    BY <2>1, <2>2, <2>3, <2>4, <2>5
<1> HIDE DEF Fine
<1>7. \A t \in 1 .. Len(cs) : Fine(t)
  <2>1. ASSUME NEW t \in 1 .. Len(cs) PROVE Fine(t)
    <3>1. \/ t \in 1 .. n
          \/ t - n \in 1 .. k /\ t = n + (t - n)
          \/ Cardinality(C) # 1 /\ t = n + k + 1
      BY <1>1
    <3> QED
      BY <1>4, <1>5, <1>6, <3>1
  <2> QED
    BY <2>1
<1>8. Len(cs) \in Nat
  BY <1>1
<1> QED
  BY <1>7, <1>8 DEF Fine, WellFormed

\* The bounds that stay: all but those of weight m in the core.
Staying(C, m) == DOMAIN bounds \ Raised(C, m)

\* The next bound of the totalizer of each bound in the core, or of its duplicate.
Up(C, m, H, P) == [l \in CoreOutputs(C) |-> OutLit(Joins(C, m, H, P)[l][2], l[3] + 1)]

\* Those that exclude something.
Ups(C, m, H, P) == {Up(C, m, H, P)[l] : l \in WithNext(C)}

\* The bound of the totalizer that counts the core.
Newest(cs, C) == IF Cardinality(C) = 1 THEN {} ELSE {OutLit(Len(cs), 1)}

\* The bounds after the core.
BoundsOf(cs, C, m, H, P) ==
  [l \in Staying(C, m) \cup Ups(C, m, H, P) \cup Newest(cs, C) |->
     IF l \in Ups(C, m, H, P) \cup Newest(cs, C) THEN m
     ELSE IF l \in C THEN bounds[l] - m
     ELSE bounds[l]]

\* A bound of the core and what joins for it, which its totalizer or the duplicate counts.
LEMMA JoinsOut ==
  ASSUME OllWTyped, HeavyEncoded, NEW C, NEW m, NEW H, NEW P, Paid(C, m, H, P),
         NEW l \in CoreOutputs(C), NEW cs, CountersAfter(cs, C, m, H, P)
  PROVE  LET t == Joins(C, m, H, P)[l][2]
         IN  /\ l \in C /\ ~ IsSoft(l) /\ l \in DOMAIN bounds /\ l \in Outputs
             /\ l[2] \in 1 .. Len(cards) /\ l[3] \in Nat
             /\ Joins(C, m, H, P)[l] = OutLit(t, l[3])
             /\ t \in 1 .. Len(cards) + Len(P) /\ t \in 1 .. Len(cs) /\ t \in Nat
             /\ cs[t].lits = cards[l[2]].lits
             /\ cs[t].upTo = l[3] + 1
             /\ bounds[l] = m => t = l[2]
             /\ bounds[l] # m => t > Len(cards)
<1> DEFINE t == Joins(C, m, H, P)[l][2]
<1>1. /\ PaidCore(C, m) /\ Lists(P, Divided(C, m)) /\ Len(cards) \in Nat /\ Len(P) \in Nat
      /\ Len(cs) = Len(cards) + Len(P) + (IF Cardinality(C) = 1 THEN 0 ELSE 1)
  BY DEF Paid, Lists, OllWTyped, WellFormed, CountersAfter
<1>2. l \in C /\ ~ IsSoft(l)
  BY DEF CoreOutputs
<1>3. /\ l \in DOMAIN bounds /\ l \in Outputs /\ l[2] \in 1 .. Len(cards) /\ l[3] \in Nat
      /\ l = OutLit(l[2], l[3]) /\ cards[l[2]].upTo = l[3]
  BY <1>1, <1>2, CoreLiteral DEF HeavyEncoded
<1>4. 1 .. Len(cards) + Len(P) \subseteq 1 .. Len(cs)
  BY <1>1
<1>5. CASE bounds[l] = m
  <2>1. Joins(C, m, H, P)[l] = l
    BY <1>2, <1>5, JoinsIs
  <2>2. t = l[2]
    BY <2>1
  <2>3. l \in Raised(C, m)
    BY <1>2, <1>5 DEF Raised
  <2>4. cs[l[2]].lits = cards[l[2]].lits /\ cs[l[2]].upTo = l[3] + 1
    BY <1>3, <2>3 DEF CountersAfter
  <2>5. l[2] \in 1 .. Len(cards) + Len(P) /\ l[2] \in Nat
    BY <1>1, <1>3
  <2> HIDE DEF t
  <2> QED
    BY <1>2, <1>3, <1>4, <1>5, <2>1, <2>2, <2>4, <2>5 DEF t
<1>6. CASE bounds[l] # m
  <2>1. PICK j \in 1 .. Len(P) : P[j] = l /\ Joins(C, m, H, P)[l] = OutLit(Len(cards) + j, l[3])
    BY <1>2, <1>6, JoinsIs
  <2>2. t = Len(cards) + j
    BY <2>1, LiteralsAre
  <2>3. t \in 1 .. Len(cards) + Len(P) /\ t \in Nat /\ t > Len(cards)
    <3> HIDE DEF t
    <3> QED
      BY <1>1, <2>2
  <2>4. cs[t].lits = cards[l[2]].lits /\ cs[t].upTo = l[3] + 1
    <3> HIDE DEF t
    <3> QED
      BY <2>1, <2>2 DEF CountersAfter
  <2>5. Joins(C, m, H, P)[l] = OutLit(t, l[3])
    <3> HIDE DEF t
    <3> QED
      BY <2>1, <2>2
  <2> HIDE DEF t
  <2> QED
    BY <1>2, <1>3, <1>4, <1>6, <2>3, <2>4, <2>5 DEF t
<1> QED
  BY <1>5, <1>6

\* The next bounds are literals of their own.
LEMMA UpIs ==
  ASSUME OllWTyped, HeavyEncoded, NEW C, NEW m, NEW H, NEW P, Paid(C, m, H, P),
         NEW l \in CoreOutputs(C), NEW cs, CountersAfter(cs, C, m, H, P)
  PROVE  LET u == Up(C, m, H, P)[l]
         IN  /\ u \in Outputs /\ ~ IsSoft(u) /\ u[2] = Joins(C, m, H, P)[l][2] /\ u[3] = l[3] + 1
             /\ u[2] \in 1 .. Len(cards) + Len(P) /\ u[2] \in 1 .. Len(cs)
             /\ cs[u[2]].lits = cards[l[2]].lits /\ cs[u[2]].upTo = u[3]
             /\ u \notin DOMAIN bounds
             /\ \A k \in CoreOutputs(C) : Up(C, m, H, P)[k] = u => k = l
<1> DEFINE g == Joins(C, m, H, P)
           v == Up(C, m, H, P)
           u == v[l]
<1>1. \A k \in CoreOutputs(C) :
        /\ k \in C /\ ~ IsSoft(k) /\ k \in DOMAIN bounds /\ k \in Outputs
        /\ k[2] \in 1 .. Len(cards) /\ k[3] \in Nat /\ g[k] = OutLit(g[k][2], k[3])
        /\ g[k][2] \in 1 .. Len(cards) + Len(P) /\ g[k][2] \in 1 .. Len(cs) /\ g[k][2] \in Nat
        /\ cs[g[k][2]].lits = cards[k[2]].lits /\ cs[g[k][2]].upTo = k[3] + 1
        /\ bounds[k] = m => g[k][2] = k[2]
        /\ bounds[k] # m => g[k][2] > Len(cards)
  BY JoinsOut
<1>2. \A k \in CoreOutputs(C) : v[k] = OutLit(g[k][2], k[3] + 1)
  BY DEF Up
<1>a. Len(cards) \in Nat
  BY DEF OllWTyped, WellFormed
<1>b. \A k, j \in C : g[k] = g[j] => k = j
  BY RelaxIs
<1> HIDE DEF g, v
<1>3. \A k \in CoreOutputs(C) : v[k][2] = g[k][2] /\ v[k][3] = k[3] + 1 /\ ~ IsSoft(v[k])
  BY <1>2, LiteralsAre
<1>4. u \in Outputs
  <2>1. g[l][2] \in Nat /\ l[3] + 1 \in Nat
    BY <1>1
  <2> QED
    BY <1>2, <2>1 DEF Outputs
<1>5. u \notin DOMAIN bounds
  <2>1. SUFFICES ASSUME u \in DOMAIN bounds PROVE FALSE
    OBVIOUS
  <2>2. u[2] \in 1 .. Len(cards) /\ cards[u[2]].upTo = u[3]
    BY <2>1 DEF HeavyEncoded
  <2>3. bounds[l] = m
    BY <1>a, <1>1, <1>3, <2>2
  <2>4. u[2] = l[2] /\ cards[l[2]].upTo = l[3]
    BY <1>1, <1>3, <2>3 DEF HeavyEncoded
  <2>5. l[3] = l[3] + 1 /\ l[3] \in Nat
    BY <1>1, <1>3, <2>2, <2>4
  <2> QED
    BY <2>5
<1>6. ASSUME NEW k \in CoreOutputs(C), v[k] = u PROVE k = l
  <2>1. g[k][2] = g[l][2] /\ k[3] + 1 = l[3] + 1
    BY <1>3, <1>6
  <2>2. k[3] = l[3]
    <3>1. k[3] \in Nat /\ l[3] \in Nat
      BY <1>1
    <3> QED
      BY <2>1, <3>1
  <2>3. g[k] = g[l] /\ k \in C /\ l \in C
    BY <1>1, <2>1, <2>2
  <2> QED
    BY <1>b, <2>3
<1>7. /\ u[2] = g[l][2] /\ u[3] = l[3] + 1 /\ ~ IsSoft(u)
      /\ u[2] \in 1 .. Len(cards) + Len(P) /\ u[2] \in 1 .. Len(cs)
      /\ cs[u[2]].lits = cards[l[2]].lits /\ cs[u[2]].upTo = u[3]
  BY <1>1, <1>3
<1>8. \A k \in CoreOutputs(C) : v[k] = u => k = l
  BY <1>6
<1> QED
  BY <1>4, <1>5, <1>7, <1>8 DEF g, v

\* What the search takes for the next bounds.
LEMMA NextBounds ==
  ASSUME OllWTyped, HeavyEncoded, NEW C, NEW m, NEW H, NEW P, Paid(C, m, H, P),
         NEW cs, CountersAfter(cs, C, m, H, P)
  PROVE  UNION {NextBound(cs, l) :
                  l \in Raised(C, m) \cup {OutLit(Len(cards) + j, P[j][3]) : j \in 1 .. Len(P)}}
           = Ups(C, m, H, P)
<1> DEFINE g == Joins(C, m, H, P)
           v == Up(C, m, H, P)
           R == Raised(C, m) \cup {OutLit(Len(cards) + j, P[j][3]) : j \in 1 .. Len(P)}
<1>1. PaidCore(C, m) /\ Lists(P, Divided(C, m))
  BY DEF Paid
<1>2. ASSUME NEW l \in CoreOutputs(C)
      PROVE  /\ NextBound(cs, g[l]) = IF l \in WithNext(C) THEN {v[l]} ELSE {}
             /\ g[l] \in R
  <2>1. /\ g[l] = OutLit(g[l][2], l[3]) /\ cs[g[l][2]].lits = cards[l[2]].lits
        /\ l \in C /\ ~ IsSoft(l)
    BY JoinsOut
  <2>2. v[l] = OutLit(g[l][2], l[3] + 1)
    BY DEF Up
  <2>3. g[l][3] = l[3]
    <3> DEFINE t == g[l][2]
    <3>1. g[l] = OutLit(t, l[3])
      BY <2>1
    <3>2. OutLit(t, l[3])[3] = l[3]
      BY LiteralsAre
    <3> HIDE DEF t, g
    <3> QED
      BY <3>1, <3>2
  <2>4. g[l] \in R
    <3>1. CASE bounds[l] = m
      BY <2>1, <3>1, JoinsIs DEF Raised
    <3>2. CASE bounds[l] # m
      <4>1. PICK j \in 1 .. Len(P) : P[j] = l /\ g[l] = OutLit(Len(cards) + j, l[3])
        BY <2>1, <3>2, JoinsIs
      <4> QED
        BY <4>1
    <3> QED
      BY <3>1, <3>2
  <2> HIDE DEF g, v
  <2> QED
    BY <2>1, <2>2, <2>3, <2>4 DEF NextBound, WithNext
<1>3. ASSUME NEW x \in R PROVE \E l \in CoreOutputs(C) : x = g[l]
  <2>1. CASE x \in Raised(C, m)
    BY <2>1, JoinsIs DEF Raised, CoreOutputs
  <2>2. CASE x \notin Raised(C, m)
    <3>1. PICK j \in 1 .. Len(P) : x = OutLit(Len(cards) + j, P[j][3])
      BY <2>2
    <3>2. P[j] \in CoreOutputs(C) /\ P[j] \in Divided(C, m)
      BY DividedIs
    <3>3. P[j] \in C /\ ~ IsSoft(P[j]) /\ bounds[P[j]] # m
      BY <1>1, <3>2, CoreLiteral DEF CoreOutputs
    <3>4. PICK k \in 1 .. Len(P) : P[k] = P[j] /\ g[P[j]] = OutLit(Len(cards) + k, P[j][3])
      BY <3>3, JoinsIs
    <3>5. k = j
      BY <1>1, <3>4 DEF Lists
    <3> HIDE DEF g
    <3> QED
      BY <3>1, <3>2, <3>4, <3>5
  <2> QED
    BY <2>1, <2>2
<1>4. \A y : y \in (UNION {NextBound(cs, l) : l \in R}) <=> \E x \in R : y \in NextBound(cs, x)
  OBVIOUS
<1>5. Ups(C, m, H, P) = {v[l] : l \in WithNext(C)} /\ \A l \in WithNext(C) : l \in CoreOutputs(C)
  BY DEF Ups, WithNext
<1> HIDE DEF R, g, v
<1>6. \A y : (\E x \in R : y \in NextBound(cs, x)) <=> y \in {v[l] : l \in WithNext(C)}
  <2>1. ASSUME NEW y, NEW x \in R, y \in NextBound(cs, x) PROVE y \in {v[l] : l \in WithNext(C)}
    <3>1. PICK l \in CoreOutputs(C) : x = g[l]
      BY <1>3
    <3>2. l \in WithNext(C) /\ y = v[l]
      BY <1>2, <2>1, <3>1
    <3> QED
      BY <3>2
  <2>2. ASSUME NEW l \in WithNext(C) PROVE g[l] \in R /\ v[l] \in NextBound(cs, g[l])
    BY <1>2, <1>5
  <2> QED
    BY <2>1, <2>2
<1>7. (UNION {NextBound(cs, l) : l \in R}) = {v[l] : l \in WithNext(C)}
  BY <1>4, <1>6
<1> QED
  BY <1>5, <1>7 DEF R

\* The bounds that stay, the next ones and the newest one are apart, and live.
LEMMA PartsLive ==
  ASSUME OllWTyped, HeavyEncoded, NEW C, NEW m, NEW H, NEW P, Paid(C, m, H, P),
         NEW cs, CountersAfter(cs, C, m, H, P)
  PROVE  /\ Staying(C, m) \cap Ups(C, m, H, P) = {}
         /\ Newest(cs, C) \cap (Staying(C, m) \cup Ups(C, m, H, P)) = {}
         /\ IsFiniteSet(Staying(C, m)) /\ IsFiniteSet(Ups(C, m, H, P))
         /\ IsFiniteSet(Newest(cs, C))
         /\ \A l \in Staying(C, m) \cup Ups(C, m, H, P) : l[2] \in 1 .. Len(cards) + Len(P)
         /\ \A l \in Staying(C, m) \cup Ups(C, m, H, P) \cup Newest(cs, C) :
              /\ l \in Outputs /\ l[2] \in 1 .. Len(cs)
              /\ cs[l[2]].upTo = l[3] /\ l[3] < Cardinality(cs[l[2]].lits)
<1> DEFINE n == Len(cards) + Len(P)
           v == Up(C, m, H, P)
           Live(l) == /\ l \in Outputs /\ l[2] \in 1 .. Len(cs)
                      /\ cs[l[2]].upTo = l[3] /\ l[3] < Cardinality(cs[l[2]].lits)
<1>1. /\ PaidCore(C, m) /\ Len(cards) \in Nat /\ Len(P) \in Nat
      /\ DOMAIN bounds \in SUBSET Outputs /\ IsFiniteSet(DOMAIN bounds)
      /\ Len(cs) = Len(cards) + Len(P) + (IF Cardinality(C) = 1 THEN 0 ELSE 1)
  BY DEF Paid, OllWTyped, WellFormed, Lists, CountersAfter
<1>2. ASSUME NEW l \in Staying(C, m)
      PROVE  l[2] \in 1 .. n /\ Live(l) /\ l \in DOMAIN bounds
  <2>1. /\ l \in DOMAIN bounds /\ l \notin Raised(C, m) /\ l \in Outputs
        /\ l[2] \in 1 .. Len(cards) /\ cards[l[2]].upTo = l[3]
        /\ l[3] < Cardinality(cards[l[2]].lits)
    BY <1>1 DEF Staying, HeavyEncoded
  <2>2. ~ \E k \in Raised(C, m) : k[2] = l[2]
    <3>1. ASSUME NEW k \in Raised(C, m), k[2] = l[2] PROVE FALSE
      <4>1. k \in C /\ ~ IsSoft(k)
        BY DEF Raised
      <4>2. k \in DOMAIN bounds /\ k = OutLit(k[2], k[3]) /\ cards[k[2]].upTo = k[3]
        BY <1>1, <4>1, CoreLiteral DEF HeavyEncoded
      <4>3. k[3] = l[3]
        BY <2>1, <3>1, <4>2
      <4>4. l = OutLit(l[2], l[3])
        BY <2>1, LiteralsAre
      <4>5. k = l
        BY <3>1, <4>2, <4>3, <4>4
      <4> QED
        BY <2>1, <4>5
    <3> QED
      BY <3>1
  <2>3. cs[l[2]].lits = cards[l[2]].lits /\ cs[l[2]].upTo = cards[l[2]].upTo
    BY <2>1, <2>2 DEF CountersAfter
  <2>4. l[2] \in 1 .. Len(cs) /\ l[2] \in 1 .. n
    BY <1>1, <2>1
  <2> QED
    BY <2>1, <2>3, <2>4
<1>3. ASSUME NEW l \in WithNext(C)
      PROVE  v[l][2] \in 1 .. n /\ Live(v[l]) /\ v[l] \notin DOMAIN bounds
  <2>1. l \in CoreOutputs(C) /\ l[3] + 1 < Cardinality(cards[l[2]].lits)
    BY DEF WithNext
  <2>2. /\ v[l] \in Outputs /\ v[l][3] = l[3] + 1
        /\ v[l][2] \in 1 .. Len(cards) + Len(P) /\ v[l][2] \in 1 .. Len(cs)
        /\ cs[v[l][2]].lits = cards[l[2]].lits /\ cs[v[l][2]].upTo = v[l][3]
        /\ v[l] \notin DOMAIN bounds
    BY <2>1, UpIs
  <2> QED
    BY <2>1, <2>2
<1>4. ASSUME Cardinality(C) # 1
      PROVE  LET l == OutLit(Len(cs), 1) IN Live(l) /\ l[2] = n + 1
  <2> DEFINE l == OutLit(Len(cs), 1)
  <2>1. Len(cs) = n + 1 /\ n + 1 \in Nat /\ n + 1 \in 1 .. Len(cs)
    BY <1>1, <1>4
  <2>2. l[2] = n + 1 /\ l[3] = 1
    BY <2>1, LiteralsAre
  <2>3. l \in Outputs
    BY <2>1 DEF Outputs
  <2>4. cs[n + 1].lits = Relax(C, m, H, P) /\ cs[n + 1].upTo = 1
    BY <1>4 DEF CountersAfter
  <2>5. 1 < Cardinality(Relax(C, m, H, P))
    <3>1. Cardinality(Relax(C, m, H, P)) \in Nat \ {0} /\ Cardinality(Relax(C, m, H, P)) # 1
      BY <1>4, RelaxIs
    <3> QED
      BY <3>1
  <2> HIDE DEF l, n
  <2> QED
    BY <2>1, <2>2, <2>3, <2>4, <2>5 DEF l
<1>5. IsFiniteSet(Staying(C, m)) /\ IsFiniteSet(WithNext(C))
  <2>1. Staying(C, m) \in SUBSET DOMAIN bounds
    BY DEF Staying
  <2>2. WithNext(C) \in SUBSET C /\ IsFiniteSet(C)
    BY <1>1 DEF WithNext, CoreOutputs, PaidCore
  <2> QED
    BY <1>1, <2>1, <2>2, FS_Subset
<1>6. IsFiniteSet(Ups(C, m, H, P))
  BY <1>5, FiniteImage DEF Ups
<1>7. IsFiniteSet(Newest(cs, C))
  BY FS_EmptySet, FS_Singleton DEF Newest
<1>8. \A l \in Ups(C, m, H, P) : \E k \in WithNext(C) : l = v[k]
  BY DEF Ups
<1>9. \A l \in Newest(cs, C) : Cardinality(C) # 1 /\ l = OutLit(Len(cs), 1)
  BY DEF Newest
<1> HIDE DEF Live, v
<1>10. Staying(C, m) \cap Ups(C, m, H, P) = {}
  BY <1>2, <1>3, <1>8
<1>11. \A l \in Staying(C, m) \cup Ups(C, m, H, P) : l[2] \in 1 .. n
  BY <1>2, <1>3, <1>8
<1>12. Newest(cs, C) \cap (Staying(C, m) \cup Ups(C, m, H, P)) = {}
  <2>1. ASSUME NEW l \in Newest(cs, C), l \in Staying(C, m) \cup Ups(C, m, H, P) PROVE FALSE
    <3>1. l[2] = n + 1 /\ l[2] \in 1 .. n /\ n \in Nat
      BY <1>1, <1>4, <1>9, <1>11, <2>1
    <3> HIDE DEF n
    <3> QED
      BY <3>1
  <2> QED
    BY <2>1
<1>13. \A l \in Staying(C, m) \cup Ups(C, m, H, P) \cup Newest(cs, C) : Live(l)
  BY <1>2, <1>3, <1>4, <1>8, <1>9
<1> QED
  BY <1>5, <1>6, <1>7, <1>10, <1>11, <1>12, <1>13 DEF Live

\* The bounds after a core: what stays keeps the rest of its weight.
BoundsSplit(bs, cs, C, m, H, P) ==
  /\ DOMAIN bs = Staying(C, m) \cup Ups(C, m, H, P) \cup Newest(cs, C)
  /\ IsFiniteSet(DOMAIN bs)
  /\ bs \in [DOMAIN bs -> Nat \ {0}]
  /\ \A l \in Staying(C, m) :
       /\ l \in Divided(C, m) => bs[l] = bounds[l] - m
       /\ l \notin Divided(C, m) => bs[l] = bounds[l]
  /\ \A l \in Ups(C, m, H, P) \cup Newest(cs, C) : bs[l] = m

\* They are so.
LEMMA BoundsLive ==
  ASSUME OllWTyped, HeavyEncoded, NEW C, NEW m, NEW H, NEW P, Paid(C, m, H, P),
         NEW cs, CountersAfter(cs, C, m, H, P)
  PROVE  BoundsSplit(BoundsOf(cs, C, m, H, P), cs, C, m, H, P)
<1> SUFFICES ASSUME NEW bs, bs = BoundsOf(cs, C, m, H, P)
             PROVE  BoundsSplit(bs, cs, C, m, H, P)
  OBVIOUS
<1>1. /\ PaidCore(C, m) /\ m \in Nat \ {0} /\ bounds \in [DOMAIN bounds -> Nat \ {0}]
      /\ DOMAIN bounds \in SUBSET Outputs
  BY DEF Paid, PaidCore, OllWTyped
<1> DEFINE S == Staying(C, m)
           U == Ups(C, m, H, P) \cup Newest(cs, C)
<1>2. S \cap U = {} /\ IsFiniteSet(S) /\ IsFiniteSet(U)
  <2>1. IsFiniteSet(Ups(C, m, H, P)) /\ IsFiniteSet(Newest(cs, C))
        /\ IsFiniteSet(S)
    BY PartsLive
  <2>2. IsFiniteSet(U)
    BY <2>1, FS_Union
  <2>3. S \cap U = {}
    BY PartsLive
  <2> QED
    BY <2>1, <2>2, <2>3
<1>3. DOMAIN bs = S \cup U
  BY DEF BoundsOf
<1>4. IsFiniteSet(S \cup U)
  BY <1>2, FS_Union
<1>5. \A l \in U : bs[l] = m
  BY DEF BoundsOf
<1>6. \A l \in S : bs[l] = IF l \in C THEN bounds[l] - m ELSE bounds[l]
  BY <1>2 DEF BoundsOf
<1>7. ASSUME NEW l \in S
      PROVE  /\ l \in Divided(C, m) => bs[l] = bounds[l] - m
             /\ l \notin Divided(C, m) => bs[l] = bounds[l]
             /\ bs[l] \in Nat \ {0}
  <2>1. l \in DOMAIN bounds /\ l \notin Raised(C, m) /\ bounds[l] \in Nat \ {0}
    BY <1>1 DEF Staying
  <2>2. ~ IsSoft(l)
    BY <1>1, <2>1, LiteralsAre
  <2>3. CASE l \in C
    <3>1. l \in Divided(C, m) /\ bounds[l] >= m /\ bounds[l] # m
      BY <1>1, <2>1, <2>2, <2>3, CoreLiteral
    <3>2. bs[l] = bounds[l] - m
      BY <1>6, <2>3
    <3> QED
      BY <1>1, <2>1, <3>1, <3>2
  <2>4. CASE l \notin C
    <3>1. l \notin Divided(C, m)
      BY <2>4 DEF Divided
    <3>2. bs[l] = bounds[l]
      BY <1>6, <2>4
    <3> QED
      BY <2>1, <3>1, <3>2
  <2> QED
    BY <2>3, <2>4
<1>8. bs = [l \in S \cup U |-> bs[l]]
  BY DEF BoundsOf
<1>9. \A l \in S \cup U : bs[l] \in Nat \ {0}
  BY <1>1, <1>5, <1>7
<1> HIDE DEF S, U
<1>10. bs \in [S \cup U -> Nat \ {0}]
  BY <1>8, <1>9
<1>11. /\ DOMAIN bs = S \cup U
       /\ IsFiniteSet(DOMAIN bs)
       /\ bs \in [DOMAIN bs -> Nat \ {0}]
  BY <1>3, <1>4, <1>10
<1> QED
  BY <1>5, <1>7, <1>11 DEF S, U, BoundsSplit

-----------------------------------------------------------------------------
(***************************************************************************)
(* What that does to the cost of every model: m less is left for each      *)
(* literal of the core that is true, and the new totalizer stands for all  *)
(* but one of them.                                                        *)
(***************************************************************************)

\* The soft clauses and copies that a model falsifies.
FalsifiedBy(sf, F) == {i \in 1 .. Len(sf) : sf[i].clause \in F}

\* The literals of a core that a model makes true.
Truth(C, F) == {l \in C : True(cards, FalsifiedBy(soft, F), l)}

\* A bound of a core is true when its totalizer counts more.
LEMMA TrueBound ==
  ASSUME OllWTyped, HeavyEncoded, NEW S, NEW l \in DOMAIN bounds
  PROVE  /\ l \in Outputs /\ ~ IsSoft(l) /\ l[2] \in 1 .. Len(cards) /\ l[3] \in Nat
         /\ l = OutLit(l[2], l[3]) /\ l[3] < Cardinality(cards[l[2]].lits)
         /\ True(cards, S, l) <=> Counts(cards, S)[l[2]] > l[3]
<1>1. l \in Outputs /\ ~ IsSoft(l) /\ l[3] \in Nat /\ l = OutLit(l[2], l[3])
  BY LiteralsAre DEF OllWTyped
<1>2. l[2] \in 1 .. Len(cards) /\ cards[l[2]].upTo = l[3] /\ l[3] < Cardinality(cards[l[2]].lits)
  BY DEF HeavyEncoded
<1>3. l[3] <= cards[l[2]].upTo
  BY <1>1, <1>2
<1>4. True(cards, S, l) <=> Counts(cards, S)[l[2]] > l[3]
  BY <1>1, <1>3 DEF True
<1> QED
  BY <1>1, <1>2, <1>4

\* What the totalizers count after the core: those there were what they did before, a
\* duplicate what its original does, the new one the true literals of the core.
LEMMA CountsAfter ==
  ASSUME OllWTyped, HeavyEncoded, NEW C, NEW m, NEW H, NEW P, Paid(C, m, H, P),
         NEW cs, CountersAfter(cs, C, m, H, P), NEW sf, SoftsAfter(sf, C, m, H), NEW F
  PROVE  LET S == FalsifiedBy(soft, F)
             R == FalsifiedBy(sf, F)
         IN  /\ \A i \in 1 .. Len(soft) : i \in R <=> i \in S
             /\ \A t \in 1 .. Len(cards) : Counts(cs, R)[t] = Counts(cards, S)[t]
             /\ \A l \in CoreOutputs(C) :
                  Counts(cs, R)[Joins(C, m, H, P)[l][2]] = Counts(cards, S)[l[2]]
             /\ Cardinality(C) # 1 => Counts(cs, R)[Len(cs)] = Cardinality(Truth(C, F))
<1> DEFINE n == Len(cards)
           S == FalsifiedBy(soft, F)
           R == FalsifiedBy(sf, F)
           c == Counts(cards, S)
           d == Counts(cs, R)
           g == Joins(C, m, H, P)
<1>1. /\ PaidCore(C, m) /\ Lists(H, HeavySofts(C, m)) /\ Lists(P, Divided(C, m))
      /\ n \in Nat /\ Len(P) \in Nat /\ Len(soft) \in Nat /\ Len(H) \in Nat
      /\ WellFormed(cards) /\ IsFiniteSet(C)
      /\ Len(cs) = n + Len(P) + (IF Cardinality(C) = 1 THEN 0 ELSE 1)
      /\ \A t \in 1 .. n : \A l \in cards[t].lits : IsSoft(l) => l[2] \in 1 .. Len(soft)
      /\ Len(sf) = Len(soft) + Len(H)
  BY DEF Paid, PaidCore, Lists, OllWTyped, CountersAfter, SoftsAfter
<1>2. WellFormed(cs)
  BY CountersFormed
<1>3. \A i \in 1 .. Len(soft) : i \in R <=> i \in S
  <2>1. ASSUME NEW i \in 1 .. Len(soft) PROVE i \in R <=> i \in S
    <3>1. sf[i].clause = soft[i].clause
      BY DEF SoftsAfter
    <3>2. i \in 1 .. Len(sf)
      BY <1>1
    <3> QED
      BY <3>1, <3>2 DEF FalsifiedBy
  <2> QED
    BY <2>1
<1>4. \A t \in 1 .. n : d[t] = c[t]
  <2>1. \A t \in 1 .. n : cs[t].lits = cards[t].lits
    BY DEF CountersAfter
  <2>2. Len(cards) <= Len(cs)
    BY <1>1
  <2>3. Extends(cs, cards)
    BY <1>1, <1>2, <2>1, <2>2 DEF Extends
  <2> HIDE DEF S, R
  <2>4. \A t \in 1 .. Len(cards) : \A l \in cards[t].lits : IsSoft(l) => (l[2] \in R <=> l[2] \in S)
    BY <1>1, <1>3
  <2>5. \A t \in 1 .. Len(cards) : Counts(cs, R)[t] = Counts(cards, S)[t]
    BY <2>3, <2>4, CountsAgree
  <2> QED
    BY <2>5
<1>5. \A t \in 1 .. Len(cs) : d[t] = Cardinality(TrueOf(d, cs, R, t))
  BY <1>2, CountsAre
<1> HIDE DEF c, d, S, R
<1>6. ASSUME NEW l \in CoreOutputs(C) PROVE d[g[l][2]] = c[l[2]]
  <2>1. /\ l[2] \in 1 .. n /\ g[l][2] \in 1 .. Len(cs) /\ cs[g[l][2]].lits = cards[l[2]].lits
    BY JoinsOut
  <2>2. cs[l[2]].lits = cards[l[2]].lits /\ l[2] \in 1 .. Len(cs)
    BY <1>1, <2>1 DEF CountersAfter
  <2> HIDE DEF g
  <2>3. TrueOf(d, cs, R, g[l][2]) = TrueOf(d, cs, R, l[2])
    BY <2>1, <2>2 DEF TrueOf
  <2> QED
    BY <1>4, <1>5, <2>1, <2>2, <2>3
<1>7. ASSUME NEW l \in C PROVE Holds(d, R, g[l]) <=> True(cards, S, l)
  <2>1. CASE IsSoft(l)
    <3>1. l[2] \in 1 .. Len(soft) /\ l = SoftLit(l[2])
      BY <1>1, <2>1, CoreLiteral
    <3>2. True(cards, S, l) <=> l[2] \in S
      BY <2>1 DEF True
    <3>3. CASE soft[l[2]].weight = m
      <4>1. g[l] = l
        BY <2>1, <3>3, JoinsIs
      <4> QED
        BY <1>3, <2>1, <3>1, <3>2, <4>1 DEF Holds
    <3>4. CASE soft[l[2]].weight # m
      <4>1. PICK j \in 1 .. Len(H) : H[j] = l[2] /\ g[l] = SoftLit(Len(soft) + j)
        BY <2>1, <3>4, JoinsIs
      <4>2. IsSoft(g[l]) /\ g[l][2] = Len(soft) + j
        BY <4>1, LiteralsAre
      <4>3. sf[Len(soft) + j].clause = soft[l[2]].clause
        <5>1. sf[Len(soft) + j] = [clause |-> soft[H[j]].clause, weight |-> m, active |-> TRUE]
          BY DEF SoftsAfter
        <5>2. sf[Len(soft) + j].clause = soft[H[j]].clause
          BY <5>1
        <5> QED
          BY <4>1, <5>2
      <4>4. Len(soft) + j \in 1 .. Len(sf)
        BY <1>1
      <4>5. Len(soft) + j \in R <=> l[2] \in S
        BY <3>1, <4>3, <4>4 DEF R, S, FalsifiedBy
      <4> HIDE DEF g
      <4> QED
        BY <3>2, <4>2, <4>5 DEF Holds
    <3> QED
      BY <3>3, <3>4
  <2>2. CASE ~ IsSoft(l)
    <3>1. l \in CoreOutputs(C) /\ l \in DOMAIN bounds
      BY <1>1, <2>2, CoreLiteral
    <3>2. True(cards, S, l) <=> c[l[2]] > l[3]
      BY <3>1, TrueBound DEF c
    <3>3. d[g[l][2]] = c[l[2]]
      BY <1>6, <3>1
    <3> DEFINE t == g[l][2]
    <3>4. g[l] = OutLit(t, l[3])
      BY <3>1, JoinsOut
    <3>5. ~ IsSoft(g[l]) /\ g[l][3] = l[3]
      <4> HIDE DEF t
      <4>1. ~ IsSoft(OutLit(t, l[3])) /\ OutLit(t, l[3])[3] = l[3]
        BY LiteralsAre
      <4> HIDE DEF g
      <4> QED
        BY <3>4, <4>1
    <3> HIDE DEF g, t
    <3> QED
      BY <3>2, <3>3, <3>5 DEF Holds
  <2> QED
    BY <2>1, <2>2
<1>8. ASSUME Cardinality(C) # 1 PROVE d[Len(cs)] = Cardinality(Truth(C, F))
  <2> DEFINE T == Truth(C, F)
             N == Len(cs)
  <2>1. N = n + Len(P) + 1 /\ N \in 1 .. Len(cs)
    BY <1>1, <1>8
  <2>2. cs[N].lits = {g[l] : l \in C}
    <3>1. cs[N].lits = Relax(C, m, H, P)
      <4>1. cs[n + Len(P) + 1].lits = Relax(C, m, H, P)
        BY <1>8 DEF CountersAfter
      <4> HIDE DEF N, n
      <4> QED
        BY <2>1, <4>1
    <3> QED
      BY <3>1, RelaxIs
  <2>3. T \in SUBSET C /\ \A l \in C : l \in T <=> True(cards, S, l)
    BY DEF Truth, S
  <2>4. IsFiniteSet(T)
    BY <1>1, <2>3, FS_Subset
  <2>5. \A k, l \in C : g[k] = g[l] => k = l
    BY RelaxIs
  <2> HIDE DEF g, T, N
  <2>6. TrueOf(d, cs, R, N) = {g[l] : l \in T}
    <3>1. ASSUME NEW x \in TrueOf(d, cs, R, N) PROVE \E l \in T : x = g[l]
      <4>1. x \in cs[N].lits /\ Holds(d, R, x)
        BY DEF TrueOf
      <4>2. PICK l \in C : x = g[l]
        BY <2>2, <4>1
      <4> QED
        BY <1>7, <2>3, <4>1, <4>2
    <3>2. ASSUME NEW l \in T PROVE g[l] \in TrueOf(d, cs, R, N)
      BY <1>7, <2>2, <2>3 DEF TrueOf
    <3> QED
      BY <3>1, <3>2
  <2>7. Cardinality({g[l] : l \in T}) = Cardinality(T)
    <3>1. \A k, l \in T : g[k] = g[l] => k = l
      BY <2>3, <2>5
    <3> QED
      BY <2>4, <3>1, FiniteImage
  <2>8. d[N] = Cardinality(TrueOf(d, cs, R, N))
    BY <1>5, <2>1 DEF N
  <2>9. d[N] = Cardinality(T)
    BY <2>6, <2>7, <2>8
  <2> QED
    BY <2>9 DEF T, N
<1>9. /\ \A l \in CoreOutputs(C) : d[g[l][2]] = c[l[2]]
      /\ Cardinality(C) # 1 => d[Len(cs)] = Cardinality(Truth(C, F))
  BY <1>6, <1>8
<1> QED
  BY <1>3, <1>4, <1>9 DEF c, d, S, R, g

\* What the soft clauses and copies may still cost.
Pending(sf) == [i \in 1 .. Len(sf) |-> IF sf[i].active THEN 0 ELSE sf[i].weight]

\* What exceeds the bounds, by weight.
Beyond(cs, bs, S) == [l \in DOMAIN bs |-> bs[l] * Excess(cs, S, l)]

\* Products of natural numbers.
LEMMA Products ==
  /\ \A a, b \in Nat : a * b \in Nat
  /\ \A a, b, c \in Nat : a * (b + c) = a * b + a * c
  /\ \A a, b, c \in Nat : b >= c => b - c \in Nat /\ b * a = (b - c) * a + c * a
  /\ \A a \in Nat : a * 0 = 0 /\ 0 * a = 0 /\ a * 1 = a
<1>1. \A a, b \in Nat : a * b \in Nat
  OBVIOUS
<1>2. \A a, b, c \in Nat : a * (b + c) = a * b + a * c
  OBVIOUS
<1>3. ASSUME NEW a \in Nat, NEW b \in Nat, NEW c \in Nat, b >= c
      PROVE  b - c \in Nat /\ b * a = (b - c) * a + c * a
  <2> DEFINE r == b - c
  <2>1. r \in Nat /\ b = r + c
    BY <1>3
  <2> HIDE DEF r
  <2>2. (r + c) * a = r * a + c * a
    BY <2>1
  <2>3. b * a = r * a + c * a
    BY <2>1, <2>2
  <2> QED
    BY <2>1, <2>3 DEF r
<1>4. \A a \in Nat : a * 0 = 0 /\ 0 * a = 0 /\ a * 1 = a
  OBVIOUS
<1> QED
  BY <1>1, <1>2, <1>3, <1>4

\* The soft clauses and copies cost m less for each clause of the core that is falsified:
\* heavy ones keep the rest, copies are active.
LEMMA SoftsPaid ==
  ASSUME OllWTyped, NEW C, NEW m, NEW H, NEW P, Paid(C, m, H, P),
         NEW sf, SoftsAfter(sf, C, m, H), NEW F,
         NEW S, S = FalsifiedBy(soft, F), NEW R, R = FalsifiedBy(sf, F),
         NEW E, E = {i \in S : i \in Joined(C)}
  PROVE  /\ IsFiniteSet(E) /\ Cardinality(E) \in Nat
         /\ Sum(Pending(sf), R) \in Nat /\ Sum(Pending(soft), S) \in Nat
         /\ Sum(Pending(soft), S) = Sum(Pending(sf), R) + m * Cardinality(E)
<1> DEFINE u == Pending(soft)
           w == Pending(sf)
           v == [i \in S |-> IF i \in E THEN m ELSE 0]
<1>1. /\ PaidCore(C, m) /\ m \in Nat \ {0} /\ soft \in Seq(Entries) /\ sf \in Seq(Entries)
      /\ Len(soft) \in Nat /\ Len(H) \in Nat /\ Len(sf) = Len(soft) + Len(H)
  BY DEF Paid, PaidCore, Lists, OllWTyped, SoftsAfter
<1>2. S \in SUBSET (1 .. Len(soft)) /\ R \in SUBSET (1 .. Len(sf)) /\ E \in SUBSET S
  BY DEF FalsifiedBy
<1>3. IsFiniteSet(S) /\ IsFiniteSet(R)
  <2>1. IsFiniteSet(1 .. Len(soft)) /\ IsFiniteSet(1 .. Len(sf))
    <3>1. 1 \in Int /\ Len(soft) \in Int /\ Len(sf) \in Int
      BY <1>1
    <3> QED
      BY <3>1, FS_Interval
  <2> QED
    BY <1>2, <2>1, FS_Subset
<1>4. S \in SUBSET R /\ \A i \in R : i \notin S => i \in 1 .. Len(sf) /\ i \notin 1 .. Len(soft)
  <2>1. ASSUME NEW i \in 1 .. Len(soft) PROVE i \in 1 .. Len(sf) /\ (i \in S <=> i \in R)
    <3>1. sf[i].clause = soft[i].clause
      BY DEF SoftsAfter
    <3>2. i \in 1 .. Len(sf)
      BY <1>1
    <3> QED
      BY <3>1, <3>2 DEF FalsifiedBy
  <2> QED
    BY <1>2, <2>1
<1>5. \A i \in 1 .. Len(sf) : /\ sf[i].weight \in Nat \ {0} /\ sf[i].active \in BOOLEAN
                              /\ w[i] = IF sf[i].active THEN 0 ELSE sf[i].weight
  <2>1. \A i \in 1 .. Len(sf) : sf[i] \in Entries
    BY <1>1
  <2> QED
    BY <2>1 DEF Entries, Pending
<1>6. \A i \in 1 .. Len(soft) : /\ soft[i].weight \in Nat \ {0} /\ soft[i].active \in BOOLEAN
                                /\ u[i] = IF soft[i].active THEN 0 ELSE soft[i].weight
  <2>1. \A i \in 1 .. Len(soft) : soft[i] \in Entries
    BY <1>1
  <2> QED
    BY <2>1 DEF Entries, Pending
<1> HIDE DEF u, w
<1>7. \A i \in R : w[i] \in Nat
  BY <1>2, <1>5
<1>8. \A i \in S : u[i] \in Nat /\ v[i] \in Int
  BY <1>1, <1>2, <1>6
<1>9. ASSUME NEW i \in S PROVE u[i] = w[i] + v[i]
  <2>1. /\ i \in 1 .. Len(soft) /\ i \in 1 .. Len(sf)
        /\ sf[i].weight = IF i \in HeavySofts(C, m) THEN soft[i].weight - m ELSE soft[i].weight
        /\ sf[i].active <=> soft[i].active \/ (i \in Joined(C) /\ i \notin HeavySofts(C, m))
    BY <1>2, <1>4 DEF SoftsAfter
  <2>2. CASE i \in Joined(C)
    <3>1. SoftLit(i) \in C /\ IsSoft(SoftLit(i)) /\ SoftLit(i)[2] = i
      BY <2>2, LiteralsAre DEF Joined
    <3>2. ~ soft[i].active
      <4>1. SoftLit(i) \in Inactive \cup DOMAIN bounds
        BY <1>1, <3>1 DEF PaidCore
      <4>2. SoftLit(i) \notin DOMAIN bounds
        BY <3>1, LiteralsAre DEF OllWTyped
      <4>3. PICK k \in 1 .. Len(soft) : SoftLit(i) = SoftLit(k) /\ ~ soft[k].active
        BY <4>1, <4>2 DEF Inactive
      <4>4. k = i
        BY <4>3, LiteralsAre
      <4> QED
        BY <4>3, <4>4
    <3>3. soft[i].weight >= m /\ (i \in HeavySofts(C, m) <=> soft[i].weight > m)
      BY <1>1, <2>2 DEF PaidCore, HeavySofts
    <3>4. i \in E /\ v[i] = m /\ u[i] = soft[i].weight /\ m \in Nat /\ soft[i].weight \in Nat
      BY <1>1, <1>6, <2>1, <2>2, <3>2
    <3>5. CASE i \in HeavySofts(C, m)
      <4>1. w[i] = soft[i].weight - m
        BY <1>5, <2>1, <3>2, <3>5
      <4> HIDE DEF v
      <4> QED
        BY <3>4, <4>1
    <3>6. CASE i \notin HeavySofts(C, m)
      <4>1. w[i] = 0
        BY <1>5, <2>1, <2>2, <3>6
      <4> HIDE DEF v
      <4> QED
        BY <3>3, <3>4, <3>6, <4>1
    <3> QED
      BY <3>5, <3>6
  <2>3. CASE i \notin Joined(C)
    <3>1. v[i] = 0 /\ i \notin HeavySofts(C, m)
      BY <2>3 DEF HeavySofts
    <3>2. w[i] = u[i] /\ w[i] \in Nat
      BY <1>5, <1>6, <2>1, <2>3, <3>1
    <3> HIDE DEF v
    <3> QED
      BY <3>1, <3>2
  <2> QED
    BY <2>2, <2>3
<1>10. Sum(u, S) = Sum(w, S) + Sum(v, S)
  <2>1. \A i \in S : w[i] \in Int /\ v[i] \in Int /\ u[i] = w[i] + v[i]
    BY <1>4, <1>7, <1>8, <1>9
  <2> HIDE DEF v
  <2> QED
    BY <1>3, <2>1, SumPlus
<1>11. /\ Sum(v, S) = m * Cardinality(E) /\ IsFiniteSet(E) /\ Cardinality(E) \in Nat
  <2>1. \A i \in S : v[i] = IF i \in E THEN m ELSE 0
    OBVIOUS
  <2>2. m \in Int
    BY <1>1
  <2>3. IsFiniteSet(S) /\ E \in SUBSET S
    BY <1>2, <1>3
  <2>4. IsFiniteSet(E) /\ Cardinality(E) \in Nat
    BY <2>3, FS_Subset, FS_CardinalityType
  <2> HIDE DEF v
  <2>5. Sum(v, S) = m * Cardinality(E)
    BY ONLY <2>1, <2>2, <2>3, SumOver
  <2> QED
    BY <2>4, <2>5
<1>12. Sum(w, R) = Sum(w, S)
  <2>1. ASSUME NEW i \in R, i \notin S PROVE w[i] = 0
    <3>1. i \in 1 .. Len(sf) /\ i \notin 1 .. Len(soft)
      BY <1>4, <2>1
    <3> DEFINE j == i - Len(soft)
    <3>2. j \in 1 .. Len(H) /\ i = Len(soft) + j
      BY <1>1, <3>1
    <3> HIDE DEF j
    <3>3. sf[Len(soft) + j] = [clause |-> soft[H[j]].clause, weight |-> m, active |-> TRUE]
      BY <3>2 DEF SoftsAfter
    <3>4. sf[i].active = TRUE
      BY <3>2, <3>3
    <3> QED
      BY <1>5, <3>1, <3>4
  <2>2. \A i \in R : w[i] = IF i \in S THEN w[i] ELSE 0
    BY <2>1
  <2>3. \A i \in S : w[i] \in Int
    BY <1>4, <1>7
  <2> QED
    BY <1>3, <1>4, <2>2, <2>3, SumWithout
<1>13. Sum(w, R) \in Nat /\ Sum(u, S) \in Nat
  BY <1>3, <1>7, <1>8, SumNat
<1> HIDE DEF v
<1> QED
  BY <1>10, <1>11, <1>12, <1>13 DEF u, w

\* Bounds of natural weight on totalizers there are.
Weighty(cs, bs) ==
  /\ WellFormed(cs) /\ IsFiniteSet(DOMAIN bs)
  /\ \A l \in DOMAIN bs : bs[l] \in Nat /\ l \in Outputs /\ l[2] \in 1 .. Len(cs)

\* What exceeds a bound, by weight.
LEMMA BeyondIs ==
  ASSUME NEW cs, NEW bs, Weighty(cs, bs), NEW S
  PROVE  /\ \A l \in DOMAIN bs :
              /\ Beyond(cs, bs, S)[l] = bs[l] * Excess(cs, S, l)
              /\ Beyond(cs, bs, S)[l] \in Nat /\ bs[l] \in Nat /\ Excess(cs, S, l) \in Nat
              /\ Counts(cs, S)[l[2]] \in Nat /\ l[3] \in Nat
         /\ Sum(Beyond(cs, bs, S), DOMAIN bs) \in Nat
<1>1. ASSUME NEW l \in DOMAIN bs
      PROVE  /\ Beyond(cs, bs, S)[l] = bs[l] * Excess(cs, S, l)
             /\ Beyond(cs, bs, S)[l] \in Nat /\ bs[l] \in Nat /\ Excess(cs, S, l) \in Nat
             /\ Counts(cs, S)[l[2]] \in Nat /\ l[3] \in Nat
  <2> DEFINE a == bs[l]
             b == Excess(cs, S, l)
  <2>1. a \in Nat /\ l \in Outputs /\ l[2] \in 1 .. Len(cs) /\ WellFormed(cs)
    BY DEF Weighty
  <2>2. Counts(cs, S)[l[2]] \in Nat /\ l[3] \in Nat
    BY <2>1, CountsAre, LiteralsAre
  <2>3. b \in Nat
    <3> DEFINE c == Counts(cs, S)[l[2]]
               k == l[3]
    <3>1. b = IF c > k THEN c - k ELSE 0
      BY DEF Excess
    <3> HIDE DEF b, c, k
    <3>2. c \in Nat /\ k \in Nat
      BY <2>2 DEF c, k
    <3> QED
      BY <3>1, <3>2
  <2>4. Beyond(cs, bs, S)[l] = a * b
    BY DEF Beyond
  <2> HIDE DEF a, b
  <2>5. a * b \in Nat
    BY <2>1, <2>3, Products
  <2> QED
    BY <2>1, <2>2, <2>3, <2>4, <2>5 DEF a, b
<1>2. Sum(Beyond(cs, bs, S), DOMAIN bs) \in Nat
  <2>1. IsFiniteSet(DOMAIN bs)
    BY DEF Weighty
  <2> QED
    BY <1>1, <2>1, SumNat
<1> QED
  BY <1>1, <1>2

\* The bounds before the core are so,
LEMMA OldWeighty ==
  ASSUME OllWTyped, HeavyEncoded
  PROVE  Weighty(cards, bounds)
<1>1. ASSUME NEW l \in DOMAIN bounds
      PROVE  bounds[l] \in Nat /\ l \in Outputs /\ l[2] \in 1 .. Len(cards)
  BY DEF OllWTyped, HeavyEncoded
<1> QED
  BY <1>1 DEF OllWTyped, Weighty

\* and those after it.
LEMMA NewWeighty ==
  ASSUME OllWTyped, HeavyEncoded, NEW C, NEW m, NEW H, NEW P, Paid(C, m, H, P),
         NEW cs, CountersAfter(cs, C, m, H, P), NEW bs, BoundsSplit(bs, cs, C, m, H, P)
  PROVE  Weighty(cs, bs)
<1>1. /\ DOMAIN bs = Staying(C, m) \cup Ups(C, m, H, P) \cup Newest(cs, C)
      /\ IsFiniteSet(DOMAIN bs)
      /\ bs \in [DOMAIN bs -> Nat \ {0}]
  BY DEF BoundsSplit
<1>2. \A l \in DOMAIN bs : l \in Outputs /\ l[2] \in 1 .. Len(cs)
  BY <1>1, PartsLive
<1>3. WellFormed(cs)
  BY CountersFormed
<1>4. \A l \in DOMAIN bs : bs[l] \in Nat
  BY <1>1
<1> QED
  BY <1>1, <1>2, <1>3, <1>4 DEF Weighty

\* What exceeds the bounds of a core, m times.
CoreWeight(C, m, S) == [l \in CoreOutputs(C) |-> m * Excess(cards, S, l)]

\* The bounds before the core: what stays of them, and m times what exceeds those of the
\* core.
LEMMA StayingPaid ==
  ASSUME OllWTyped, HeavyEncoded, NEW C, NEW m, NEW H, NEW P, Paid(C, m, H, P),
         NEW cs, CountersAfter(cs, C, m, H, P), NEW sf, SoftsAfter(sf, C, m, H),
         NEW bs, BoundsSplit(bs, cs, C, m, H, P), NEW F,
         NEW S, S = FalsifiedBy(soft, F), NEW R, R = FalsifiedBy(sf, F)
  PROVE  /\ Sum(Beyond(cards, bounds, S), DOMAIN bounds) =
              Sum(Beyond(cs, bs, R), Staying(C, m)) + Sum(CoreWeight(C, m, S), CoreOutputs(C))
         /\ \A l \in CoreOutputs(C) : /\ CoreWeight(C, m, S)[l] \in Nat
                                      /\ CoreWeight(C, m, S)[l] = m * Excess(cards, S, l)
<1> DEFINE e == CoreWeight(C, m, S)
<1>0. \A l \in CoreOutputs(C) : e[l] = m * Excess(cards, S, l)
  BY DEF CoreWeight
<1> HIDE DEF e
<1> DEFINE B == DOMAIN bounds
           CO == CoreOutputs(C)
           St == Staying(C, m)
           u == Beyond(cards, bounds, S)
           w == Beyond(cs, bs, R)
           x(l) == Excess(cards, S, l)
           r == [l \in B |-> IF l \in St THEN w[l] ELSE 0]
           a == [l \in B |-> IF l \in CO THEN e[l] ELSE 0]
<1>1. /\ PaidCore(C, m) /\ m \in Nat \ {0} /\ IsFiniteSet(B) /\ Weighty(cards, bounds)
      /\ Weighty(cs, bs)
  BY OldWeighty, NewWeighty DEF Paid, PaidCore, OllWTyped
<1>2. CO \in SUBSET B /\ St \in SUBSET B
  <2>1. \A l \in CO : l \in B
    BY <1>1, CoreLiteral DEF CoreOutputs
  <2> QED
    BY <2>1 DEF Staying
<1>3. \A l \in B : u[l] = bounds[l] * x(l) /\ bounds[l] \in Nat /\ x(l) \in Nat /\ u[l] \in Nat
  BY <1>1, BeyondIs
<1>4. \A l \in CO : e[l] \in Nat /\ e[l] = m * x(l)
  <2>1. ASSUME NEW l \in CO PROVE e[l] \in Nat
    <3> DEFINE y == x(l)
    <3>1. y \in Nat /\ e[l] = m * y /\ m \in Nat
      BY <1>0, <1>1, <1>2, <1>3
    <3> HIDE DEF y
    <3> QED
      BY <3>1, Products
  <2> QED
    BY <1>0, <2>1
<1>5. ASSUME NEW l \in St
      PROVE  /\ w[l] = bs[l] * x(l) /\ w[l] \in Nat
             /\ l \in Divided(C, m) => bs[l] = bounds[l] - m
             /\ l \notin Divided(C, m) => bs[l] = bounds[l]
  <2>1. /\ l \in DOMAIN bs
        /\ l \in Divided(C, m) => bs[l] = bounds[l] - m
        /\ l \notin Divided(C, m) => bs[l] = bounds[l]
    <3>1. /\ DOMAIN bs = Staying(C, m) \cup Ups(C, m, H, P) \cup Newest(cs, C)
          /\ \A k \in Staying(C, m) :
               /\ k \in Divided(C, m) => bs[k] = bounds[k] - m
               /\ k \notin Divided(C, m) => bs[k] = bounds[k]
      BY DEF BoundsSplit
    <3> QED
      BY <3>1
  <2>2. w[l] = bs[l] * Excess(cs, R, l) /\ w[l] \in Nat
    BY <1>1, <2>1, BeyondIs
  <2>3. l[2] \in 1 .. Len(cards)
    BY <1>2 DEF HeavyEncoded
  <2>4. Counts(cs, R)[l[2]] = Counts(cards, S)[l[2]]
    BY <2>3, CountsAfter
  <2>5. Excess(cs, R, l) = x(l)
    BY <2>4 DEF Excess
  <2> QED
    BY <2>1, <2>2, <2>5
<1> HIDE DEF u, w
<1>6. ASSUME NEW l \in B PROVE u[l] = r[l] + a[l] /\ r[l] \in Nat /\ a[l] \in Nat
  <2> DEFINE y == x(l)
             b == bounds[l]
             q == bs[l]
  <2>0. u[l] = b * y /\ b \in Nat /\ y \in Nat /\ m \in Nat /\ u[l] \in Nat
    BY <1>1, <1>3
  <2>c. l \in C <=> l \in CO
    <3>1. ~ IsSoft(l)
      BY LiteralsAre DEF OllWTyped
    <3> QED
      BY <3>1 DEF CoreOutputs
  <2>1. CASE l \in CO /\ l \in St
    <3>1. l \in Divided(C, m) /\ b >= m
      <4>1. l \in C /\ ~ IsSoft(l)
        BY <2>1 DEF CoreOutputs
      <4>2. l \notin Raised(C, m)
        BY <2>1 DEF Staying
      <4> QED
        BY <1>1, <4>1, <4>2, CoreLiteral
    <3>2. w[l] = q * y /\ q = b - m /\ w[l] \in Nat
      BY <1>5, <2>1, <3>1
    <3>3. e[l] = m * y /\ e[l] \in Nat
      BY <1>4, <2>1
    <3>4. r[l] = w[l] /\ a[l] = e[l]
      BY <2>1
    <3> HIDE DEF r, a, y, b, q, x
    <3>5. b * y = (b - m) * y + m * y
      BY <2>0, <3>1, Products
    <3>6. u[l] = w[l] + e[l]
      <4>1. u[l] = b * y
        BY <2>0
      <4>2. (b - m) * y = w[l]
        BY <3>2
      <4>3. m * y = e[l]
        BY <3>3
      <4> QED
        BY <3>5, <4>1, <4>2, <4>3
    <3> QED
      BY <3>2, <3>3, <3>4, <3>6
  <2>2. CASE l \in CO /\ l \notin St
    <3>1. b = m
      <4>1. l \in C /\ l \in Raised(C, m)
        BY <2>2 DEF CoreOutputs, Staying
      <4> QED
        BY <4>1 DEF Raised
    <3>2. e[l] = m * y /\ e[l] \in Nat
      BY <1>4, <2>2
    <3>3. r[l] = 0 /\ a[l] = e[l]
      BY <2>2
    <3> HIDE DEF r, a, y, b, q, x
    <3>4. u[l] = e[l]
      BY <2>0, <3>1, <3>2
    <3> QED
      BY <3>2, <3>3, <3>4
  <2>3. CASE l \notin CO
    <3>1. l \in St /\ l \notin Divided(C, m)
      BY <2>3, <2>c DEF Staying, Raised, Divided
    <3>2. w[l] = q * y /\ q = b /\ w[l] \in Nat
      BY <1>5, <3>1
    <3>3. r[l] = w[l] /\ a[l] = 0
      BY <2>3, <3>1
    <3> HIDE DEF r, a, y, b, q, x
    <3>4. u[l] = w[l]
      BY <2>0, <3>2
    <3> QED
      BY <3>2, <3>3, <3>4
  <2> QED
    BY <2>1, <2>2, <2>3
<1>7. Sum(u, B) = Sum(r, B) + Sum(a, B)
  <2>1. \A l \in B : r[l] \in Int /\ a[l] \in Int /\ u[l] = r[l] + a[l]
    BY <1>6
  <2> HIDE DEF r, a, B
  <2> QED
    BY <1>1, <2>1, SumPlus
<1>8. Sum(r, B) = Sum(w, St)
  <2>1. \A l \in B : r[l] = IF l \in St THEN w[l] ELSE 0
    OBVIOUS
  <2>2. \A l \in St : w[l] \in Int
    BY <1>5
  <2> HIDE DEF r, B, St
  <2> QED
    BY <1>1, <1>2, <2>1, <2>2, SumWithout
<1>9. Sum(a, B) = Sum(e, CO)
  <2>1. \A l \in B : a[l] = IF l \in CO THEN e[l] ELSE 0
    OBVIOUS
  <2>2. \A l \in CO : e[l] \in Int
    BY <1>4
  <2> HIDE DEF a, B, CO
  <2> QED
    BY <1>1, <1>2, <2>1, <2>2, SumWithout
<1> HIDE DEF r, a
<1> QED
  BY <1>4, <1>7, <1>8, <1>9 DEF u, w, e

\* What exceeds a bound of the core before, and the next bound after it: one less for each
\* bound that is exceeded.
LEMMA UpExceeds ==
  ASSUME OllWTyped, HeavyEncoded, NEW C, NEW m, NEW H, NEW P, Paid(C, m, H, P),
         NEW cs, CountersAfter(cs, C, m, H, P), NEW sf, SoftsAfter(sf, C, m, H), NEW F,
         NEW S, S = FalsifiedBy(soft, F), NEW R, R = FalsifiedBy(sf, F),
         NEW l \in CoreOutputs(C), NEW k, k = (IF True(cards, S, l) THEN 1 ELSE 0),
         NEW u, u = Up(C, m, H, P)[l]
  PROVE  /\ Excess(cards, S, l) \in Nat
         /\ Excess(cs, R, u) \in Nat
         /\ Excess(cards, S, l) = Excess(cs, R, u) + k
         /\ l \notin WithNext(C) => Excess(cards, S, l) = k
<1> DEFINE a == Counts(cards, S)[l[2]]
           b == l[3]
           n == Cardinality(cards[l[2]].lits)
<1>1. PaidCore(C, m) /\ l \in C /\ ~ IsSoft(l) /\ WellFormed(cards)
  BY DEF Paid, CoreOutputs, OllWTyped
<1>2. l \in DOMAIN bounds
  BY <1>1, CoreLiteral
<1>3. l[2] \in 1 .. Len(cards) /\ b \in Nat /\ (True(cards, S, l) <=> a > b)
  BY <1>2, TrueBound
<1>4. a \in Nat /\ n \in Nat /\ a <= n
  BY <1>1, <1>3, CountsAre
<1>5. u[2] = Joins(C, m, H, P)[l][2] /\ u[3] = b + 1
  BY UpIs
<1>6. Counts(cs, R)[u[2]] = a
  BY <1>5, CountsAfter
<1>7. Excess(cards, S, l) = IF a > b THEN a - b ELSE 0
  BY DEF Excess
<1>8. Excess(cs, R, u) = IF a > b + 1 THEN a - (b + 1) ELSE 0
  <2> HIDE DEF a, b
  <2> QED
    BY <1>5, <1>6 DEF Excess
<1>9. l \notin WithNext(C) => ~ (b + 1 < n)
  BY DEF WithNext
<1> HIDE DEF a, b, n
<1> QED
  BY <1>3, <1>4, <1>7, <1>8, <1>9

\* The bounds of the core cost m less each, if they are exceeded.
LEMMA UpsPaid ==
  ASSUME OllWTyped, HeavyEncoded, NEW C, NEW m, NEW H, NEW P, Paid(C, m, H, P),
         NEW cs, CountersAfter(cs, C, m, H, P), NEW sf, SoftsAfter(sf, C, m, H),
         NEW bs, BoundsSplit(bs, cs, C, m, H, P), NEW F,
         NEW S, S = FalsifiedBy(soft, F), NEW R, R = FalsifiedBy(sf, F),
         NEW e, \A l \in CoreOutputs(C) : e[l] \in Nat /\ e[l] = m * Excess(cards, S, l),
         NEW E, E = {l \in CoreOutputs(C) : True(cards, S, l)}
  PROVE  /\ IsFiniteSet(E) /\ Cardinality(E) \in Nat
         /\ Sum(e, CoreOutputs(C)) =
              Sum(Beyond(cs, bs, R), Ups(C, m, H, P)) + m * Cardinality(E)
<1> DEFINE CO == CoreOutputs(C)
           room == WithNext(C)
           g == Up(C, m, H, P)
           U == Ups(C, m, H, P)
           w == Beyond(cs, bs, R)
           f == [l \in CO \cup U |-> IF l \in U THEN w[l] ELSE e[l]]
           v == [l \in CO |-> IF l \in E THEN m ELSE 0]
<1>1. /\ PaidCore(C, m) /\ m \in Nat \ {0} /\ IsFiniteSet(C) /\ Weighty(cs, bs)
  BY NewWeighty DEF Paid, PaidCore
<1>2. IsFiniteSet(CO) /\ E \in SUBSET CO /\ room \in SUBSET CO
  <2>1. CO \in SUBSET C
    BY DEF CoreOutputs
  <2> QED
    BY <1>1, <2>1, FS_Subset DEF WithNext
<1>3. CO \cap U = {}
  <2>1. \A l \in CO : l \in DOMAIN bounds
    BY <1>1, CoreLiteral DEF CoreOutputs
  <2>2. \A l \in room : g[l] \notin DOMAIN bounds
    BY <1>2, UpIs
  <2>3. \A x \in U : \E l \in room : x = g[l]
    BY DEF Ups
  <2> HIDE DEF U, g, CO
  <2> QED
    BY <2>1, <2>2, <2>3
<1>4. ASSUME NEW l \in CO
      PROVE  /\ e[l] \in Nat /\ v[l] \in Nat
             /\ l \in room => g[l] \in U /\ w[g[l]] \in Nat /\ e[l] = w[g[l]] + v[l]
             /\ l \notin room => e[l] = v[l]
  <2> DEFINE y == Excess(cards, S, l)
             z == Excess(cs, R, g[l])
             k == IF True(cards, S, l) THEN 1 ELSE 0
  <2>1. y \in Nat /\ z \in Nat /\ y = z + k /\ (l \notin room => y = k)
    BY UpExceeds
  <2>2. v[l] = m * k
    <3>1. v[l] = IF k = 1 THEN m ELSE 0
      OBVIOUS
    <3>2. k \in {0, 1} /\ m \in Nat
      BY <1>1
    <3> HIDE DEF v, k
    <3> QED
      BY <3>1, <3>2
  <2>3. e[l] = m * y /\ e[l] \in Nat
    OBVIOUS
  <2>4. l \in room => g[l] \in U /\ w[g[l]] = m * z /\ w[g[l]] \in Nat
    <3>1. SUFFICES ASSUME l \in room PROVE g[l] \in U /\ w[g[l]] = m * z /\ w[g[l]] \in Nat
      OBVIOUS
    <3>2. g[l] \in U
      BY <3>1 DEF Ups
    <3>3. g[l] \in DOMAIN bs /\ bs[g[l]] = m
      BY <3>2 DEF BoundsSplit
    <3>4. w[g[l]] = bs[g[l]] * Excess(cs, R, g[l]) /\ w[g[l]] \in Nat
      BY <1>1, <3>3, BeyondIs
    <3> HIDE DEF w, g, U
    <3> QED
      BY <3>2, <3>3, <3>4
  <2>5. k \in Nat /\ m \in Nat
    BY <1>1
  <2> HIDE DEF y, z, k, v, w, g, U, CO, room
  <2>6. m * y = m * z + m * k /\ m * k \in Nat
    BY <2>1, <2>5, Products
  <2>7. l \notin room => e[l] = v[l]
    BY <2>1, <2>2, <2>3
  <2>8. l \in room => e[l] = w[g[l]] + v[l]
    <3>1. SUFFICES ASSUME l \in room PROVE e[l] = w[g[l]] + v[l]
      OBVIOUS
    <3>2. w[g[l]] = m * z
      BY <2>4, <3>1
    <3> QED
      BY <2>2, <2>3, <2>6, <3>2
  <2>9. v[l] \in Nat
    BY <2>2, <2>6
  <2> QED
    BY <2>3, <2>4, <2>7, <2>8, <2>9
<1>5. /\ \A l \in CO : f[l] = e[l]
      /\ \A l \in U : f[l] = w[l]
  <2> HIDE DEF CO, U, w
  <2> QED
    BY <1>3
<1>6. Sum(v, CO) = m * Cardinality(E) /\ IsFiniteSet(E) /\ Cardinality(E) \in Nat
  <2>1. \A l \in CO : v[l] = IF l \in E THEN m ELSE 0
    OBVIOUS
  <2>2. m \in Int
    BY <1>1
  <2>3. IsFiniteSet(CO) /\ E \in SUBSET CO
    BY <1>2
  <2>4. IsFiniteSet(E) /\ Cardinality(E) \in Nat
    BY <2>3, FS_Subset, FS_CardinalityType
  <2> HIDE DEF v, CO
  <2>5. Sum(v, CO) = m * Cardinality(E)
    BY ONLY <2>1, <2>2, <2>3, SumOver
  <2> QED
    BY <2>4, <2>5
<1> HIDE DEF v, f, w
<1>7. Sum(f, CO) = Sum(f, U) + Sum(v, CO) /\ IsFiniteSet(U)
  <2>1. U = {g[x] : x \in room}
    BY DEF Ups
  <2>2. (CO \ CO) \cup {g[x] : x \in room} = U
    BY <2>1
  <2>3. \A x, y \in room : g[x] = g[y] => x = y
    <3>1. \A x, y \in CO : g[x] = g[y] => x = y
      BY UpIs
    <3> QED
      BY <1>2, <3>1
  <2> HIDE DEF CO, room, g, U
  <2>4. \A x \in room : g[x] \notin CO /\ f[g[x]] \in Int /\ f[x] = f[g[x]] + v[x]
    <3>1. ASSUME NEW x \in room
          PROVE  g[x] \notin CO /\ f[g[x]] \in Int /\ f[x] = f[g[x]] + v[x]
      <4>1. x \in CO /\ g[x] \in U /\ w[g[x]] \in Nat /\ e[x] = w[g[x]] + v[x]
        BY <1>2, <1>4
      <4> QED
        BY <1>3, <1>5, <4>1
    <3> QED
      BY <3>1
  <2>5. \A x \in CO : f[x] \in Int /\ v[x] \in Int /\ (x \notin room => f[x] = v[x])
    BY <1>4, <1>5
  <2>6. Replaces(f, v, CO, CO, room, g)
    BY <1>2, <2>3, <2>4, <2>5 DEF Replaces
  <2>7. /\ IsFiniteSet((CO \ CO) \cup {g[x] : x \in room})
        /\ Sum(f, CO) = Sum(f, (CO \ CO) \cup {g[x] : x \in room}) + Sum(v, CO)
    BY ONLY <2>6, SumReplaces
  <2> QED
    BY <2>2, <2>7
<1>8. Sum(f, CO) = Sum(e, CO)
  <2>1. \A l \in CO : f[l] \in Int /\ f[l] = e[l]
    BY <1>4, <1>5
  <2> HIDE DEF CO
  <2> QED
    BY <1>2, <2>1, SumEqual
<1>9. Sum(f, U) = Sum(w, U)
  <2>1. \A l \in U : w[l] \in Nat
    <3>1. ASSUME NEW l \in U PROVE w[l] \in Nat
      <4>1. l \in DOMAIN bs
        BY DEF BoundsSplit
      <4> QED
        BY <1>1, <4>1, BeyondIs DEF w
    <3> QED
      BY <3>1
  <2>2. \A l \in U : f[l] \in Int /\ f[l] = w[l]
    BY <1>5, <2>1
  <2> HIDE DEF U
  <2> QED
    BY <1>7, <2>2, SumEqual
<1> HIDE DEF U, CO
<1>10. Sum(e, CO) = Sum(w, U) + m * Cardinality(E)
  BY <1>6, <1>7, <1>8, <1>9
<1> QED
  BY <1>6, <1>10 DEF w, U, CO

\* The bound of the new totalizer costs m for every true literal of the core but one.
LEMMA NewestPays ==
  ASSUME OllWTyped, HeavyEncoded, NEW C, NEW m, NEW H, NEW P, Paid(C, m, H, P),
         NEW cs, CountersAfter(cs, C, m, H, P), NEW sf, SoftsAfter(sf, C, m, H),
         NEW bs, BoundsSplit(bs, cs, C, m, H, P), NEW F, NEW R, R = FalsifiedBy(sf, F),
         NEW k, k = Cardinality(Truth(C, F)), k \in Nat \ {0}, k <= Cardinality(C)
  PROVE  Sum(Beyond(cs, bs, R), Newest(cs, C)) = m * (k - 1)
<1> DEFINE w == Beyond(cs, bs, R)
           l == OutLit(Len(cs), 1)
<1>1. m \in Nat \ {0} /\ Weighty(cs, bs)
  BY NewWeighty DEF Paid, PaidCore
<1>2. CASE Cardinality(C) = 1
  <2>1. Newest(cs, C) = {} /\ k = 1
    BY <1>2 DEF Newest
  <2>2. Sum(w, Newest(cs, C)) = 0
    BY <2>1, SumEmpty
  <2>3. m * (k - 1) = 0
    BY <1>1, <2>1
  <2> QED
    BY <2>2, <2>3
<1>3. CASE Cardinality(C) # 1
  <2>1. Newest(cs, C) = {l}
    BY <1>3 DEF Newest
  <2>2. l \in DOMAIN bs /\ bs[l] = m
    BY <2>1 DEF BoundsSplit
  <2>3. w[l] = bs[l] * Excess(cs, R, l) /\ w[l] \in Nat
    BY <1>1, <2>2, BeyondIs
  <2>4. l[2] = Len(cs) /\ l[3] = 1
    BY LiteralsAre
  <2>5. Counts(cs, R)[Len(cs)] = k
    BY <1>3, CountsAfter
  <2> HIDE DEF w, l
  <2>6. Excess(cs, R, l) = k - 1
    BY <2>4, <2>5 DEF Excess
  <2>7. Sum(w, {l}) = w[l]
    <3>1. Sum(w, {} \cup {l}) = w[l] + Sum(w, {})
      <4>1. IsFiniteSet({}) /\ l \notin {}
        BY FS_EmptySet
      <4>2. \A x \in {} \cup {l} : w[x] \in Int
        BY <2>3
      <4> QED
        BY ONLY <4>1, <4>2, SumAdd
    <3>2. {} \cup {l} = {l}
      OBVIOUS
    <3> QED
      BY <2>3, <3>1, <3>2, SumEmpty
  <2> DEFINE j == k - 1
  <2>8. w[l] = m * j
    BY <2>2, <2>3, <2>6
  <2> HIDE DEF j
  <2> QED
    BY <2>1, <2>7, <2>8 DEF w, j
<1> QED
  BY <1>2, <1>3

\* The true literals of a core are falsified clauses and exceeded bounds.
LEMMA TruthSplits ==
  ASSUME OllWTyped, HeavyEncoded, NEW C, NEW m, PaidCore(C, m), NEW F,
         NEW S, S = FalsifiedBy(soft, F),
         NEW A, A = {i \in S : i \in Joined(C)},
         NEW E, E = {l \in CoreOutputs(C) : True(cards, S, l)},
         \E l \in C : True(cards, S, l)
  PROVE  /\ IsFiniteSet(A) /\ IsFiniteSet(E)
         /\ Cardinality(Truth(C, F)) = Cardinality(A) + Cardinality(E)
         /\ Cardinality(Truth(C, F)) \in Nat \ {0}
         /\ Cardinality(Truth(C, F)) <= Cardinality(C)
<1> DEFINE T == Truth(C, F)
           g == [i \in A |-> SoftLit(i)]
           image == {g[i] : i \in A}
<1>1. /\ IsFiniteSet(C) /\ Len(soft) \in Nat
      /\ \A l : l \in T <=> l \in C /\ True(cards, S, l)
  BY DEF PaidCore, OllWTyped, Truth
<1>2. IsFiniteSet(A) /\ A \in SUBSET (1 .. Len(soft)) /\ A \in SUBSET S /\ Cardinality(A) \in Nat
  <2>1. IsFiniteSet(1 .. Len(soft))
    <3>1. 1 \in Int /\ Len(soft) \in Int
      BY <1>1
    <3> QED
      BY <3>1, FS_Interval
  <2>2. A \in SUBSET (1 .. Len(soft)) /\ A \in SUBSET S
    BY DEF FalsifiedBy
  <2> QED
    BY <2>1, <2>2, FS_Subset, FS_CardinalityType
<1>3. IsFiniteSet(E) /\ Cardinality(E) \in Nat
  <2>1. E \in SUBSET C
    BY DEF CoreOutputs
  <2> QED
    BY <1>1, <2>1, FS_Subset, FS_CardinalityType
<1>4. /\ IsFiniteSet(T) /\ T \in SUBSET C /\ T # {} /\ Cardinality(T) \in Nat
      /\ Cardinality(T) <= Cardinality(C) /\ Cardinality(T) # 0
  <2>1. T \in SUBSET C /\ T # {}
    BY <1>1
  <2> HIDE DEF T
  <2> QED
    BY <1>1, <2>1, FS_Subset, FS_CardinalityType, FS_EmptySet
<1>5. IsFiniteSet(image) /\ Cardinality(image) = Cardinality(A)
  <2>1. \A i, j \in A : g[i] = g[j] => i = j
    BY LiteralsAre
  <2> HIDE DEF g
  <2>2. IsFiniteSet({g[i] : i \in A}) /\ Cardinality({g[i] : i \in A}) = Cardinality(A)
    BY ONLY <1>2, <2>1, FiniteImage
  <2> QED
    BY <2>2
<1>6. T = image \cup E
  <2>1. ASSUME NEW l \in C, IsSoft(l) PROVE True(cards, S, l) <=> l \in image
    <3>1. l = SoftLit(l[2]) /\ l[2] \in Joined(C)
      BY <2>1, CoreLiteral
    <3>2. True(cards, S, l) <=> l[2] \in S
      BY <2>1 DEF True
    <3>3. l[2] \in S => l \in image
      BY <3>1
    <3>4. l \in image => l[2] \in S
      BY LiteralsAre
    <3> QED
      BY <3>2, <3>3, <3>4
  <2>2. \A l \in image : l \in C /\ IsSoft(l)
    BY LiteralsAre DEF Joined
  <2>3. \A l : l \in E <=> l \in C /\ ~ IsSoft(l) /\ True(cards, S, l)
    BY DEF CoreOutputs
  <2> HIDE DEF image, T
  <2> QED
    BY <1>1, <2>1, <2>2, <2>3
<1>7. image \cap E = {}
  BY LiteralsAre DEF CoreOutputs
<1> HIDE DEF image, T
<1>8. Cardinality(image \cup E) = Cardinality(image) + Cardinality(E)
  <2>1. Cardinality(image \cup E) =
          Cardinality(image) + Cardinality(E) - Cardinality(image \cap E)
    BY <1>3, <1>5, FS_Union
  <2>2. Cardinality(image \cap E) = 0
    BY <1>7, EmptyHasNone
  <2> QED
    BY <1>2, <1>3, <1>5, <2>1, <2>2
<1> QED
  BY <1>2, <1>3, <1>4, <1>5, <1>6, <1>8 DEF T

\* A core takes m from what the soft clauses, copies and bounds may still cost.
LEMMA RelaxedWeight ==
  ASSUME OllWTyped, HeavyEncoded, NEW C, NEW m, NEW H, NEW P, Paid(C, m, H, P),
         NEW cs, CountersAfter(cs, C, m, H, P), NEW sf, SoftsAfter(sf, C, m, H),
         NEW bs, BoundsSplit(bs, cs, C, m, H, P), NEW F,
         NEW S, S = FalsifiedBy(soft, F), NEW R, R = FalsifiedBy(sf, F),
         \E l \in C : True(cards, S, l)
  PROVE  /\ Sum(Pending(sf), R) \in Nat
         /\ Sum(Beyond(cs, bs, R), DOMAIN bs) \in Nat
         /\ Sum(Pending(soft), S) + Sum(Beyond(cards, bounds, S), DOMAIN bounds) =
              m + Sum(Pending(sf), R) + Sum(Beyond(cs, bs, R), DOMAIN bs)
<1> DEFINE A == {i \in S : i \in Joined(C)}
           E == {l \in CoreOutputs(C) : True(cards, S, l)}
           e == CoreWeight(C, m, S)
           w == Beyond(cs, bs, R)
           St == Staying(C, m)
           U == Ups(C, m, H, P)
           N == Newest(cs, C)
           a == Cardinality(A)
           b == Cardinality(E)
           k == Cardinality(Truth(C, F))
<1>1. PaidCore(C, m) /\ m \in Nat \ {0} /\ Weighty(cs, bs) /\ Weighty(cards, bounds)
  BY OldWeighty, NewWeighty DEF Paid, PaidCore
<1>2. /\ a \in Nat /\ b \in Nat /\ k = a + b /\ k \in Nat \ {0} /\ k <= Cardinality(C)
  <2>1. /\ IsFiniteSet(A) /\ IsFiniteSet(E) /\ k = a + b
        /\ k \in Nat \ {0} /\ k <= Cardinality(C)
    BY <1>1, TruthSplits
  <2>2. a \in Nat /\ b \in Nat
    <3> HIDE DEF A, E
    <3> QED
      BY <2>1, FS_CardinalityType
  <2> QED
    BY <2>1, <2>2
<1>3. /\ Sum(Pending(sf), R) \in Nat /\ Sum(Pending(soft), S) \in Nat
      /\ Sum(Pending(soft), S) = Sum(Pending(sf), R) + m * a
  BY SoftsPaid
<1>4. /\ Sum(Beyond(cards, bounds, S), DOMAIN bounds) = Sum(w, St) + Sum(e, CoreOutputs(C))
      /\ \A l \in CoreOutputs(C) : e[l] \in Nat /\ e[l] = m * Excess(cards, S, l)
  BY StayingPaid
<1>5. Sum(e, CoreOutputs(C)) = Sum(w, U) + m * b
  <2> HIDE DEF e
  <2> QED
    BY <1>4, UpsPaid
<1>6. Sum(w, N) = m * (k - 1)
  BY <1>2, NewestPays
<1>7. DOMAIN bs = St \cup U \cup N /\ IsFiniteSet(DOMAIN bs)
  BY DEF BoundsSplit
<1>8. St \cap U = {} /\ N \cap (St \cup U) = {}
  BY PartsLive
<1>9. \A l \in DOMAIN bs : w[l] \in Nat
  BY <1>1, BeyondIs
<1> HIDE DEF w, St, U, N, e
<1>10. /\ Sum(w, DOMAIN bs) = Sum(w, St) + Sum(w, U) + Sum(w, N)
       /\ Sum(w, St) \in Nat /\ Sum(w, U) \in Nat /\ Sum(w, N) \in Nat
       /\ Sum(w, DOMAIN bs) \in Nat
  <2> DEFINE D == DOMAIN bs
  <2>1. /\ St \in SUBSET D /\ U \in SUBSET D /\ N \in SUBSET D /\ St \cup U \in SUBSET D
        /\ \A l \in D : w[l] \in Int
    BY <1>7, <1>9
  <2>2. Sum(w, St \cup U) = Sum(w, St) + Sum(w, U)
    BY <1>7, <1>8, <2>1, SumDisjoint
  <2>3. Sum(w, (St \cup U) \cup N) = Sum(w, St \cup U) + Sum(w, N)
    <3>1. (St \cup U) \cap N = {}
      BY <1>8
    <3> QED
      BY <1>7, <2>1, <3>1, SumDisjoint
  <2>4. Sum(w, St) \in Nat /\ Sum(w, U) \in Nat /\ Sum(w, N) \in Nat /\ Sum(w, D) \in Nat
    <3>1. \A B \in SUBSET D : Sum(w, B) \in Nat
      <4>1. ASSUME NEW B \in SUBSET D PROVE Sum(w, B) \in Nat
        <5>1. IsFiniteSet(B) /\ \A l \in B : w[l] \in Nat
          BY <1>7, <1>9, FS_Subset
        <5> QED
          BY <5>1, SumNat
      <4> QED
        BY <4>1
    <3> QED
      BY <2>1, <3>1
  <2> HIDE DEF D
  <2>5. D = (St \cup U) \cup N
    BY <1>7 DEF D
  <2>6. Sum(w, D) = Sum(w, St) + Sum(w, U) + Sum(w, N)
    BY <2>2, <2>3, <2>4, <2>5
  <2> QED
    BY <2>4, <2>6 DEF D
<1> DEFINE j == k - 1
           p == Sum(Pending(sf), R)
           q == Sum(w, St)
           r == Sum(w, U)
<1>11. /\ j \in Nat /\ a + b = 1 + j /\ m \in Nat /\ a \in Nat /\ b \in Nat
       /\ p \in Nat /\ q \in Nat /\ r \in Nat
  <2>1. m \in Nat /\ a \in Nat /\ b \in Nat /\ p \in Nat /\ q \in Nat /\ r \in Nat
    BY <1>1, <1>2, <1>3, <1>10
  <2>2. j \in Nat /\ a + b = 1 + j
    <3> HIDE DEF k, a, b
    <3> QED
      BY <1>2
  <2> QED
    BY <2>1, <2>2
<1>12. /\ Sum(Pending(soft), S) = p + m * a
       /\ Sum(Beyond(cards, bounds, S), DOMAIN bounds) = q + (r + m * b)
       /\ Sum(w, DOMAIN bs) = q + r + m * j
  <2> HIDE DEF a, b, k, A, E
  <2>1. Sum(Pending(soft), S) = p + m * a
    BY <1>3
  <2>2. Sum(Beyond(cards, bounds, S), DOMAIN bounds) = q + (r + m * b)
    BY <1>4, <1>5
  <2>3. Sum(w, DOMAIN bs) = q + r + m * j
    BY <1>6, <1>10
  <2> QED
    BY <2>1, <2>2, <2>3
<1> HIDE DEF j, p, q, r, a, b, k, A, E
<1>13. m * a + m * b = m + m * j /\ m * a \in Nat /\ m * b \in Nat /\ m * j \in Nat
  <2>1. m * (a + b) = m * a + m * b
    BY <1>11, Products
  <2>2. m * (1 + j) = m * 1 + m * j /\ m * 1 = m
    BY <1>11, Products
  <2>3. m * a \in Nat /\ m * b \in Nat /\ m * j \in Nat
    BY <1>11, Products
  <2> QED
    BY <1>11, <2>1, <2>2, <2>3
<1>14. Sum(Pending(soft), S) + Sum(Beyond(cards, bounds, S), DOMAIN bounds) =
         m + p + Sum(w, DOMAIN bs)
  <2> DEFINE x == m * a
             y == m * b
             z == m * j
  <2>1. x + y = m + z /\ x \in Nat /\ y \in Nat /\ z \in Nat
    BY <1>13
  <2>2. /\ Sum(Pending(soft), S) = p + x
        /\ Sum(Beyond(cards, bounds, S), DOMAIN bounds) = q + (r + y)
        /\ Sum(w, DOMAIN bs) = q + r + z
    BY <1>12
  <2> HIDE DEF x, y, z
  <2> QED
    BY <1>11, <2>1, <2>2
<1> QED
  BY <1>3, <1>10, <1>14 DEF p, w

\* The weights of the soft clauses and copies, and the copies of a clause.
WeightsOf(sf) == [i \in 1 .. Len(sf) |-> sf[i].weight]
CopiesOf(sf, c) == {i \in 1 .. Len(sf) : sf[i].clause = c}

\* A core leaves the weight that a clause and its copies share.
LEMMA CopiesPaid ==
  ASSUME OllWTyped, NEW C, NEW m, NEW H, NEW P, Paid(C, m, H, P),
         NEW sf, SoftsAfter(sf, C, m, H), NEW c
  PROVE  Sum(WeightsOf(sf), CopiesOf(sf, c)) = Sum(WeightsOf(soft), CopiesOf(soft, c))
<1> DEFINE n == Len(soft)
           u == WeightsOf(soft)
           w == WeightsOf(sf)
           S == CopiesOf(soft, c)
           R == CopiesOf(sf, c)
           E == {i \in S : i \in HeavySofts(C, m)}
           v == [i \in S |-> IF i \in E THEN m ELSE 0]
           J == {j \in 1 .. Len(H) : soft[H[j]].clause = c}
           f == [j \in J |-> n + j]
           D == {f[j] : j \in J}
           h == [j \in J |-> H[j]]
<1>1. /\ PaidCore(C, m) /\ m \in Nat \ {0} /\ soft \in Seq(Entries) /\ sf \in Seq(Entries)
      /\ n \in Nat /\ Len(H) \in Nat /\ Len(sf) = n + Len(H) /\ Lists(H, HeavySofts(C, m))
  BY DEF Paid, PaidCore, Lists, OllWTyped, SoftsAfter
<1>2. /\ \A i \in 1 .. n : soft[i].weight \in Nat \ {0} /\ u[i] = soft[i].weight
      /\ \A i \in 1 .. Len(sf) : sf[i].weight \in Nat \ {0} /\ w[i] = sf[i].weight
  <2>1. (\A i \in 1 .. n : soft[i] \in Entries) /\ (\A i \in 1 .. Len(sf) : sf[i] \in Entries)
    BY <1>1
  <2> QED
    BY <2>1 DEF Entries, WeightsOf
<1>3. \A j \in 1 .. Len(H) : n + j \in 1 .. Len(sf) /\ w[n + j] = m
                             /\ sf[n + j].clause = soft[H[j]].clause
  <2>1. ASSUME NEW j \in 1 .. Len(H)
        PROVE  n + j \in 1 .. Len(sf) /\ w[n + j] = m /\ sf[n + j].clause = soft[H[j]].clause
    <3>1. sf[n + j] = [clause |-> soft[H[j]].clause, weight |-> m, active |-> TRUE]
      BY DEF SoftsAfter
    <3>2. n + j \in 1 .. Len(sf)
      BY <1>1
    <3>3. sf[n + j].weight = m /\ sf[n + j].clause = soft[H[j]].clause
      BY <3>1
    <3> HIDE DEF w
    <3> QED
      BY <1>2, <3>2, <3>3
  <2> QED
    BY <2>1
<1>4. \A i \in 1 .. n : /\ i \in 1 .. Len(sf) /\ sf[i].clause = soft[i].clause
                        /\ w[i] = IF i \in HeavySofts(C, m) THEN u[i] - m ELSE u[i]
                        /\ i \in HeavySofts(C, m) => u[i] >= m
  <2>1. ASSUME NEW i \in 1 .. n
        PROVE  /\ i \in 1 .. Len(sf) /\ sf[i].clause = soft[i].clause
               /\ w[i] = IF i \in HeavySofts(C, m) THEN u[i] - m ELSE u[i]
               /\ i \in HeavySofts(C, m) => u[i] >= m
    <3>1. i \in 1 .. Len(sf)
      BY <1>1
    <3>2. /\ sf[i].clause = soft[i].clause
          /\ sf[i].weight = IF i \in HeavySofts(C, m) THEN soft[i].weight - m ELSE soft[i].weight
      BY DEF SoftsAfter
    <3>3. i \in HeavySofts(C, m) => soft[i].weight > m
      BY DEF HeavySofts
    <3>4. soft[i].weight \in Nat /\ m \in Nat
      BY <1>1, <1>2
    <3> HIDE DEF u, w, n
    <3> QED
      BY <1>2, <3>1, <3>2, <3>3, <3>4
  <2> QED
    BY <2>1
<1>5. IsFiniteSet(1 .. Len(sf)) /\ IsFiniteSet(1 .. n) /\ IsFiniteSet(1 .. Len(H))
  <2>1. 1 \in Int /\ n \in Int /\ Len(sf) \in Int /\ Len(H) \in Int
    BY <1>1
  <2> QED
    BY <2>1, FS_Interval
<1>6. /\ S \in SUBSET (1 .. n) /\ IsFiniteSet(S) /\ E \in SUBSET S /\ IsFiniteSet(E)
      /\ J \in SUBSET (1 .. Len(H)) /\ IsFiniteSet(J)
  <2>1. S \in SUBSET (1 .. n) /\ E \in SUBSET S /\ J \in SUBSET (1 .. Len(H))
    BY DEF CopiesOf
  <2> QED
    BY <1>5, <2>1, FS_Subset
<1> HIDE DEF u, w, n
<1>7. ASSUME NEW i \in S PROVE u[i] = w[i] + v[i] /\ w[i] \in Int /\ v[i] \in Int /\ w[i] \in Nat
  <2>1. /\ w[i] = IF i \in HeavySofts(C, m) THEN u[i] - m ELSE u[i]
        /\ u[i] \in Nat /\ w[i] \in Nat /\ m \in Nat
    BY <1>1, <1>2, <1>4, <1>6
  <2>2. v[i] = IF i \in HeavySofts(C, m) THEN m ELSE 0
    OBVIOUS
  <2> HIDE DEF v, S
  <2> QED
    BY <2>1, <2>2
<1>8. Sum(u, S) = Sum(w, S) + Sum(v, S)
  <2>1. \A i \in S : w[i] \in Int /\ v[i] \in Int /\ u[i] = w[i] + v[i]
    BY <1>7
  <2>2. IsFiniteSet(S)
    BY <1>6
  <2> HIDE DEF v, S
  <2> QED
    BY ONLY <2>1, <2>2, SumPlus
<1>9. Sum(v, S) = m * Cardinality(E)
  <2>1. \A i \in S : v[i] = IF i \in E THEN m ELSE 0
    OBVIOUS
  <2>2. m \in Int
    BY <1>1
  <2>3. IsFiniteSet(S) /\ E \in SUBSET S
    BY <1>6
  <2> HIDE DEF v, S, E
  <2> QED
    BY ONLY <2>1, <2>2, <2>3, SumOver
<1>10. /\ IsFiniteSet(D) /\ Cardinality(D) = Cardinality(J)
  <2>1. \A i, j \in J : f[i] = f[j] => i = j
    BY <1>1
  <2> HIDE DEF f, J
  <2>2. IsFiniteSet({f[j] : j \in J}) /\ Cardinality({f[j] : j \in J}) = Cardinality(J)
    BY ONLY <1>6, <2>1, FiniteImage
  <2> QED
    BY <2>2
<1>11. Cardinality(J) = Cardinality(E)
  <2>1. \A i, j \in J : h[i] = h[j] => i = j
    BY <1>1 DEF Lists
  <2>2. {h[j] : j \in J} = E
    <3>1. ASSUME NEW j \in J PROVE h[j] \in E
      <4>1. H[j] \in HeavySofts(C, m)
        BY <1>1 DEF Lists
      <4>2. H[j] \in 1 .. n
        BY <4>1 DEF HeavySofts, Joined, n
      <4> QED
        BY <4>1, <4>2 DEF CopiesOf, n
    <3>2. ASSUME NEW i \in E PROVE \E j \in J : i = h[j]
      <4>1. PICK j \in 1 .. Len(H) : H[j] = i
        BY <1>1 DEF Lists
      <4>2. soft[i].clause = c
        BY DEF CopiesOf
      <4> QED
        BY <4>1, <4>2
    <3> HIDE DEF h, E, J
    <3> QED
      BY <3>1, <3>2
  <2> HIDE DEF h, J, E
  <2>3. Cardinality({h[j] : j \in J}) = Cardinality(J)
    BY ONLY <1>6, <2>1, FiniteImage
  <2> QED
    BY <2>2, <2>3
<1>12. R = S \cup D /\ S \cap D = {} /\ D \in SUBSET (1 .. Len(sf))
  <2>1. ASSUME NEW x \in R PROVE x \in S \cup D
    <3>1. x \in 1 .. Len(sf) /\ sf[x].clause = c
      BY DEF CopiesOf
    <3>2. CASE x \in 1 .. n
      <4>1. soft[x].clause = c
        BY <1>4, <3>1, <3>2
      <4> QED
        BY <3>2, <4>1 DEF CopiesOf, n
    <3>3. CASE x \notin 1 .. n
      <4> DEFINE j == x - n
      <4>1. j \in 1 .. Len(H) /\ x = n + j
        BY <1>1, <3>1, <3>3
      <4> HIDE DEF j
      <4>2. soft[H[j]].clause = c
        BY <1>3, <3>1, <4>1
      <4> QED
        BY <4>1, <4>2
    <3> QED
      BY <3>2, <3>3
  <2>2. ASSUME NEW x \in S PROVE x \in R /\ x \in 1 .. n
    <3>1. x \in 1 .. n /\ soft[x].clause = c
      BY <1>6 DEF CopiesOf
    <3> QED
      BY <1>4, <3>1 DEF CopiesOf
  <2>3. ASSUME NEW j \in J PROVE f[j] \in R /\ f[j] \notin 1 .. n /\ f[j] \in 1 .. Len(sf)
    <3>1. f[j] = n + j /\ j \in 1 .. Len(H) /\ soft[H[j]].clause = c
      OBVIOUS
    <3>2. n + j \in 1 .. Len(sf) /\ sf[n + j].clause = c
      BY <1>3, <3>1
    <3>3. n + j \notin 1 .. n
      BY <1>1, <3>1
    <3> HIDE DEF f, J
    <3> QED
      BY <3>1, <3>2, <3>3 DEF CopiesOf
  <2> HIDE DEF f, J, S, R
  <2> QED
    BY <2>1, <2>2, <2>3
<1>13. Sum(w, D) = m * Cardinality(D)
  <2>1. \A x \in D : w[x] = m
    BY <1>3
  <2>2. m \in Int
    BY <1>1
  <2> HIDE DEF D
  <2> QED
    BY ONLY <1>10, <2>1, <2>2, SumConstant
<1>14. Sum(w, R) = Sum(w, S) + Sum(w, D)
  <2>1. IsFiniteSet(S \cup D) /\ S \in SUBSET (S \cup D) /\ D \in SUBSET (S \cup D)
    <3> HIDE DEF S, D
    <3> QED
      BY <1>6, <1>10, FS_Union
  <2>2. \A x \in S \cup D : w[x] \in Int
    <3>1. S \cup D \in SUBSET (1 .. Len(sf))
      <4>1. \A i \in S : i \in 1 .. Len(sf)
        BY <1>4, <1>6
      <4> HIDE DEF S, D
      <4> QED
        BY <1>12, <4>1
    <3> HIDE DEF S, D
    <3> QED
      BY <1>2, <3>1
  <2> HIDE DEF S, D, R
  <2> QED
    BY <1>12, <2>1, <2>2, SumDisjoint
<1> HIDE DEF S, D, R, E, J, v
<1>15. Sum(w, R) = Sum(u, S)
  BY <1>8, <1>9, <1>10, <1>11, <1>13, <1>14
<1> QED
  BY <1>15 DEF u, w, S, R

-----------------------------------------------------------------------------
(***************************************************************************)
(* The invariant of weighted OLL.                                          *)
(***************************************************************************)

\* The heavy bounds of a core, in the order the search takes them.
LEMMA SplitIs ==
  ASSUME OllWTyped, HeavyEncoded, NEW C, NEW m, PaidCore(C, m)
  PROVE  Paid(C, m, OllW!Heavy(C, m), OllW!Split(C, m))
<1>1. OllW!Split(C, m) = OllW!SetToSeq(Divided(C, m))
  <2>1. {l \in C : ~ OllW!IsSoft(l) /\ OllW!WeightOf(l) > m} = Divided(C, m)
    BY OllWReads DEF OllW!WeightOf, Divided
  <2> QED
    BY <2>1 DEF OllW!Split
<1>2. IsFiniteSet(Divided(C, m))
  <2>1. Divided(C, m) \in SUBSET C /\ IsFiniteSet(C)
    BY DEF Divided, PaidCore
  <2> QED
    BY <2>1, FS_Subset
<1>3. Lists(OllW!Split(C, m), Divided(C, m))
  BY <1>1, <1>2, Listed
<1> QED
  BY <1>3, SplitSofts DEF Paid

\* What the search joins, raises and duplicates.
LEMMA ModelIs ==
  ASSUME OllWTyped, HeavyEncoded, NEW C, NEW m, PaidCore(C, m),
         NEW H, H = OllW!Heavy(C, m), NEW P, P = OllW!Split(C, m)
  PROVE  /\ OllW!Equal(C, m) = Raised(C, m)
         /\ OllW!SoftRelax(C, m) \cup OllW!CardinalityRelax(C, m) = Relax(C, m, H, P)
         /\ OllW!CardinalityRelax(C, m) =
              Raised(C, m) \cup {OutLit(Len(cards) + j, P[j][3]) : j \in 1 .. Len(P)}
         /\ OllW!RelaxCards(C, m) = RaisedCounters(C, m, P)
<1>1. Paid(C, m, H, P)
  BY SplitIs
<1>2. DOMAIN H = 1 .. Len(H) /\ DOMAIN P = 1 .. Len(P)
  BY <1>1 DEF Paid, Lists
<1>3. OllW!Equal(C, m) = Raised(C, m)
  BY OllWReads DEF OllW!WeightOf, OllW!Equal, Raised
<1>4. OllW!CardinalityRelax(C, m) =
        Raised(C, m) \cup {OutLit(Len(cards) + j, P[j][3]) : j \in 1 .. Len(P)}
  BY <1>2, <1>3, OllWReads DEF OllW!CardinalityRelax, OllW!Duplicates
<1>5. OllW!SoftRelax(C, m) =
        {l \in C : IsSoft(l) /\ soft[l[2]].weight = m}
          \cup {SoftLit(Len(soft) + j) : j \in 1 .. Len(H)}
  <2>1. {l \in C : OllW!IsSoft(l) /\ OllW!WeightOf(l) = m} = {l \in C : IsSoft(l) /\ soft[l[2]].weight = m}
    BY OllWReads DEF OllW!WeightOf
  <2>2. {OllW!SoftLit(Len(soft) + j) : j \in DOMAIN OllW!Heavy(C, m)}
          = {SoftLit(Len(soft) + j) : j \in 1 .. Len(H)}
    BY <1>2, OllWReads
  <2> QED
    BY <2>1, <2>2 DEF OllW!SoftRelax
<1>6. OllW!RelaxCards(C, m) = RaisedCounters(C, m, P)
  BY <1>2, <1>3, OllWReads DEF OllW!RelaxCards, RaisedCounters, Duplicate
<1>7. OllW!SoftRelax(C, m) \cup OllW!CardinalityRelax(C, m) = Relax(C, m, H, P)
  BY <1>4, <1>5 DEF Relax
<1> QED
  BY <1>3, <1>4, <1>6, <1>7

\* The bounds after a core are those of BoundsOf.
LEMMA BoundsAfterAre ==
  ASSUME OllWTyped, HeavyEncoded, NEW C, NEW m, PaidCore(C, m),
         NEW H, H = OllW!Heavy(C, m), NEW P, P = OllW!Split(C, m),
         NEW cs, CountersAfter(cs, C, m, H, P)
  PROVE  OllW!BoundsAfter(cs, C, m, Newest(cs, C)) = BoundsOf(cs, C, m, H, P)
<1>1. Paid(C, m, H, P)
  BY SplitIs
<1>2. /\ OllW!Equal(C, m) = Raised(C, m)
      /\ OllW!CardinalityRelax(C, m) =
           Raised(C, m) \cup {OutLit(Len(cards) + j, P[j][3]) : j \in 1 .. Len(P)}
  BY ModelIs
<1> DEFINE new  == Newest(cs, C)
           next == UNION {OllW!NextBound(cs, l) : l \in OllW!CardinalityRelax(C, m)}
<1>3. next = Ups(C, m, H, P)
  <2>1. next = UNION {NextBound(cs, l) : l \in OllW!CardinalityRelax(C, m)}
    BY OllWReads
  <2> HIDE DEF next
  <2> QED
    BY <1>1, <1>2, <2>1, NextBounds
<1>4. OllW!BoundsAfter(cs, C, m, new) =
        [l \in (DOMAIN bounds \ OllW!Equal(C, m)) \cup next \cup new |->
           IF l \in next \cup new THEN m
           ELSE IF l \in C THEN bounds[l] - m
           ELSE bounds[l]]
  BY DEF OllW!BoundsAfter
<1> HIDE DEF next
<1> QED
  BY <1>2, <1>3, <1>4 DEF BoundsOf, Staying

\* What relaxing a core makes of the soft clauses, totalizers and bounds.
LEMMA RelaxCoreIs ==
  ASSUME OllWTyped, HeavyEncoded, NEW C, NEW m, m = OllW!MinCore(C), PaidCore(C, m),
         NEW H, H = OllW!Heavy(C, m), NEW P, P = OllW!Split(C, m),
         OllW!RelaxCore(C)
  PROVE  /\ Paid(C, m, H, P)
         /\ SoftsAfter(soft', C, m, H)
         /\ CountersAfter(cards', C, m, H, P)
         /\ BoundsSplit(bounds', cards', C, m, H, P)
<1>1. Paid(C, m, H, P)
  BY SplitIs
<1> DEFINE relax  == OllW!SoftRelax(C, m) \cup OllW!CardinalityRelax(C, m)
           isUnit == OllW!Cardinality(relax) = 1
           cs     == IF isUnit THEN OllW!RelaxCards(C, m)
                     ELSE Append(OllW!RelaxCards(C, m), OllW!Card(relax, 1))
<1>2. /\ soft' = OllW!SplitSoft(C, m)
      /\ cards' = cs
      /\ bounds' = OllW!BoundsAfter(cs, C, m, IF isUnit THEN {} ELSE {OllW!OutLit(Len(cs), 1)})
  BY DEF OllW!RelaxCore
<1>3. SoftsAfter(soft', C, m, H)
  BY <1>2, SplitSofts
<1>4. relax = Relax(C, m, H, P) /\ OllW!RelaxCards(C, m) = RaisedCounters(C, m, P)
  BY ModelIs
<1>5. isUnit <=> Cardinality(C) = 1
  <2>1. Cardinality(Relax(C, m, H, P)) = Cardinality(C)
    BY <1>1, RelaxIs
  <2> HIDE DEF relax
  <2> QED
    BY <1>4, <2>1, OllWCardinality
<1>6. cs = CountersOf(C, m, H, P)
  <2> HIDE DEF relax, isUnit
  <2> QED
    BY <1>4, <1>5, OllWReads DEF CountersOf
<1>7. (IF isUnit THEN {} ELSE {OllW!OutLit(Len(cs), 1)}) = Newest(cs, C)
  <2> HIDE DEF isUnit, cs
  <2> QED
    BY <1>5, OllWReads DEF Newest
<1> HIDE DEF cs, isUnit, relax
<1>8. CountersAfter(cs, C, m, H, P)
  BY <1>1, <1>6, CountersAre
<1>9. bounds' = BoundsOf(cs, C, m, H, P)
  BY <1>2, <1>7, <1>8, BoundsAfterAre
<1>10. BoundsSplit(BoundsOf(cs, C, m, H, P), cs, C, m, H, P)
  BY <1>1, <1>8, BoundsLive
<1> QED
  BY <1>1, <1>2, <1>3, <1>8, <1>9, <1>10

\* The formula of weighted OLL: weights are positive and add up to a uint64_t.
LEMMA OllWFormula ==
  ASSUME OllWTyped
  PROVE  /\ IsFiniteSet(Soft) /\ UintMax \in Nat \ {0}
         /\ weight \in [Soft -> Nat \ {0}] /\ feasible \in SUBSET SUBSET Soft
         /\ \A F \in SUBSET Soft : Sum(weight, F) \in Nat /\ Sum(weight, F) <= UintMax
<1>1. /\ IsFiniteSet(Soft) /\ UintMax \in Nat \ {0}
      /\ weight \in [Soft -> Nat \ {0}] /\ feasible \in SUBSET SUBSET Soft
  BY FormulaAssumption, WeightsAssumption DEF OllWTyped
<1>2. Sum(weight, Soft) <= UintMax
  BY SumAssumption DEF OllWTyped, Sum
<1>3. ASSUME NEW F \in SUBSET Soft
      PROVE  Sum(weight, F) \in Nat /\ Sum(weight, F) <= UintMax
  <2> DEFINE G == Soft \ F
  <2>1. /\ IsFiniteSet(F) /\ IsFiniteSet(G) /\ F \cup G = Soft /\ F \cap G = {}
        /\ F \in SUBSET Soft /\ G \in SUBSET Soft
    BY <1>1, FS_Subset
  <2>2. \A i \in Soft : weight[i] \in Nat /\ weight[i] \in Int
    BY <1>1
  <2> HIDE DEF G
  <2>3. Sum(weight, F) \in Nat /\ Sum(weight, G) \in Nat
    BY <2>1, <2>2, SumNat
  <2>4. Sum(weight, F \cup G) = Sum(weight, F) + Sum(weight, G)
    BY <1>1, <2>1, <2>2, SumDisjoint
  <2>5. Sum(weight, Soft) = Sum(weight, F) + Sum(weight, G)
    BY <2>1, <2>4
  <2> QED
    BY <1>1, <1>2, <2>3, <2>5
<1> QED
  BY <1>1, <1>3

\* A core whose weight is paid costs every model that makes one of its literals true.
LEMMA CoreCosts ==
  ASSUME OllWTyped, HeavyEncoded, NEW C, NEW m, PaidCore(C, m), NEW F,
         NEW S, S = FalsifiedBy(soft, F), \E l \in C : True(cards, S, l)
  PROVE  /\ Sum(Pending(soft), S) + Sum(Beyond(cards, bounds, S), DOMAIN bounds) \in Nat
         /\ m <= Sum(Pending(soft), S) + Sum(Beyond(cards, bounds, S), DOMAIN bounds)
<1> DEFINE H  == OllW!Heavy(C, m)
           P  == OllW!Split(C, m)
           cs == CountersOf(C, m, H, P)
           sf == OllW!SplitSoft(C, m)
           bs == BoundsOf(cs, C, m, H, P)
           R  == FalsifiedBy(sf, F)
<1>1. Paid(C, m, H, P) /\ SoftsAfter(sf, C, m, H)
  BY SplitIs, SplitSofts
<1> HIDE DEF H, P, sf
<1>2. CountersAfter(cs, C, m, H, P)
  BY <1>1, CountersAre
<1> HIDE DEF cs
<1>3. BoundsSplit(bs, cs, C, m, H, P)
  BY <1>1, <1>2, BoundsLive
<1> HIDE DEF bs
<1>4. R = FalsifiedBy(sf, F)
  OBVIOUS
<1> HIDE DEF R
<1>5. /\ Sum(Pending(sf), R) \in Nat
      /\ Sum(Beyond(cs, bs, R), DOMAIN bs) \in Nat
      /\ Sum(Pending(soft), S) + Sum(Beyond(cards, bounds, S), DOMAIN bounds) =
           m + Sum(Pending(sf), R) + Sum(Beyond(cs, bs, R), DOMAIN bs)
  BY <1>1, <1>2, <1>3, <1>4, RelaxedWeight
<1>6. m \in Nat
  BY DEF PaidCore
<1> QED
  BY <1>5, <1>6

\* The instance assumes clauses that are not active, and bounds, of enough weight.
LEMMA AssumedIs ==
  ASSUME OllWTyped, NEW w
  PROVE  OllW!Assumed(soft, bounds, w) =
           {SoftLit(i) : i \in {j \in 1 .. Len(soft) : soft[j].weight >= w /\ ~ soft[j].active}}
             \cup {l \in DOMAIN bounds : bounds[l] >= w}
<1>1. DOMAIN soft = 1 .. Len(soft)
  BY DEF OllWTyped
<1>2. \A i : IsSoft(SoftLit(i)) /\ SoftLit(i)[2] = i
  BY DEF IsSoft, SoftLit
<1>3. \A l \in DOMAIN bounds : ~ IsSoft(l)
  BY DEF OllWTyped, Outputs, OutLit, IsSoft
<1> DEFINE A == {SoftLit(i) : i \in {j \in 1 .. Len(soft) : soft[j].weight >= w}}
           B == {l \in DOMAIN bounds : bounds[l] >= w}
<1>4. OllW!Considered(soft, bounds, w) = A \cup B
  BY <1>1, OllWReads DEF OllW!Considered
<1>5. OllW!Assumed(soft, bounds, w) = {l \in A \cup B : IsSoft(l) => ~ soft[l[2]].active}
  <2> HIDE DEF A, B
  <2> QED
    BY <1>4, OllWReads DEF OllW!Assumed
<1> QED
  BY <1>2, <1>3, <1>5

\* So it assumes nothing else,
LEMMA AssumedFrom ==
  ASSUME OllWTyped, NEW w
  PROVE  OllW!Assumed(soft, bounds, w) \in SUBSET (Inactive \cup DOMAIN bounds)
BY AssumedIs DEF Inactive

\* and finitely many literals.
LEMMA AssumableFinite ==
  ASSUME OllWTyped
  PROVE  IsFiniteSet(Inactive \cup DOMAIN bounds)
<1> DEFINE J == {j \in 1 .. Len(soft) : ~ soft[j].active}
<1>1. IsFiniteSet(1 .. Len(soft))
  <2>1. 1 \in Int /\ Len(soft) \in Int
    BY DEF OllWTyped
  <2> QED
    BY <2>1, FS_Interval
<1>2. IsFiniteSet(J)
  <2>1. J \in SUBSET (1 .. Len(soft))
    OBVIOUS
  <2> QED
    BY <1>1, <2>1, FS_Subset
<1> DEFINE f == [j \in J |-> SoftLit(j)]
<1>3. \A i, j \in J : f[i] = f[j] => i = j
  BY DEF SoftLit
<1>4. IsFiniteSet({f[j] : j \in J})
  <2> HIDE DEF f, J
  <2> QED
    BY ONLY <1>2, <1>3, FiniteImage
<1>5. Inactive = {f[j] : j \in J}
  BY DEF Inactive
<1>6. IsFiniteSet(DOMAIN bounds)
  BY DEF OllWTyped
<1> HIDE DEF f, J
<1> QED
  BY <1>4, <1>5, <1>6, FS_Union

\* What soft clauses and bounds may still cost is a natural number.
LEMMA LeftNat ==
  ASSUME OllWTyped, HeavyEncoded, NEW F, NEW S, S = FalsifiedBy(soft, F)
  PROVE  /\ Sum(Pending(soft), S) \in Nat
         /\ Sum(Beyond(cards, bounds, S), DOMAIN bounds) \in Nat
<1> DEFINE v == Pending(soft)
<1>1. \A i \in S : v[i] \in Nat
  <2>1. ASSUME NEW i \in S PROVE v[i] \in Nat
    <3>1. i \in 1 .. Len(soft)
      BY DEF FalsifiedBy
    <3>2. soft[i] \in Entries
      BY <3>1 DEF OllWTyped
    <3> QED
      BY <3>1, <3>2 DEF Pending, Entries
  <2> QED
    BY <2>1
<1>2. IsFiniteSet(S)
  <2>1. 1 \in Int /\ Len(soft) \in Int
    BY DEF OllWTyped
  <2>2. IsFiniteSet(1 .. Len(soft)) /\ S \in SUBSET (1 .. Len(soft))
    BY <2>1, FS_Interval DEF FalsifiedBy
  <2> QED
    BY <2>2, FS_Subset
<1> HIDE DEF v
<1>3. Sum(v, S) \in Nat
  BY ONLY <1>1, <1>2, SumNat
<1>4. Sum(Beyond(cards, bounds, S), DOMAIN bounds) \in Nat
  BY OldWeighty, BeyondIs
<1> QED
  BY <1>3, <1>4 DEF v

\* A clause and its copies share its weight.
CopiesAgree == \A c \in Soft : weight[c] = Sum(WeightsOf(soft), CopiesOf(soft, c))

\* Every model costs what the cores have paid, what soft clauses and copies may still cost,
\* and what exceeds the bounds.
WeightKept ==
  status = "searching" =>
    /\ lbCost \in Nat
    /\ \A F \in feasible :
         Sum(weight, F) = lbCost + Sum(Pending(soft), FalsifiedBy(soft, F))
                            + Sum(Beyond(cards, bounds, FalsifiedBy(soft, F)), DOMAIN bounds)

\* Before the first model the hard clauses alone are solved.
OllWWaiting ==
  status = "searching" /\ nbSatisfiable = 0 => model = NULL /\ assumptions = {} /\ lbCost = 0

\* After it, all that is heavy enough is assumed.
OllWWorking ==
  status = "searching" /\ nbSatisfiable # 0 =>
    /\ model \in feasible
    /\ ubCost = Sum(weight, model)
    /\ assumptions = OllW!Assumed(soft, bounds, minWeight)

\* OPTIMUM is answered with a model of least weight.
OllWOptimum ==
  status = "OPTIMUM" =>
    /\ model \in feasible
    /\ ubCost = Sum(weight, model)
    /\ \A F \in feasible : ubCost <= Sum(weight, F)

\* The invariant of weighted OLL.
OllWInv ==
  /\ OllWTyped /\ HeavyEncoded /\ CopiesAgree /\ WeightKept
  /\ OllWWaiting /\ OllWWorking /\ OllWOptimum

\* The smallest weight of a core is one that all its literals have.
LEMMA SmallestWeight ==
  ASSUME OllWTyped, NEW C, C \in SUBSET (Inactive \cup DOMAIN bounds), C # {},
         NEW m, m = OllW!MinCore(C)
  PROVE  PaidCore(C, m)
<1> DEFINE T == {OllW!WeightOf(l) : l \in C} \cup {UintMax}
<1>1. UintMax \in Nat \ {0}
  BY OllWFormula
<1>2. IsFiniteSet(C)
  BY AssumableFinite, FS_Subset
<1>3. \A l \in C : /\ IsSoft(l) => /\ l[2] \in 1 .. Len(soft) /\ l = SoftLit(l[2])
                                   /\ soft[l[2]].weight \in Nat \ {0}
                                   /\ OllW!WeightOf(l) = soft[l[2]].weight
                   /\ ~ IsSoft(l) => /\ l \in DOMAIN bounds /\ bounds[l] \in Nat \ {0}
                                     /\ OllW!WeightOf(l) = bounds[l]
  <2>1. ASSUME NEW l \in C
        PROVE  /\ IsSoft(l) => /\ l[2] \in 1 .. Len(soft) /\ l = SoftLit(l[2])
                               /\ soft[l[2]].weight \in Nat \ {0}
                               /\ OllW!WeightOf(l) = soft[l[2]].weight
               /\ ~ IsSoft(l) => /\ l \in DOMAIN bounds /\ bounds[l] \in Nat \ {0}
                                 /\ OllW!WeightOf(l) = bounds[l]
    <3>1. CASE l \in Inactive
      <4>1. PICK i \in 1 .. Len(soft) : l = SoftLit(i)
        BY <3>1 DEF Inactive
      <4>2. IsSoft(l) /\ l[2] = i
        BY <4>1, LiteralsAre
      <4>3. soft[i] \in Entries
        BY DEF OllWTyped
      <4>4. soft[i].weight \in Nat \ {0}
        BY <4>3 DEF Entries
      <4> QED
        BY <4>1, <4>2, <4>4, OllWReads DEF OllW!WeightOf
    <3>2. CASE l \in DOMAIN bounds
      <4>1. ~ IsSoft(l)
        BY <3>2, LiteralsAre DEF OllWTyped
      <4>2. bounds[l] \in Nat \ {0}
        BY <3>2 DEF OllWTyped
      <4> QED
        BY <3>2, <4>1, <4>2, OllWReads DEF OllW!WeightOf
    <3> QED
      BY <3>1, <3>2
  <2> QED
    BY <2>1
<1>4. T \in SUBSET Nat /\ 0 \notin T /\ T # {}
  <2>1. \A l \in C : OllW!WeightOf(l) \in Nat \ {0}
    BY <1>3
  <2> QED
    BY <1>1, <2>1
<1>5. m = OllW!Min(T)
  BY DEF OllW!MinCore
<1>6. m \in T /\ \A k \in T : m <= k
  <2> HIDE DEF T
  <2>1. \E n \in T : \A k \in T : n <= k
    BY <1>4, Smallest
  <2> QED
    BY <1>5, <2>1 DEF OllW!Min
<1>7. m \in Nat \ {0} /\ \A l \in C : m <= OllW!WeightOf(l)
  <2>1. \A l \in C : OllW!WeightOf(l) \in T
    OBVIOUS
  <2> HIDE DEF T
  <2> QED
    BY <1>4, <1>6, <2>1
<1> HIDE DEF T
<1>8. ASSUME NEW i \in Joined(C) PROVE soft[i].weight >= m
  <2> DEFINE l == SoftLit(i)
  <2>1. l \in C /\ IsSoft(l) /\ l[2] = i
    BY LiteralsAre DEF Joined
  <2>2. OllW!WeightOf(l) = soft[i].weight /\ soft[i].weight \in Nat
    <3> HIDE DEF l
    <3> QED
      BY <1>3, <2>1
  <2>3. m <= OllW!WeightOf(l)
    BY <1>7, <2>1
  <2> HIDE DEF l
  <2> QED
    BY <1>7, <2>2, <2>3
<1>9. ASSUME NEW l \in CoreOutputs(C) PROVE bounds[l] >= m
  BY <1>3, <1>7 DEF CoreOutputs
<1> QED
  BY <1>2, <1>7, <1>8, <1>9 DEF PaidCore

\* A core of the search: the bound is raised by its weight, which every model has left.
LEMMA OllWCore ==
  ASSUME OllWInv, status = "searching", nbSatisfiable # 0, NEW C \in SUBSET assumptions,
         OllW!Unsat(C), NEW m, m = OllW!MinCore(C)
  PROVE  /\ PaidCore(C, m) /\ m \in Nat \ {0}
         /\ lbCost' = lbCost + m
         /\ \A F \in feasible : lbCost + m <= Sum(weight, F)
         /\ \A F \in feasible : \E l \in C : True(cards, FalsifiedBy(soft, F), l)
<1>1. /\ OllWTyped /\ HeavyEncoded /\ model \in feasible /\ lbCost \in Nat
      /\ C \in SUBSET (Inactive \cup DOMAIN bounds)
  BY AssumedFrom DEF OllWInv, OllWWorking, WeightKept
<1>2. \A F \in feasible : \E l \in C : True(cards, FalsifiedBy(soft, F), l)
  <2>1. \A F : OllW!Falsified(F) = FalsifiedBy(soft, F)
    BY <1>1 DEF OllWTyped, OllW!Falsified, FalsifiedBy
  <2> QED
    BY <2>1, OllWReads DEF OllW!Unsat
<1>3. C # {}
  BY <1>1, <1>2
<1>4. PaidCore(C, m)
  BY <1>1, <1>3, SmallestWeight
<1>5. m \in Nat \ {0}
  BY <1>4 DEF PaidCore
<1>6. ASSUME NEW F \in feasible PROVE lbCost + m <= Sum(weight, F)
  <2> DEFINE S == FalsifiedBy(soft, F)
             a == Sum(Pending(soft), S)
             b == Sum(Beyond(cards, bounds, S), DOMAIN bounds)
  <2>1. \E l \in C : True(cards, S, l)
    BY <1>2
  <2>2. a + b \in Nat /\ m <= a + b
    <3> HIDE DEF S
    <3>1. S = FalsifiedBy(soft, F)
      BY DEF S
    <3> QED
      BY <1>1, <1>4, <2>1, <3>1, CoreCosts
  <2>3. Sum(weight, F) = lbCost + a + b
    BY DEF OllWInv, WeightKept
  <2>4. a \in Int /\ b \in Int
    <3>1. a \in Nat /\ b \in Nat
      BY <1>1, LeftNat
    <3> QED
      BY <3>1
  <2> HIDE DEF a, b, S
  <2> QED
    BY <1>1, <1>5, <2>2, <2>3, <2>4
<1>7. lbCost' = lbCost + m
  <2>1. lbCost' = (lbCost + m) % (UintMax + 1)
    BY DEF OllW!Unsat
  <2>2. lbCost + m <= UintMax /\ UintMax \in Nat
    <3>1. lbCost + m <= Sum(weight, model)
      BY <1>1, <1>6
    <3>2. Sum(weight, model) \in Nat /\ Sum(weight, model) <= UintMax /\ UintMax \in Nat
      BY <1>1, OllWFormula
    <3> QED
      BY <1>1, <1>5, <3>1, <3>2
  <2>3. \A a, b \in Nat : a <= b => a % (b + 1) = a
    OBVIOUS
  <2> QED
    BY <1>1, <1>5, <2>1, <2>2, <2>3
<1> QED
  BY <1>2, <1>4, <1>5, <1>6, <1>7

\* The types after a core.
LEMMA RelaxedTypes ==
  ASSUME OllWTyped, HeavyEncoded, NEW C, NEW m, NEW H, NEW P, Paid(C, m, H, P),
         SoftsAfter(soft', C, m, H), CountersAfter(cards', C, m, H, P),
         BoundsSplit(bounds', cards', C, m, H, P),
         UNCHANGED <<weight, feasible, nbSatisfiable, ubCost, model, status, minWeight>>
  PROVE  OllWTyped' /\ HeavyEncoded'
<1>1. /\ DOMAIN bounds' = Staying(C, m) \cup Ups(C, m, H, P) \cup Newest(cards', C)
      /\ IsFiniteSet(DOMAIN bounds')
      /\ bounds' \in [DOMAIN bounds' -> Nat \ {0}]
  BY DEF BoundsSplit
<1>2. \A l \in DOMAIN bounds' : /\ l \in Outputs /\ l[2] \in 1 .. Len(cards')
                                /\ cards'[l[2]].upTo = l[3]
                                /\ l[3] < Cardinality(cards'[l[2]].lits)
  BY <1>1, PartsLive
<1>3. /\ WellFormed(cards')
      /\ \A t \in 1 .. Len(cards') : \A l \in cards'[t].lits :
           IsSoft(l) => l[2] \in 1 .. Len(soft) + Len(H)
  BY CountersFormed
<1>4. soft' \in Seq(Entries) /\ Len(soft') = Len(soft) + Len(H)
  BY DEF SoftsAfter
<1>5. cards' \in Seq(Counters)
  BY DEF CountersAfter
<1>6. HeavyEncoded'
  BY <1>2 DEF HeavyEncoded
<1>7. OllWTyped'
  <2>1. \A t \in 1 .. Len(cards') : \A l \in cards'[t].lits :
          IsSoft(l) => l[2] \in 1 .. Len(soft')
    BY <1>3, <1>4
  <2>2. DOMAIN bounds' \in SUBSET Outputs
    BY <1>2
  <2> QED
    BY <1>1, <1>3, <1>4, <1>5, <2>1, <2>2 DEF OllWTyped
<1> QED
  BY <1>6, <1>7

\* Relaxing a core takes its weight from what is left, and adds it to the bound.
LEMMA OllWRelaxCore ==
  ASSUME OllWInv, status = "searching", NEW C \in SUBSET assumptions, OllW!RelaxCore(C),
         UNCHANGED <<weight, feasible>>
  PROVE  OllWInv'
<1> DEFINE m == OllW!MinCore(C)
           H == OllW!Heavy(C, m)
           P == OllW!Split(C, m)
<1>1. /\ nbSatisfiable # 0 /\ OllW!Unsat(C) /\ status' = status
      /\ assumptions' = OllW!Assumed(soft', bounds', minWeight)
      /\ UNCHANGED <<ubCost, nbSatisfiable, model, minWeight>>
  <2>1. nbSatisfiable > 0 /\ nbSatisfiable \in Nat
    BY DEF OllW!RelaxCore, OllWInv, OllWTyped
  <2> QED
    BY <2>1 DEF OllW!RelaxCore, OllW!Unsat
<1>2. /\ OllWTyped /\ HeavyEncoded /\ lbCost \in Nat
      /\ model \in feasible /\ ubCost = Sum(weight, model)
  BY <1>1 DEF OllWInv, WeightKept, OllWWorking
<1>3. m = OllW!MinCore(C) /\ H = OllW!Heavy(C, m) /\ P = OllW!Split(C, m)
  OBVIOUS
<1> HIDE DEF m, H, P
<1>4. /\ PaidCore(C, m) /\ m \in Nat \ {0}
      /\ lbCost' = lbCost + m
      /\ \A F \in feasible : \E l \in C : True(cards, FalsifiedBy(soft, F), l)
  BY <1>1, <1>3, OllWCore
<1>5. /\ Paid(C, m, H, P)
      /\ SoftsAfter(soft', C, m, H)
      /\ CountersAfter(cards', C, m, H, P)
      /\ BoundsSplit(bounds', cards', C, m, H, P)
  BY <1>2, <1>3, <1>4, RelaxCoreIs
<1>6. OllWTyped' /\ HeavyEncoded'
  BY <1>1, <1>2, <1>5, RelaxedTypes
<1>7. CopiesAgree'
  <2>1. \A c \in Soft : Sum(WeightsOf(soft'), CopiesOf(soft', c))
                          = Sum(WeightsOf(soft), CopiesOf(soft, c))
    BY <1>2, <1>5, CopiesPaid
  <2> QED
    BY <2>1 DEF OllWInv, CopiesAgree
<1>8. WeightKept'
  <2>1. ASSUME NEW F \in feasible
        PROVE  Sum(weight, F) = lbCost' + Sum(Pending(soft'), FalsifiedBy(soft', F))
                 + Sum(Beyond(cards', bounds', FalsifiedBy(soft', F)), DOMAIN bounds')
    <3> DEFINE S == FalsifiedBy(soft, F)
               R == FalsifiedBy(soft', F)
               a == Sum(Pending(soft), S)
               b == Sum(Beyond(cards, bounds, S), DOMAIN bounds)
               c == Sum(Pending(soft'), R)
               d == Sum(Beyond(cards', bounds', R), DOMAIN bounds')
    <3>1. Sum(weight, F) = lbCost + a + b
      BY DEF OllWInv, WeightKept
    <3>2. c \in Nat /\ d \in Nat /\ a + b = m + c + d
      <4>1. S = FalsifiedBy(soft, F) /\ R = FalsifiedBy(soft', F)
            /\ \E l \in C : True(cards, S, l)
        BY <1>4
      <4> HIDE DEF S, R
      <4> QED
        BY <1>2, <1>5, <4>1, RelaxedWeight
    <3>3. a \in Nat /\ b \in Nat
      BY <1>2, LeftNat
    <3> HIDE DEF a, b, c, d
    <3>4. Sum(weight, F) = lbCost' + c + d
      BY <1>2, <1>4, <3>1, <3>2, <3>3
    <3> QED
      BY <3>4 DEF c, d
  <2>2. lbCost' \in Nat
    BY <1>2, <1>4
  <2> QED
    BY <2>1, <2>2 DEF WeightKept
<1>9. OllWWaiting' /\ OllWWorking' /\ OllWOptimum'
  BY <1>1, <1>2 DEF OllWWaiting, OllWWorking, OllWOptimum
<1> QED
  BY <1>6, <1>7, <1>8, <1>9 DEF OllWInv

\* Nothing but the bounds changes when they meet, and the saved model is optimal.
LEMMA OllWBoundsMeet ==
  ASSUME OllWInv, status = "searching", NEW C \in SUBSET assumptions, OllW!BoundsMeet(C),
         UNCHANGED <<weight, feasible>>
  PROVE  /\ OllWInv'
         /\ model \in feasible /\ model' = model /\ status' = "OPTIMUM"
         /\ lbCost' = Sum(weight, model) /\ lbCost' > lbCost
         /\ \A F \in feasible : Sum(weight, model) <= Sum(weight, F)
<1> DEFINE m == OllW!MinCore(C)
<1>1. /\ nbSatisfiable # 0 /\ OllW!Unsat(C) /\ status' = "OPTIMUM" /\ lbCost + m = ubCost
      /\ UNCHANGED <<cards, soft, bounds, assumptions, ubCost, nbSatisfiable, model, minWeight>>
  <2>1. nbSatisfiable > 0 /\ nbSatisfiable \in Nat
    BY DEF OllW!BoundsMeet, OllWInv, OllWTyped
  <2> QED
    BY <2>1 DEF OllW!BoundsMeet, OllW!Unsat
<1>2. /\ OllWTyped /\ HeavyEncoded /\ CopiesAgree /\ lbCost \in Nat
      /\ model \in feasible /\ ubCost = Sum(weight, model)
  BY <1>1 DEF OllWInv, WeightKept, OllWWorking
<1> HIDE DEF m
<1>3. /\ m \in Nat \ {0} /\ lbCost' = lbCost + m
      /\ \A F \in feasible : lbCost + m <= Sum(weight, F)
  BY <1>1, OllWCore DEF m
<1>4. OllWTyped' /\ HeavyEncoded' /\ CopiesAgree'
  BY <1>1, <1>2 DEF OllWTyped, HeavyEncoded, CopiesAgree
<1>5. WeightKept' /\ OllWWaiting' /\ OllWWorking'
  BY <1>1 DEF WeightKept, OllWWaiting, OllWWorking
<1>6. OllWOptimum'
  BY <1>1, <1>2, <1>3 DEF OllWOptimum
<1> QED
  BY <1>1, <1>2, <1>3, <1>4, <1>5, <1>6 DEF OllWInv

\* The hard clauses have no model.
LEMMA OllWHardUnsatisfiable ==
  ASSUME OllWInv, status = "searching", OllW!HardUnsatisfiable,
         UNCHANGED <<weight, feasible>>
  PROVE  OllWInv' /\ feasible = {} /\ nbSatisfiable' = 0 /\ model' = model
         /\ status' = "UNSATISFIABLE"
<1>1. /\ nbSatisfiable = 0 /\ status' = "UNSATISFIABLE" /\ OllW!Unsat({})
      /\ UNCHANGED <<cards, soft, bounds, assumptions, ubCost, nbSatisfiable, model, minWeight>>
  BY DEF OllW!HardUnsatisfiable, OllW!Unsat
<1>2. feasible = {}
  BY <1>1 DEF OllW!Unsat
<1>3. OllWTyped' /\ HeavyEncoded' /\ CopiesAgree'
  BY <1>1 DEF OllWInv, OllWTyped, HeavyEncoded, CopiesAgree
<1>4. WeightKept' /\ OllWWaiting' /\ OllWWorking' /\ OllWOptimum'
  BY <1>1 DEF WeightKept, OllWWaiting, OllWWorking, OllWOptimum
<1> QED
  BY <1>1, <1>2, <1>3, <1>4 DEF OllWInv

\* The weights in use are finitely many, and positive.
LEMMA WeightsInUse ==
  ASSUME OllWTyped
  PROVE  /\ IsFiniteSet(OllW!InUse(soft, bounds))
         /\ OllW!InUse(soft, bounds) \in SUBSET (Nat \ {0})
         /\ \A i \in 1 .. Len(soft) : /\ soft[i].weight \in OllW!InUse(soft, bounds)
                                      /\ soft[i].weight \in Nat \ {0}
         /\ \A l \in DOMAIN bounds : /\ bounds[l] \in OllW!InUse(soft, bounds)
                                     /\ bounds[l] \in Nat \ {0}
<1> DEFINE I == 1 .. Len(soft)
           D == DOMAIN bounds
           f == [i \in I |-> soft[i].weight]
           A == {f[i] : i \in I}
           B == {bounds[l] : l \in D}
<1>1. OllW!InUse(soft, bounds) = A \cup B
  <2>1. DOMAIN soft = I
    BY DEF OllWTyped
  <2> QED
    BY <2>1 DEF OllW!InUse
<1>2. IsFiniteSet(I) /\ IsFiniteSet(D)
  <2>1. 1 \in Int /\ Len(soft) \in Int /\ IsFiniteSet(DOMAIN bounds)
    BY DEF OllWTyped
  <2> QED
    BY <2>1, FS_Interval
<1>3. \A i \in I : f[i] = soft[i].weight /\ soft[i].weight \in Nat \ {0}
  <2>1. \A i \in I : soft[i] \in Entries
    BY DEF OllWTyped
  <2> QED
    BY <2>1 DEF Entries
<1>4. \A l \in D : bounds[l] \in Nat \ {0}
  BY DEF OllWTyped
<1> HIDE DEF f, I, D
<1>5. IsFiniteSet(A) /\ IsFiniteSet(B)
  BY ONLY <1>2, FiniteImage
<1>6. IsFiniteSet(A \cup B)
  BY ONLY <1>5, FS_Union
<1> QED
  BY <1>1, <1>3, <1>4, <1>6 DEF I, D

\* With weight one every literal is considered.
LEMMA AllConsidered ==
  ASSUME OllWTyped
  PROVE  OllW!Diverse(soft, bounds, 1)
<1> DEFINE I == 1 .. Len(soft)
           D == DOMAIN bounds
           f == [i \in I |-> SoftLit(i)]
           A == {f[i] : i \in I}
<1>1. OllW!Considered(soft, bounds, 1) = A \cup D
  <2>1. {i \in DOMAIN soft : soft[i].weight >= 1} = I
    <3>1. DOMAIN soft = I
      BY DEF OllWTyped
    <3>2. \A i \in I : soft[i].weight >= 1
      BY WeightsInUse
    <3> QED
      BY <3>1, <3>2
  <2>2. {l \in DOMAIN bounds : bounds[l] >= 1} = D
    BY WeightsInUse
  <2>3. {OllW!SoftLit(i) : i \in {j \in DOMAIN soft : soft[j].weight >= 1}} = A
    BY <2>1, OllWReads
  <2> QED
    BY <2>2, <2>3 DEF OllW!Considered
<1>2. /\ IsFiniteSet(I) /\ Cardinality(I) = Len(soft) /\ IsFiniteSet(D)
      /\ D \in SUBSET Outputs /\ Len(soft) \in Nat
  <2>1. Len(soft) \in Nat /\ IsFiniteSet(D) /\ D \in SUBSET Outputs
    BY DEF OllWTyped
  <2> DEFINE n == Len(soft)
  <2> HIDE DEF n
  <2>2. 0 \in Int /\ 1 \in Int /\ n \in Int /\ (1 > n => n = 0) /\ n - 1 + 1 = n
    BY <2>1 DEF n
  <2>3. IsFiniteSet(1 .. n) /\ Cardinality(1 .. n) = n
    BY <2>2, FS_Interval
  <2> QED
    BY <2>1, <2>3 DEF n
<1>3. \A i, j \in I : f[i] = f[j] => i = j
  BY DEF SoftLit
<1>4. A \cap D = {}
  BY <1>2, LiteralsAre
<1> HIDE DEF f, I, D
<1>5. IsFiniteSet(A) /\ Cardinality(A) = Cardinality(I)
  BY ONLY <1>2, <1>3, FiniteImage
<1> HIDE DEF A
<1>6. Cardinality(A \cup D) = Len(soft) + Cardinality(D)
  <2>1. Cardinality(A \cup D) = Cardinality(A) + Cardinality(D) - Cardinality(A \cap D)
    BY <1>2, <1>5, FS_Union
  <2>2. Cardinality(A \cap D) = 0 /\ Cardinality(D) \in Nat
    BY <1>2, <1>4, EmptyHasNone, FS_CardinalityType
  <2> QED
    BY <1>2, <1>5, <2>1, <2>2
<1> QED
  BY <1>1, <1>6, OllWCardinality DEF OllW!Diverse, D

\* So there is a next weight.
LEMMA NextWeightIs ==
  ASSUME OllWTyped, minWeight \in Nat, NEW first \in BOOLEAN
  PROVE  OllW!FindNextWeightDiversity(soft, bounds, minWeight, first) \in Nat
<1> DEFINE V == OllW!InUse(soft, bounds)
           U == {1} \cup {v \in V : v < minWeight} \cup (IF first THEN {minWeight} ELSE {})
           T == {v \in U : OllW!Diverse(soft, bounds, v)}
<1>1. OllW!FindNextWeightDiversity(soft, bounds, minWeight, first) = OllW!Max(T)
  BY DEF OllW!FindNextWeightDiversity, OllW!Below
<1>2. IsFiniteSet(V) /\ V \in SUBSET Nat
  BY WeightsInUse
<1> HIDE DEF V
<1>3. IsFiniteSet(U) /\ U \in SUBSET Nat
  <2> DEFINE A == {v \in V : v < minWeight}
             B == IF first THEN {minWeight} ELSE {}
  <2>1. IsFiniteSet(A)
    BY <1>2, FS_Subset
  <2>2. IsFiniteSet({1}) /\ IsFiniteSet(B)
    BY FS_Singleton, FS_EmptySet
  <2>4. A \in SUBSET Nat
    BY <1>2
  <2>5. {1} \in SUBSET Nat /\ B \in SUBSET Nat
    OBVIOUS
  <2> HIDE DEF A, B
  <2>3. IsFiniteSet({1} \cup A \cup B)
    <3>1. IsFiniteSet({1} \cup A)
      BY <2>1, <2>2, FS_Union
    <3> QED
      BY <2>2, <3>1, FS_Union
  <2> QED
    BY <2>3, <2>4, <2>5 DEF A, B
<1>4. 1 \in T
  BY AllConsidered
<1>5. IsFiniteSet(T) /\ T \in SUBSET Nat
  <2>1. T \in SUBSET U
    OBVIOUS
  <2> HIDE DEF T, U
  <2> QED
    BY <1>3, <2>1, FS_Subset
<1> HIDE DEF T, U
<1>6. \E n \in T : \A k \in T : n >= k
  BY <1>4, <1>5, Largest
<1>7. OllW!Max(T) \in T
  BY <1>6 DEF OllW!Max
<1> QED
  BY <1>1, <1>5, <1>7

\* When all literals are considered, a model that the solver finds costs what the cores
\* have paid.
LEMMA NothingLeft ==
  ASSUME OllWInv, status = "searching", nbSatisfiable # 0, OllW!NotConsidered = {},
         NEW F \in feasible, \A l \in assumptions : ~ True(cards, FalsifiedBy(soft, F), l)
  PROVE  Sum(weight, F) = lbCost
<1> DEFINE S == FalsifiedBy(soft, F)
           v == Pending(soft)
           w == Beyond(cards, bounds, S)
<1>1. /\ OllWTyped /\ HeavyEncoded /\ lbCost \in Nat
      /\ Sum(weight, F) = lbCost + Sum(v, S) + Sum(w, DOMAIN bounds)
      /\ assumptions = OllW!Assumed(soft, bounds, minWeight)
  BY DEF OllWInv, WeightKept, OllWWorking
<1>2. CASE Soft = {}
  <2>1. F = {}
    BY <1>1, <1>2, OllWFormula
  <2>2. Sum(weight, F) = 0
    BY <2>1, SumEmpty
  <2>3. Sum(v, S) \in Nat /\ Sum(w, DOMAIN bounds) \in Nat
    <3>1. S = {}
      BY <2>1 DEF FalsifiedBy
    <3>2. Sum(v, S) = 0
      BY <3>1, SumEmpty
    <3>3. Sum(w, DOMAIN bounds) \in Nat
      BY <1>1, OldWeighty, BeyondIs
    <3> QED
      BY <3>2, <3>3
  <2> HIDE DEF v, w, S
  <2> QED
    BY <1>1, <2>2, <2>3
<1>3. CASE Soft # {}
  <2>1. minWeight \in Nat
    BY <1>1, <1>3 DEF OllWTyped
  <2>2. /\ \A i \in 1 .. Len(soft) : soft[i].weight >= minWeight
        /\ \A l \in DOMAIN bounds : bounds[l] >= minWeight
    <3>1. \A k \in Nat : k < minWeight => k \in 0 .. minWeight - 1
      BY <2>1
    <3>2. \A k \in OllW!InUse(soft, bounds) : k \in Nat /\ ~ (k < minWeight)
      BY <1>1, <3>1, WeightsInUse DEF OllW!NotConsidered
    <3>3. \A k \in OllW!InUse(soft, bounds) : k >= minWeight
      BY <2>1, <3>2
    <3> QED
      BY <1>1, <3>3, WeightsInUse
  <2>3. \A i \in S : v[i] = 0
    <3>1. ASSUME NEW i \in S, ~ soft[i].active PROVE FALSE
      <4>1. i \in 1 .. Len(soft)
        BY DEF FalsifiedBy
      <4>2. SoftLit(i) \in assumptions
        BY <1>1, <2>2, <3>1, <4>1, AssumedIs
      <4>3. True(cards, S, SoftLit(i))
        BY LiteralsAre DEF True
      <4> QED
        BY <4>2, <4>3
    <3>2. ASSUME NEW i \in S PROVE v[i] = 0
      <4>1. i \in 1 .. Len(soft) /\ soft[i].active
        BY <3>1 DEF FalsifiedBy
      <4> QED
        BY <4>1 DEF Pending
    <3> QED
      BY <3>2
  <2>4. IsFiniteSet(S)
    <3>1. 1 \in Int /\ Len(soft) \in Int
      BY <1>1 DEF OllWTyped
    <3>2. IsFiniteSet(1 .. Len(soft)) /\ S \in SUBSET (1 .. Len(soft))
      BY <3>1, FS_Interval DEF FalsifiedBy
    <3> QED
      BY <3>2, FS_Subset
  <2>5. Sum(v, S) = 0
    <3> HIDE DEF v, S
    <3> QED
      BY ONLY <2>3, <2>4, SumZero
  <2>6. \A l \in DOMAIN bounds : w[l] = 0
    <3>1. ASSUME NEW l \in DOMAIN bounds PROVE w[l] = 0
      <4>1. l \in assumptions
        BY <1>1, <2>2, AssumedIs
      <4>2. ~ True(cards, S, l)
        BY <4>1
      <4>3. ~ (Counts(cards, S)[l[2]] > l[3])
        BY <1>1, <4>2, TrueBound
      <4>4. Excess(cards, S, l) = 0
        BY <4>3 DEF Excess
      <4>5. w[l] = bounds[l] * Excess(cards, S, l) /\ bounds[l] \in Nat
        BY <1>1, OldWeighty, BeyondIs
      <4> QED
        BY <4>4, <4>5, Products
    <3> QED
      BY <3>1
  <2>7. IsFiniteSet(DOMAIN bounds)
    BY <1>1 DEF OllWTyped
  <2>8. Sum(w, DOMAIN bounds) = 0
    <3> HIDE DEF w
    <3> QED
      BY ONLY <2>6, <2>7, SumZero
  <2> HIDE DEF v, w, S
  <2> QED
    BY <1>1, <2>5, <2>8
<1> QED
  BY <1>2, <1>3

\* What the cores have paid is a lower bound.
LEMMA OllWLower ==
  ASSUME OllWInv, status = "searching"
  PROVE  lbCost \in Nat /\ \A F \in feasible : lbCost <= Sum(weight, F)
<1>1. lbCost \in Nat /\ OllWTyped /\ HeavyEncoded
  BY DEF OllWInv, WeightKept
<1>2. ASSUME NEW F \in feasible PROVE lbCost <= Sum(weight, F)
  <2> DEFINE a == Sum(Pending(soft), FalsifiedBy(soft, F))
             b == Sum(Beyond(cards, bounds, FalsifiedBy(soft, F)), DOMAIN bounds)
  <2>1. a \in Nat /\ b \in Nat
    BY <1>1, LeftNat
  <2>2. Sum(weight, F) = lbCost + a + b
    BY DEF OllWInv, WeightKept
  <2> HIDE DEF a, b
  <2> QED
    BY <1>1, <2>1, <2>2
<1> QED
  BY <1>1, <1>2

\* A model is saved when it is the first, or cheaper.
LEMMA OllWSaves ==
  ASSUME OllWInv, status = "searching", NEW F \in feasible, OllW!Sat(F)
  PROVE  /\ nbSatisfiable' \in Nat \ {0}
         /\ model' \in feasible /\ ubCost' = Sum(weight, model') /\ ubCost' \in Nat
         /\ ubCost' <= Sum(weight, F)
         /\ model' = model \/ (model' = F /\ (model # NULL => Sum(weight, F) < Sum(weight, model)))
<1>1. /\ OllW!Save(F) /\ nbSatisfiable' = OllW!Min({nbSatisfiable + 1, OllW!MaxSatisfiable})
      /\ OllWTyped /\ OllW!Cost(F) = Sum(weight, F)
      /\ nbSatisfiable = 0 => model = NULL
      /\ nbSatisfiable # 0 => model \in feasible /\ ubCost = Sum(weight, model)
  BY OllWSums DEF OllW!Sat, OllWInv, OllWWaiting, OllWWorking
<1>2. \A G \in feasible : Sum(weight, G) \in Nat
  BY <1>1, OllWFormula
<1>3. nbSatisfiable' \in Nat \ {0}
  <2> DEFINE T == {nbSatisfiable + 1, OllW!MaxSatisfiable}
  <2>1. T \in SUBSET (Nat \ {0}) /\ T # {}
    BY <1>1 DEF OllWTyped, OllW!MaxSatisfiable
  <2> HIDE DEF T
  <2>2. \E n \in T : \A k \in T : n <= k
    BY <2>1, Smallest
  <2>3. OllW!Min(T) \in T
    BY <2>2 DEF OllW!Min
  <2> QED
    BY <1>1, <2>1, <2>3 DEF T
<1>4. CASE Sum(weight, F) < ubCost \/ nbSatisfiable = 0
  <2>1. model' = F /\ ubCost' = Sum(weight, F)
    BY <1>1, <1>4 DEF OllW!Save
  <2>2. model # NULL => Sum(weight, F) < Sum(weight, model)
    BY <1>1, <1>4
  <2> QED
    BY <1>2, <1>3, <2>1, <2>2
<1>5. CASE ~ (Sum(weight, F) < ubCost \/ nbSatisfiable = 0)
  <2>1. model' = model /\ ubCost' = ubCost
    BY <1>1, <1>5 DEF OllW!Save
  <2>2. model \in feasible /\ ubCost = Sum(weight, model)
    BY <1>1, <1>5
  <2> QED
    BY <1>2, <1>3, <1>5, <2>1, <2>2
<1> QED
  BY <1>4, <1>5

\* With all literals considered, the model just found is optimal.
LEMMA OllWLastModel ==
  ASSUME OllWInv, status = "searching", NEW F \in feasible, OllW!Sat(F),
         nbSatisfiable # 0, OllW!NotConsidered = {}
  PROVE  lbCost \in Nat /\ ubCost' = lbCost /\ \A G \in feasible : ubCost' <= Sum(weight, G)
<1>1. \A l \in assumptions : ~ True(cards, FalsifiedBy(soft, F), l)
  <2>1. OllW!Falsified(F) = FalsifiedBy(soft, F)
    BY DEF OllWInv, OllWTyped, OllW!Falsified, FalsifiedBy
  <2> QED
    BY <2>1, OllWReads DEF OllW!Sat
<1>2. Sum(weight, F) = lbCost
  BY <1>1, NothingLeft
<1>3. lbCost \in Nat /\ \A G \in feasible : lbCost <= Sum(weight, G)
  BY OllWLower
<1>4. ubCost' \in Nat /\ ubCost' <= lbCost /\ model' \in feasible /\ ubCost' = Sum(weight, model')
  BY <1>2, OllWSaves
<1>5. lbCost <= ubCost'
  BY <1>3, <1>4
<1> QED
  BY <1>3, <1>4, <1>5

\* A satisfiable call keeps the invariant.
LEMMA OllWSat ==
  ASSUME OllWInv, status = "searching", NEW F \in feasible, OllW!Sat(F),
         UNCHANGED <<weight, feasible>>
  PROVE  OllWInv'
<1>1. /\ nbSatisfiable' \in Nat \ {0}
      /\ model' \in feasible /\ ubCost' = Sum(weight, model') /\ ubCost' \in Nat
  BY OllWSaves
<1>2. /\ OllWTyped /\ HeavyEncoded /\ CopiesAgree /\ WeightKept
      /\ UNCHANGED <<cards, soft, bounds, lbCost>>
  BY DEF OllW!Sat, OllWInv
<1>3. model' \in (SUBSET Soft) \cup {NULL}
  BY <1>1, <1>2, OllWFormula
<1>4. HeavyEncoded' /\ CopiesAgree'
  BY <1>2 DEF HeavyEncoded, CopiesAgree
<1>5. CASE nbSatisfiable = 0 \/ OllW!NotConsidered # {}
  <2> DEFINE first == nbSatisfiable = 0
             w == OllW!FindNextWeightDiversity(soft, bounds, minWeight, first)
  <2>1. status' = status /\ minWeight' = w /\ assumptions' = OllW!Assumed(soft, bounds, w)
    BY <1>5 DEF OllW!Sat, OllW!NextStratum
  <2>2. minWeight' \in Nat \/ Soft = {}
    <3>1. CASE Soft = {}
      BY <3>1
    <3>2. CASE Soft # {}
      <4>1. minWeight \in Nat /\ first \in BOOLEAN
        BY <1>2, <3>2 DEF OllWTyped
      <4> HIDE DEF first
      <4> QED
        BY <1>2, <2>1, <4>1, NextWeightIs
    <3> QED
      BY <3>1, <3>2
  <2> HIDE DEF w
  <2>3. OllWTyped'
    BY <1>1, <1>2, <1>3, <2>1, <2>2 DEF OllWTyped
  <2>4. WeightKept'
    BY <1>2, <2>1 DEF WeightKept
  <2>5. OllWWaiting' /\ OllWWorking' /\ OllWOptimum'
    BY <1>1, <1>2, <2>1 DEF OllWWaiting, OllWWorking, OllWOptimum
  <2> QED
    BY <1>4, <2>3, <2>4, <2>5 DEF OllWInv
<1>6. CASE nbSatisfiable # 0 /\ OllW!NotConsidered = {}
  <2>1. status' = "OPTIMUM" /\ minWeight' = minWeight /\ assumptions' = assumptions
    BY <1>6 DEF OllW!Sat
  <2>2. \A G \in feasible : ubCost' <= Sum(weight, G)
    BY <1>6, OllWLastModel
  <2>3. OllWTyped'
    BY <1>1, <1>2, <1>3, <2>1 DEF OllWTyped
  <2>4. WeightKept' /\ OllWWaiting' /\ OllWWorking'
    BY <2>1 DEF WeightKept, OllWWaiting, OllWWorking
  <2>5. OllWOptimum'
    BY <1>1, <2>2 DEF OllWOptimum
  <2> QED
    BY <1>4, <2>3, <2>4, <2>5 DEF OllWInv
<1> QED
  BY <1>5, <1>6

\* Every step of weighted OLL keeps the invariant.
LEMMA OllWStep ==
  ASSUME OllWInv, OllW!Next
  PROVE  OllWInv'
<1>1. status = "searching" /\ UNCHANGED <<weight, feasible>>
  BY DEF OllW!Next
<1>2. ASSUME NEW F \in feasible, OllW!Sat(F) PROVE OllWInv'
  BY <1>1, <1>2, OllWSat
<1>3. ASSUME NEW C \in SUBSET assumptions, OllW!BoundsMeet(C) \/ OllW!RelaxCore(C) PROVE OllWInv'
  BY <1>1, <1>3, OllWBoundsMeet, OllWRelaxCore
<1>4. ASSUME OllW!HardUnsatisfiable PROVE OllWInv'
  BY <1>1, <1>4, OllWHardUnsatisfiable
<1> QED
  BY <1>2, <1>3, <1>4 DEF OllW!Next

\* So does no step.
LEMMA OllWUnchanged ==
  ASSUME OllWInv, UNCHANGED <<cards, weight, feasible, soft, bounds, assumptions, minWeight,
                              lbCost, ubCost, nbSatisfiable, model, status>>
  PROVE  OllWInv'
BY DEF OllWInv, OllWTyped, HeavyEncoded, CopiesAgree, WeightKept, OllWWaiting, OllWWorking,
       OllWOptimum

\* At the start every soft clause is its own copy, and a model costs the weights of the
\* clauses it falsifies.
LEMMA OllWInit ==
  ASSUME OllW!Init
  PROVE  OllWInv
<1> DEFINE n == Cardinality(Soft)
           e == [i \in 1 .. n |-> [clause |-> i, weight |-> weight[i], active |-> FALSE]]
<1>1. /\ weight \in OllWeightings /\ feasible \in Instances
      /\ soft = [i \in Soft |-> [clause |-> i, weight |-> weight[i], active |-> FALSE]]
      /\ cards = <<>> /\ bounds = <<>> /\ assumptions = {}
      /\ minWeight = OllW!Max({weight[i] : i \in Soft})
      /\ lbCost = 0 /\ ubCost = 0 /\ nbSatisfiable = 0 /\ model = NULL /\ status = "searching"
  BY DEF OllW!Init
<1>2. /\ IsFiniteSet(Soft) /\ n \in Nat /\ Soft = 1 .. n
      /\ weight \in [Soft -> Nat \ {0}] /\ feasible \in SUBSET SUBSET Soft
  <2>1. OllWeightings # {} /\ IsFiniteSet(Soft)
    BY <1>1, FormulaAssumption
  <2>2. n \in Nat
    BY <2>1, FS_CardinalityType
  <2> QED
    BY <1>1, <2>1, <2>2, WeightsAssumption, FormulaAssumption
<1> HIDE DEF n
<1>3. soft = e
  BY <1>1, <1>2
<1>4. \A i \in 1 .. n : /\ e[i] \in Entries /\ e[i].clause = i /\ e[i].weight = weight[i]
                        /\ e[i].active = FALSE /\ weight[i] \in Nat \ {0}
  <2>1. ASSUME NEW i \in 1 .. n
        PROVE  /\ e[i] \in Entries /\ e[i].clause = i /\ e[i].weight = weight[i]
               /\ e[i].active = FALSE /\ weight[i] \in Nat \ {0}
    <3>1. i \in Soft /\ weight[i] \in Nat \ {0}
      BY <1>2
    <3>2. e[i] = [clause |-> i, weight |-> weight[i], active |-> FALSE]
      OBVIOUS
    <3> HIDE DEF e
    <3> QED
      BY <3>1, <3>2 DEF Entries
  <2> QED
    BY <2>1
<1>5. soft \in Seq(Entries) /\ Len(soft) = n
  <2>1. e \in [1 .. n -> Entries]
    BY <1>4
  <2> HIDE DEF e
  <2> QED
    BY <1>2, <1>3, <2>1, Tabulated
<1> HIDE DEF e
<1>6. DOMAIN bounds = {}
  BY <1>1
<1>7. minWeight \in Nat \/ Soft = {}
  <2> DEFINE T == {weight[i] : i \in Soft}
  <2>1. CASE Soft # {}
    <3>1. IsFiniteSet(T)
      BY <1>2, FiniteImage
    <3>2. T # {} /\ T \in SUBSET Nat
      BY <1>2, <2>1
    <3> HIDE DEF T
    <3>3. \E k \in T : \A j \in T : k >= j
      BY <3>1, <3>2, Largest
    <3>4. OllW!Max(T) \in T
      BY <3>3 DEF OllW!Max
    <3> QED
      BY <1>1, <3>2, <3>4 DEF T
  <2> QED
    BY <2>1
<1>8. OllWTyped
  <2>1. cards \in Seq(Counters) /\ Len(cards) = 0
    BY <1>1
  <2>2. WellFormed(cards)
    BY <2>1 DEF WellFormed
  <2>3. IsFiniteSet(DOMAIN bounds) /\ DOMAIN bounds \in SUBSET Outputs
        /\ bounds \in [DOMAIN bounds -> Nat \ {0}]
    BY <1>1, <1>6, FS_EmptySet
  <2> QED
    BY <1>1, <1>5, <1>7, <2>1, <2>2, <2>3 DEF OllWTyped
<1>9. HeavyEncoded
  BY <1>6 DEF HeavyEncoded
<1>10. CopiesAgree
  <2>1. ASSUME NEW c \in Soft
        PROVE  weight[c] = Sum(WeightsOf(soft), CopiesOf(soft, c))
    <3> DEFINE w == WeightsOf(soft)
    <3>1. CopiesOf(soft, c) = {c}
      BY <1>2, <1>3, <1>4, <1>5 DEF CopiesOf
    <3>2. w[c] = weight[c] /\ w[c] \in Int
      BY <1>2, <1>3, <1>4, <1>5 DEF WeightsOf
    <3> HIDE DEF w
    <3>3. IsFiniteSet({c}) /\ c \in {c} /\ \A x \in {c} : w[x] \in Int
      BY <3>2, FS_Singleton
    <3>4. Sum(w, {c}) = w[c] + Sum(w, {c} \ {c})
      BY <3>3, SumElement
    <3>5. Sum(w, {c} \ {c}) = 0
      <4>1. {c} \ {c} = {}
        OBVIOUS
      <4> QED
        BY <4>1, SumEmpty
    <3>6. Sum(w, {c}) = weight[c]
      BY <3>2, <3>4, <3>5
    <3> QED
      BY <3>1, <3>6 DEF w
  <2> QED
    BY <2>1 DEF CopiesAgree
<1>11. WeightKept
  <2>1. ASSUME NEW F \in feasible
        PROVE  Sum(weight, F) = lbCost + Sum(Pending(soft), FalsifiedBy(soft, F))
                 + Sum(Beyond(cards, bounds, FalsifiedBy(soft, F)), DOMAIN bounds)
    <3> DEFINE v == Pending(soft)
               b == Sum(Beyond(cards, bounds, FalsifiedBy(soft, F)), DOMAIN bounds)
    <3>1. F \in SUBSET Soft /\ IsFiniteSet(F)
      BY <1>2, FS_Subset
    <3>2. FalsifiedBy(soft, F) = F
      BY <1>2, <1>3, <1>4, <1>5, <3>1 DEF FalsifiedBy
    <3>3. \A i \in F : v[i] \in Int /\ v[i] = weight[i]
      BY <1>2, <1>3, <1>4, <1>5, <3>1 DEF Pending
    <3> HIDE DEF v
    <3>4. Sum(v, F) = Sum(weight, F)
      BY <3>1, <3>3, SumEqual
    <3>5. b = 0
      BY <1>6, SumEmpty
    <3>6. Sum(weight, F) \in Nat
      BY <1>8, <3>1, OllWFormula
    <3> HIDE DEF b
    <3>7. Sum(weight, F) = lbCost + Sum(v, F) + b
      BY <1>1, <3>4, <3>5, <3>6
    <3> QED
      BY <3>2, <3>7 DEF v, b
  <2> QED
    BY <1>1, <2>1 DEF WeightKept
<1>12. OllWWaiting /\ OllWWorking /\ OllWOptimum
  BY <1>1 DEF OllWWaiting, OllWWorking, OllWOptimum
<1> QED
  BY <1>8, <1>9, <1>10, <1>11, <1>12 DEF OllWInv

\* The invariant holds what the run checks of weighted OLL.
LEMMA OllWChecked ==
  ASSUME OllWInv
  PROVE  OllW!CostPreserved /\ OllW!CopiesShareWeight
<1>1. DOMAIN soft = 1 .. Len(soft)
  BY DEF OllWInv, OllWTyped
<1>2. OllW!Unpaid = Pending(soft)
  BY <1>1 DEF OllW!Unpaid, Pending
<1>3. \A F : OllW!Falsified(F) = FalsifiedBy(soft, F)
  BY <1>1 DEF OllW!Falsified, FalsifiedBy
<1>4. \A F : OllW!Exceeding(F) = Beyond(cards, bounds, FalsifiedBy(soft, F))
  BY <1>3, OllWReads DEF OllW!Exceeding, Beyond
<1>5. OllW!CostPreserved
  BY <1>2, <1>3, <1>4, OllWSums DEF OllW!CostPreserved, OllWInv, WeightKept
<1>6. OllW!CopiesShareWeight
  <2>1. [i \in DOMAIN soft |-> soft[i].weight] = WeightsOf(soft)
    BY <1>1 DEF WeightsOf
  <2>2. \A c : {i \in DOMAIN soft : soft[i].clause = c} = CopiesOf(soft, c)
    BY <1>1 DEF CopiesOf
  <2> QED
    BY <2>1, <2>2, OllWSums DEF OllW!CopiesShareWeight, OllWInv, CopiesAgree
<1> QED
  BY <1>5, <1>6

\* A step of weighted OLL is a step of the weighted search.
LEMMA OllWImplements ==
  ASSUME OllWInv, OllW!Next, algorithm = "oll_weighted", algorithm' = algorithm
  PROVE  [Promise!Next]_(Promise!vars)
<1> USE PromiseSums DEF Promise!IsLowerBound
<1>1. /\ status = "searching" /\ UNCHANGED <<weight, feasible>> /\ lbCost \in Nat
      /\ nbSatisfiable \in Nat /\ OllWTyped
      /\ nbSatisfiable = 0 => lbCost = 0 /\ model = NULL /\ assumptions = {}
      /\ \A F \in feasible : lbCost <= Sum(weight, F)
      /\ status' \in {"searching", "OPTIMUM", "UNSATISFIABLE"}
  BY OllWStep, OllWLower DEF OllW!Next, OllWInv, OllWTyped, OllWWaiting
<1>2. ASSUME NEW F \in feasible, OllW!Sat(F)
      PROVE  [Promise!Next]_(Promise!vars)
  <2>1. /\ nbSatisfiable' \in Nat \ {0} /\ lbCost' = lbCost
        /\ model' \in feasible /\ ubCost' = Sum(weight, model')
        /\ model' = model \/ (model' = F /\ (model # NULL => Sum(weight, F) < Sum(weight, model)))
    BY <1>1, <1>2, OllWSaves DEF OllW!Sat
  <2>2. CASE nbSatisfiable = 0 \/ OllW!NotConsidered # {}
    <3>1. status' = status
      BY <1>2, <2>2 DEF OllW!Sat
    <3>2. CASE model' = model
      BY <1>1, <2>1, <3>1, <3>2 DEF Promise!vars
    <3>3. CASE model' = F /\ (model # NULL => Sum(weight, F) < Sum(weight, model))
      <4>1. Promise!Improve
        BY <1>1, <2>1, <3>1, <3>3 DEF Promise!Improve
      <4> QED
        BY <1>1, <4>1 DEF Promise!Next
    <3> QED
      BY <2>1, <3>2, <3>3
  <2>3. CASE nbSatisfiable # 0 /\ OllW!NotConsidered = {}
    <3>1. status' = "OPTIMUM"
      BY <1>2, <2>3 DEF OllW!Sat
    <3>2. \A G \in feasible : Sum(weight, model') <= Sum(weight, G)
      BY <1>1, <1>2, <2>1, <2>3, OllWLastModel
    <3>3. Promise!Conclude
      BY <1>1, <2>1, <3>1, <3>2 DEF Promise!Conclude
    <3> QED
      BY <1>1, <3>3 DEF Promise!Next
  <2> QED
    BY <2>2, <2>3
<1>3. ASSUME OllW!HardUnsatisfiable
      PROVE  [Promise!Next]_(Promise!vars)
  <2>1. /\ feasible = {} /\ nbSatisfiable' = 0 /\ nbSatisfiable = 0 /\ model' = model
        /\ status' = "UNSATISFIABLE"
    BY <1>1, <1>3, OllWHardUnsatisfiable DEF OllW!HardUnsatisfiable
  <2>2. Promise!Refute
    BY <1>1, <2>1 DEF Promise!Refute
  <2> QED
    BY <1>1, <2>2 DEF Promise!Next
<1>4. ASSUME NEW C \in SUBSET assumptions, OllW!BoundsMeet(C)
      PROVE  [Promise!Next]_(Promise!vars)
  <2>1. /\ model \in feasible /\ model' = model /\ status' = "OPTIMUM"
        /\ lbCost' = Sum(weight, model) /\ lbCost' > lbCost
        /\ \A F \in feasible : Sum(weight, model) <= Sum(weight, F)
    BY <1>1, <1>4, OllWBoundsMeet
  <2>2. nbSatisfiable' = nbSatisfiable /\ nbSatisfiable # 0
    BY <1>1, <1>4 DEF OllW!BoundsMeet, OllW!Unsat
  <2>3. Promise!Conclude
    BY <1>1, <2>1, <2>2 DEF Promise!Conclude
  <2> QED
    BY <1>1, <2>3 DEF Promise!Next
<1>5. ASSUME NEW C \in SUBSET assumptions, OllW!RelaxCore(C)
      PROVE  [Promise!Next]_(Promise!vars)
  <2> DEFINE m == OllW!MinCore(C)
  <2>1. /\ OllW!Unsat(C) /\ nbSatisfiable # 0 /\ nbSatisfiable' = nbSatisfiable
        /\ model' = model /\ status' = status
    BY <1>1, <1>5 DEF OllW!RelaxCore, OllW!Unsat
  <2>2. m = OllW!MinCore(C)
    OBVIOUS
  <2> HIDE DEF m
  <2>3. /\ m \in Nat \ {0} /\ lbCost' = lbCost + m
        /\ \A F \in feasible : lbCost + m <= Sum(weight, F)
    BY <1>1, <2>1, <2>2, OllWCore
  <2>4. Promise!RaiseBound
    BY <1>1, <2>1, <2>3 DEF Promise!RaiseBound
  <2> QED
    BY <1>1, <2>4 DEF Promise!Next
<1> QED
  BY <1>1, <1>2, <1>3, <1>4, <1>5 DEF OllW!Next

\* Its start is one of the weighted search.
LEMMA OllWPromiseInit ==
  ASSUME OllW!Init, algorithm = "oll_weighted"
  PROVE  Promise!Init
<1>1. weight \in [Soft -> Nat] /\ feasible \in SUBSET SUBSET Soft
  BY WeightsAssumption, FormulaAssumption DEF OllW!Init
<1> QED
  BY <1>1 DEF OllW!Init, Promise!Init

-----------------------------------------------------------------------------
(***************************************************************************)
(* All searches: the state of the one that runs.                           *)
(***************************************************************************)

\* The program runs one search; the others have no state.
SearchInv ==
  /\ algorithm = "msu3" => Inv
  /\ algorithm = "sequential" => SequentialInv
  /\ algorithm = "oll" => OllInv
  /\ algorithm = "linearsu" => LinearInv
  /\ algorithm = "oll_weighted" => OllWInv

\* It holds initially,
LEMMA SearchInvInit == SearchInit => SearchInv
<1>1. Init => Inv
  BY InitInv
<1>2. Sequential!Init => SequentialInv
  BY SequentialInit
<1>3. Oll!Init => OllInv
  BY OllInit
<1>4. Linear!Init => LinearInv
  BY LinearInit
<1>5. OllW!Init => OllWInv
  BY OllWInit
<1> QED
  BY <1>1, <1>2, <1>3, <1>4, <1>5 DEF SearchInit, SearchInv

\* when nothing changes,
LEMMA SearchInvUnchanged ==
  ASSUME SearchInv, UNCHANGED searchVars
  PROVE  SearchInv'
<1>1. /\ UNCHANGED vars /\ UNCHANGED order /\ UNCHANGED <<cards, bounds>> /\ algorithm' = algorithm
      /\ UNCHANGED <<soft, weight, minWeight>> /\ UNCHANGED linear
  BY DEF searchVars, others, oll
<1>2. UNCHANGED <<cards, feasible, activeSoft, bounds, assumptions, lbCost, ubCost,
                  nbSatisfiable, model, status>>
  BY <1>1 DEF vars
<1>3. Inv => Inv'
  BY <1>1, NextInv
<1>4. SequentialInv => SequentialInv'
  BY <1>1, SequentialUnchanged
<1>5. OllInv => OllInv'
  BY <1>2, OllUnchanged
<1>6. LinearInv => LinearInv'
  BY <1>1, <1>2, LinearUnchanged
<1>7. OllWInv => OllWInv'
  BY <1>1, <1>2, OllWUnchanged
<1> QED
  BY <1>1, <1>3, <1>4, <1>5, <1>6, <1>7 DEF SearchInv

\* and after a step of the search that runs, which stays the same.
LEMMA SearchInvNext ==
  ASSUME SearchInv, [SearchNext]_searchVars
  PROVE  SearchInv'
<1>1. Inv /\ Next => Inv'
  BY NextInv
<1>2. SequentialInv /\ Sequential!Next => SequentialInv'
  BY SequentialStep
<1>3. OllInv /\ Oll!Next => OllInv'
  BY OllStep
<1>4. LinearInv /\ Linear!Next => LinearInv'
  BY LinearStep
<1>5. OllWInv /\ OllW!Next => OllWInv'
  BY OllWStep
<1>6. ASSUME SearchNext PROVE algorithm' = algorithm
  BY <1>6 DEF SearchNext, others
<1>7. ASSUME SearchNext PROVE SearchInv'
  BY <1>1, <1>2, <1>3, <1>4, <1>5, <1>6, <1>7 DEF SearchNext, SearchInv
<1> QED
  BY <1>7, SearchInvUnchanged

\* The invariant of the search that runs, whatever others the program has.
THEOREM SearchInvariance == SearchSpec => []SearchInv
  BY SearchInvInit, SearchInvNext, PTL DEF SearchSpec

\* The encodings of MSU3, of both sequential strategies of PartMSU3 and of OLL keep up
\* with the search: clauses handed over are assumed or counted, cores are made of live
\* bounds (Alg_MSU3.cc:154-169, Alg_PartMSU3.cc:601-640, Alg_OLL.cc:186-206).
THEOREM EncodingsStayInSync == SearchSpec => []EncodingsInSync
<1>1. SearchInv => EncodingsInSync
  <2>1. OllInv => Oll!BoundsAreLive
    BY OllChecked
  <2>2. SequentialInv => Sequential!NothingDropped
    BY DEF SequentialInv
  <2> QED
    BY <2>1, <2>2 DEF SearchInv, EncodingsInSync, Inv
<1> QED
  BY <1>1, SearchInvariance, PTL

\* The copies of a clause share its weight however often cores split it, LinearSU updates
\* the encoding of its own weight, and UNSATISFIABLE is said before any model only
\* (Alg_OLL.cc:324 and 448-724, Alg_LinearSU.cc:128-144).
THEOREM WeightsStayInSync == SearchSpec => []WeightsInSync
<1>1. SearchInv => WeightsInSync
  <2>1. OllWInv => OllW!CopiesShareWeight
    BY OllWChecked
  <2>2. LinearInv => Linear!UpdatesOwnEncoding /\ Linear!UnsatIsInfeasible
    BY LinearChecked
  <2> QED
    BY <2>1, <2>2 DEF SearchInv, WeightsInSync
<1> QED
  BY <1>1, SearchInvariance, PTL

\* The searches of unweighted formulas, and those of weighted ones that have a proof.
Unweight == {"msu3", "sequential", "oll"}
Weighing == {"linearsu", "oll_weighted"}

\* One of the searches of the run.
AlgorithmOK == algorithm \in Algorithms

\* No step changes the search.
LEMMA AlgorithmStays == SearchSpec => []AlgorithmOK
<1>1. SearchInit => AlgorithmOK
  BY DEF SearchInit, AlgorithmOK
<1>2. AlgorithmOK /\ [SearchNext]_searchVars => AlgorithmOK'
  BY DEF AlgorithmOK, SearchNext, searchVars, others
<1> QED
  BY <1>1, <1>2, PTL DEF SearchSpec

\* OLL counts nothing twice and loses nothing: at every step the cost of every model is
\* what the cores have paid, plus the soft clauses still assumed, plus what exceeds the
\* bounds (Alg_OLL.cc:183-272 and 448-724), for every formula, however cores nest and
\* however they split clauses, copies and bounds of different weights.
THEOREM CostIsPreserved ==
  ASSUME Algorithms \in SUBSET (Unweight \cup Weighing)
  PROVE  SearchSpec => []CostPreserved
<1>1. SearchInv /\ AlgorithmOK => CostPreserved
  <2>1. OllInv => Oll!CostPreserved
    BY OllChecked
  <2>2. OllWInv => OllW!CostPreserved
    BY OllWChecked
  <2> QED
    BY <2>1, <2>2 DEF SearchInv, AlgorithmOK, CostPreserved, Unweight, Weighing
<1> QED
  BY <1>1, SearchInvariance, AlgorithmStays, PTL

\* OPTIMUM is answered with a model of minimum cost, by MSU3, by both sequential
\* strategies and by OLL.
THEOREM AnswersCheapest ==
  ASSUME Algorithms \in SUBSET Unweight
  PROVE  SearchSpec => []OptimumIsOptimal
<1>1. SearchInv /\ AlgorithmOK => OptimumIsOptimal
  BY DEF SearchInv, AlgorithmOK, Unweight, Inv, SequentialInv, OllInv
<1> QED
  BY <1>1, SearchInvariance, AlgorithmStays, PTL

\* OPTIMUM is answered with a model of least weight, by LinearSU also when it optimises
\* the weights one by one (Alg_LinearSU.cc:60-177), and by OLL also when it considers them
\* in strata (Alg_OLL.cc:342-446).
THEOREM AnswersLeastWeight ==
  ASSUME Algorithms \in SUBSET Weighing
  PROVE  SearchSpec => []OptimumIsCheapest
<1>1. SearchInv /\ AlgorithmOK => OptimumIsCheapest
  <2>1. OllWInv => OptimumIsCheapest
    BY RunSums DEF OllWInv, OllWOptimum, OptimumIsCheapest
  <2>2. LinearInv => OptimumIsCheapest
    BY RunSums DEF LinearInv, LinearOptimum, OptimumIsCheapest
  <2> QED
    BY <2>1, <2>2 DEF SearchInv, AlgorithmOK, Weighing
<1> QED
  BY <1>1, SearchInvariance, AlgorithmStays, PTL

\* A step of the search that runs is a step of the MaxSAT search.
LEMMA SearchStepImplements ==
  ASSUME SearchInv, AlgorithmOK, Algorithms \in SUBSET Unweight, [SearchNext]_searchVars
  PROVE  [Search!Next]_(Search!vars)
<1>1. CASE UNCHANGED searchVars
  BY <1>1 DEF searchVars, vars, Search!vars
<1>2. Inv /\ Next => [Search!Next]_(Search!vars)
  BY StepImplements
<1>3. SequentialInv /\ Sequential!Next => [Search!Next]_(Search!vars)
  BY SequentialImplements
<1>4. OllInv /\ Oll!Next => [Search!Next]_(Search!vars)
  BY OllImplements
<1>5. CASE SearchNext
  BY <1>2, <1>3, <1>4, <1>5 DEF SearchNext, SearchInv, AlgorithmOK, Unweight
<1> QED
  BY <1>1, <1>5

\* So is its start.
LEMMA SearchInitImplements ==
  ASSUME SearchInit, Algorithms \in SUBSET Unweight
  PROVE  Search!Init
<1>1. Init \/ Sequential!Init \/ Oll!Init
  BY DEF SearchInit, Unweight
<1> QED
  BY <1>1 DEF Init, Sequential!Init, Oll!Init, Search!Init

\* MSU3, the sequential strategies of PartMSU3 and OLL implement the MaxSAT search: the
\* model only improves, the bound only rises to what every model costs, up to an answer.
THEOREM SearchesImplement ==
  ASSUME Algorithms \in SUBSET Unweight
  PROVE  SearchSpec => ImplementsSearch
<1>1. SearchInit => Search!Init
  BY SearchInitImplements
<1>2. SearchInv /\ AlgorithmOK /\ [SearchNext]_searchVars => [Search!Next]_(Search!vars)
  BY SearchStepImplements
<1> QED
  BY <1>1, <1>2, SearchInvariance, AlgorithmStays, PTL
     DEF SearchSpec, ImplementsSearch, Search!Spec

\* A step of a weighted search is one of the weighted MaxSAT search.
LEMMA WeightedStepImplements ==
  ASSUME SearchInv, AlgorithmOK, Algorithms \in SUBSET Weighing, [SearchNext]_searchVars
  PROVE  [Promise!Next]_(Promise!vars)
<1>1. CASE UNCHANGED searchVars
  BY <1>1 DEF searchVars, others, vars, Promise!vars
<1>2. ASSUME LinearInv, Linear!Next, algorithm = "linearsu", algorithm' = algorithm
      PROVE  [Promise!Next]_(Promise!vars)
  BY <1>2, LinearImplements
<1>3. ASSUME OllWInv, OllW!Next, algorithm = "oll_weighted", algorithm' = algorithm
      PROVE  [Promise!Next]_(Promise!vars)
  BY <1>3, OllWImplements
<1>4. CASE SearchNext
  BY <1>2, <1>3, <1>4 DEF SearchNext, SearchInv, AlgorithmOK, Weighing
<1> QED
  BY <1>1, <1>4

\* LinearSU and OLL keep the promise of the weighted MaxSAT search: at every step, and so
\* when they are interrupted, the saved model is one of the formula and the bound is one
\* that no model beats; only a cheaper model replaces it, up to an optimal one.
THEOREM WeightedSearchesKeepPromise ==
  ASSUME Algorithms \in SUBSET Weighing
  PROVE  SearchSpec => KeepsPromise
<1>1. SearchInit => Promise!Init
  BY LinearPromiseInit, OllWPromiseInit DEF SearchInit, Weighing
<1> DEFINE Step == Promise!Next \/ (algorithm = "wbo" /\ feasible = {})
<1>2. SearchInv /\ AlgorithmOK /\ [SearchNext]_searchVars => [Step]_(Promise!vars)
  BY WeightedStepImplements
<1> HIDE DEF Step
<1>3. SearchSpec => Promise!Init /\ [][Step]_(Promise!vars)
  BY <1>1, <1>2, SearchInvariance, AlgorithmStays, PTL DEF SearchSpec
<1> QED
  BY <1>3 DEF KeepsPromise, Step
=============================================================================
