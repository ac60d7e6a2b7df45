---------------------------- MODULE OLLWeighted ----------------------------
(***************************************************************************)
(* OLL::weighted of src/src/algorithms/Alg_OLL.cc.  A core is paid for     *)
(* with its smallest weight: heavier soft clauses and bounds in it are     *)
(* split, one part joins the core, the rest stays assumed.  Light literals *)
(* are left out until the heavy ones are satisfied (stratification).       *)
(***************************************************************************)
EXTENDS CoreGuided, FiniteSetsExt, SequencesExt

CONSTANTS
  NULL,        \* no model
  UintMax,     \* UINT64_MAX
  Weightings,  \* the weightings considered, functions from Soft
  Instances    \* the formulas: families of falsified sets

VARIABLES
  cards,          \* soft_cardinality: [lits, upTo], upTo the highest output encoded
  weight,         \* the weights of the formula; never changes
  feasible,       \* the models of the hard clauses; never changes
  soft,           \* the soft clauses with the copies made: clause, weight, active
  bounds,         \* weight of each literal in cardinality_assumptions
  assumptions,    \* literals assumed false by the next SAT call
  minWeight,      \* min_weight: lighter literals are not assumed yet
  lbCost, ubCost, \* the bounds
  nbSatisfiable,  \* number of satisfiable SAT calls, MaxSatisfiable for more
  model,          \* the saved model, or NULL
  status          \* "searching", "OPTIMUM" or "UNSATISFIABLE"

vars == <<cards, weight, feasible, soft, bounds, assumptions, minWeight,
          lbCost, ubCost, nbSatisfiable, model, status>>

\* The search distinguishes no more than no, one and several models.
MaxSatisfiable == 2

-----------------------------------------------------------------------------
Cost(F) == MapThenSumSet(LAMBDA i : weight[i], F)

\* The soft clauses and copies that the model F falsifies.
Falsified(F) == {i \in DOMAIN soft : soft[i].clause \in F}

WeightOf(l) == IF IsSoft(l) THEN soft[l[2]].weight ELSE bounds[l]

\* The literals the search counts, active clauses among them.
Considered(sf, bs, w) ==
  {SoftLit(i) : i \in {j \in DOMAIN sf : sf[j].weight >= w}}
    \cup {l \in DOMAIN bs : bs[l] >= w}

InUse(sf, bs) == {sf[i].weight : i \in DOMAIN sf} \cup {bs[l] : l \in DOMAIN bs}

\* Enough literals per weight (alpha = 1.25), or all of them.
Diverse(sf, bs, w) ==
  LET n == Cardinality(Considered(sf, bs, w))
  IN  \/ 4 * n > 5 * Cardinality({v \in InUse(sf, bs) : v >= w})
      \/ n = Len(sf) + Cardinality(DOMAIN bs)

\* findNextWeight: the weights it steps through below w, down to 1.
Below(sf, bs, w) == {1} \cup {v \in InUse(sf, bs) : v < w}

\* findNextWeightDiversity: after the first model the current weight may stay.
FindNextWeightDiversity(sf, bs, w, first) ==
  Max({v \in Below(sf, bs, w) \cup (IF first THEN {w} ELSE {}) : Diverse(sf, bs, v)})

Assumed(sf, bs, w) ==
  {l \in Considered(sf, bs, w) : IsSoft(l) => ~ sf[l[2]].active}

Init ==
  /\ weight \in Weightings
  /\ feasible \in Instances
  /\ soft = [i \in Soft |-> [clause |-> i, weight |-> weight[i], active |-> FALSE]]
  /\ cards = <<>>
  /\ bounds = <<>>
  /\ assumptions = {}
  /\ minWeight = Max({weight[i] : i \in Soft})
  /\ lbCost = 0
  /\ ubCost = 0
  /\ nbSatisfiable = 0
  /\ model = NULL
  /\ status = "searching"

-----------------------------------------------------------------------------
Save(F) ==
  IF Cost(F) < ubCost \/ nbSatisfiable = 0
    THEN model' = F /\ ubCost' = Cost(F)
    ELSE UNCHANGED <<model, ubCost>>

\* l_True with literals left out: they are considered next.
NextStratum(F) ==
  LET w == FindNextWeightDiversity(soft, bounds, minWeight, nbSatisfiable = 0)
  IN  /\ minWeight' = w
      /\ assumptions' = Assumed(soft, bounds, w)

NotConsidered == InUse(soft, bounds) \cap 0 .. minWeight - 1

Sat(F) ==
  /\ \A l \in assumptions : ~ True(cards, Falsified(F), l)
  /\ Save(F)
  /\ nbSatisfiable' = Min({nbSatisfiable + 1, MaxSatisfiable})
  /\ IF nbSatisfiable = 0 \/ NotConsidered # {}
       THEN NextStratum(F) /\ UNCHANGED status
       ELSE status' = "OPTIMUM" /\ UNCHANGED <<minWeight, assumptions>>
  /\ UNCHANGED <<cards, soft, bounds, lbCost>>

\* An increasing comparison.
MinCoreWrongly(C) ==
  IF C = {} THEN UintMax ELSE Max({WeightOf(l) : l \in C})

MinCore(C) == Min({WeightOf(l) : l \in C} \cup {UintMax})

\* l_False with the conflict C; an empty one adds UINT64_MAX.
Unsat(C) ==
  /\ ~ \E F \in feasible : \A l \in C : ~ True(cards, Falsified(F), l)
  /\ lbCost' = (lbCost + MinCore(C)) % (UintMax + 1)
  /\ UNCHANGED <<ubCost, nbSatisfiable, model, minWeight>>

HardUnsatisfiable ==
  /\ nbSatisfiable = 0
  /\ Unsat({})
  /\ status' = "UNSATISFIABLE"
  /\ UNCHANGED <<cards, soft, bounds, assumptions>>

BoundsMeet(C) ==
  /\ nbSatisfiable > 0
  /\ lbCost + MinCore(C) = ubCost
  /\ Unsat(C)
  /\ status' = "OPTIMUM"
  /\ UNCHANGED <<cards, soft, bounds, assumptions>>

\* The clauses of C that are heavier than the core.
Heavy(C, m) == SetToSeq({i \in DOMAIN soft : SoftLit(i) \in C /\ soft[i].weight > m})

\* The whole weight joins the core.
SplitSoftWrongly(C, m) ==
  [i \in DOMAIN soft |->
     IF SoftLit(i) \in C THEN [soft[i] EXCEPT !.active = TRUE] ELSE soft[i]]
    \o [j \in DOMAIN Heavy(C, m) |->
          [clause |-> soft[Heavy(C, m)[j]].clause, weight |-> m, active |-> TRUE]]

\* A heavier clause keeps the rest of its weight and gets an active copy; a
\* clause of weight m becomes active itself.
SplitSoft(C, m) ==
  [i \in DOMAIN soft |->
     IF SoftLit(i) \notin C THEN soft[i]
     ELSE IF soft[i].weight > m THEN [soft[i] EXCEPT !.weight = @ - m]
     ELSE [soft[i] EXCEPT !.active = TRUE]]
    \o [j \in DOMAIN Heavy(C, m) |->
          [clause |-> soft[Heavy(C, m)[j]].clause, weight |-> m, active |-> TRUE]]

\* The literals of the clauses of C that join the core: itself or its copy.
SoftRelax(C, m) ==
  {l \in C : IsSoft(l) /\ WeightOf(l) = m}
    \cup {SoftLit(Len(soft) + j) : j \in DOMAIN Heavy(C, m)}

Equal(C, m) == {l \in C : ~ IsSoft(l) /\ WeightOf(l) = m}
Split(C, m) == SetToSeq({l \in C : ~ IsSoft(l) /\ WeightOf(l) > m})

\* Bounds of weight m are raised by one; the totalizer of a heavier one is
\* duplicated, and the duplicate raised.
RelaxCards(C, m) ==
  RaiseAll(cards, Equal(C, m))
    \o [j \in DOMAIN Split(C, m) |->
          Card(cards[Split(C, m)[j][2]].lits, Split(C, m)[j][3] + 1)]

\* The output of each duplicate that joins the core.
Duplicates(C, m) == {OutLit(Len(cards) + j, Split(C, m)[j][3]) : j \in DOMAIN Split(C, m)}

CardinalityRelax(C, m) == Equal(C, m) \cup Duplicates(C, m)

\* Bounds of weight m go, heavier ones keep the rest of their weight, and what
\* was raised or is new gets weight m.
BoundsAfter(cs, C, m, new) ==
  LET next == UNION {NextBound(cs, l) : l \in CardinalityRelax(C, m)}
  IN  [l \in (DOMAIN bounds \ Equal(C, m)) \cup next \cup new |->
         IF l \in next \cup new THEN m
         ELSE IF l \in C THEN bounds[l] - m
         ELSE bounds[l]]

RelaxCore(C) ==
  LET m      == MinCore(C)
      relax  == SoftRelax(C, m) \cup CardinalityRelax(C, m)
      isUnit == Cardinality(relax) = 1
      cs     == IF isUnit THEN RelaxCards(C, m) ELSE Append(RelaxCards(C, m), Card(relax, 1))
  IN  /\ nbSatisfiable > 0
      /\ lbCost + m # ubCost
      /\ Unsat(C)
      /\ soft' = SplitSoft(C, m)
      /\ cards' = cs
      /\ bounds' = BoundsAfter(cs, C, m, IF isUnit THEN {} ELSE {OutLit(Len(cs), 1)})
      /\ assumptions' = Assumed(soft', bounds', minWeight)
      /\ UNCHANGED status

Next ==
  /\ status = "searching"
  /\ \/ \E F \in feasible : Sat(F)
     \/ HardUnsatisfiable
     \/ \E C \in SUBSET assumptions : BoundsMeet(C) \/ RelaxCore(C)
  /\ UNCHANGED <<weight, feasible>>

Spec == Init /\ [][Next]_vars

-----------------------------------------------------------------------------
\* What assuming a soft clause may still cost, none once it is active.
Unpaid == [i \in DOMAIN soft |-> IF soft[i].active THEN 0 ELSE soft[i].weight]

\* What exceeds each bound under the model F, by weight.
Exceeding(F) == [l \in DOMAIN bounds |-> bounds[l] * Excess(cards, Falsified(F), l)]

\* At every step the cost of every model is what the cores have paid, plus the
\* weights of the soft clauses still to be assumed, plus what exceeds the bounds
\* (Alg_OLL.cc:448-724): splitting neither loses weight nor counts it twice.
CostPreserved ==
  status = "searching" /\ nbSatisfiable > 0 =>
    \A F \in feasible :
      Cost(F) = lbCost + SumFunctionOnSet(Unpaid, Falsified(F))
                       + SumFunctionOnSet(Exceeding(F), DOMAIN bounds)

\* Copies share the weight of their clause, so that computeCostModel, which
\* adds up all of them, is still the cost of the formula (Alg_OLL.cc:324).
CopiesShareWeight ==
  \A c \in Soft :
    weight[c] = SumFunctionOnSet([i \in DOMAIN soft |-> soft[i].weight],
                                 {i \in DOMAIN soft : soft[i].clause = c})
=============================================================================
