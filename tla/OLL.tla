-------------------------------- MODULE OLL --------------------------------
(***************************************************************************)
(* OLL::unweighted of src/src/algorithms/Alg_OLL.cc: each core is replaced *)
(* by a soft cardinality constraint that allows one of its literals, and a *)
(* constraint found in a core allows one more.                             *)
(***************************************************************************)
EXTENDS CoreGuided, FiniteSetsExt

CONSTANTS
  NULL,       \* no model
  Instances   \* the formulas: families of falsified sets

VARIABLES
  cards,          \* soft_cardinality: [lits, upTo], upTo the highest output encoded
  feasible,       \* the models of the hard clauses; never changes
  activeSoft,     \* the relaxed soft clauses
  bounds,         \* cardinality_assumptions
  assumptions,    \* literals assumed false by the next SAT call
  lbCost, ubCost, \* the bounds
  nbSatisfiable,  \* number of satisfiable SAT calls
  model,          \* the saved model, or NULL
  status          \* "searching", "OPTIMUM" or "UNSATISFIABLE"

vars == <<cards, feasible, activeSoft, bounds, assumptions, lbCost, ubCost,
          nbSatisfiable, model, status>>

SoftLits(S) == {SoftLit(i) : i \in S}

Init ==
  /\ cards = <<>>
  /\ feasible \in Instances
  /\ activeSoft = {}
  /\ bounds = {}
  /\ assumptions = {}
  /\ lbCost = 0
  /\ ubCost = 0
  /\ nbSatisfiable = 0
  /\ model = NULL
  /\ status = "searching"

-----------------------------------------------------------------------------
\* l_True: every model is saved; the first starts the search unless it is
\* free, the next is taken for optimal.
Sat(F) ==
  /\ \A l \in assumptions : ~ True(cards, F, l)
  /\ model' = F
  /\ ubCost' = Cardinality(F)
  /\ nbSatisfiable' = nbSatisfiable + 1
  /\ IF nbSatisfiable = 0 /\ F # {}
       THEN assumptions' = SoftLits(Soft) /\ UNCHANGED status
       ELSE status' = "OPTIMUM" /\ UNCHANGED assumptions
  /\ UNCHANGED <<cards, feasible, activeSoft, bounds, lbCost>>

\* l_False with the conflict C: the bound is raised first of all.
Unsat(C) ==
  /\ ~ \E F \in feasible : \A l \in C : ~ True(cards, F, l)
  /\ lbCost' = lbCost + 1
  /\ UNCHANGED <<feasible, ubCost, nbSatisfiable, model>>

HardUnsatisfiable ==
  /\ nbSatisfiable = 0
  /\ Unsat({})
  /\ status' = "UNSATISFIABLE"
  /\ UNCHANGED <<cards, activeSoft, bounds, assumptions>>

BoundsMeet(C) ==
  /\ nbSatisfiable > 0
  /\ lbCost + 1 = ubCost
  /\ Unsat(C)
  /\ status' = "OPTIMUM"
  /\ UNCHANGED <<cards, activeSoft, bounds, assumptions>>

\* The bound just exceeded is dropped for good.
BoundsAfterWrongly(cs, C) ==
  LET outs == {l \in C : ~ IsSoft(l)}
  IN  (bounds \ outs) \cup (IF Cardinality(C) > 1 THEN {OutLit(Len(cs), 1)} ELSE {})

\* Each bound of the core gives way to the next one of its totalizer; the core
\* itself gets the bound 1, unless it is a single literal.
BoundsAfter(cs, C) ==
  LET outs == {l \in C : ~ IsSoft(l)}
  IN  (bounds \ outs)
        \cup (UNION {NextBound(cs, l) : l \in outs})
        \cup (IF Cardinality(C) > 1 THEN {OutLit(Len(cs), 1)} ELSE {})

Assumed(active, bs) == SoftLits(Soft \ active) \cup bs

RelaxCore(C) ==
  LET raised == RaiseAll(cards, {l \in C : ~ IsSoft(l)})
      cs     == IF Cardinality(C) > 1 THEN Append(raised, Card(C, 1)) ELSE raised
  IN  /\ nbSatisfiable > 0
      /\ lbCost + 1 # ubCost
      /\ Unsat(C)
      /\ cards' = cs
      /\ activeSoft' = activeSoft \cup {i \in Soft : SoftLit(i) \in C}
      /\ bounds' = BoundsAfter(cs, C)
      /\ assumptions' = Assumed(activeSoft', bounds')
      /\ UNCHANGED status

Next ==
  /\ status = "searching"
  /\ \/ \E F \in feasible : Sat(F)
     \/ HardUnsatisfiable
     \/ \E C \in SUBSET assumptions : BoundsMeet(C) \/ RelaxCore(C)

Spec == Init /\ [][Next]_vars

-----------------------------------------------------------------------------
SumExcess(F, B) == SumFunctionOnSet([l \in B |-> Excess(cards, F, l)], B)

\* Why OLL is right: at every step the cost of every model is what the cores
\* have paid, plus the soft clauses still assumed, plus what exceeds the
\* bounds still assumed (Alg_OLL.cc:183-272).  Nothing is counted twice or
\* lost when a constraint enters another core.
CostPreserved ==
  status = "searching" /\ nbSatisfiable > 0 =>
    \A F \in feasible :
      Cardinality(F) = lbCost + Cardinality(F \ activeSoft) + SumExcess(F, bounds)

\* A core is made of literals that can be relaxed: no clause is relaxed twice
\* and every bound in it is still assumed (assertions at Alg_OLL.cc:186, 197),
\* at most one bound per totalizer, encoded as far as it is used (206).
BoundsAreLive ==
  /\ assumptions \cap SoftLits(activeSoft) = {}
  /\ \A l \in assumptions : ~ IsSoft(l) => l \in bounds
  /\ \A l \in bounds : /\ l[3] < Cardinality(cards[l[2]].lits)
                       /\ cards[l[2]].upTo = l[3]
=============================================================================
