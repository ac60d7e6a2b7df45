------------------------------ MODULE LinearSU ------------------------------
(***************************************************************************)
(* src/src/algorithms/Alg_LinearSU.cc: linear search from above.  Each     *)
(* model tightens a bound on the cost until the solver refutes it.  For    *)
(* weights in lexicographic order (isBMO in src/src/MaxSAT.cc) one weight  *)
(* at a time is optimised, and its optimum becomes a hard constraint.      *)
(*                                                                         *)
(* `models' is what the SAT solver still allows: the falsified sets of the *)
(* hard clauses that meet the constraints encoded so far.                  *)
(***************************************************************************)
EXTENDS Integers, FiniteSetsExt, SequencesExt

CONSTANTS
  Soft,         \* indices of the soft clauses
  NULL,         \* no model
  Weightings,   \* the weightings considered, functions from Soft to Nat
  Instances     \* the formulas: families of falsified sets

VARIABLES
  weight,         \* the weight of each soft clause; never changes
  feasible,       \* the models of the hard clauses; never changes
  bmo,            \* bmoSearch is running, otherwise normalSearch
  models,         \* the models the SAT solver allows
  posWeight,      \* position in orderWeights, counted from 1
  functions,      \* functions: optimised weights with their optima
  encoded,        \* the literals of the encoder's encoding, {} for none
  localCost,      \* cost at the current weight, 0 before its first model
  lbCost, ubCost, \* the bounds
  nbSatisfiable,  \* number of satisfiable SAT calls
  model,          \* the saved model, or NULL
  status          \* "searching", "OPTIMUM", "UNSATISFIABLE", "undefined"

vars == <<weight, feasible, bmo, models, posWeight, functions, encoded,
          localCost, lbCost, ubCost, nbSatisfiable, model, status>>

-----------------------------------------------------------------------------
Cost(F) == MapThenSumSet(LAMBDA i : weight[i], F)

OfWeight(w) == {i \in Soft : weight[i] = w}

\* orderWeights: the weights in use, in decreasing order.
OrderWeights(wt) ==
  LET inUse == {wt[i] : i \in Soft}
  IN  CHOOSE s \in [1 .. Cardinality(inUse) -> inUse] :
        \A p, q \in DOMAIN s : p < q => s[p] > s[q]

IsBMOWrongly(wt) == Len(OrderWeights(wt)) > 1

\* isBMO: no weight is below the sum of all smaller ones.
IsBMO(wt) ==
  \A i \in Soft :
    wt[i] >= MapThenSumSet(LAMBDA j : wt[j], {j \in Soft : wt[j] < wt[i]})

CurrentWeight == OrderWeights(weight)[posWeight]

LastWeight == posWeight = Len(OrderWeights(weight))

\* objFunction: the relaxation literals of the current weight.
Objective == IF bmo THEN OfWeight(CurrentWeight) ELSE Soft

\* computeCostModel, at the current weight only in bmoSearch.
NewCost(F) == Cost(F \cap Objective)

\* The models that falsify at most k of the soft clauses of `lits'.
AtMost(M, lits, k) == {F \in M : Cardinality(F \cap lits) <= k}

\* encodeCardinality creates no encoding for k = 0 (all literals are false),
\* nor for a k that allows everything.
EncodedFor(lits, k) == IF k = 0 \/ k = Cardinality(lits) THEN {} ELSE lits

Init ==
  /\ weight \in Weightings
  /\ feasible \in Instances
  /\ bmo \in {b \in BOOLEAN : b => IsBMO(weight)}
  /\ models = feasible
  /\ posWeight = 1
  /\ functions = <<>>
  /\ encoded = {}
  /\ localCost = 0
  /\ lbCost = 0
  /\ ubCost = 0
  /\ nbSatisfiable = 0
  /\ model = NULL
  /\ status = "searching"

-----------------------------------------------------------------------------
Save(F) == model' = F /\ ubCost' = NewCost(F) + lbCost

KeepModel == UNCHANGED <<model, ubCost>>

Sat(F) ==
  /\ F \in models
  /\ nbSatisfiable' = nbSatisfiable + 1

Stay == UNCHANGED <<posWeight, functions, lbCost>>

\* A bound below the cost of F: encoded for the first model of this weight,
\* updated for the next ones, which is undefined without an encoding.
Tighten(F) ==
  LET k == NewCost(F) \div CurrentWeight - 1
  IN  /\ localCost' = NewCost(F)
      /\ IF localCost = 0
           THEN /\ models' = AtMost(models, Objective, k)
                /\ encoded' = EncodedFor(Objective, k)
                /\ UNCHANGED status
           ELSE /\ models' = AtMost(models, encoded, k)
                /\ status' = IF encoded = {} THEN "undefined" ELSE status
                /\ UNCHANGED encoded

\* rebuildBMO: a new solver with the optima of all weights done so far; the
\* encoder is left with the encoding of the last one.
NextWeight(optimum) ==
  LET f == Append(functions, [lits |-> Objective, rhs |-> optimum \div CurrentWeight])
  IN  /\ functions' = f
      /\ posWeight' = posWeight + 1
      /\ localCost' = 0
      /\ models' = {F \in feasible : \A i \in DOMAIN f :
                                       Cardinality(F \cap f[i].lits) <= f[i].rhs}
      /\ encoded' = EncodedFor(Last(f).lits, Last(f).rhs)
      /\ UNCHANGED status

\* bmoSearch, l_True at a weight that is not the last: nothing is saved.
SolvedWeight(F) ==
  /\ bmo /\ ~ LastWeight
  /\ NewCost(F) = 0
  /\ Sat(F)
  /\ KeepModel
  /\ NextWeight(0)
  /\ UNCHANGED lbCost

ImprovedWeight(F) ==
  /\ bmo
  /\ NewCost(F) > 0
  /\ Sat(F)
  /\ IF LastWeight THEN Save(F) ELSE KeepModel
  /\ Tighten(F)
  /\ Stay

RefutedWeight ==
  /\ bmo /\ ~ LastWeight
  /\ models = {}
  /\ NextWeight(localCost)
  /\ lbCost' = lbCost + localCost
  /\ KeepModel
  /\ UNCHANGED nbSatisfiable

\* Both searches: a model that falsifies nothing more is optimal.
ZeroCost(F) ==
  /\ bmo => LastWeight
  /\ NewCost(F) = 0
  /\ Sat(F)
  /\ Save(F)
  /\ status' = "OPTIMUM"
  /\ Stay
  /\ UNCHANGED <<models, encoded, localCost>>

\* normalSearch: a cardinality or pseudo-Boolean bound below the cost of F;
\* whether it is encoded or an encoding is updated makes no difference here.
Improved(F) ==
  /\ ~ bmo
  /\ NewCost(F) > 0
  /\ Sat(F)
  /\ Save(F)
  /\ models' = {G \in models : Cost(G) <= Cost(F) - 1}
  /\ Stay
  /\ UNCHANGED <<encoded, localCost, status>>

\* Both searches, l_False at the last weight.
Refuted ==
  /\ bmo => LastWeight
  /\ models = {}
  /\ status' = IF model = NULL THEN "UNSATISFIABLE" ELSE "OPTIMUM"
  /\ KeepModel
  /\ Stay
  /\ UNCHANGED <<models, encoded, localCost, nbSatisfiable>>

Next ==
  /\ status = "searching"
  /\ \/ \E F \in models : \/ SolvedWeight(F) \/ ImprovedWeight(F)
                          \/ ZeroCost(F) \/ Improved(F)
     \/ RefutedWeight
     \/ Refuted
  /\ UNCHANGED <<weight, feasible, bmo>>

Spec == Init /\ [][Next]_vars

-----------------------------------------------------------------------------
\* localCost = 0 stands for "not encoded yet": an update meets an encoding, and
\* the one of the current weight, not of the weight rebuildBMO encoded last
\* (Alg_LinearSU.cc:128-132).
UpdatesOwnEncoding ==
  /\ status # "undefined"
  /\ bmo /\ localCost > 0 /\ models # {} => encoded \in {{}, Objective}

\* UNSATISFIABLE only before any model (assertion at Alg_LinearSU.cc:144, 267)
\* although bmoSearch saves none before the last weight.
UnsatIsInfeasible ==
  status = "UNSATISFIABLE" => feasible = {} /\ nbSatisfiable = 0
=============================================================================
