------------------------------- MODULE Bounds -------------------------------
(***************************************************************************)
(* What src/src/MaxSAT.cc offers every algorithm besides the search: the   *)
(* cost of a model, for all weights or for one, the list of the soft       *)
(* clauses it falsifies, and bounds on the optimum from SAT calls with a   *)
(* budget of conflicts (getUB, getLB), which may be given up.              *)
(***************************************************************************)
EXTENDS Integers, FiniteSetsExt, SequencesExt

CONSTANTS
  Formulas,  \* n, hard (clauses), soft (sequence of clause, weight)
  UIntMax    \* UINT64_MAX

VARIABLES
  formula,  \* the formula, which never changes
  model,    \* the variables the saved model makes true, or <<>> without a model
  listed,   \* the soft clauses printed with the answer
  ub,       \* the result of getUB, or -1
  lb,       \* lb of getLB
  active,   \* active of getLB: the soft clauses in its cores
  status    \* "start", "UB" (getUB is done), "LB" (getLB runs), "bounded",
            \* "printed" or "UNSATISFIABLE"

vars == <<formula, model, listed, ub, lb, active, status>>

-----------------------------------------------------------------------------
Soft == DOMAIN formula.soft

Satisfied(c, T) == \E l \in c : IF l > 0 THEN l \in T ELSE -l \notin T

\* The assignments of the hard clauses.
Models == {T \in SUBSET (1 .. formula.n) : \A c \in formula.hard : Satisfied(c, T)}

\* A clause of another weight counts as satisfied once a literal was looked at.
Unsatisfied(s, T, w) ==
  /\ s.clause # {} => s.weight \in w
  /\ ~ Satisfied(s.clause, T)

SumWeights(I) == FoldSet(LAMBDA i, acc : acc + formula.soft[i].weight, 0, I)

\* computeCostModel for the weights w.
ComputeCostModel(T, w) == SumWeights({i \in Soft : Unsatisfied(formula.soft[i], T, w)})

AllWeights == {formula.soft[i].weight : i \in Soft}

Init ==
  /\ formula \in Formulas
  /\ model = <<>>
  /\ listed = {}
  /\ ub = -1
  /\ lb = 0
  /\ active = {}
  /\ status = "start"

\* getUB, the solver finds a model of the hard clauses.
UBModel(T) ==
  /\ status = "start"
  /\ T \in Models
  /\ ub' = ComputeCostModel(T, AllWeights)
  /\ status' = "UB"
  /\ UNCHANGED <<formula, model, listed, lb, active>>

\* getUB, the budget is used up: every soft clause may be falsified.
UBGivenUp ==
  /\ status = "start"
  /\ ub' = Len(formula.soft)
  /\ status' = "UB"
  /\ UNCHANGED <<formula, model, listed, lb, active>>

\* getUB, the hard clauses are refuted: the program ends.
UBRefuted ==
  /\ status = "start"
  /\ Models = {}
  /\ status' = "UNSATISFIABLE"
  /\ UNCHANGED <<formula, model, listed, ub, lb, active>>

\* getLB is called.
StartLB ==
  /\ status = "UB"
  /\ status' = "LB"
  /\ UNCHANGED <<formula, model, listed, ub, lb, active>>

\* No assignment of the hard clauses satisfies all soft clauses of C.
IsCore(C) == \A T \in Models : \E i \in C : ~ Satisfied(formula.soft[i].clause, T)

\* getLB, l_False with the soft clauses C in the conflict, all of them assumed.
LBCore(C) ==
  /\ status = "LB"
  /\ IsCore(C)
  /\ active' = active \cup C
  /\ lb' = (lb + 1) % (UIntMax + 1)
  /\ UNCHANGED <<formula, model, listed, ub, status>>

\* getLB, a model of the assumed clauses, or no more budget.
LBModel(T) ==
  /\ status = "LB"
  /\ \A i \in Soft \ active : Satisfied(formula.soft[i].clause, T)
  /\ status' = "bounded"
  /\ UNCHANGED <<formula, model, listed, ub, lb, active>>

LBGivenUp ==
  /\ status = "LB"
  /\ status' = "bounded"
  /\ UNCHANGED <<formula, model, listed, ub, lb, active>>

\* The search saves a model.
SaveModel(T) ==
  /\ status = "bounded"
  /\ model = <<>>
  /\ model' = <<T>>
  /\ UNCHANGED <<formula, listed, ub, lb, active, status>>

\* printAnswer with printUnsatisfiedSoftClauses
PrintAnswer ==
  /\ status = "bounded" /\ model # <<>>
  /\ listed' = {i \in Soft : ~ Satisfied(formula.soft[i].clause, model[1])}
  /\ status' = "printed"
  /\ UNCHANGED <<formula, model, ub, lb, active>>

LBCall ==
  \/ \E C \in SUBSET (Soft \ active) : LBCore(C)
  \/ \E T \in Models : LBModel(T)

Next ==
  \/ \E T \in Models : UBModel(T) \/ SaveModel(T)
  \/ UBGivenUp \/ UBRefuted \/ StartLB \/ LBCall \/ LBGivenUp \/ PrintAnswer

Spec == Init /\ [][Next]_vars

-----------------------------------------------------------------------------
Optimum == Min({ComputeCostModel(T, AllWeights) : T \in Models})

\* With unit weights, as the comment in both methods demands, the optimum lies
\* between the bounds, whichever calls were given up and whichever cores were
\* found (getUB, getLB).
BoundsHold ==
  AllWeights = {1} /\ Models # {} => (ub # -1 => Optimum <= ub) /\ lb <= Optimum

\* The costs of a model for one weight each, which bmoSearch adds up, make its
\* cost (computeCostModel).
WeightsAddUp ==
  \A T \in Models :
    FoldSet(LAMBDA w, acc : acc + ComputeCostModel(T, {w}), 0, AllWeights)
      = ComputeCostModel(T, AllWeights)

\* The clauses printed as unsatisfied weigh as much as the cost computed for the
\* model (printUnsatisfiedSoftClauses, computeCostModel).
ListedCost ==
  status = "printed" => SumWeights(listed) = ComputeCostModel(model[1], AllWeights)
=============================================================================
