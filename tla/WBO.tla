-------------------------------- MODULE WBO --------------------------------
(***************************************************************************)
(* src/src/algorithms/Alg_WBO.cc: every core gets fresh relaxation         *)
(* variables, exactly one of which is true, and clauses heavier than the   *)
(* core are duplicated.  The solver is rebuilt after each core; binary     *)
(* clauses break the symmetries between the relaxation variables of        *)
(* clauses that were in several cores.  They are made after the hard       *)
(* clauses were copied, so those of a core are in the solver only from the *)
(* next rebuilding on.                                                     *)
(*                                                                         *)
(* A relaxation variable is <<n, p>>: the one core n gave to soft clause   *)
(* p.  The auxiliary variables of encodeEO are abstracted to their         *)
(* meaning, exactly one variable of each core is true.  Assertions are     *)
(* compiled out, as in the release builds of src/src/mtl/template.mk.      *)
(***************************************************************************)
EXTENDS Integers, FiniteSetsExt, SequencesExt

CONSTANTS
  Soft,        \* indices of the soft clauses of the formula
  NULL,        \* no model
  UintMax,     \* UINT64_MAX
  Weightings,  \* the weightings considered, functions from Soft
  Instances    \* the formulas: families of falsified sets

VARIABLES
  weight,          \* the weights of the formula; never changes
  feasible,        \* the models of the hard clauses; never changes
  weightStrategy,  \* "none", "normal" or "diversify"; never changes
  soft,            \* the soft clauses with their duplicates: clause, weight, relax
  cores,           \* the relaxation variables of each core
  symmetry,        \* pairs of relaxation variables that are not both true, in the formula
  enforced,        \* those of them that are in the solver
  maxWeight,       \* getMaximumWeight(): lighter clauses are not in the solver
  lbCost, ubCost,  \* the bounds
  model,           \* the saved model, or NULL
  status           \* "start", "searching", "dropped" (UNSATISFIABLE is printed, and not
                   \* returned), or what search() returns: "OPTIMUM"

vars == <<weight, feasible, weightStrategy, soft, cores, symmetry, enforced, maxWeight,
          lbCost, ubCost, model, status>>

-----------------------------------------------------------------------------
Cost(F) == MapThenSumSet(LAMBDA i : weight[i], F)

\* The sets of relaxation variables that may be true: one for each core, and no pair.
Relaxations(pairs) ==
  LET oneOfEach == FoldLeft(LAMBDA acc, core : {R \cup {v} : R \in acc, v \in core},
                            {{}}, cores)
  IN  {R \in oneOfEach : \A pair \in pairs : ~ pair \subseteq R}

\* Soft clause i holds when the model F and the variables R are true.
Holds(i, F, R) == soft[i].clause \notin F \/ soft[i].relax \cap R # {}

\* The soft clauses in the solver; all of them without a weight strategy.
Considered ==
  {i \in DOMAIN soft : weightStrategy = "none" \/ soft[i].weight >= maxWeight}

\* What a model F of the solver leaves unsatisfied of them, for each assignment
\* of the relaxation variables.
Missed(F) == {{i \in Considered : ~ Holds(i, F, R)} : R \in Relaxations(enforced)}

\* The conflicts the solver may return: no model satisfies all of them.
Conflicts ==
  LET missed == UNION {Missed(F) : F \in feasible}
  IN  {C \in SUBSET Considered : \A M \in missed : C \cap M # {}}

FindNextWeight(w) == Max({1} \cup ({soft[i].weight : i \in DOMAIN soft} \cap 1 .. w - 1))

\* Enough clauses per weight (alpha = 1.25), or all of them.
Diverse(w) ==
  LET above == {i \in DOMAIN soft : soft[i].weight >= w}
  IN  \/ 4 * Cardinality(above) > 5 * Cardinality({soft[i].weight : i \in above})
      \/ above = DOMAIN soft

\* The search may stay at its weight after every model.
NextMaxWeightWrongly(first) ==
  IF weightStrategy = "normal" THEN maxWeight
  ELSE Max({w \in {1} \cup {soft[i].weight : i \in DOMAIN soft} :
              Diverse(w) /\ w <= maxWeight})

\* updateCurrentWeight: the next lower weight, or the next one that is diverse,
\* which after the first model may be the current one.
NextMaxWeight(first) ==
  IF weightStrategy = "normal" THEN FindNextWeight(maxWeight)
  ELSE Max({w \in {1} \cup {soft[i].weight : i \in DOMAIN soft} :
              Diverse(w) /\ (w < maxWeight \/ w = 1 \/ (first /\ w = maxWeight))})

Init ==
  /\ weight \in Weightings
  /\ feasible \in Instances
  /\ weightStrategy \in IF \A i \in Soft : weight[i] = 1 THEN {"none"}
                        ELSE {"none", "normal", "diversify"}
  /\ soft = [i \in Soft |-> [clause |-> i, weight |-> weight[i], relax |-> {}]]
  /\ cores = <<>>
  /\ symmetry = {}
  /\ enforced = {}
  /\ maxWeight = Max({weight[i] : i \in Soft})
  /\ lbCost = 0
  /\ ubCost = MapThenSumSet(LAMBDA i : weight[i], Soft)
  /\ model = NULL
  /\ status = "start"

-----------------------------------------------------------------------------
\* unsatSearch, the hard clauses are satisfiable.
FirstModel(F) ==
  /\ status = "start"
  /\ ubCost' = Cost(F)
  /\ model' = F
  /\ status' = "searching"
  /\ maxWeight' = IF weightStrategy = "none" THEN maxWeight ELSE NextMaxWeight(TRUE)
  /\ UNCHANGED <<soft, cores, symmetry, enforced, lbCost>>

\* unsatSearch, they are not: UNSATISFIABLE is printed, but both searches drop its
\* result and go on.  There was no model, so the diverse weight stays.
NoModel ==
  /\ status = "start"
  /\ feasible = {}
  /\ status' = "dropped"
  /\ maxWeight' = IF weightStrategy = "normal" THEN FindNextWeight(maxWeight) ELSE maxWeight
  /\ UNCHANGED <<soft, cores, symmetry, enforced, lbCost, ubCost, model>>

\* Then every call has an empty conflict: the bound is raised, and nothing is relaxed;
\* only normalSearch looks at the bounds then.  (When its weight is not diverse,
\* findNextWeightDiversity repeats itself before the first call.)
EmptyConflict ==
  LET lb == (lbCost + IF \A i \in Soft : weight[i] = 1 THEN 1 ELSE UintMax) % (UintMax + 1)
  IN  /\ status = "dropped"
      /\ weightStrategy = "diversify" => Diverse(maxWeight)
      /\ lbCost' = lb
      /\ status' = IF weightStrategy = "none" /\ lb = ubCost THEN "OPTIMUM" ELSE status
      /\ UNCHANGED <<soft, cores, symmetry, enforced, maxWeight, ubCost, model>>

\* rebuildSolver, rebuildWeightSolver: the clauses the formula has when it begins.
Rebuild == enforced' = symmetry

\* Both orders are excluded.
SymmetryClausesWrongly(n, S, descending) ==
  LET shared(c) == {p \in S : <<c, p>> \in cores[c]}
      others(c) == {x \in shared(c) \X shared(c) : x[1] # x[2]}
  IN  UNION {{{<<c, x[1]>>, <<n, x[2]>>} : x \in others(c)} : c \in DOMAIN cores}

\* Of two clauses that were together in core c, too, the one that comes first
\* in the conflict is not relaxed by c while the other is relaxed by core n.
SymmetryClauses(n, S, descending) ==
  LET shared(c) == {p \in S : <<c, p>> \in cores[c]}
      before(c) == {x \in shared(c) \X shared(c) :
                      IF descending THEN x[1] > x[2] ELSE x[1] < x[2]}
  IN  UNION {{{<<c, x[1]>>, <<n, x[2]>>} : x \in before(c)} : c \in DOMAIN cores}

CoreCost(C) == Min({soft[i].weight : i \in C})

Heavy(C) == {i \in C : soft[i].weight > CoreCost(C)}

\* The index of the duplicate of clause i.
Duplicate(C, i) == Len(soft) + Cardinality({j \in Heavy(C) : j <= i})

\* The clause whose duplicate has index i.
Original(C, i) == CHOOSE j \in Heavy(C) : Duplicate(C, j) = i

\* relaxCore: a clause of the core's weight gets a relaxation variable; a heavier
\* one keeps the rest of its weight, and its duplicate gets the variable.
RelaxedSoft(C, n) ==
  [i \in 1 .. Len(soft) + Cardinality(Heavy(C)) |->
     IF i > Len(soft)
       THEN [clause |-> soft[Original(C, i)].clause, weight |-> CoreCost(C),
             relax |-> soft[Original(C, i)].relax \cup {<<n, i>>}]
     ELSE IF i \in Heavy(C) THEN [soft[i] EXCEPT !.weight = @ - CoreCost(C)]
     ELSE IF i \in C THEN [soft[i] EXCEPT !.relax = @ \cup {<<n, i>>}]
     ELSE soft[i]]

\* l_False with the clauses C as conflict, in either order.
RelaxCore(C, descending) ==
  LET n     == Len(cores) + 1
      whole == C \ Heavy(C)
  IN  /\ lbCost' = lbCost + CoreCost(C)
      /\ IF weightStrategy = "none" /\ lbCost' = ubCost
           THEN /\ status' = "OPTIMUM"
                /\ UNCHANGED <<soft, cores, symmetry, enforced>>
           ELSE /\ soft' = RelaxedSoft(C, n)
                /\ cores' = Append(cores, {<<n, i>> : i \in whole}
                                     \cup {<<n, Duplicate(C, i)>> : i \in Heavy(C)})
                /\ Rebuild
                /\ symmetry' = symmetry \cup SymmetryClauses(n, whole, descending)
                /\ UNCHANGED status
      /\ UNCHANGED <<maxWeight, ubCost, model>>

Save(F, cost) == model' = F /\ ubCost' = cost

\* l_True in normalSearch, or with all clauses in the solver.
SatAll(F) ==
  /\ Considered = DOMAIN soft
  /\ {} \in Missed(F)
  /\ IF weightStrategy = "none" THEN Save(F, Cost(F))
     ELSE IF lbCost < ubCost THEN Save(F, lbCost)
     ELSE UNCHANGED <<model, ubCost>>
  /\ status' = "OPTIMUM"
  /\ UNCHANGED <<soft, cores, symmetry, enforced, maxWeight, lbCost>>

\* l_True with some clauses left out: lighter ones are taken in.
SatSome(F) ==
  /\ Considered # DOMAIN soft
  /\ {} \in Missed(F)
  /\ IF Cost(F) < ubCost THEN Save(F, Cost(F)) ELSE UNCHANGED <<model, ubCost>>
  /\ maxWeight' = NextMaxWeight(FALSE)
  /\ IF lbCost = ubCost' THEN status' = "OPTIMUM" /\ UNCHANGED enforced
     ELSE Rebuild /\ UNCHANGED status
  /\ UNCHANGED <<soft, cores, symmetry, lbCost>>

Search ==
  \/ \E F \in feasible : SatAll(F) \/ SatSome(F)
  \/ \E C \in Conflicts \ {{}}, descending \in BOOLEAN : RelaxCore(C, descending)

Next ==
  /\ \/ \E F \in feasible : FirstModel(F)
     \/ NoModel
     \/ EmptyConflict
     \/ status = "searching" /\ Search
  /\ UNCHANGED <<weight, feasible, weightStrategy>>

Spec == Init /\ [][Next]_vars

-----------------------------------------------------------------------------
\* What the clauses outside the constraints of F and R still cost.
Rest(F, R) ==
  MapThenSumSet(LAMBDA i : soft[i].weight, {i \in DOMAIN soft : ~ Holds(i, F, R)})

\* Relaxing a core, duplicating its heavy clauses and breaking symmetries leave
\* every model as expensive as before, in the best case that the formula allows and in
\* the best case that the solver, which lags behind it, can choose
\* (Alg_WBO.cc:76-80, 160-164, 510-563, 687-772).
CostPreserved ==
  status = "searching" =>
    \A F \in feasible, pairs \in {symmetry, enforced} :
      Cost(F) = lbCost + Min({Rest(F, R) : R \in Relaxations(pairs)})
=============================================================================
