--------------------------- MODULE FormulaLoading ---------------------------
(***************************************************************************)
(* How the algorithms of src/src/algorithms load a formula into a SAT      *)
(* solver: the formulas they accept, the relaxation and assumption literals*)
(* they add, and what rebuildSolver, rebuildWeightSolver, rebuildHardSolver*)
(* and rebuildBMO leave out.  The modules of the searches take the result  *)
(* for granted.                                                            *)
(*                                                                         *)
(* The encoders (modules ModuloTotalizer, GeneralizedTotalizer, Ladder and *)
(* Totalizer) enter with what they achieve: the clauses over their inputs  *)
(* that their clauses imply.  The formula is the one stored by module      *)
(* PBFormula, where every constraint is "at most".                         *)
(***************************************************************************)
EXTENDS ClauseDB

CONSTANTS
  Algorithms, \* those tried, of MSU3, PartMSU3, OLL, LinearSU and WBO
  Formulas,   \* n, hard, soft (clause, weight), pbs (lits, coeffs, rhs), cards (lits, rhs)
  UInt64Max,  \* UINT64_MAX
  MaxCores    \* bound on the cores WBO relaxes

VARIABLES
  algorithm,  \* the algorithm
  loaded,     \* the formula loaded, which never changes
  formula,    \* the working formula; soft clauses have relax and assumption, too
  maxWeight,  \* getMaximumWeight()
  objective,  \* objFunction and coeffs: pairs of a literal and a weight
  functions,  \* functions and weights of bmoSearch: optimised literals, their optimum
  lbCost,     \* the weight of the cores relaxed
  cores,      \* the number of cores relaxed
  solver,     \* the SAT solver
  status      \* "loaded", "hard" (hard clauses only), "built", "exception",
              \* "UNKNOWN" or "aborted"

vars == <<algorithm, loaded, formula, maxWeight, objective, functions, lbCost, cores,
          solver, status>>

-----------------------------------------------------------------------------
\* encodeAMO, class Ladder: a single literal is forced.
EncodeAMO(S, lits) ==
  AddClauses(S, IF Cardinality(lits) = 1 THEN {lits}
                ELSE {{-l : l \in pair} : pair \in kSubset(2, lits)})

\* encodeCardinality: of k + 1 literals one is false.
EncodeCardinality(S, lits, k) ==
  AddClauses(S, {{-l : l \in T} : T \in kSubset(k + 1, lits)})

\* The right-hand side becomes unsigned.
Unsigned(k) == k % (UInt64Max + 1)

\* encodePB, class GTE: literals with too large a sum are not all true.
EncodePB(S, p) ==
  LET Weight(T) == FoldSet(LAMBDA i, acc : p.coeffs[i] + acc, 0, T)
      heavy     == {T \in SUBSET DOMAIN p.lits : Weight(T) > Unsigned(p.rhs)}
  IN  AddClauses(S, {{-p.lits[i] : i \in T} : T \in heavy})

\* A cardinality constraint of the formula.
EncodeCard(S, c) ==
  IF c.rhs = 1 THEN EncodeAMO(S, c.lits) ELSE EncodeCardinality(S, c.lits, c.rhs)

\* The hard part of formula f, as every rebuild method adds it.
RebuildHardSolver(f) ==
  LET clauses == AddClauses(SolverWith(f.n), f.hard)
      pbs     == FoldLeft(EncodePB, clauses, f.pbs)
  IN  FoldLeft(EncodeCard, pbs, f.cards)

\* GTE::encode ends the program at the right-hand side UINT64_MAX; the assertion
\* of MTotalizer::encode does for one that is negative or too large.
Ending(f) ==
  IF \E i \in DOMAIN f.pbs : Unsigned(f.pbs[i].rhs) = UInt64Max THEN "UNKNOWN"
  ELSE IF \E i \in DOMAIN f.cards : f.cards[i].rhs \notin 0 .. Cardinality(f.cards[i].lits)
    THEN "aborted"
  ELSE "built"

\* The soft clauses of f with indices in I, with their relaxation variables.
RelaxedClauses(f, I) == {f.soft[i].clause \cup f.soft[i].relax : i \in I}

\* WBO adds the assumption literals, too.
AssumedClauses(f, I) == {f.soft[i].clause \cup f.soft[i].relax \cup {f.soft[i].assumption} : i \in I}

\* rebuildSolver of MSU3, PartMSU3 and OLL
RebuildSolver(f) == AddClauses(RebuildHardSolver(f), RelaxedClauses(f, DOMAIN f.soft))

\* LinearSU::rebuildSolver
LinearRebuild(f, minWeight) ==
  AddClauses(RebuildHardSolver(f),
             RelaxedClauses(f, {i \in DOMAIN f.soft : f.soft[i].weight >= minWeight}))

\* nbCurrentSoft: the soft clauses heavy enough for the current weight.
CurrentSoft(f, w) == {i \in DOMAIN f.soft : f.soft[i].weight >= w}

\* WBO::rebuildWeightSolver; rebuildSolver is the same with all clauses.
RebuildWeightSolver(f, w) ==
  AddClauses(RebuildHardSolver(f), AssumedClauses(f, CurrentSoft(f, w)))

\* The last k literals made by newLiteral in f.
NewLiterals(f, k) == [i \in 1 .. k |-> f.n + i]

\* initRelaxation: a fresh literal in every soft clause, which is its assumption
\* literal, too, but in LinearSU.
RelaxAll(f, assume) ==
  LET fresh == NewLiterals(f, Len(f.soft))
  IN  [f EXCEPT !.n = @ + Len(f.soft),
                !.soft = [i \in DOMAIN @ |->
                   [@[i] EXCEPT !.relax = {fresh[i]},
                                !.assumption = IF assume THEN fresh[i] ELSE Undef]]]

\* WBO::initAssumptions
AssumeAll(f) ==
  LET fresh == NewLiterals(f, Len(f.soft))
  IN  [f EXCEPT !.n = @ + Len(f.soft),
                !.soft = [i \in DOMAIN @ |-> [@[i] EXCEPT !.assumption = fresh[i]]]]

WeightsOf(f) == {f.soft[i].weight : i \in DOMAIN f.soft}

\* The problem type is _WEIGHTED_.
IsWeighted(f) == WeightsOf(f) # {1}

OrderWeights(f) == SetToSortSeq(WeightsOf(f), >)

\* isBMO: a weight is at least the sum of the smaller ones.
IsBMO(f) ==
  \A w \in WeightsOf(f) :
    w >= FoldLeft(LAMBDA acc, s : IF s.weight < w THEN acc + s.weight ELSE acc, 0, f.soft)

Init ==
  /\ algorithm \in Algorithms
  /\ loaded \in Formulas
  /\ formula = [loaded EXCEPT !.soft =
       [i \in DOMAIN @ |-> [clause |-> @[i].clause, weight |-> @[i].weight,
                            relax |-> {}, assumption |-> Undef]]]
  /\ maxWeight = Max(WeightsOf(loaded))
  /\ objective = {}
  /\ functions = <<>>
  /\ lbCost = 0
  /\ cores = 0
  /\ solver = SolverWith(0)
  /\ status = "loaded"

NoCores == UNCHANGED <<maxWeight, lbCost, cores>>

\* The working formula f with the objective function o is in the solver S.
Load(f, S, o) ==
  /\ formula' = f
  /\ solver' = S
  /\ objective' = o
  /\ status' = Ending(f)

Relaxations(f) == {<<l, 1>> : l \in UNION {f.soft[i].relax : i \in DOMAIN f.soft}}

\* MSU3::search throws for weighted formulas, else loads the formula.
MSU3Search ==
  LET f == RelaxAll(formula, TRUE)
  IN  /\ algorithm = "MSU3" /\ status = "loaded"
      /\ ~ IsWeighted(formula)
      /\ Load(f, RebuildSolver(f), Relaxations(f))
      /\ UNCHANGED functions /\ NoCores

\* PartMSU3::search, with a merge strategy and a totalizer.
PartMSU3Search ==
  LET f == RelaxAll(formula, TRUE)
  IN  /\ algorithm = "PartMSU3" /\ status = "loaded"
      /\ ~ IsWeighted(formula)
      /\ Load(f, RebuildSolver(f), Relaxations(f))
      /\ UNCHANGED functions /\ NoCores

\* MaxSATException: the algorithm does not support weights.
Unsupported ==
  /\ algorithm \in {"MSU3", "PartMSU3"} /\ status = "loaded"
  /\ IsWeighted(formula)
  /\ status' = "exception"
  /\ UNCHANGED <<formula, objective, functions, solver>> /\ NoCores

\* OLL::search; the assumption literals are its objective.
OLLSearch ==
  LET f == RelaxAll(formula, TRUE)
  IN  /\ algorithm = "OLL" /\ status = "loaded"
      /\ Load(f, RebuildSolver(f),
              {<<f.soft[i].assumption, f.soft[i].weight>> : i \in DOMAIN f.soft})
      /\ UNCHANGED functions /\ NoCores

\* objFunction and coeffs of LinearSU for the clauses with indices in I.
LinearObjective(f, I) == UNION {{<<l, f.soft[i].weight>> : l \in f.soft[i].relax} : i \in I}

\* LinearSU::normalSearch
LinearSUSearch ==
  LET f == RelaxAll(formula, FALSE)
  IN  /\ algorithm = "LinearSU" /\ status = "loaded"
      /\ Load(f, LinearRebuild(f, 1), LinearObjective(f, DOMAIN f.soft))
      /\ UNCHANGED functions /\ NoCores

\* The weight the lexicographic search is at.
CurrentWeight(done) == OrderWeights(loaded)[Len(done) + 1]

\* The clauses rebuildBMO puts into objFunction.
BMOObjective(f, w) == {i \in DOMAIN f.soft : f.soft[i].weight = w}

\* LinearSU::rebuildBMO: clauses of lower weight wait, the functions done are bounded.
RebuildBMO(f, done, w) ==
  FoldLeft(LAMBDA S, g : EncodeCardinality(S, g.lits, g.rhs), LinearRebuild(f, w), done)

\* LinearSU::bmoSearch starts at the largest weight.
BMOSearch ==
  LET f == RelaxAll(formula, FALSE)
      w == CurrentWeight(<<>>)
  IN  /\ algorithm = "LinearSU" /\ status = "loaded"
      /\ IsWeighted(formula) /\ IsBMO(formula)
      /\ functions' = <<>>
      /\ Load(f, RebuildBMO(f, <<>>, w), LinearObjective(f, BMOObjective(f, w)))
      /\ NoCores

\* The SAT solver answers l_False under the assumptions t.
Refutes(t) == ~ Satisfiable(solver.clauses, t)

\* The literals of the objective.
ObjectiveLits == {o[1] : o \in objective}

\* localCost over the weight at the end of a function: the least number of literals
\* of the objective that are true in a model, or 0 without a model.
Optimum ==
  LET Possible == {L \in SUBSET ObjectiveLits : ~ Refutes({-l : l \in ObjectiveLits \ L})}
  IN  IF Possible = {} THEN 0 ELSE Min({Cardinality(L) : L \in Possible})

\* bmoSearch runs: the objective has the clauses of one weight.
InBMO == algorithm = "LinearSU" /\ objective # LinearObjective(formula, DOMAIN formula.soft)

\* bmoSearch, the current function is optimised: the next weight's turn.
NextFunction ==
  LET done == Append(functions, [lits |-> ObjectiveLits, rhs |-> Optimum])
      w    == CurrentWeight(done)
  IN  /\ InBMO /\ status = "built"
      /\ Len(done) < Len(OrderWeights(loaded))
          /\ functions' = done
      /\ Load(formula, RebuildBMO(formula, done, w), LinearObjective(formula, BMOObjective(formula, w)))
      /\ NoCores

\* WBO::unsatSearch
UnsatSearch ==
  /\ algorithm = "WBO" /\ status = "loaded"
  /\ solver' = RebuildHardSolver(formula)
  /\ status' = IF Ending(formula) = "built" THEN "hard" ELSE Ending(formula)
  /\ UNCHANGED <<formula, objective, functions>> /\ NoCores

\* The assumption literals of the clauses in the solver are the objective of WBO.
Assumed(f, w) == {<<f.soft[i].assumption, f.soft[i].weight>> : i \in CurrentSoft(f, w)}

LoadWBO(f, w) == Load(f, RebuildWeightSolver(f, w), Assumed(f, w)) /\ UNCHANGED functions

\* The search starts with assumptions, all clauses or a weight.
WBOSearch ==
  /\ algorithm = "WBO" /\ status = "hard"
  /\ maxWeight' \in WeightsOf(formula) \cup {1}
  /\ LoadWBO(AssumeAll(formula), maxWeight')
  /\ UNCHANGED <<lbCost, cores>>

\* encodeEO over the literals ls with the auxiliary variables xs.
ExactlyOne(ls, xs) ==
  LET k == Len(ls)
  IN  IF k = 1 THEN {{ls[1]}}
      ELSE {{ls[1], -xs[1]}, {-ls[1], xs[1]}, {ls[k], xs[k - 1]}, {-ls[k], -xs[k - 1]}}
           \cup UNION {{{-xs[i - 1], xs[i]}, {ls[i], -xs[i], xs[i - 1]}, {-ls[i], xs[i]},
                        {-ls[i], -xs[i - 1]}} : i \in 2 .. k - 1}

\* relaxCore, one clause of a core of weight w: a heavier one is split first.
RelaxClause(f, i, w) ==
  LET s == f.soft[i]
  IN  IF s.weight = w
        THEN [f EXCEPT !.n = @ + 1, !.soft[i].relax = @ \cup {f.n + 1}]
        ELSE [f EXCEPT !.n = @ + 2,
                       !.soft = Append([@ EXCEPT ![i].weight = @ - w],
                                  [s EXCEPT !.weight = w, !.relax = @ \cup {f.n + 1},
                                            !.assumption = f.n + 2])]

\* The whole core; st gathers the relaxation literals.
RelaxAllOf(conflict, w) ==
  LET One(st, i) == [f |-> RelaxClause(st.f, i, w), lits |-> Append(st.lits, st.f.n + 1)]
      st         == FoldLeft(One, [f |-> formula, lits |-> <<>>], conflict)
      k          == Len(conflict) - 1
  IN  [st.f EXCEPT !.n = @ + k,
                   !.hard = @ \cup ExactlyOne(st.lits, NewLiterals(st.f, k))]

\* WBO, l_False with the clauses C as conflict.
RelaxCore(C) ==
  LET w == Min({formula.soft[i].weight : i \in C})
  IN  /\ algorithm = "WBO" /\ status = "built" /\ cores < MaxCores
      /\ Refutes({-formula.soft[i].assumption : i \in C})
      /\ lbCost' = lbCost + w
      /\ cores' = cores + 1
      /\ LoadWBO(RelaxAllOf(SetToSortSeq(C, <), w), maxWeight)
      /\ UNCHANGED maxWeight

\* WBO, l_True with lighter clauses left out: a lower weight.
LowerWeight ==
  /\ algorithm = "WBO" /\ status = "built"
  /\ ~ Refutes({-l : l \in ObjectiveLits})
  /\ CurrentSoft(formula, maxWeight) # DOMAIN formula.soft
  /\ maxWeight' \in {w \in WeightsOf(formula) \cup {1} : w < maxWeight}
  /\ LoadWBO(formula, maxWeight')
  /\ UNCHANGED <<lbCost, cores>>

Next ==
  /\ \/ MSU3Search \/ PartMSU3Search \/ OLLSearch \/ Unsupported
     \/ LinearSUSearch \/ BMOSearch \/ NextFunction
     \/ UnsatSearch \/ WBOSearch \/ LowerWeight
     \/ \E C \in SUBSET CurrentSoft(formula, maxWeight) \ {{}} : RelaxCore(C)
  /\ UNCHANGED <<algorithm, loaded>>

Spec == Init /\ [][Next]_vars

-----------------------------------------------------------------------------
Variables == 1 .. loaded.n

\* The assignment that makes exactly the variables of T true.
Assignment(T) == Exactly(Variables, T)

\* It satisfies the clauses and constraints that are not soft.
HardHolds(T) ==
  /\ \A c \in loaded.hard : c \cap Assignment(T) # {}
  /\ \A i \in DOMAIN loaded.pbs :
       LET p == loaded.pbs[i]
       IN  FoldSet(LAMBDA j, acc : acc + IF p.lits[j] \in Assignment(T) THEN p.coeffs[j] ELSE 0,
                   0, DOMAIN p.lits) <= p.rhs
  /\ \A i \in DOMAIN loaded.cards :
       Cardinality(loaded.cards[i].lits \cap Assignment(T)) <= loaded.cards[i].rhs

\* The weight of the soft clauses of f with weight in W that T falsifies.
CostOf(f, T, W) ==
  FoldLeft(LAMBDA acc, s : IF s.weight \in W /\ s.clause \cap Assignment(T) = {}
                             THEN acc + s.weight ELSE acc, 0, f.soft)

\* T costs no more, weight by weight, than the functions done allow.
WithinFunctions(T) ==
  \A i \in DOMAIN functions :
    LET w == OrderWeights(loaded)[i] IN CostOf(loaded, T, {w}) <= w * functions[i].rhs

\* Whatever the algorithm, and after any number of cores and rebuilds, the solver
\* without assumptions allows the assignments of the hard clauses and constraints
\* and no other; in bmoSearch only those that keep the optima of the weights done
\* (rebuildSolver, rebuildBMO, relaxCore).
HardKept ==
  status \in {"hard", "built"} =>
    \A T \in SUBSET Variables :
      ~ Refutes(Assignment(T)) <=> HardHolds(T) /\ WithinFunctions(T)

\* What the objective counts of the cost of an assignment.
Counted ==
  IF InBMO THEN {CurrentWeight(functions)} ELSE WeightsOf(loaded)

\* The least cost of the objective among the solver's extensions of T.
LeastObjective(T) ==
  Min({FoldSet(LAMBDA o, acc : acc + o[2], 0, {o \in objective : o[1] \in L}) :
         L \in {M \in SUBSET ObjectiveLits :
                  ~ Refutes(Assignment(T) \cup {-l : l \in ObjectiveLits \ M})}})

\* With all soft clauses in the solver the objective or the assumptions cost an
\* assignment exactly what it falsifies, less the weight of the cores relaxed:
\* no two literals are mixed up, split weights add up, and bmoSearch counts one
\* weight at a time (initRelaxation, initAssumptions, relaxCore).
ObjectiveIsCost ==
  status = "built" /\ (algorithm = "WBO" => CurrentSoft(formula, maxWeight) = DOMAIN formula.soft) =>
    \A T \in SUBSET Variables :
      HardHolds(T) /\ WithinFunctions(T) =>
        LeastObjective(T) = CostOf(loaded, T, Counted) - lbCost
=============================================================================
