----------------------------- MODULE MCSearches -----------------------------
(***************************************************************************)
(* The MaxSAT searches of src/src/algorithms/ beside PartMSU3 with its     *)
(* guide tree, and the promise all of them keep.  The program runs one of  *)
(* them (MaxSAT::search is virtual), so they share the variables of class  *)
(* MaxSAT; what a search does not have is NULL.  Module MSU3 is extended,  *)
(* the properties it states of these variables hold for every search of    *)
(* unweighted formulas.                                                    *)
(***************************************************************************)
EXTENDS MSU3, FiniteSetsExt

CONSTANTS
  Algorithms,        \* the searches of this run
  Partitions,        \* what MaxSAT_Partition may hand to PartMSU3: sequences of partitions
  UintMax,           \* UINT64_MAX
  LinearWeightings,  \* the weightings LinearSU searches, functions from Soft
  LinearInstances,   \* the formulas it searches
  OllWeightings      \* the weightings OLL searches, functions from Soft

\* A soft clause is in one partition, and one that is in none has the same value in all
\* models of the hard clauses.
ASSUME PartitionsAssumption ==
  \A p \in Partitions :
    /\ p \in Seq(SUBSET Soft)
    /\ \A i, j \in DOMAIN p : i # j => p[i] \cap p[j] = {}
    /\ \A I \in Instances : \A F, G \in I :
         F \ UNION {p[i] : i \in DOMAIN p} = G \ UNION {p[i] : i \in DOMAIN p}

\* Weights are positive (assertions at ParserMaxSAT.h:70 and 113), LinearSU has one to
\* begin with (assertion at Alg_LinearSU.cc:59), soft clauses are counted from 1.
ASSUME WeightsAssumption ==
  /\ LinearInstances \subseteq SUBSET SUBSET Soft
  /\ LinearWeightings \cup OllWeightings \subseteq [Soft -> Nat \ {0}]
  /\ UintMax \in Nat \ {0}
  /\ LinearWeightings # {} => Soft # {}
  /\ OllWeightings # {} => Soft = 1 .. Cardinality(Soft)

\* The weights of a formula add up to a uint64_t (MaxSATFormula.cc:132).
ASSUME SumAssumption ==
  \A wt \in OllWeightings : SumFunctionOnSet(wt, Soft) <= UintMax

VARIABLES
  algorithm,                                               \* the search that runs
  sorted, parts, partIndex, unitParts, addUnitParts,       \* PartMSU3Sequential
  cards, bounds,                                           \* OLL, both searches
  soft, weight, minWeight,                                 \* weighted searches
  bmo, models, posWeight, functions, encoded, localCost,   \* LinearSU
  weightStrategy, cores, symmetry, enforced, maxWeight     \* WBO

order  == <<sorted, parts, partIndex, unitParts, addUnitParts>>
oll    == <<cards, bounds>>
linear == <<bmo, models, posWeight, functions, encoded, localCost>>
wbo    == <<weightStrategy, cores, symmetry, enforced, maxWeight>>
others == <<algorithm, order, oll, soft, weight, minWeight, linear, wbo>>

-----------------------------------------------------------------------------
FiveSoft == 1 .. 5

\* Up to two models, or three, or all that falsify n soft clauses, which need cores
\* over the bounds of earlier cores; clause 5 is decided by the hard clauses alone.
Families ==
  {{}} \cup {{F \cup X, G \cup X} : F, G \in SUBSET (1 .. 4), X \in SUBSET {5}}
       \cup {{F, G, H} : F, G, H \in {S \in SUBSET (1 .. 4) : Cardinality(S) \in 1 .. 2}}
       \cup {{F \in SUBSET (1 .. 4) : Cardinality(F) = n} : n \in 1 .. 3}

\* Units first, in the middle and last, only units, an empty partition.
Orders == {<<{1, 2}, {3}, {4}>>, <<{3}, {1, 2}, {4}>>, <<{1, 2}, {3, 4}>>,
           <<{4}, {}, {1, 2, 3}>>, <<{1, 2, 3}, {4}>>, <<{1}, {2}, {3}, {4}>>}

FourSoft == 1 .. 4
Pairs == {{}} \cup {{F, G} : F, G \in SUBSET FourSoft}
              \cup {{F \in SUBSET FourSoft : Cardinality(F) = n} : n \in 1 .. 3}

\* For LinearSU, which has no cores: three models as well.
Triples == {{F, G, H} : F, G, H \in SUBSET FourSoft} \cup {{}, SUBSET FourSoft}

\* For WBO, whose cores are many: models that falsify one or two clauses of four.
Costly ==
  {{}} \cup {{F, G} : F, G \in {S \in SUBSET FourSoft : Cardinality(S) \in 1 .. 2}}
       \cup {{F \in SUBSET FourSoft : Cardinality(F) = n} : n \in 1 .. 3}

\* No model, a clause that no model satisfies, or two models that falsify one or two of
\* three.
SmallFamilies ==
  {{}} \cup {{F} : F \in {{1}, {2}}} \cup {{F, {2, 3}} : F \in {{1}, {2}, {1, 2}}}
       \cup {{{1}, {2}}}

NoModels == {{}}

\* Unweighted, lexicographic with two and three weights (once with equality in
\* isBMO), not lexicographic.
Lexicographic == {<<1, 1, 1, 1>>, <<2, 1, 2, 1>>, <<4, 2, 1, 1>>, <<3, 2, 2, 1>>}
Stratified == {<<1, 2, 3, 3>>, <<5, 3, 2, 2>>}

Sequential == INSTANCE PartMSU3Sequential
Oll     == INSTANCE OLL
Linear  == INSTANCE LinearSU WITH Weightings <- LinearWeightings, Instances <- LinearInstances
OllW    == INSTANCE OLLWeighted WITH Weightings <- OllWeightings
WboUnit == INSTANCE WBO WITH Weightings <- {<<1, 1, 1, 1>>}, Instances <- Costly
WboMix  == INSTANCE WBO WITH Soft <- 1 .. 3, Weightings <- {<<1, 2, 2>>},
                             Instances <- SmallFamilies

-----------------------------------------------------------------------------
NoOrder    == sorted = NULL /\ parts = NULL /\ partIndex = NULL /\ unitParts = NULL
                            /\ addUnitParts = NULL
NoCards    == cards = NULL /\ bounds = NULL
NoWeights  == soft = NULL /\ weight = NULL
NoLinear   == bmo = NULL /\ models = NULL /\ posWeight = NULL /\ functions = NULL
                         /\ encoded = NULL /\ localCost = NULL
NoWBO      == weightStrategy = NULL /\ cores = NULL /\ symmetry = NULL /\ enforced = NULL
                        /\ maxWeight = NULL
NoCore     == activeSoft = NULL /\ encoder = NULL

Unweighted == NoWeights /\ minWeight = NULL /\ NoLinear /\ NoWBO
Weighted   == NoCore /\ NoOrder

SearchInit ==
  /\ algorithm \in Algorithms
  /\ \/ algorithm = "msu3" /\ Init /\ NoOrder /\ NoCards /\ Unweighted
     \/ algorithm = "sequential" /\ Sequential!Init /\ NoCards /\ Unweighted
     \/ algorithm = "oll" /\ Oll!Init /\ encoder = NULL /\ NoOrder /\ Unweighted
     \/ /\ algorithm = "linearsu" /\ Linear!Init /\ Weighted /\ NoCards
        /\ assumptions = NULL /\ soft = NULL /\ minWeight = NULL /\ NoWBO
     \/ algorithm = "oll_weighted" /\ OllW!Init /\ Weighted /\ NoLinear /\ NoWBO
     \/ /\ algorithm = "wbo" /\ (WboUnit!Init \/ WboMix!Init)
        /\ Weighted /\ NoCards /\ NoLinear
        /\ assumptions = NULL /\ minWeight = NULL /\ nbSatisfiable = NULL

SearchNext ==
  \/ algorithm = "msu3" /\ Next /\ UNCHANGED others
  \/ /\ algorithm = "sequential" /\ Sequential!Next
     /\ UNCHANGED <<algorithm, oll, soft, weight, minWeight, linear, wbo>>
  \/ /\ algorithm = "oll" /\ Oll!Next
     /\ UNCHANGED <<algorithm, encoder, order, soft, weight, minWeight, linear, wbo>>
  \/ /\ algorithm = "linearsu" /\ Linear!Next
     /\ UNCHANGED <<algorithm, activeSoft, encoder, assumptions, order, oll, soft, minWeight, wbo>>
  \/ /\ algorithm = "oll_weighted" /\ OllW!Next
     /\ UNCHANGED <<algorithm, activeSoft, encoder, order, linear, wbo>>
  \/ /\ algorithm = "wbo" /\ WboUnit!Next
     /\ UNCHANGED <<algorithm, activeSoft, encoder, assumptions, nbSatisfiable, order, oll,
                    minWeight, linear>>

searchVars == <<vars, others>>

\* The program runs until the search returns; each SAT call ends.
SearchSpec == SearchInit /\ [][SearchNext]_searchVars /\ WF_searchVars(SearchNext)

-----------------------------------------------------------------------------
\* Whatever a search does to its formula, every model costs what it did: what the
\* cores have paid, the soft clauses still assumed, and what exceeds the bounds or
\* what the relaxation variables leave (Alg_OLL.cc:183-272 and 448-724,
\* Alg_WBO.cc:510-563 and 687-772).  Nothing is counted twice or lost when a clause is
\* split, or a constraint enters another core.
CostPreserved ==
  /\ algorithm = "oll" => Oll!CostPreserved
  /\ algorithm = "oll_weighted" => OllW!CostPreserved
  /\ algorithm = "wbo" => WboUnit!CostPreserved

\* The encodings keep up with the search: the totalizer counts the relaxed clauses and
\* states the bound, which the second model meets (Alg_MSU3.cc:154-169 and 99); every clause handed over is assumed or
\* counted (Alg_PartMSU3.cc:601-640); a core is made of bounds that are live
\* (assertions at Alg_OLL.cc:186, 197).
EncodingsInSync ==
  /\ algorithm = "msu3" => EncoderInSync /\ BoundsAgree
  /\ algorithm = "sequential" => Sequential!NothingDropped
  /\ algorithm = "oll" => Oll!BoundsAreLive

\* Copies of a clause share its weight, so that computeCostModel, which adds up all of
\* them, is still the cost of the formula (Alg_OLL.cc:324); localCost = 0 stands for
\* "not encoded yet", so that an update meets the encoding of its own weight
\* (Alg_LinearSU.cc:128-132); and UNSATISFIABLE is said before any model only
\* (assertion at Alg_LinearSU.cc:144).
WeightsInSync ==
  /\ algorithm = "oll_weighted" => OllW!CopiesShareWeight
  /\ algorithm = "linearsu" => Linear!UpdatesOwnEncoding /\ Linear!UnsatIsInfeasible

Cost(F) == MapThenSumSet(LAMBDA i : weight[i], F)

\* OPTIMUM is answered with a model of least total weight in hand, and the upper bound
\* is its cost (assertions at Alg_OLL.cc:396, Alg_WBO.cc:884 and 971), also when
\* weights are optimised one by one or considered in strata.
OptimumIsCheapest ==
  status = "OPTIMUM" /\ feasible # {} =>
    /\ model \in feasible
    /\ ubCost = Cost(model)
    /\ \A F \in feasible : ubCost <= Cost(F)

\* The search returns an answer: cores raise the bound, models lower it or bring lighter
\* clauses in.  WBO is promised to do so for a formula with models only, see
\* UnsatisfiableIsReturned.
SearchEnds ==
  <>(\/ status \notin {"start", "searching", "dropped"}
     \/ algorithm = "wbo" /\ feasible = {})

\* "If the hard clauses are unsatisfiable then the MaxSAT solver terminates and returns
\* 'UNSATISFIABLE'" (Alg_WBO.cc:786-787).  WBO prints it and drops it (lines 858 and 938):
\* normalSearch returns OPTIMUM in the end, weightSearch never returns.
UnsatisfiableIsReturned == feasible = {} => <>(status = "UNSATISFIABLE")

\* lbCost is already raised when the hard clauses are found unsatisfiable.
Promise == INSTANCE WeightedSearch
             WITH NoModel <- NULL, best <- model,
                  lower <- IF nbSatisfiable = 0 /\ algorithm = "oll_weighted" THEN 0 ELSE lbCost,
                  answer <- IF status = "start" THEN "searching" ELSE status

\* A weighted search keeps the promise of MaxSAT::search: model and bound are sound at
\* every step, so that an interrupted search can show them.  (Without models WBO goes
\* on after it printed UNSATISFIABLE, see UnsatisfiableIsReturned.)
KeepsPromise ==
  Promise!Init /\ [][Promise!Next \/ (algorithm = "wbo" /\ feasible = {})]_(Promise!vars)
=============================================================================
