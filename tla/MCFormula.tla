----------------------------- MODULE MCFormula ------------------------------
(***************************************************************************)
(* What happens to a formula before and around a search: it is read        *)
(* (PBFormula, WCNFParser), loaded into a SAT solver (FormulaLoading),     *)
(* its cost is bounded (Bounds), it is partitioned (Partition,             *)
(* Communities), and the partitions are ordered (SortPartitions,           *)
(* GuideTree).  Each of these is one sequential function; a behaviour is   *)
(* one run of one of them.  Variables that several modules declare are     *)
(* shared; the others are NULL.                                            *)
(***************************************************************************)
EXTENDS GuideTree, FiniteSetsExt

CONSTANTS
  NULL,           \* not a variable of the part that runs
  Running         \* the parts of this run

VARIABLES
  part,                                                           \* the part that runs
  status, formula, graph, objective,                              \* of several parts
  lines, minimise, names, hard, cards, pbs, soft,                 \* PBFormula
  hardWeight, read, copy,                                         \* WCNFParser
  algorithm, loaded, maxWeight, functions, lbCost, cores, solver, \* FormulaLoading
  model, listed, ub, lb,                                          \* Bounds
  mode, graphType, true, mapVar, mapSoft, mapHard, parts, stage,  \* Partition
  origin, size, vertexToComm, inside, total, vertexCommunity,     \* Communities
  order, next, curMod, better, level,
  shape, edge, hasGraph, weights, best_part, old_best_part,       \* SortPartitions
  best_max, out_parts, unit_parts

parser      == <<lines, minimise, names, hard, cards, pbs, soft>>
wcnf        == <<hardWeight, read, copy>>
loading     == <<algorithm, loaded, maxWeight, functions, lbCost, cores, solver>>
bounds      == <<model, listed, ub, lb>>
partition   == <<mode, graphType, true, mapVar, mapSoft, mapHard, parts, stage>>
communities == <<origin, size, vertexToComm, inside, total, vertexCommunity, order, next,
                 curMod, better, level>>
sorting     == <<shape, edge, hasGraph, weights, best_part, old_best_part, best_max,
                 out_parts, unit_parts>>
guideTree   == <<nPartitions, softs, adj, at, tree, noAdj, nodes, leaves, pairs, stack, phase>>

-----------------------------------------------------------------------------
\* Constraints of one to three products, a name possibly twice.
SmallProducts ==
  {<<<<c, "y">>>> : c \in {-2, -1, 1}}
    \cup {<<<<c, "x">>, <<d, n>>>> : c \in {-2, 1, 3}, d \in {-1, 0, 1}, n \in {"x", "y"}}
    \cup {<<<<c, "x">>, <<d, "y">>, <<e, "z">>>> : c, d, e \in {-1, 1}}

SmallObjectives ==
  {<<<<c, "z">>>> : c \in {-2, 1}}
    \cup {<<<<c, "y">>, <<d, "z">>, <<e, "y">>>> : c, d \in {-1, 2}, e \in {-2, 1}}

\* Formulas to load: contradicting soft clauses, equal and lexicographic weights and
\* others, hard constraints of each kind.
Soften(cs, ws) == [i \in DOMAIN cs |-> [clause |-> cs[i], weight |-> ws[i]]]

LoadedFormulas ==
  {[n |-> 3, hard |-> h, soft |-> Soften(cs, ws), pbs |-> p, cards |-> c] :
     h  \in {{}, {{1, 2}, {-1, 3}}},
     cs \in {<<{1}, {-1}>>, <<{1, 2}, {-2, 3}, {-1}>>, <<{1}, {2}, {3}>>},
     ws \in {<<1, 1, 1>>, <<1, 2, 1>>, <<1, 3, 2>>, <<4, 2, 1>>},
     p  \in {<<>>, <<[lits |-> <<1, -2, 3>>, coeffs |-> <<2, 1, 3>>, rhs |-> 3]>>},
     c  \in {<<>>, <<[lits |-> {1, 2, 3}, rhs |-> 1]>>, <<[lits |-> {-1, 2}, rhs |-> 0]>>,
             <<[lits |-> {1, 2, 3}, rhs |-> 2], [lits |-> {-1, -3}, rhs |-> 1]>>}}

\* Three soft clauses that contradict each other in several ways.
BoundedFormulas ==
  {[n |-> 2, hard |-> h, soft |-> Soften(cs, ws)] :
     h  \in {{}, {{-1, -2}}, {{1, 2}}, {{1}, {-1}}},
     cs \in {<<{1}, {-1}, {1}>>, <<{1}, {2}, {-1, -2}>>, <<{1, 2}, {-1}, {-2}>>,
             <<{1}, {1}, {-1, 2}>>},
     ws \in {<<1, 1, 1>>, <<2, 1, 1>>, <<1, 2, 4>>}}

\* Up to n of the clauses of S, in any order.
Lists(S, n) == UNION {{s \in [1 .. k -> S] : IsInjective(s)} : k \in 0 .. n}

PartitionedFormulas ==
  [hard : Lists({<<1>>, <<-1, 2>>, <<-1, -2, 3>>, <<2, 3>>}, 3)
            \cup {<<<<1>>, <<-1>>>>},
   soft : Lists({<<-1>>, <<1, -2>>, <<-2, 3>>, <<1, 2, -3>>}, 2)]

\* Four vertexes in a cycle or path with a chord, edges of weight two, a loop.
Vertexes == 0 .. 3

CommunityGraphs ==
  {[x \in Vertexes \X Vertexes |->
      IF x[1] = x[2] THEN (IF x[1] = 0 THEN loop ELSE 0) ELSE w[{x[1], x[2]}]] :
    loop \in 0 .. 1,
    w \in {w \in [kSubset(2, Vertexes) -> 0 .. 2] :
             w[{1, 3}] = 0 /\ w[{2, 3}] = 1 /\ w[{0, 3}] = 0 /\ w[{0, 2}] < 2 /\ w[{1, 2}] < 2}}

\* Three partitions with any edges; the first may have edges inside.
Parts == 0 .. 2

PartitionGraphs ==
  {[x \in Parts \X Parts |->
      IF x[1] = x[2] THEN (IF x[1] = 0 THEN loop ELSE 0) ELSE across[x[1] + x[2]]] :
    loop \in 0 .. 1, across \in [1 .. 3 -> 0 .. 2]}

\* Guide trees: up to four partitions with unit and empty ones, and four or five that
\* only pairing concerns, of which five leave three for the second round.
GuideTreeInputs ==
  LET Ids(n) == 0 .. n - 1
      Matrix(n, w) == [p \in Ids(n) |-> [q \in Ids(n) |-> IF p = q THEN 0 ELSE w[{p, q}]]]
      Weighted(n, softCounts, ws) ==
        {[n |-> n, softs |-> s, adj |-> Matrix(n, w)] :
           s \in [Ids(n) -> softCounts], w \in [kSubset(2, Ids(n)) -> ws]}
  IN  UNION {Weighted(n, 0 .. 2, {0, 1}) : n \in 1 .. 4}
        \cup Weighted(4, {2}, 0 .. 3) \cup Weighted(5, {2}, {0, 1})

Pb     == INSTANCE PBFormula WITH Names <- {"x", "y", "z"}, IntMax <- 127,
            Products <- SmallProducts, Objectives <- SmallObjectives, Sides <- -2 .. 3,
            MaxLines <- 1
Wcnf   == INSTANCE WCNFParser WITH Clauses <- {<<>>, <<1>>, <<-2>>, <<1, -3>>},
            Tops <- {1, 3, 7}, Weights <- {1, 2, 3, 5}, UintMax <- 7, MaxLines <- 3
Load   == INSTANCE FormulaLoading WITH
            Algorithms <- {"MSU3", "PartMSU3", "OLL", "LinearSU", "WBO"},
            Formulas <- LoadedFormulas, UInt64Max <- 15, MaxCores <- 2
Bound  == INSTANCE Bounds WITH Formulas <- BoundedFormulas, UIntMax <- 7
Split  == INSTANCE Partition WITH Var <- 1 .. 3, Formulas <- PartitionedFormulas,
            EdgeLimit <- 5, RandomPartitions <- 2, MaxCommunities <- 3
Find   == INSTANCE Communities WITH Graphs <- CommunityGraphs
Sort   == INSTANCE SortPartitions WITH Shapes <- [soft : 0 .. 2, rank : 0 .. 1],
            Graphs <- PartitionGraphs

-----------------------------------------------------------------------------
NoParser ==
  /\ lines = NULL /\ minimise = NULL /\ names = NULL /\ hard = NULL /\ cards = NULL
  /\ pbs = NULL /\ soft = NULL
NoWcnf == hardWeight = NULL /\ read = NULL /\ copy = NULL
NoLoading ==
  /\ algorithm = NULL /\ loaded = NULL /\ maxWeight = NULL /\ functions = NULL
  /\ lbCost = NULL /\ cores = NULL /\ solver = NULL
NoBounds == model = NULL /\ listed = NULL /\ ub = NULL /\ lb = NULL
NoPartition ==
  /\ mode = NULL /\ graphType = NULL /\ true = NULL /\ mapVar = NULL
  /\ mapSoft = NULL /\ mapHard = NULL /\ parts = NULL /\ stage = NULL
NoCommunities ==
  /\ origin = NULL /\ size = NULL /\ vertexToComm = NULL /\ inside = NULL
  /\ total = NULL /\ vertexCommunity = NULL /\ order = NULL /\ next = NULL
  /\ curMod = NULL /\ better = NULL /\ level = NULL
NoSorting ==
  /\ shape = NULL /\ edge = NULL /\ hasGraph = NULL /\ weights = NULL
  /\ best_part = NULL /\ old_best_part = NULL /\ best_max = NULL
  /\ out_parts = NULL /\ unit_parts = NULL
NoGuideTree ==
  /\ nPartitions = NULL /\ softs = NULL /\ adj = NULL /\ at = NULL
  /\ tree = NULL /\ noAdj = NULL /\ nodes = NULL /\ leaves = NULL
  /\ pairs = NULL /\ stack = NULL /\ phase = NULL

FormulaInit ==
  /\ part \in Running
  /\ \/ /\ part = "pb" /\ Pb!Init
        /\ formula = NULL /\ graph = NULL /\ active = NULL
        /\ NoWcnf /\ NoLoading /\ NoBounds /\ NoPartition /\ NoCommunities /\ NoSorting
        /\ NoGuideTree
     \/ /\ part = "wcnf" /\ Wcnf!Init
        /\ graph = NULL /\ objective = NULL /\ active = NULL
        /\ NoParser /\ NoLoading /\ NoBounds /\ NoPartition /\ NoCommunities
        /\ NoSorting /\ NoGuideTree
     \/ /\ part = "loading" /\ Load!Init
        /\ graph = NULL /\ active = NULL
        /\ NoParser /\ NoWcnf /\ NoBounds /\ NoPartition /\ NoCommunities /\ NoSorting
        /\ NoGuideTree
     \/ /\ part = "bounds" /\ Bound!Init
        /\ graph = NULL /\ objective = NULL
        /\ NoParser /\ NoWcnf /\ NoLoading /\ NoPartition /\ NoCommunities /\ NoSorting
        /\ NoGuideTree
     \/ /\ part = "partition" /\ Split!Init
        /\ status = NULL /\ objective = NULL /\ active = NULL
        /\ NoParser /\ NoWcnf /\ NoLoading /\ NoBounds /\ NoCommunities /\ NoSorting
        /\ NoGuideTree
     \/ /\ part = "communities" /\ Find!Init
        /\ formula = NULL /\ objective = NULL /\ active = NULL
        /\ NoParser /\ NoWcnf /\ NoLoading /\ NoBounds /\ NoPartition /\ NoSorting
        /\ NoGuideTree
     \/ /\ part = "sorting" /\ Sort!Init
        /\ formula = NULL /\ graph = NULL /\ objective = NULL /\ active = NULL
        /\ NoParser /\ NoWcnf /\ NoLoading /\ NoBounds /\ NoPartition /\ NoCommunities
        /\ NoGuideTree
     \/ /\ part = "guide_tree" /\ Init
        /\ status = NULL /\ formula = NULL /\ graph = NULL /\ objective = NULL
        /\ NoParser /\ NoWcnf /\ NoLoading /\ NoBounds /\ NoPartition /\ NoCommunities
        /\ NoSorting

FormulaNext ==
  \/ /\ part = "pb" /\ Pb!Next
     /\ UNCHANGED <<part, formula, graph, active, wcnf, loading, bounds, partition,
                    communities, sorting, guideTree>>
  \/ /\ part = "wcnf" /\ Wcnf!Next
     /\ UNCHANGED <<part, graph, objective, active, parser, loading, bounds,
                    partition, communities, sorting, guideTree>>
  \/ /\ part = "loading" /\ Load!Next
     /\ UNCHANGED <<part, graph, active, parser, wcnf, bounds, partition,
                    communities, sorting, guideTree>>
  \/ /\ part = "bounds" /\ Bound!Next
     /\ UNCHANGED <<part, graph, objective, parser, wcnf, loading, partition,
                    communities, sorting, guideTree>>
  \/ /\ part = "partition" /\ Split!Next
     /\ UNCHANGED <<part, status, objective, active, parser, wcnf, loading, bounds,
                    communities, sorting, guideTree>>
  \/ /\ part = "communities" /\ Find!Next
     /\ UNCHANGED <<part, formula, objective, active, parser, wcnf, loading, bounds,
                    partition, sorting, guideTree>>
  \/ /\ part = "sorting" /\ Sort!Next
     /\ UNCHANGED <<part, formula, graph, objective, active, parser, wcnf, loading,
                    bounds, partition, communities, guideTree>>
  \/ /\ part = "guide_tree" /\ Next
     /\ UNCHANGED <<part, status, formula, graph, objective, parser, wcnf, loading,
                    bounds, partition, communities, sorting>>

formulaVars ==
  <<part, status, formula, graph, objective, active, parser, wcnf, loading, bounds, partition,
    communities, sorting, guideTree>>

\* The parts with loops whose end is not obvious.
Looping == part \in {"bounds", "communities", "sorting", "guide_tree"} /\ FormulaNext

\* Each part is a function in one thread, which runs until it returns.
FormulaSpec == FormulaInit /\ [][FormulaNext]_formulaVars /\ WF_formulaVars(Looping)

-----------------------------------------------------------------------------
\* Reading, copying and loading keep the assignments a formula allows and what they
\* cost: negative coefficients and changed signs (FormulaPB.h:94-152), the type, weights
\* and first upper bound of a copy (MaxSATFormula.cc:34-55, ParserMaxSAT.h:110-136),
\* objective and offset (MaxSATFormula.cc:204-224), every algorithm's relaxation and
\* assumption literals, also when weights are split or optimised one by one and after
\* any number of cores and rebuilds (rebuildSolver, rebuildBMO, relaxCore), the bounds of
\* getUB and getLB, and the clauses listed with the answer (computeCostModel,
\* printUnsatisfiedSoftClauses).
MeaningKept ==
  /\ part = "pb" => Pb!MeaningPreserved /\ Pb!StoredAsAtMost /\ Pb!ObjectivePreserved
  /\ part = "wcnf" => Wcnf!CopyIsEqual /\ Wcnf!TypeMatchesWeights /\ Wcnf!UpperBoundIsSum
  /\ part = "loading" => Load!HardKept /\ Load!ObjectiveIsCost
  /\ part = "bounds" => Bound!BoundsHold /\ Bound!WeightsAddUp /\ Bound!ListedCost

\* No undecided clause is lost, whatever graph, communities and order are found: it is
\* in the one partition its map names, the communities are connected and their totals
\* right, and each partition with soft clauses is in the order once
\* (MaxSAT_Partition.cc:199-312, Graph_Communities.cc:160-293,
\* Alg_PartMSU3.cc:389-465).
NoClauseLost ==
  /\ part = "partition" => /\ Split!LeftOutIsFixed /\ Split!ListsMatchMaps
                           /\ Split!VertexesDistinct /\ Split!ClauseAtHome
  /\ part = "communities" => Find!TotalsAreRight /\ Find!GraphIsQuotient /\ Find!CommunitiesJoined
  /\ part = "sorting" => Sort!EveryPartitionOnce /\ Sort!StaysInside

\* A vertex moves only when that raises the modularity (Graph_Communities.cc:133-147),
\* and an order that follows edges takes the partition bound most tightly to those
\* before it (Alg_PartMSU3.cc:437-451).
StepsImprove ==
  [][/\ part = "communities" => Find!MoveImproves
     /\ part = "sorting" => Sort!TakesHeaviest]_formulaVars

\* Each of them ends: partitions that take partners from each other come to rest, the
\* passes over the vertexes stop, edges through partitions without soft clauses do,
\* too, and each core of getLB releases a clause (not when the hard clauses are
\* refuted: cores are empty then).
PartsEnd ==
  []<>(CASE part = "communities" -> status = "done"
         [] part = "sorting"     -> status # "sorting"
         [] part = "guide_tree"  -> phase = "done"
         [] part = "bounds"      -> status # "LB" \/ Bound!Models = {}
         [] OTHER                -> TRUE)
=============================================================================
