# TLA+ models of the Game of Life reverser

The program reads a board of Conway's Game of Life and prints a *previous*
board with as few live cells as possible. `src/src/Main.cc` turns the board
into a MaxSAT formula, one variable per cell, and calls a copy of Open-WBO
(everything else under `src/src`). Of that it uses one configuration: the
algorithm PartMSU3 with binary merging, the resolution graph, and iterative
totalizers on top of Glucose 4.1. A limit of 295 seconds of processor time
ends the search through a signal handler that prints the best board so far.
The other algorithms, encodings and solvers of Open-WBO are in the tree and are
modelled too: they share the parts the program runs.

Paths below are relative to `src/src/` unless they start with `src/`;
`G/` stands for `solvers/glucose4.1/`.

## Inventory

| part | state | operations | what makes it correct |
|---|---|---|---|
| formula builder, `Main.cc:215-563` | board, clauses | one rule family per kind of cell, nested loops | models = previous boards; soft clauses = dead cells |
| main and handler, `Main.cc:81-102, 565-592`; `MaxSAT::saveModel`, `getValue` | solver pointer, saved model, output | load, search, print; SIGXCPU, SIGTERM at any point | the board printed is the best one found |
| search interface, `MaxSAT.h/.cc` | model, bounds, status | search, saveModel, computeCostModel, getUB, getLB, printAnswer | OPTIMUM and UNSATISFIABLE mean what they say; bounds enclose the optimum |
| loading, `rebuildSolver` and its kin in `algorithms/` | SAT solver, objective, assumptions | one function per algorithm and phase | the solver has the hard part, the objective costs what is falsified |
| PartMSU3 binary, `algorithms/Alg_PartMSU3.cc:666-916` | deque of tree nodes, bounds and encoder per node, relaxed soft clauses, global bounds | one SAT call per round; model: merge the node; core: relax and raise | lower bound sound, encodings in sync, optimum optimal, termination |
| guide tree, `Alg_PartMSU3.cc:107-336` | adjacency matrix, active partitions, pairs | merge small partitions, pair, merge pairs | a binary tree over all soft clauses; pairing terminates |
| PartMSU3 sequential, `Alg_PartMSU3.cc:392-665` | part index, unit partitions, order | as above without a tree | as above; every partition is handed over |
| partitioning, `MaxSAT_Partition.cc`, `graph/` | graph of clauses, communities | unit propagation, three graphs, community search | every undecided soft clause in one partition |
| MSU3, OLL, WBO, LinearSU (`algorithms/`) | bounds, relaxed clauses, encodings, weights | one SAT call per round | cost of every model preserved, answers right, termination |
| totalizer, `encodings/Enc_Totalizer.cc` behind `Encoder.cc` | adders with the bound each one is encoded for | build, join, add, update | outputs count the inputs, nothing is lost when bounds rise |
| other encodings, `encodings/` | clauses, outputs | encode, update | exactly the assignments within the bound, at every step |
| formula and parsers, `FormulaPB.h`, `MaxSATFormula.*`, `ParserPB.*`, `ParserMaxSAT.h` | clauses, constraints, objective, weights | read a line, normalise, file, copy | the meaning is kept |
| Glucose search, `G/core` | trail, watches, reasons, learnt clauses, heap, averages | add, propagate, analyse, backtrack, restart, reduce, solve | nothing missed, learnt clauses follow, answers right under assumptions |
| Glucose memory, `G/mtl`, `G/core/SolverTypes.h` | region, watcher lists, heap, arrays | allocate, free, move, sort | no reference dangles, the order holds |
| Glucose simplification, `G/simp` | occurrence lists, queues, eliminated clauses | subsume, strengthen, eliminate, extend | models extend, nothing is invented |
| Glucose parallel, `G/parallel` | clones, companion, ring, purgatory | clone, share, import, finish, join | the winner's answer is given, nothing wrong is shared |
| MiniSat, `solvers/minisat2.2/core` | as Glucose | as Glucose, with interrupts | as Glucose |
| Glucose 4.0, MiniSat's simplifier, options, streams | | | not modelled |

How they interact: `main` builds the formula (formula builder), hands it to
PartMSU3 (`loadFormula`) and calls `search`. PartMSU3 splits the soft clauses
(partitioning), builds the guide tree, and per tree node owns an `Encoder`
that adds totalizer clauses to the one SAT solver shared by all nodes. Each
round is a SAT call under assumptions. The best model is kept in
`MaxSAT::model`; `main` reads it after the search, the signal handler at any
time, including while `saveModel` replaces it. In the program that is built the
signal handler is the only concurrency; the parallel solver, which a sibling
build of Glucose links, has threads that share units, clauses and the answer.

Hard behaviours: the handler against every other step; the order in which tree
nodes are solved and merged, with four combinations of encodings; encodings
completed in pieces as bounds rise; the pairing of partitions that take
neighbours from each other; watcher lists, reasons and references that are
cleaned late; clauses removed while they are reasons; threads that finish at
once; a ring that is full; the index arithmetic of about five hundred
hand-written clauses. `PROJECT.json` lists them under `hazards`, each at its line.

## Modules

One module models one part of the code. Five modules `MC...` give the constants values for TLC
and put parts together that are checked by one run: `MCSearches` the searches (the
program runs one of them at a time and they share the variables of class `MaxSAT`), `MCFormula`
what happens to a formula before a search, `MCEncodings` the encodings behind class `Encoder` and
the clauses `Main.cc` builds from a board (module `LifeEncoding`, which it extends),
`MCSolver` the SAT solvers and what they delegate, `MCParallel` the parallel solver. There a
variable says which part runs; the variables of the others are `NULL`, those declared by several
parts are shared, and a property has one conjunct per part, taken from the part's module.

An operator `XWrongly` (or, once, `SkipOthers`) before an operator `X` is `X` with a plausible
bug. No action uses it: it only serves to show that a property notices it.

| module | models | abstract specification or sharing |
|---|---|---|
| `MaxSATSearch`, `WeightedSearch` | the promise of `MaxSAT::search`, for weight 1 and for any weights | abstract; implemented by the searches below |
| `CoreGuided` | SAT call and encoder as sets | extended by `PartMSU3`, `PartMSU3Sequential`, `MSU3`, `OLL` |
| `PartMSU3`, `PartMSU3Sequential`, `MSU3`, `LinearSU`, `OLL`, `OLLWeighted`, `WBO` | one search each | each implements a search above |
| `GuideTree`, `SortPartitions` | the order in which PartMSU3 takes partitions | give what the searches assume |
| `Partition`, `Communities` | `MaxSAT_Partition.cc`, `graph/Graph_Communities.cc` | `Partition` uses what `Communities` promises |
| `FormulaLoading`, `Bounds` | loading into a SAT solver; costs and bounds in `MaxSAT.cc` | |
| `PBFormula`, `WCNFParser` | formula container and parsers | |
| `LifeEncoding`, `LifeReversal` | `Main.cc` | `LifeReversal` uses `MaxSATSearch` by INSTANCE |
| `ClauseDB`, `Totalizer`, `CardinalityNetwork`, `ModuloTotalizer`, `GeneralizedTotalizer`, `SequentialCounter`, `BinaryAdder` | the encodings, down to clauses | `ClauseDB` is shared |
| `SearchTrail`, `Glucose`, `MiniSat`, `Simplifier` | the SAT solvers and the preprocessor | `SearchTrail` is shared |
| `BranchingOrder`, `ClauseArena` | what the solvers delegate: what to decide, where clauses live | |
| `ClausesBuffer`, `MultiSolvers`, `SolverClone`, `Purgatory` | the parallel solver: sharing of clauses, threads and answer, clones, imported clauses | `ClausesBuffer` implements a blackboard stated in it |
| `PartMSU3_proofs`, `SingleSearches_proofs` (MSU3, sequential PartMSU3, OLL, LinearSU), `Searches_proofs` (weighted OLL, all searches of `MCSearches`), and the ends of `GuideTree`, `LifeReversal`, `LifeEncoding` and `MultiSolvers` | theorems | checked by tlapm |
| `FiniteSums` | what sums over finite sets are, for the proofs about costs | lemmas, extended by `SingleSearches_proofs` |

### MaxSATSearch and PartMSU3

An assignment is represented by the set of soft clauses it falsifies, a formula
by the family `feasible` of these sets, so a formula is a constant family and
every formula over the soft clauses is covered. All weights are 1, as
`Main.cc:562` adds them. A SAT call answers with any member of `feasible` that
meets the assumptions or with any core the assumptions allow, minimal or not;
this is more than Glucose does. The code adds each soft clause with one
relaxation variable in one direction (`soft or r`), so a model may set `r`
without need; counting falsified clauses instead is exact because a model with
fewer relaxation variables true always exists and satisfies every assumption
the other one satisfies.

State: `guideTree` is the deque, `nodes` the tree nodes not deleted yet, `lb` and
`encoder` their fields, `activeSoft` the array of that name, `assumptions` what
the next call assumes (soft clauses that must hold, and "at most `rhs` of
`lits`"). Actions, one per path through the loop body:

| action | path |
|---|---|
| `FirstModel` | first l_True, first node popped (714-723) |
| `HandToParent` | l_True, sibling unsolved: the parent takes the encoder (811-831) |
| `MergeIntoParent` | l_True, sibling solved: encodings joined, parent queued (727-831) |
| `RootSolved` | l_True at the root: OPTIMUM (832-836) |
| `HardUnsatisfiable` | l_False before a model or without assumptions in the conflict (840-842) |
| `BoundsMeet` | l_False, lower bound reaches the cost of the saved model (845-857) |
| `RelaxCore` | l_False: core relaxed, encoding built or extended, new assumptions (859-914) |

`front()` on an empty deque is modelled as the status "undefined".
`TreeAssumption` (a binary tree with disjoint leaves) is what module
`GuideTree` proves of `computeGuideTree`. `InstanceAssumption` says that all models
agree on the soft clauses outside the tree: `MaxSAT_Partition` leaves out
exactly those that unit propagation of the hard clauses decides.

Properties: the assertions of the code (833, 864), that no node is solved before
its children, that encodings and assumptions are in sync with the relaxed clauses
through all merges (`SafetyInv`), `LowerBoundSound`, `OptimumIsOptimal`,
`UnsatIsInfeasible`, `GuideTreeOrder`, `Termination`, and that the algorithm
implements `MaxSATSearch` (`ImplementsSearch`, with `best <- model`,
`lower <- lbCost`, `answer <- status`).

### GuideTree

A node is the set of its partitions. The phases are the loops of the function:
`KeepPartition`, `MergeUnit`, `SetAside`, `OutputLeaves` for 139-233, `SelectPair`,
`PairWithAny`, `AllPaired` for 244-289, `MergePair`, `SkipMerged`, `RoundMerged` for
292-335. Iteration over `std::unordered_map` is in any order, which matters for equal
weights only. Weights are naturals with 0 for "no edge"; the doubles of the code
are sums of positive terms, their rounding is not modelled. `PartitionedInputs` are the numbers of
partitions, soft clauses and weights the run starts from.

Properties: edges stay symmetric and join active partitions only, no partition
with soft clauses is lost or placed twice while units are merged, the pairs are
mutual (assertion at 296) and stable at the end of a round (no two partitions
would both gain by leaving their pairs), the result is the tree `PartMSU3`
assumes, and the function returns (part of `PartsEnd`).

### The other searches

`MSU3` assumes all soft clauses at once and has one totalizer; its actions are the
four ways through the loop of `MSU3_iterative` (`Sat`, `HardUnsatisfiable`, `BoundsMeet`,
`RelaxCore`). `PartMSU3Sequential` adds a partition after each model, in either of the
two orders, and the units together at the end. `LinearSU` searches from above; with
weights in lexicographic order it optimises one weight at a time and turns each optimum
into a hard constraint, which `UpdatesOwnEncoding` watches: `localCost = 0` is the
code's only sign that nothing is encoded. `OLL` and `OLLWeighted` keep the totalizers in
a list (`cards`) and the assumptions as literals; the invariant that everything
rests on is `CostPreserved`: the cost of every model is what the cores have paid plus what the
soft clauses and outputs still assumed would charge. `WBO` states the same over the
choices of its relaxation variables, through the splitting of clauses, the
rebuilding of the solver and the clauses that break symmetries. `rebuildSolver` and
`rebuildWeightSolver` copy the hard clauses before they call `symmetryBreaking`, so the solver has the symmetry
clauses of a core only after the next rebuilding: `symmetry` is what the formula has, `enforced` what the
solver has, and `CostPreserved` holds of both. Unlike the other searches, WBO answers, and refines
`WeightedSearch`, only for formulas with models: both of its searches drop the result of `unsatSearch` (status
`dropped`). `SearchEnds` and `KeepsPromise` leave these formulas out, and the run `searches_unsatisfiable` is
about them (see Findings). In `MCSearches` the properties of the single searches are collected:
`CostPreserved` (OLL, OLLWeighted, WBO), `EncodingsInSync` (MSU3, PartMSU3Sequential, OLL),
`WeightsInSync` (OLLWeighted, LinearSU), and for all of them that OPTIMUM is optimal, that they
answer, and that they implement the promise.

### Partition, Communities, SortPartitions

`Partition` starts from clauses: propagation of the hard ones, one of the three graphs
(VIG, CVIG, resolution), any communities, and the lists and maps that come out.
`LeftOutIsFixed` is the fact the searches assume of the clauses outside the tree.
`Communities` is the search itself: the totals of the communities are updated while
vertexes move (`TotalsAreRight`), every move raises the modularity (`MoveImproves`), which is why
it ends. Weights are integers, so rounding is left out. `SortPartitions` is the order of
the sequential strategy.

### Loading, bounds, formulas

`FormulaLoading` holds every `rebuild...`, `initRelaxation` and `load` function of the
algorithms, with the encoders entered by what they achieve. Constraints that an encoder cannot
take (a negative right-hand side, or one above the number of literals) are kept out of the
formulas: what the code does with them is under "Seen while modelling". The container stores every
constraint as "at most", which `PBFormula` checks (`StoredAsAtMost`), so the branches for other
relations never run. `Bounds` has the cost functions and `getUB`/`getLB`, which no algorithm
of this version calls. In `PBFormula` and `WCNFParser` the integers have a width (`IntMax`,
`UintMax`).

### Totalizer

Clauses are implications, the solver's variables are numbers, and a totalizer has
the recorded adders with the bound each is encoded for. `Build`, `Join`, `Add`,
`Update` are the four methods in the iterative mode, with the skipped encodings
of `build` for the bounds 0 and n. Since every clause is a Horn clause over
positive literals, the literals a choice of true inputs forces are computed by
unit propagation (`Forced`) and compared with the number of true inputs.
`ilits` is left out: only OLL reads it, and it never joins literals.

Properties: after an update a totalizer allows exactly the inputs its bound
allows (`Counts`), at no time does an output overcount (`NeverOvercounts`), the root is
the last recorded adder (`add` relies on it), `incremental` adds nothing twice.

### The other encodings

Each module adds clauses through `ClauseDB` and checks them against the constraint they encode
by trying every assignment of the inputs, after every update: `CardinalityNetwork`,
`ModuloTotalizer`, `GeneralizedTotalizer` (also that `predict` bounds the number of clauses),
`SequentialCounter` (plain and in batches), `BinaryAdder`. "Exact" means that an assignment of the
inputs extends to the other variables if and only if the constraint allows it. The bounds and
coefficients are those an encoding is right for: a modulus no larger than the number of
literals, coefficients of the adder with no more bits than the bound.

### LifeEncoding

Clauses are pairs of sets of variables; each rule family is the family of all
k-subsets of the neighbours that the hand-written clauses spell out (each one
was expanded and compared with the source). `EncodeInterior`, `EncodeCorners`,
`EncodeLines`, `EncodeColumns`, `EncodeSoft` are the loops in their order.

The line loop starts at `j=0`. For the last line this adds the five-neighbour
rules to cell (lin-1,0) with cells of the right column; for the first line an index
is -1. `Solver::addClause_` then sees its own sentinels: the negative literal of
variable -1 is the complement of `lit_Undef`, so the clause is dropped; the positive
one is `lit_Undef`, taken for a repetition and removed unless the byte in front of the
assignment vector reads as l_True, which drops the clause. `stray` is this
byte, either way. Other consequences of the index -1 (the resolution graph indexes
arrays with it when the byte does not read as l_True) are not modelled.

Properties: `Sound` (every model evolves into the given board, border cells dead),
`CompleteWithoutWrap` (the index error excludes no previous board whose last
column is dead), and `Complete`, which fails (see Findings). The game's rules are
stated independently, on coordinates.

### LifeReversal

The search takes steps of `MaxSATSearch` (by INSTANCE); a step that replaces the
model is followed by `saveModel`, one `SaveStep` per variable. `memory` is the
storage of the vector, which keeps stale elements beyond `size`. `Printed` is
what `getValue` yields: indices up to *and including* `size` are read. A
signal (`Signal`) may strike after any step, including in the handler of the other
signal; handlers never return. `SignalCrashes` is a signal while `mxsolver` is
NULL, or after the solver is deleted. Printing is one step per `printf`;
corruption of the stdio buffer by reentrance is not modelled.

Properties: without a signal exactly one board is printed and it is optimal;
interrupted between two saves or while printing, the last board is the best one
found; interrupted inside `saveModel`, the damage is limited to
`TornBoardIsPrefix`; the program ends.

### SearchTrail, Glucose, MiniSat

A clause is a record with its literals, the two in front, whether it is learnt, its
LBD and whether it is still there; a reference is an index into `db`. One action is one
turn of a loop: a watcher visited by `propagate` (binary ones first), or a step of `search`
after `propagate` returned: conflict and analysis, restart, `simplify`, `reduceDB`, an
assumption, a decision. Decisions, phases, the order of watchers, when to restart and which
half to forget are choices. The input is a script of clauses and calls. In this copy the field
`incremental` starts as true and nothing clears it; outside that mode (`Plain` in `MCSolver`)
learnt clauses are shortened by binary ones.

Properties: no unit or conflict is missed when propagation ends (`NoUnitMissed`),
learnt clauses follow from the formula, none of the formula's is forgotten, reasons hold,
every answer and final conflict is right (`AnswersRight`), searches end. MiniSat adds that the first
literal of a reason is the implied one, that its queue is empty after a conflict, and that
interrupts leave the solver usable.

### BranchingOrder, ClauseArena

`BranchingOrder`: the heap with the indices into it, bumping, rescaling, random decisions, late
removal, backtracking. `ClauseArena`: addresses in a region, watchers that are cleaned late
(`smudge`, `clean`), relocation with forwarding references, and that moving everything never
needs more room.

### Simplifier

`SimpSolver::eliminate` with its queues: a pass over a variable, over an entry of the subsumption
queue, or over a round is one step. `ModelsExtend`: a model of what is left, extended by `extendModel`,
satisfies every clause added; `NothingInvented`: no clause follows that did not before. The formulas
of gates in `MCSolver` reach asymmetric branching and the limit on resolvents.

### The parallel solver

`MultiSolvers`: the main process launches threads, sleeps on a condition variable, joins;
a thread learns and shares units, imports those it has not seen, finds an answer, claims
to be the winner, publishes the status, fills its model and signals, each a step of its
own. `SolverClone`: solver 0 loads and simplifies before the copies are made, what is added
later goes to all; every solver must then answer for the same formula
(`AnyoneMayAnswer`). `ClausesBuffer` is the ring of integers; the blackboard it
implements (`PromisedInit`, `PromisedNext`) gives a thread the clauses of the others in their
order, each at most once. `Purgatory` is what an importing thread does with a clause until it has
proved useful.

## Runs

"v" marks a run that must find a violation (see Findings).

| run | module, configuration | checks | |
|---|---|---|---|
| `partmsu3` | `PartMSU3`, `PartMSU3.cfg` | The search up a guide tree, from every merged encoding and every order of its nodes: the bounds stay sound, the encodings count what was relaxed, no node is solved before its children, and the search ends with an optimum. |  |
| `searches` | `MCSearches`, `Searches.cfg` | MSU3, the sequential PartMSU3 and OLL on every unweighted formula of a family: what each rewrites keeps the cost of every model, and each ends with an optimum and nothing an abstract search would not do. |  |
| `searches_weighted` | `MCSearches`, `SearchesWeighted.cfg` | LinearSU by weights, weighted OLL and WBO on weighted formulas: split and relaxed clauses keep their weight, every weight level stays enforced, and the answer is the cheapest model. |  |
| `searches_unsatisfiable` | `MCSearches`, `SearchesUnsatisfiable.cfg` | WBO on a formula without models, with and without weights: UNSATISFIABLE is printed and never returned. | v |
| `formula` | `MCFormula`, `Formula.cfg` | What happens between the parser and the search: PB and weighted formulas, their loading, the cost bounds, the partition of the clauses, the communities, their order and the guide tree. |  |
| `life_encoding_border` | `LifeEncoding`, `LifeEncodingComplete.cfg` | A predecessor that satisfies the rules the README states is excluded by the border clauses of another row. | v |
| `life_reversal` | `LifeReversal`, `LifeReversal.cfg` | The search, its improvements and up to two signals at any point: what is printed is the optimum, or the best model between two saves, or a prefix of it. |  |
| `life_reversal_torn` | `LifeReversal`, `LifeReversalTorn.cfg` | A signal in the middle of saveModel prints a board that is no model at all. | v |
| `life_reversal_early` | `LifeReversal`, `LifeReversalEarly.cfg` | A signal before the search object exists prints nothing. | v |
| `encodings` | `MCEncodings`, `Encodings.cfg` | What is put into clauses by hand-written indices.  Six encodings of cardinality and pseudo-Boolean constraints, built, updated, joined and extended, allow exactly the assignments of at most the bound, by propagation where the searches rely on it; the clauses of every board of three sizes allow predecessors only, and every predecessor without live cells in the last column. |  |
| `solver` | `MCSolver`, `Solver.cfg` | The CDCL solvers, the simplifier, the clause arena and the branching heap over several calls: clauses keep their meaning, watches, reasons and heaps agree with the clauses, and answers are right. |  |
| `parallel` | `MCParallel`, `Parallel.cfg` | Two threads that search, share unary clauses and clauses through the ring and the purgatory, and answer; and clauses given to solvers that were cloned. |  |

Why the bounds are enough to meet the interesting cases.

* `partmsu3`: the tree ((a, b), (c, d)) has both merge branches with every combination of present
  and absent encodings, two inner nodes that wait for each other, a soft clause outside the tree;
  the formulas have cores with and without soft clauses, and both ways to end.
* `searches`, `searches_weighted`: four or five soft clauses give cores that overlap, a totalizer
  that grows twice (MSU3) or counts another's output (OLL), clauses split twice (WBO), weights that
  are and are not lexicographic (LinearSU). SAT calls answer with any core and any model. WBO with
  weights has three soft clauses: every core doubles what is left to choose. `searches_unsatisfiable` has
  the one family without models, for unit weights and for weights with each strategy.
* `formula`: three variables, constraints of up to three products, three soft clauses, graphs of
  four vertexes, of three and of up to five partitions. Guide trees have chains of unit merges, one
  and several partitions set aside, an odd partition left over, a second round of three. Integers
  are cut to a few bits where overflow is modelled, and inputs stay below it.
* `life_reversal`: three cells give a position inside, at, and after the vector's size; two boards a
  second save; two signals a handler that is interrupted.
* `encodings`: totalizers over six literals with trees of depth three, sums of sums; bounds at 0, in
  between and at the number of literals; two or three updates. Boards of 3x3, 3x4 and 4x3 cells: two
  interior cells share neighbours, and an exchange of `lin` and `col` would show.
* `solver`: four variables and the scripts of `MCSolver` reach two decision levels, learnt units,
  binary and ternary learnt clauses, implied and failed assumptions, a reduction and clauses
  satisfied at level 0. At most `MaxReductions` reductions, a restart after `RestartAfter`
  conflicts. Three variables make every resolvent of two clauses, tautologies, subsumed and
  strengthened ones; gates need four. Two clauses and two collections for the arena, activities
  up to `Cap` = 2 so that rescaling happens.
* `parallel`: two threads for the answer (a winner and a loser), three for the ring (two readers
  that differ), rings for two or three clauses so that they wrap and fill, one of which drops the
  oldest; a clause that takes its importer several steps to find.

Deadlock is not checked, because the modelled code ends: the search answers, the function
returns, the program exits, the totalizers run out of literals, and counters are capped.

Fairness. `FairSpec` of `PartMSU3` and of `LifeReversal`, and `SearchSpec`, are weak fairness of the
whole step of the program: a sequential program keeps running until it returns. For the searches
this includes that each SAT call ends, which `SearchEnds` of the run `solver` supports; for
`LifeReversal` that the search it calls makes progress, which `Termination` supports. Nothing is
assumed of signals. `FormulaSpec` is fair to the functions with loops only. In `Glucose`, that a
clause is learnt between two restarts is built in, as the averages the code compares need
conflicts to change. `ParallelSpec` is fair to each thread's search and finishing steps, to the
launching and to the main process with its time-outs, not to spurious wake-ups; and to the import
of each thread of a ring, which the code calls at every restart.

## Findings

* `life_encoding_border` (`src/src/Main.cc:461`): The loop over the first and last line starts at j=0, so besides the three-neighbour rules of the corners the code applies five-neighbour rules to the cells (0,0) and (lin-1,0), with indices j-1 that are -1 or the last cell of the row above; previous boards with live cells in the last column are excluded. src/leiame.txt:80-82 says "Para contemplar as bordas, as regras para células mortas foram aplicadas considerando o número de vizinhos. Cada 1 dos 4 cantos possui 3 vizinhos, enquanto as  demais células possuem 5 vizinhos." The run exhibits a previous board the clauses exclude.
* `life_reversal_torn` (`src/src/MaxSAT.cc:140`): saveModel clears the only copy of the best model and pushes the new one variable by variable; the handler reads it at any moment, and getValue lets the index equal to the size through, so what is printed can be a prefix of the new board followed by a stale cell and dead cells. src/leiame.txt:97-98 says "Um limite de 295 segundos (4m55s) foi colocado, caso ultrapasse esse tempo, o programa retorna a melhor solução encontrada." The run prints a board that was never found.
* `life_reversal_early` (`src/src/Main.cc:83`): The handler is installed before the board is read and calls getValue on mxsolver, which is NULL until line 568, so a signal while the board is loaded ends the program without a board. src/leiame.txt:100-101 says "Assim, é garantido que uma solução será impressa em até 5 minutos." The run stops with nothing printed.
* `searches_unsatisfiable` (`src/src/algorithms/Alg_WBO.cc:938`): normalSearch and weightSearch (line 858) call unsatSearch and drop its result. On a formula whose hard clauses have no model, UNSATISFIABLE is printed and the search goes on: every SAT call has an empty conflict, normalSearch raises the lower bound until it meets the upper one and returns OPTIMUM (line 957), weightSearch never returns. The comment of unsatSearch, src/src/algorithms/Alg_WBO.cc:786-787, says "If the hard clauses are unsatisfiable then the MaxSAT solver terminates and returns 'UNSATISFIABLE'." The run ends with OPTIMUM after UNSATISFIABLE was printed; with weights it runs for ever.

The first does not change the number of live cells of the best board on the sizes up to 4x5
and 5x4, where some mirror image survives; which boards can be printed it does change.

Seen while modelling. What follows is in the models' way rather than in a run: the properties are
stated, or the inputs chosen, so that these cases are outside, and a reader of the code should know.

* `G/core/Solver.cc:1053`: when a binary clause is false, `propagate` returns at once and leaves
  `qhead` behind the trail; the comment at line 1031 says that the queue is empty even after a
  conflict. It is harmless, as the level is left at once. `QueueEmpty` is a property of MiniSat only.
* `G/core/Solver.cc:555`: `removeClause` clears the reason of `var(c[0])` when the clause is locked.
  A binary clause is locked by either literal, so the reason of `c[1]` can keep pointing to it.
  `ReasonsHold` is about reasons above level 0, which alone are read.
* `G/core/Solver.cc:302`: the copy constructor copies `polarity` and then `fixed_polarity` to the same
  vector, so that a clone starts with the phase false everywhere and has no fixed polarities.
* `G/parallel/MultiSolvers.cc:645`: the main process sleeps without re-reading whether the job is
  finished and the threads signal once, without the mutex; a signal sent before it waits is lost.
  `MultiSolvers` has these interleavings, hence `EverybodyIsServed` starts once it is awake.
* `G/parallel/MultiSolvers.cc:212`: a unit clause added after a solve is enqueued twice in solver 0.
* `MaxSAT_Partition.cc:89`: `split` returns without partitions when unit propagation refutes the hard
  clauses; `computeGuideTree` and `sortPartitions` assert that there are some. Likewise
  `Alg_PartMSU3.cc:429` looks at the edges of a single partition made without a graph.
* `algorithms/Alg_PartMSU3.cc:716`: when the hard clauses alone decide every soft clause, `computeGuideTree`
  leaves the deque empty, and after the first model `PartMSU3_binary` calls `front()` on it, which is undefined.
  Trees in `PartMSU3` have a node.
* `MaxSAT.cc:582`: with contradictory hard clauses `getLB` repeats the same call for ever; `MaxSAT.cc:173`
  counts an empty soft clause for every weight.
* `FormulaPB.h:110`: `changeSign` adds 64-bit coefficients up in an int. `algorithms/Alg_MSU3.cc:254`: a
  negative right-hand side becomes unsigned; line 271 passes one above the number of literals on to
  an encoder that asserts the contrary.
* Encodings: a modulus kept from a larger constraint (`Enc_MTotalizer.cc:166`), bounds beyond 32 bits
  (`Enc_GTE.cc:203`), coefficients with more bits than the bound and a second bound of the adder
  (`Enc_Adder.cc:273`, `Encoder.cc:378`), a ladder over one literal (`Enc_Ladder.cc:60`).

## Proofs

Checked by tlapm for every value of the constants. The parameters are constrained by named
assumptions in the modules that declare them, which TLC evaluates: `TreeAssumption`,
`InstanceAssumption` and `RootAssumption` (`PartMSU3`: any guide tree as `GuideTree` builds it over any
soft clauses, any family of formulas whose models agree outside the tree), `FormulaAssumption` (`MSU3`),
`PartitionsAssumption` (`MCSearches`: soft clauses are in one partition each, and models agree on those that are in none),
`WeightsAssumption` and `SumAssumption` (`MCSearches`: any positive weights, for LinearSU of at least one soft clause, for OLL
of soft clauses that are numbered, with a total that fits in a `uint64_t`),
`SolversAssumption` (`MultiSolvers`: any clones, variables and formula), `CellsAssumption`
(`LifeReversal`: any number of cells above 1), `SizesAssumption` (`LifeEncoding`: a bound that admits a board with an interior cell), `InputsAssumption`
(`GuideTree`: any number of partitions above 0, any soft clauses, any symmetric weights without loops).

| theorem | of | states |
|---|---|---|
| `TypeCorrect` | `PartMSU3` | Type correctness of the partition search, for every guide tree and family of formulas. |
| `Consistency` | `PartMSU3` | The inductive invariant: the queue, the ownership of encoders, the encoders and assumptions in sync with the relaxed clauses, and the bounds witnessed in every model. |
| `LowerBoundIsSound` | `PartMSU3` | The lower bound never exceeds the cost of a model. |
| `AnswersOptimum` | `PartMSU3` | The model shown with OPTIMUM has minimum cost. |
| `AnswersUnsatisfiable` | `PartMSU3` | UNSATISFIABLE is answered only when the hard clauses have no model. |
| `TypeCorrect` | `MSU3` | Type correctness of MSU3, for every finite set of soft clauses and family of formulas. |
| `EncoderStaysInSync` | `MSU3` | The totalizer counts exactly the relaxed clauses and allows lbCost of them. |
| `LowerBoundIsSound` | `MSU3` | The lower bound of MSU3 never exceeds the cost of a model. |
| `AnswersOptimum` | `MSU3` | The model MSU3 shows with OPTIMUM has minimum cost, equal to both bounds. |
| `Implements` | `MSU3` | MSU3 implements the abstract MaxSAT search: every step improves the model, raises the bound, concludes, refutes or stutters. |
| `EncodingsStayInSync` | MSU3, sequential PartMSU3, OLL | Clauses handed over are assumed or counted; totalizers count exactly the relaxed clauses; cores are made of live bounds, one per totalizer, encoded as far as they are used. |
| `CostIsPreserved` | OLL, with and without weights | The cost of every model is what the cores have paid, the soft clauses and copies that may still cost, and what exceeds the bounds, however cores nest and however they split clauses, copies and bounds. |
| `WeightsStayInSync` | LinearSU, weighted OLL | Copies of a clause share its weight, an update of LinearSU meets the encoding of the weight it is at, UNSATISFIABLE is said before any model only. |
| `AnswersCheapest` | MSU3, sequential PartMSU3, OLL | The model shown with OPTIMUM has minimum cost, for every formula and every partitioning. |
| `SearchesImplement` | MSU3, sequential PartMSU3, OLL | Each of them implements the abstract MaxSAT search. |
| `AnswersLeastWeight` | LinearSU, weighted OLL | The model shown with OPTIMUM has the least weight, for every formula and all weights. |
| `WeightedSearchesKeepPromise` | LinearSU, weighted OLL | Each of them implements the abstract weighted search. |
| `TypeCorrect` | `MultiSolvers` | Type correctness of the parallel solver, for any number of clones and any formula; no thread reads past the shared units. |
| `AnswersTheWinners` | `MultiSolvers` | Whoever wakes the main process, it answers the status of the winner, and only when all threads are joined. |
| `GivesModel` | `MultiSolvers` | With the answer that there is a model comes a model of the formula, eliminated variables included. |
| `UnitsReach` | `MultiSolvers` | A thread that has read a shared unit knows it by the same sign, unless the formula has no model. |
| `WinnerStays` | `MultiSolvers` | The first thread that finishes stays the winner, and the status it published stays. |
| `NodesInOrder` | `PartMSU3` | While the partition being solved has a parent in the guide tree, another one is ready in the queue, so that front() is never called on an empty deque, and when the root is taken up nothing is left over: no partition is forgotten. |
| `Implements` | `PartMSU3` | Every behaviour of PartMSU3 is one of the abstract search: the upper bound only improves, the lower bound never passes the optimum, and an answer is final. |
| `ShowsOptimum` | `LifeReversal` | Without signals the program prints a previous board with the fewest live cells, or the empty board when there is none, for boards of any size. |
| `ShowsBest` | `LifeReversal` | Interrupted between two saves or while printing, the program prints the best board found so far, however many signals follow. |
| `ShowsPrefix` | `LifeReversal` | Interrupted while a board is saved, the program prints the cells saved so far; no cell behind them is alive but possibly the next. |
| `EncodesGame` | `LifeEncoding` | For boards of every size, every model of the hard clauses evolves into the given board, and no previous board with a dead last column is excluded. |
| `TypeCorrect` | `LifeEncoding` | The solver is given clauses over the cells only, although the code computes an index in front of the board. |
| `GuideTreeBuilt` | `GuideTree` | For any number of partitions, soft clauses and weights: the guide tree is one binary tree over all partitions with soft clauses, no soft clause is lost while units are merged, pairs are mutual, and the pairing of each round is stable. |
| `TypeCorrect` | `GuideTree` | Matrix, list, pairs and stack hold partitions only, in every round. |

*PartMSU3.* The inductive invariant is `SafetyInv` with the type invariant and the two facts
about answers. Its heart is `BoundsWitnessed`: every model contains a set of
`lbCost` falsified relaxed clauses of which exactly `lb[n]` lie in the part of each
node `n` that owns an encoder. That the lower bound is sound does not
imply itself: a core of one node says nothing of the others, so the induction
needs the witness split by node. A core under "at most `lb[n]` of my relaxed
clauses" then either falsifies a clause of the core, which is new to the witness,
or more than `lb[n]` relaxed ones, of which one is not in the witness
(`CoreWitness`). `EncodersInSync` and `AssumptionsInSync` connect this with what the code
assumes, through both merge branches (`MergedEncoderInSync`); `OwnerInv` and
`QueueInv` keep the parts of the owners disjoint. `AnswersOptimum` at the root
uses that the root covers every clause of the tree and all models agree outside.
One lemma per action shows that it preserves the invariant; `PTL` closes.

`NodesInOrder`: that the deque is not empty when the next node is taken is not inductive. `NoneForgotten`
is: every node whose children are solved is in the deque or being solved, and the root stays. The node
taken up exists because some node of every set that is left has no child in it (`LowestNode`, by counting:
otherwise the children would be as many as their parents, the root included). `RootIsLast` is the other half:
when the root is solved nothing is left in the deque. `Implements` maps the search to
`MaxSATSearch`; `StepImplements` has one step per action, and `Consistency` supplies what its guards ask. Both
theorems of `Spec` assume that the tree has a node: `computeGuideTree` leaves it empty when the hard
clauses alone decide every soft clause, and what `front()` on the empty deque (line 716) does then is undefined.

*GuideTree.* `GuideTreeHolds` looks at single moments: the last state, the end of a round, the phase of units. What
connects them is `BuildInv`, one part per phase. While units are merged, `UnitsInv` says that a partition with
soft clauses waits, is in exactly one node or was set aside, and that every node belongs to a partition that is
still active. From then on the nodes of `Live`, the active partitions not merged into another in this round, are the
roots of a forest over all partitions with soft clauses (`RootsInv`), and every inner node is split by two nodes
in such a way that everything below it is below one of them (`ForestInv`), which is what makes them its
children. Pairing: an edge heavier than the pairs at both of its ends has one end on the stack
(`PairingInv`); a step makes the pairs of `p` and `q` heavier and puts the partners they leave on the stack, so that no
such edge escapes, and the round is stable when the stack is empty. Merging: a partner that is erased is
still to come on the list (`MergingInv`), where it is taken off before another pair can meet it, and at the end
of the list the active partitions are the roots again. When
one is left, the forest is a tree. This is the `TreeAssumption` of `PartMSU3`, for any number of partitions; `PartsEnd`
(the pairing terminates) stays with TLC.

*MSU3.* `LowerBoundSound` is not inductive: a core that falsifies an unrelaxed clause says nothing of
a model that already falsifies `lbCost` others. `RelaxedBound` is: every model falsifies `lbCost` of the
*relaxed* clauses, and a core adds one, either a clause of the core, which was not relaxed
(`OneMore`), or one more than the encoder allows, which counts exactly the relaxed ones (`EncoderInSync`). With
`AfterModel`, which ties the assumptions to both, `ConflictRaises` gives the bound and `SecondModel` that the next
model is as cheap. `Implements` is the whole refinement of `MaxSATSearch`: `StepImplements` has one step per
action; that the second model improves or is the first one needs the last conjunct of `AfterModel`.

*The searches of `MCSearches`.* The program runs one search; `SearchInv` is the invariant of the one that
runs, and `SearchInvNext` that no step of it is a step of another. `EncodingsStayInSync` holds
whatever searches the program has, and so does `WeightsStayInSync`. `AnswersCheapest` and `SearchesImplement` are about
the unweighted searches (`Unweight`, the constant `Algorithms` of the run `searches`), `AnswersLeastWeight` and
`WeightedSearchesKeepPromise` about LinearSU and weighted OLL (`Weighing`), `CostIsPreserved` about all of these. WBO, the
third search of the run `searches_weighted`, is in no theorem. The proofs are in two modules, in the second
weighted OLL and what is said of all searches.

The sequential strategies of PartMSU3: `SequentialInv` adds to that of MSU3 where the loops stand (`PositionOK`) and that the
units passed over are exactly those set aside (`UnitsAside`). `InUseIs` says what the collecting loop after a core
finds, `HandOverInv` that it is what was handed over before it. With all partitions in use
(`AllInUse`), a model that meets the assumptions costs no more than any other: models agree on the clauses outside
the partitions (`LastModelOptimal`).

OLL: `OllInv` is `CostPreserved` with what it needs of the totalizers. They count outputs of earlier
ones, so `Counts` is a recursion over their indices; `CountsAre` shows that it has a solution, `CountsKept` that
encoding a totalizer further, or appending one, changes no count that is in use. A core then
pays as follows (`RelaxedCost`). Among its literals, `E` of the outputs and some of the soft
clauses are true in a model, at least one in all. Each output replaced by the next of its totalizer loses one if
it is true and nothing otherwise (`SumReplaces`); the last output of a totalizer has no next one and exceeds
its bound by one at most; the new totalizer over the core exceeds its bound 1 by all true literals
but one. That one is what `lbCost` is raised by. The second model has nothing beyond the
assumptions, so it costs `lbCost` (`OllSecondModel`).

LinearSU: with weights that are not lexicographic each model lowers the bound and the formula then excludes
all that are no cheaper (`NormalInv`). In lexicographic order `BmoInv` says, at the current weight, of the models
that meet the optima of all heavier ones (`Allowed`): they cost `lbCost` there, no other model costs less in
all, and the solver has those of them that are cheaper than the last one found. When it has no more, the last one
found is the optimum of this weight, and what a model that misses it pays is at least the weight, which by `isBMO` is
no less than all lighter clauses together (`AllowedCost`); that is why one weight at a time is enough. The
weights in decreasing order are a sequence that exists because finite sets of numbers have one
(`DecreasingExists`); `OrderWeights` is stated as that sequence.

Weighted OLL: a core is paid with its smallest weight `m`. `WeightKept` is the weighted `CostPreserved`, which holds a model
to what soft clauses and copies *not yet active* may cost, whether the stratum considers them or not, and to what exceeds each
bound, times its weight. `CopiesAgree` says that copies add up to the weight of their clause, `HeavyEncoded` that a totalizer has
one bound at most and is encoded up to it. A core over `soft`, `bounds` and totalizers is described by what it does to
each literal, not by the order of the loops (`SplitIs`, `ModelIs`, `BoundsAfterAre`): a heavier clause leaves a copy with the rest
of its weight, a heavier bound keeps the rest of its weight while its totalizer appears once more with weight `m` and the
next output, a bound of weight `m` moves on to the next output. `CopiesPaid` and `RelaxedWeight` add this up: of what a model
may still cost, the core takes `m`, once, since at least one of its literals is true in the model. The search
ends with OPTIMUM when nothing lighter is left out (`NothingLeft`): then a model that meets the assumptions costs `lbCost`.
The total of the weights bounds `lbCost`, so the addition does not wrap (`SumAssumption`); only the 2^64-1 that
an empty conflict adds, when the hard clauses have no model, is not small, and `KeepsPromise` looks past it.

Some inductions over data are in these proofs nevertheless. The induction theorems of the library take an
operator, but a property of finite sets or of numbers can be the set of those that have it: `SetInduction` and
`NatInductionSet` of `FiniteSums` come from well-foundedness in this form. `FiniteSums` shows that the fold behind
`SumFunctionOnSet` exists and does not depend on the order in which `CHOOSE` takes the elements (`SumElement`).

*MultiSolvers.* `Order` says where the winner can be: past `IFinished` and nowhere else, with its answer
published unless it is about to; `Models` that its literals are those of a model without the eliminated
variables until it fills its own; `Units` that what is shared follows from the formula, so that two
threads cannot know a variable by different signs (`OneLiteral`).

*LifeReversal.* `ShownInv` follows the board from the search to the screen: `BestInv` is the promise of the
search, `StoreInv` says which prefix of it is in the vector at each stage, `StruckInv` that a handler
prints what it interrupted (the main program never runs again, so the vector cannot change under it), and
`OutInv` that the last `pos` tokens of the output are those of the vector. `LastBoardPrinted` turns the last
into a statement about the last board, whatever interrupted boards precede it.

*LifeEncoding.* A rule family is satisfied exactly when its cell lives or does not (`DeadRulesExact`,
`AliveRulesExact`: `SubsetOfSize` finds the live cells a violated rule names), and the cells a loop names are the
neighbours of its cell (`InteriorNeighboursRight`, `CornersRight`, `LinesRight`, `ColumnsRight`, through `CellAt` and
`AtCell`, which turn indices into rows and columns and back). `EncodingInv` adds the loops up: cells
whose loops ran are right in every model. The loops that compute a wrong cell add rules
besides; when the last column is dead these ask nothing new (`LinesKept`), so completeness without wrapping is
an invariant of its own, and the run `life_encoding_border` shows what it costs otherwise.


Only model-checked: everything else.

* That searches and threads end is liveness under fairness, which needs ENABLED.
* `Totalizer` and most encodings are made of RECURSIVE operators, which tlapm does not take to its provers.
* `Glucose` and `MiniSat` rest on entailment by the formula, which their modules decide by trying every
  assignment of a script's variables; the scripts are data of the runs.
* `WBO` (its part of `CostPreserved`, `OptimumIsCheapest` and `KeepsPromise`), `ClauseArena` and the modules behind `MCFormula`
  could be proved about and have not been, but for `GuideTree`.

## Not modelled

* Glucose 4.0 and the simplifier of MiniSat: an older copy of Glucose 4.1 and the ancestor of its
  simplifier; no default build links them, and what could be said of them is said of the newer ones.
* When Glucose restarts and which learnt clauses it forgets: running averages and an order of
  clauses decide. `Glucose` restarts and forgets as it likes, which includes what they decide.
* The ladder encoding, sorting of literals and of vectors, and reading and writing of DIMACS files: sequential
  code with an obvious result that its callers' modules use.
* Option parsing, the memory limit, buffered input, statistics and printing in MaxSAT formats,
  certified proofs, budgets other than those of `Bounds`, and `SolverConfiguration`.
* The modes none, blocking and weakening of the totalizer, which no caller asks for.
* `graph/Graph_Algorithms.cc` (its marks are never sized), `graph/NodeHeap.h`, `PartMSU3::chooseAlgorithm` and
  `computeSparsity`, `SimpSolver::substitute` and `implied`: nothing calls them.
* Rounding: weights of graphs, modularity, activities and averages are integers here.
* What a write or read outside an array does afterwards: the step is shown, its consequences are not.

## Plan

The proofs next: WBO, whose relaxation variables make the cost of a model a minimum over choices; the relocation
invariant of `ClauseArena`; that loading and partitioning lose no clause (`FormulaLoading`, `Partition`).
