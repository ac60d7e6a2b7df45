----------------------------- MODULE MCParallel ------------------------------
(***************************************************************************)
(* The parallel solver of src/src/solvers/glucose4.1/parallel/: the        *)
(* threads and the main process of MultiSolvers, and what works in and     *)
(* between them: the ring of clauses, the purgatory of imported clauses,   *)
(* and the making of the clones.  Each part is checked by itself; while    *)
(* another runs, no thread of MultiSolvers is created and the variables of *)
(* the rest are NULL.                                                      *)
(***************************************************************************)
EXTENDS MultiSolvers

CONSTANTS
  NULL,   \* not a variable of the part
  Parts   \* the parts of this run

VARIABLES
  part,
  ring, published, delivered,
  trail, trailLim, reason, db, watches, unaryWatches, unaryWatchedClauses, qhead,
  visiting, visitingUnary, confl, verdict, exports, lastLearntClause,
  solvers, ok, numvar, allClonesAreBuilt, added

ringVars == <<ring, published, delivered>>
purgatoryVars == <<trail, trailLim, reason, db, watches, unaryWatches,
                   unaryWatchedClauses, qhead, visiting, visitingUnary, confl, verdict,
                   exports, lastLearntClause>>
clonesVars == <<solvers, ok, numvar, allClonesAreBuilt, added>>

-----------------------------------------------------------------------------
\* Rings that are full of two or three clauses, one of which drops the oldest.
Ring == INSTANCE ClausesBuffer
  WITH nbThreads <- 3, maxsize <- 12, Sizes <- {1, 3}, whenFullRemoveOlder <- FALSE,
       MaxClauses <- 3
PairRing == INSTANCE ClausesBuffer
  WITH nbThreads <- 2, maxsize <- 10, Sizes <- {1, 2}, whenFullRemoveOlder <- FALSE,
       MaxClauses <- 3
FullRing == INSTANCE ClausesBuffer
  WITH nbThreads <- 3, maxsize <- 9, Sizes <- {1, 3}, whenFullRemoveOlder <- TRUE,
       MaxClauses <- 3

\* The others know a clause that takes several steps to find; one that a unit follows
\* from; and ones that refute.
Imports == INSTANCE Purgatory
  WITH Vars <- 1 .. 5, CCMin <- 2,
       Formula <- <<{1, 2, 4}, {-1, 2, 4}, {1, 3, -4}, {-1, 3, -4}>>,
       Foreign <- {{2, 3, 5}}, DecideOn <- {-2, -3, -5}, MaxClauses <- 6,
       Plingeling <- FALSE, NoDirectReuse <- FALSE
UnitImports == INSTANCE Purgatory
  WITH Vars <- 1 .. 4, CCMin <- 2,
       Formula <- <<{1, 2}, {-1, 2, 3}, {-1, 2, -3}>>,
       Foreign <- {{2, 3, 4}, {-1, 2}}, DecideOn <- {-2, -3, -4}, MaxClauses <- 5,
       Plingeling <- FALSE, NoDirectReuse <- FALSE
UnsatImports == INSTANCE Purgatory
  WITH Vars <- 1 .. 4, CCMin <- 2,
       Formula <- <<{1, 2, 3}, {-1, 2}, {-2, 3}, {-3, 4}, {-3, -4}>>,
       Foreign <- {{-1, 2, 4}, {-3, 1}}, DecideOn <- {-1, -2, 4}, MaxClauses <- 8,
       Plingeling <- TRUE, NoDirectReuse <- TRUE

\* Clauses that imply units, conflict, and let a variable be eliminated.
Clones == INSTANCE SolverClone
  WITH nbsolvers <- 3, MaxVar <- 3,
       UserClauses <- {{1}, {-1, 2}, {1, -2, 3}, {-2, -3}, {-1, -2}, {2, 3}}

-----------------------------------------------------------------------------
\* Formulas without a model, with one, and with two that differ in the
\* eliminated variables or in the others.
Assigning(S) == {[var |-> v, sign |-> v \notin S] : v \in Vars}
FewModels == {{}} \cup {{Assigning({}), Assigning(S)} : S \in {{}, Eliminated, Vars \ Eliminated}}
NoThreads == formula = {} /\ Init
NoRing == ring = NULL /\ published = NULL /\ delivered = NULL
NoPurgatory ==
  /\ trail = NULL /\ trailLim = NULL /\ reason = NULL /\ db = NULL /\ watches = NULL
  /\ unaryWatches = NULL /\ unaryWatchedClauses = NULL /\ qhead = NULL
  /\ visiting = NULL /\ visitingUnary = NULL /\ confl = NULL /\ verdict = NULL
  /\ exports = NULL /\ lastLearntClause = NULL
NoClones ==
  /\ solvers = NULL /\ ok = NULL /\ numvar = NULL /\ allClonesAreBuilt = NULL
  /\ added = NULL

ParallelInit ==
  /\ part \in Parts
  /\ \/ /\ part = "threads" /\ Init /\ formula \in FewModels
        /\ NoRing /\ NoPurgatory /\ NoClones
     \/ /\ \/ part = "ring" /\ Ring!Init
           \/ part = "ring_pair" /\ PairRing!Init
           \/ part = "ring_full" /\ FullRing!Init
        /\ NoThreads /\ NoPurgatory /\ NoClones
     \/ /\ \/ part = "purgatory" /\ Imports!Init
           \/ part = "purgatory_units" /\ UnitImports!Init
           \/ part = "purgatory_unsat" /\ UnsatImports!Init
        /\ NoThreads /\ NoRing /\ NoClones
     \/ /\ part = "clones" /\ Clones!Init
        /\ NoThreads /\ NoRing /\ NoPurgatory

ParallelNext ==
  \/ /\ part = "threads" /\ Next
     /\ UNCHANGED <<part, ringVars, purgatoryVars, clonesVars>>
  \/ /\ \/ part = "ring" /\ Ring!Next
        \/ part = "ring_pair" /\ PairRing!Next
        \/ part = "ring_full" /\ FullRing!Next
     /\ UNCHANGED <<part, vars, purgatoryVars, clonesVars>>
  \/ /\ \/ part = "purgatory" /\ Imports!Next
        \/ part = "purgatory_units" /\ UnitImports!Next
        \/ part = "purgatory_unsat" /\ UnsatImports!Next
     /\ UNCHANGED <<part, vars, ringVars, clonesVars>>
  \/ /\ part = "clones" /\ Clones!Next
     /\ UNCHANGED <<part, vars, ringVars, purgatoryVars>>

parallelVars == <<part, vars, ringVars, purgatoryVars, clonesVars>>

Threads(A) == part = "threads" /\ A /\ UNCHANGED <<part, ringVars, purgatoryVars, clonesVars>>

\* A search that is not refuted finds a model or notices that another has, the main
\* process is scheduled and its sleep times out, though nothing makes it wake up by
\* chance; and a thread of the ring imports whenever its search is at level 0.
ParallelSpec ==
  /\ ParallelInit /\ [][ParallelNext]_parallelVars
  /\ \A i \in Solvers : WF_parallelVars(Threads(Searching(i) \/ Finishing(i)))
  /\ WF_parallelVars(Threads(Answer \/ SleepAgain \/ Timeout \/ Launched
                             \/ \E i \in Solvers : Launch(i)))
  /\ \A t \in {0, 1} :
       WF_parallelVars(/\ part = "ring_pair" /\ PairRing!getClause(t)
                       /\ UNCHANGED <<part, vars, purgatoryVars, clonesVars>>)

-----------------------------------------------------------------------------
\* What threads take over from each other is whole and changes no answer: each reader
\* of the ring stands between two clauses, and a clause stays until those that have yet
\* to see it have (ClausesBuffer.cc); imported clauses are watched once, found when
\* empty, sent on by nobody (ParallelSolver.cc); and a clone answers for all that was
\* added before and after it was made (MultiSolvers.cc).
SharingSound ==
  /\ part = "ring" =>
       Ring!ReadersBetweenClauses /\ Ring!SeenCounted /\ Ring!OldestIsWaitedFor
  /\ part = "ring_pair" =>
       PairRing!ReadersBetweenClauses /\ PairRing!SeenCounted /\ PairRing!OldestIsWaitedFor
  /\ part = "ring_full" =>
       FullRing!ReadersBetweenClauses /\ FullRing!SeenCounted /\ FullRing!OldestIsWaitedFor
  /\ part = "purgatory" => /\ Imports!WatchedOnce /\ Imports!NoUnitMissed
                           /\ Imports!EmptyFound /\ Imports!SharedOnce /\ Imports!AnswerRight
  /\ part = "purgatory_units" => /\ UnitImports!WatchedOnce /\ UnitImports!NoUnitMissed
                                 /\ UnitImports!SharedOnce /\ UnitImports!AnswerRight
  /\ part = "purgatory_unsat" => UnsatImports!WatchedOnce /\ UnsatImports!AnswerRight
  /\ part = "clones" => Clones!AnyoneMayAnswer /\ Clones!RefutedOnlyIf

\* The ring with its positions implements a blackboard from which a thread is given the
\* clauses of the others in their order, each at most once (ClausesBuffer.cc).
ImplementsBlackboard ==
  /\ part \in {"ring", "ring_full"} => Ring!PromisedInit
  /\ part = "ring_pair" => PairRing!PromisedInit
  /\ [][/\ part = "ring" => Ring!PromisedNext
        /\ part = "ring_pair" => PairRing!PromisedNext
        /\ part = "ring_full" => FullRing!PromisedNext]_<<published, delivered>>

\* Once the main process has woken up it ends, for the threads that lost notice
\* (MultiSolvers.cc solve); and threads that keep importing are in the end given every
\* clause of the others (ClausesBuffer.cc getClause).
Waiting ==
  \/ main = "join"
  \/ /\ part = "ring_pair"
     /\ \E k \in DOMAIN published, t \in DOMAIN delivered :
          published[k].origin # t /\ \A i \in DOMAIN delivered[t] : delivered[t][i] # k
EverybodyIsServed == Waiting ~> ~ Waiting
=============================================================================
