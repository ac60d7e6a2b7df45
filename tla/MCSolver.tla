------------------------------ MODULE MCSolver -------------------------------
(***************************************************************************)
(* The SAT solvers of src/src/solvers/ (glucose4.1 and minisat2.2), and    *)
(* what all their parts promise: search, the preprocessor, the memory of   *)
(* the clauses and the heap of the variables.  Each part is checked by     *)
(* itself on calls of its own; variables that several modules declare are  *)
(* shared, the others are NULL.                                            *)
(***************************************************************************)
EXTENDS Integers, Sequences, FiniteSetsExt

CONSTANTS
  NULL,   \* not a variable of the part
  Parts   \* the parts of this run

VARIABLES
  part,
  trail, trailLim, reason, db, script, original, ok, watches, qhead, visiting, confl,
  mode, assumptions, status, model, conflict, simpDBAssigns, pc,
  conflictsRestarts, reductions,
  turn, conflictC, currRestarts, asynchInterrupt, interrupts,
  s, extra_frozen, cur, tried, calls,
  mem, sz, wasted, dirty, dirties, clauses, queue, made, collected,
  heap, indices, activity, var_inc, decision, trail_lim, next

glucoseVars == <<conflictsRestarts, reductions>>
miniSatVars == <<turn, conflictC, currRestarts, asynchInterrupt, interrupts>>
simplifierVars == <<s, extra_frozen, cur, tried, calls>>
arenaVars == <<mem, sz, wasted, dirty, dirties, clauses, queue, made, collected>>
orderVars == <<heap, indices, activity, var_inc, decision, trail_lim, next>>

-----------------------------------------------------------------------------
Add(C) == [add |-> C]
Call(as) == [solve |-> as]
Adds(Cs) == [i \in DOMAIN Cs |-> Add(Cs[i])]

\* Unsatisfiable, after several conflicts, restarts and reductions.
Cube == Adds(<<{1, 2, 3}, {1, 2, -3}, {1, -2, 3}, {1, -2, -3}, {-1, 2, 3}, {-1, 2, -3},
               {-1, -2, 3}, {-1, -2, -3}, {4}>>) \o <<Call(<<>>), Call(<<1>>)>>

\* Satisfiable, refuted under assumptions, then extended with unit clauses.
Assumed == Adds(<<{1, 2, 4}, {-1, 3}, {-3, -4, 2}, {-2, -3, 4}>>)
             \o <<Call(<<1, 4>>), Call(<<1, 4, -2>>), Add({-2}), Call(<<-4, 1>>), Add({1}),
                  Call(<<3>>), Add({2}), Call(<<>>)>>

\* Implications by binary clauses, and a contradiction at level 0.
Chain == Adds(<<{1, 2}, {-2, 3}, {-3, 4}, {-4, -1, 2}>>)
           \o <<Call(<<-3>>), Add({-1}), Call(<<-4>>), Add({-4}), Call(<<2>>)>>

\* Binary clauses in conflict, and a clause false at level 0.
Fork == Adds(<<{1, 2}, {1, -2}, {-1, 3}, {-1, 4, -3}, {2, -3, 4}>>)
          \o <<Call(<<-1, 4>>), Call(<<-4>>), Add({-2}), Add({-4}), Call(<<>>)>>

\* A learnt clause of three levels, and a second conflict above the first of them.
Deep == Adds(<<{-1, -2, -3, 4}, {-1, -2, -3, -4}, {3, 4, -1}, {3, -4, -1}>>) \o <<Call(<<1>>)>>

\* Learnt clauses that binary clauses shorten, and do not.
Shorten == Adds(<<{-1, -2, -3, 4}, {-1, -2, -3, -4}, {-3, 1}, {2, 4}, {2, 3}>>) \o <<Call(<<1, 2>>)>>

\* Two searches without assumptions, the second of which refutes.
Square == Adds(<<{1, 2}, {1, -2}, {-1, 3, 2}, {-1, 3, -2}>>)
            \o <<Call(<<>>), Add({-1, -3}), Call(<<>>)>>

Minimising == INSTANCE Glucose
  WITH Vars <- 1 .. 4, CCMin <- 2, Scripts <- {Deep, Cube, Assumed}, Incremental <- TRUE,
       RestartAfter <- 1, MaxReductions <- 1
Plain == INSTANCE Glucose
  WITH Vars <- 1 .. 4, CCMin <- 1, Scripts <- {Shorten, Fork, Chain}, Incremental <- FALSE,
       RestartAfter <- 1, MaxReductions <- 1
Mini == INSTANCE MiniSat
  WITH Vars <- 1 .. 4, CCMin <- 2, Scripts <- {Deep, Assumed}, RestartFirst <- 1,
       MaxRestarts <- 6, MaxLearnts <- 1, MaxInterrupts <- 1
MiniSquare == INSTANCE MiniSat
  WITH Vars <- 1 .. 3, CCMin <- 2, Scripts <- {Square}, RestartFirst <- 1,
       MaxRestarts <- 1, MaxLearnts <- 1, MaxInterrupts <- 1

-----------------------------------------------------------------------------
\* Two or three clauses over three variables; 1 may be assumed.
Over(V, n) == {c \in SUBSET (V \cup {-v : v \in V}) :
                 Cardinality(c) = n /\ \A l \in c : -l \notin c}
SmallFormulas ==
  kSubset(2, Over(1 .. 3, 2) \cup Over(1 .. 3, 3)) \cup kSubset(3, Over(1 .. 3, 2))

\* 3 is 1 and 2, 4 is 3 or 2, with clauses on both.
Gates == {{-3, 1}, {-3, 2}, {3, -1, -2}, {4, -3}, {4, -2}, {-4, 3, 2}}
Extra == Over({1, 2, 3, 4}, 2) \cup Over({1, 2, 4}, 3)

Simple == INSTANCE Simplifier
  WITH Vars <- 1 .. 3, Formulas <- SmallFormulas, MoreClauses <- {{1, 2}, {-1, -3}},
       Assumptions <- {{}, {1}}, grow <- 0, clause_lim <- 20, use_asymm <- FALSE, Calls <- 2
Gated == INSTANCE Simplifier
  WITH Vars <- 1 .. 4, Formulas <- {Gates \cup {c, d} : c, d \in Extra}, MoreClauses <- {},
       Assumptions <- {{}, {3}, {1, 2, 4}}, grow <- 0, clause_lim <- 2, use_asymm <- TRUE,
       Calls <- 1

Arena == INSTANCE ClauseArena
  WITH Literals <- {1, 2},
       Shapes <- {[kind |-> "original", size |-> 2], [kind |-> "learnt", size |-> 3],
                  [kind |-> "imported", size |-> 3]},
       MaxClauses <- 2, Collections <- 2, Fraction <- 1

Order == INSTANCE BranchingOrder
  WITH NumVars <- 3, Cap <- 2, MaxImplied <- 1, Eliminable <- {2}

-----------------------------------------------------------------------------
NoGlucose == conflictsRestarts = NULL /\ reductions = NULL
NoMiniSat ==
  /\ turn = NULL /\ conflictC = NULL /\ currRestarts = NULL /\ asynchInterrupt = NULL
  /\ interrupts = NULL
NoSimplifier ==
  /\ s = NULL /\ extra_frozen = NULL /\ cur = NULL /\ tried = NULL /\ calls = NULL
NoArena ==
  /\ mem = NULL /\ sz = NULL /\ wasted = NULL /\ dirty = NULL /\ dirties = NULL
  /\ clauses = NULL /\ queue = NULL /\ made = NULL /\ collected = NULL
NoOrder ==
  /\ heap = NULL /\ indices = NULL /\ activity = NULL /\ var_inc = NULL
  /\ decision = NULL /\ trail_lim = NULL /\ next = NULL

SolverInit ==
  /\ part \in Parts
  /\ \/ /\ \/ part = "glucose" /\ Minimising!Init
           \/ part = "glucose_plain" /\ Plain!Init
        /\ pc = NULL /\ NoMiniSat /\ NoSimplifier /\ NoArena /\ NoOrder
     \/ /\ \/ part = "minisat" /\ Mini!Init
           \/ part = "minisat_square" /\ MiniSquare!Init
        /\ pc = NULL /\ NoGlucose /\ NoSimplifier /\ NoArena /\ NoOrder
     \/ /\ \/ part = "simplifier" /\ Simple!Init
           \/ part = "simplifier_gates" /\ Gated!Init
        /\ trail = NULL /\ trailLim = NULL /\ reason = NULL /\ db = NULL /\ script = NULL
        /\ ok = NULL /\ watches = NULL /\ qhead = NULL /\ visiting = NULL /\ confl = NULL
        /\ mode = NULL /\ assumptions = NULL /\ status = NULL /\ model = NULL
        /\ conflict = NULL /\ simpDBAssigns = NULL /\ NoGlucose /\ NoMiniSat /\ NoArena
        /\ NoOrder
     \/ /\ part = "arena" /\ Arena!Init
        /\ trail = NULL /\ trailLim = NULL /\ db = NULL /\ script = NULL
        /\ original = NULL /\ ok = NULL /\ qhead = NULL /\ visiting = NULL
        /\ confl = NULL /\ mode = NULL /\ assumptions = NULL /\ status = NULL
        /\ model = NULL /\ conflict = NULL /\ simpDBAssigns = NULL /\ pc = NULL
        /\ NoGlucose /\ NoMiniSat /\ NoSimplifier /\ NoOrder
     \/ /\ part = "order" /\ Order!Init
        /\ trailLim = NULL /\ reason = NULL /\ db = NULL /\ script = NULL
        /\ original = NULL /\ ok = NULL /\ watches = NULL /\ qhead = NULL
        /\ visiting = NULL /\ confl = NULL /\ mode = NULL /\ assumptions = NULL
        /\ status = NULL /\ model = NULL /\ conflict = NULL /\ simpDBAssigns = NULL
        /\ NoGlucose /\ NoMiniSat /\ NoSimplifier /\ NoArena

SolverNext ==
  \/ /\ \/ part = "glucose" /\ Minimising!Next
        \/ part = "glucose_plain" /\ Plain!Next
     /\ UNCHANGED <<part, pc, miniSatVars, simplifierVars, arenaVars, orderVars>>
  \/ /\ \/ part = "minisat" /\ Mini!Next
        \/ part = "minisat_square" /\ MiniSquare!Next
     /\ UNCHANGED <<part, pc, glucoseVars, simplifierVars, arenaVars, orderVars>>
  \/ /\ \/ part = "simplifier" /\ Simple!Next
        \/ part = "simplifier_gates" /\ Gated!Next
     /\ UNCHANGED <<part, trail, trailLim, reason, db, script, ok, watches, qhead,
                    visiting, confl, mode, assumptions, status, model, conflict,
                    simpDBAssigns, glucoseVars, miniSatVars, arenaVars, orderVars>>
  \/ /\ part = "arena" /\ Arena!Next
     /\ UNCHANGED <<part, trail, trailLim, db, script, original, ok, qhead, visiting,
                    confl, mode, assumptions, status, model, conflict, simpDBAssigns,
                    pc, glucoseVars, miniSatVars, simplifierVars, orderVars>>
  \/ /\ part = "order" /\ Order!Next
     /\ UNCHANGED <<part, trailLim, reason, db, script, original, ok, watches, qhead,
                    visiting, confl, mode, assumptions, status, model, conflict,
                    simpDBAssigns, glucoseVars, miniSatVars, simplifierVars, arenaVars>>

solverVars == <<part, trail, trailLim, reason, db, script, original, ok, watches, qhead,
                visiting, confl, mode, assumptions, status, model, conflict,
                simpDBAssigns, pc, glucoseVars, miniSatVars, simplifierVars, arenaVars,
                orderVars>>

\* A call of search is one thread's loop.
SolverSpec ==
  /\ SolverInit /\ [][SolverNext]_solverVars
  /\ WF_solverVars(part \in {"glucose_plain", "minisat_square"} /\ SolverNext)

-----------------------------------------------------------------------------
Glucose(P, Q) == (part = "glucose" => P) /\ (part = "glucose_plain" => Q)
MiniSat(P, Q) == (part = "minisat" => P) /\ (part = "minisat_square" => Q)
Simplifier(P, Q) == (part = "simplifier" => P) /\ (part = "simplifier_gates" => Q)

\* The clauses mean what the user's do, whatever was learnt from what, minimised,
\* removed, subsumed, strengthened and resolved away in between: nothing is invented and
\* nothing forgotten, and a model of what is left extends to one of all that was added
\* (core/Solver.cc analyze, simplify and reduceDB; simp/SimpSolver.cc).
ClausesMeanTheSame ==
  /\ Glucose(Minimising!LearntsFollow /\ Minimising!NothingForgotten,
             Plain!LearntsFollow /\ Plain!NothingForgotten)
  /\ MiniSat(Mini!SameModels, MiniSquare!SameModels)
  /\ Simplifier(Simple!ModelsExtend /\ Simple!NothingInvented,
                Gated!ModelsExtend /\ Gated!NothingInvented)

\* What the next step reads is there: no unit clause is missed by the two watched
\* literals, a reason still implies its literal when conflict analysis resolves with it,
\* the queue of MiniSat is empty after a conflict as its comment says (core/Solver.cc
\* propagate, cancelUntil, locked); and the structures beside the clauses agree with
\* them after any garbage collection, lazy removal and rescaling (core/SolverTypes.h,
\* mtl/Alloc.h, mtl/Heap.h, simp/SimpSolver.cc).
StructuresAgree ==
  /\ Glucose(Minimising!NoUnitMissed /\ Minimising!ReasonsHold,
             Plain!NoUnitMissed /\ Plain!ReasonsHold)
  /\ MiniSat(Mini!NoUnitMissed /\ Mini!FirstIsImplied /\ Mini!QueueEmpty,
             MiniSquare!NoUnitMissed /\ MiniSquare!FirstIsImplied /\ MiniSquare!QueueEmpty)
  /\ Simplifier(Simple!CountsExact, Gated!TriedOnce /\ Gated!NothingLeftToDo)
  /\ part = "arena" =>
       Arena!NothingDangles /\ Arena!CleanListsClean /\ Arena!RoomForAll /\ Arena!Attached
  /\ part = "order" =>
       /\ Order!IndicesExact /\ Order!HeapOrdered
       /\ Order!NoneLost /\ Order!ModelTotal /\ Order!BestDecided

\* An answer is right also after earlier calls, restarts and interrupts: a model
\* satisfies all clauses added so far and the assumptions, a conflict negates
\* assumptions that cannot hold together (solve_ of core/Solver.cc).
AnswersRight ==
  [][/\ Glucose(Minimising!AnswerRight, Plain!AnswerRight)
     /\ MiniSat(Mini!AnswerRight, MiniSquare!AnswerRight)]_solverVars

\* Every search ends, though restarts and reductions undo what it did (search and
\* solve_ of core/Solver.cc).
SearchEnds ==
  part \in {"glucose_plain", "minisat_square"} /\ mode = "searching" ~> mode = "idle"
=============================================================================
