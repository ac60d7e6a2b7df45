-------------------------------- MODULE MiniSat --------------------------------
(***************************************************************************)
(* The other SAT solver the program can be built with (SOLVER=minisat2.2): *)
(* clauses are added and solve is called under assumptions, and another    *)
(* thread may interrupt it                                                 *)
(* (src/src/solvers/minisat2.2/core/Solver.cc).                            *)
(*                                                                         *)
(* What it reads off its assignment is in SearchTrail.  It differs from    *)
(* Glucose in that binary clauses are propagated like all others, that     *)
(* restarts follow the Luby sequence, and that learnt clauses are removed  *)
(* when there are many of them for the literals assigned.  One action is   *)
(* one turn of a loop of propagate or of search.  Activities and polarity  *)
(* are left to choice.                                                     *)
(***************************************************************************)
EXTENDS SearchTrail

CONSTANTS
  Scripts,       \* sequences of calls: [add |-> a clause] or [solve |-> assumptions]
  RestartFirst,  \* conflicts before the first restart (restart_first)
  MaxRestarts,   \* later restarts come after as many conflicts as this one
  MaxLearnts,    \* max_learnts; it grows only after more conflicts than a run has
  MaxInterrupts  \* bound on the interrupts

VARIABLES
  script,        \* the calls still to make
  original,      \* the clauses added so far
  ok, watches, qhead, visiting, confl,  \* as in Glucose
  mode,          \* "idle", "adding" or "searching"
  turn,          \* in search: "check" before, "pick" after the clauses were tidied
  assumptions, status, model, conflict,
  conflictC, currRestarts,              \* conflicts in this call of search, and the calls
  asynchInterrupt, interrupts,
  simpDBAssigns  \* literals of level 0 at the last simplification

solverVars == <<ok, watches, qhead, visiting, confl>>
callVars   == <<script, original, mode>>
searchVars == <<turn, assumptions, status, model, conflict, conflictC, currRestarts, simpDBAssigns>>
signals    == <<asynchInterrupt, interrupts>>
vars == <<trailVars, solverVars, callVars, searchVars, signals>>

Settled == qhead = Len(trail) /\ visiting = {} /\ confl = 0

Watching(c, w) == {[lit |-> -w[1], cref |-> c, blocker |-> w[2]],
                   [lit |-> -w[2], cref |-> c, blocker |-> w[1]]}

NewClause(S, a, b, isLearnt) ==
  [lits |-> S, w |-> <<a, b>>, learnt |-> isLearnt, lbd |-> 0, live |-> TRUE]

Index(l) == IF l > 0 THEN 2 * l ELSE 1 - 2 * l
FirstOf(S) == CHOOSE l \in S : \A m \in S : Index(l) <= Index(m)

\* locked: the clause is the reason of its first literal.
ReasonOf(c) == True(db[c].w[1]) /\ Reason(db[c].w[1]) = c

\* removeClause
Removed(C) == [c \in DOMAIN db |-> IF c \in C THEN [db[c] EXCEPT !.live = FALSE] ELSE db[c]]
Unlocked(C) == [v \in Vars |-> IF \E c \in C : ReasonOf(c) /\ VarOf(db[c].w[1]) = v
                                 THEN 0 ELSE reason[v]]

\* luby(2, x): the length and exponent of the finite subsequence that has index x,
\* then the index inside it.
RECURSIVE Enclosing(_, _, _)
Enclosing(size, seq, x) ==
  IF size < x + 1 THEN Enclosing(2 * size + 1, seq + 1, x) ELSE <<size, seq>>
RECURSIVE Descend(_, _, _)
Descend(size, seq, x) ==
  IF size - 1 = x THEN 2 ^ seq
  ELSE Descend((size - 1) \div 2, seq - 1, x % ((size - 1) \div 2))
Luby(x) == LET e == Enclosing(1, 0, x) IN Descend(e[1], e[2], x)

Init ==
  /\ script \in Scripts /\ original = {} /\ ok = TRUE
  /\ trail = <<>> /\ trailLim = <<>> /\ reason = [v \in Vars |-> 0] /\ db = <<>>
  /\ watches = {} /\ qhead = 0 /\ visiting = {} /\ confl = 0
  /\ mode = "idle" /\ turn = "check"
  /\ assumptions = <<>> /\ status = "none" /\ model = {} /\ conflict = {}
  /\ conflictC = 0 /\ currRestarts = 0 /\ simpDBAssigns = -1
  /\ asynchInterrupt = FALSE /\ interrupts = 0

-----------------------------------------------------------------------------
\* addClause: satisfied clauses and false literals are dropped.
AddClause ==
  /\ mode = "idle" /\ script # <<>> /\ "add" \in DOMAIN script[1]
  /\ LET C == script[1].add
         S == {l \in C : ~ False(l)}
         a == FirstOf(S)
         b == FirstOf(S \ {a})
         skip == ~ ok \/ \E l \in C : True(l) \/ -l \in C
         n == Cardinality(S)
     IN  /\ script' = Tail(script) /\ original' = original \cup {C}
         /\ ok' = (ok /\ (skip \/ n > 0))
         /\ mode' = IF ~ skip /\ n = 1 THEN "adding" ELSE mode
         /\ IF ~ skip /\ n = 1 THEN Enqueue(a, 0) ELSE UNCHANGED <<trail, reason>>
         /\ IF ~ skip /\ n > 1
              THEN /\ db' = Append(db, NewClause(S, a, b, FALSE))
                   /\ watches' = watches \cup Watching(Len(db) + 1, <<a, b>>)
              ELSE UNCHANGED <<db, watches>>
  /\ UNCHANGED <<qhead, visiting, confl, trailLim, searchVars, signals>>

\* addClause after the propagation of a unit clause.
Added ==
  /\ mode = "adding" /\ (Settled \/ confl # 0)
  /\ ok' = (confl = 0) /\ mode' = "idle" /\ confl' = 0
  /\ UNCHANGED <<trailVars, watches, qhead, visiting, script, original, searchVars, signals>>

\* solve, up to the first call of search.
Solve ==
  /\ mode = "idle" /\ script # <<>> /\ "solve" \in DOMAIN script[1]
  /\ script' = Tail(script) /\ assumptions' = script[1].solve
  /\ model' = {} /\ conflict' = {} /\ turn' = "check" /\ conflictC' = 0 /\ currRestarts' = 0
  /\ mode' = IF ok THEN "searching" ELSE "idle"
  /\ status' = IF ok THEN "none" ELSE "unsat"
  /\ UNCHANGED <<trailVars, solverVars, original, simpDBAssigns, signals>>

\* interrupt, by another thread while search runs; clearInterrupt, by the caller.
Interrupt ==
  /\ mode = "searching" /\ ~ asynchInterrupt /\ interrupts < MaxInterrupts
  /\ asynchInterrupt' = TRUE /\ interrupts' = interrupts + 1
  /\ UNCHANGED <<trailVars, solverVars, callVars, searchVars>>
ClearInterrupt ==
  /\ mode = "idle" /\ asynchInterrupt /\ asynchInterrupt' = FALSE
  /\ UNCHANGED <<trailVars, solverVars, callVars, searchVars, interrupts>>

-----------------------------------------------------------------------------
\* propagate takes the next true literal and its watchers.
PropagateNext ==
  /\ mode # "idle" /\ confl = 0 /\ visiting = {} /\ qhead < Len(trail)
  /\ qhead' = qhead + 1
  /\ visiting' = {x \in watches : x.lit = trail[qhead + 1]}
  /\ UNCHANGED <<trailVars, ok, watches, confl, callVars, searchVars, signals>>

\* A conflict ends propagation.
HeadAfterConflict == Len(trail)

\* A watcher whose blocker or first literal is true stays; another moves to a literal
\* that is not false; without one the clause is unit or in conflict.
VisitWatcher ==
  /\ confl = 0
  /\ \E x \in visiting :
       LET c     == db[x.cref]
           first == IF c.w[1] = -x.lit THEN c.w[2] ELSE c.w[1]
           free  == {l \in c.lits \ {first, -x.lit} : ~ False(l)}
           moved(b) == [lit |-> b, cref |-> x.cref, blocker |-> first]
           ordered(b) == [db EXCEPT ![x.cref].w = <<first, b>>]
       IN  \/ /\ True(x.blocker)
              /\ visiting' = visiting \ {x}
              /\ UNCHANGED <<watches, trail, reason, db, qhead, confl>>
           \/ /\ ~ True(x.blocker) /\ True(first)
              /\ watches' = (watches \ {x}) \cup {moved(x.lit)}
              /\ db' = ordered(-x.lit) /\ visiting' = visiting \ {x}
              /\ UNCHANGED <<trail, reason, qhead, confl>>
           \/ /\ ~ True(x.blocker) /\ ~ True(first)
              /\ \E b \in free : watches' = (watches \ {x}) \cup {moved(-b)} /\ db' = ordered(b)
              /\ visiting' = visiting \ {x}
              /\ UNCHANGED <<trail, reason, qhead, confl>>
           \/ /\ ~ True(x.blocker) /\ Undefined(first) /\ free = {}
              /\ watches' = (watches \ {x}) \cup {moved(x.lit)}
              /\ db' = ordered(-x.lit) /\ Enqueue(first, x.cref)
              /\ visiting' = visiting \ {x}
              /\ UNCHANGED <<qhead, confl>>
           \/ /\ ~ True(x.blocker) /\ False(first) /\ free = {}
              /\ watches' = (watches \ {x}) \cup {moved(x.lit)}
              /\ db' = ordered(-x.lit)
              /\ confl' = x.cref /\ qhead' = HeadAfterConflict /\ visiting' = {}
              /\ UNCHANGED <<trail, reason>>
  /\ UNCHANGED <<trailLim, ok, callVars, searchVars, signals>>

-----------------------------------------------------------------------------
\* cancelUntil, but for the trail.
CancelUntil(k) ==
  /\ trailLim' = LimUntil(k)
  /\ qhead' = IF k < DecisionLevel THEN trailLim[k + 1] ELSE qhead

\* solve_ after search: the answer, and back to level 0.
Answer(s, core) ==
  /\ mode = "searching"
  /\ status' = s /\ mode' = "idle" /\ conflict' = core
  /\ model' = IF s = "sat" THEN {l \in Lits : True(l)} ELSE {}
  /\ ok' = ~ (s = "unsat" /\ core = {})
  /\ CancelUntil(0) /\ trail' = TrailUntil(0) /\ confl' = 0
  /\ UNCHANGED <<script, original, watches, visiting, reason, db, turn,
                 assumptions, conflictC, currRestarts, simpDBAssigns, signals>>

\* The second literal of a learnt clause is one of the level to go back to.
SecondOf(S, uip) == {b \in S \ {uip} : Level(b) = BacktrackLevel(S, uip)}

\* A conflict above level 0: a clause is learnt, and its first literal becomes true
\* on the highest level of its other literals.
Learn ==
  /\ mode = "searching" /\ confl # 0 /\ DecisionLevel > 0
  /\ LET S0   == FirstUIP({l \in db[confl].lits : Level(l) > 0})
         uip  == Asserting(S0)
         S    == Minimised(S0, uip)
         back == BacktrackLevel(S, uip)
         new  == IF Cardinality(S) = 1 THEN 0 ELSE Len(db) + 1
     IN  /\ CancelUntil(back)
         /\ trail' = Append(TrailUntil(back), uip)
         /\ reason' = [reason EXCEPT ![VarOf(uip)] = new]
         /\ IF new = 0 THEN UNCHANGED <<db, watches>>
            ELSE \E b \in SecondOf(S, uip) :
                   /\ db' = Append(db, NewClause(S, uip, b, TRUE))
                   /\ watches' = watches \cup Watching(new, <<uip, b>>)
  /\ confl' = 0 /\ turn' = "check" /\ conflictC' = conflictC + 1
  /\ UNCHANGED <<callVars, ok, visiting, assumptions, status, model, conflict,
                 currRestarts, simpDBAssigns, signals>>

\* A conflict at level 0.
Refuted == confl # 0 /\ DecisionLevel = 0 /\ Answer("unsat", {})

-----------------------------------------------------------------------------
Checking == mode = "searching" /\ Settled /\ turn = "check"
OutOfConflicts == conflictC >= Luby(currRestarts) * RestartFirst

\* search counts the conflicts of one call.
CountConflicts == 0

\* search has had its conflicts: back to level 0, and solve_ calls it again.
Restart ==
  /\ Checking /\ OutOfConflicts /\ ~ asynchInterrupt
  /\ currRestarts' = Min({currRestarts + 1, MaxRestarts}) /\ conflictC' = CountConflicts
  /\ CancelUntil(0) /\ trail' = TrailUntil(0)
  /\ UNCHANGED <<callVars, ok, watches, visiting, confl, reason, db, turn, assumptions,
                 status, model, conflict, simpDBAssigns, signals>>

\* withinBudget is false: solve_ gives up.
GiveUp == Checking /\ asynchInterrupt /\ Answer("undef", {})

Satisfied(c) == \E l \in db[c].lits : True(l)

\* simplify removes the clauses satisfied at level 0, unless nothing was assigned or
\* little was propagated since it last did.
Simplifications ==
  IF DecisionLevel = 0 /\ Len(trail) # simpDBAssigns THEN {{}, {c \in Live : Satisfied(c)}} ELSE {{}}

\* reduceDB removes the half of the learnt clauses L that comes first, binary ones
\* last, and any other of small activity, but neither binary clauses nor reasons.
Long(c) == Cardinality(db[c].lits) > 2
Spared(c) == ~ Long(c) \/ ReasonOf(c)
Halves(L) == {H \in SUBSET L : /\ Cardinality(H) = Cardinality(L) \div 2
                               /\ (\A c \in H : Long(c)) \/ \A c \in L \ H : ~ Long(c)}
Reductions(L) ==
  IF Cardinality(L) - Len(trail) < MaxLearnts THEN {{}}
  ELSE {{c \in H \cup X : ~ Spared(c)} : H \in Halves(L), X \in SUBSET L}

\* search without a conflict, before it decides: simplify and reduceDB.
Tidy ==
  /\ Checking /\ ~ asynchInterrupt /\ ~ OutOfConflicts
  /\ turn' = "pick"
  /\ \E S \in Simplifications :
       \E C \in Reductions({c \in Live \ S : db[c].learnt}) :
         /\ db' = Removed(S \cup C) /\ reason' = Unlocked(S \cup C)
         /\ watches' = {x \in watches : x.cref \notin S \cup C}
         /\ simpDBAssigns' = IF S = {} THEN simpDBAssigns ELSE Len(trail)
  /\ UNCHANGED <<callVars, ok, qhead, visiting, confl, trail, trailLim, assumptions,
                 status, model, conflict, conflictC, currRestarts, signals>>

-----------------------------------------------------------------------------
Picking == mode = "searching" /\ Settled /\ turn = "pick"
\* Assumptions that are true get a level of their own with nothing on it.
NewLevels(n) == trailLim \o [i \in 1 .. n |-> Len(trail)]
Pending == {i \in DecisionLevel + 1 .. Len(assumptions) : ~ True(assumptions[i])}

AssumptionFails ==
  /\ Picking /\ Pending # {}
  /\ LET p == assumptions[Min(Pending)]
     IN  False(p) /\ Answer("unsat", AnalyzeFinal(p))

Push(l, n) ==
  /\ Enqueue(l, 0) /\ trailLim' = NewLevels(n) /\ turn' = "check"
  /\ UNCHANGED <<solverVars, callVars, db, assumptions, status, model, conflict,
                 conflictC, currRestarts, simpDBAssigns, signals>>

Assume ==
  /\ Picking /\ Pending # {}
  /\ LET p == assumptions[Min(Pending)]
     IN  Undefined(p) /\ Push(p, Min(Pending) - DecisionLevel)

Decide ==
  /\ Picking /\ Pending = {}
  /\ \E l \in Lits : Undefined(l) /\ Push(l, Max({0, Len(assumptions) - DecisionLevel}) + 1)

ModelFound ==
  Picking /\ Pending = {} /\ ~ (\E v \in Vars : Undefined(v)) /\ Answer("sat", {})

Next ==
  \/ AddClause \/ Added \/ Solve \/ Interrupt \/ ClearInterrupt
  \/ PropagateNext \/ VisitWatcher
  \/ Learn \/ Refuted \/ Restart \/ GiveUp \/ Tidy
  \/ AssumptionFails \/ Assume \/ Decide \/ ModelFound

-----------------------------------------------------------------------------
\* The propagation queue is empty after propagate even if there was a conflict, as the
\* comment on it says.
QueueEmpty == confl # 0 => qhead = Len(trail)

\* When propagate is done without a conflict no clause is false and none is unit, on
\* every path of decisions, backtracking, restarts, removals and interrupts.
NoUnitMissed ==
  Settled /\ ok => \A c \in Live : \/ \E l \in db[c].lits : True(l)
                                   \/ Cardinality({l \in db[c].lits : Undefined(l)}) > 1

\* The reason of a literal is a clause of the solver that has it first, and whose other
\* literals were false before: conflict analysis skips the first literal of a reason
\* without a look at it, also of one that was found many levels or a reduction ago.
FirstIsImplied ==
  \A i \in DOMAIN trail : LET c == Reason(trail[i]) IN
    c # 0 => /\ c \in Live /\ db[c].w[1] = trail[i]
             /\ \A l \in db[c].lits \ {trail[i]} : False(l) /\ Position(l) < i

\* Every clause of the solver, and every literal of level 0, follows from the clauses
\* that were added, and as long as they are not refuted nothing is forgotten of them.
SameModels ==
  ok => Models({db[c].lits : c \in Live} \cup {{trail[i]} : i \in {k \in DOMAIN trail : LevelAt(k) = 0}})
          = Models(original)

\* What solve answers is right, also after it was interrupted before: a model satisfies
\* every clause added so far and the assumptions; a conflict negates assumptions that
\* cannot hold together; without a conflict the clauses are unsatisfiable.
AnswerRight ==
  mode = "searching" /\ mode' = "idle" =>
    /\ status' = "sat" => /\ model' \in Models(original)
                          /\ \A i \in DOMAIN assumptions : assumptions[i] \in model'
    /\ status' = "unsat" =>
         /\ conflict' \subseteq {-assumptions[i] : i \in DOMAIN assumptions}
         /\ Models(original \cup {{-l} : l \in conflict'}) = {}
         /\ ok' \/ Models(original) = {}
    /\ status' = "undef" => asynchInterrupt /\ ok'
=============================================================================
