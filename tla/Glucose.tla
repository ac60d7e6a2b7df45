-------------------------------- MODULE Glucose --------------------------------
(***************************************************************************)
(* The SAT solver the MaxSAT algorithms call: clauses are added and solve  *)
(* is called under assumptions, any number of times                        *)
(* (src/src/solvers/glucose4.1/core/Solver.cc).                            *)
(*                                                                         *)
(* One action is one turn of a loop: of propagate over the watchers of a   *)
(* literal, or of search after propagate returned.  Watchers of a literal  *)
(* are visited in any order, binary ones first.  Which variable is decided *)
(* and how, when the solver restarts, and which half of the learnt clauses *)
(* reduceDB removes depend on activities and averages: here on choice.     *)
(***************************************************************************)
EXTENDS SearchTrail

CONSTANTS
  Scripts,      \* sequences of calls: [add |-> a clause] or [solve |-> assumptions]
  Incremental,  \* whether learnt clauses are left alone by binary clauses (incremental)
  RestartAfter, \* conflicts the restart policy waits for
  MaxReductions \* bound on the calls of reduceDB

VARIABLES
  script,     \* the calls still to make
  original,   \* the clauses added so far
  ok,         \* FALSE once the clauses conflict at level 0
  watches,    \* the watchers: the literal they wait for, their clause, their blocker
  qhead,      \* the true literals propagated so far
  visiting,   \* the watchers of the literal propagated now, still to visit
  confl,      \* the clause propagate returned
  mode,       \* "idle", "adding" or "searching"
  assumptions, status, model, conflict,
  conflictsRestarts, \* conflicts since the last restart
  reductions, simpDBAssigns

vars == <<trailVars, script, original, ok, watches, qhead, visiting, confl, mode,
          assumptions, status, model, conflict, conflictsRestarts, reductions, simpDBAssigns>>
searchVars == <<assumptions, status, model, conflict, conflictsRestarts, reductions, simpDBAssigns>>
callVars   == <<script, original, ok, mode>>

Settled == qhead = Len(trail) /\ visiting = {} /\ confl = 0

Watching(c, w) == {[lit |-> -w[1], cref |-> c, blocker |-> w[2]],
                   [lit |-> -w[2], cref |-> c, blocker |-> w[1]]}
Binary(x) == Cardinality(db[x.cref].lits) = 2

\* The order of the literals of a clause that is added.
Index(l) == IF l > 0 THEN 2 * l ELSE 1 - 2 * l
FirstOf(S) == CHOOSE l \in S : \A m \in S : Index(l) <= Index(m)

NewClause(S, a, b, isLearnt, lbd) ==
  [lits |-> S, w |-> <<a, b>>, learnt |-> isLearnt, lbd |-> lbd, live |-> TRUE]

\* removeClause: the clause goes, and the reason of its first literal if it was locked.
RemoveClauses(C) ==
  /\ db' = [c \in DOMAIN db |-> IF c \in C THEN [db[c] EXCEPT !.live = FALSE] ELSE db[c]]
  /\ watches' = {x \in watches : x.cref \notin C}
  /\ reason' = [v \in Vars |-> IF \E c \in C : Locked(c) /\ VarOf(db[c].w[1]) = v
                                 THEN 0 ELSE reason[v]]

Init ==
  /\ script \in Scripts /\ original = {} /\ ok = TRUE
  /\ trail = <<>> /\ trailLim = <<>> /\ reason = [v \in Vars |-> 0] /\ db = <<>>
  /\ watches = {} /\ qhead = 0 /\ visiting = {} /\ confl = 0
  /\ mode = "idle" /\ assumptions = <<>> /\ status = "none" /\ model = {} /\ conflict = {}
  /\ conflictsRestarts = 0 /\ reductions = 0 /\ simpDBAssigns = -1

-----------------------------------------------------------------------------
\* addClause: satisfied clauses and false literals are dropped.
AddClause ==
  /\ mode = "idle" /\ script # <<>> /\ "add" \in DOMAIN script[1]
  /\ LET C == script[1].add
         S == {l \in C : ~ False(l)}
         a == FirstOf(S)
         b == FirstOf(S \ {a})
         satisfied == \E l \in C : True(l) \/ -l \in C
     IN  /\ script' = Tail(script)
         /\ original' = original \cup {C}
         /\ \/ /\ ~ ok \/ satisfied
               /\ UNCHANGED <<ok, mode, watches, trailVars>>
            \/ /\ ok /\ ~ satisfied /\ S = {}
               /\ ok' = FALSE
               /\ UNCHANGED <<mode, watches, trailVars>>
            \/ /\ ok /\ ~ satisfied /\ Cardinality(S) = 1
               /\ Enqueue(a, 0) /\ mode' = "adding"
               /\ UNCHANGED <<ok, watches, db, trailLim>>
            \/ /\ ok /\ ~ satisfied /\ Cardinality(S) > 1
               /\ db' = Append(db, NewClause(S, a, b, FALSE, 0))
               /\ watches' = watches \cup Watching(Len(db) + 1, <<a, b>>)
               /\ UNCHANGED <<ok, mode, trail, trailLim, reason>>
  /\ UNCHANGED <<qhead, visiting, confl, searchVars>>

\* addClause after the propagation of a unit clause.
Added ==
  /\ mode = "adding" /\ (Settled \/ confl # 0)
  /\ ok' = (confl = 0) /\ mode' = "idle" /\ confl' = 0
  /\ UNCHANGED <<script, original, watches, qhead, visiting, trailVars, searchVars>>

\* solve, up to the loop of search.
Solve ==
  /\ mode = "idle" /\ script # <<>> /\ "solve" \in DOMAIN script[1]
  /\ script' = Tail(script) /\ assumptions' = script[1].solve
  /\ model' = {} /\ conflict' = {}
  /\ mode' = IF ok THEN "searching" ELSE "idle"
  /\ status' = IF ok THEN "none" ELSE "unsat"
  /\ UNCHANGED <<original, ok, watches, qhead, visiting, confl, trailVars,
                 conflictsRestarts, reductions, simpDBAssigns>>

-----------------------------------------------------------------------------
\* propagate takes the next true literal and its watchers.
PropagateNext ==
  /\ mode # "idle" /\ confl = 0 /\ visiting = {} /\ qhead < Len(trail)
  /\ qhead' = qhead + 1
  /\ visiting' = {x \in watches : x.lit = trail[qhead + 1]}
  /\ UNCHANGED <<callVars, watches, confl, trailVars, searchVars>>

\* A binary clause is unit or in conflict, or satisfied; its literals stay put.
VisitBinary ==
  /\ confl = 0
  /\ \E x \in visiting :
       /\ Binary(x)
       /\ \/ /\ False(x.blocker)
             /\ confl' = x.cref /\ visiting' = {}
             /\ UNCHANGED <<trail, reason>>
          \/ /\ True(x.blocker) /\ visiting' = visiting \ {x}
             /\ UNCHANGED <<confl, trail, reason>>
          \/ /\ Undefined(x.blocker)
             /\ Enqueue(x.blocker, x.cref) /\ visiting' = visiting \ {x}
             /\ UNCHANGED confl
  /\ UNCHANGED <<callVars, watches, qhead, db, trailLim, searchVars>>

\* A longer clause looks for another literal to watch that is not false.
VisitWatcher ==
  /\ confl = 0 /\ \A x \in visiting : ~ Binary(x)
  /\ \E x \in visiting :
       LET c     == db[x.cref]
           first == IF c.w[1] = -x.lit THEN c.w[2] ELSE c.w[1]
           free  == {l \in c.lits \ {first, -x.lit} : ~ False(l)}
           moved(b) == [lit |-> b, cref |-> x.cref, blocker |-> first]
           ordered(b) == [db EXCEPT ![x.cref].w = <<first, b>>]
       IN  \/ /\ True(x.blocker)
              /\ visiting' = visiting \ {x}
              /\ UNCHANGED <<watches, trail, reason, db, qhead, confl>>
           \/ /\ ~ True(x.blocker) /\ True(first)
              /\ watches' = (watches \ {x}) \cup {moved(x.lit)}
              /\ db' = ordered(-x.lit) /\ visiting' = visiting \ {x}
              /\ UNCHANGED <<trail, reason, qhead, confl>>
           \/ /\ ~ True(x.blocker) /\ ~ True(first)
              /\ \E b \in free :
                   /\ watches' = (watches \ {x}) \cup {moved(-b)}
                   /\ db' = ordered(b)
              /\ visiting' = visiting \ {x}
              /\ UNCHANGED <<trail, reason, qhead, confl>>
           \/ /\ ~ True(x.blocker) /\ ~ True(first) /\ free = {}
              /\ watches' = (watches \ {x}) \cup {moved(x.lit)}
              /\ db' = ordered(-x.lit)
              /\ \/ /\ False(first)
                    /\ confl' = x.cref /\ qhead' = Len(trail) /\ visiting' = {}
                    /\ UNCHANGED <<trail, reason>>
                 \/ /\ Undefined(first)
                    /\ Enqueue(first, x.cref) /\ visiting' = visiting \ {x}
                    /\ UNCHANGED <<qhead, confl>>
  /\ UNCHANGED <<callVars, trailLim, searchVars>>

-----------------------------------------------------------------------------
\* cancelUntil, but for the trail.
CancelUntil(k) ==
  /\ trailLim' = LimUntil(k)
  /\ qhead' = IF k < DecisionLevel THEN trailLim[k + 1] ELSE qhead

\* solve_ after search: the answer, and back to level 0.
Answer(s, core) ==
  /\ mode = "searching"
  /\ status' = s /\ mode' = "idle" /\ conflict' = core
  /\ model' = IF s = "sat" THEN {l \in Lits : True(l)} ELSE {}
  /\ ok' = ~ (s = "unsat" /\ core = {})
  /\ CancelUntil(0) /\ trail' = TrailUntil(0) /\ confl' = 0
  /\ UNCHANGED <<script, original, watches, visiting, reason, db,
                 assumptions, conflictsRestarts, reductions, simpDBAssigns>>

\* The learnt clause without the literals that a binary clause with the asserting
\* literal resolves away.
BinaryMinimised(S, uip) ==
  {l \in S : l = uip \/ Incremental \/ ~ \E x \in watches : x.lit = -uip /\ Binary(x) /\ x.blocker = -l}

\* The binary clauses analyze may have to turn round: reasons whose first literal is false.
Turnable == {c \in Live : Cardinality(db[c].lits) = 2 /\ Locked(c) /\ False(db[c].w[1])}
Turned(X) == [c \in DOMAIN db |->
                IF c \in X THEN [db[c] EXCEPT !.w = <<@[2], @[1]>>] ELSE db[c]]

\* The second literal of a learnt clause: one of the backtrack level, so that the
\* clause is looked at again when that level goes.
SecondWatchWrongly(S, uip) == S \ {uip}
SecondWatch(S, uip) == {b \in S \ {uip} : Level(b) = BacktrackLevel(S, uip)}

\* A conflict above level 0: a clause is learnt, and its first literal becomes true
\* on the highest level of its other literals.
Learn ==
  /\ mode = "searching" /\ confl # 0 /\ DecisionLevel > 0
  /\ LET S0   == FirstUIP({l \in db[confl].lits : Level(l) > 0})
         uip  == Asserting(S0)
         S    == BinaryMinimised(Minimised(S0, uip), uip)
         back == BacktrackLevel(S, uip)
         new  == Len(db) + 1
     IN  /\ CancelUntil(back)
         /\ trail' = Append(TrailUntil(back), uip)
         /\ \E X \in SUBSET Turnable :
              \/ /\ Cardinality(S) = 1
                 /\ db' = Turned(X)
                 /\ reason' = [reason EXCEPT ![VarOf(uip)] = 0]
                 /\ UNCHANGED watches
              \/ \E b \in SecondWatch(S, uip) :
                   /\ db' = Append(Turned(X), NewClause(S, uip, b, TRUE, ComputeLBD(S)))
                   /\ watches' = watches \cup Watching(new, <<uip, b>>)
                   /\ reason' = [reason EXCEPT ![VarOf(uip)] = new]
  /\ confl' = 0 /\ conflictsRestarts' = Min({conflictsRestarts + 1, RestartAfter})
  /\ UNCHANGED <<callVars, visiting, assumptions, status, model, conflict,
                 reductions, simpDBAssigns>>

\* A conflict at level 0.
Refuted == confl # 0 /\ DecisionLevel = 0 /\ Answer("unsat", {})

-----------------------------------------------------------------------------
\* The restart policy of search (luby_restart, or the averages of the last LBDs).
RestartDueWrongly == TRUE
RestartDue == conflictsRestarts >= RestartAfter

\* search returns to level 0; solve_ calls it again unless the budget is spent.
Restart ==
  /\ mode = "searching" /\ Settled /\ RestartDue
  /\ conflictsRestarts' = 0
  /\ CancelUntil(0) /\ trail' = TrailUntil(0)
  /\ \/ UNCHANGED <<mode, status>>
     \/ mode' = "idle" /\ status' = "undef"
  /\ UNCHANGED <<script, original, ok, watches, visiting, confl, reason, db,
                 assumptions, model, conflict, reductions, simpDBAssigns>>

Satisfied(c) == \E l \in db[c].lits : True(l)

\* simplify: the clauses satisfied at level 0 are removed.
Simplify ==
  /\ mode = "searching" /\ Settled /\ DecisionLevel = 0 /\ Len(trail) # simpDBAssigns
  /\ RemoveClauses({c \in Live : Satisfied(c)})
  /\ simpDBAssigns' = Len(trail)
  /\ UNCHANGED <<callVars, qhead, visiting, confl, trail, trailLim,
                 assumptions, status, model, conflict, conflictsRestarts, reductions>>

\* reduceDB: at most half of the learnt clauses go; binary ones, those of LBD 2 and
\* the reasons of the assignment stay.
Learnts == {c \in Live : db[c].learnt}
Removable(c) == db[c].lbd > 2 /\ Cardinality(db[c].lits) > 2 /\ ~ Locked(c)
ReduceDB ==
  /\ mode = "searching" /\ Settled /\ reductions < MaxReductions
  /\ \E C \in SUBSET {c \in Learnts : Removable(c)} :
       /\ C # {} /\ 2 * Cardinality(C) <= Cardinality(Learnts)
       /\ RemoveClauses(C)
  /\ reductions' = reductions + 1
  /\ UNCHANGED <<callVars, qhead, visiting, confl, trail, trailLim,
                 assumptions, status, model, conflict, conflictsRestarts, simpDBAssigns>>

\* Assumptions that are true get a level of their own with nothing on it.
NewLevels(n) == trailLim \o [i \in 1 .. n |-> Len(trail)]
Pending == {i \in DecisionLevel + 1 .. Len(assumptions) : ~ True(assumptions[i])}

AssumptionFails ==
  /\ Settled /\ Pending # {}
  /\ LET p == assumptions[Min(Pending)]
     IN  False(p) /\ Answer("unsat", AnalyzeFinal(p))

Assume ==
  /\ mode = "searching" /\ Settled /\ Pending # {}
  /\ LET p == assumptions[Min(Pending)]
     IN  Undefined(p) /\ Enqueue(p, 0)
  /\ trailLim' = NewLevels(Min(Pending) - DecisionLevel)
  /\ UNCHANGED <<callVars, watches, qhead, visiting, confl, db, searchVars>>

Decide ==
  /\ mode = "searching" /\ Settled /\ Pending = {}
  /\ \E l \in Lits : Undefined(l) /\ Enqueue(l, 0)
  /\ trailLim' = NewLevels(Max({0, Len(assumptions) - DecisionLevel}) + 1)
  /\ UNCHANGED <<callVars, watches, qhead, visiting, confl, db, searchVars>>

ModelFound ==
  Settled /\ Pending = {} /\ ~ (\E v \in Vars : Undefined(v)) /\ Answer("sat", {})

Next ==
  \/ AddClause \/ Added \/ Solve
  \/ PropagateNext \/ VisitBinary \/ VisitWatcher
  \/ Learn \/ Refuted \/ Restart \/ Simplify \/ ReduceDB
  \/ AssumptionFails \/ Assume \/ Decide \/ ModelFound

-----------------------------------------------------------------------------
\* When propagate is done without a conflict, no clause of the solver is false and
\* none is unit: the two literals it watches, or a true blocker, see to it on every
\* path of decisions, backtracking, restarts and removals.
NoUnitMissed ==
  Settled /\ ok => \A c \in Live : \/ \E l \in db[c].lits : True(l)
                             \/ Cardinality({l \in db[c].lits : Undefined(l)}) > 1

\* Every clause of the solver follows from the clauses that were added, whatever was
\* learnt from what, minimised, and removed in between; so do the literals true at
\* level 0.
LearntsFollow ==
  /\ \A A \in Models(original) : \A c \in Live : db[c].lits \cap A # {}
  /\ ok /\ mode = "idle" => \A A \in Models(original) : \A i \in DOMAIN trail : trail[i] \in A

\* Nothing that still matters is forgotten: while the solver is not refuted, the
\* clauses left and the literals of level 0 allow no assignment the clauses added forbid.
NothingForgotten ==
  ok => Models({db[c].lits : c \in Live} \cup {{trail[i]} : i \in {k \in DOMAIN trail : LevelAt(k) = 0}})
          \subseteq Models(original)

\* Above level 0 a literal has its reason in the solver, follows from literals
\* assigned before it, and is assigned on the highest of their levels: conflict
\* analysis resolves with a reason long after it was found, and reduceDB may have
\* run, or backtracking jumped, in between.
ReasonsHold ==
  \A i \in DOMAIN trail : LET c == Reason(trail[i]) IN
    LevelAt(i) > 0 /\ c # 0 =>
      /\ c \in Live /\ trail[i] \in db[c].lits
      /\ Cardinality(db[c].lits) > 2 => db[c].w[1] = trail[i]
      /\ \A l \in db[c].lits \ {trail[i]} : False(l) /\ Position(l) < i
      /\ \E l \in db[c].lits \ {trail[i]} : Level(l) = LevelAt(i)

\* What solve answers is right: a model satisfies every clause added so far and the
\* assumptions; a conflict negates assumptions only, and those alone cannot hold
\* together; without a conflict the clauses are unsatisfiable, for good.
AnswerRight ==
  mode = "searching" /\ mode' = "idle" =>
    /\ status' = "sat" => /\ model' \in Models(original)
                          /\ \A i \in DOMAIN assumptions : assumptions[i] \in model'
    /\ status' = "unsat" =>
         /\ conflict' \subseteq {-assumptions[i] : i \in DOMAIN assumptions}
         /\ Models(original \cup {{-l} : l \in conflict'}) = {}
         /\ ok' \/ Models(original) = {}
=============================================================================
