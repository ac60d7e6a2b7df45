------------------------------- MODULE Purgatory -------------------------------
(***************************************************************************)
(* The clauses a thread of the parallel solver imports                     *)
(* (src/src/solvers/glucose4.1/parallel/ParallelSolver.cc and the unary    *)
(* watches of core/Solver.cc): they wait in the purgatory, watched by one  *)
(* literal, until one is found empty and is watched by two like the        *)
(* others; and the clauses it exports, learnt ones of a low LBD and those  *)
(* that conflict analysis uses for the second time.                        *)
(*                                                                         *)
(* The search is that of SearchTrail; a visit of a watcher is one step.    *)
(* The order of visits, decisions, restarts, reductions and which clauses  *)
(* come in are choices.                                                    *)
(***************************************************************************)
EXTENDS SearchTrail

CONSTANTS
  Formula,     \* the sequence of clauses
  Foreign,     \* the clauses other threads may send, which follow from it
  MaxClauses,  \* bound on the clauses that are stored
  DecideOn,    \* the literals that are decided on
  Plingeling,  \* imported clauses skip the purgatory, learnt ones are sent at once
  NoDirectReuse \* dontExportDirectReusedClauses

VARIABLES
  watches, unaryWatches,    \* the watchers: the literal they wait for and the clause
  unaryWatchedClauses,      \* the imported clauses, for reduceDB and simplify
  qhead, visiting, visitingUnary, confl, verdict,
  exports,                  \* for each clause, how often it was sent to the others
  lastLearntClause

searchState == <<qhead, visiting, visitingUnary, confl, verdict>>
vars == <<trailVars, watches, unaryWatches, unaryWatchedClauses, searchState, exports, lastLearntClause>>

Watcher(l, c) == [lit |-> -l, cref |-> c]
Attach(c, w) == {Watcher(w[1], c), Watcher(w[2], c)}
Size(c) == Cardinality(db[c].lits)

Satisfied(c) == \E l \in db[c].lits : True(l)
Settled == verdict = "none" /\ confl = 0 /\ visiting = {} /\ visitingUnary = {} /\ qhead = Len(trail)

\* The first two literals of an imported clause.
Orders(C) == {<<l, Min(C \ {l})>> : l \in C}
Clause(C, w, lbd, isLearnt, isOne, seen, fromOther) ==
  [lits |-> C, w |-> w, learnt |-> isLearnt, lbd |-> lbd, live |-> TRUE,
   oneWatched |-> isOne, exported |-> seen, imported |-> fromOther, stale |-> \E l \in C : False(l)]

Init ==
  /\ trail = <<>> /\ trailLim = <<>> /\ reason = [v \in Vars |-> 0]
  /\ db = [c \in DOMAIN Formula |->
            Clause(Formula[c], <<Min(Formula[c]), Max(Formula[c])>>, 0, FALSE, FALSE, 0, FALSE)]
  /\ watches = UNION {Attach(c, db[c].w) : c \in DOMAIN db}
  /\ unaryWatches = {} /\ unaryWatchedClauses = {} /\ exports = [c \in DOMAIN db |-> 0]
  /\ qhead = 0 /\ visiting = {} /\ visitingUnary = {} /\ confl = 0 /\ verdict = "none" /\ lastLearntClause = 0

-----------------------------------------------------------------------------
\* parallelImportClauses, at level 0: short clauses are watched by two literals at
\* once, the others by their first, without a look at the values they have.
Import ==
  /\ Settled /\ DecisionLevel = 0 /\ Len(db) < MaxClauses
  /\ \E C \in Foreign : \E w \in Orders(C) :
       LET c   == Len(db) + 1
           one == ~ Plingeling /\ Cardinality(C) > 2
       IN  /\ db' = Append(db, Clause(C, w, Cardinality(C), TRUE, one, IF Plingeling THEN 2 ELSE 1, TRUE))
           /\ watches' = IF one THEN watches ELSE watches \cup Attach(c, w)
           /\ unaryWatches' = IF one THEN unaryWatches \cup {Watcher(w[1], c)} ELSE unaryWatches
           /\ unaryWatchedClauses' = unaryWatchedClauses \cup {c}
  /\ exports' = Append(exports, 0)
  /\ UNCHANGED <<trail, trailLim, reason, searchState, lastLearntClause>>

-----------------------------------------------------------------------------

\* propagate: the next true literal, its watchers, then its unary watchers.
PropagateNext ==
  /\ verdict = "none" /\ confl = 0 /\ visiting = {} /\ visitingUnary = {} /\ qhead < Len(trail)
  /\ qhead' = qhead + 1
  /\ visiting' = {x.cref : x \in {y \in watches : y.lit = trail[qhead + 1]}}
  /\ visitingUnary' = {x.cref : x \in {y \in unaryWatches : y.lit = trail[qhead + 1]}}
  /\ UNCHANGED <<trailVars, watches, unaryWatches, unaryWatchedClauses, confl, verdict, exports, lastLearntClause>>

\* A clause of two watches looks for another literal to watch, or is unit or empty.
Visit ==
  \E c \in visiting :
    LET p     == trail[qhead]
        first == IF db[c].w[1] = -p THEN db[c].w[2] ELSE db[c].w[1]
        free  == {l \in db[c].lits \ {first, -p} : ~ False(l)}
    IN  /\ \/ /\ Satisfied(c)
              /\ visiting' = visiting \ {c} /\ UNCHANGED <<trail, reason, db, watches, qhead, confl, visitingUnary>>
           \/ /\ ~ True(first)
              /\ \E k \in free :
                   /\ db' = [db EXCEPT ![c].w = <<first, k>>]
                   /\ watches' = (watches \ {Watcher(-p, c)}) \cup {Watcher(k, c)}
              /\ visiting' = visiting \ {c} /\ UNCHANGED <<trail, reason, qhead, confl, visitingUnary>>
           \/ /\ ~ True(first) /\ free = {} /\ Undefined(first)
              /\ trail' = Append(trail, first) /\ reason' = [reason EXCEPT ![VarOf(first)] = c]
              /\ db' = [db EXCEPT ![c].w = <<first, -p>>] /\ visiting' = visiting \ {c}
              /\ UNCHANGED <<watches, qhead, confl, visitingUnary>>
           \/ /\ False(first) /\ free = {}
              /\ db' = [db EXCEPT ![c].w = <<first, -p>>]
              /\ confl' = c /\ qhead' = Len(trail) /\ visiting' = {} /\ visitingUnary' = {}
              /\ UNCHANGED <<trail, reason, watches>>
  /\ UNCHANGED <<trailLim, unaryWatches, unaryWatchedClauses, verdict, exports, lastLearntClause>>

\* The second watch of a clause that is promoted: one of the highest level but the
\* first's, so that both become unassigned by the next backtracking, or the rest is false.
SecondWatches(c) ==
  {l \in db[c].lits \ {db[c].w[1]} : \A k \in db[c].lits \ {db[c].w[1]} : Level(k) <= Level(l)}

\* propagateUnaryWatches: another literal that is not false is watched, or the clause
\* is empty: it is the conflict, and it is promoted.
VisitUnary ==
  /\ visiting = {}
  /\ \E c \in visitingUnary :
       LET p    == trail[qhead]
           free == {l \in db[c].lits \ {-p} : ~ False(l)}
       IN  /\ visitingUnary' = IF free = {} THEN {} ELSE visitingUnary \ {c}
           /\ \/ /\ Satisfied(c) /\ UNCHANGED <<db, unaryWatches, watches, qhead, confl>>
              \/ /\ \E k \in free :
                      /\ db' = [db EXCEPT ![c].w = <<k, -p>>]
                      /\ unaryWatches' = (unaryWatches \ {Watcher(-p, c)}) \cup {Watcher(k, c)}
                 /\ UNCHANGED <<watches, qhead, confl>>
              \/ /\ free = {} /\ confl' = c /\ qhead' = Len(trail)
                 /\ unaryWatches' = unaryWatches \ {Watcher(-p, c)}
                 /\ \E k \in SecondWatches(c) :
                      /\ db' = [db EXCEPT ![c].w = <<-p, k>>, ![c].oneWatched = FALSE,
                                          ![c].exported = 2]
                      /\ watches' = watches \cup Attach(c, <<-p, k>>)
  /\ UNCHANGED <<trail, trailLim, reason, visiting, unaryWatchedClauses, verdict, exports, lastLearntClause>>

-----------------------------------------------------------------------------
\* The clauses that conflict analysis resolves: the conflict and the reasons of the
\* literals of the last level down to the first unique implication point.
RECURSIVE Resolved(_)
Resolved(S) ==
  LET last == {l \in S : Level(l) = DecisionLevel}
      l    == CHOOSE x \in last : \A y \in last : Position(y) <= Position(x)
  IN  IF Cardinality(last) = 1 THEN {} ELSE {Reason(l)} \cup Resolved((S \ {l}) \cup Antecedents(l))

\* parallelImportClauseDuringConflictAnalysis, after the first conflicts: a learnt clause
\* is sent when it is used for the second time if it is good, which depends on averages.
Shares(c, good) ==
  /\ ~ Plingeling /\ ~ (NoDirectReuse /\ c = lastLearntClause)
  /\ db[c].learnt /\ ~ db[c].imported /\ db[c].exported = 1 /\ (db[c].lbd = 2 \/ good)

\* The counter of a clause that is used.
Seen(c) ==
  CASE ~ db[c].learnt \/ db[c].exported = 2    -> db[c].exported
    [] NoDirectReuse /\ c = lastLearntClause   -> 2
    [] Plingeling                              -> db[c].exported
    [] OTHER                                   -> db[c].exported + 1

\* A conflict above level 0: the clauses used are counted, and a clause is learnt,
\* which is shared at once when its LBD is at most 2.
Learn ==
  /\ verdict = "none" /\ confl # 0 /\ DecisionLevel > 0 /\ Len(db) < MaxClauses
  /\ LET start == {l \in db[confl].lits : Level(l) > 0}
         S     == Minimised(FirstUIP(start), Asserting(FirstUIP(start)))
         uip   == Asserting(S)
         back  == BacktrackLevel(S, uip)
         used  == {confl} \cup Resolved(start)
         bump  == [c \in DOMAIN db |-> IF c \in used THEN [db[c] EXCEPT !.exported = Seen(c)]
                                        ELSE db[c]]
     IN  /\ trailLim' = LimUntil(back) /\ qhead' = Len(TrailUntil(back))
         /\ trail' = Append(TrailUntil(back), uip)
         /\ \E good \in BOOLEAN :
              LET out == [c \in DOMAIN db |-> exports[c] + IF c \in used /\ Shares(c, good) THEN 1 ELSE 0]
              IN  \/ /\ Cardinality(S) = 1 /\ db' = bump /\ exports' = out
                     /\ reason' = [reason EXCEPT ![VarOf(uip)] = 0]
                     /\ UNCHANGED <<watches, lastLearntClause>>
                  \/ \E b \in {l \in S \ {uip} : Level(l) = back} :
                       LET new  == Len(db) + 1
                           glue == Plingeling \/ ComputeLBD(S) <= 2
                       IN  /\ db' = Append(bump, [Clause(S, <<uip, b>>, ComputeLBD(S), TRUE, FALSE,
                                                         IF glue THEN 2 ELSE 0, FALSE)
                                                  EXCEPT !.stale = FALSE])
                           /\ exports' = Append(out, IF glue THEN 1 ELSE 0)
                           /\ watches' = watches \cup Attach(new, <<uip, b>>)
                           /\ reason' = [reason EXCEPT ![VarOf(uip)] = new]
                           /\ lastLearntClause' = new
  /\ confl' = 0
  /\ UNCHANGED <<unaryWatches, unaryWatchedClauses, visiting, visitingUnary, verdict>>

\* A conflict at level 0.
Refuted ==
  /\ verdict = "none" /\ confl # 0 /\ DecisionLevel = 0 /\ verdict' = "unsat"
  /\ UNCHANGED <<trailVars, watches, unaryWatches, unaryWatchedClauses, qhead, visiting, visitingUnary,
                 confl, exports, lastLearntClause>>

-----------------------------------------------------------------------------
\* A restart goes back to level 0.
Restart ==
  /\ Settled /\ DecisionLevel > 0
  /\ trail' = TrailUntil(0) /\ trailLim' = <<>> /\ qhead' = Len(TrailUntil(0))
  /\ UNCHANGED <<reason, db, watches, unaryWatches, unaryWatchedClauses, visiting, visitingUnary, confl,
                 verdict, exports, lastLearntClause>>

\* A wrong RemoveClauses, for the mutant run: promoted clauses are detached from the purgatory.
RemoveClausesWrongly(C) ==
  /\ db' = [c \in DOMAIN db |-> IF c \in C THEN [db[c] EXCEPT !.live = FALSE] ELSE db[c]]
  /\ watches' = {x \in watches : x.cref \notin C \ unaryWatchedClauses}
  /\ unaryWatches' = {x \in unaryWatches : x.cref \notin C}
  /\ unaryWatchedClauses' = unaryWatchedClauses \ C
  /\ reason' = [v \in Vars |-> IF \E c \in C : Locked(c) /\ VarOf(db[c].w[1]) = v THEN 0 ELSE reason[v]]

\* removeClause: a clause goes from the watchers it is in, by its oneWatched.
RemoveClauses(C) ==
  /\ db' = [c \in DOMAIN db |-> IF c \in C THEN [db[c] EXCEPT !.live = FALSE] ELSE db[c]]
  /\ watches' = {x \in watches : x.cref \notin C \/ db[x.cref].oneWatched}
  /\ unaryWatches' = {x \in unaryWatches : x.cref \notin C \/ ~ db[x.cref].oneWatched}
  /\ unaryWatchedClauses' = unaryWatchedClauses \ C
  /\ reason' = [v \in Vars |-> IF \E c \in C : Locked(c) /\ VarOf(db[c].w[1]) = v THEN 0 ELSE reason[v]]

\* reduceDB: clauses learnt or imported go unless they are short, of a low LBD, or the
\* reason of an assignment; and simplify, at level 0: all that are satisfied.
ReduceDB ==
  /\ Settled
  /\ \E c \in Live : /\ db[c].learnt /\ db[c].lbd > 2 /\ Size(c) > 2 /\ ~ Locked(c)
                      /\ RemoveClauses({c})
  /\ UNCHANGED <<trail, trailLim, searchState, exports, lastLearntClause>>
Simplify ==
  /\ Settled /\ DecisionLevel = 0 /\ (\E c \in Live : Satisfied(c))
  /\ RemoveClauses({c \in Live : Satisfied(c)})
  /\ UNCHANGED <<trail, trailLim, searchState, exports, lastLearntClause>>

\* A decision opens a level.
Decide ==
  /\ Settled /\ trailLim' = Append(trailLim, Len(trail))
  /\ \E l \in DecideOn : Undefined(l) /\ Enqueue(l, 0)
  /\ lastLearntClause' = 0
  /\ UNCHANGED <<db, watches, unaryWatches, unaryWatchedClauses, searchState, exports>>

\* Every variable has a value.
ModelFound ==
  /\ Settled /\ Len(trail) = Cardinality(Vars) /\ verdict' = "sat"
  /\ UNCHANGED <<trailVars, watches, unaryWatches, unaryWatchedClauses, qhead, visiting, visitingUnary,
                 confl, exports, lastLearntClause>>

Next ==
  \/ Import \/ PropagateNext \/ Visit \/ VisitUnary \/ Learn \/ Refuted
  \/ Restart \/ ReduceDB \/ Simplify \/ Decide \/ ModelFound

-----------------------------------------------------------------------------
\* Every clause that is left is in the watchers of its kind and in no others: of its
\* first literal while it is in the purgatory, of its first two afterwards.
WatchedOnce ==
  /\ unaryWatches = {Watcher(db[c].w[1], c) : c \in {k \in Live : db[k].oneWatched}}
  /\ watches = UNION {Attach(c, db[c].w) : c \in {k \in Live : ~ db[k].oneWatched}}

\* A clause that is promoted in the middle of a conflict is watched as if it had always
\* been: when propagation is done without a conflict none with two watches is unit.
\* One that had a false literal when it came in is not promised that.
NoUnitMissed ==
  Settled => \A c \in Live :
    \/ db[c].oneWatched \/ db[c].stale \/ Satisfied(c)
    \/ Cardinality({l \in db[c].lits : Undefined(l)}) > 1

\* A clause of the purgatory that is empty is found, unless it came in with a false literal.
EmptyFound ==
  Settled => \A c \in Live : ~ db[c].stale => \E l \in db[c].lits : ~ False(l)

\* No clause is sent to the other threads twice, and none that came from them: clauses
\* do not go round in circles.
SharedOnce ==
  \A c \in DOMAIN exports : exports[c] <= 1 /\ (db[c].imported => exports[c] = 0)

\* The clauses of the purgatory do not change what is found: the answer is the formula's.
AnswerRight ==
  LET models == Models({Formula[c] : c \in DOMAIN Formula})
  IN  /\ verdict = "unsat" => models = {}
      /\ verdict = "sat" => {trail[i] : i \in DOMAIN trail} \in models
=============================================================================
