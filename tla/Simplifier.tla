------------------------------- MODULE Simplifier -------------------------------
(***************************************************************************)
(* The preprocessor around the search: backward subsumption, strengthening,*)
(* elimination of variables by resolution, asymmetric branching, and the   *)
(* extension of a model to the variables eliminated                        *)
(* (src/src/solvers/glucose4.1/simp/SimpSolver.cc).                        *)
(*                                                                         *)
(* A literal is a variable or its negative, a clause a set of literals.    *)
(* One pass over a variable, over an entry of the subsumption queue or     *)
(* over a round of the main loop is one step.  Propagation visits the      *)
(* clauses of each literal that becomes false.                             *)
(***************************************************************************)
EXTENDS Integers, SequencesExt, FiniteSetsExt

CONSTANTS
  Vars,
  Formulas,     \* the sets of clauses the user may start with
  MoreClauses,  \* clauses the user may add later
  Assumptions,  \* the sets of variables a call may assume
  grow, clause_lim, use_asymm,
  Calls         \* bound on the calls of solve

VARIABLES
  s,         \* the solver's data, see Empty
  original,  \* history: the clauses the user added
  extra_frozen,
  pc,        \* "idle", "test", "subsume", "pick", "eliminate" or "solved"
  cur,       \* the variable whose turn it is
  tried,     \* history: the variables taken from the heap since the clauses last changed
  calls

vars == <<s, original, extra_frozen, pc, cur, tried, calls>>

Lits == Vars \cup {-v : v \in Vars}
VarOf(l) == IF l < 0 THEN -l ELSE l
VarsOf(c) == {VarOf(l) : l \in c}
Others(c, v) == {l \in c : VarOf(l) # v}

\* The elements of a set, in some order.
InOrder(S) == FoldSet(LAMBDA x, q : Append(q, x), <<>>, S)

Empty ==
  [db |-> <<>>,          \* the clauses attached, by reference
   next |-> 1,           \* the next reference
   trail |-> <<>>, ok |-> TRUE,
   n_occ |-> [l \in Lits |-> 0], touched |-> {}, queue |-> <<>>, bwd |-> 0,
   heap |-> Vars, frozen |-> {}, eliminated |-> {}, elimclauses |-> <<>>]

True(t, l) == \E i \in DOMAIN t.trail : t.trail[i] = l
False(t, l) == True(t, -l)
Unassigned(t, v) == ~ True(t, v) /\ ~ False(t, v)
Occurs(t, v) == {k \in DOMAIN t.db : v \in VarsOf(t.db[k])}

RECURSIVE Propagate(_, _)
Propagate(t, head) ==
  IF ~ t.ok \/ head = Len(t.trail) THEN t
  ELSE LET hit == {k \in DOMAIN t.db : /\ -t.trail[head + 1] \in t.db[k]
                                       /\ \A l \in t.db[k] : ~ True(t, l)}
           free(k) == {l \in t.db[k] : ~ False(t, l)}
           units == UNION {free(k) : k \in {j \in hit : Cardinality(free(j)) = 1}}
       IN  IF (\E k \in hit : free(k) = {}) \/ (\E l \in units : -l \in units)
             THEN [t EXCEPT !.ok = FALSE]
             ELSE Propagate([t EXCEPT !.trail = @ \o InOrder(units)], head + 1)

Enqueue(t, l) ==
  IF False(t, l) THEN [t EXCEPT !.ok = FALSE]
  ELSE IF True(t, l) THEN t
  ELSE Propagate([t EXCEPT !.trail = Append(@, l)], Len(t.trail))

UpdateElimHeap(t, v) ==
  IF v \notin t.frozen \cup t.eliminated /\ Unassigned(t, v)
    THEN [t EXCEPT !.heap = @ \cup {v}] ELSE t

RECURSIVE UpdateAll(_, _)
UpdateAll(t, V) ==
  IF V = {} THEN t ELSE LET v == Min(V) IN UpdateAll(UpdateElimHeap(t, v), V \ {v})

Count(t, c, d) == [t EXCEPT !.n_occ = [l \in Lits |-> IF l \in c THEN @[l] + d ELSE @[l]]]

\* A clause is added without its false literals, unless one is true.
AddClause(t, lits) ==
  LET c == {l \in lits : ~ False(t, l)}
  IN  IF ~ t.ok \/ (\E l \in lits : True(t, l)) THEN t
      ELSE IF c = {} THEN [t EXCEPT !.ok = FALSE]
      ELSE IF Cardinality(c) = 1 THEN Enqueue(t, CHOOSE l \in c : TRUE)
      ELSE Count([t EXCEPT !.db = [k \in DOMAIN @ \cup {t.next} |-> IF k = t.next THEN c ELSE @[k]],
                           !.next = @ + 1, !.queue = Append(@, t.next),
                           !.touched = @ \cup VarsOf(c)], c, 1)

RemoveClause(t, k) ==
  UpdateAll(Count([t EXCEPT !.db = [j \in DOMAIN @ \ {k} |-> @[j]]], t.db[k], -1), VarsOf(t.db[k]))

\* A literal leaves a clause; a clause of two literals becomes an assignment.
StrengthenClause(t, k, l) ==
  LET q == [t EXCEPT !.queue = Append(@, k)]
      rest == t.db[k] \ {l}
  IN  IF Cardinality(rest) = 1 THEN Enqueue(RemoveClause(q, k), CHOOSE m \in rest : TRUE)
      ELSE UpdateElimHeap(Count([q EXCEPT !.db[k] = rest], {l}, -1), VarOf(l))

\* c is used on the clause k: it subsumes it, or resolves on one literal to a part of it.
Subsume(t, c, k) ==
  LET missing == c \ t.db[k]
  IN  IF missing = {} THEN RemoveClause(t, k)
      ELSE IF \E l \in missing : missing = {l} /\ -l \in t.db[k]
        THEN StrengthenClause(t, k, -(CHOOSE l \in missing : TRUE))
        ELSE t

\* backwardSubsumptionCheck scans the clauses of the variable of c with the fewest.
Scan(t, c, self) ==
  LET best == CHOOSE v \in VarsOf(c) :
                \A w \in VarsOf(c) : Cardinality(Occurs(t, v)) <= Cardinality(Occurs(t, w))
  IN  FoldSet(LAMBDA k, u : IF u.ok /\ k \in DOMAIN u.db THEN Subsume(u, c, k) ELSE u,
              t, Occurs(t, best) \ {self})

Clashes(t, i, j, v) == \E l \in Others(t.db[i], v) : -l \in t.db[j]
Merge(t, i, j, v) == Others(t.db[i] \cup t.db[j], v)

\* A wrong EliminateVar, for the mutant run: no value is recorded for the variable
\* where the clauses recorded do not force one.
EliminateVarWrongly(t, v) ==
  LET pos == {k \in DOMAIN t.db : v \in t.db[k]}
      neg == {k \in DOMAIN t.db : -v \in t.db[k]}
      pairs == {p \in pos \X neg : ~ Clashes(t, p[1], p[2], v)}
      few == IF Cardinality(pos) > Cardinality(neg) THEN neg ELSE pos
      lit == IF few = neg THEN -v ELSE v
      kept == [t EXCEPT !.eliminated = @ \cup {v},
                 !.elimclauses = @ \o InOrder({[lit |-> lit, clause |-> t.db[k]] : k \in few})]
      added == FoldSet(LAMBDA p, u : AddClause(u, Merge(t, p[1], p[2], v)), kept, pairs)
  IN  IF Cardinality(pairs) > Cardinality(pos \cup neg) + grow
           \/ \E p \in pairs : Cardinality(Merge(t, p[1], p[2], v)) > clause_lim
        THEN t
        ELSE FoldSet(LAMBDA k, u : IF u.ok THEN RemoveClause(u, k) ELSE u, added, pos \cup neg)

\* The clauses of v are replaced by their resolvents, unless these are too many or too
\* long; the side with fewer clauses is recorded, and the value that satisfies the other.
EliminateVar(t, v) ==
  LET pos == {k \in DOMAIN t.db : v \in t.db[k]}
      neg == {k \in DOMAIN t.db : -v \in t.db[k]}
      pairs == {p \in pos \X neg : ~ Clashes(t, p[1], p[2], v)}
      few == IF Cardinality(pos) > Cardinality(neg) THEN neg ELSE pos
      lit == IF few = neg THEN -v ELSE v
      kept == [t EXCEPT !.eliminated = @ \cup {v},
                 !.elimclauses = Append(@ \o InOrder({[lit |-> lit, clause |-> t.db[k]] : k \in few}),
                                        [lit |-> -lit, clause |-> {-lit}])]
      added == FoldSet(LAMBDA p, u : AddClause(u, Merge(t, p[1], p[2], v)), kept, pairs)
  IN  IF Cardinality(pairs) > Cardinality(pos \cup neg) + grow
           \/ \E p \in pairs : Cardinality(Merge(t, p[1], p[2], v)) > clause_lim
        THEN t
        ELSE FoldSet(LAMBDA k, u : IF u.ok THEN RemoveClause(u, k) ELSE u, added, pos \cup neg)

\* asymm: the other literals of a clause of v are assumed false; upon a conflict one
\* literal goes, that of v or a later one that is false anyway.
Asymm(t, v, k) ==
  LET c == t.db[k]
      loose == {l \in c : VarOf(l) # v /\ ~ False(t, l)}
      assumed == Propagate([t EXCEPT !.trail = @ \o InOrder({-l : l \in loose})], Len(t.trail))
      l0 == CHOOSE l \in c \ loose : \A m \in c \ loose : VarOf(m) <= VarOf(l)
  IN  IF (\E l \in c : True(t, l)) \/ assumed.ok THEN t ELSE StrengthenClause(t, k, l0)

AsymmVar(t, v) ==
  LET held == [t EXCEPT !.frozen = @ \cup {v}]
      shrunk == FoldSet(LAMBDA k, u : IF u.ok /\ k \in DOMAIN u.db THEN Asymm(u, v, k) ELSE u,
                       held, Occurs(t, v))
  IN  [shrunk EXCEPT !.frozen = t.frozen]

-----------------------------------------------------------------------------
Init ==
  /\ original \in Formulas
  /\ s = FoldSet(LAMBDA c, t : AddClause(t, c), Empty, original)
  /\ extra_frozen = {} /\ pc = "idle" /\ cur = 0 /\ tried = <<>> /\ calls = 0

\* solve_ with assumptions, which are frozen until it returns.
Solve ==
  /\ pc = "idle" /\ s.ok /\ calls < Calls /\ calls' = calls + 1
  /\ \E A \in Assumptions :
       /\ A \cap s.eliminated = {}
       /\ extra_frozen' = A \ s.frozen
       /\ s' = [s EXCEPT !.frozen = @ \cup A]
  /\ pc' = "test" /\ tried' = <<>> /\ UNCHANGED <<original, cur>>

\* The test of the main loop; gatherTouchedClauses queues the clauses of what was touched.
Gather ==
  /\ pc = "test" /\ s.ok
  /\ IF s.touched # {} \/ s.bwd < Len(s.trail) \/ s.heap # {}
       THEN /\ s' = [s EXCEPT !.touched = {},
                       !.queue = @ \o InOrder(UNION {Occurs(s, v) : v \in s.touched} \ Range(@))]
            /\ pc' = "subsume" /\ cur' = 0
       ELSE pc' = "solved" /\ UNCHANGED <<s, cur>>
  /\ UNCHANGED <<original, extra_frozen, tried, calls>>

Progress == tried' = IF s'.db = s.db THEN tried ELSE <<>>

\* One turn of backwardSubsumptionCheck: an entry of the queue, else a new assignment.
BackwardSubsume ==
  /\ pc = "subsume" /\ s.ok
  /\ IF s.queue # <<>>
       THEN LET k == Head(s.queue)
                t == [s EXCEPT !.queue = Tail(@)]
            IN  s' = (IF k \in DOMAIN s.db THEN Scan(t, s.db[k], k) ELSE t) /\ UNCHANGED pc
       ELSE IF s.bwd < Len(s.trail)
         THEN s' = Scan([s EXCEPT !.bwd = @ + 1], {s.trail[s.bwd + 1]}, 0) /\ UNCHANGED pc
         ELSE pc' = (IF cur = 0 THEN "pick" ELSE "eliminate") /\ UNCHANGED s
  /\ Progress /\ UNCHANGED <<original, extra_frozen, cur, calls>>

Cost(v) == s.n_occ[v] * s.n_occ[-v]

\* The loop takes the variable of least cost from the heap.
Pick ==
  /\ pc = "pick" /\ s.ok
  /\ IF s.heap = {} THEN pc' = "test" /\ UNCHANGED <<s, cur, tried>>
     ELSE \E v \in s.heap :
            LET t == [s EXCEPT !.heap = @ \ {v}]
            IN  /\ \A w \in s.heap : Cost(v) <= Cost(w)
                /\ IF v \in s.eliminated \/ ~ Unassigned(s, v)
                     THEN s' = t /\ UNCHANGED <<pc, cur, tried>>
                     ELSE /\ s' = IF use_asymm THEN AsymmVar(t, v) ELSE t
                          /\ tried' = IF s'.db = s.db THEN Append(tried, v) ELSE <<>>
                          /\ cur' = v /\ pc' = IF use_asymm THEN "subsume" ELSE "eliminate"
  /\ UNCHANGED <<original, extra_frozen, calls>>

Eliminate ==
  /\ pc = "eliminate" /\ s.ok
  /\ s' = IF Unassigned(s, cur) /\ cur \notin s.frozen THEN EliminateVar(s, cur) ELSE s
  /\ Progress /\ cur' = 0 /\ pc' = "subsume" /\ UNCHANGED <<original, extra_frozen, calls>>

\* solve_ has its answer and unfreezes the assumptions.
Return ==
  /\ pc = "solved"
  /\ s' = UpdateAll([s EXCEPT !.frozen = @ \ extra_frozen], extra_frozen)
  /\ extra_frozen' = {} /\ pc' = "idle" /\ UNCHANGED <<original, cur, tried, calls>>

\* The user adds a clause between two calls.
Add ==
  /\ pc = "idle" /\ s.ok /\ calls \in 1 .. Calls - 1
  /\ \E c \in MoreClauses \ original :
       /\ VarsOf(c) \cap s.eliminated = {}
       /\ s' = AddClause(s, c) /\ original' = original \cup {c}
  /\ UNCHANGED <<extra_frozen, pc, cur, tried, calls>>

Next == Solve \/ Gather \/ BackwardSubsume \/ Pick \/ Eliminate \/ Return \/ Add

-----------------------------------------------------------------------------
\* A total assignment as the set of its true literals.
Totals == {{IF f[v] THEN v ELSE -v : v \in Vars} : f \in [Vars -> BOOLEAN]}
Satisfies(M, C) == \A c \in C : c \cap M # {}

\* What the search hands over: a value for all but the variables eliminated, which have
\* one only when they were assigned before.
FoundBy(M) == {l \in M : VarOf(l) \notin s.eliminated \/ True(s, l) \/ False(s, l)}
Found == {FoundBy(M) : M \in {N \in Totals : Satisfies(N, Range(s.db)) /\ Range(s.trail) \subseteq N}}

\* extendModel, from the clause recorded last to the first.
extendModel(M) ==
  FoldLeft(LAMBDA m, e : IF \A l \in e.clause \ {e.lit} : -l \in m
                           THEN (m \ {-e.lit}) \cup {e.lit} ELSE m,
           M, Reverse(s.elimclauses))

\* Every model the search may find extends to a model of all the clauses the user ever
\* added, through eliminations in any order, strengthening and later calls.
ModelsExtend ==
  pc = "solved" /\ s.ok => \A M \in Found : Satisfies(extendModel(M), original)

\* Nothing but what is implied is kept: a model of the user's clauses stays a model of
\* the solver's, and a refutation by the preprocessor is one of the user's clauses.
NothingInvented ==
  \A M \in Totals : Satisfies(M, original)
    => s.ok /\ Satisfies(M, Range(s.db)) /\ Range(s.trail) \subseteq M

\* The counts by which variables are picked are those of the clauses attached, after
\* subsumption, strengthening to two and to one literal, and elimination.
CountsExact ==
  s.ok => \A l \in Lits : s.n_occ[l] = Cardinality({k \in DOMAIN s.db : l \in s.db[k]})

\* When the preprocessor is done no clause subsumes another or can strengthen one, no
\* literal left has a value, and no variable eliminated is left.
NothingLeftToDo ==
  pc = "solved" /\ s.ok =>
    /\ \A j, k \in DOMAIN s.db : j # k => Cardinality({l \in s.db[j] : l \notin s.db[k]}) > 0
    /\ \A j, k \in DOMAIN s.db : \A l \in s.db[j] :
         ~ (-l \in s.db[k] /\ s.db[j] \ {l} \subseteq s.db[k])
    /\ \A k \in DOMAIN s.db, l \in Lits : l \in s.db[k] =>
         Unassigned(s, VarOf(l)) /\ VarOf(l) \notin s.eliminated

\* The main loop ends: a variable goes back to the heap only after a clause was removed
\* or shortened, so that none is tried twice on the same clauses.
TriedOnce == \A i, j \in DOMAIN tried : i # j => tried[i] # tried[j]
=============================================================================
