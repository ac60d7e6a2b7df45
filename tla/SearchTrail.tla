----------------------------- MODULE SearchTrail ------------------------------
(***************************************************************************)
(* The assignment a conflict-driven SAT solver works on, and what it reads *)
(* off it: the value and the level of a literal, the clause learnt from a  *)
(* conflict, and the assumptions a conflict follows from                   *)
(* (src/src/solvers/glucose4.1/core/Solver.cc; MiniSat 2.2 shares it).     *)
(*                                                                         *)
(* A literal is a variable or its negative.  A clause is a record: the set *)
(* of its literals, its first two literals w (the ones the solver orders), *)
(* whether it was learnt, its LBD, and whether it is still in the solver.  *)
(* A clause is referred to by its index in db, 0 standing for CRef_Undef.  *)
(***************************************************************************)
EXTENDS Integers, FiniteSetsExt, SequencesExt

CONSTANTS
  Vars,      \* the variables, positive numbers
  CCMin      \* how far a learnt clause is minimised: 0, 1 or 2 (ccmin_mode)

VARIABLES
  trail,     \* the true literals, in the order they were assigned
  trailLim,  \* for each decision level, the length of the trail below it
  reason,    \* for each variable, the clause that implied it
  db         \* the clauses

trailVars == <<trail, trailLim, reason, db>>

Lits == Vars \cup {-v : v \in Vars}
VarOf(l) == IF l > 0 THEN l ELSE -l

True(l)  == \E i \in DOMAIN trail : trail[i] = l
False(l) == True(-l)
Undefined(l) == ~ True(l) /\ ~ False(l)

DecisionLevel == Len(trailLim)
Position(l) == CHOOSE i \in DOMAIN trail : trail[i] \in {l, -l}
LevelAt(i) == Cardinality({k \in DOMAIN trailLim : trailLim[k] < i})
Level(l) == LevelAt(Position(l))
Reason(l) == reason[VarOf(l)]

Live == {c \in DOMAIN db : db[c].live}

\* The number of decision levels among the literals of a clause.
ComputeLBD(S) == Cardinality({Level(l) : l \in S})

\* A clause is locked while it is the reason of its first literal, a binary
\* clause while it is the reason of either.
Locked(c) == \E l \in IF Cardinality(db[c].lits) = 2 THEN db[c].lits ELSE {db[c].w[1]} :
               True(l) /\ Reason(l) = c

\* uncheckedEnqueue
Enqueue(l, c) == /\ trail' = Append(trail, l)
                 /\ reason' = [reason EXCEPT ![VarOf(l)] = c]

\* The trail without the levels above k.
TrailUntil(k) == IF k < DecisionLevel THEN SubSeq(trail, 1, trailLim[k + 1]) ELSE trail
LimUntil(k)   == SubSeq(trailLim, 1, k)

-----------------------------------------------------------------------------
\* The literals of the reason of l other than l itself, above level 0.
Antecedents(l) == {x \in db[Reason(l)].lits \ {l, -l} : Level(x) > 0}

\* The conflict clause resolved, in the reverse order of assignment, with the
\* reasons of its literals of the last level, until one of them is left.
RECURSIVE FirstUIP(_)
FirstUIP(S) ==
  LET last == {l \in S : Level(l) = DecisionLevel}
      l    == CHOOSE x \in last : \A y \in last : Position(y) <= Position(x)
  IN  IF Cardinality(last) = 1 THEN S
      ELSE FirstUIP((S \ {l}) \cup Antecedents(l))

\* l follows from the other literals of S: all its antecedents are in S or
\* follow from S and lie on levels of S (litRedundant).
RECURSIVE LitRedundant(_, _)

LitRedundant(l, S) ==
  /\ Reason(l) # 0
  /\ \A x \in Antecedents(l) \ S :
       /\ \E y \in S : Level(y) = Level(x)
       /\ LitRedundant(x, S)

\* The local form of the same test (ccmin_mode 1).
LocallyRedundant(l, S) == Reason(l) # 0 /\ Antecedents(l) \subseteq S

Minimised(S, uip) ==
  CASE CCMin = 2 -> {l \in S : l = uip \/ ~ LitRedundant(l, S)}
    [] CCMin = 1 -> {l \in S : l = uip \/ ~ LocallyRedundant(l, S)}
    [] OTHER     -> S

\* The literal of S of the last level.
Asserting(S) == CHOOSE l \in S : Level(l) = DecisionLevel

\* The highest level of the rest of a learnt clause.
BacktrackLevel(S, uip) == Max({0} \cup {Level(l) : l \in S \ {uip}})

-----------------------------------------------------------------------------
\* The decisions from which the true literal l follows (analyzeFinal).
RECURSIVE Decisions(_)

\* A wrong one, for the mutant run: it takes the first literal of every reason for
\* the implied one, which binary reasons do not promise.
DecisionsWrongly(l) ==
  IF Reason(l) = 0 THEN {-l}
  ELSE UNION {Decisions(-x) : x \in Antecedents(l) \ {db[Reason(l)].w[1]}}

Decisions(l) == IF Reason(l) = 0 THEN {-l} ELSE UNION {Decisions(-x) : x \in Antecedents(l)}

\* The final conflict when the assumption p is false: p, negated, and the
\* decisions its negation follows from.
AnalyzeFinal(p) == {-p} \cup IF Level(p) = 0 THEN {} ELSE Decisions(-p)

-----------------------------------------------------------------------------
\* The assignments of the variables, and those that satisfy the clauses C.
Assignments == {{IF v \in T THEN v ELSE -v : v \in Vars} : T \in SUBSET Vars}
Models(C) == {A \in Assignments : \A c \in C : c \cap A # {}}
=============================================================================
