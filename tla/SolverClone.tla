------------------------------ MODULE SolverClone ------------------------------
(***************************************************************************)
(* Solver 0 of the parallel solver loads and simplifies the formula, the   *)
(* others are made as copies of it, and what is added later goes to all    *)
(* (src/src/solvers/glucose4.1/parallel/MultiSolvers.cc, and the copy      *)
(* constructors of Solver, SimpSolver and ParallelSolver).                 *)
(*                                                                         *)
(* A literal is a variable or its negative, a clause a set of literals.    *)
(* Of a solver the model keeps what decides its answers and the phase it   *)
(* branches on; activities and statistics are left out.  No search runs:   *)
(* its answers are the models of the clauses.                              *)
(***************************************************************************)
EXTENDS Integers, Sequences, FiniteSetsExt

CONSTANTS
  nbsolvers,
  MaxVar,        \* bound on the number of variables
  UserClauses    \* the clauses the user may add, each once

VARIABLES
  solvers,             \* the solvers made so far; the first is solver 0
  ok, numvar,          \* of MultiSolvers
  allClonesAreBuilt,
  added                \* history: the clauses the user added

vars == <<solvers, ok, numvar, allClonesAreBuilt, added>>

VarOf(l) == IF l < 0 THEN -l ELSE l
VarsOf(C) == {VarOf(l) : l \in C}

Satisfied(s, C) == C \cap s.assigns # {}
NotFalse(s, C) == {l \in C : -l \notin s.assigns}

\* propagate: the units that follow, until there are none or a clause is false.
RECURSIVE Propagated(_)
Propagated(s) ==
  LET open  == {C \in s.clauses : ~ Satisfied(s, C)}
      units == {C \in open : Cardinality(NotFalse(s, C)) = 1}
  IN  IF \E C \in open : NotFalse(s, C) = {} THEN [s EXCEPT !.ok = FALSE]
      ELSE IF units = {} THEN s
      ELSE Propagated([s EXCEPT !.assigns = @ \cup UNION {NotFalse(s, C) : C \in units}])

\* Solver::addClause_
Attached(s, C) ==
  LET rest == NotFalse(s, C)
  IN  IF ~ s.ok \/ Satisfied(s, C) \/ (\E l \in C : -l \in C) THEN s
      ELSE IF rest = {} THEN [s EXCEPT !.ok = FALSE]
      ELSE IF Cardinality(rest) = 1 THEN Propagated([s EXCEPT !.assigns = @ \cup rest])
      ELSE [s EXCEPT !.clauses = @ \cup {rest}]

-----------------------------------------------------------------------------
Empty == [ok |-> TRUE, assigns |-> {}, clauses |-> {}, eliminated |-> {}, elimclauses |-> {},
          use_simplification |-> TRUE, polarity |-> <<>>, fixed_polarity |-> <<>>]

Init ==
  /\ solvers = <<Empty>> /\ ok = TRUE /\ numvar = 0 /\ allClonesAreBuilt = FALSE
  /\ added = {}

okay == ok /\ \A i \in DOMAIN solvers : solvers[i].ok

-----------------------------------------------------------------------------

Resolvent(C, D, v) == (C \ {v}) \cup (D \ {-v})

\* eliminateVar, as module Simplifier has it in detail, when nothing grows: the
\* resolvents replace the clauses of v, which are kept for extendModel (the code keeps
\* one side and a default, from which the other follows).
WithoutVar(s, v) ==
  LET pos == {C \in s.clauses : v \in C}
      neg == {C \in s.clauses : -v \in C}
      merged == {p \in pos \X neg : \A l \in Resolvent(p[1], p[2], v) : -l \notin Resolvent(p[1], p[2], v)}
      kept == [s EXCEPT !.eliminated = @ \cup {v}, !.elimclauses = @ \cup pos \cup neg]
  IN  IF {v, -v} \cap s.assigns # {} \/ Cardinality(merged) > Cardinality(pos \cup neg) THEN s
      ELSE [FoldSet(LAMBDA p, t : Attached(t, Resolvent(p[1], p[2], v)), kept, merged)
              EXCEPT !.clauses = @ \ (pos \cup neg)]

-----------------------------------------------------------------------------
Each(F(_)) == [i \in DOMAIN solvers |-> F(solvers[i])]

\* newVar: in the solvers made so far.
NewVar(sign) ==
  /\ numvar < MaxVar /\ numvar' = numvar + 1
  /\ solvers' = Each(LAMBDA s : [s EXCEPT !.polarity = Append(@, sign),
                                          !.fixed_polarity = Append(@, FALSE)])
  /\ UNCHANGED <<ok, allClonesAreBuilt, added>>

Addable(C) ==
  C \notin added /\ \A v \in VarsOf(C) : v <= numvar /\ v \notin solvers[1].eliminated

\* addClause_ with a clause of which solver 0 knows less than all to be false and no
\* literal to be true: stripped by its values it goes to all, a unit is propagated in
\* solver 0 only.  (The second enqueuing of the unit there is in module MultiSolvers.)
AddClause(C) ==
  /\ Addable(C) /\ okay /\ added' = added \cup {C}
  /\ LET first == solvers[1]
         rest  == NotFalse(first, C)
         unit(s) == [s EXCEPT !.assigns = @ \cup rest]
         after == Propagated(unit(first))
     IN  IF Satisfied(first, C) \/ (\E l \in C : -l \in C) THEN UNCHANGED <<solvers, ok>>
         ELSE IF rest = {} THEN ok' = FALSE /\ UNCHANGED solvers
         ELSE IF Cardinality(rest) = 1
           THEN /\ ok' = after.ok
                /\ solvers' = [Each(unit) EXCEPT ![1] = [after EXCEPT !.ok = first.ok]]
         ELSE solvers' = Each(LAMBDA s : Attached(s, rest)) /\ UNCHANGED ok
  /\ UNCHANGED <<numvar, allClonesAreBuilt>>

\* simplify, of solver 0: it propagates, and removes what is satisfied once the
\* preprocessor is done.
Simplified(s) ==
  LET t == Propagated(s)
  IN  IF s.use_simplification \/ ~ t.ok THEN t
      ELSE [t EXCEPT !.clauses = {C \in @ : ~ Satisfied(t, C)}]
Simplify ==
  /\ okay /\ solvers' = [solvers EXCEPT ![1] = Simplified(@)] /\ ok' = solvers'[1].ok
  /\ UNCHANGED <<numvar, allClonesAreBuilt, added>>

\* eliminate, once and before there are clones; then the preprocessor is turned off.
Eliminate(V) ==
  /\ ~ allClonesAreBuilt /\ solvers[1].use_simplification
  /\ LET s == Simplified(solvers[1])
     IN  solvers' = IF s.ok THEN <<[FoldSet(LAMBDA v, t : WithoutVar(t, v), s, V)
                                      EXCEPT !.use_simplification = FALSE]>>
                    ELSE <<s>>
  /\ UNCHANGED <<ok, numvar, allClonesAreBuilt, added>>

\* The copy constructors: fixed_polarity is copied to polarity, and nothing to
\* the copy's own fixed_polarity.
Clone(s) == [s EXCEPT !.polarity = s.fixed_polarity, !.fixed_polarity = <<>>]

GenerateAllSolvers ==
  /\ okay /\ ~ allClonesAreBuilt /\ allClonesAreBuilt' = TRUE
  /\ solvers' = [i \in 1 .. nbsolvers |-> IF i = 1 THEN solvers[1] ELSE Clone(solvers[1])]
  /\ UNCHANGED <<ok, numvar, added>>

Next ==
  \/ \E sign \in BOOLEAN : NewVar(sign)
  \/ \E C \in UserClauses : AddClause(C)
  \/ Simplify
  \/ \E V \in SUBSET (1 .. numvar) : Eliminate(V)
  \/ GenerateAllSolvers

-----------------------------------------------------------------------------

Satisfies(M, F) == \A C \in F : C \cap M # {}
Assignments == {{IF v \in T THEN v ELSE -v : v \in 1 .. numvar} : T \in SUBSET (1 .. numvar)}

\* The models a solver may find, restricted to the variables it still has.
Remaining(s, M) == {l \in M : VarOf(l) \notin s.eliminated}
Found(s) == {Remaining(s, M) : M \in {N \in Assignments : s.assigns \subseteq N /\ Satisfies(N, s.clauses)}}

\* Whichever solver finds a model, it extends it to a model of all that was added,
\* over what was eliminated before it was copied and added to it afterwards; and none
\* of them has lost one.  MultiSolvers takes the answer of the first to finish.
AnyoneMayAnswer ==
  okay =>
    LET models == {M \in Assignments : Satisfies(M, added)}
    IN  \A i \in DOMAIN solvers :
          LET s == solvers[i]
          IN  /\ Found(s) = {Remaining(s, M) : M \in models}
              /\ \A M \in Assignments :
                   Remaining(s, M) \in Found(s) /\ Satisfies(M, s.elimclauses) => M \in models

\* "Unsatisfiable" is said of a formula without models only, although solver 0 alone
\* propagates the units.
RefutedOnlyIf == ~ okay => ~ \E M \in Assignments : Satisfies(M, added)
=============================================================================
