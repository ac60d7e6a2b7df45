------------------------------ MODULE ClauseDB ------------------------------
(***************************************************************************)
(* What an encoder of src/src/encodings does to a SAT solver: it makes     *)
(* variables and adds clauses.  A variable is a number, its negation the   *)
(* opposite number, a clause a set of literals.                            *)
(*                                                                         *)
(* Satisfiable decides whether clauses allow a partial assignment, for the *)
(* properties of the encoders; it models no code.                          *)
(***************************************************************************)
EXTENDS Integers, FiniteSetsExt, SequencesExt

NewSATVariables(S, k) == [S EXCEPT !.n = @ + k]

\* The literals of the k variables made next.
FreshLits(S, k) == [i \in 1 .. k |-> S.n + i]

\* Undef stands for lit_Undef: a clause has no such literal.
Undef == 0

AddClauses(S, cs) == [S EXCEPT !.clauses = @ \cup cs]

AddUnits(S, ls) == AddClauses(S, {{l} : l \in ls})

SolverWith(n) == [n |-> n, clauses |-> {}]

-----------------------------------------------------------------------------
\* Unit propagation from the true literals t.
RECURSIVE Propagate(_, _)
Propagate(cs, t) ==
  LET rest  == {{l \in c : -l \notin t} : c \in {d \in cs : d \cap t = {}}}
      units == UNION {c \in rest : Cardinality(c) = 1}
  IN  IF {} \in rest \/ \E l \in units : -l \in units
        THEN [conflict |-> TRUE, true |-> t, rest |-> {}]
      ELSE IF units = {}
        THEN [conflict |-> FALSE, true |-> t, rest |-> rest]
      ELSE Propagate(rest, t \cup units)

\* Clauses that all have a negative literal are satisfied by making the rest false.
RECURSIVE Satisfiable(_, _)
Satisfiable(cs, t) ==
  LET p == Propagate(cs, t)
      l == CHOOSE x \in UNION p.rest : TRUE
  IN  /\ ~ p.conflict
      /\ \/ \A c \in p.rest : \E x \in c : x < 0
         \/ Satisfiable(p.rest, {l})
         \/ Satisfiable(p.rest, {-l})

\* The assignment of the inputs ls in which exactly those of X are true.
Exactly(ls, X) == X \cup {-l : l \in ls \ X}
=============================================================================
