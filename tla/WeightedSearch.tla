--------------------------- MODULE WeightedSearch ---------------------------
(***************************************************************************)
(* The promise of MaxSAT::search (module MaxSATSearch) for weighted        *)
(* formulas and for algorithms that prove bounds before they have a model. *)
(***************************************************************************)
EXTENDS Integers, FiniteSetsExt

CONSTANTS
  Soft,      \* the soft clauses
  NoModel    \* no model was found yet

VARIABLES
  weight,    \* the weight of each soft clause; never changes
  feasible,  \* the falsified sets the hard clauses allow; never changes
  best,      \* the saved model, or NoModel
  lower,     \* the proved lower bound
  answer     \* "searching", "OPTIMUM" or "UNSATISFIABLE"

vars == <<weight, feasible, best, lower, answer>>

Cost(F) == MapThenSumSet(LAMBDA i : weight[i], F)

IsLowerBound(k) == \A F \in feasible : k <= Cost(F)

Init ==
  /\ \E S \in SUBSET Soft : weight \in [S -> Nat] /\ feasible \in SUBSET SUBSET S
  /\ best = NoModel
  /\ lower = 0
  /\ answer = "searching"

\* A first model, or a strictly cheaper one, is saved.
Improve ==
  /\ \E F \in feasible :
       /\ best # NoModel => Cost(F) < Cost(best)
       /\ best' = F
  /\ UNCHANGED <<lower, answer>>

RaiseBound ==
  /\ lower' > lower
  /\ IsLowerBound(lower')
  /\ UNCHANGED <<best, answer>>

\* The search stops on an optimal model, which may be the one just found, or
\* one that the last core has just proved optimal.
Conclude ==
  /\ \E F \in feasible :
       /\ IsLowerBound(Cost(F))
       /\ F = best \/ best = NoModel \/ Cost(F) < Cost(best)
       /\ best' = F
  /\ lower' >= lower
  /\ IsLowerBound(lower')
  /\ answer' = "OPTIMUM"

Refute ==
  /\ feasible = {}
  /\ answer' = "UNSATISFIABLE"
  /\ UNCHANGED <<best, lower>>

Next ==
  /\ answer = "searching"
  /\ Improve \/ RaiseBound \/ Conclude \/ Refute
  /\ UNCHANGED <<weight, feasible>>

Spec == Init /\ [][Next]_vars
=============================================================================
