---------------------------- MODULE MaxSATSearch ----------------------------
(***************************************************************************)
(* What every MaxSAT algorithm of the solver promises its caller           *)
(* (MaxSAT::search, src/src/MaxSAT.h): it owns a model it can show at any  *)
(* moment, a lower bound nothing feasible undercuts, and an answer.  An    *)
(* assignment of the hard clauses is represented by the set of soft        *)
(* clauses it falsifies; all weights are 1, as in Main.cc.                 *)
(***************************************************************************)
EXTENDS Naturals, FiniteSets

CONSTANTS
  Soft,       \* the soft clauses
  Instances,  \* the formulas considered: families of falsified sets
  NoModel     \* no model was found yet

VARIABLES
  feasible,   \* the falsified sets the hard clauses allow
  best,       \* the saved model, or NoModel
  lower,      \* the proved lower bound
  answer      \* "searching", "OPTIMUM" or "UNSATISFIABLE"

vars == <<feasible, best, lower, answer>>

Cost(F) == Cardinality(F)

\* A first model is kept, and then only cheaper ones.
Improves(F) == best # NoModel => Cost(F) < Cost(best)

IsLowerBound(k) == \A F \in feasible : k <= Cost(F)

Init ==
  /\ feasible \in Instances
  /\ best = NoModel
  /\ lower = 0
  /\ answer = "searching"

\* A first model, or a strictly cheaper one, replaces the saved model.
Improve ==
  /\ answer = "searching"
  /\ \E F \in feasible :
       /\ Improves(F)
       /\ best' = F
  /\ UNCHANGED <<feasible, lower, answer>>

\* A core proves one more falsified soft clause in every model.
RaiseBound ==
  /\ answer = "searching"
  /\ best # NoModel
  /\ lower' = lower + 1
  /\ IsLowerBound(lower')
  /\ UNCHANGED <<feasible, best, answer>>

\* The search may stop on an optimal model, which can be the one just found
\* or the one a last core has just proved optimal.
Conclude ==
  /\ answer = "searching"
  /\ \E F \in feasible :
       /\ IsLowerBound(Cost(F))
       /\ best' = F
       /\ F = best \/ Improves(F)
  /\ lower' \in {lower, lower + 1}
  /\ IsLowerBound(lower')
  /\ answer' = "OPTIMUM"
  /\ UNCHANGED feasible

Refute ==
  /\ answer = "searching"
  /\ feasible = {}
  /\ answer' = "UNSATISFIABLE"
  /\ UNCHANGED <<feasible, best, lower>>

Next == Improve \/ RaiseBound \/ Conclude \/ Refute

Spec == Init /\ [][Next]_vars
=============================================================================
