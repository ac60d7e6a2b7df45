-------------------------------- MODULE MSU3 --------------------------------
(***************************************************************************)
(* MSU3::MSU3_iterative of src/src/algorithms/Alg_MSU3.cc, the search      *)
(* PartMSU3 refines with partitions: all soft clauses are assumed at once, *)
(* each core is relaxed, and one totalizer allows as many relaxed clauses  *)
(* to be falsified as cores were found.                                    *)
(***************************************************************************)
EXTENDS CoreGuided

CONSTANTS
  NULL,       \* no model
  Instances   \* the formulas: families of falsified sets

ASSUME FormulaAssumption ==
  /\ IsFiniteSet(Soft)
  /\ Instances \subseteq SUBSET SUBSET Soft
  /\ \A F \in SUBSET Soft : F # NULL

VARIABLES
  feasible,       \* the models of the hard clauses; never changes
  activeSoft,     \* the relaxed soft clauses
  encoder,        \* the totalizer
  assumptions,    \* assumptions of the next SAT call
  lbCost, ubCost, \* the bounds
  nbSatisfiable,  \* number of satisfiable SAT calls
  model,          \* the saved model, or NULL
  status          \* "searching", "OPTIMUM" or "UNSATISFIABLE"

vars == <<feasible, activeSoft, encoder, assumptions, lbCost, ubCost,
          nbSatisfiable, model, status>>

Init ==
  /\ feasible \in Instances
  /\ activeSoft = {}
  /\ encoder = NewEncoder
  /\ assumptions = Assume({}, NewEncoder)
  /\ lbCost = 0
  /\ ubCost = 0
  /\ nbSatisfiable = 0
  /\ model = NULL
  /\ status = "searching"

\* Only the first model is saved.
SatWrongly(F) ==
  /\ Satisfies(F, assumptions)
  /\ model' = IF model = NULL THEN F ELSE model
  /\ ubCost' = Cardinality(F)
  /\ nbSatisfiable' = nbSatisfiable + 1
  /\ IF nbSatisfiable = 0
       THEN assumptions' = Assume(Soft, encoder) /\ UNCHANGED status
       ELSE status' = "OPTIMUM" /\ UNCHANGED assumptions
  /\ UNCHANGED <<feasible, activeSoft, encoder, lbCost>>

\* l_True: every model is saved; the first one starts the search, the next one
\* is taken for optimal.
Sat(F) ==
  /\ Satisfies(F, assumptions)
  /\ model' = F
  /\ ubCost' = Cardinality(F)
  /\ nbSatisfiable' = nbSatisfiable + 1
  /\ IF nbSatisfiable = 0
       THEN assumptions' = Assume(Soft, encoder) /\ UNCHANGED status
       ELSE status' = "OPTIMUM" /\ UNCHANGED assumptions
  /\ UNCHANGED <<feasible, activeSoft, encoder, lbCost>>

\* The encoder after a core C raised the bound to k; none is built while every
\* relaxed clause may be falsified.
Tightened(relaxed, C, k) ==
  IF encoder.card THEN IncUpdate(encoder, C, k)
  ELSE IF k # Cardinality(relaxed) THEN Encode(relaxed, k)
  ELSE encoder

\* l_False: the bound is raised before anything else is looked at.
Unsat(C, k) ==
  /\ IsConflict(feasible, assumptions, C, k)
  /\ lbCost' = lbCost + 1
  /\ UNCHANGED <<feasible, ubCost, nbSatisfiable, model>>

\* No model yet, or a core without assumptions.
HardUnsatisfiable ==
  /\ nbSatisfiable = 0 \/ lbCost + 1 # ubCost
  /\ Unsat({}, FALSE)
  /\ status' = "UNSATISFIABLE"
  /\ UNCHANGED <<activeSoft, encoder, assumptions>>

\* The bounds are compared before the lower one is raised.
BoundsMeetWrongly(C, k) ==
  /\ nbSatisfiable > 0
  /\ lbCost = ubCost
  /\ Unsat(C, k)
  /\ status' = "OPTIMUM"
  /\ UNCHANGED <<activeSoft, encoder, assumptions>>

BoundsMeet(C, k) ==
  /\ nbSatisfiable > 0
  /\ lbCost + 1 = ubCost
  /\ Unsat(C, k)
  /\ status' = "OPTIMUM"
  /\ UNCHANGED <<activeSoft, encoder, assumptions>>

RelaxCore(C, k) ==
  LET relaxed == activeSoft \cup C
      e       == Tightened(relaxed, C, lbCost + 1)
  IN  /\ nbSatisfiable > 0
      /\ lbCost + 1 # ubCost
      /\ C # {} \/ k
      /\ Unsat(C, k)
      /\ activeSoft' = relaxed
      /\ encoder' = e
      /\ assumptions' = Assume(Soft \ relaxed, e)
      /\ UNCHANGED status

Next ==
  /\ status = "searching"
  /\ \/ \E F \in feasible : Sat(F)
     \/ HardUnsatisfiable
     \/ \E C \in SUBSET assumptions.soft, k \in BOOLEAN :
          BoundsMeet(C, k) \/ RelaxCore(C, k)

Spec == Init /\ [][Next]_vars

-----------------------------------------------------------------------------
TypeOK ==
  /\ feasible \in Instances
  /\ activeSoft \in SUBSET Soft
  /\ encoder \in [card : BOOLEAN, lits : SUBSET Soft, rhs : Nat]
  /\ assumptions \in [soft : SUBSET Soft, lits : SUBSET Soft, rhs : Nat]
  /\ lbCost \in Nat /\ ubCost \in Nat /\ nbSatisfiable \in Nat
  /\ model \in (SUBSET Soft) \cup {NULL}
  /\ status \in {"searching", "OPTIMUM", "UNSATISFIABLE"}

\* Once a model exists, the encoder counts exactly the relaxed soft clauses and
\* allows lbCost of them; while there is none, lbCost are relaxed and all may
\* be falsified (Alg_MSU3.cc:154-169).
EncoderInSync ==
  status = "searching" /\ nbSatisfiable > 0 =>
    IF encoder.card
      THEN encoder.lits = activeSoft /\ encoder.rhs = lbCost
      ELSE Cardinality(activeSoft) = lbCost

\* No model is cheaper than the lower bound, which holds while models exist.
LowerBoundSound ==
  nbSatisfiable > 0 => \A F \in feasible : lbCost <= Cardinality(F)

\* The assertion of Alg_MSU3.cc:99 on the second model.
BoundsAgree == status = "OPTIMUM" => lbCost = ubCost

\* What it is for: OPTIMUM is answered with a cheapest model in hand, and the
\* upper bound is its cost.
OptimumIsOptimal ==
  status = "OPTIMUM" =>
    /\ model \in feasible
    /\ ubCost = Cardinality(model)
    /\ \A F \in feasible : ubCost <= Cardinality(F)

\* The search answers (Alg_MSU3.cc:84): each core relaxes a clause or
\* raises the bound of the encoding.
Termination == <>(status # "searching")

\* lbCost is already 1 when the hard clauses are found unsatisfiable.
Search == INSTANCE MaxSATSearch
            WITH NoModel <- NULL, best <- model, answer <- status,
                 lower <- IF nbSatisfiable = 0 THEN 0 ELSE lbCost

\* The algorithm is a MaxSAT search: its model improves, its bound is sound.
ImplementsSearch == Search!Spec
=============================================================================
