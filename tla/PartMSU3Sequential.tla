-------------------------- MODULE PartMSU3Sequential --------------------------
(***************************************************************************)
(* PartMSU3::PartMSU3_sequential of src/src/algorithms/Alg_PartMSU3.cc,    *)
(* the merge strategies _PART_SEQUENTIAL_ and _PART_SEQUENTIAL_SORTED_:    *)
(* after each model one more partition is handed to the search, those with *)
(* a single soft clause together at the end; one totalizer for all.        *)
(***************************************************************************)
EXTENDS CoreGuided

CONSTANTS
  NULL,         \* no model
  Partitions,   \* sequences of partitions, each its set of soft clauses
  Instances     \* the formulas: families of falsified sets; a soft clause in no
                \* partition is decided by the hard clauses alone

Unit(P) == Cardinality(P) = 1

\* What sortPartitions returns: no empty partition, and units come last.
Sorted(p) ==
  /\ \A i \in DOMAIN p : p[i] # {}
  /\ \A i, j \in DOMAIN p : i < j /\ Unit(p[i]) => Unit(p[j])

VARIABLES
  feasible,       \* the models of the hard clauses; never changes
  sorted,         \* merge_strategy is _PART_SEQUENTIAL_SORTED_
  parts,          \* the partitions in the order in use
  partIndex,      \* part_index, counted from 1
  unitParts,      \* unit_parts: the soft clauses of unit partitions set aside
  addUnitParts,   \* add_unit_parts
  activeSoft,     \* the relaxed soft clauses
  encoder,        \* the totalizer
  assumptions,    \* assumptions of the next SAT call
  lbCost, ubCost, \* the bounds
  nbSatisfiable,  \* number of satisfiable SAT calls
  model,          \* the saved model, or NULL
  status          \* "searching", "OPTIMUM" or "UNSATISFIABLE"

order == <<sorted, parts, partIndex, unitParts, addUnitParts>>
core  == <<activeSoft, encoder>>
vars  == <<feasible, order, core, assumptions, lbCost, ubCost, nbSatisfiable,
           model, status>>

Init ==
  /\ feasible \in Instances
  /\ sorted \in BOOLEAN
  /\ parts \in {p \in Partitions : sorted => Sorted(p)}
  /\ partIndex = 1
  /\ unitParts = {}
  /\ addUnitParts = FALSE
  /\ activeSoft = {}
  /\ encoder = NewEncoder
  /\ assumptions = Assume({}, NewEncoder)
  /\ lbCost = 0
  /\ ubCost = 0
  /\ nbSatisfiable = 0
  /\ model = NULL
  /\ status = "searching"

-----------------------------------------------------------------------------
\* l_True: the first model, or a cheaper one, is saved.
Sat(F) ==
  /\ Satisfies(F, assumptions)
  /\ nbSatisfiable' = nbSatisfiable + 1
  /\ IF nbSatisfiable = 0 \/ Cardinality(F) < ubCost
       THEN model' = F /\ ubCost' = Cardinality(F)
       ELSE UNCHANGED <<model, ubCost>>
  /\ UNCHANGED <<feasible, core, lbCost, sorted, parts>>

\* Soft clauses are assumed besides what is assumed already.
HandOver(S) ==
  /\ assumptions' = [assumptions EXCEPT !.soft = @ \cup S]
  /\ UNCHANGED status

\* The indices from part_index on that are handed over by themselves.
LargeLeft == {i \in partIndex .. Len(parts) : Cardinality(parts[i]) > 1}

\* The unit partitions passed over on the way to partition `next'.
UnitsBefore(next) ==
  UNION {parts[i] : i \in {j \in partIndex .. next - 1 : Unit(parts[j])}}

\* _PART_SEQUENTIAL_: the next partition with several soft clauses, then all
\* unit partitions together, then nothing is left.
NextLarge(F) ==
  /\ ~ sorted
  /\ LargeLeft # {}
  /\ LET next == CHOOSE i \in LargeLeft : \A j \in LargeLeft : i <= j
     IN  /\ unitParts' = unitParts \cup UnitsBefore(next)
         /\ HandOver(parts[next])
         /\ partIndex' = next + 1
  /\ Sat(F)
  /\ UNCHANGED addUnitParts

UnitsTogether(F) ==
  /\ ~ sorted
  /\ LargeLeft = {}
  /\ ~ addUnitParts
  /\ unitParts' = unitParts \cup UnitsBefore(Len(parts) + 1)
  /\ partIndex' = Len(parts) + 1
  /\ HandOver(unitParts')
  /\ addUnitParts' = TRUE
  /\ Sat(F)

\* _PART_SEQUENTIAL_SORTED_: the next partition, or all those that are left
\* when it has a single soft clause.
NextSorted(F) ==
  /\ sorted
  /\ partIndex <= Len(parts)
  /\ LET last == IF Unit(parts[partIndex]) THEN Len(parts) ELSE partIndex
     IN  /\ HandOver(UNION {parts[i] : i \in partIndex .. last})
         /\ partIndex' = last + 1
  /\ Sat(F)
  /\ UNCHANGED <<unitParts, addUnitParts>>

\* Unit partitions set aside are not waited for.
AllSolvedWrongly(F) ==
  /\ IF sorted THEN partIndex > Len(parts) ELSE LargeLeft = {}
  /\ status' = "OPTIMUM"
  /\ Sat(F)
  /\ UNCHANGED <<order, assumptions>>

AllSolved(F) ==
  /\ IF sorted THEN partIndex > Len(parts) ELSE LargeLeft = {} /\ addUnitParts
  /\ status' = "OPTIMUM"
  /\ Sat(F)
  /\ UNCHANGED <<order, assumptions>>

-----------------------------------------------------------------------------
\* The soft clauses handed over so far, as they are collected after a core.
InUse ==
  LET before == {i \in 1 .. partIndex - 1 : sorted \/ Cardinality(parts[i]) > 1}
  IN  (UNION {parts[i] : i \in before})
        \cup (IF addUnitParts THEN unitParts ELSE {})

\* The encoder after a core C raised the bound to k.
Tightened(relaxed, C, k) ==
  IF encoder.card THEN IncUpdate(encoder, C, k)
  ELSE IF k # Cardinality(relaxed) THEN Encode(relaxed, k)
  ELSE encoder

Unsat(C, k) ==
  /\ IsConflict(feasible, assumptions, C, k)
  /\ lbCost' = lbCost + 1
  /\ UNCHANGED <<feasible, order, ubCost, nbSatisfiable, model>>

HardUnsatisfiable ==
  /\ nbSatisfiable = 0 \/ lbCost + 1 # ubCost
  /\ Unsat({}, FALSE)
  /\ status' = "UNSATISFIABLE"
  /\ UNCHANGED <<core, assumptions>>

BoundsMeet(C, k) ==
  /\ nbSatisfiable > 0
  /\ lbCost + 1 = ubCost
  /\ Unsat(C, k)
  /\ status' = "OPTIMUM"
  /\ UNCHANGED <<core, assumptions>>

RelaxCore(C, k) ==
  LET relaxed == activeSoft \cup C
      e       == Tightened(InUse \cap relaxed, C, lbCost + 1)
  IN  /\ nbSatisfiable > 0
      /\ lbCost + 1 # ubCost
      /\ C # {} \/ k
      /\ Unsat(C, k)
      /\ activeSoft' = relaxed
      /\ encoder' = e
      /\ assumptions' = Assume(InUse \ relaxed, e)
      /\ UNCHANGED status

Next ==
  /\ status = "searching"
  /\ \/ \E F \in feasible :
          NextLarge(F) \/ UnitsTogether(F) \/ NextSorted(F) \/ AllSolved(F)
     \/ HardUnsatisfiable
     \/ \E C \in SUBSET assumptions.soft, k \in BOOLEAN :
          BoundsMeet(C, k) \/ RelaxCore(C, k)

Spec == Init /\ [][Next]_vars

-----------------------------------------------------------------------------
\* Every soft clause handed over is either assumed to hold or counted by the
\* totalizer, in both strategies and across cores (Alg_PartMSU3.cc:601-640):
\* what the loops collect after a core is what was handed over before it.
NothingDropped ==
  status = "searching" =>
    /\ assumptions.soft = InUse \ activeSoft
    /\ activeSoft \subseteq InUse
    /\ IF encoder.card
         THEN encoder.lits = activeSoft /\ encoder.rhs = lbCost
         ELSE Cardinality(activeSoft) = lbCost
    /\ encoder.lits = assumptions.lits /\ encoder.rhs = assumptions.rhs
=============================================================================
