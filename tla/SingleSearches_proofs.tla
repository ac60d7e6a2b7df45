------------------------ MODULE SingleSearches_proofs ------------------------
(***************************************************************************)
(* Safety of single searches beside PartMSU3 with its guide tree, and      *)
(* their refinement of the MaxSAT search: MSU3, sequential PartMSU3 and    *)
(* OLL without weights, LinearSU with any weights, for every finite set of *)
(* soft clauses, every family of formulas and every partitioning.          *)
(***************************************************************************)
EXTENDS MCSearches, FiniteSums

-----------------------------------------------------------------------------
(***************************************************************************)
(* MSU3, for every family of formulas.                                     *)
(***************************************************************************)

\* Sets of soft clauses have natural cardinalities, monotone in the set.
LEMMA SubsetCardinality ==
  ASSUME NEW S \in SUBSET Soft
  PROVE  /\ IsFiniteSet(S)
         /\ Cardinality(S) \in Nat
         /\ \A T \in SUBSET S : /\ Cardinality(T) <= Cardinality(S)
                                /\ Cardinality(S) = Cardinality(T) => S = T
<1>1. IsFiniteSet(S)
  BY FormulaAssumption, FS_Subset
<1> QED
  BY <1>1, FS_CardinalityType, FS_Subset

LEMMA EmptyHasNone == Cardinality({}) = 0
  BY FS_EmptySet

\* Only the empty set has no element to count.
LEMMA NoneIsEmpty ==
  ASSUME NEW S \in SUBSET Soft, Cardinality(S) = 0
  PROVE  S = {}
  BY SubsetCardinality, FS_EmptySet

\* Falsified clauses in two disjoint parts are counted apart: one clause of D
\* comes on top of those of A.
LEMMA OneMore ==
  ASSUME NEW F \in SUBSET Soft, NEW A \in SUBSET Soft, NEW D \in SUBSET Soft,
         A \cap D = {}, F \cap D # {}
  PROVE  Cardinality(F \cap A) + 1 <= Cardinality(F \cap (A \cup D))
<1>1. PICK x \in F \cap D : TRUE
  OBVIOUS
<1>2. x \in Soft /\ x \notin F \cap A /\ IsFiniteSet(F \cap A) /\ F \cap A \in SUBSET Soft
  BY <1>1, SubsetCardinality
<1>3. Cardinality((F \cap A) \cup {x}) = Cardinality(F \cap A) + 1
  BY <1>2, FS_AddElement
<1>4. (F \cap A) \cup {x} \in SUBSET (F \cap (A \cup D)) /\ F \cap (A \cup D) \in SUBSET Soft
  BY <1>1
<1> QED
  BY <1>3, <1>4, SubsetCardinality

-----------------------------------------------------------------------------
(***************************************************************************)
(* The inductive invariant.  LowerBoundSound is not inductive: a core that *)
(* holds an unrelaxed clause only raises the count of the relaxed ones.    *)
(***************************************************************************)

\* While there is no model nothing is relaxed, encoded or bounded.
BeforeModel ==
  status = "searching" /\ nbSatisfiable = 0 =>
    /\ activeSoft = {} /\ lbCost = 0 /\ model = NULL
    /\ encoder = NewEncoder /\ assumptions = Assume({}, NewEncoder)

\* The relaxed clauses are no longer assumed, the encoder's bound is; the model
\* is kept with its cost, which is above the bound if it is not 0.
AfterModel ==
  status = "searching" /\ nbSatisfiable > 0 =>
    /\ assumptions = Assume(Soft \ activeSoft, encoder)
    /\ encoder.card \/ encoder = NewEncoder
    /\ model \in feasible /\ ubCost = Cardinality(model)
    /\ lbCost < ubCost \/ ubCost = 0

\* Every model falsifies as many of the relaxed clauses as the bound says.
RelaxedBound ==
  status = "searching" /\ nbSatisfiable > 0 =>
    \A F \in feasible : lbCost <= Cardinality(F \cap activeSoft)

\* UNSATISFIABLE is answered only when the hard clauses have no model.
RefutedOnlyIf == status = "UNSATISFIABLE" => feasible = {}

Inv ==
  /\ TypeOK /\ BeforeModel /\ AfterModel /\ RelaxedBound
  /\ EncoderInSync /\ LowerBoundSound
  /\ OptimumIsOptimal /\ BoundsAgree /\ RefutedOnlyIf

LEMMA InitInv == Init => Inv
<1> SUFFICES ASSUME Init PROVE Inv
  OBVIOUS
<1> USE DEF Init
<1>1. TypeOK
  BY DEF TypeOK, NewEncoder, Assume
<1> QED
  BY <1>1 DEF Inv, BeforeModel, AfterModel, RelaxedBound, EncoderInSync,
              LowerBoundSound, OptimumIsOptimal, BoundsAgree, RefutedOnlyIf

\* What the invariant says of the models, for the proofs of the steps.
LEMMA ModelsTyped ==
  ASSUME TypeOK
  PROVE  /\ feasible \subseteq SUBSET Soft
         /\ \A F \in feasible : F \in SUBSET Soft /\ Cardinality(F) \in Nat
         /\ \A F \in feasible, S \in SUBSET Soft :
              Cardinality(F \cap S) \in Nat /\ Cardinality(F \cap S) <= Cardinality(F)
<1>1. feasible \subseteq SUBSET Soft
  BY FormulaAssumption DEF TypeOK
<1>2. ASSUME NEW F \in feasible, NEW S \in SUBSET Soft
      PROVE  Cardinality(F \cap S) \in Nat /\ Cardinality(F \cap S) <= Cardinality(F)
  <2>1. F \cap S \in SUBSET F /\ F \in SUBSET Soft /\ F \cap S \in SUBSET Soft
    BY <1>1
  <2> QED
    BY <2>1, SubsetCardinality
<1> QED
  BY <1>1, <1>2, SubsetCardinality

\* A conflict proves one more falsified clause, among those that are relaxed when
\* the core has been, if the encoding counts the clauses relaxed before.
LEMMA CoreCounts ==
  ASSUME TypeOK,
         \A F \in feasible : lbCost <= Cardinality(F \cap activeSoft),
         assumptions.lits # {} => assumptions.lits = activeSoft /\ assumptions.rhs = lbCost,
         NEW C \in SUBSET Soft, C \cap activeSoft = {}, NEW k \in BOOLEAN,
         IsConflict(feasible, assumptions, C, k)
  PROVE  \A F \in feasible : /\ lbCost + 1 <= Cardinality(F \cap (activeSoft \cup C))
                             /\ lbCost + 1 <= Cardinality(F)
<1>1. lbCost \in Nat /\ activeSoft \in SUBSET Soft /\ activeSoft \cup C \in SUBSET Soft
  BY DEF TypeOK
<1>2. ASSUME NEW F \in feasible
      PROVE  lbCost + 1 <= Cardinality(F \cap (activeSoft \cup C))
  <2>1. F \in SUBSET Soft /\ F \cap activeSoft \in SUBSET Soft
    BY <1>1, ModelsTyped
  <2>2. /\ Cardinality(F \cap activeSoft) \in Nat
        /\ Cardinality(F \cap (activeSoft \cup C)) \in Nat
    BY <1>1, ModelsTyped
  <2>3. CASE F \cap C # {}
    <3>1. Cardinality(F \cap activeSoft) + 1 <= Cardinality(F \cap (activeSoft \cup C))
      BY <1>1, <2>1, <2>3, OneMore
    <3> QED
      BY <1>1, <2>2, <3>1
  <2>4. CASE k /\ Cardinality(F \cap assumptions.lits) > assumptions.rhs
    <3>1. assumptions.lits = activeSoft /\ assumptions.rhs = lbCost
      BY <2>4 DEF IsConflict
    <3>2. Cardinality(F \cap activeSoft) > lbCost
      BY <2>4, <3>1
    <3>3. F \cap activeSoft \in SUBSET (F \cap (activeSoft \cup C))
          /\ F \cap (activeSoft \cup C) \in SUBSET Soft
      BY <2>1
    <3>4. Cardinality(F \cap activeSoft) <= Cardinality(F \cap (activeSoft \cup C))
      BY <3>3, SubsetCardinality
    <3> QED
      BY <1>1, <2>2, <3>2, <3>4
  <2> QED
    BY <2>3, <2>4 DEF IsConflict
<1>3. ASSUME NEW F \in feasible PROVE lbCost + 1 <= Cardinality(F)
  <2>1. /\ Cardinality(F \cap (activeSoft \cup C)) \in Nat /\ Cardinality(F) \in Nat
        /\ Cardinality(F \cap (activeSoft \cup C)) <= Cardinality(F)
    BY <1>1, ModelsTyped
  <2> QED
    BY <1>1, <1>2, <2>1
<1> QED
  BY <1>2, <1>3

LEMMA ConflictRaises ==
  ASSUME Inv, status = "searching", nbSatisfiable > 0,
         NEW C \in SUBSET assumptions.soft, NEW k \in BOOLEAN,
         IsConflict(feasible, assumptions, C, k)
  PROVE  /\ C \in SUBSET Soft
         /\ \A F \in feasible : lbCost + 1 <= Cardinality(F \cap (activeSoft \cup C))
         /\ \A F \in feasible : lbCost + 1 <= Cardinality(F)
<1>1. /\ TypeOK /\ activeSoft \in SUBSET Soft
      /\ assumptions = Assume(Soft \ activeSoft, encoder)
      /\ \A F \in feasible : lbCost <= Cardinality(F \cap activeSoft)
  BY DEF Inv, TypeOK, AfterModel, RelaxedBound
<1>2. C \in SUBSET Soft /\ C \cap activeSoft = {}
  BY <1>1 DEF Assume
<1>3. assumptions.lits # {} => assumptions.lits = activeSoft /\ assumptions.rhs = lbCost
  BY <1>1 DEF Inv, AfterModel, EncoderInSync, NewEncoder, Assume
<1> QED
  BY <1>1, <1>2, <1>3, CoreCounts

\* The encoder e allows n clauses of S to be falsified, or S has no more than n.
Allows(e, S, n) ==
  /\ e \in [card : BOOLEAN, lits : SUBSET Soft, rhs : Nat]
  /\ e.card \/ e = NewEncoder
  /\ IF e.card THEN e.lits = S /\ e.rhs = n ELSE Cardinality(S) = n

\* The encoding of a raised bound counts the clauses that are relaxed then.
LEMMA TightenedAllows ==
  ASSUME encoder \in [card : BOOLEAN, lits : SUBSET Soft, rhs : Nat],
         encoder.card \/ encoder = NewEncoder, encoder.card => encoder.lits = activeSoft,
         activeSoft \in SUBSET Soft, NEW C \in SUBSET Soft, NEW n \in Nat
  PROVE  Allows(Tightened(activeSoft \cup C, C, n), activeSoft \cup C, n)
<1> DEFINE relaxed == activeSoft \cup C
           e == Tightened(relaxed, C, n)
<1> SUFFICES Allows(e, relaxed, n)
  OBVIOUS
<1>1. CASE encoder.card \/ n # Cardinality(relaxed)
  <2>1. e = Encode(relaxed, n)
    BY <1>1 DEF Tightened, IncUpdate
  <2>2. e = [card |-> TRUE, lits |-> relaxed, rhs |-> n] /\ relaxed \in SUBSET Soft
    BY <2>1 DEF Encode
  <2> HIDE DEF relaxed, e
  <2>3. e.card = TRUE /\ e.lits = relaxed /\ e.rhs = n
    BY <2>2
  <2>4. [card |-> TRUE, lits |-> relaxed, rhs |-> n]
          \in [card : BOOLEAN, lits : SUBSET Soft, rhs : Nat]
    BY <2>2
  <2> QED
    BY <2>2, <2>3, <2>4 DEF Allows
<1>2. CASE ~ encoder.card /\ n = Cardinality(relaxed)
  <2>1. e = encoder
    BY <1>2 DEF Tightened
  <2> HIDE DEF relaxed, e
  <2> QED
    BY <1>2, <2>1 DEF Allows
<1> QED
  BY <1>1, <1>2

-----------------------------------------------------------------------------
(***************************************************************************)
(* One lemma per action.                                                   *)
(***************************************************************************)

\* A model found when every soft clause but the relaxed ones is assumed costs what
\* the bound says.
LEMMA SecondModel ==
  ASSUME Inv, status = "searching", nbSatisfiable > 0,
         NEW F \in feasible, Satisfies(F, assumptions)
  PROVE  Cardinality(F) = lbCost
<1>1. /\ TypeOK /\ lbCost \in Nat /\ activeSoft \in SUBSET Soft
      /\ assumptions = Assume(Soft \ activeSoft, encoder)
      /\ lbCost <= Cardinality(F)
  BY DEF Inv, TypeOK, AfterModel, LowerBoundSound
<1>2. F \in SUBSET Soft /\ Cardinality(F) \in Nat
  BY <1>1, ModelsTyped
<1>3. F \in SUBSET activeSoft
  BY <1>1, <1>2 DEF Satisfies, Assume
<1>4. CASE encoder.card
  <2>1. F \cap encoder.lits = F /\ encoder.rhs = lbCost
    BY <1>3, <1>4 DEF Inv, EncoderInSync
  <2> QED
    BY <1>1, <1>2, <2>1 DEF Satisfies, Assume
<1>5. CASE ~ encoder.card
  <2>1. Cardinality(activeSoft) = lbCost
    BY <1>5 DEF Inv, EncoderInSync
  <2>2. Cardinality(F) <= Cardinality(activeSoft)
    BY <1>1, <1>3, SubsetCardinality
  <2> QED
    BY <1>1, <1>2, <2>1, <2>2
<1> QED
  BY <1>4, <1>5

LEMMA SatInv ==
  ASSUME Inv, status = "searching", NEW F \in feasible, Sat(F)
  PROVE  Inv'
<1>1. TypeOK /\ F \in SUBSET Soft /\ Cardinality(F) \in Nat /\ F # NULL
  BY ModelsTyped, FormulaAssumption DEF Inv
<1>2. /\ feasible' = feasible /\ activeSoft' = activeSoft /\ encoder' = encoder
      /\ lbCost' = lbCost /\ model' = F /\ ubCost' = Cardinality(F)
      /\ nbSatisfiable' = nbSatisfiable + 1 /\ nbSatisfiable \in Nat
      /\ encoder \in [card : BOOLEAN, lits : SUBSET Soft, rhs : Nat]
  BY <1>1 DEF Sat, TypeOK
<1>3. CASE nbSatisfiable = 0
  <2>1. /\ activeSoft = {} /\ lbCost = 0 /\ encoder = NewEncoder
        /\ assumptions' = Assume(Soft, encoder) /\ status' = "searching"
    BY <1>3 DEF Inv, BeforeModel, Sat
  <2>2. TypeOK'
    BY <1>1, <1>2, <2>1 DEF TypeOK, Assume
  <2>3. BeforeModel'
    BY <1>2, <1>3 DEF BeforeModel
  <2>4. AfterModel'
    <3>1. Assume(Soft, encoder)' = Assume(Soft \ activeSoft, encoder)'
      BY <1>2, <2>1
    <3>2. lbCost' < ubCost' \/ ubCost' = 0
      BY <1>1, <1>2, <2>1
    <3> QED
      BY <1>2, <2>1, <3>1, <3>2 DEF AfterModel
  <2>5. RelaxedBound' /\ LowerBoundSound'
    <3>1. activeSoft \in SUBSET Soft
      BY <2>1
    <3>2. \A G \in feasible : Cardinality(G) \in Nat /\ Cardinality(G \cap activeSoft) \in Nat
      BY <1>1, <3>1, ModelsTyped
    <3> QED
      BY <1>2, <2>1, <3>2 DEF RelaxedBound, LowerBoundSound
  <2>6. EncoderInSync'
    BY <1>2, <2>1, EmptyHasNone DEF EncoderInSync, NewEncoder
  <2>7. OptimumIsOptimal' /\ BoundsAgree' /\ RefutedOnlyIf'
    BY <2>1 DEF OptimumIsOptimal, BoundsAgree, RefutedOnlyIf
  <2> QED
    BY <2>2, <2>3, <2>4, <2>5, <2>6, <2>7 DEF Inv
<1>4. CASE nbSatisfiable # 0
  <2>1. nbSatisfiable > 0 /\ nbSatisfiable' > 0
    BY <1>2, <1>4
  <2>2. status' = "OPTIMUM" /\ assumptions' = assumptions
    BY <1>4 DEF Sat
  <2>3. Cardinality(F) = lbCost
    BY <2>1, SecondModel DEF Sat
  <2>4. TypeOK'
    BY <1>1, <1>2, <2>2 DEF TypeOK
  <2>5. LowerBoundSound'
    BY <1>2, <2>1 DEF Inv, LowerBoundSound
  <2>6. OptimumIsOptimal' /\ BoundsAgree'
    BY <1>2, <2>1, <2>3, <2>5 DEF OptimumIsOptimal, BoundsAgree, LowerBoundSound
  <2> QED
    BY <2>2, <2>4, <2>5, <2>6
       DEF Inv, BeforeModel, AfterModel, RelaxedBound, EncoderInSync, RefutedOnlyIf
<1> QED
  BY <1>3, <1>4

LEMMA HardUnsatisfiableInv ==
  ASSUME Inv, status = "searching", HardUnsatisfiable
  PROVE  Inv'
<1>1. feasible = {}
  BY DEF HardUnsatisfiable, Unsat, IsConflict
<1>2. feasible' = feasible /\ status' = "UNSATISFIABLE" /\ TypeOK'
  BY DEF HardUnsatisfiable, Unsat, Inv, TypeOK
<1> QED
  BY <1>1, <1>2 DEF Inv, BeforeModel, AfterModel, RelaxedBound, EncoderInSync,
                    LowerBoundSound, OptimumIsOptimal, BoundsAgree, RefutedOnlyIf

LEMMA BoundsMeetInv ==
  ASSUME Inv, status = "searching",
         NEW C \in SUBSET assumptions.soft, NEW k \in BOOLEAN, BoundsMeet(C, k)
  PROVE  Inv'
<1>1. /\ nbSatisfiable > 0 /\ status' = "OPTIMUM" /\ feasible' = feasible
      /\ lbCost' = lbCost + 1 /\ lbCost + 1 = ubCost
      /\ ubCost' = ubCost /\ model' = model /\ nbSatisfiable' = nbSatisfiable
  BY DEF BoundsMeet, Unsat
<1>2. \A F \in feasible : lbCost + 1 <= Cardinality(F)
  BY <1>1, ConflictRaises DEF BoundsMeet, Unsat
<1>3. model \in feasible /\ ubCost = Cardinality(model)
  BY <1>1 DEF Inv, AfterModel
<1>4. TypeOK'
  BY <1>1 DEF Inv, TypeOK, BoundsMeet
<1>5. LowerBoundSound'
  BY <1>1, <1>2 DEF LowerBoundSound
<1>6. OptimumIsOptimal' /\ BoundsAgree'
  BY <1>1, <1>2, <1>3 DEF OptimumIsOptimal, BoundsAgree
<1> QED
  BY <1>1, <1>4, <1>5, <1>6
     DEF Inv, BeforeModel, AfterModel, RelaxedBound, EncoderInSync, RefutedOnlyIf

LEMMA RelaxCoreInv ==
  ASSUME Inv, status = "searching",
         NEW C \in SUBSET assumptions.soft, NEW k \in BOOLEAN, RelaxCore(C, k)
  PROVE  Inv'
<1> DEFINE relaxed == activeSoft \cup C
           e == Tightened(relaxed, C, lbCost + 1)
<1>1. /\ nbSatisfiable > 0 /\ status' = "searching" /\ feasible' = feasible
      /\ lbCost' = lbCost + 1 /\ lbCost + 1 # ubCost
      /\ ubCost' = ubCost /\ model' = model /\ nbSatisfiable' = nbSatisfiable
      /\ activeSoft' = relaxed /\ encoder' = e
      /\ assumptions' = Assume(Soft \ relaxed, e)
  BY DEF RelaxCore, Unsat
<1>2. /\ C \in SUBSET Soft
      /\ \A F \in feasible : lbCost + 1 <= Cardinality(F \cap relaxed)
      /\ \A F \in feasible : lbCost + 1 <= Cardinality(F)
  BY <1>1, ConflictRaises DEF RelaxCore, Unsat
<1>3. /\ TypeOK /\ lbCost \in Nat /\ ubCost \in Nat /\ relaxed \in SUBSET Soft
      /\ encoder \in [card : BOOLEAN, lits : SUBSET Soft, rhs : Nat]
      /\ encoder.card \/ encoder = NewEncoder
      /\ model \in feasible /\ ubCost = Cardinality(model)
      /\ encoder.card => encoder.lits = activeSoft
  BY <1>1, <1>2 DEF Inv, TypeOK, AfterModel, EncoderInSync
<1>4. /\ e \in [card : BOOLEAN, lits : SUBSET Soft, rhs : Nat]
      /\ e.card \/ e = NewEncoder
      /\ IF e.card THEN e.lits = relaxed /\ e.rhs = lbCost + 1
         ELSE Cardinality(relaxed) = lbCost + 1
  <2>1. activeSoft \in SUBSET Soft /\ lbCost + 1 \in Nat
    BY <1>3 DEF TypeOK
  <2>3. /\ encoder \in [card : BOOLEAN, lits : SUBSET Soft, rhs : Nat]
        /\ encoder.card \/ encoder = NewEncoder
        /\ encoder.card => encoder.lits = activeSoft
        /\ C \in SUBSET Soft
    BY <1>2, <1>3
  <2>4. Allows(e, relaxed, lbCost + 1)
    BY <2>1, <2>3, TightenedAllows
  <2> HIDE DEF e, relaxed
  <2> QED
    BY <2>4 DEF Allows
<1> HIDE DEF e
<1>5. TypeOK'
  <2>1. Assume(Soft \ relaxed, e) \in [soft : SUBSET Soft, lits : SUBSET Soft, rhs : Nat]
    BY <1>4 DEF Assume
  <2>2. /\ feasible' \in Instances /\ model' \in (SUBSET Soft) \cup {NULL}
        /\ ubCost' \in Nat /\ nbSatisfiable' \in Nat
    BY <1>1, <1>3 DEF TypeOK
  <2>3. lbCost' \in Nat
    BY <1>1, <1>3
  <2>4. activeSoft' \in SUBSET Soft
    BY <1>1, <1>3
  <2> QED
    BY <1>1, <1>4, <2>1, <2>2, <2>3, <2>4 DEF TypeOK
<1>6. AfterModel'
  <2>1. lbCost + 1 <= ubCost
    BY <1>2, <1>3
  <2>2. lbCost' < ubCost'
    BY <1>1, <1>3, <2>1
  <2>3. Assume(Soft \ relaxed, e) = Assume(Soft \ activeSoft, encoder)'
    BY <1>1 DEF Assume
  <2> QED
    BY <1>1, <1>3, <1>4, <2>2, <2>3 DEF AfterModel
<1>7. RelaxedBound' /\ LowerBoundSound'
  BY <1>1, <1>2 DEF RelaxedBound, LowerBoundSound
<1>8. EncoderInSync'
  BY <1>1, <1>4 DEF EncoderInSync
<1>9. BeforeModel' /\ OptimumIsOptimal' /\ BoundsAgree' /\ RefutedOnlyIf'
  BY <1>1, <1>3 DEF BeforeModel, OptimumIsOptimal, BoundsAgree, RefutedOnlyIf, TypeOK
<1> QED
  BY <1>5, <1>6, <1>7, <1>8, <1>9 DEF Inv

LEMMA NextInv == Inv /\ [Next]_vars => Inv'
<1> SUFFICES ASSUME Inv, [Next]_vars PROVE Inv'
  OBVIOUS
<1>1. CASE UNCHANGED vars
  BY <1>1 DEF vars, Inv, TypeOK, BeforeModel, AfterModel, RelaxedBound, EncoderInSync,
              LowerBoundSound, OptimumIsOptimal, BoundsAgree, RefutedOnlyIf
<1>2. ASSUME NEW F \in feasible, Sat(F), status = "searching" PROVE Inv'
  BY <1>2, SatInv
<1>3. ASSUME HardUnsatisfiable, status = "searching" PROVE Inv'
  BY <1>3, HardUnsatisfiableInv
<1>4. ASSUME NEW C \in SUBSET assumptions.soft, NEW k \in BOOLEAN, status = "searching",
             BoundsMeet(C, k)
      PROVE  Inv'
  BY <1>4, BoundsMeetInv
<1>5. ASSUME NEW C \in SUBSET assumptions.soft, NEW k \in BOOLEAN, status = "searching",
             RelaxCore(C, k)
      PROVE  Inv'
  BY <1>5, RelaxCoreInv
<1> QED
  BY <1>1, <1>2, <1>3, <1>4, <1>5 DEF Next

-----------------------------------------------------------------------------
(***************************************************************************)
(* The theorems.                                                           *)
(***************************************************************************)

THEOREM Invariance == Spec => []Inv
  BY InitInv, NextInv, PTL DEF Spec

\* The variables of MSU3_iterative keep their types (Alg_MSU3.cc:57-186).
THEOREM TypeCorrect == Spec => []TypeOK
<1>1. Inv => TypeOK
  BY DEF Inv
<1> QED
  BY <1>1, Invariance, PTL

\* The totalizer counts exactly the relaxed clauses, up to the bound.
THEOREM EncoderStaysInSync == Spec => []EncoderInSync
<1>1. Inv => EncoderInSync
  BY DEF Inv
<1> QED
  BY <1>1, Invariance, PTL

\* lbCost never exceeds the cost of a model.
THEOREM LowerBoundIsSound == Spec => []LowerBoundSound
<1>1. Inv => LowerBoundSound
  BY DEF Inv
<1> QED
  BY <1>1, Invariance, PTL

\* OPTIMUM is answered with a model of minimum cost, equal to both bounds.
THEOREM AnswersOptimum == Spec => [](OptimumIsOptimal /\ BoundsAgree)
<1>1. Inv => OptimumIsOptimal /\ BoundsAgree
  BY DEF Inv
<1> QED
  BY <1>1, Invariance, PTL

\* The instance of the search counts as this module does.
LEMMA SameCardinality == \A S : Search!Cardinality(S) = Cardinality(S)
  BY Zenon DEF Search!Cardinality, Cardinality

\* A step of MSU3 is a step of the MaxSAT search: a first model improves, a core raises
\* the bound, and the steps that answer conclude or refute.
LEMMA StepImplements ==
  ASSUME Inv, [Next]_vars
  PROVE  [Search!Next]_(Search!vars)
<1> DEFINE lower == IF nbSatisfiable = 0 THEN 0 ELSE lbCost
<1> USE DEF Search!IsLowerBound, Search!Cost, Search!Improves
<1>1. CASE UNCHANGED vars
  BY <1>1 DEF vars, Search!vars
<1>2. TypeOK /\ nbSatisfiable \in Nat /\ lbCost \in Nat
  BY DEF Inv, TypeOK
<1>3. ASSUME status = "searching", NEW F \in feasible, Sat(F)
      PROVE  [Search!Next]_(Search!vars)
  <2>1. /\ F \in SUBSET Soft /\ Cardinality(F) \in Nat /\ model' = F /\ feasible' = feasible
        /\ lbCost' = lbCost /\ nbSatisfiable' = nbSatisfiable + 1
    BY <1>2, <1>3, ModelsTyped DEF Sat
  <2>2. CASE nbSatisfiable = 0
    <3>1. model = NULL /\ lbCost = 0 /\ status' = status
      BY <1>3, <2>2 DEF Inv, BeforeModel, Sat
    <3>2. lower' = lower
      BY <2>1, <2>2, <3>1
    <3>3. Search!Improve
      BY <1>3, <2>1, <3>1, <3>2 DEF Search!Improve
    <3> QED
      BY <3>3 DEF Search!Next
  <2>3. CASE nbSatisfiable # 0
    <3>1. /\ nbSatisfiable > 0 /\ status' = "OPTIMUM"
          /\ model \in feasible /\ Cardinality(model) = ubCost
          /\ lbCost < ubCost \/ ubCost = 0
          /\ \A G \in feasible : lbCost <= Cardinality(G)
      BY <1>2, <1>3, <2>3 DEF Inv, AfterModel, Sat, LowerBoundSound
    <3>2. Cardinality(F) = lbCost
      BY <1>3, <3>1, SecondModel DEF Sat
    <3>3. lower' = lower /\ lower = lbCost
      BY <1>2, <2>1, <2>3
    <3>4. F = model \/ Cardinality(F) < Cardinality(model)
      <4>1. CASE ubCost = 0
        <5>1. model \in SUBSET Soft /\ Cardinality(F) <= 0
          BY <1>2, <3>1, <3>2, <4>1, ModelsTyped
        <5>2. model = {} /\ F = {}
          BY <2>1, <3>1, <4>1, <5>1, NoneIsEmpty
        <5> QED
          BY <5>2
      <4>2. CASE lbCost < ubCost
        BY <3>1, <3>2, <4>2
      <4> QED
        BY <3>1, <4>1, <4>2
    <3>5. Search!Conclude
      BY SameCardinality, <1>3, <2>1, <3>1, <3>2, <3>3, <3>4 DEF Search!Conclude
    <3> QED
      BY <3>5 DEF Search!Next
  <2> QED
    BY <2>2, <2>3
<1>4. ASSUME status = "searching", HardUnsatisfiable
      PROVE  [Search!Next]_(Search!vars)
  <2>1. feasible = {} /\ feasible' = {} /\ model' = model /\ status' = "UNSATISFIABLE"
    BY <1>4 DEF HardUnsatisfiable, Unsat, IsConflict
  <2>2. nbSatisfiable = 0
    BY <1>2, <1>4, <2>1 DEF Inv, AfterModel
  <2>3. lower' = lower
    BY <1>4, <2>2 DEF HardUnsatisfiable, Unsat
  <2>4. Search!Refute
    BY <1>4, <2>1, <2>3 DEF Search!Refute
  <2> QED
    BY <2>4 DEF Search!Next
<1>5. ASSUME status = "searching", NEW C \in SUBSET assumptions.soft, NEW k \in BOOLEAN,
             nbSatisfiable > 0, Unsat(C, k)
      PROVE  /\ feasible' = feasible /\ model' = model /\ lower' = lower + 1
             /\ lower = lbCost /\ model \in feasible /\ model # NULL
             /\ \A F \in feasible : lower + 1 <= Cardinality(F)
             /\ Cardinality(model) = ubCost
  <2>1. feasible' = feasible /\ model' = model /\ lbCost' = lbCost + 1
        /\ nbSatisfiable' = nbSatisfiable
    BY <1>5 DEF Unsat
  <2>2. model \in feasible /\ Cardinality(model) = ubCost
    BY <1>5 DEF Inv, AfterModel
  <2>3. model # NULL
    BY <1>2, <2>2, ModelsTyped, FormulaAssumption
  <2>4. \A F \in feasible : lbCost + 1 <= Cardinality(F)
    BY <1>5, ConflictRaises DEF Unsat
  <2>5. lower = lbCost /\ lower' = lbCost'
    BY <1>2, <1>5, <2>1
  <2> QED
    BY <2>1, <2>2, <2>3, <2>4, <2>5
<1>6. ASSUME status = "searching", NEW C \in SUBSET assumptions.soft, NEW k \in BOOLEAN,
             BoundsMeet(C, k)
      PROVE  [Search!Next]_(Search!vars)
  <2>1. nbSatisfiable > 0 /\ Unsat(C, k) /\ status' = "OPTIMUM" /\ lbCost + 1 = ubCost
    BY <1>6 DEF BoundsMeet
  <2>2. /\ feasible' = feasible /\ model' = model /\ lower' = lower + 1
        /\ lower = lbCost /\ model \in feasible
        /\ \A F \in feasible : lower + 1 <= Cardinality(F)
        /\ Cardinality(model) = ubCost
    BY <1>5, <1>6, <2>1
  <2>3. Search!Conclude
    BY SameCardinality, <1>6, <2>1, <2>2 DEF Search!Conclude
  <2> QED
    BY <2>3 DEF Search!Next
<1>7. ASSUME status = "searching", NEW C \in SUBSET assumptions.soft, NEW k \in BOOLEAN,
             RelaxCore(C, k)
      PROVE  [Search!Next]_(Search!vars)
  <2>1. nbSatisfiable > 0 /\ Unsat(C, k) /\ status' = status
    BY <1>7 DEF RelaxCore
  <2>2. /\ feasible' = feasible /\ model' = model /\ lower' = lower + 1
        /\ model # NULL /\ \A F \in feasible : lower + 1 <= Cardinality(F)
    BY <1>5, <1>7, <2>1
  <2>3. Search!RaiseBound
    BY SameCardinality, <1>7, <2>1, <2>2 DEF Search!RaiseBound
  <2> QED
    BY <2>3 DEF Search!Next
<1> QED
  BY <1>1, <1>3, <1>4, <1>6, <1>7 DEF Next

\* MSU3 implements the promise of a MaxSAT search: its model only improves and its
\* bound only rises to what every model costs, up to an answer.
THEOREM Implements == Spec => ImplementsSearch
<1>1. Init => Search!Init
  BY DEF Init, Search!Init
<1>2. Inv /\ [Next]_vars => [Search!Next]_(Search!vars)
  BY StepImplements
<1> QED
  BY <1>1, <1>2, Invariance, PTL DEF Spec, ImplementsSearch, Search!Spec

-----------------------------------------------------------------------------
(***************************************************************************)
(* PartMSU3 with its sequential merge strategies: what the partitions that *)
(* were handed over hold.                                                  *)
(***************************************************************************)

\* The instance counts as this module does.
LEMMA SequentialCardinality == \A S : Sequential!Cardinality(S) = Cardinality(S)
  BY Zenon DEF Sequential!Cardinality, Cardinality

\* The soft clauses that are in some partition.
Covered == UNION {parts[i] : i \in DOMAIN parts}

\* part_index is within bounds.
PositionOK ==
  /\ sorted \in BOOLEAN /\ parts \in Partitions /\ addUnitParts \in BOOLEAN
  /\ partIndex \in 1 .. Len(parts) + 1

\* Unit partitions passed over are set aside, and handed over together at the end.
UnitsAside ==
  IF sorted THEN unitParts = {} /\ ~ addUnitParts
  ELSE /\ unitParts =
             UNION {parts[i] : i \in {j \in 1 .. partIndex - 1 : Sequential!Unit(parts[j])}}
       /\ addUnitParts => partIndex = Len(parts) + 1

\* Before the first model nothing is handed over, relaxed or bounded.
BeforeHandOver ==
  status = "searching" /\ nbSatisfiable = 0 =>
    /\ activeSoft = {} /\ lbCost = 0 /\ model = NULL
    /\ encoder = NewEncoder /\ assumptions = Assume({}, NewEncoder)
    /\ partIndex = 1 /\ ~ addUnitParts

AfterHandOver ==
  status = "searching" /\ nbSatisfiable > 0 =>
    /\ encoder.card \/ encoder = NewEncoder
    /\ model \in feasible /\ ubCost = Cardinality(model)

\* The inductive invariant of the sequential strategies.
SequentialInv ==
  /\ TypeOK /\ PositionOK /\ UnitsAside /\ BeforeHandOver /\ AfterHandOver
  /\ RelaxedBound /\ Sequential!NothingDropped /\ LowerBoundSound
  /\ OptimumIsOptimal /\ RefutedOnlyIf

\* What the assumption says of the partitions in use.
LEMMA PartsTyped ==
  ASSUME TypeOK, PositionOK
  PROVE  /\ Len(parts) \in Nat /\ DOMAIN parts = 1 .. Len(parts)
         /\ \A i \in DOMAIN parts : /\ parts[i] \in SUBSET Soft
                                    /\ Cardinality(parts[i]) \in Nat
                                    /\ Cardinality(parts[i]) = 0 => parts[i] = {}
         /\ \A i, j \in DOMAIN parts : i # j => parts[i] \cap parts[j] = {}
         /\ \A F, G \in feasible : F \ Covered = G \ Covered
<1>1. parts \in Seq(SUBSET Soft)
  BY PartitionsAssumption DEF PositionOK
<1>2. Len(parts) \in Nat /\ DOMAIN parts = 1 .. Len(parts)
  BY <1>1
<1>3. ASSUME NEW i \in DOMAIN parts
      PROVE  /\ parts[i] \in SUBSET Soft
             /\ Cardinality(parts[i]) \in Nat
             /\ Cardinality(parts[i]) = 0 => parts[i] = {}
  <2>1. parts[i] \in SUBSET Soft
    BY <1>1, <1>3
  <2> QED
    BY <2>1, SubsetCardinality, NoneIsEmpty
<1>4. \A i, j \in DOMAIN parts : i # j => parts[i] \cap parts[j] = {}
  BY PartitionsAssumption DEF PositionOK
<1>5. \A F, G \in feasible : F \ Covered = G \ Covered
  BY PartitionsAssumption DEF PositionOK, TypeOK, Covered
<1> QED
  BY <1>2, <1>3, <1>4, <1>5

\* Partition i is handed over by itself.
Large(i) == sorted \/ Cardinality(parts[i]) > 1

\* A set is counted in two parts.
LEMMA SplitCardinality ==
  ASSUME NEW F \in SUBSET Soft, NEW D \in SUBSET Soft
  PROVE  Cardinality(F) = Cardinality(F \cap D) + Cardinality(F \ D)
<1> DEFINE A == F \cap D
           B == F \ D
<1>1. A \in SUBSET Soft /\ B \in SUBSET Soft /\ F = A \cup B /\ A \cap B = {}
  OBVIOUS
<1> HIDE DEF A, B
<1>2. IsFiniteSet(A) /\ IsFiniteSet(B) /\ Cardinality(A) \in Nat /\ Cardinality(B) \in Nat
  BY <1>1, SubsetCardinality
<1>3. Cardinality(A \cup B) = Cardinality(A) + Cardinality(B) - Cardinality(A \cap B)
  BY <1>2, FS_Union
<1>4. Cardinality(A \cap B) = 0
  BY <1>1, EmptyHasNone
<1>5. Cardinality(A \cup B) = Cardinality(A) + Cardinality(B)
  BY <1>2, <1>3, <1>4
<1>6. Cardinality(F) = Cardinality(A) + Cardinality(B)
  BY <1>1, <1>5
<1> QED
  BY <1>6 DEF A, B

\* What was handed over: the partitions passed that are not set aside, and those that
\* were, once they are added.
InUseExact ==
  \A x : x \in Sequential!InUse <=>
           \/ \E i \in 1 .. partIndex - 1 : Large(i) /\ x \in parts[i]
           \/ addUnitParts /\ x \in unitParts

\* What is in use was in a partition before part_index, or set aside and handed over.
LEMMA InUseIs == InUseExact
<1> DEFINE before == UNION {parts[i] : i \in {j \in 1 .. partIndex - 1 : Large(j)}}
<1>1. Sequential!InUse = before \cup (IF addUnitParts THEN unitParts ELSE {})
  BY SequentialCardinality DEF Sequential!InUse, Large
<1>2. \A x : x \in before <=> \E i \in 1 .. partIndex - 1 : Large(i) /\ x \in parts[i]
  OBVIOUS
<1> HIDE DEF before
<1> QED
  BY <1>1, <1>2 DEF InUseExact

\* The unit partitions passed over, elementwise.
LEMMA AsideIs ==
  ASSUME UnitsAside
  PROVE  \A x : x \in unitParts <=>
           /\ ~ sorted
           /\ \E i \in 1 .. partIndex - 1 : Cardinality(parts[i]) = 1 /\ x \in parts[i]
<1>1. CASE sorted
  BY <1>1 DEF UnitsAside
<1>2. CASE ~ sorted
  <2>1. unitParts = UNION {parts[i] : i \in {j \in 1 .. partIndex - 1 :
                                             Cardinality(parts[j]) = 1}}
    BY <1>2, SequentialCardinality DEF UnitsAside, Sequential!Unit
  <2> QED
    BY <1>2, <2>1
<1> QED
  BY <1>1, <1>2

-----------------------------------------------------------------------------
\* What every model does.
Saved(F) ==
  /\ Satisfies(F, assumptions)
  /\ nbSatisfiable' = nbSatisfiable + 1
  /\ IF nbSatisfiable = 0 \/ Cardinality(F) < ubCost
       THEN model' = F /\ ubCost' = Cardinality(F)
       ELSE model' = model /\ ubCost' = ubCost
  /\ feasible' = feasible /\ activeSoft' = activeSoft /\ encoder' = encoder
  /\ lbCost' = lbCost /\ sorted' = sorted /\ parts' = parts

\* What a model that is not the last does: soft clauses that were not in use are
\* assumed, and are in use afterwards.
HandsOver(S) ==
  /\ S \in SUBSET Soft /\ S \cap Sequential!InUse = {}
  /\ \A x : (x \in Sequential!InUse)' <=> x \in Sequential!InUse \/ x \in S
  /\ assumptions' = [assumptions EXCEPT !.soft = @ \cup S]
  /\ status' = status
  /\ PositionOK' /\ UnitsAside'

\* What the code does with a model, whatever it hands over next.
LEMMA SatSaves ==
  ASSUME NEW F, Sequential!Sat(F)
  PROVE  Saved(F)
<1>1. Satisfies(F, assumptions)
  BY SequentialCardinality DEF Sequential!Sat, Sequential!Satisfies, Satisfies
<1> QED
  BY <1>1, SequentialCardinality DEF Sequential!Sat, Sequential!core, Saved

\* The next large partition: those passed over on the way to it are units or empty.
LEMMA NextLargeHandsOver ==
  ASSUME SequentialInv, NEW F, Sequential!NextLarge(F)
  PROVE  \E S : HandsOver(S)
<1>1. PositionOK /\ UnitsAside /\ TypeOK
  BY DEF SequentialInv
<1> DEFINE left == {i \in partIndex .. Len(parts) : Cardinality(parts[i]) > 1}
           n == CHOOSE i \in left : \A j \in left : i <= j
<1>2. /\ ~ sorted /\ left # {} /\ Sequential!LargeLeft = left
      /\ unitParts' = unitParts \cup Sequential!UnitsBefore(n)
      /\ assumptions' = [assumptions EXCEPT !.soft = @ \cup parts[n]]
      /\ status' = status
      /\ partIndex' = n + 1 /\ addUnitParts' = addUnitParts
      /\ sorted' = sorted /\ parts' = parts
  BY SequentialCardinality
     DEF Sequential!NextLarge, Sequential!LargeLeft, Sequential!HandOver, Sequential!Sat
<1>3. /\ Len(parts) \in Nat /\ DOMAIN parts = 1 .. Len(parts) /\ partIndex \in 1 .. Len(parts) + 1
      /\ \A i \in DOMAIN parts : parts[i] \in SUBSET Soft /\ Cardinality(parts[i]) \in Nat
      /\ \A i, j \in DOMAIN parts : i # j => parts[i] \cap parts[j] = {}
  BY <1>1, PartsTyped DEF PositionOK
<1>4. n \in left /\ \A j \in left : n <= j
  <2>1. left \in SUBSET Nat
    BY <1>3
  <2>2. \E i \in left : \A j \in left : i <= j
    BY <1>2, <2>1, Smallest
  <2> QED
    BY <2>2
<1> HIDE DEF n
<1>5. n \in 1 .. Len(parts) /\ partIndex <= n /\ Cardinality(parts[n]) > 1
  BY <1>3, <1>4
<1>6. \A i \in partIndex .. n - 1 : i \in DOMAIN parts /\ ~ (Cardinality(parts[i]) > 1)
  BY <1>3, <1>4, <1>5
<1>7. ~ addUnitParts
  BY <1>1, <1>2, <1>3, <1>5 DEF UnitsAside
<1>8. PositionOK'
  <2>1. n + 1 \in 1 .. Len(parts) + 1
    BY <1>3, <1>5
  <2> QED
    BY <1>1, <1>2, <2>1 DEF PositionOK
<1>9. UnitsAside'
  <2> DEFINE U(k, m) == UNION {parts[i] : i \in {j \in k .. m : Sequential!Unit(parts[j])}}
  <2>1. unitParts = U(1, partIndex - 1)
        /\ Sequential!UnitsBefore(n) = U(partIndex, n - 1)
    BY <1>1, <1>2 DEF UnitsAside, Sequential!UnitsBefore
  <2>2. ~ Sequential!Unit(parts[n])
    BY <1>3, <1>5, SequentialCardinality DEF Sequential!Unit
  <2>3. \A j : j \in 1 .. n /\ j # n <=> j \in 1 .. partIndex - 1 \/ j \in partIndex .. n - 1
    BY <1>3, <1>5
  <2>4. U(1, n) = U(1, partIndex - 1) \cup U(partIndex, n - 1)
    BY <2>2, <2>3
  <2>5. n + 1 - 1 = n
    BY <1>5
  <2>6. unitParts' = U(1, n)
    BY <1>2, <2>1, <2>4
  <2>7. unitParts' = UNION {parts'[i] : i \in {j \in 1 .. partIndex' - 1 :
                                                Sequential!Unit(parts'[j])}}
    <3>1. partIndex' - 1 = n /\ parts' = parts
      BY <1>2, <1>5, <2>5
    <3> QED
      BY <2>6, <3>1
  <2> QED
    BY <1>2, <1>7, <2>7 DEF UnitsAside, Sequential!Unit
<1>10. \A x : (x \in Sequential!InUse)' <=> x \in Sequential!InUse \/ x \in parts[n]
  <2>1. \A x : (x \in Sequential!InUse)' <=>
           \/ \E i \in 1 .. partIndex' - 1 : Large(i)' /\ x \in parts'[i]
           \/ addUnitParts' /\ x \in unitParts'
    <3>1. InUseExact'
      BY InUseIs, PTL
    <3> QED
      BY <3>1 DEF InUseExact
  <2>2. \A i \in 1 .. n : Large(i)' <=> Large(i)
    BY <1>2 DEF Large
  <2>3. \A i \in partIndex .. n - 1 : ~ Large(i)
    BY <1>2, <1>6 DEF Large
  <2>4. partIndex' - 1 = n /\ Large(n)
    BY <1>2, <1>5 DEF Large
  <2>5. \A i : i \in 1 .. n <=> i \in 1 .. partIndex - 1 \/ i \in partIndex .. n - 1 \/ i = n
    BY <1>3, <1>5
  <2> QED
    BY <1>2, <1>7, <2>1, <2>2, <2>3, <2>4, <2>5, InUseIs DEF InUseExact
<1>11. parts[n] \cap Sequential!InUse = {}
  <2>1. \A i \in 1 .. partIndex - 1 : i \in DOMAIN parts /\ i # n
    BY <1>3, <1>5
  <2> QED
    BY <1>3, <1>5, <1>7, <2>1, InUseIs DEF InUseExact
<1> QED
  BY <1>2, <1>3, <1>5, <1>8, <1>9, <1>10, <1>11 DEF HandsOver

\* What is in use after a step, elementwise.
LEMMA InUseNext ==
  \A x : (x \in Sequential!InUse)' <=>
           \/ \E i \in 1 .. partIndex' - 1 : Large(i)' /\ x \in parts'[i]
           \/ addUnitParts' /\ x \in unitParts'
<1>1. InUseExact'
  BY InUseIs, PTL
<1> QED
  BY <1>1 DEF InUseExact

\* All unit partitions together: those passed over before, and those behind the last
\* large one.
LEMMA UnitsTogetherHandsOver ==
  ASSUME SequentialInv, NEW F, Sequential!UnitsTogether(F)
  PROVE  \E S : HandsOver(S)
<1>1. PositionOK /\ UnitsAside /\ TypeOK
  BY DEF SequentialInv
<1> DEFINE left == {i \in partIndex .. Len(parts) : Cardinality(parts[i]) > 1}
<1>2. /\ ~ sorted /\ left = {} /\ ~ addUnitParts
      /\ unitParts' = unitParts \cup Sequential!UnitsBefore(Len(parts) + 1)
      /\ assumptions' = [assumptions EXCEPT !.soft = @ \cup unitParts']
      /\ status' = status
      /\ partIndex' = Len(parts) + 1 /\ addUnitParts' = TRUE
      /\ sorted' = sorted /\ parts' = parts
  BY SequentialCardinality
     DEF Sequential!UnitsTogether, Sequential!LargeLeft, Sequential!HandOver, Sequential!Sat
<1>3. /\ Len(parts) \in Nat /\ DOMAIN parts = 1 .. Len(parts) /\ partIndex \in 1 .. Len(parts) + 1
      /\ \A i \in DOMAIN parts : parts[i] \in SUBSET Soft /\ Cardinality(parts[i]) \in Nat
      /\ \A i, j \in DOMAIN parts : i # j => parts[i] \cap parts[j] = {}
  BY <1>1, PartsTyped DEF PositionOK
<1>4. Len(parts) + 1 - 1 = Len(parts) /\ Len(parts) + 1 \in 1 .. Len(parts) + 1
  BY <1>3
<1>5. PositionOK'
  BY <1>1, <1>2, <1>4 DEF PositionOK
<1> DEFINE U(k, m) == UNION {parts[i] : i \in {j \in k .. m : Sequential!Unit(parts[j])}}
<1>6. unitParts' = U(1, Len(parts))
  <2>1. unitParts = U(1, partIndex - 1)
        /\ Sequential!UnitsBefore(Len(parts) + 1) = U(partIndex, Len(parts))
    BY <1>1, <1>2, <1>4 DEF UnitsAside, Sequential!UnitsBefore
  <2>2. \A j : j \in 1 .. Len(parts) <=> j \in 1 .. partIndex - 1 \/ j \in partIndex .. Len(parts)
    BY <1>3
  <2>3. U(1, Len(parts)) = U(1, partIndex - 1) \cup U(partIndex, Len(parts))
    BY <2>2
  <2> QED
    BY <1>2, <2>1, <2>3
<1>7. UnitsAside'
  <2>1. unitParts' = UNION {parts'[i] : i \in {j \in 1 .. partIndex' - 1 :
                                                Sequential!Unit(parts'[j])}}
    BY <1>2, <1>4, <1>6
  <2> QED
    BY <1>2, <2>1 DEF UnitsAside, Sequential!Unit
<1>8. \A x : x \in unitParts' <=>
          \E i \in 1 .. Len(parts) : Cardinality(parts[i]) = 1 /\ x \in parts[i]
  BY <1>6, SequentialCardinality DEF Sequential!Unit
<1>9. \A x : (x \in Sequential!InUse)' <=> x \in Sequential!InUse \/ x \in unitParts'
  <2>1. \A i \in 1 .. Len(parts) : Large(i)' <=> Large(i)
    BY <1>2 DEF Large
  <2>2. \A i \in partIndex .. Len(parts) : ~ Large(i)
    BY <1>2 DEF Large
  <2>3. \A i : i \in 1 .. Len(parts) <=> i \in 1 .. partIndex - 1 \/ i \in partIndex .. Len(parts)
    BY <1>3
  <2>4. partIndex' - 1 = Len(parts)
    BY <1>2, <1>4
  <2> QED
    BY <1>2, <2>1, <2>2, <2>3, <2>4, InUseIs, InUseNext DEF InUseExact
<1>10. unitParts' \cap Sequential!InUse = {}
  <2>1. \A i \in 1 .. partIndex - 1 : i \in DOMAIN parts
    BY <1>3
  <2>2. \A i \in DOMAIN parts : Large(i) => Cardinality(parts[i]) # 1
    BY <1>2, <1>3 DEF Large
  <2>3. ASSUME NEW x, x \in unitParts', x \in Sequential!InUse
        PROVE  FALSE
    <3>1. PICK i \in DOMAIN parts : Cardinality(parts[i]) = 1 /\ x \in parts[i]
      BY <1>3, <1>8, <2>3
    <3>2. PICK j \in DOMAIN parts : Cardinality(parts[j]) # 1 /\ x \in parts[j]
      BY <1>2, <2>1, <2>2, <2>3, InUseIs DEF InUseExact
    <3> QED
      BY <1>3, <3>1, <3>2
  <2> QED
    BY <2>3
<1>11. unitParts' \in SUBSET Soft
  BY <1>3, <1>8
<1> QED
  BY <1>2, <1>5, <1>7, <1>9, <1>10, <1>11 DEF HandsOver

\* The next partition of the sorted order, or all that are left.
LEMMA NextSortedHandsOver ==
  ASSUME SequentialInv, NEW F, Sequential!NextSorted(F)
  PROVE  \E S : HandsOver(S)
<1>1. PositionOK /\ UnitsAside /\ TypeOK
  BY DEF SequentialInv
<1> DEFINE last == IF Sequential!Unit(parts[partIndex]) THEN Len(parts) ELSE partIndex
           S == UNION {parts[i] : i \in partIndex .. last}
<1>2. /\ sorted /\ partIndex <= Len(parts)
      /\ assumptions' = [assumptions EXCEPT !.soft = @ \cup S]
      /\ status' = status /\ partIndex' = last + 1
      /\ unitParts' = unitParts /\ addUnitParts' = addUnitParts
      /\ sorted' = sorted /\ parts' = parts
  BY DEF Sequential!NextSorted, Sequential!HandOver, Sequential!Sat
<1>3. /\ Len(parts) \in Nat /\ DOMAIN parts = 1 .. Len(parts) /\ partIndex \in 1 .. Len(parts) + 1
      /\ \A i \in DOMAIN parts : parts[i] \in SUBSET Soft
      /\ \A i, j \in DOMAIN parts : i # j => parts[i] \cap parts[j] = {}
  BY <1>1, PartsTyped DEF PositionOK
<1>4. last \in 1 .. Len(parts) /\ partIndex <= last
  BY <1>2, <1>3
<1> HIDE DEF last
<1>5. last + 1 - 1 = last /\ last + 1 \in 1 .. Len(parts) + 1
  BY <1>3, <1>4
<1>6. PositionOK'
  BY <1>1, <1>2, <1>5 DEF PositionOK
<1>7. UnitsAside'
  BY <1>1, <1>2 DEF UnitsAside
<1>8. \A x : x \in S <=> \E i \in partIndex .. last : x \in parts[i]
  OBVIOUS
<1> HIDE DEF S
<1>9. ~ addUnitParts /\ ~ addUnitParts' /\ (\A i : Large(i)) /\ (\A i : Large(i)')
  BY <1>1, <1>2 DEF UnitsAside, Large
<1>10. \A i : i \in 1 .. last <=> i \in 1 .. partIndex - 1 \/ i \in partIndex .. last
  BY <1>3, <1>4
<1>11. \A x : (x \in Sequential!InUse)' <=> x \in Sequential!InUse \/ x \in S
  <2>1. partIndex' - 1 = last /\ parts' = parts
    BY <1>2, <1>3, <1>4
  <2>2. \A x : (x \in Sequential!InUse)' <=> \E i \in 1 .. last : x \in parts[i]
    BY <1>9, <2>1, InUseNext
  <2>3. \A x : x \in Sequential!InUse <=> \E i \in 1 .. partIndex - 1 : x \in parts[i]
    BY <1>9, InUseIs DEF InUseExact
  <2> QED
    BY <1>8, <1>10, <2>2, <2>3
<1>12. S \cap Sequential!InUse = {}
  <2>1. \A i \in partIndex .. last, j \in 1 .. partIndex - 1 :
          i \in DOMAIN parts /\ j \in DOMAIN parts /\ i # j
    BY <1>3, <1>4
  <2>2. \A x : x \in Sequential!InUse <=> \E i \in 1 .. partIndex - 1 : x \in parts[i]
    BY <1>9, InUseIs DEF InUseExact
  <2> QED
    BY <1>3, <1>8, <2>1, <2>2
<1>13. S \in SUBSET Soft
  <2>1. \A i \in partIndex .. last : i \in DOMAIN parts
    BY <1>3, <1>4
  <2> QED
    BY <1>3, <1>8, <2>1
<1> QED
  BY <1>2, <1>6, <1>7, <1>11, <1>12, <1>13 DEF HandsOver

-----------------------------------------------------------------------------
\* A model hands soft clauses over: they are assumed, and nothing that was assumed or
\* counted is dropped.
LEMMA HandOverInv ==
  ASSUME SequentialInv, status = "searching", NEW F \in feasible, Saved(F),
         NEW S, HandsOver(S)
  PROVE  SequentialInv'
<1>1. /\ TypeOK /\ F \in SUBSET Soft /\ Cardinality(F) \in Nat /\ nbSatisfiable \in Nat
      /\ assumptions \in [soft : SUBSET Soft, lits : SUBSET Soft, rhs : Nat]
  BY ModelsTyped DEF SequentialInv, TypeOK
<1>2. /\ feasible' = feasible /\ activeSoft' = activeSoft /\ encoder' = encoder
      /\ lbCost' = lbCost /\ nbSatisfiable' = nbSatisfiable + 1 /\ nbSatisfiable' > 0
      /\ status' = "searching" /\ sorted' = sorted /\ parts' = parts
      /\ assumptions' = [assumptions EXCEPT !.soft = @ \cup S]
  BY <1>1 DEF Saved, HandsOver
<1>3. /\ nbSatisfiable = 0 => activeSoft = {} /\ lbCost = 0 /\ encoder = NewEncoder
      /\ nbSatisfiable # 0 => nbSatisfiable > 0
  BY <1>1 DEF SequentialInv, BeforeHandOver
<1>4. /\ assumptions' \in [soft : SUBSET Soft, lits : SUBSET Soft, rhs : Nat]
      /\ assumptions'.soft = assumptions.soft \cup S
      /\ assumptions'.lits = assumptions.lits /\ assumptions'.rhs = assumptions.rhs
  <2>1. S \in SUBSET Soft
    BY DEF HandsOver
  <2> QED
    BY <1>1, <1>2, <2>1
<1>5. TypeOK' /\ AfterHandOver'
  <2>1. /\ model' \in feasible /\ ubCost' = Cardinality(model')
        /\ encoder.card \/ encoder = NewEncoder
    <3>1. CASE nbSatisfiable = 0 \/ Cardinality(F) < ubCost
      BY <1>3, <3>1 DEF Saved, SequentialInv, AfterHandOver
    <3>2. CASE ~ (nbSatisfiable = 0 \/ Cardinality(F) < ubCost)
      BY <1>3, <3>2 DEF Saved, SequentialInv, AfterHandOver
    <3> QED
      BY <3>1, <3>2
  <2>2. model' \in SUBSET Soft /\ ubCost' \in Nat
    BY <1>1, <2>1, ModelsTyped
  <2>3. nbSatisfiable' \in Nat
    BY <1>1, <1>2
  <2>4. TypeOK'
    BY <1>1, <1>2, <1>4, <2>2, <2>3 DEF TypeOK
  <2> QED
    BY <1>2, <2>1, <2>4 DEF AfterHandOver
<1>6. PositionOK' /\ UnitsAside'
  BY DEF HandsOver
<1>7. BeforeHandOver'
  BY <1>1, <1>2 DEF BeforeHandOver
<1>8. RelaxedBound' /\ LowerBoundSound'
  <2>1. \A G \in feasible : lbCost <= Cardinality(G \cap activeSoft) /\ lbCost <= Cardinality(G)
    <3>1. CASE nbSatisfiable = 0
      <4>1. \A G \in feasible : Cardinality(G \cap activeSoft) \in Nat /\ Cardinality(G) \in Nat
        BY <1>1, ModelsTyped DEF TypeOK
      <4> QED
        BY <1>3, <3>1, <4>1
    <3>2. CASE nbSatisfiable # 0
      BY <1>3, <3>2 DEF SequentialInv, RelaxedBound, LowerBoundSound
    <3> QED
      BY <3>1, <3>2
  <2> QED
    BY <1>2, <2>1 DEF RelaxedBound, LowerBoundSound
<1>9. Sequential!NothingDropped'
  <2>1. /\ assumptions.soft = Sequential!InUse \ activeSoft
        /\ activeSoft \subseteq Sequential!InUse
        /\ IF encoder.card
             THEN encoder.lits = activeSoft /\ encoder.rhs = lbCost
             ELSE Cardinality(activeSoft) = lbCost
        /\ encoder.lits = assumptions.lits /\ encoder.rhs = assumptions.rhs
    BY SequentialCardinality DEF SequentialInv, Sequential!NothingDropped
  <2>2. /\ S \cap Sequential!InUse = {}
        /\ \A x : (x \in Sequential!InUse)' <=> x \in Sequential!InUse \/ x \in S
    BY DEF HandsOver
  <2>3. /\ assumptions'.soft = Sequential!InUse' \ activeSoft
        /\ activeSoft \subseteq Sequential!InUse'
    BY <1>4, <2>1, <2>2
  <2> QED
    BY <1>2, <1>4, <2>1, <2>3, SequentialCardinality DEF Sequential!NothingDropped
<1>10. OptimumIsOptimal' /\ RefutedOnlyIf'
  BY <1>2 DEF OptimumIsOptimal, RefutedOnlyIf
<1> QED
  BY <1>5, <1>6, <1>7, <1>8, <1>9, <1>10 DEF SequentialInv

\* When nothing is left to hand over, every partition is in use.
LEMMA AllInUse ==
  ASSUME SequentialInv, NEW F, Sequential!AllSolved(F)
  PROVE  \A x : x \in Sequential!InUse <=> x \in Covered
<1>1. PositionOK /\ UnitsAside /\ TypeOK
  BY DEF SequentialInv
<1>2. IF sorted THEN partIndex > Len(parts)
      ELSE {i \in partIndex .. Len(parts) : Cardinality(parts[i]) > 1} = {} /\ addUnitParts
  BY SequentialCardinality DEF Sequential!AllSolved, Sequential!LargeLeft
<1>3. /\ Len(parts) \in Nat /\ DOMAIN parts = 1 .. Len(parts) /\ partIndex \in 1 .. Len(parts) + 1
      /\ \A i \in DOMAIN parts : /\ Cardinality(parts[i]) \in Nat
                                 /\ Cardinality(parts[i]) = 0 => parts[i] = {}
  BY <1>1, PartsTyped DEF PositionOK
<1>4. partIndex = Len(parts) + 1
  BY <1>1, <1>2, <1>3 DEF UnitsAside
<1>5. 1 .. partIndex - 1 = DOMAIN parts
  BY <1>3, <1>4
<1>6. \A x : x \in Covered <=> \E i \in DOMAIN parts : x \in parts[i]
  BY DEF Covered
<1>7. \A x : x \in Sequential!InUse <=>
          \/ \E i \in DOMAIN parts : Large(i) /\ x \in parts[i]
          \/ addUnitParts /\ x \in unitParts
  BY <1>5, InUseIs DEF InUseExact
<1>8. CASE sorted
  BY <1>1, <1>6, <1>7, <1>8 DEF UnitsAside, Large
<1>9. CASE ~ sorted
  <2>1. \A x : x \in unitParts <=>
          \E i \in DOMAIN parts : Cardinality(parts[i]) = 1 /\ x \in parts[i]
    BY <1>1, <1>5, <1>9, AsideIs
  <2>2. addUnitParts
    BY <1>2, <1>9
  <2>3. \A i \in DOMAIN parts : \A x : x \in parts[i] => Large(i) \/ Cardinality(parts[i]) = 1
    <3>1. ASSUME NEW i \in DOMAIN parts, NEW x, x \in parts[i]
          PROVE  Cardinality(parts[i]) > 1 \/ Cardinality(parts[i]) = 1
      <4>1. Cardinality(parts[i]) # 0 /\ Cardinality(parts[i]) \in Nat
        BY <1>3, <3>1
      <4> QED
        BY <4>1
    <3> QED
      BY <3>1 DEF Large
  <2> QED
    BY <1>6, <1>7, <2>1, <2>2, <2>3
<1> QED
  BY <1>8, <1>9

\* The model of the last SAT call falsifies no more than the bound among the soft
\* clauses in use, and every model falsifies as many; outside the partitions all models
\* falsify the same.
LEMMA LastModelOptimal ==
  ASSUME SequentialInv, status = "searching", NEW F \in feasible, Sequential!AllSolved(F)
  PROVE  \A G \in feasible : Cardinality(F) <= Cardinality(G)
<1>1. /\ TypeOK /\ PositionOK /\ lbCost \in Nat /\ activeSoft \in SUBSET Soft
      /\ nbSatisfiable \in Nat /\ F \in SUBSET Soft
  BY ModelsTyped DEF SequentialInv, TypeOK
<1>2. /\ assumptions.soft = Sequential!InUse \ activeSoft
      /\ activeSoft \subseteq Sequential!InUse
      /\ IF encoder.card
           THEN encoder.lits = activeSoft /\ encoder.rhs = lbCost
           ELSE Cardinality(activeSoft) = lbCost
      /\ encoder.lits = assumptions.lits /\ encoder.rhs = assumptions.rhs
  BY SequentialCardinality DEF SequentialInv, Sequential!NothingDropped
<1>3. F \cap assumptions.soft = {} /\ Cardinality(F \cap assumptions.lits) <= assumptions.rhs
  <2>1. Sequential!Sat(F)
    BY DEF Sequential!AllSolved
  <2>2. Saved(F)
    BY <2>1, SatSaves
  <2> QED
    BY <2>2 DEF Saved, Satisfies
<1>4. Covered \in SUBSET Soft /\ \A x : x \in Sequential!InUse <=> x \in Covered
  BY <1>1, AllInUse, PartsTyped DEF Covered
<1>5. F \cap Covered = F \cap activeSoft /\ activeSoft \subseteq Covered
  BY <1>2, <1>3, <1>4
<1>6. Cardinality(F \cap activeSoft) <= lbCost /\ Cardinality(F \cap activeSoft) \in Nat
  <2>1. Cardinality(F \cap activeSoft) \in Nat
    BY <1>1, ModelsTyped
  <2>2. CASE encoder.card
    BY <1>2, <1>3, <2>1, <2>2
  <2>3. CASE ~ encoder.card
    <3>1. F \cap activeSoft \in SUBSET activeSoft
      OBVIOUS
    <3>2. Cardinality(F \cap activeSoft) <= Cardinality(activeSoft)
      BY <1>1, <3>1, SubsetCardinality
    <3> QED
      BY <1>2, <2>1, <2>3, <3>2
  <2> QED
    BY <2>2, <2>3
<1>7. ASSUME NEW G \in feasible
      PROVE  lbCost <= Cardinality(G \cap activeSoft)
  <2>1. CASE nbSatisfiable = 0
    <3>1. lbCost = 0 /\ Cardinality(G \cap activeSoft) \in Nat
      BY <1>1, <2>1, ModelsTyped DEF SequentialInv, BeforeHandOver
    <3> QED
      BY <3>1
  <2>2. CASE nbSatisfiable # 0
    BY <1>1, <2>2 DEF SequentialInv, RelaxedBound
  <2> QED
    BY <2>1, <2>2
<1>8. ASSUME NEW G \in feasible
      PROVE  Cardinality(F) <= Cardinality(G)
  <2>1. G \in SUBSET Soft /\ F \ Covered = G \ Covered
    BY <1>1, ModelsTyped, PartsTyped
  <2>2. /\ Cardinality(G \cap activeSoft) \in Nat /\ Cardinality(G \cap Covered) \in Nat
        /\ Cardinality(G \ Covered) \in Nat
        /\ Cardinality(G \cap activeSoft) <= Cardinality(G \cap Covered)
    <3>1. G \cap activeSoft \in SUBSET (G \cap Covered) /\ G \cap Covered \in SUBSET Soft
      BY <1>4, <1>5
    <3>2. G \cap activeSoft \in SUBSET Soft /\ G \ Covered \in SUBSET Soft
      BY <2>1
    <3> QED
      BY <3>1, <3>2, SubsetCardinality
  <2>3. Cardinality(F) = Cardinality(F \cap Covered) + Cardinality(F \ Covered)
    BY <1>1, <1>4, SplitCardinality
  <2>4. Cardinality(G) = Cardinality(G \cap Covered) + Cardinality(G \ Covered)
    BY <1>4, <2>1, SplitCardinality
  <2>5. Cardinality(F \cap Covered) <= Cardinality(G \cap Covered)
    <3>1. lbCost <= Cardinality(G \cap activeSoft)
      BY <1>7
    <3> QED
      BY <1>1, <1>5, <1>6, <2>2, <3>1
  <2>6. Cardinality(F \cap Covered) \in Nat
    BY <1>5, <1>6
  <2>7. Cardinality(F \ Covered) = Cardinality(G \ Covered)
    BY <2>1
  <2> QED
    BY <2>2, <2>3, <2>4, <2>5, <2>6, <2>7
<1> QED
  BY <1>8

\* OPTIMUM, when every partition has been handed over.
LEMMA AllSolvedInv ==
  ASSUME SequentialInv, status = "searching", NEW F \in feasible, Sequential!AllSolved(F)
  PROVE  SequentialInv'
<1>1. Saved(F) /\ status' = "OPTIMUM" /\ assumptions' = assumptions /\ UNCHANGED order
  BY SatSaves DEF Sequential!AllSolved, Sequential!order, order
<1>2. /\ TypeOK /\ F \in SUBSET Soft /\ Cardinality(F) \in Nat /\ nbSatisfiable \in Nat
  BY ModelsTyped DEF SequentialInv, TypeOK
<1>3. /\ feasible' = feasible /\ activeSoft' = activeSoft /\ encoder' = encoder
      /\ lbCost' = lbCost /\ nbSatisfiable' = nbSatisfiable + 1
  BY <1>1 DEF Saved
<1>4. /\ model' \in feasible /\ ubCost' = Cardinality(model') /\ ubCost' <= Cardinality(F)
      /\ ubCost' \in Nat
  <2>1. CASE nbSatisfiable = 0 \/ Cardinality(F) < ubCost
    BY <1>1, <1>2, <2>1 DEF Saved
  <2>2. CASE ~ (nbSatisfiable = 0 \/ Cardinality(F) < ubCost)
    <3>1. nbSatisfiable > 0 /\ model' = model /\ ubCost' = ubCost /\ ubCost <= Cardinality(F)
      BY <1>1, <1>2, <2>2 DEF Saved, TypeOK
    <3> QED
      BY <1>2, <3>1 DEF SequentialInv, AfterHandOver, TypeOK
  <2> QED
    BY <2>1, <2>2
<1>5. TypeOK'
  <2>1. model' \in SUBSET Soft /\ nbSatisfiable' \in Nat
    BY <1>2, <1>3, <1>4, ModelsTyped
  <2> QED
    BY <1>1, <1>2, <1>3, <1>4, <2>1 DEF TypeOK
<1>6. PositionOK' /\ UnitsAside'
  BY <1>1 DEF SequentialInv, PositionOK, UnitsAside, order, Sequential!Unit
<1>7. LowerBoundSound'
  <2>1. CASE nbSatisfiable = 0
    <3>1. lbCost = 0 /\ \A G \in feasible : Cardinality(G) \in Nat
      BY <1>2, <2>1, ModelsTyped DEF SequentialInv, BeforeHandOver
    <3> QED
      BY <1>3, <3>1 DEF LowerBoundSound
  <2>2. CASE nbSatisfiable # 0
    BY <1>2, <1>3, <2>2 DEF SequentialInv, LowerBoundSound
  <2> QED
    BY <2>1, <2>2
<1>8. OptimumIsOptimal'
  <2>1. \A G \in feasible : Cardinality(F) <= Cardinality(G) /\ Cardinality(G) \in Nat
    BY <1>2, LastModelOptimal, ModelsTyped
  <2>2. \A G \in feasible : ubCost' <= Cardinality(G)
    BY <1>2, <1>4, <2>1
  <2> QED
    BY <1>3, <1>4, <2>2 DEF OptimumIsOptimal
<1> QED
  BY <1>1, <1>5, <1>6, <1>7, <1>8
     DEF SequentialInv, BeforeHandOver, AfterHandOver, RelaxedBound, Sequential!NothingDropped,
         RefutedOnlyIf

-----------------------------------------------------------------------------
\* The instance reads conflicts and encodings as this module does.
LEMMA SequentialConflict ==
  ASSUME NEW C, NEW k, Sequential!Unsat(C, k)
  PROVE  /\ IsConflict(feasible, assumptions, C, k)
         /\ lbCost' = lbCost + 1
         /\ feasible' = feasible /\ ubCost' = ubCost /\ model' = model
         /\ nbSatisfiable' = nbSatisfiable /\ UNCHANGED order
  BY SequentialCardinality
     DEF Sequential!Unsat, Sequential!IsConflict, IsConflict, Sequential!order, order

\* One more clause in use is falsified by every model.
LEMMA SequentialRaises ==
  ASSUME SequentialInv, status = "searching", nbSatisfiable > 0,
         NEW C \in SUBSET assumptions.soft, NEW k \in BOOLEAN, Sequential!Unsat(C, k)
  PROVE  /\ C \in SUBSET Soft
         /\ C \subseteq Sequential!InUse /\ activeSoft \subseteq Sequential!InUse
         /\ \A F \in feasible : lbCost + 1 <= Cardinality(F \cap (activeSoft \cup C))
         /\ \A F \in feasible : lbCost + 1 <= Cardinality(F)
<1>1. /\ TypeOK /\ activeSoft \in SUBSET Soft /\ assumptions.soft \in SUBSET Soft
      /\ \A F \in feasible : lbCost <= Cardinality(F \cap activeSoft)
  BY DEF SequentialInv, TypeOK, RelaxedBound
<1>2. /\ assumptions.soft = Sequential!InUse \ activeSoft
      /\ activeSoft \subseteq Sequential!InUse
      /\ encoder.card => encoder.lits = activeSoft /\ encoder.rhs = lbCost
      /\ encoder.lits = assumptions.lits /\ encoder.rhs = assumptions.rhs
      /\ encoder.card \/ encoder = NewEncoder
  BY SequentialCardinality DEF SequentialInv, AfterHandOver, Sequential!NothingDropped
<1>3. C \in SUBSET Soft /\ C \cap activeSoft = {} /\ C \subseteq Sequential!InUse
  BY <1>1, <1>2
<1>4. assumptions.lits # {} => assumptions.lits = activeSoft /\ assumptions.rhs = lbCost
  BY <1>2 DEF NewEncoder
<1>5. IsConflict(feasible, assumptions, C, k)
  BY SequentialConflict
<1> QED
  BY <1>1, <1>2, <1>3, <1>4, <1>5, CoreCounts

\* A conflict without assumptions: there are no models.
LEMMA SequentialUnsatisfiable ==
  ASSUME SequentialInv, status = "searching", Sequential!HardUnsatisfiable
  PROVE  SequentialInv'
<1>1. /\ status' = "UNSATISFIABLE" /\ Sequential!Unsat({}, FALSE)
      /\ activeSoft' = activeSoft /\ encoder' = encoder /\ assumptions' = assumptions
  BY DEF Sequential!HardUnsatisfiable, Sequential!core
<1>2. feasible = {} /\ feasible' = feasible
  <2>1. IsConflict(feasible, assumptions, {}, FALSE) /\ feasible' = feasible
    BY <1>1, SequentialConflict
  <2> QED
    BY <2>1 DEF IsConflict
<1>3. /\ lbCost' = lbCost + 1 /\ ubCost' = ubCost /\ model' = model
      /\ nbSatisfiable' = nbSatisfiable /\ UNCHANGED order
  BY <1>1, SequentialConflict
<1>4. TypeOK' /\ PositionOK' /\ UnitsAside'
  BY <1>1, <1>2, <1>3
     DEF SequentialInv, TypeOK, PositionOK, UnitsAside, order, Sequential!Unit
<1> QED
  BY <1>1, <1>2, <1>4
     DEF SequentialInv, BeforeHandOver, AfterHandOver, RelaxedBound, Sequential!NothingDropped,
         RefutedOnlyIf, LowerBoundSound, OptimumIsOptimal

\* A core that closes the gap between the bounds.
LEMMA SequentialBoundsMeet ==
  ASSUME SequentialInv, status = "searching",
         NEW C \in SUBSET assumptions.soft, NEW k \in BOOLEAN, Sequential!BoundsMeet(C, k)
  PROVE  SequentialInv'
<1>1. /\ status' = "OPTIMUM" /\ Sequential!Unsat(C, k) /\ nbSatisfiable > 0
      /\ lbCost + 1 = ubCost
      /\ activeSoft' = activeSoft /\ encoder' = encoder /\ assumptions' = assumptions
  BY DEF Sequential!BoundsMeet, Sequential!core
<1>2. /\ lbCost' = lbCost + 1 /\ ubCost' = ubCost /\ model' = model /\ feasible' = feasible
      /\ nbSatisfiable' = nbSatisfiable /\ UNCHANGED order
  BY <1>1, SequentialConflict
<1>3. TypeOK' /\ PositionOK' /\ UnitsAside'
  BY <1>1, <1>2
     DEF SequentialInv, TypeOK, PositionOK, UnitsAside, order, Sequential!Unit
<1>4. \A F \in feasible : lbCost + 1 <= Cardinality(F)
  BY <1>1, SequentialRaises
<1>5. LowerBoundSound' /\ OptimumIsOptimal'
  BY <1>1, <1>2, <1>4 DEF LowerBoundSound, OptimumIsOptimal, SequentialInv, AfterHandOver
<1> QED
  BY <1>1, <1>3, <1>5
     DEF SequentialInv, BeforeHandOver, AfterHandOver, RelaxedBound, Sequential!NothingDropped,
         RefutedOnlyIf

\* A core is relaxed: what was in use is assumed or counted, whatever the strategy.
LEMMA SequentialRelaxCore ==
  ASSUME SequentialInv, status = "searching",
         NEW C \in SUBSET assumptions.soft, NEW k \in BOOLEAN, Sequential!RelaxCore(C, k)
  PROVE  SequentialInv'
<1> DEFINE relaxed == activeSoft \cup C
           e == Tightened(relaxed, C, lbCost + 1)
<1>1. nbSatisfiable > 0 /\ Sequential!Unsat(C, k) /\ status' = "searching"
  BY DEF Sequential!RelaxCore
<1>2. /\ lbCost' = lbCost + 1 /\ ubCost' = ubCost /\ model' = model /\ feasible' = feasible
      /\ nbSatisfiable' = nbSatisfiable /\ UNCHANGED order
  BY <1>1, SequentialConflict
<1>3. /\ C \in SUBSET Soft
      /\ C \subseteq Sequential!InUse /\ activeSoft \subseteq Sequential!InUse
      /\ \A F \in feasible : lbCost + 1 <= Cardinality(F \cap relaxed)
      /\ \A F \in feasible : lbCost + 1 <= Cardinality(F)
  BY <1>1, SequentialRaises
<1>4. activeSoft' = relaxed /\ encoder' = e /\ assumptions' = Assume(Sequential!InUse \ relaxed, e)
  <2>1. Sequential!InUse \cap relaxed = relaxed
    BY <1>3
  <2>2. Sequential!Tightened(relaxed, C, lbCost + 1) = e
    BY SequentialCardinality
       DEF Sequential!Tightened, Tightened, Sequential!IncUpdate, Sequential!Encode,
            IncUpdate, Encode
  <2>3. /\ activeSoft' = relaxed
        /\ encoder' = Sequential!Tightened(Sequential!InUse \cap relaxed, C, lbCost + 1)
        /\ assumptions' = Assume(Sequential!InUse \ relaxed,
                            Sequential!Tightened(Sequential!InUse \cap relaxed, C, lbCost + 1))
    BY DEF Sequential!RelaxCore, Sequential!Assume, Assume
  <2> HIDE DEF e, relaxed
  <2> QED
    BY <2>1, <2>2, <2>3
<1>5. /\ TypeOK /\ lbCost \in Nat /\ relaxed \in SUBSET Soft
      /\ relaxed \subseteq Sequential!InUse /\ Sequential!InUse \ relaxed \in SUBSET Soft
      /\ lbCost + 1 \in Nat
  <2>1. Sequential!InUse \in SUBSET Soft
    <3>1. assumptions.soft = Sequential!InUse \ activeSoft /\ assumptions.soft \in SUBSET Soft
          /\ activeSoft \in SUBSET Soft
      BY SequentialCardinality DEF SequentialInv, Sequential!NothingDropped, TypeOK
    <3> QED
      BY <1>3, <3>1
  <2> QED
    BY <1>3, <2>1 DEF SequentialInv, TypeOK
<1>6. Allows(e, relaxed, lbCost + 1)
  <2>1. /\ encoder \in [card : BOOLEAN, lits : SUBSET Soft, rhs : Nat]
        /\ encoder.card \/ encoder = NewEncoder
        /\ activeSoft \in SUBSET Soft
    BY <1>1 DEF SequentialInv, AfterHandOver, TypeOK
  <2>2. encoder.card => encoder.lits = activeSoft
    BY SequentialCardinality DEF SequentialInv, Sequential!NothingDropped
  <2> QED
    BY <1>3, <1>5, <2>1, <2>2, TightenedAllows
<1> HIDE DEF e
<1>7. /\ e \in [card : BOOLEAN, lits : SUBSET Soft, rhs : Nat]
      /\ e.card \/ e = NewEncoder
      /\ IF e.card THEN e.lits = relaxed /\ e.rhs = lbCost + 1
         ELSE Cardinality(relaxed) = lbCost + 1
  BY <1>6 DEF Allows
<1> HIDE DEF relaxed
<1>8. /\ assumptions' \in [soft : SUBSET Soft, lits : SUBSET Soft, rhs : Nat]
      /\ assumptions'.soft = Sequential!InUse \ relaxed
      /\ assumptions'.lits = e.lits /\ assumptions'.rhs = e.rhs
  <2>1. e.lits \in SUBSET Soft /\ e.rhs \in Nat
    BY <1>7
  <2> QED
    BY <1>4, <1>5, <2>1 DEF Assume
<1>9. TypeOK'
  BY <1>1, <1>2, <1>4, <1>5, <1>7, <1>8 DEF TypeOK
<1>10. PositionOK' /\ UnitsAside'
  BY <1>2 DEF SequentialInv, PositionOK, UnitsAside, order, Sequential!Unit
<1>11. AfterHandOver' /\ BeforeHandOver'
  BY <1>1, <1>2, <1>4, <1>5, <1>7 DEF SequentialInv, AfterHandOver, BeforeHandOver, TypeOK
<1>12. RelaxedBound' /\ LowerBoundSound'
  BY <1>2, <1>3, <1>4 DEF RelaxedBound, LowerBoundSound
<1>13. Sequential!NothingDropped'
  <2>1. Sequential!InUse' = Sequential!InUse
    BY <1>2 DEF Sequential!InUse, order
  <2> QED
    BY <1>2, <1>4, <1>5, <1>7, <1>8, <2>1, SequentialCardinality DEF Sequential!NothingDropped
<1>14. OptimumIsOptimal' /\ RefutedOnlyIf'
  BY <1>1 DEF OptimumIsOptimal, RefutedOnlyIf
<1> QED
  BY <1>9, <1>10, <1>11, <1>12, <1>13, <1>14 DEF SequentialInv

\* The invariant holds initially,
LEMMA SequentialInit ==
  ASSUME Sequential!Init
  PROVE  SequentialInv
<1> USE DEF Sequential!Init
<1>1. TypeOK
  BY DEF TypeOK, NewEncoder, Assume, Sequential!NewEncoder, Sequential!Assume
<1>2. /\ encoder = NewEncoder /\ assumptions = Assume({}, NewEncoder) /\ activeSoft = {}
      /\ lbCost = 0 /\ model = NULL /\ nbSatisfiable = 0 /\ status = "searching"
      /\ partIndex = 1 /\ unitParts = {} /\ ~ addUnitParts /\ sorted \in BOOLEAN
      /\ parts \in Partitions
  BY DEF NewEncoder, Assume, Sequential!NewEncoder, Sequential!Assume
<1>3. PositionOK
  <2>1. parts \in Seq(SUBSET Soft)
    BY <1>2, PartitionsAssumption
  <2>2. Len(parts) \in Nat
    BY <2>1
  <2>3. 1 \in 1 .. Len(parts) + 1
    BY <2>2
  <2> QED
    BY <1>2, <2>3 DEF PositionOK
<1>4. 1 .. partIndex - 1 = {}
  BY <1>2
<1>5. UnitsAside
  <2>1. UNION {parts[i] : i \in {j \in 1 .. partIndex - 1 : Sequential!Unit(parts[j])}} = {}
    BY <1>4
  <2> QED
    BY <1>2, <2>1 DEF UnitsAside
<1>6. Sequential!InUse = {}
  <2>1. \A x : x \notin Sequential!InUse
    BY <1>2, <1>4, InUseIs DEF InUseExact
  <2> QED
    BY <2>1
<1>7. Sequential!NothingDropped
  <2>1. Sequential!Cardinality({}) = 0
    BY SequentialCardinality, EmptyHasNone
  <2> QED
    BY <1>2, <1>6, <2>1 DEF Sequential!NothingDropped, NewEncoder, Assume
<1> QED
  BY <1>1, <1>2, <1>3, <1>5, <1>7
     DEF SequentialInv, BeforeHandOver, AfterHandOver, RelaxedBound, LowerBoundSound,
         OptimumIsOptimal, RefutedOnlyIf

\* and when nothing changes.
LEMMA SequentialUnchanged ==
  ASSUME SequentialInv, UNCHANGED <<vars, order>>
  PROVE  SequentialInv'
<1>1. Sequential!InUse' = Sequential!InUse
  BY DEF Sequential!InUse, order
<1> QED
  BY <1>1, SequentialCardinality
     DEF SequentialInv, vars, order, TypeOK, PositionOK, UnitsAside, BeforeHandOver,
         AfterHandOver, RelaxedBound, Sequential!NothingDropped, LowerBoundSound,
         OptimumIsOptimal, RefutedOnlyIf, Sequential!Unit

\* Every step of the sequential strategies keeps the invariant.
LEMMA SequentialStep ==
  ASSUME SequentialInv, Sequential!Next
  PROVE  SequentialInv'
<1>1. status = "searching"
  BY DEF Sequential!Next
<1>2. ASSUME NEW F \in feasible,
             Sequential!NextLarge(F) \/ Sequential!UnitsTogether(F) \/ Sequential!NextSorted(F)
      PROVE  SequentialInv'
  <2>1. Sequential!Sat(F)
    BY <1>2 DEF Sequential!NextLarge, Sequential!UnitsTogether, Sequential!NextSorted
  <2>2. \E S : HandsOver(S)
    BY <1>2, NextLargeHandsOver, UnitsTogetherHandsOver, NextSortedHandsOver
  <2> QED
    BY <1>1, <2>1, <2>2, SatSaves, HandOverInv
<1>3. ASSUME NEW F \in feasible, Sequential!AllSolved(F)
      PROVE  SequentialInv'
  BY <1>1, <1>3, AllSolvedInv
<1>4. ASSUME Sequential!HardUnsatisfiable
      PROVE  SequentialInv'
  BY <1>1, <1>4, SequentialUnsatisfiable
<1>5. ASSUME NEW C \in SUBSET assumptions.soft, NEW k \in BOOLEAN,
             Sequential!BoundsMeet(C, k) \/ Sequential!RelaxCore(C, k)
      PROVE  SequentialInv'
  BY <1>1, <1>5, SequentialBoundsMeet, SequentialRelaxCore
<1> QED
  BY <1>2, <1>3, <1>4, <1>5 DEF Sequential!Next

\* A step of the sequential merge strategies is a step of the MaxSAT search.
LEMMA SequentialImplements ==
  ASSUME SequentialInv, Sequential!Next
  PROVE  [Search!Next]_(Search!vars)
<1> DEFINE lower == IF nbSatisfiable = 0 THEN 0 ELSE lbCost
<1> USE SameCardinality DEF Search!IsLowerBound, Search!Cost, Search!Improves
<1>1. /\ status = "searching" /\ TypeOK /\ nbSatisfiable \in Nat /\ lbCost \in Nat
      /\ ubCost \in Nat
  BY DEF Sequential!Next, SequentialInv, TypeOK
<1>2. /\ nbSatisfiable = 0 => lbCost = 0 /\ model = NULL
      /\ nbSatisfiable > 0 => model \in feasible /\ model # NULL /\ Cardinality(model) = ubCost
  BY <1>1, ModelsTyped, FormulaAssumption DEF SequentialInv, BeforeHandOver, AfterHandOver
<1>3. ASSUME NEW F \in feasible, Saved(F)
      PROVE  /\ feasible' = feasible /\ lower' = lower
             /\ \/ model' = F /\ (model # NULL => Cardinality(F) < Cardinality(model))
                \/ model' = model /\ model \in feasible /\ Cardinality(model) <= Cardinality(F)
  <2>1. Cardinality(F) \in Nat /\ nbSatisfiable' = nbSatisfiable + 1 /\ lbCost' = lbCost
        /\ feasible' = feasible
    BY <1>1, <1>3, ModelsTyped DEF Saved
  <2>2. lower' = lower
    BY <1>1, <1>2, <2>1
  <2>3. CASE nbSatisfiable = 0 \/ Cardinality(F) < ubCost
    BY <1>1, <1>2, <1>3, <2>1, <2>2, <2>3 DEF Saved
  <2>4. CASE ~ (nbSatisfiable = 0 \/ Cardinality(F) < ubCost)
    BY <1>1, <1>2, <1>3, <2>1, <2>2, <2>4 DEF Saved
  <2> QED
    BY <2>3, <2>4
<1>4. ASSUME NEW F \in feasible, Saved(F), status' = status
      PROVE  [Search!Next]_(Search!vars)
  <2>1. CASE model' = F /\ (model # NULL => Cardinality(F) < Cardinality(model))
    <3>1. Search!Improve
      BY <1>1, <1>3, <1>4, <2>1 DEF Search!Improve
    <3> QED
      BY <3>1 DEF Search!Next
  <2>2. CASE model' = model
    BY <1>3, <1>4, <2>2 DEF Search!vars
  <2> QED
    BY <1>3, <1>4, <2>1, <2>2
<1>5. ASSUME NEW F \in feasible,
             Sequential!NextLarge(F) \/ Sequential!UnitsTogether(F) \/ Sequential!NextSorted(F)
      PROVE  [Search!Next]_(Search!vars)
  <2>1. Sequential!Sat(F) /\ status' = status
    BY <1>5 DEF Sequential!NextLarge, Sequential!UnitsTogether, Sequential!NextSorted,
                Sequential!HandOver
  <2> QED
    BY <1>4, <1>5, <2>1, SatSaves
<1>6. ASSUME NEW F \in feasible, Sequential!AllSolved(F)
      PROVE  [Search!Next]_(Search!vars)
  <2>1. Saved(F) /\ status' = "OPTIMUM"
    BY <1>6, SatSaves DEF Sequential!AllSolved
  <2>2. \A G \in feasible : /\ Cardinality(F) <= Cardinality(G)
                            /\ Cardinality(G) \in Nat /\ Cardinality(F) \in Nat
    BY <1>1, <1>6, LastModelOptimal, ModelsTyped
  <2>3. PICK M \in feasible : /\ model' = M
                              /\ M = model \/ (model # NULL => Cardinality(M) < Cardinality(model))
                              /\ Cardinality(M) <= Cardinality(F)
    BY <1>3, <1>6, <2>1, <2>2
  <2>4. \A G \in feasible : Cardinality(M) <= Cardinality(G)
    BY <2>2, <2>3
  <2>5. \A G \in feasible : lower <= Cardinality(G)
    BY <1>1, <2>2 DEF SequentialInv, LowerBoundSound
  <2>6. Search!Conclude
    BY <1>1, <1>3, <2>1, <2>3, <2>4, <2>5 DEF Search!Conclude
  <2> QED
    BY <2>6 DEF Search!Next
<1>7. ASSUME Sequential!HardUnsatisfiable
      PROVE  [Search!Next]_(Search!vars)
  <2>1. Sequential!Unsat({}, FALSE) /\ status' = "UNSATISFIABLE"
    BY <1>7 DEF Sequential!HardUnsatisfiable
  <2>2. /\ IsConflict(feasible, assumptions, {}, FALSE) /\ feasible' = feasible
        /\ model' = model /\ nbSatisfiable' = nbSatisfiable
    BY <2>1, SequentialConflict
  <2>3. feasible = {}
    BY <2>2 DEF IsConflict
  <2>4. lower' = lower
    <3>1. nbSatisfiable = 0
      BY <1>1, <1>2, <2>3
    <3> QED
      BY <2>2, <3>1
  <2>5. Search!Refute
    BY <1>1, <2>1, <2>2, <2>3, <2>4 DEF Search!Refute
  <2> QED
    BY <2>5 DEF Search!Next
<1>8. ASSUME NEW C \in SUBSET assumptions.soft, NEW k \in BOOLEAN, nbSatisfiable > 0,
             Sequential!Unsat(C, k)
      PROVE  /\ feasible' = feasible /\ model' = model /\ lower' = lower + 1
             /\ lower = lbCost
             /\ \A F \in feasible : lower + 1 <= Cardinality(F)
  <2>1. \A F \in feasible : lbCost + 1 <= Cardinality(F)
    BY <1>1, <1>8, SequentialRaises
  <2>2. /\ feasible' = feasible /\ model' = model /\ lbCost' = lbCost + 1
        /\ nbSatisfiable' = nbSatisfiable
    BY <1>8, SequentialConflict
  <2>3. lower = lbCost /\ lower' = lbCost'
    BY <1>1, <1>8, <2>2
  <2> QED
    BY <2>1, <2>2, <2>3
<1>9. ASSUME NEW C \in SUBSET assumptions.soft, NEW k \in BOOLEAN, Sequential!BoundsMeet(C, k)
      PROVE  [Search!Next]_(Search!vars)
  <2>1. /\ nbSatisfiable > 0 /\ Sequential!Unsat(C, k) /\ status' = "OPTIMUM"
        /\ lbCost + 1 = ubCost
    BY <1>9 DEF Sequential!BoundsMeet
  <2>2. /\ feasible' = feasible /\ model' = model /\ lower' = lower + 1 /\ lower = lbCost
        /\ \A F \in feasible : lower + 1 <= Cardinality(F)
    BY <1>8, <1>9, <2>1
  <2>3. Search!Conclude
    BY <1>1, <1>2, <2>1, <2>2 DEF Search!Conclude
  <2> QED
    BY <2>3 DEF Search!Next
<1>10. ASSUME NEW C \in SUBSET assumptions.soft, NEW k \in BOOLEAN, Sequential!RelaxCore(C, k)
       PROVE  [Search!Next]_(Search!vars)
  <2>1. nbSatisfiable > 0 /\ Sequential!Unsat(C, k) /\ status' = status
    BY <1>10 DEF Sequential!RelaxCore
  <2>2. /\ feasible' = feasible /\ model' = model /\ lower' = lower + 1
        /\ \A F \in feasible : lower + 1 <= Cardinality(F)
    BY <1>8, <1>10, <2>1
  <2>3. Search!RaiseBound
    BY <1>1, <1>2, <2>1, <2>2 DEF Search!RaiseBound
  <2> QED
    BY <2>3 DEF Search!Next
<1> QED
  BY <1>5, <1>6, <1>7, <1>9, <1>10 DEF Sequential!Next

-----------------------------------------------------------------------------
(***************************************************************************)
(* OLL: totalizers over the outputs of earlier totalizers, what they count, *)
(* and what a core does to the cost of every model.                        *)
(***************************************************************************)

\* The instance of OLL counts as this module does,
LEMMA OllCardinality == \A S : Oll!Cardinality(S) = Cardinality(S)
  BY Zenon DEF Oll!Cardinality, Cardinality

\* also the literals of totalizers over totalizers,
LEMMA OllCounts == \A cs, S : Oll!Counts(cs, S) = Counts(cs, S)
  BY Zenon DEF Oll!Counts, Counts, Oll!Cardinality, Cardinality, Oll!IsSoft, IsSoft

\* reads literals and builds totalizers alike,
LEMMA OllReads ==
  /\ \A l : Oll!IsSoft(l) <=> IsSoft(l)
  /\ \A i : Oll!SoftLit(i) = SoftLit(i)
  /\ \A t, k : Oll!OutLit(t, k) = OutLit(t, k)
  /\ \A cs, S, l : Oll!True(cs, S, l) <=> True(cs, S, l)
  /\ \A cs, S, l : Oll!Excess(cs, S, l) = Excess(cs, S, l)
  /\ \A lits, k : Oll!Card(lits, k) = Card(lits, k)
  /\ \A cs, l : Oll!NextBound(cs, l) = NextBound(cs, l)
  /\ \A cs, outs : Oll!RaiseAll(cs, outs) = RaiseAll(cs, outs)
  BY OllCardinality, OllCounts
     DEF Oll!IsSoft, IsSoft, Oll!SoftLit, SoftLit, Oll!OutLit, OutLit, Oll!True, True,
         Oll!Excess, Excess, Oll!Card, Card, Oll!NextBound, NextBound, Oll!RaiseAll, RaiseAll

\* and adds up what exceeds the bounds.
LEMMA OllSum ==
  \A F, B : Oll!SumExcess(F, B) = Sum([l \in B |-> Excess(cards, F, l)], B)
<1>1. \A F, B : [l \in B |-> Oll!Excess(cards, F, l)] = [l \in B |-> Excess(cards, F, l)]
  BY OllReads
<1>2. \A w, B : Oll!SumFunctionOnSet(w, B) = Sum(w, B)
  BY Zenon DEF Oll!SumFunctionOnSet, Oll!FoldFunctionOnSet, Oll!MapThenFoldSet,
     Sum, SumFunctionOnSet, FoldFunctionOnSet, MapThenFoldSet
<1> QED
  BY <1>1, <1>2 DEF Oll!SumExcess

\* A literal of a core is true, when c counts the literals of each totalizer.
Holds(c, S, l) == IF IsSoft(l) THEN l[2] \in S ELSE c[l[2]] > l[3]

\* Totalizers count soft clauses and outputs of earlier ones, encoded as far as they
\* are used.
WellFormed(cs) ==
  /\ Len(cs) \in Nat
  /\ \A t \in 1 .. Len(cs) :
       /\ IsFiniteSet(cs[t].lits)
       /\ \A l \in cs[t].lits : ~ IsSoft(l) =>
            l[2] \in 1 .. t - 1 /\ l[3] \in Nat /\ l[3] <= cs[l[2]].upTo

\* c counts the true literals of the first n totalizers.
CountsUpTo(c, cs, S, n) ==
  c = [t \in 1 .. n |->
         Cardinality({l \in cs[t].lits :
           IF IsSoft(l) THEN l[2] \in S ELSE l[3] <= cs[l[2]].upTo /\ c[l[2]] > l[3]})]

\* The true literals of totalizer t.
TrueOf(c, cs, S, t) == {l \in cs[t].lits : Holds(c, S, l)}

\* An output that is counted is encoded, so it is true when exceeded.
LEMMA UpToMeans ==
  ASSUME NEW cs, WellFormed(cs), NEW S, NEW n \in 0 .. Len(cs), NEW c, CountsUpTo(c, cs, S, n)
  PROVE  \A t \in 1 .. n : c[t] = Cardinality(TrueOf(c, cs, S, t))
<1>1. ASSUME NEW t \in 1 .. n
      PROVE  c[t] = Cardinality(TrueOf(c, cs, S, t))
  <2>1. c[t] = Cardinality({l \in cs[t].lits :
           IF IsSoft(l) THEN l[2] \in S ELSE l[3] <= cs[l[2]].upTo /\ c[l[2]] > l[3]})
    BY <1>1 DEF CountsUpTo
  <2>2. t \in 1 .. Len(cs)
    BY <1>1 DEF WellFormed
  <2>3. TrueOf(c, cs, S, t) = {l \in cs[t].lits :
           IF IsSoft(l) THEN l[2] \in S ELSE l[3] <= cs[l[2]].upTo /\ c[l[2]] > l[3]}
    BY <2>2 DEF TrueOf, WellFormed, Holds
  <2> QED
    BY <2>1, <2>3
<1> QED
  BY <1>1

\* There is such a count, since totalizers only count earlier ones.
LEMMA CountsExist ==
  ASSUME NEW cs, WellFormed(cs), NEW S
  PROVE  \A n \in 0 .. Len(cs) : \E c : CountsUpTo(c, cs, S, n)
<1> DEFINE T == {n \in Nat : n <= Len(cs) => \E c : CountsUpTo(c, cs, S, n)}
<1>0. Len(cs) \in Nat
  BY DEF WellFormed
<1>1. 0 \in T
  <2> DEFINE c == [t \in 1 .. 0 |-> 0]
  <2>1. CountsUpTo(c, cs, S, 0)
    BY DEF CountsUpTo
  <2> QED
    BY <2>1
<1>2. ASSUME NEW n \in T PROVE n + 1 \in T
  <2>1. SUFFICES ASSUME n + 1 <= Len(cs) PROVE \E c : CountsUpTo(c, cs, S, n + 1)
    BY <1>2
  <2>2. PICK c : CountsUpTo(c, cs, S, n)
    BY <1>0, <2>1
  <2> DEFINE In(f, t) == {l \in cs[t].lits :
               IF IsSoft(l) THEN l[2] \in S ELSE l[3] <= cs[l[2]].upTo /\ f[l[2]] > l[3]}
             d == [t \in 1 .. n + 1 |-> Cardinality(In(c, t))]
  <2>3. \A t \in 1 .. n : d[t] = c[t]
    <3>1. \A t \in 1 .. n : c[t] = Cardinality(In(c, t))
      BY <2>2 DEF CountsUpTo
    <3>2. \A t \in 1 .. n : t \in 1 .. n + 1
      BY <1>2
    <3> QED
      BY <3>1, <3>2
  <2>4. \A t \in 1 .. n + 1 : In(d, t) = In(c, t)
    <3>1. ASSUME NEW t \in 1 .. n + 1, NEW l \in cs[t].lits, ~ IsSoft(l)
          PROVE  l[2] \in 1 .. n
      <4>1. t \in 1 .. Len(cs) /\ n \in Nat
        BY <1>0, <2>1, <3>1
      <4>2. l[2] \in 1 .. t - 1
        BY <3>1, <4>1 DEF WellFormed
      <4> QED
        BY <3>1, <4>1, <4>2
    <3> QED
      BY <2>3, <3>1
  <2>5. d = [t \in 1 .. n + 1 |-> Cardinality(In(d, t))]
    BY <2>4
  <2>6. CountsUpTo(d, cs, S, n + 1)
    BY <2>5 DEF CountsUpTo
  <2> QED
    BY <2>6
<1>3. T = Nat
  <2>1. T \in SUBSET Nat
    OBVIOUS
  <2> HIDE DEF T
  <2> QED
    BY <1>1, <1>2, <2>1, NatInductionSet
<1> QED
  BY <1>0, <1>3

\* What the recursion computes.
LEMMA CountsAre ==
  ASSUME NEW cs, WellFormed(cs), NEW S
  PROVE  \A t \in 1 .. Len(cs) :
           /\ Counts(cs, S)[t] = Cardinality(TrueOf(Counts(cs, S), cs, S, t))
           /\ Counts(cs, S)[t] \in Nat
           /\ Counts(cs, S)[t] <= Cardinality(cs[t].lits)
           /\ Cardinality(cs[t].lits) \in Nat
<1> DEFINE c == Counts(cs, S)
<1>1. c = CHOOSE d : CountsUpTo(d, cs, S, Len(cs))
  BY DEF Counts, CountsUpTo
<1>2. \E d : CountsUpTo(d, cs, S, Len(cs))
  <2>1. Len(cs) \in 0 .. Len(cs)
    BY DEF WellFormed
  <2> QED
    BY <2>1, CountsExist
<1>3. CountsUpTo(c, cs, S, Len(cs))
  BY <1>1, <1>2
<1> HIDE DEF c
<1>4. \A t \in 1 .. Len(cs) : c[t] = Cardinality(TrueOf(c, cs, S, t))
  <2>1. Len(cs) \in 0 .. Len(cs)
    BY DEF WellFormed
  <2> QED
    BY <1>3, <2>1, UpToMeans
<1>5. ASSUME NEW t \in 1 .. Len(cs)
      PROVE  /\ Cardinality(TrueOf(c, cs, S, t)) \in Nat
             /\ Cardinality(TrueOf(c, cs, S, t)) <= Cardinality(cs[t].lits)
             /\ Cardinality(cs[t].lits) \in Nat
  <2>1. IsFiniteSet(cs[t].lits)
    BY DEF WellFormed
  <2>2. TrueOf(c, cs, S, t) \in SUBSET cs[t].lits
    BY DEF TrueOf
  <2> QED
    BY <2>1, <2>2, FS_Subset, FS_CardinalityType
<1> QED
  BY <1>4, <1>5 DEF c

\* The totalizers ds count what those of cs do, perhaps further, and may be more.
Extends(ds, cs) ==
  /\ WellFormed(cs) /\ WellFormed(ds) /\ Len(cs) <= Len(ds)
  /\ \A t \in 1 .. Len(cs) : ds[t].lits = cs[t].lits

\* What a totalizer counts is determined by its literals and the truth of the soft ones:
\* others may be encoded further, follow, or soft clauses be added.
LEMMA CountsAgree ==
  ASSUME NEW cs, NEW ds, Extends(ds, cs), NEW R, NEW S,
         \A t \in 1 .. Len(cs) : \A l \in cs[t].lits : IsSoft(l) => (l[2] \in R <=> l[2] \in S)
  PROVE  \A t \in 1 .. Len(cs) : Counts(ds, R)[t] = Counts(cs, S)[t]
<1> DEFINE c == Counts(cs, S)
           d == Counts(ds, R)
           T == {n \in Nat : \A t \in 1 .. Len(cs) : t <= n => d[t] = c[t]}
<1>0. Len(cs) \in Nat /\ Len(ds) \in Nat /\ Len(cs) <= Len(ds) /\ WellFormed(cs) /\ WellFormed(ds)
      /\ \A t \in 1 .. Len(cs) : ds[t].lits = cs[t].lits
  BY DEF Extends, WellFormed
<1>1. \A t \in 1 .. Len(cs) : c[t] = Cardinality(TrueOf(c, cs, S, t))
  BY <1>0, CountsAre
<1>2. \A t \in 1 .. Len(cs) : d[t] = Cardinality(TrueOf(d, ds, R, t))
  <2>1. \A t \in 1 .. Len(ds) : d[t] = Cardinality(TrueOf(d, ds, R, t))
    BY <1>0, CountsAre
  <2> QED
    BY <1>0, <2>1
<1> HIDE DEF c, d
<1>3. 0 \in T
  BY <1>0
<1>4. ASSUME NEW n \in T PROVE n + 1 \in T
  <2>1. SUFFICES ASSUME NEW t \in 1 .. Len(cs), t <= n + 1 PROVE d[t] = c[t]
    BY <1>4
  <2>2. \A l \in cs[t].lits : Holds(d, R, l) <=> Holds(c, S, l)
    <3>1. ASSUME NEW l \in cs[t].lits, ~ IsSoft(l)
          PROVE  d[l[2]] = c[l[2]]
      <4>1. l[2] \in 1 .. t - 1
        BY <1>0, <3>1 DEF WellFormed
      <4>2. l[2] \in 1 .. Len(cs) /\ l[2] <= n
        BY <1>0, <2>1, <4>1
      <4> QED
        BY <4>2
    <3> QED
      BY <3>1 DEF Holds
  <2>3. TrueOf(d, ds, R, t) = TrueOf(c, cs, S, t)
    BY <1>0, <2>2 DEF TrueOf
  <2> QED
    BY <1>1, <1>2, <2>3
<1>5. T = Nat
  <2>1. T \in SUBSET Nat
    OBVIOUS
  <2> HIDE DEF T
  <2> QED
    BY <1>3, <1>4, <2>1, NatInductionSet
<1>6. \A t \in 1 .. Len(cs) : t \in Nat /\ t <= t
  BY <1>0
<1>7. \A t \in 1 .. Len(cs) : d[t] = c[t]
  BY <1>5, <1>6
<1> QED
  BY <1>7 DEF c, d


\* So raising how far an output is encoded, or one more totalizer, leaves it.
LEMMA CountsKept ==
  ASSUME NEW cs, NEW ds, Extends(ds, cs), NEW S
  PROVE  \A t \in 1 .. Len(cs) : Counts(ds, S)[t] = Counts(cs, S)[t]
BY CountsAgree

-----------------------------------------------------------------------------
(***************************************************************************)
(* The invariant: while the search runs, the cost of every model is what the *)
(* cores have paid, the soft clauses still assumed, and what exceeds the   *)
(* bounds.  It is inductive because a totalizer that is encoded further, or *)
(* added, counts no other literals (CountsKept).                           *)
(***************************************************************************)

\* The outputs of totalizers, as literals.
Outputs == {OutLit(t, k) : t \in Nat, k \in Nat}

\* What may be assumed, or be in a core.
Literals == {SoftLit(i) : i \in Soft} \cup Outputs

\* Totalizers that count literals of L, and how far they are encoded.
TotalizersOver(L) == [lits : SUBSET L, upTo : Nat]

\* Those of unweighted OLL.
Totalizers == TotalizersOver(Literals)

\* The types of the variables; totalizers form no cycle.
OllTyped ==
  /\ feasible \in Instances /\ activeSoft \in SUBSET Soft
  /\ lbCost \in Nat /\ ubCost \in Nat /\ nbSatisfiable \in Nat
  /\ model \in (SUBSET Soft) \cup {NULL}
  /\ status \in {"searching", "OPTIMUM", "UNSATISFIABLE"}
  /\ cards \in Seq(Totalizers) /\ WellFormed(cards)
  /\ bounds \in SUBSET Outputs /\ IsFiniteSet(bounds)
  /\ assumptions \in SUBSET Literals

\* A totalizer has at most one bound, the highest output that is encoded.
BoundsEncoded ==
  \A l \in bounds : /\ l[2] \in 1 .. Len(cards)
                    /\ cards[l[2]].upTo = l[3]
                    /\ l[3] < Cardinality(cards[l[2]].lits)

\* Before the first model nothing is relaxed, counted or assumed.
OllWaiting ==
  status = "searching" /\ nbSatisfiable = 0 =>
    /\ cards = <<>> /\ bounds = {} /\ activeSoft = {} /\ assumptions = {}
    /\ lbCost = 0 /\ model = NULL

\* After it every soft clause but the relaxed ones and every bound is assumed.
OllWorking ==
  status = "searching" /\ nbSatisfiable > 0 =>
    /\ assumptions = {SoftLit(i) : i \in Soft \ activeSoft} \cup bounds
    /\ model \in feasible /\ ubCost = Cardinality(model)
    /\ lbCost < ubCost

\* What exceeds each bound.
Weight(cs, F) == [l \in Outputs |-> Excess(cs, F, l)]

\* Nothing else is ever assumed.
OllAssumed == assumptions \in SUBSET ({SoftLit(i) : i \in Soft \ activeSoft} \cup bounds)

\* The cost of every model: paid, still assumed, and beyond the bounds.  This is
\* CostPreserved of OLL, with the sum in a form to reason about.
CostKept ==
  status = "searching" /\ nbSatisfiable > 0 =>
    \A F \in feasible :
      Cardinality(F) = lbCost + Cardinality(F \ activeSoft) + Sum(Weight(cards, F), bounds)

\* The inductive invariant of OLL.
OllInv ==
  /\ OllTyped /\ BoundsEncoded /\ OllWaiting /\ OllWorking /\ OllAssumed /\ CostKept
  /\ OptimumIsOptimal /\ RefutedOnlyIf

\* The literals of a core, by what they are made of.
LEMMA LiteralsAre ==
  /\ \A i : IsSoft(SoftLit(i)) /\ SoftLit(i)[2] = i
  /\ \A t, k : ~ IsSoft(OutLit(t, k)) /\ OutLit(t, k)[2] = t /\ OutLit(t, k)[3] = k
  /\ \A l \in Outputs : ~ IsSoft(l) /\ l[2] \in Nat /\ l[3] \in Nat /\ l = OutLit(l[2], l[3])
  /\ \A l \in Literals : /\ IsSoft(l) => l[2] \in Soft /\ l = SoftLit(l[2])
                         /\ ~ IsSoft(l) => l \in Outputs
<1>1. \A i : IsSoft(SoftLit(i)) /\ SoftLit(i)[2] = i
  BY DEF IsSoft, SoftLit
<1>2. \A t, k : ~ IsSoft(OutLit(t, k)) /\ OutLit(t, k)[2] = t /\ OutLit(t, k)[3] = k
  BY DEF IsSoft, OutLit
<1>3. \A l \in Outputs : ~ IsSoft(l) /\ l[2] \in Nat /\ l[3] \in Nat /\ l = OutLit(l[2], l[3])
  <2>1. ASSUME NEW l \in Outputs
        PROVE  ~ IsSoft(l) /\ l[2] \in Nat /\ l[3] \in Nat /\ l = OutLit(l[2], l[3])
    <3>1. PICK t \in Nat, k \in Nat : l = OutLit(t, k)
      BY DEF Outputs
    <3> QED
      BY <1>2, <3>1
  <2> QED
    BY <2>1
<1>4. \A l \in Literals : /\ IsSoft(l) => l[2] \in Soft /\ l = SoftLit(l[2])
                          /\ ~ IsSoft(l) => l \in Outputs
  BY <1>1, <1>3 DEF Literals
<1> QED
  BY <1>1, <1>2, <1>3, <1>4

\* Bounds that are live are encoded, so that they are true when exceeded, and weigh what
\* exceeds them.
LEMMA BoundsRead ==
  ASSUME OllTyped, BoundsEncoded, NEW F, NEW l \in bounds
  PROVE  /\ l \in Outputs /\ ~ IsSoft(l) /\ l[2] \in 1 .. Len(cards) /\ l[3] \in Nat
         /\ True(cards, F, l) <=> Counts(cards, F)[l[2]] > l[3]
         /\ \A m \in bounds : m[2] = l[2] => m = l
<1>1. \A m \in bounds : m \in Outputs /\ ~ IsSoft(m) /\ m[2] \in 1 .. Len(cards) /\ m[3] \in Nat
                        /\ m = OutLit(m[2], m[3]) /\ m[3] = cards[m[2]].upTo
  BY LiteralsAre DEF OllTyped, BoundsEncoded
<1>2. l[3] <= cards[l[2]].upTo
  BY <1>1
<1>3. True(cards, F, l) <=> Counts(cards, F)[l[2]] > l[3]
  BY <1>1, <1>2 DEF True
<1>4. \A m \in bounds : m[2] = l[2] => m = l
  <2>1. ASSUME NEW m \in bounds, m[2] = l[2] PROVE m = l
    <3>1. m[3] = l[3]
      BY <1>1, <2>1
    <3> QED
      BY <1>1, <2>1, <3>1
  <2> QED
    BY <2>1
<1> QED
  BY <1>1, <1>3, <1>4

\* What exceeds a bound, where its totalizer is known.
LEMMA WeightIs ==
  ASSUME NEW cs, WellFormed(cs), NEW F, NEW l \in Outputs, l[2] \in 1 .. Len(cs)
  PROVE  /\ Counts(cs, F)[l[2]] \in Nat /\ Weight(cs, F)[l] \in Nat
         /\ Weight(cs, F)[l] = IF Counts(cs, F)[l[2]] > l[3]
                               THEN Counts(cs, F)[l[2]] - l[3] ELSE 0
<1>1. Counts(cs, F)[l[2]] \in Nat /\ l[3] \in Nat
  BY CountsAre, LiteralsAre
<1>2. Weight(cs, F)[l] = IF Counts(cs, F)[l[2]] > l[3] THEN Counts(cs, F)[l[2]] - l[3] ELSE 0
  BY DEF Weight, Excess
<1> QED
  BY <1>1, <1>2

\* The invariant speaks of the sum the run checks.
LEMMA SumsAgree ==
  ASSUME OllTyped, BoundsEncoded, NEW F
  PROVE  Oll!SumExcess(F, bounds) = Sum(Weight(cards, F), bounds)
<1>1. IsFiniteSet(bounds) /\ WellFormed(cards)
  BY DEF OllTyped
<1> DEFINE w == [l \in bounds |-> Excess(cards, F, l)]
<1>2. ASSUME NEW l \in bounds
      PROVE  w[l] \in Int /\ w[l] = Weight(cards, F)[l]
  <2>1. l \in Outputs /\ l[2] \in 1 .. Len(cards)
    BY BoundsRead
  <2>2. Weight(cards, F)[l] \in Nat
    BY <1>1, <2>1, WeightIs
  <2>3. w[l] = Weight(cards, F)[l]
    BY <2>1 DEF Weight
  <2> QED
    BY <2>2, <2>3
<1> HIDE DEF w
<1>3. Sum(w, bounds) = Sum(Weight(cards, F), bounds)
  BY <1>1, <1>2, SumEqual
<1> QED
  BY <1>3, OllSum DEF w

-----------------------------------------------------------------------------
\* A sequence with one more element.
LEMMA Appended ==
  ASSUME NEW T, NEW s \in Seq(T), NEW x \in T
  PROVE  /\ Append(s, x) \in Seq(T) /\ Len(Append(s, x)) = Len(s) + 1
         /\ \A t \in 1 .. Len(s) : Append(s, x)[t] = s[t]
         /\ Append(s, x)[Len(s) + 1] = x
  OBVIOUS

\* Transitivity, to be cited.
LEMMA AtMostTrans == \A a, b, c \in Nat : a <= b /\ b <= c => a <= c
  OBVIOUS

\* The bounds in a core, and its soft clauses.
CoreOutputs(C) == {l \in C : ~ IsSoft(l)}
CoreSofts(C) == {i \in Soft : SoftLit(i) \in C}

\* A core: finitely many literals, its bounds live.
IsCore(C) == C \in SUBSET Literals /\ IsFiniteSet(C) /\ CoreOutputs(C) \in SUBSET bounds

\* The constraints after a core.
CardsAfter(C) ==
  IF Cardinality(C) > 1 THEN Append(RaiseAll(cards, CoreOutputs(C)), Card(C, 1))
  ELSE RaiseAll(cards, CoreOutputs(C))

\* Raising the totalizers of bounds that are encoded so far: one further each.
LEMMA RaiseIs ==
  ASSUME NEW L, NEW cs \in Seq(TotalizersOver(L)), NEW outs \in SUBSET Outputs,
         \A l \in outs : l[2] \in 1 .. Len(cs) /\ cs[l[2]].upTo = l[3]
  PROVE  /\ RaiseAll(cs, outs) \in Seq(TotalizersOver(L))
         /\ Len(RaiseAll(cs, outs)) = Len(cs)
         /\ \A t \in 1 .. Len(cs) :
              /\ RaiseAll(cs, outs)[t].lits = cs[t].lits
              /\ RaiseAll(cs, outs)[t].upTo =
                   IF \E l \in outs : l[2] = t THEN cs[t].upTo + 1 ELSE cs[t].upTo
<1>1. /\ cs \in Seq(TotalizersOver(L)) /\ Len(cs) \in Nat /\ DOMAIN cs = 1 .. Len(cs)
      /\ \A t \in 1 .. Len(cs) : cs[t] \in TotalizersOver(L)
  OBVIOUS
<1> DEFINE raised(t) == [cs[t] EXCEPT !.upTo = 1 + CHOOSE k \in 0 .. @ : OutLit(t, k) \in outs]
<1>2. ASSUME NEW t \in 1 .. Len(cs), \E l \in outs : l[2] = t
      PROVE  /\ raised(t) \in TotalizersOver(L) /\ raised(t).lits = cs[t].lits
             /\ raised(t).upTo = cs[t].upTo + 1
  <2> DEFINE u == cs[t].upTo
             K == CHOOSE k \in 0 .. u : OutLit(t, k) \in outs
  <2>1. u \in Nat /\ cs[t] = [lits |-> cs[t].lits, upTo |-> u]
        /\ cs[t].lits \in SUBSET L
    BY <1>1 DEF TotalizersOver
  <2>2. OutLit(t, u) \in outs
    <3>1. PICK l \in outs : l[2] = t
      BY <1>2
    <3>2. l \in Outputs /\ l[3] = u
      BY <3>1
    <3> QED
      BY <3>1, <3>2, LiteralsAre
  <2>3. \A k : OutLit(t, k) \in outs => k = u
    <3>1. ASSUME NEW k, OutLit(t, k) \in outs PROVE k = u
      BY <3>1, LiteralsAre
    <3> QED
      BY <3>1
  <2>4. K = u
    <3>1. u \in 0 .. u
      BY <2>1
    <3> HIDE DEF u
    <3> QED
      BY <2>2, <2>3, <3>1
  <2>5. raised(t) = [lits |-> cs[t].lits, upTo |-> 1 + u]
    <3>1. raised(t) = [cs[t] EXCEPT !.upTo = 1 + K]
      OBVIOUS
    <3> HIDE DEF raised, K, u
    <3> QED
      BY <2>1, <2>4, <3>1
  <2> HIDE DEF raised
  <2> QED
    BY <2>1, <2>5 DEF TotalizersOver
<1>3. RaiseAll(cs, outs) =
        [t \in 1 .. Len(cs) |-> IF \E l \in outs : l[2] = t THEN raised(t) ELSE cs[t]]
  BY <1>1 DEF RaiseAll
<1> HIDE DEF raised
<1>4. RaiseAll(cs, outs) \in [1 .. Len(cs) -> TotalizersOver(L)]
  BY <1>1, <1>2, <1>3
<1>5. RaiseAll(cs, outs) \in Seq(TotalizersOver(L)) /\ Len(RaiseAll(cs, outs)) = Len(cs)
  BY <1>1, <1>4
<1> QED
  BY <1>2, <1>3, <1>5

\* The core is encoded up to one more than each of its bounds.
LEMMA RaisedAre ==
  ASSUME OllTyped, BoundsEncoded, NEW outs \in SUBSET bounds
  PROVE  /\ RaiseAll(cards, outs) \in Seq(Totalizers)
         /\ Len(RaiseAll(cards, outs)) = Len(cards)
         /\ \A t \in 1 .. Len(cards) :
              /\ RaiseAll(cards, outs)[t].lits = cards[t].lits
              /\ RaiseAll(cards, outs)[t].upTo =
                   IF \E l \in outs : l[2] = t THEN cards[t].upTo + 1 ELSE cards[t].upTo
<1>1. \A l \in outs : l \in Outputs /\ l[2] \in 1 .. Len(cards) /\ cards[l[2]].upTo = l[3]
  BY DEF OllTyped, BoundsEncoded
<1>2. cards \in Seq(TotalizersOver(Literals))
  BY DEF OllTyped, Totalizers
<1> QED
  BY <1>1, <1>2, RaiseIs DEF Totalizers

\* The constraints before a core are raised where it has a bound, and one counts it.
AfterCore(cs, C) ==
  /\ cs \in Seq(Totalizers) /\ WellFormed(cs) /\ Len(cards) \in Nat
  /\ Len(cs) = IF Cardinality(C) > 1 THEN Len(cards) + 1 ELSE Len(cards)
  /\ \A t \in 1 .. Len(cards) :
       /\ cs[t].lits = cards[t].lits
       /\ cs[t].upTo =
            IF \E l \in CoreOutputs(C) : l[2] = t THEN cards[t].upTo + 1 ELSE cards[t].upTo
  /\ Cardinality(C) > 1 => cs[Len(cards) + 1] = [lits |-> C, upTo |-> 1]

\* The constraints after a core: those before, which stay well formed, and one that
\* counts the core itself if it has several literals.
LEMMA RelaxedCards ==
  ASSUME OllTyped, BoundsEncoded, NEW C, IsCore(C), NEW cs, cs = CardsAfter(C)
  PROVE  AfterCore(cs, C)
<1> DEFINE n == Len(cards)
           raised == RaiseAll(cards, CoreOutputs(C))
<1> USE DEF IsCore, CardsAfter
<1>1. n \in Nat /\ WellFormed(cards) /\ \A t \in 1 .. n : cards[t].upTo \in Nat
  <2>1. n \in Nat /\ WellFormed(cards) /\ \A t \in 1 .. n : cards[t] \in Totalizers
    BY DEF OllTyped
  <2> QED
    BY <2>1 DEF Totalizers, TotalizersOver
<1>2. /\ raised \in Seq(Totalizers) /\ Len(raised) = n
      /\ \A t \in 1 .. n :
              /\ raised[t].lits = cards[t].lits
              /\ raised[t].upTo =
                   IF \E l \in CoreOutputs(C) : l[2] = t THEN cards[t].upTo + 1 ELSE cards[t].upTo
  BY RaisedAre
<1>3. [lits |-> C, upTo |-> 1] \in Totalizers /\ Card(C, 1) = [lits |-> C, upTo |-> 1]
  BY DEF Totalizers, TotalizersOver, Card
<1> HIDE DEF raised
<1>4. /\ cs \in Seq(Totalizers)
      /\ Len(cs) = IF Cardinality(C) > 1 THEN n + 1 ELSE n
      /\ \A t \in 1 .. n : cs[t] = raised[t]
      /\ Cardinality(C) > 1 => cs[n + 1] = [lits |-> C, upTo |-> 1]
  <2>1. CASE Cardinality(C) > 1
    <3>1. cs = Append(raised, [lits |-> C, upTo |-> 1])
      BY <1>3, <2>1 DEF raised
    <3>2. \A t \in 1 .. n : t \in 1 .. Len(raised)
      BY <1>2
    <3>3. cs[Len(raised) + 1] = [lits |-> C, upTo |-> 1]
      BY <1>2, <1>3, <3>1, Appended
    <3>4. cs \in Seq(Totalizers) /\ Len(cs) = Len(raised) + 1
          /\ \A t \in 1 .. Len(raised) : cs[t] = raised[t]
      <4> DEFINE x == [lits |-> C, upTo |-> 1]
      <4>1. raised \in Seq(Totalizers) /\ x \in Totalizers /\ cs = Append(raised, x)
        BY <1>2, <1>3, <3>1
      <4> HIDE DEF x
      <4>2. Append(raised, x) \in Seq(Totalizers) /\ Len(Append(raised, x)) = Len(raised) + 1
        BY <4>1, Appended
      <4>3. \A t \in 1 .. Len(raised) : Append(raised, x)[t] = raised[t]
        BY <4>1, Appended
      <4> QED
        BY <4>1, <4>2, <4>3
    <3> QED
      BY <1>2, <2>1, <3>3, <3>4
  <2>2. CASE ~ (Cardinality(C) > 1)
    <3>1. cs = raised
      BY <2>2 DEF raised
    <3> QED
      BY <1>2, <2>2, <3>1
  <2> QED
    BY <2>1, <2>2
<1>5. /\ \A t \in 1 .. n :
           /\ cs[t].lits = cards[t].lits
           /\ cs[t].upTo =
                IF \E l \in CoreOutputs(C) : l[2] = t THEN cards[t].upTo + 1 ELSE cards[t].upTo
      /\ \A t \in 1 .. n : cards[t].upTo <= cs[t].upTo /\ cs[t].upTo \in Nat
  BY <1>1, <1>2, <1>4
<1>6. WellFormed(cs)
  <2>1. Len(cs) \in Nat
    BY <1>1, <1>4
  <2>2. ASSUME NEW t \in 1 .. n
        PROVE  /\ IsFiniteSet(cs[t].lits)
               /\ \A l \in cs[t].lits : ~ IsSoft(l) =>
                    l[2] \in 1 .. t - 1 /\ l[3] \in Nat /\ l[3] <= cs[l[2]].upTo
    <3>1. ASSUME NEW l \in cs[t].lits, ~ IsSoft(l)
          PROVE  l[2] \in 1 .. t - 1 /\ l[3] \in Nat /\ l[3] <= cs[l[2]].upTo
      <4>1. l[2] \in 1 .. t - 1 /\ l[3] \in Nat /\ l[3] <= cards[l[2]].upTo
        BY <1>1, <1>5, <3>1 DEF WellFormed
      <4>2. l[2] \in 1 .. n
        BY <1>1, <4>1
      <4>3. cards[l[2]].upTo \in Nat /\ cs[l[2]].upTo \in Nat /\ cards[l[2]].upTo <= cs[l[2]].upTo
        BY <1>1, <1>5, <4>2
      <4> QED
        BY <4>1, <4>3, AtMostTrans
    <3>2. IsFiniteSet(cs[t].lits)
      BY <1>1, <1>5 DEF WellFormed
    <3> QED
      BY <3>1, <3>2
  <2>3. ASSUME Cardinality(C) > 1
        PROVE  /\ IsFiniteSet(cs[n + 1].lits)
               /\ \A l \in cs[n + 1].lits : ~ IsSoft(l) =>
                    l[2] \in 1 .. n + 1 - 1 /\ l[3] \in Nat /\ l[3] <= cs[l[2]].upTo
    <3>1. cs[n + 1].lits = C
      BY <1>4, <2>3
    <3>2. ASSUME NEW l \in C, ~ IsSoft(l)
          PROVE  l[2] \in 1 .. n + 1 - 1 /\ l[3] \in Nat /\ l[3] <= cs[l[2]].upTo
      <4>1. l \in bounds
        BY <3>2 DEF CoreOutputs
      <4>2. l[2] \in 1 .. n /\ l[3] \in Nat /\ cards[l[2]].upTo = l[3]
        BY <4>1, BoundsRead DEF BoundsEncoded
      <4>3. cs[l[2]].upTo \in Nat /\ cards[l[2]].upTo <= cs[l[2]].upTo
        BY <1>5, <4>2
      <4>4. l[3] <= cs[l[2]].upTo
        BY <4>2, <4>3
      <4>5. n + 1 - 1 = n
        BY <1>1
      <4> QED
        BY <4>2, <4>4, <4>5
    <3> QED
      BY <3>1, <3>2
  <2>4. \A t \in 1 .. Len(cs) : t \in 1 .. n \/ (Cardinality(C) > 1 /\ t = n + 1)
    BY <1>1, <1>4
  <2> QED
    BY <2>1, <2>2, <2>3, <2>4 DEF WellFormed
<1> QED
  BY <1>1, <1>4, <1>5, <1>6 DEF AfterCore

\* The image of a finite set, which has as many elements if the function is injective.
LEMMA FiniteImage ==
  ASSUME NEW S, IsFiniteSet(S), NEW g
  PROVE  /\ IsFiniteSet({g[x] : x \in S})
         /\ (\A x, y \in S : g[x] = g[y] => x = y)
              => Cardinality({g[x] : x \in S}) = Cardinality(S)
<1> DEFINE T == {g[x] : x \in S}
           f == [x \in S |-> g[x]]
<1>1. f \in Surjection(S, T)
  BY DEF Surjection
<1>2. IsFiniteSet(T)
  BY <1>1, FS_Surjection
<1>3. ASSUME \A x, y \in S : g[x] = g[y] => x = y
      PROVE  Cardinality(T) = Cardinality(S)
  <2>1. f \in Bijection(S, T)
    BY <1>1, <1>3 DEF Bijection, Injection, IsInjective, Surjection
  <2>2. ExistsBijection(S, T)
    BY <2>1 DEF ExistsBijection
  <2> QED
    BY <2>2, FS_Bijection
<1> QED
  BY <1>2, <1>3

\* The next bound of the totalizer of each bound in the core.
NextOf(C) == [l \in CoreOutputs(C) |-> OutLit(l[2], l[3] + 1)]

\* The bounds of a core whose totalizer has a next one.
WithNext(C) == {l \in CoreOutputs(C) : l[3] + 1 < Cardinality(cards[l[2]].lits)}

\* The bounds of a core are replaced by the next ones.
Replaced(C) == (bounds \ CoreOutputs(C)) \cup {NextOf(C)[l] : l \in WithNext(C)}

\* It is a new literal, another one for each bound.
LEMMA NextOfIs ==
  ASSUME OllTyped, BoundsEncoded, NEW C, IsCore(C), NEW l \in CoreOutputs(C)
  PROVE  /\ NextOf(C)[l] = OutLit(l[2], l[3] + 1)
         /\ NextOf(C)[l] \in Outputs
         /\ NextOf(C)[l][2] = l[2] /\ NextOf(C)[l][3] = l[3] + 1
         /\ NextOf(C)[l] \notin bounds
         /\ \A m \in CoreOutputs(C) : NextOf(C)[m] = NextOf(C)[l] => m = l
<1> USE DEF IsCore
<1>1. ASSUME NEW m \in CoreOutputs(C)
      PROVE  /\ NextOf(C)[m] = OutLit(m[2], m[3] + 1)
             /\ NextOf(C)[m][2] = m[2] /\ NextOf(C)[m][3] = m[3] + 1
             /\ m \in bounds /\ m[2] \in Nat /\ m[3] \in Nat /\ m \in Outputs
  <2>1. m \in bounds
    OBVIOUS
  <2>2. m \in Outputs
    BY <2>1 DEF OllTyped
  <2>3. NextOf(C)[m] = OutLit(m[2], m[3] + 1)
    BY DEF NextOf
  <2> QED
    BY <2>1, <2>2, <2>3, LiteralsAre
<1>2. NextOf(C)[l] \in Outputs
  <2>1. l[2] \in Nat /\ l[3] + 1 \in Nat /\ NextOf(C)[l] = OutLit(l[2], l[3] + 1)
    BY <1>1
  <2> QED
    BY <2>1 DEF Outputs
<1>3. NextOf(C)[l] \notin bounds
  <2>1. ASSUME NextOf(C)[l] \in bounds PROVE FALSE
    <3>1. NextOf(C)[l] = l
      BY <1>1, <2>1, BoundsRead
    <3>2. l[3] = l[3] + 1 /\ l[3] \in Nat
      BY <1>1, <3>1
    <3> QED
      BY <3>2
  <2> QED
    BY <2>1
<1>4. ASSUME NEW m \in CoreOutputs(C), NextOf(C)[m] = NextOf(C)[l] PROVE m = l
  <2>1. m[2] = l[2] /\ m \in bounds /\ l \in bounds
    BY <1>1, <1>4
  <2> QED
    BY <2>1, BoundsRead
<1> QED
  BY <1>1, <1>2, <1>3, <1>4

\* The bounds after a core.
LEMMA BoundsAfterIs ==
  ASSUME OllTyped, BoundsEncoded, NEW C, IsCore(C), NEW cs, AfterCore(cs, C)
  PROVE  Oll!BoundsAfter(cs, C) =
           Replaced(C) \cup (IF Cardinality(C) > 1 THEN {OutLit(Len(cs), 1)} ELSE {})
<1> USE DEF IsCore, AfterCore
<1> DEFINE next == UNION {NextBound(cs, l) : l \in CoreOutputs(C)}
<1>1. Oll!BoundsAfter(cs, C) =
        (bounds \ CoreOutputs(C)) \cup next
           \cup (IF Cardinality(C) > 1 THEN {OutLit(Len(cs), 1)} ELSE {})
  BY OllReads, OllCardinality DEF Oll!BoundsAfter, CoreOutputs
<1>2. ASSUME NEW l \in CoreOutputs(C)
      PROVE  NextBound(cs, l) = IF l \in WithNext(C) THEN {NextOf(C)[l]} ELSE {}
  <2>1. l \in bounds
    OBVIOUS
  <2>2. l[2] \in 1 .. Len(cards)
    BY <2>1, BoundsRead
  <2> QED
    BY <2>2, NextOfIs DEF NextBound, WithNext
<1>3. next = {NextOf(C)[l] : l \in WithNext(C)}
  <2>1. \A x : x \in next <=> \E l \in CoreOutputs(C) : x \in NextBound(cs, l)
    OBVIOUS
  <2>2. \A l : l \in WithNext(C) => l \in CoreOutputs(C)
    BY DEF WithNext
  <2> HIDE DEF next
  <2> QED
    BY <1>2, <2>1, <2>2
<1> QED
  BY <1>1, <1>3 DEF Replaced

\* They are live, at most one of each totalizer.
LEMMA BoundsAfterLive ==
  ASSUME OllTyped, BoundsEncoded, NEW C, IsCore(C), NEW cs, cs = CardsAfter(C)
  PROVE  /\ Oll!BoundsAfter(cs, C) \in SUBSET Outputs /\ IsFiniteSet(Oll!BoundsAfter(cs, C))
         /\ \A l \in Oll!BoundsAfter(cs, C) : /\ l[2] \in 1 .. Len(cs)
                                              /\ cs[l[2]].upTo = l[3]
                                              /\ l[3] < Cardinality(cs[l[2]].lits)
         /\ \A l \in Replaced(C) : l \in Outputs /\ l[2] \in 1 .. Len(cards)
         /\ IsFiniteSet(Replaced(C))
<1> USE DEF IsCore
<1> DEFINE n == Len(cards)
           Live(l) == /\ l \in Outputs /\ l[2] \in 1 .. n
                      /\ cs[l[2]].upTo = l[3]
                      /\ l[3] < Cardinality(cs[l[2]].lits)
<1>1. /\ n \in Nat
      /\ Len(cs) = IF Cardinality(C) > 1 THEN n + 1 ELSE n
      /\ \A t \in 1 .. n :
           /\ cs[t].lits = cards[t].lits
           /\ cs[t].upTo =
                IF \E l \in CoreOutputs(C) : l[2] = t THEN cards[t].upTo + 1 ELSE cards[t].upTo
      /\ Cardinality(C) > 1 => cs[n + 1] = [lits |-> C, upTo |-> 1]
  BY RelaxedCards DEF AfterCore
<1>2. Oll!BoundsAfter(cs, C) =
        Replaced(C) \cup (IF Cardinality(C) > 1 THEN {OutLit(Len(cs), 1)} ELSE {})
  BY RelaxedCards, BoundsAfterIs
<1>3. ASSUME NEW l \in bounds, l \notin CoreOutputs(C)
      PROVE  Live(l)
  <2>1. l \in Outputs /\ l[2] \in 1 .. n
    BY BoundsRead
  <2>2. ~ \E m \in CoreOutputs(C) : m[2] = l[2]
    BY <1>3, BoundsRead
  <2> QED
    BY <1>1, <2>1, <2>2 DEF BoundsEncoded
<1>4. ASSUME NEW l \in WithNext(C)
      PROVE  Live(NextOf(C)[l])
  <2>1. l \in CoreOutputs(C) /\ l \in bounds /\ l[3] + 1 < Cardinality(cards[l[2]].lits)
    BY DEF WithNext
  <2>2. NextOf(C)[l] \in Outputs /\ NextOf(C)[l][2] = l[2] /\ NextOf(C)[l][3] = l[3] + 1
    BY <2>1, NextOfIs
  <2>3. l[2] \in 1 .. n /\ cards[l[2]].upTo = l[3]
    BY <2>1 DEF BoundsEncoded
  <2>4. cs[l[2]].upTo = l[3] + 1 /\ cs[l[2]].lits = cards[l[2]].lits
    BY <1>1, <2>1, <2>3
  <2> QED
    BY <2>1, <2>2, <2>3, <2>4
<1>5. \A l \in Replaced(C) : Live(l)
  BY <1>3, <1>4 DEF Replaced
<1>6. IsFiniteSet(Replaced(C))
  <2>1. CoreOutputs(C) \in SUBSET bounds /\ WithNext(C) \in SUBSET bounds
        /\ bounds \ CoreOutputs(C) \in SUBSET bounds /\ IsFiniteSet(bounds)
    BY DEF WithNext, OllTyped
  <2>2. IsFiniteSet(WithNext(C)) /\ IsFiniteSet(bounds \ CoreOutputs(C))
    BY <2>1, FS_Subset
  <2>3. IsFiniteSet({NextOf(C)[l] : l \in WithNext(C)})
    BY <2>2, FiniteImage
  <2> QED
    BY <2>2, <2>3, FS_Union DEF Replaced
<1>7. ASSUME Cardinality(C) > 1
      PROVE  LET l == OutLit(Len(cs), 1)
             IN  /\ l \in Outputs /\ l[2] \in 1 .. Len(cs) /\ cs[l[2]].upTo = l[3]
                 /\ l[3] < Cardinality(cs[l[2]].lits)
  <2>1. Len(cs) = n + 1 /\ cs[n + 1].upTo = 1 /\ cs[n + 1].lits = C
    BY <1>1, <1>7
  <2>2. OutLit(n + 1, 1) \in Outputs
    <3>1. n + 1 \in Nat /\ 1 \in Nat
      BY <1>1
    <3> HIDE DEF n
    <3> QED
      BY <3>1 DEF Outputs
  <2> QED
    BY <1>1, <1>7, <2>1, <2>2, LiteralsAre
<1>8. 1 .. n \subseteq 1 .. Len(cs)
  BY <1>1
<1>9. IsFiniteSet(Oll!BoundsAfter(cs, C))
  <2> DEFINE more == IF Cardinality(C) > 1 THEN {OutLit(Len(cs), 1)} ELSE {}
  <2>1. IsFiniteSet({OutLit(Len(cs), 1)}) /\ IsFiniteSet({})
    BY FS_Singleton, FS_EmptySet
  <2>2. IsFiniteSet(more)
    BY <2>1
  <2> HIDE DEF more
  <2>3. IsFiniteSet(Replaced(C) \cup more)
    BY <1>6, <2>2, FS_Union
  <2> QED
    BY <1>2, <2>3 DEF more
<1> HIDE DEF Live
<1>10. ASSUME NEW l \in Oll!BoundsAfter(cs, C)
       PROVE  /\ l \in Outputs /\ l[2] \in 1 .. Len(cs)
              /\ cs[l[2]].upTo = l[3]
              /\ l[3] < Cardinality(cs[l[2]].lits)
  <2>1. CASE l \in Replaced(C)
    BY <1>5, <1>8, <2>1 DEF Live
  <2>2. CASE l \notin Replaced(C)
    BY <1>2, <1>7, <2>2
  <2> QED
    BY <2>1, <2>2
<1> QED
  BY <1>5, <1>6, <1>9, <1>10 DEF Live

\* What a core of true literals C costs a model F: one is paid, the others exceed the
\* bounds that replace those of the core.
LEMMA RelaxedCost ==
  ASSUME OllTyped, BoundsEncoded, NEW C, IsCore(C), CoreSofts(C) \cap activeSoft = {},
         NEW cs, cs = CardsAfter(C),
         NEW F \in SUBSET Soft, \E l \in C : True(cards, F, l)
  PROVE  Cardinality(F \ activeSoft) + Sum(Weight(cards, F), bounds)
           = 1 + Cardinality(F \ (activeSoft \cup CoreSofts(C)))
               + Sum(Weight(cs, F), Oll!BoundsAfter(cs, C))
<1> USE DEF IsCore
<1> DEFINE n == Len(cards)
           c == Counts(cards, F)
           d == Counts(cs, F)
           w == Weight(cs, F)
           outs == CoreOutputs(C)
           E == {l \in outs : True(cards, F, l)}
           v == [l \in outs |-> IF l \in E THEN 1 ELSE 0]
           truth == {l \in C : True(cards, F, l)}
<1>1. /\ n \in Nat /\ WellFormed(cards) /\ WellFormed(cs)
      /\ Len(cs) = IF Cardinality(C) > 1 THEN n + 1 ELSE n
      /\ \A t \in 1 .. n : cs[t].lits = cards[t].lits
      /\ Cardinality(C) > 1 => cs[n + 1] = [lits |-> C, upTo |-> 1]
      /\ IsFiniteSet(bounds) /\ IsFiniteSet(outs)
  <2>1. IsFiniteSet(bounds) /\ WellFormed(cards)
    BY DEF OllTyped
  <2>2. IsFiniteSet(outs)
    BY <2>1, FS_Subset
  <2>3. /\ n \in Nat /\ WellFormed(cs)
        /\ Len(cs) = IF Cardinality(C) > 1 THEN n + 1 ELSE n
        /\ \A t \in 1 .. n : cs[t].lits = cards[t].lits
        /\ Cardinality(C) > 1 => cs[n + 1] = [lits |-> C, upTo |-> 1]
    BY RelaxedCards DEF AfterCore
  <2> QED
    BY <2>1, <2>2, <2>3
<1>2. \A t \in 1 .. n : d[t] = c[t]
  <2>1. Len(cards) <= Len(cs)
    BY <1>1
  <2>2. Extends(cs, cards)
    BY <1>1, <2>1 DEF Extends
  <2>3. \A t \in 1 .. Len(cards) : Counts(cs, F)[t] = Counts(cards, F)[t]
    BY <2>2, CountsKept
  <2> QED
    BY <2>3
<1>w. /\ \A l \in Outputs : l[2] \in 1 .. Len(cs) =>
           /\ w[l] = IF d[l[2]] > l[3] THEN d[l[2]] - l[3] ELSE 0
           /\ w[l] \in Nat
      /\ \A t \in 1 .. Len(cs) : d[t] = Cardinality(TrueOf(d, cs, F, t))
  <2>1. WellFormed(cs)
    BY <1>1
  <2>2. \A t \in 1 .. Len(cs) : d[t] = Cardinality(TrueOf(d, cs, F, t))
    BY <2>1, CountsAre
  <2>3. ASSUME NEW l \in Outputs, l[2] \in 1 .. Len(cs)
        PROVE  w[l] = (IF d[l[2]] > l[3] THEN d[l[2]] - l[3] ELSE 0) /\ w[l] \in Nat
    BY <2>1, <2>3, WeightIs
  <2> HIDE DEF c, d, w
  <2> QED
    BY <2>2, <2>3
<1>c. /\ \A t \in 1 .. n : /\ c[t] \in Nat /\ c[t] <= Cardinality(cards[t].lits)
                           /\ Cardinality(cards[t].lits) \in Nat
      /\ \A l \in Outputs : l[2] \in 1 .. n =>
           Weight(cards, F)[l] = IF c[l[2]] > l[3] THEN c[l[2]] - l[3] ELSE 0
  <2>1. WellFormed(cards)
    BY <1>1
  <2>2. ASSUME NEW t \in 1 .. n
        PROVE  c[t] \in Nat /\ c[t] <= Cardinality(cards[t].lits)
               /\ Cardinality(cards[t].lits) \in Nat
    BY <2>1, CountsAre
  <2>3. ASSUME NEW l \in Outputs, l[2] \in 1 .. n
        PROVE  Weight(cards, F)[l] = IF c[l[2]] > l[3] THEN c[l[2]] - l[3] ELSE 0
    BY <2>1, <2>3, WeightIs
  <2> HIDE DEF c
  <2> QED
    BY <2>2, <2>3
<1>b. \A l \in bounds : True(cards, F, l) <=> c[l[2]] > l[3]
  BY BoundsRead
<1> HIDE DEF c, d, w
<1>3. ASSUME NEW l \in bounds
      PROVE  /\ l \in Outputs /\ ~ IsSoft(l) /\ l[2] \in 1 .. n /\ l[3] \in Nat
             /\ c[l[2]] \in Nat /\ c[l[2]] <= Cardinality(cards[l[2]].lits)
             /\ Cardinality(cards[l[2]].lits) \in Nat
             /\ True(cards, F, l) <=> c[l[2]] > l[3]
             /\ w[l] = IF c[l[2]] > l[3] THEN c[l[2]] - l[3] ELSE 0
             /\ w[l] \in Nat /\ Weight(cards, F)[l] = w[l]
  <2>1. l \in Outputs /\ ~ IsSoft(l) /\ l[2] \in 1 .. n /\ l[3] \in Nat
    BY BoundsRead
  <2>2. l[2] \in 1 .. Len(cs) /\ d[l[2]] = c[l[2]]
    BY <1>1, <1>2, <2>1
  <2>3. w[l] = (IF d[l[2]] > l[3] THEN d[l[2]] - l[3] ELSE 0) /\ w[l] \in Nat
    BY <1>w, <2>1, <2>2
  <2>4. Weight(cards, F)[l] = IF c[l[2]] > l[3] THEN c[l[2]] - l[3] ELSE 0
    BY <1>c, <2>1
  <2>5. c[l[2]] \in Nat /\ c[l[2]] <= Cardinality(cards[l[2]].lits)
        /\ Cardinality(cards[l[2]].lits) \in Nat
    BY <1>c, <2>1
  <2> QED
    BY <1>b, <2>1, <2>2, <2>3, <2>4, <2>5
<1>4. ASSUME NEW l \in WithNext(C)
      PROVE  /\ NextOf(C)[l] \notin bounds /\ w[NextOf(C)[l]] \in Int
             /\ w[l] = w[NextOf(C)[l]] + v[l]
  <2> DEFINE m == NextOf(C)[l]
  <2>1. l \in outs /\ l \in bounds
    BY DEF WithNext
  <2>2. m \notin bounds /\ m \in Outputs /\ m[2] = l[2] /\ m[3] = l[3] + 1
    BY <2>1, NextOfIs
  <2>3. l[2] \in 1 .. n /\ l[2] \in 1 .. Len(cs) /\ d[l[2]] = c[l[2]] /\ l[3] \in Nat
        /\ c[l[2]] \in Nat
    BY <1>1, <1>2, <1>3, <2>1
  <2>4. w[m] \in Nat /\ w[m] = IF d[m[2]] > m[3] THEN d[m[2]] - m[3] ELSE 0
    BY <1>w, <2>2, <2>3
  <2>5. v[l] = IF c[l[2]] > l[3] THEN 1 ELSE 0
    BY <1>3, <2>1
  <2>6. w[l] = IF c[l[2]] > l[3] THEN c[l[2]] - l[3] ELSE 0
    BY <1>3, <2>1
  <2> HIDE DEF v, m
  <2>7. w[m] = IF c[l[2]] > l[3] + 1 THEN c[l[2]] - (l[3] + 1) ELSE 0
    BY <2>2, <2>3, <2>4
  <2> DEFINE a == c[l[2]]
             b == l[3]
  <2>8. a \in Nat /\ b \in Nat
    BY <2>3
  <2>9. w[l] = w[m] + v[l]
    <3>1. /\ w[l] = IF a > b THEN a - b ELSE 0
          /\ w[m] = IF a > b + 1 THEN a - (b + 1) ELSE 0
          /\ v[l] = IF a > b THEN 1 ELSE 0
      BY <2>5, <2>6, <2>7
    <3> HIDE DEF a, b
    <3> QED
      BY <2>8, <3>1
  <2> QED
    BY <2>2, <2>4, <2>9 DEF m
<1>5. ASSUME NEW l \in outs, l \notin WithNext(C)
      PROVE  w[l] = v[l]
  <2> DEFINE a == c[l[2]]
             b == l[3]
             k == Cardinality(cards[l[2]].lits)
  <2>1. l \in bounds
    OBVIOUS
  <2>2. a \in Nat /\ b \in Nat /\ k \in Nat /\ a <= k /\ ~ (b + 1 < k)
        /\ w[l] = (IF a > b THEN a - b ELSE 0)
    BY <1>3, <1>5, <2>1 DEF WithNext
  <2>3. v[l] = IF a > b THEN 1 ELSE 0
    BY <1>3, <2>1
  <2> HIDE DEF a, b, k, v
  <2> QED
    BY <2>2, <2>3
<1>6. Sum(w, bounds) = Sum(w, Replaced(C)) + Sum(v, outs)
  <2>1. outs \in SUBSET bounds /\ WithNext(C) \in SUBSET outs
    BY DEF WithNext
  <2>2. \A l \in bounds : w[l] \in Int
    BY <1>3
  <2>3. \A l \in outs : v[l] \in Int
    OBVIOUS
  <2>4. \A l, m \in WithNext(C) : NextOf(C)[l] = NextOf(C)[m] => l = m
    BY <2>1, NextOfIs
  <2> DEFINE g == NextOf(C)
             room == WithNext(C)
  <2>5. Replaced(C) = (bounds \ outs) \cup {g[x] : x \in room}
    BY DEF Replaced
  <2>6. /\ \A x \in room : g[x] \notin bounds /\ w[g[x]] \in Int /\ w[x] = w[g[x]] + v[x]
        /\ \A x \in outs : x \notin room => w[x] = v[x]
    BY <1>4, <1>5
  <2> HIDE DEF v, outs, g, room
  <2>7. IsFiniteSet(bounds) /\ outs \in SUBSET bounds /\ room \in SUBSET outs
    BY <1>1, <2>1 DEF room
  <2>8. \A x, y \in room : g[x] = g[y] => x = y
    BY <2>4 DEF g, room
  <2>9. Sum(w, bounds) = Sum(w, (bounds \ outs) \cup {g[x] : x \in room}) + Sum(v, outs)
    <3>1. /\ \A x \in room : g[x] \notin bounds /\ w[g[x]] \in Int /\ w[x] = w[g[x]] + v[x]
          /\ \A x \in outs : x \notin room => w[x] = v[x]
      BY <2>6
    <3>2. Replaces(w, v, bounds, outs, room, g)
      BY <2>2, <2>3, <2>7, <2>8, <3>1 DEF Replaces
    <3> QED
      BY <3>2, SumReplaces
  <2> QED
    BY <2>5, <2>9
<1>7. Sum(v, outs) = Cardinality(E) /\ Cardinality(E) \in Nat /\ IsFiniteSet(E)
  <2>1. E \in SUBSET outs /\ \A l \in outs : v[l] = IF l \in E THEN 1 ELSE 0
    OBVIOUS
  <2>2. IsFiniteSet(E)
    BY <1>1, <2>1, FS_Subset
  <2> HIDE DEF E, v, outs
  <2> QED
    BY <1>1, <2>1, <2>2, SumCounts, FS_CardinalityType
<1>8. Sum(Weight(cards, F), bounds) = Sum(w, bounds)
  <2>1. \A l \in bounds : Weight(cards, F)[l] \in Int /\ Weight(cards, F)[l] = w[l]
    BY <1>3
  <2> QED
    BY <1>1, <2>1, SumEqual
<1>9. /\ Cardinality(truth) = Cardinality(F \cap CoreSofts(C)) + Cardinality(E)
      /\ IsFiniteSet(truth) /\ Cardinality(truth) \in Nat /\ Cardinality(truth) >= 1
      /\ Cardinality(truth) <= Cardinality(C)
      /\ Cardinality(F \cap CoreSofts(C)) \in Nat
  <2> DEFINE both == F \cap CoreSofts(C)
             g == [i \in both |-> SoftLit(i)]
             image == {g[i] : i \in both}
  <2>1. both \in SUBSET Soft /\ IsFiniteSet(both) /\ Cardinality(both) \in Nat
    <3>1. both \in SUBSET Soft
      OBVIOUS
    <3> QED
      BY <3>1, SubsetCardinality
  <2>2. \A i, j \in both : g[i] = g[j] => i = j
    BY LiteralsAre
  <2>3. IsFiniteSet(image) /\ Cardinality(image) = Cardinality(both)
    <3> HIDE DEF g, both
    <3> QED
      BY <2>1, <2>2, FiniteImage
  <2>4. truth = image \cup E
    <3>1. ASSUME NEW l \in C, IsSoft(l)
          PROVE  True(cards, F, l) <=> l \in image
      <4>1. l[2] \in Soft /\ l = SoftLit(l[2])
        BY <3>1, LiteralsAre
      <4>2. True(cards, F, l) <=> l[2] \in F
        BY <3>1 DEF True
      <4>3. l[2] \in CoreSofts(C)
        BY <4>1 DEF CoreSofts
      <4>4. l \in image => l[2] \in F
        BY LiteralsAre
      <4>5. l[2] \in F => l \in image
        BY <4>1, <4>3
      <4> QED
        BY <4>2, <4>4, <4>5
    <3>2. \A l \in image : l \in C /\ IsSoft(l)
      BY LiteralsAre DEF CoreSofts
    <3>3. \A l : l \in E <=> l \in C /\ ~ IsSoft(l) /\ True(cards, F, l)
      BY DEF CoreOutputs
    <3> HIDE DEF image, E
    <3> QED
      BY <3>1, <3>2, <3>3
  <2>5. image \cap E = {}
    BY LiteralsAre DEF CoreOutputs
  <2>6. Cardinality(image \cup E) = Cardinality(image) + Cardinality(E)
    <3> HIDE DEF image, E
    <3>1. Cardinality(image \cup E) =
            Cardinality(image) + Cardinality(E) - Cardinality(image \cap E)
      BY <1>7, <2>3, FS_Union
    <3>2. Cardinality(image \cap E) = 0
      BY <2>5, EmptyHasNone
    <3> QED
      BY <1>7, <2>1, <2>3, <3>1, <3>2
  <2>7. /\ IsFiniteSet(truth) /\ Cardinality(truth) \in Nat
        /\ Cardinality(truth) <= Cardinality(C) /\ truth # {}
    <3>1. truth \in SUBSET C /\ truth # {}
      OBVIOUS
    <3> HIDE DEF truth
    <3> QED
      BY <3>1, FS_Subset, FS_CardinalityType
  <2>8. Cardinality(truth) # 0
    BY <2>7, FS_EmptySet
  <2>9. Cardinality(truth) = Cardinality(both) + Cardinality(E)
    <3> HIDE DEF truth, image, E, both
    <3> QED
      BY <2>3, <2>4, <2>6
  <2> HIDE DEF truth, E
  <2> QED
    BY <2>1, <2>7, <2>8, <2>9
<1>10. /\ Cardinality(F \ activeSoft)
            = Cardinality(F \cap CoreSofts(C)) + Cardinality(F \ (activeSoft \cup CoreSofts(C)))
       /\ Cardinality(F \ (activeSoft \cup CoreSofts(C))) \in Nat
  <2>1. F \ activeSoft \in SUBSET Soft /\ CoreSofts(C) \in SUBSET Soft
        /\ F \ (activeSoft \cup CoreSofts(C)) \in SUBSET Soft
    BY DEF CoreSofts
  <2>2. /\ (F \ activeSoft) \cap CoreSofts(C) = F \cap CoreSofts(C)
        /\ (F \ activeSoft) \ CoreSofts(C) = F \ (activeSoft \cup CoreSofts(C))
    OBVIOUS
  <2>3. Cardinality(F \ activeSoft) = Cardinality((F \ activeSoft) \cap CoreSofts(C))
                                       + Cardinality((F \ activeSoft) \ CoreSofts(C))
    BY <2>1, SplitCardinality
  <2> QED
    BY <2>1, <2>2, <2>3, SubsetCardinality
<1>11. Sum(w, Oll!BoundsAfter(cs, C)) = Sum(w, Replaced(C)) + (Cardinality(truth) - 1)
       /\ Sum(w, Replaced(C)) \in Int
  <2>1. Oll!BoundsAfter(cs, C) =
          Replaced(C) \cup (IF Cardinality(C) > 1 THEN {OutLit(Len(cs), 1)} ELSE {})
    BY RelaxedCards, BoundsAfterIs
  <2>2. IsFiniteSet(Replaced(C)) /\ \A l \in Replaced(C) : l \in Outputs /\ l[2] \in 1 .. n
    BY BoundsAfterLive
  <2>3. \A l \in Replaced(C) : w[l] \in Int
    <3>1. ASSUME NEW l \in Replaced(C) PROVE w[l] \in Nat
      <4>1. l \in Outputs /\ l[2] \in 1 .. Len(cs)
        BY <1>1, <2>2
      <4> QED
        BY <1>w, <4>1
    <3> QED
      BY <3>1
  <2>4. Sum(w, Replaced(C)) \in Int
    BY <2>2, <2>3, SumType
  <2>5. CASE Cardinality(C) > 1
    <3> DEFINE new == OutLit(n + 1, 1)
    <3>1. /\ Len(cs) = n + 1 /\ cs[n + 1].lits = C /\ n + 1 \in 1 .. Len(cs)
          /\ Oll!BoundsAfter(cs, C) = Replaced(C) \cup {new}
      BY <1>1, <2>1, <2>5
    <3>2. new[2] = n + 1 /\ new[3] = 1 /\ new \in Outputs
      <4>1. n + 1 \in Nat /\ 1 \in Nat
        BY <1>1
      <4> HIDE DEF n
      <4> QED
        BY <4>1, LiteralsAre DEF Outputs
    <3>3. new \notin Replaced(C)
      <4>1. ASSUME new \in Replaced(C) PROVE FALSE
        <5>1. n + 1 \in 1 .. n
          BY <2>2, <3>2, <4>1
        <5> QED
          BY <1>1, <5>1
      <4> QED
        BY <4>1
    <3>4. d[n + 1] = Cardinality(truth)
      <4>1. d[n + 1] = Cardinality(TrueOf(d, cs, F, n + 1))
        BY <1>w, <3>1
      <4>2. TrueOf(d, cs, F, n + 1) = {l \in C : Holds(d, F, l)}
        BY <3>1 DEF TrueOf
      <4>3. ASSUME NEW l \in C PROVE Holds(d, F, l) <=> True(cards, F, l)
        <5>1. CASE IsSoft(l)
          BY <5>1 DEF Holds, True
        <5>2. CASE ~ IsSoft(l)
          <6>1. l \in bounds
            BY <5>2 DEF CoreOutputs
          <6>2. d[l[2]] = c[l[2]] /\ (True(cards, F, l) <=> c[l[2]] > l[3])
            BY <1>2, <1>3, <6>1
          <6> QED
            BY <5>2, <6>2 DEF Holds
        <5> QED
          BY <5>1, <5>2
      <4>4. {l \in C : Holds(d, F, l)} = truth
        BY <4>3
      <4> QED
        BY <4>1, <4>2, <4>4
    <3>5. w[new] = (IF d[n + 1] > 1 THEN d[n + 1] - 1 ELSE 0) /\ w[new] \in Nat
      <4> HIDE DEF new
      <4> QED
        BY <1>w, <3>1, <3>2
    <3>6. w[new] = Cardinality(truth) - 1
      <4> HIDE DEF new, truth
      <4> QED
        BY <1>9, <3>4, <3>5
    <3>7. Sum(w, Replaced(C) \cup {new}) = w[new] + Sum(w, Replaced(C))
      <4>1. \A l \in Replaced(C) \cup {new} : w[l] \in Int
        BY <2>3, <3>5
      <4> HIDE DEF new
      <4> QED
        BY <2>2, <3>3, <4>1, SumAdd
    <3> DEFINE k == Cardinality(truth)
               a == Sum(w, Replaced(C))
    <3>8. Sum(w, Oll!BoundsAfter(cs, C)) = w[new] + a
      BY <3>1, <3>7
    <3>9. w[new] = k - 1 /\ k \in Nat /\ a \in Int
      BY <1>9, <2>4, <3>6
    <3> HIDE DEF new, k, a
    <3>10. Sum(w, Oll!BoundsAfter(cs, C)) = a + (k - 1)
      BY <3>8, <3>9
    <3> QED
      BY <3>9, <3>10 DEF k, a
  <2>6. CASE ~ (Cardinality(C) > 1)
    <3>1. Oll!BoundsAfter(cs, C) = Replaced(C)
      BY <2>1, <2>6
    <3>2. Cardinality(truth) = 1
      <4>1. Cardinality(C) \in Nat
        BY FS_CardinalityType
      <4> HIDE DEF truth
      <4> QED
        BY <1>9, <2>6, <4>1
    <3> HIDE DEF truth
    <3> QED
      BY <2>4, <3>1, <3>2
  <2> QED
    BY <2>4, <2>5, <2>6
<1> HIDE DEF truth, E, v, outs
<1>12. Sum(w, bounds) = Sum(w, Replaced(C)) + Cardinality(E)
  BY <1>6, <1>7
<1> DEFINE rest == Cardinality(F \ (activeSoft \cup CoreSofts(C)))
           both == Cardinality(F \cap CoreSofts(C))
           p == Sum(w, Replaced(C))
           q == Sum(w, Oll!BoundsAfter(cs, C))
           e == Cardinality(E)
           k == Cardinality(truth)
<1>13. /\ rest \in Nat /\ both \in Nat /\ p \in Int /\ e \in Nat /\ k \in Nat
       /\ k = both + e /\ q = p + (k - 1)
       /\ Cardinality(F \ activeSoft) = both + rest
       /\ Sum(Weight(cards, F), bounds) = p + e
  BY <1>7, <1>8, <1>9, <1>10, <1>11, <1>12
<1>14. Cardinality(F \ activeSoft) + Sum(Weight(cards, F), bounds) = 1 + rest + q
  <2> HIDE DEF rest, both, p, q, e, k
  <2> QED
    BY <1>13
<1> QED
  BY <1>14 DEF w

\* What exceeds the bounds is not negative.
LEMMA ExcessNat ==
  ASSUME NEW cs, WellFormed(cs), NEW F, NEW B \in SUBSET Outputs, IsFiniteSet(B),
         \A l \in B : l[2] \in 1 .. Len(cs)
  PROVE  Sum(Weight(cs, F), B) \in Nat
<1>1. \A l \in B : Weight(cs, F)[l] \in Nat
  BY WeightIs
<1> QED
  BY <1>1, SumNat

-----------------------------------------------------------------------------
\* A core is made of soft clauses still assumed and bounds still live.
LEMMA CoreIs ==
  ASSUME OllInv, status = "searching", nbSatisfiable > 0, NEW C \in SUBSET assumptions
  PROVE  IsCore(C) /\ CoreSofts(C) \cap activeSoft = {}
<1>1. assumptions = {SoftLit(i) : i \in Soft \ activeSoft} \cup bounds
      /\ bounds \in SUBSET Outputs /\ IsFiniteSet(bounds) /\ assumptions \in SUBSET Literals
  BY DEF OllInv, OllTyped, OllWorking
<1> DEFINE softs == {SoftLit(i) : i \in Soft \ activeSoft}
           g == [i \in Soft \ activeSoft |-> SoftLit(i)]
<1>2. IsFiniteSet(softs)
  <2>1. IsFiniteSet(Soft \ activeSoft)
    BY FormulaAssumption, FS_Subset
  <2>2. softs = {g[i] : i \in Soft \ activeSoft}
    OBVIOUS
  <2> HIDE DEF softs, g
  <2> QED
    BY <2>1, <2>2, FiniteImage
<1>3. IsFiniteSet(C)
  <2> HIDE DEF softs
  <2>1. IsFiniteSet(softs \cup bounds)
    BY <1>1, <1>2, FS_Union
  <2>2. C \in SUBSET (softs \cup bounds)
    BY <1>1 DEF softs
  <2> QED
    BY <2>1, <2>2, FS_Subset
<1>4. CoreOutputs(C) \in SUBSET bounds
  BY <1>1, LiteralsAre DEF CoreOutputs
<1>5. CoreSofts(C) \cap activeSoft = {}
  <2>1. ASSUME NEW i \in CoreSofts(C) PROVE i \notin activeSoft
    <3>1. SoftLit(i) \in assumptions /\ IsSoft(SoftLit(i))
      BY LiteralsAre DEF CoreSofts
    <3>2. SoftLit(i) \notin bounds
      BY <1>1, <3>1, LiteralsAre
    <3>3. PICK j \in Soft \ activeSoft : SoftLit(i) = SoftLit(j)
      BY <1>1, <3>1, <3>2
    <3>4. i = j
      BY <3>3, LiteralsAre
    <3> QED
      BY <3>3, <3>4
  <2> QED
    BY <2>1
<1> QED
  BY <1>1, <1>3, <1>4, <1>5 DEF IsCore

\* A core takes one from every model.
LEMMA OllPays ==
  ASSUME OllInv, status = "searching", nbSatisfiable > 0, NEW C \in SUBSET assumptions,
         \A F \in feasible : \E l \in C : True(cards, F, l)
  PROVE  \A F \in feasible :
           /\ lbCost + 1 <= Cardinality(F)
           /\ Cardinality(F) = lbCost + 1 + Cardinality(F \ (activeSoft \cup CoreSofts(C)))
                 + Sum(Weight(CardsAfter(C), F), Oll!BoundsAfter(CardsAfter(C), C))
<1> DEFINE cs == CardsAfter(C)
<1>1. IsCore(C) /\ CoreSofts(C) \cap activeSoft = {} /\ OllTyped /\ BoundsEncoded
  BY CoreIs DEF OllInv
<1>2. WellFormed(cs)
  BY <1>1, RelaxedCards DEF AfterCore
<1>3. /\ Oll!BoundsAfter(cs, C) \in SUBSET Outputs /\ IsFiniteSet(Oll!BoundsAfter(cs, C))
      /\ \A l \in Oll!BoundsAfter(cs, C) : l[2] \in 1 .. Len(cs)
  BY <1>1, BoundsAfterLive
<1> HIDE DEF cs
<1>4. ASSUME NEW F \in feasible
      PROVE  /\ lbCost + 1 <= Cardinality(F)
             /\ Cardinality(F) = lbCost + 1 + Cardinality(F \ (activeSoft \cup CoreSofts(C)))
                                   + Sum(Weight(cs, F), Oll!BoundsAfter(cs, C))
  <2> DEFINE a == Cardinality(F \ activeSoft)
             b == Sum(Weight(cards, F), bounds)
             x == Cardinality(F \ (activeSoft \cup CoreSofts(C)))
             y == Sum(Weight(cs, F), Oll!BoundsAfter(cs, C))
  <2>1. F \in SUBSET Soft /\ lbCost \in Nat
    BY <1>1, FormulaAssumption DEF OllTyped
  <2>2. Cardinality(F) = lbCost + a + b
    BY DEF OllInv, CostKept
  <2>3. a + b = 1 + x + y
    BY <1>1, <2>1, RelaxedCost DEF cs
  <2>4. x \in Nat /\ y \in Nat /\ a \in Nat
    <3>1. F \ (activeSoft \cup CoreSofts(C)) \in SUBSET Soft /\ F \ activeSoft \in SUBSET Soft
      BY <2>1
    <3> QED
      BY <1>2, <1>3, <3>1, SubsetCardinality, ExcessNat
  <2>5. b \in Nat
    BY <1>1, ExcessNat DEF OllTyped, BoundsEncoded
  <2> HIDE DEF a, b, x, y
  <2>6. lbCost + 1 <= Cardinality(F) /\ Cardinality(F) = lbCost + 1 + x + y
    BY <2>1, <2>2, <2>3, <2>4, <2>5
  <2> QED
    BY <2>6 DEF x, y
<1> QED
  BY <1>4 DEF cs

\* The model of a SAT call under all assumptions costs what the cores have paid, the
\* least that any does.
LEMMA OllSecondModel ==
  ASSUME OllInv, status = "searching", nbSatisfiable > 0, NEW F \in feasible,
         \A l \in assumptions : ~ True(cards, F, l)
  PROVE  Cardinality(F) = lbCost /\ \A G \in feasible : Cardinality(F) <= Cardinality(G)
<1>1. /\ OllTyped /\ BoundsEncoded /\ lbCost \in Nat /\ feasible \in SUBSET SUBSET Soft
      /\ IsFiniteSet(bounds) /\ WellFormed(cards)
      /\ assumptions = {SoftLit(i) : i \in Soft \ activeSoft} \cup bounds
  BY FormulaAssumption DEF OllInv, OllTyped, OllWorking
<1>2. \A G \in feasible :
        Cardinality(G) = lbCost + Cardinality(G \ activeSoft) + Sum(Weight(cards, G), bounds)
  BY DEF OllInv, CostKept
<1>3. F \ activeSoft = {}
  <2>1. ASSUME NEW i \in F \ activeSoft PROVE FALSE
    <3>1. SoftLit(i) \in assumptions
      BY <1>1, <2>1
    <3>2. True(cards, F, SoftLit(i))
      BY <2>1, LiteralsAre DEF True
    <3> QED
      BY <3>1, <3>2
  <2> QED
    BY <2>1
<1>4. Sum(Weight(cards, F), bounds) = 0
  <2>1. ASSUME NEW l \in bounds PROVE Weight(cards, F)[l] = 0
    <3>1. ~ True(cards, F, l)
      BY <1>1
    <3>2. l \in Outputs /\ l[2] \in 1 .. Len(cards) /\ ~ (Counts(cards, F)[l[2]] > l[3])
      BY <1>1, <3>1, BoundsRead
    <3> QED
      BY <1>1, <3>2, WeightIs
  <2> QED
    BY <1>1, <2>1, SumZero
<1>5. Cardinality(F) = lbCost
  <2>1. Cardinality(F \ activeSoft) = 0
    BY <1>3, EmptyHasNone
  <2>2. Cardinality(F) = lbCost + 0 + 0
    BY <1>2, <1>4, <2>1
  <2> QED
    BY <1>1, <2>2
<1>6. ASSUME NEW G \in feasible PROVE lbCost <= Cardinality(G)
  <2> DEFINE a == Cardinality(G \ activeSoft)
             b == Sum(Weight(cards, G), bounds)
  <2>1. a \in Nat
    <3>1. G \ activeSoft \in SUBSET Soft
      BY <1>1
    <3> QED
      BY <3>1, SubsetCardinality
  <2>2. b \in Nat
    BY <1>1, ExcessNat DEF OllTyped, BoundsEncoded
  <2>3. Cardinality(G) = lbCost + a + b
    BY <1>2
  <2> HIDE DEF a, b
  <2> QED
    BY <1>1, <2>1, <2>2, <2>3
<1> QED
  BY <1>5, <1>6

-----------------------------------------------------------------------------
\* The invariant holds initially,
LEMMA OllInit ==
  ASSUME Oll!Init
  PROVE  OllInv
<1> USE DEF Oll!Init
<1>1. WellFormed(cards) /\ cards \in Seq(Totalizers)
  <2>1. Len(<<>>) = 0 /\ <<>> \in Seq(Totalizers)
    OBVIOUS
  <2> QED
    BY <2>1 DEF WellFormed
<1>2. OllTyped
  BY <1>1, FS_EmptySet DEF OllTyped
<1> QED
  BY <1>2 DEF OllInv, BoundsEncoded, OllWaiting, OllWorking, OllAssumed, CostKept, OptimumIsOptimal,
                    RefutedOnlyIf

\* and when nothing changes.
LEMMA OllUnchanged ==
  ASSUME OllInv, UNCHANGED <<cards, feasible, activeSoft, bounds, assumptions, lbCost, ubCost,
                             nbSatisfiable, model, status>>
  PROVE  OllInv'
  BY DEF OllInv, OllTyped, BoundsEncoded, OllWaiting, OllWorking, OllAssumed, CostKept,
         OptimumIsOptimal, RefutedOnlyIf

\* A SAT call that finds a model: the first starts the search, the second ends it.
LEMMA OllSat ==
  ASSUME OllInv, status = "searching", NEW F \in feasible, Oll!Sat(F)
  PROVE  OllInv'
<1>1. /\ OllTyped /\ nbSatisfiable \in Nat /\ F \in SUBSET Soft /\ Cardinality(F) \in Nat
      /\ feasible \in SUBSET SUBSET Soft
  <2>1. OllTyped /\ feasible \in SUBSET SUBSET Soft
    BY FormulaAssumption DEF OllInv, OllTyped
  <2> QED
    BY <2>1, SubsetCardinality DEF OllTyped
<1>2. /\ \A l \in assumptions : ~ True(cards, F, l)
      /\ model' = F /\ ubCost' = Cardinality(F) /\ nbSatisfiable' = nbSatisfiable + 1
      /\ cards' = cards /\ feasible' = feasible /\ activeSoft' = activeSoft
      /\ bounds' = bounds /\ lbCost' = lbCost
  BY OllReads, OllCardinality DEF Oll!Sat
<1>3. nbSatisfiable' \in Nat /\ nbSatisfiable' > 0
  BY <1>1, <1>2
<1>4. CASE nbSatisfiable = 0 /\ F # {}
  <2>1. /\ assumptions' = {SoftLit(i) : i \in Soft} /\ status' = "searching"
        /\ cards = <<>> /\ bounds = {} /\ activeSoft = {} /\ lbCost = 0
    BY <1>4, OllReads DEF Oll!Sat, Oll!SoftLits, OllInv, OllWaiting
  <2>2. OllTyped'
    BY <1>1, <1>2, <1>3, <2>1 DEF OllTyped, Literals
  <2>3. OllWorking'
    <3>1. 0 < Cardinality(F)
      BY <1>1, <1>4, NoneIsEmpty
    <3>2. Soft \ {} = Soft
      OBVIOUS
    <3> QED
      BY <1>2, <2>1, <3>1, <3>2 DEF OllWorking
  <2>4. CostKept'
    <3>1. ASSUME NEW G \in feasible
          PROVE  Cardinality(G) = 0 + Cardinality(G \ {}) + 0
      <4>1. Cardinality(G) \in Nat /\ G \ {} = G
        BY <1>1, SubsetCardinality
      <4> QED
        BY <4>1
    <3>2. \A G : Sum(Weight(cards, G), {}) = 0
      BY SumEmpty
    <3>3. \A G \in feasible : Cardinality(G) = lbCost + Cardinality(G \ activeSoft)
                                                + Sum(Weight(cards, G), bounds)
      BY <2>1, <3>1, <3>2
    <3> QED
      BY <1>2, <3>3 DEF CostKept
  <2>5. BoundsEncoded' /\ OllWaiting' /\ OptimumIsOptimal' /\ RefutedOnlyIf'
    BY <1>2, <1>3, <2>1 DEF BoundsEncoded, OllWaiting, OptimumIsOptimal, RefutedOnlyIf
  <2>6. OllAssumed'
    <3>1. Soft \ {} = Soft
      OBVIOUS
    <3> QED
      BY <1>2, <2>1, <3>1 DEF OllAssumed
  <2> QED
    BY <2>2, <2>3, <2>4, <2>5, <2>6 DEF OllInv
<1>5. CASE ~ (nbSatisfiable = 0 /\ F # {})
  <2>1. status' = "OPTIMUM" /\ assumptions' = assumptions
    BY <1>5 DEF Oll!Sat
  <2>2. OllTyped'
    BY <1>1, <1>2, <1>3, <2>1 DEF OllTyped
  <2>3. BoundsEncoded' /\ OllAssumed'
    BY <1>2, <2>1 DEF OllInv, BoundsEncoded, OllAssumed
  <2>4. \A G \in feasible : Cardinality(F) <= Cardinality(G)
    <3>1. CASE nbSatisfiable = 0
      <4>1. Cardinality(F) = 0
        BY <1>5, <3>1, EmptyHasNone
      <4>2. \A G \in feasible : Cardinality(G) \in Nat
        BY <1>1, SubsetCardinality
      <4> QED
        BY <4>1, <4>2
    <3>2. CASE nbSatisfiable # 0
      BY <1>1, <1>2, <3>2, OllSecondModel
    <3> QED
      BY <3>1, <3>2
  <2>5. OptimumIsOptimal'
    BY <1>2, <2>4 DEF OptimumIsOptimal
  <2> QED
    BY <2>1, <2>2, <2>3, <2>5 DEF OllInv, OllWaiting, OllWorking, CostKept, RefutedOnlyIf
<1> QED
  BY <1>4, <1>5

\* A conflict over the core C: every model makes one of its literals true.
LEMMA OllConflict ==
  ASSUME NEW C, Oll!Unsat(C)
  PROVE  /\ \A F \in feasible : \E l \in C : True(cards, F, l)
         /\ lbCost' = lbCost + 1 /\ feasible' = feasible /\ ubCost' = ubCost
         /\ nbSatisfiable' = nbSatisfiable /\ model' = model
  BY OllReads DEF Oll!Unsat

\* A conflict without assumptions: there are no models.
LEMMA OllUnsatisfiable ==
  ASSUME OllInv, status = "searching", Oll!HardUnsatisfiable
  PROVE  OllInv'
<1>1. /\ Oll!Unsat({}) /\ status' = "UNSATISFIABLE"
      /\ cards' = cards /\ activeSoft' = activeSoft /\ bounds' = bounds
      /\ assumptions' = assumptions
  BY DEF Oll!HardUnsatisfiable
<1>2. /\ feasible = {} /\ lbCost' = lbCost + 1 /\ feasible' = feasible /\ ubCost' = ubCost
      /\ nbSatisfiable' = nbSatisfiable /\ model' = model
  BY <1>1, OllConflict
<1>3. OllTyped' /\ BoundsEncoded' /\ OllAssumed'
  BY <1>1, <1>2 DEF OllInv, OllTyped, BoundsEncoded, OllAssumed
<1> QED
  BY <1>1, <1>2, <1>3
     DEF OllInv, OllWaiting, OllWorking, CostKept, OptimumIsOptimal, RefutedOnlyIf

\* A core that closes the gap between the bounds.
LEMMA OllBoundsMeet ==
  ASSUME OllInv, status = "searching", NEW C \in SUBSET assumptions, Oll!BoundsMeet(C)
  PROVE  OllInv'
<1>1. /\ Oll!Unsat(C) /\ status' = "OPTIMUM" /\ nbSatisfiable > 0 /\ lbCost + 1 = ubCost
      /\ cards' = cards /\ activeSoft' = activeSoft /\ bounds' = bounds
      /\ assumptions' = assumptions
  BY DEF Oll!BoundsMeet
<1>2. /\ \A F \in feasible : \E l \in C : True(cards, F, l)
      /\ lbCost' = lbCost + 1 /\ feasible' = feasible /\ ubCost' = ubCost
      /\ nbSatisfiable' = nbSatisfiable /\ model' = model
  BY <1>1, OllConflict
<1>3. OllTyped' /\ BoundsEncoded' /\ OllAssumed'
  BY <1>1, <1>2 DEF OllInv, OllTyped, BoundsEncoded, OllAssumed
<1>4. \A F \in feasible : lbCost + 1 <= Cardinality(F)
  BY <1>1, <1>2, OllPays
<1>5. OptimumIsOptimal'
  BY <1>1, <1>2, <1>4 DEF OllInv, OllWorking, OptimumIsOptimal
<1> QED
  BY <1>1, <1>3, <1>5
     DEF OllInv, OllWaiting, OllWorking, CostKept, RefutedOnlyIf

\* A core that is relaxed.
LEMMA OllRelaxCore ==
  ASSUME OllInv, status = "searching", NEW C \in SUBSET assumptions, Oll!RelaxCore(C)
  PROVE  OllInv'
<1> DEFINE cs == CardsAfter(C)
<1>1. /\ Oll!Unsat(C) /\ status' = "searching" /\ nbSatisfiable > 0 /\ lbCost + 1 # ubCost
      /\ cards' = cs
      /\ activeSoft' = activeSoft \cup CoreSofts(C)
      /\ bounds' = Oll!BoundsAfter(cs, C)
      /\ assumptions' = {SoftLit(i) : i \in Soft \ activeSoft'} \cup bounds'
  BY OllReads, OllCardinality
     DEF Oll!RelaxCore, CardsAfter, CoreOutputs, CoreSofts, Oll!Assumed, Oll!SoftLits
<1>2. /\ \A F \in feasible : \E l \in C : True(cards, F, l)
      /\ lbCost' = lbCost + 1 /\ feasible' = feasible /\ ubCost' = ubCost
      /\ nbSatisfiable' = nbSatisfiable /\ model' = model
  BY <1>1, OllConflict
<1>3. /\ OllTyped /\ BoundsEncoded /\ IsCore(C) /\ lbCost \in Nat /\ ubCost \in Nat
      /\ model \in feasible /\ ubCost = Cardinality(model)
  BY <1>1, CoreIs DEF OllInv, OllTyped, OllWorking
<1>4. cs \in Seq(Totalizers) /\ WellFormed(cs)
  BY <1>3, RelaxedCards DEF AfterCore
<1>5. /\ Oll!BoundsAfter(cs, C) \in SUBSET Outputs /\ IsFiniteSet(Oll!BoundsAfter(cs, C))
      /\ \A l \in Oll!BoundsAfter(cs, C) : /\ l[2] \in 1 .. Len(cs)
                                           /\ cs[l[2]].upTo = l[3]
                                           /\ l[3] < Cardinality(cs[l[2]].lits)
  BY <1>3, BoundsAfterLive
<1>6. \A F \in feasible :
           /\ lbCost + 1 <= Cardinality(F)
           /\ Cardinality(F) = lbCost + 1 + Cardinality(F \ (activeSoft \cup CoreSofts(C)))
                                 + Sum(Weight(cs, F), Oll!BoundsAfter(cs, C))
  BY <1>1, <1>2, OllPays
<1> HIDE DEF cs
<1>7. OllTyped'
  <2>1. activeSoft' \in SUBSET Soft /\ lbCost' \in Nat
    BY <1>1, <1>2, <1>3 DEF OllTyped, CoreSofts
  <2>2. assumptions' \in SUBSET Literals
    BY <1>1, <1>5 DEF Literals
  <2> QED
    BY <1>1, <1>2, <1>3, <1>4, <1>5, <2>1, <2>2 DEF OllTyped
<1>8. BoundsEncoded'
  BY <1>1, <1>5 DEF BoundsEncoded
<1>9. OllWorking' /\ OllWaiting' /\ OllAssumed'
  <2>1. lbCost + 1 <= ubCost
    BY <1>3, <1>6
  <2>2. lbCost' < ubCost'
    BY <1>1, <1>2, <1>3, <2>1
  <2> QED
    BY <1>1, <1>2, <1>3, <2>2 DEF OllWorking, OllWaiting, OllAssumed
<1>10. CostKept'
  BY <1>1, <1>2, <1>6 DEF CostKept
<1>11. OptimumIsOptimal' /\ RefutedOnlyIf'
  BY <1>1 DEF OptimumIsOptimal, RefutedOnlyIf
<1> QED
  BY <1>7, <1>8, <1>9, <1>10, <1>11 DEF OllInv

\* Every step of OLL keeps the invariant.
LEMMA OllStep ==
  ASSUME OllInv, Oll!Next
  PROVE  OllInv'
<1>1. status = "searching"
  BY DEF Oll!Next
<1>2. ASSUME NEW F \in feasible, Oll!Sat(F) PROVE OllInv'
  BY <1>1, <1>2, OllSat
<1>3. ASSUME Oll!HardUnsatisfiable PROVE OllInv'
  BY <1>1, <1>3, OllUnsatisfiable
<1>4. ASSUME NEW C \in SUBSET assumptions, Oll!BoundsMeet(C) \/ Oll!RelaxCore(C)
      PROVE  OllInv'
  BY <1>1, <1>4, OllBoundsMeet, OllRelaxCore
<1> QED
  BY <1>2, <1>3, <1>4 DEF Oll!Next

\* The invariant holds what the run checks of OLL.
LEMMA OllChecked ==
  ASSUME OllInv
  PROVE  Oll!CostPreserved /\ Oll!BoundsAreLive
<1>1. Oll!CostPreserved
  <2>1. ASSUME status = "searching", nbSatisfiable > 0, NEW F \in feasible
        PROVE  Cardinality(F) = lbCost + Cardinality(F \ activeSoft) + Oll!SumExcess(F, bounds)
    BY <2>1, SumsAgree DEF OllInv, CostKept
  <2> QED
    BY <2>1, OllCardinality DEF Oll!CostPreserved
<1>2. Oll!BoundsAreLive
  <2>1. \A l \in bounds : l[3] < Cardinality(cards[l[2]].lits) /\ cards[l[2]].upTo = l[3]
    BY DEF OllInv, BoundsEncoded
  <2>2. /\ assumptions \in SUBSET ({SoftLit(i) : i \in Soft \ activeSoft} \cup bounds)
        /\ bounds \in SUBSET Outputs
    BY DEF OllInv, OllTyped, OllAssumed
  <2>3. assumptions \cap {SoftLit(i) : i \in activeSoft} = {}
    BY <2>2, LiteralsAre
  <2>4. \A l \in assumptions : ~ IsSoft(l) => l \in bounds
    BY <2>2, LiteralsAre
  <2> QED
    BY <2>1, <2>3, <2>4, OllReads, OllCardinality DEF Oll!BoundsAreLive, Oll!SoftLits
<1> QED
  BY <1>1, <1>2

\* A step of OLL is a step of the MaxSAT search.
LEMMA OllImplements ==
  ASSUME OllInv, Oll!Next
  PROVE  [Search!Next]_(Search!vars)
<1> DEFINE lower == IF nbSatisfiable = 0 THEN 0 ELSE lbCost
<1> USE SameCardinality DEF Search!IsLowerBound, Search!Cost, Search!Improves
<1>1. /\ status = "searching" /\ nbSatisfiable \in Nat /\ lbCost \in Nat /\ ubCost \in Nat
      /\ \A F \in feasible : F \in SUBSET Soft /\ Cardinality(F) \in Nat
  <2>1. /\ status = "searching" /\ nbSatisfiable \in Nat /\ lbCost \in Nat /\ ubCost \in Nat
        /\ feasible \in SUBSET SUBSET Soft
    BY FormulaAssumption DEF Oll!Next, OllInv, OllTyped
  <2> QED
    BY <2>1, SubsetCardinality
<1>2. /\ nbSatisfiable = 0 => lbCost = 0 /\ model = NULL
      /\ nbSatisfiable > 0 => /\ model \in feasible /\ model # NULL
                              /\ Cardinality(model) = ubCost /\ lbCost < ubCost
  BY <1>1, FormulaAssumption DEF OllInv, OllWaiting, OllWorking
<1>3. ASSUME NEW F \in feasible, Oll!Sat(F)
      PROVE  [Search!Next]_(Search!vars)
  <2>1. /\ model' = F /\ feasible' = feasible /\ lbCost' = lbCost
        /\ nbSatisfiable' = nbSatisfiable + 1
        /\ \A l \in assumptions : ~ True(cards, F, l)
    BY <1>3, OllReads DEF Oll!Sat
  <2>2. lower' = lower
    BY <1>1, <1>2, <2>1
  <2>3. CASE nbSatisfiable = 0 /\ F # {}
    <3>1. status' = status
      BY <1>3, <2>3 DEF Oll!Sat
    <3>2. Search!Improve
      BY <1>1, <1>2, <1>3, <2>1, <2>2, <2>3, <3>1 DEF Search!Improve
    <3> QED
      BY <3>2 DEF Search!Next
  <2>4. CASE ~ (nbSatisfiable = 0 /\ F # {})
    <3>1. status' = "OPTIMUM"
      BY <1>3, <2>4 DEF Oll!Sat
    <3>2. /\ \A G \in feasible : Cardinality(F) <= Cardinality(G) /\ lower <= Cardinality(G)
          /\ model # NULL => Cardinality(F) < Cardinality(model)
      <4>1. CASE nbSatisfiable = 0
        <5>1. Cardinality(F) = 0 /\ model = NULL /\ lower = 0
          BY <1>2, <2>4, <4>1, EmptyHasNone
        <5> QED
          BY <1>1, <5>1
      <4>2. CASE nbSatisfiable # 0
        <5>1. nbSatisfiable > 0 /\ lower = lbCost
          BY <1>1, <4>2
        <5>2. Cardinality(F) = lbCost /\ \A G \in feasible : Cardinality(F) <= Cardinality(G)
          BY <1>1, <2>1, <5>1, OllSecondModel
        <5> QED
          BY <1>1, <1>2, <5>1, <5>2
      <4> QED
        BY <4>1, <4>2
    <3>3. Search!Conclude
      BY <1>1, <1>3, <2>1, <2>2, <3>1, <3>2 DEF Search!Conclude
    <3> QED
      BY <3>3 DEF Search!Next
  <2> QED
    BY <2>3, <2>4
<1>4. ASSUME Oll!HardUnsatisfiable
      PROVE  [Search!Next]_(Search!vars)
  <2>1. Oll!Unsat({}) /\ status' = "UNSATISFIABLE" /\ nbSatisfiable = 0
    BY <1>4 DEF Oll!HardUnsatisfiable
  <2>2. /\ feasible = {} /\ feasible' = feasible
        /\ model' = model /\ nbSatisfiable' = nbSatisfiable
    BY <2>1, OllConflict
  <2>3. lower' = lower
    BY <2>1, <2>2
  <2>4. Search!Refute
    BY <1>1, <2>1, <2>2, <2>3 DEF Search!Refute
  <2> QED
    BY <2>4 DEF Search!Next
<1>5. ASSUME NEW C \in SUBSET assumptions, nbSatisfiable > 0, Oll!Unsat(C)
      PROVE  /\ feasible' = feasible /\ model' = model /\ lower' = lower + 1
             /\ lower = lbCost
             /\ \A F \in feasible : lower + 1 <= Cardinality(F)
  <2>1. /\ \A F \in feasible : \E l \in C : True(cards, F, l)
        /\ feasible' = feasible /\ model' = model /\ lbCost' = lbCost + 1
        /\ nbSatisfiable' = nbSatisfiable
    BY <1>5, OllConflict
  <2>2. \A F \in feasible : lbCost + 1 <= Cardinality(F)
    BY <1>1, <1>5, <2>1, OllPays
  <2>3. lower = lbCost /\ lower' = lbCost'
    BY <1>1, <1>5, <2>1
  <2> QED
    BY <2>1, <2>2, <2>3
<1>6. ASSUME NEW C \in SUBSET assumptions, Oll!BoundsMeet(C)
      PROVE  [Search!Next]_(Search!vars)
  <2>1. /\ nbSatisfiable > 0 /\ Oll!Unsat(C) /\ status' = "OPTIMUM" /\ lbCost + 1 = ubCost
    BY <1>6 DEF Oll!BoundsMeet
  <2>2. /\ feasible' = feasible /\ model' = model /\ lower' = lower + 1 /\ lower = lbCost
        /\ \A F \in feasible : lower + 1 <= Cardinality(F)
    BY <1>5, <1>6, <2>1
  <2>3. Search!Conclude
    BY <1>1, <1>2, <2>1, <2>2 DEF Search!Conclude
  <2> QED
    BY <2>3 DEF Search!Next
<1>7. ASSUME NEW C \in SUBSET assumptions, Oll!RelaxCore(C)
      PROVE  [Search!Next]_(Search!vars)
  <2>1. nbSatisfiable > 0 /\ Oll!Unsat(C) /\ status' = status
    BY <1>7 DEF Oll!RelaxCore
  <2>2. /\ feasible' = feasible /\ model' = model /\ lower' = lower + 1
        /\ \A F \in feasible : lower + 1 <= Cardinality(F)
    BY <1>5, <1>7, <2>1
  <2>3. Search!RaiseBound
    BY <1>1, <1>2, <2>1, <2>2 DEF Search!RaiseBound
  <2> QED
    BY <2>3 DEF Search!Next
<1> QED
  BY <1>3, <1>4, <1>6, <1>7 DEF Oll!Next

-----------------------------------------------------------------------------
(***************************************************************************)
(* LinearSU: weights one by one, largest first, when each is at least all  *)
(* lighter ones together (lexicographic search), else all at once.  What   *)
(* it rests on is the order of the weights.                                *)
(***************************************************************************)

\* LinearSU adds up weights as this module does,
LEMMA LinearSums ==
  /\ \A F : Linear!Cost(F) = Sum(weight, F)
  /\ \A wt : Linear!IsBMO(wt) <=>
       \A i \in Soft : wt[i] >= Sum(wt, {j \in Soft : wt[j] < wt[i]})
<1>1. \A F : Linear!Cost(F) = Sum(weight, F)
  BY Zenon DEF Linear!Cost, Linear!MapThenSumSet, Linear!MapThenFoldSet,
     Sum, SumFunctionOnSet, FoldFunctionOnSet, MapThenFoldSet
<1>2. \A wt, S : Linear!MapThenSumSet(LAMBDA j : wt[j], S) = Sum(wt, S)
  BY Zenon DEF Linear!MapThenSumSet, Linear!MapThenFoldSet,
     Sum, SumFunctionOnSet, FoldFunctionOnSet, MapThenFoldSet
<1> QED
  BY <1>1, <1>2 DEF Linear!IsBMO

\* and counts alike.
LEMMA LinearCardinality == \A S : Linear!Cardinality(S) = Cardinality(S)
  BY Zenon DEF Linear!Cardinality, Cardinality

\* Finitely many numbers can be put in decreasing order, smallest last.
LEMMA DecreasingExists ==
  ASSUME NEW W \in SUBSET Nat, IsFiniteSet(W)
  PROVE  \E s \in [1 .. Cardinality(W) -> W] :
           \A p, q \in 1 .. Cardinality(W) : p < q => s[p] > s[q]
<1> DEFINE Ordered(A, n) == \E s \in [1 .. n -> A] : \A p, q \in 1 .. n : p < q => s[p] > s[q]
           T == {n \in Nat : \A A \in SUBSET W : Cardinality(A) = n => Ordered(A, n)}
<1>1. 0 \in T
  <2>1. ASSUME NEW A \in SUBSET W, Cardinality(A) = 0 PROVE Ordered(A, 0)
    <3> DEFINE s == [p \in 1 .. 0 |-> 0]
    <3>1. s \in [1 .. 0 -> A] /\ \A p, q \in 1 .. 0 : p < q => s[p] > s[q]
      OBVIOUS
    <3> QED
      BY <3>1
  <2> QED
    BY <2>1
<1>2. ASSUME NEW n \in T PROVE n + 1 \in T
  <2>1. ASSUME NEW A \in SUBSET W, Cardinality(A) = n + 1 PROVE Ordered(A, n + 1)
    <3>1. IsFiniteSet(A) /\ A # {} /\ A \in SUBSET Nat /\ n \in Nat
      <4>1. n + 1 # 0
        OBVIOUS
      <4> QED
        BY <1>2, <2>1, <4>1, FS_Subset, FS_EmptySet
    <3>2. PICK x \in A : \A y \in A : x <= y
      BY <3>1, Smallest
    <3> DEFINE B == A \ {x}
    <3>3. B \in SUBSET W /\ Cardinality(B) = n
      <4>1. Cardinality(B) = Cardinality(A) - 1
        BY <3>1, <3>2, FS_RemoveElement
      <4> QED
        BY <2>1, <3>1, <4>1
    <3>4. Ordered(B, n)
      <4> HIDE DEF B
      <4> QED
        BY <1>2, <3>3
    <3>5. PICK s \in [1 .. n -> B] : \A p, q \in 1 .. n : p < q => s[p] > s[q]
      BY <3>4
    <3> DEFINE t == [p \in 1 .. n + 1 |-> IF p = n + 1 THEN x ELSE s[p]]
    <3>6. \A p \in 1 .. n + 1 : p # n + 1 => p \in 1 .. n
      BY <3>1
    <3>7. \A y \in B : y \in Nat /\ x \in Nat /\ y > x /\ y \in A
      BY <3>1, <3>2
    <3>8. t \in [1 .. n + 1 -> A]
      BY <3>2, <3>5, <3>6, <3>7
    <3>9. ASSUME NEW p \in 1 .. n + 1, NEW q \in 1 .. n + 1, p < q
          PROVE  t[p] > t[q]
      <4>1. p \in 1 .. n /\ p # n + 1
        BY <3>1, <3>9
      <4>2. CASE q = n + 1
        BY <3>5, <3>7, <4>1, <4>2
      <4>3. CASE q # n + 1
        BY <3>5, <3>6, <3>9, <4>1, <4>3
      <4> QED
        BY <4>2, <4>3
    <3> HIDE DEF t
    <3> QED
      BY <3>8, <3>9
  <2> HIDE DEF Ordered
  <2> QED
    BY <1>2, <2>1
<1>3. T = Nat
  <2>1. T \in SUBSET Nat
    OBVIOUS
  <2> HIDE DEF T
  <2> QED
    BY <1>1, <1>2, <2>1, NatInductionSet
<1>4. Cardinality(W) \in Nat
  BY FS_CardinalityType
<1> HIDE DEF Ordered
<1>5. Ordered(W, Cardinality(W))
  BY <1>3, <1>4
<1> QED
  BY <1>5 DEF Ordered

\* The weights in use, positions of which are counted from 1.
Weights == {weight[i] : i \in Soft}
Positions == 1 .. Cardinality(Weights)
OW == Linear!OrderWeights(weight)

\* Weights are positive.
Weighed == weight \in [Soft -> Nat \ {0}]

\* orderWeights lists the weights in use, each once, largest first.
LEMMA OrderIs ==
  ASSUME Weighed
  PROVE  /\ Cardinality(Weights) \in Nat /\ Len(OW) = Cardinality(Weights)
         /\ Cardinality(Weights) = 0 => Soft = {}
         /\ \A p \in Positions : OW[p] \in Nat \ {0}
         /\ \A p, q \in Positions : p < q => OW[p] > OW[q]
         /\ \A i \in Soft : \E p \in Positions : weight[i] = OW[p]
         /\ \A p \in Positions : \E i \in Soft : weight[i] = OW[p]
<1>1. IsFiniteSet(Weights) /\ Weights \in SUBSET (Nat \ {0}) /\ Cardinality(Weights) \in Nat
  <2>1. IsFiniteSet(Weights)
    BY FormulaAssumption, FiniteImage DEF Weights
  <2>2. Weights \in SUBSET (Nat \ {0})
    BY DEF Weights, Weighed
  <2> QED
    BY <2>1, <2>2, FS_CardinalityType
<1>2. OW = CHOOSE s \in [Positions -> Weights] :
             \A p, q \in DOMAIN s : p < q => s[p] > s[q]
  BY LinearCardinality DEF OW, Linear!OrderWeights, Weights, Positions
<1>3. \E s \in [Positions -> Weights] : \A p, q \in DOMAIN s : p < q => s[p] > s[q]
  <2>1. Weights \in SUBSET Nat
    BY <1>1
  <2>2. PICK s \in [Positions -> Weights] : \A p, q \in Positions : p < q => s[p] > s[q]
    BY <1>1, <2>1, DecreasingExists DEF Positions
  <2> QED
    BY <2>2
<1>4. OW \in [Positions -> Weights] /\ \A p, q \in Positions : p < q => OW[p] > OW[q]
  BY <1>2, <1>3
<1>5. Len(OW) = Cardinality(Weights)
  BY <1>1, <1>4 DEF Positions
<1>7. \A p \in Positions : OW[p] \in Nat \ {0}
  BY <1>1, <1>4
<1>6. {OW[p] : p \in Positions} = Weights
  <2> DEFINE R == {OW[p] : p \in Positions}
  <2>1. IsFiniteSet(Positions) /\ Cardinality(Positions) = Cardinality(Weights)
    <3> DEFINE n == Cardinality(Weights)
    <3>1. n \in Nat
      BY <1>1
    <3> HIDE DEF n
    <3>2. 0 \in Int /\ 1 \in Int /\ n \in Int /\ (1 > n => n = 0) /\ n - 1 + 1 = n
      BY <3>1
    <3>3. IsFiniteSet(1 .. n) /\ Cardinality(1 .. n) = n
      BY <3>2, FS_Interval
    <3> QED
      BY <3>3 DEF n, Positions
  <2>2. \A p, q \in Positions : OW[p] = OW[q] => p = q
    <3>1. ASSUME NEW p \in Positions, NEW q \in Positions, OW[p] = OW[q], p # q PROVE FALSE
      <4>1. p \in Nat /\ q \in Nat /\ OW[p] \in Nat /\ OW[q] \in Nat
        <5>1. OW[p] \in Nat \ {0} /\ OW[q] \in Nat \ {0}
          BY <1>7
        <5>2. p \in Nat /\ q \in Nat
          BY <1>1 DEF Positions
        <5> QED
          BY <5>1, <5>2
      <4>2. p < q \/ q < p
        BY <3>1, <4>1
      <4>3. OW[p] > OW[q] \/ OW[q] > OW[p]
        BY <1>4, <4>2
      <4> QED
        BY <3>1, <4>1, <4>3
    <3> QED
      BY <3>1
  <2>3. Cardinality(R) = Cardinality(Weights)
    BY <2>1, <2>2, FiniteImage
  <2>4. R \in SUBSET Weights
    BY <1>4
  <2> HIDE DEF R
  <2>5. R = Weights
    BY <1>1, <2>3, <2>4, FS_Subset
  <2> QED
    BY <2>5 DEF R
<1>8. \A i \in Soft : \E p \in Positions : weight[i] = OW[p]
  <2>1. \A i \in Soft : weight[i] \in Weights
    BY DEF Weights
  <2> QED
    BY <1>6, <2>1
<1>9. Cardinality(Weights) = 0 => Soft = {}
  <2>1. Cardinality(Weights) = 0 => Weights = {}
    BY <1>1, FS_EmptySet
  <2> QED
    BY <2>1 DEF Weights
<1>10. \A p \in Positions : \E i \in Soft : weight[i] = OW[p]
  <2>1. \A p \in Positions : OW[p] \in {weight[i] : i \in Soft}
    BY <1>4 DEF Weights
  <2> QED
    BY <2>1
<1> QED
  BY <1>1, <1>4, <1>5, <1>7, <1>8, <1>9, <1>10

-----------------------------------------------------------------------------
(***************************************************************************)
(* The invariant of LinearSU: the models that meet the optima of the       *)
(* heavier weights cost the same in them, and no other model costs less.   *)
(***************************************************************************)

\* The weight that is optimised now.
Current == Linear!CurrentWeight

\* The soft clauses that are heavier than the current weight, have it, or are lighter.
Heavier == {i \in Soft : weight[i] > Current}
At      == {i \in Soft : weight[i] = Current}
Lighter == {i \in Soft : weight[i] < Current}

\* The models that meet the optima of the heavier weights.
Meets(F) == \A j \in DOMAIN functions : Cardinality(F \cap functions[j].lits) <= functions[j].rhs
Allowed == {F \in feasible : Meets(F)}

\* The types of the variables.
LinearTyped ==
  /\ weight \in LinearWeightings /\ feasible \in LinearInstances
  /\ bmo \in BOOLEAN /\ (bmo => Linear!IsBMO(weight)) /\ models \in SUBSET feasible
  /\ posWeight \in Positions
  /\ functions \in Seq([lits : SUBSET Soft, rhs : Nat])
  /\ localCost \in Nat /\ lbCost \in Nat /\ ubCost \in Nat /\ nbSatisfiable \in Nat
  /\ model \in feasible \cup {NULL}
  /\ status \in {"searching", "OPTIMUM", "UNSATISFIABLE"}

\* Weights of sets of clauses are natural numbers, and grow with the set.
LEMMA WeightSums ==
  ASSUME Weighed
  PROVE  /\ \A S \in SUBSET Soft : Sum(weight, S) \in Nat
         /\ \A S \in SUBSET Soft : \A D \in SUBSET S : Sum(weight, D) <= Sum(weight, S)
         /\ \A S, D \in SUBSET Soft : S \cap D = {} =>
              Sum(weight, S \cup D) = Sum(weight, S) + Sum(weight, D)
         /\ \A S \in SUBSET Soft : Sum(weight, S) = 0 => S = {}
<1>0. \A S \in SUBSET Soft : IsFiniteSet(S)
  BY FormulaAssumption, FS_Subset
<1>1. \A S \in SUBSET Soft : Sum(weight, S) \in Nat
  <2>1. ASSUME NEW S \in SUBSET Soft PROVE Sum(weight, S) \in Nat
    <3>1. \A x \in S : weight[x] \in Nat
      BY DEF Weighed
    <3> QED
      BY <1>0, <3>1, SumNat
  <2> QED
    BY <2>1
<1>2. \A S, D \in SUBSET Soft : S \cap D = {} =>
              Sum(weight, S \cup D) = Sum(weight, S) + Sum(weight, D)
  <2>1. ASSUME NEW S \in SUBSET Soft, NEW D \in SUBSET Soft, S \cap D = {}
        PROVE  Sum(weight, S \cup D) = Sum(weight, S) + Sum(weight, D)
    <3>1. \A x \in Soft : weight[x] \in Int
      BY DEF Weighed
    <3> QED
      BY <2>1, <3>1, FormulaAssumption, SumDisjoint
  <2> QED
    BY <2>1
<1>3. ASSUME NEW S \in SUBSET Soft, NEW D \in SUBSET S
      PROVE  Sum(weight, D) <= Sum(weight, S)
  <2>1. D \in SUBSET Soft /\ S \ D \in SUBSET Soft /\ D \cap (S \ D) = {} /\ D \cup (S \ D) = S
    OBVIOUS
  <2>2. Sum(weight, S) = Sum(weight, D) + Sum(weight, S \ D)
    BY <1>2, <2>1
  <2> QED
    BY <1>1, <2>1, <2>2
<1>4. ASSUME NEW S \in SUBSET Soft, Sum(weight, S) = 0, S # {}
      PROVE  FALSE
  <2>1. PICK x \in S : TRUE
    BY <1>4
  <2>2. Sum(weight, S) = weight[x] + Sum(weight, S \ {x})
    <3>1. \A y \in S : weight[y] \in Int
      BY DEF Weighed
    <3> QED
      BY <1>0, <2>1, <3>1, SumElement
  <2>3. S \ {x} \in SUBSET Soft /\ weight[x] \in Nat \ {0}
    BY <2>1 DEF Weighed
  <2> QED
    BY <1>1, <1>4, <2>2, <2>3
<1> QED
  BY <1>1, <1>2, <1>3, <1>4

\* Where the search stands in the order of the weights.
LEMMA CurrentIs ==
  ASSUME Weighed, posWeight \in Positions
  PROVE  /\ Current \in Nat \ {0} /\ At # {}
         /\ posWeight = 1 => Heavier = {}
         /\ Linear!LastWeight => Lighter = {}
         /\ ~ Linear!LastWeight =>
              /\ posWeight + 1 \in Positions
              /\ {i \in Soft : weight[i] > OW[posWeight + 1]} = Heavier \cup At
<1> DEFINE n == Cardinality(Weights)
<1>1. /\ n \in Nat /\ Len(OW) = n
      /\ \A p \in 1 .. n : OW[p] \in Nat \ {0}
      /\ \A p, q \in 1 .. n : p < q => OW[p] > OW[q]
      /\ \A i \in Soft : \E p \in 1 .. n : weight[i] = OW[p]
      /\ posWeight \in 1 .. n
  BY OrderIs DEF Positions
<1>2. Current = OW[posWeight] /\ (Linear!LastWeight <=> posWeight = n)
  BY <1>1 DEF Current, Linear!CurrentWeight, OW, Linear!LastWeight
<1> HIDE DEF n
<1>3. Current \in Nat \ {0} /\ At # {}
  <2>1. \E i \in Soft : weight[i] = OW[posWeight]
    BY OrderIs
  <2> QED
    BY <1>1, <1>2, <2>1 DEF At
<1>4. ASSUME NEW p \in 1 .. n, NEW q \in 1 .. n PROVE OW[p] > OW[q] <=> p < q
  <2>1. p \in Nat /\ q \in Nat
    BY <1>1
  <2>2. OW[p] \in Nat \ {0} /\ OW[q] \in Nat \ {0}
    BY <1>1
  <2>3. p < q => OW[p] > OW[q]
    BY <1>1
  <2>4. q < p => OW[q] > OW[p]
    BY <1>1
  <2>5. p = q => OW[p] = OW[q]
    OBVIOUS
  <2> QED
    BY <2>1, <2>2, <2>3, <2>4, <2>5
<1>5. ASSUME posWeight = 1, NEW i \in Heavier PROVE FALSE
  <2>1. i \in Soft /\ weight[i] > OW[posWeight]
    BY <1>2 DEF Heavier
  <2>2. PICK p \in 1 .. n : weight[i] = OW[p]
    BY <1>1, <2>1
  <2>3. p < posWeight
    BY <1>1, <1>4, <2>1, <2>2
  <2> QED
    BY <1>1, <1>5, <2>3
<1>6. ASSUME posWeight = n, NEW i \in Lighter PROVE FALSE
  <2>1. i \in Soft /\ weight[i] < OW[posWeight]
    BY <1>2 DEF Lighter
  <2>2. PICK p \in 1 .. n : weight[i] = OW[p]
    BY <1>1, <2>1
  <2>3. posWeight < p
    <3>1. OW[p] \in Nat /\ OW[posWeight] \in Nat
      BY <1>1
    <3>2. OW[posWeight] > OW[p]
      BY <2>1, <2>2, <3>1
    <3> QED
      BY <1>1, <1>4, <3>2
  <2> QED
    BY <1>1, <1>6, <2>3
<1>7. ASSUME posWeight # n
      PROVE  /\ posWeight + 1 \in 1 .. n
             /\ {i \in Soft : weight[i] > OW[posWeight + 1]} = Heavier \cup At
  <2>1. posWeight + 1 \in 1 .. n
    BY <1>1, <1>7
  <2>2. ASSUME NEW i \in Soft
        PROVE  weight[i] > OW[posWeight + 1] <=> weight[i] > Current \/ weight[i] = Current
    <3>1. PICK p \in 1 .. n : weight[i] = OW[p]
      BY <1>1
    <3>2. OW[p] > OW[posWeight + 1] <=> p < posWeight + 1
      BY <1>4, <2>1
    <3>3. OW[p] > OW[posWeight] <=> p < posWeight
      BY <1>1, <1>4
    <3>4. OW[p] = OW[posWeight] <=> p = posWeight
      <4>1. OW[posWeight] > OW[p] <=> posWeight < p
        BY <1>1, <1>4
      <4>2. OW[p] \in Nat /\ OW[posWeight] \in Nat
        BY <1>1
      <4> QED
        BY <1>1, <3>3, <4>1, <4>2
    <3>5. p < posWeight + 1 <=> p < posWeight \/ p = posWeight
      BY <1>1
    <3> QED
      BY <1>2, <3>1, <3>2, <3>3, <3>4, <3>5
  <2> QED
    BY <2>1, <2>2 DEF Heavier, At
<1> QED
  BY <1>2, <1>3, <1>5, <1>6, <1>7 DEF Positions, n

\* What a model costs, by heavier, current and lighter clauses.
LEMMA CostSplits ==
  ASSUME Weighed, Current \in Nat \ {0}, NEW F \in SUBSET Soft
  PROVE  /\ Sum(weight, F \cap At) = Current * Cardinality(F \cap At)
         /\ Cardinality(F \cap At) \in Nat
         /\ Sum(weight, F \cap Heavier) \in Nat /\ Sum(weight, F \cap Lighter) \in Nat
         /\ Sum(weight, F \cap (Heavier \cup At)) =
              Sum(weight, F \cap Heavier) + Current * Cardinality(F \cap At)
         /\ Sum(weight, F) = Sum(weight, F \cap Heavier) + Current * Cardinality(F \cap At)
                               + Sum(weight, F \cap Lighter)
<1>1. F \cap At \in SUBSET Soft /\ IsFiniteSet(F \cap At) /\ Cardinality(F \cap At) \in Nat
      /\ F \cap Heavier \in SUBSET Soft /\ F \cap Lighter \in SUBSET Soft
  <2>1. F \cap At \in SUBSET Soft
    OBVIOUS
  <2> QED
    BY <2>1, SubsetCardinality
<1>2. Sum(weight, F \cap At) = Current * Cardinality(F \cap At)
  <2>1. \A x \in F \cap At : weight[x] = Current
    BY DEF At
  <2>2. Current \in Int
    OBVIOUS
  <2> QED
    BY <1>1, <2>1, <2>2, SumConstant
<1>3. Sum(weight, F \cap Heavier) \in Nat /\ Sum(weight, F \cap Lighter) \in Nat
      /\ Sum(weight, F \cap At) \in Nat
  BY <1>1, WeightSums
<1>4. \A i \in Soft : /\ i \in Heavier \/ i \in At \/ i \in Lighter
                      /\ ~ (i \in Heavier /\ i \in At) /\ ~ (i \in Heavier /\ i \in Lighter)
                      /\ ~ (i \in At /\ i \in Lighter)
  <2>1. \A i \in Soft : weight[i] \in Nat /\ Current \in Nat
    BY DEF Weighed
  <2> QED
    BY <2>1 DEF Heavier, At, Lighter
<1>5. Sum(weight, F \cap (Heavier \cup At)) = Sum(weight, F \cap Heavier) + Sum(weight, F \cap At)
  <2>1. F \cap (Heavier \cup At) = (F \cap Heavier) \cup (F \cap At)
        /\ (F \cap Heavier) \cap (F \cap At) = {}
    BY <1>4
  <2> QED
    BY <1>1, <2>1, WeightSums
<1>6. Sum(weight, F) = Sum(weight, F \cap (Heavier \cup At)) + Sum(weight, F \cap Lighter)
  <2>1. /\ F = (F \cap (Heavier \cup At)) \cup (F \cap Lighter)
        /\ (F \cap (Heavier \cup At)) \cap (F \cap Lighter) = {}
        /\ F \cap (Heavier \cup At) \in SUBSET Soft
    BY <1>4
  <2> QED
    BY <1>1, <2>1, WeightSums
<1> QED
  BY <1>1, <1>2, <1>3, <1>5, <1>6

\* The cost the search computes of a model.
LEMMA NewCostIs ==
  ASSUME LinearTyped, NEW F \in feasible
  PROVE  /\ F \in SUBSET Soft /\ Weighed /\ Current \in Nat \ {0} /\ Cardinality(F \cap At) \in Nat
         /\ Linear!NewCost(F) \in Nat
         /\ bmo => Linear!NewCost(F) = Current * Cardinality(F \cap At) /\ Linear!Objective = At
         /\ ~ bmo => Linear!NewCost(F) = Sum(weight, F)
<1>1. F \in SUBSET Soft /\ Weighed
  BY WeightsAssumption DEF LinearTyped, Weighed
<1>2. Current \in Nat \ {0}
  BY <1>1, CurrentIs DEF LinearTyped
<1>3. Linear!NewCost(F) = Sum(weight, F \cap Linear!Objective)
  BY LinearSums DEF Linear!NewCost
<1>4. Linear!Objective = IF bmo THEN At ELSE Soft
  BY DEF Linear!Objective, Linear!OfWeight, At, Current
<1>5. F \cap Soft = F
  BY <1>1
<1>6. Sum(weight, F) \in Nat /\ Sum(weight, F \cap At) \in Nat
  <2>1. F \cap At \in SUBSET Soft
    BY <1>1
  <2> QED
    BY <1>1, <2>1, WeightSums
<1> QED
  BY <1>1, <1>2, <1>3, <1>4, <1>5, <1>6, CostSplits

\* Multiples of a weight are ordered and divided as their factors.
LEMMA Multiples ==
  ASSUME NEW w \in Nat \ {0}
  PROVE  /\ \A a, b \in Nat : a <= b => w * a <= w * b
         /\ \A a, b \in Nat : a < b => w * a + w <= w * b
         /\ \A a, b \in Nat : w * a < w * b <=> a < b
         /\ \A a, b \in Nat : w * a = w * b => a = b
         /\ \A a \in Nat : w * a \in Nat /\ (w * a = 0 <=> a = 0)
         /\ \A a \in Nat : (w * a) \div w = a
<1>1. ASSUME NEW a \in Nat, NEW b \in Nat, a <= b PROVE w * a <= w * b
  BY <1>1
<1>2. ASSUME NEW a \in Nat, NEW b \in Nat, a < b PROVE w * a + w <= w * b
  <2>1. a + 1 <= b /\ a + 1 \in Nat
    BY <1>2
  <2>2. w * (a + 1) <= w * b
    BY <1>1, <2>1
  <2>3. w * (a + 1) = w * a + w
    OBVIOUS
  <2> QED
    BY <2>2, <2>3
<1>3. \A a \in Nat : w * a \in Nat
  OBVIOUS
<1>4. ASSUME NEW a \in Nat, NEW b \in Nat PROVE (w * a < w * b <=> a < b) /\ (w * a = w * b => a = b)
  <2>1. a < b \/ a = b \/ b < a
    OBVIOUS
  <2>2. a < b => w * a + w <= w * b
    BY <1>2
  <2>3. b < a => w * b + w <= w * a
    BY <1>2
  <2>4. w * a \in Nat /\ w * b \in Nat
    BY <1>3
  <2> QED
    BY <2>1, <2>2, <2>3, <2>4
<1>5. ASSUME NEW a \in Nat PROVE (w * a = 0 <=> a = 0) /\ (w * a) \div w = a
  <2>1. w * 0 = 0
    OBVIOUS
  <2>2. w * a = 0 <=> a = 0
    BY <1>4, <2>1
  <2>3. (w * a) \div w = a
    BY Z3
  <2> QED
    BY <2>2, <2>3
<1> QED
  BY <1>1, <1>2, <1>3, <1>4, <1>5

\* normalSearch: the solver allows the models that are cheaper than the saved one.
NormalInv ==
  status = "searching" /\ ~ bmo =>
    /\ lbCost = 0
    /\ nbSatisfiable = 0 => models = feasible /\ model = NULL
    /\ nbSatisfiable > 0 =>
         /\ model \in feasible /\ ubCost = Sum(weight, model)
         /\ models = {F \in feasible : Sum(weight, F) < ubCost}

\* What the models of the last weight cost at it.
AtCost(F) == Current * Cardinality(F \cap At)

\* bmoSearch: models that meet the optima of the heavier weights cost lbCost there, and
\* no others cost less than any of them; the solver allows those of them that are cheaper
\* at the current weight than the last one found.
BmoInv ==
  status = "searching" /\ bmo =>
    /\ \A F \in Allowed : Sum(weight, F \cap Heavier) = lbCost
    /\ \A F \in Allowed : \A G \in feasible : G \notin Allowed => Sum(weight, F) <= Sum(weight, G)
    /\ feasible # {} => Allowed # {}
    /\ nbSatisfiable > 0 => feasible # {}
    /\ localCost = 0 => models = Allowed /\ model = NULL
    /\ localCost > 0 =>
         /\ models = {F \in Allowed : AtCost(F) < localCost}
         /\ \E F \in Allowed : AtCost(F) = localCost
         /\ ~ Linear!LastWeight => model = NULL
         /\ Linear!LastWeight =>
              model \in Allowed /\ AtCost(model) = localCost /\ ubCost = localCost + lbCost

\* An update meets the encoding of its own weight, unless none is needed any more.
EncodingInv ==
  bmo /\ localCost > 0 =>
    \/ encoded = At
    \/ encoded = {} /\ \A F \in models : F \cap At = {}

\* OPTIMUM is answered with a model of least weight.
LinearOptimum ==
  status = "OPTIMUM" =>
    /\ model \in feasible /\ ubCost = Sum(weight, model)
    /\ \A F \in feasible : ubCost <= Sum(weight, F)

\* The inductive invariant of LinearSU.
LinearInv ==
  /\ LinearTyped /\ NormalInv /\ BmoInv /\ EncodingInv /\ LinearOptimum
  /\ Linear!UnsatIsInfeasible

\* Models that meet all optima so far cost no more than others that do, beyond what
\* they cost at the current weight.
LEMMA AllowedCost ==
  ASSUME LinearInv, status = "searching", bmo, NEW F \in Allowed
  PROVE  /\ F \in feasible /\ F \in SUBSET Soft /\ Cardinality(F \cap At) \in Nat
         /\ AtCost(F) \in Nat /\ Linear!NewCost(F) = AtCost(F)
         /\ Sum(weight, F \cap Lighter) \in Nat /\ Sum(weight, F \cap Lighter) <= Current
         /\ Sum(weight, F) = lbCost + AtCost(F) + Sum(weight, F \cap Lighter)
         /\ Linear!LastWeight => Sum(weight, F \cap Lighter) = 0
<1>1. F \in feasible /\ LinearTyped /\ BmoInv
  BY DEF Allowed, LinearInv
<1>2. /\ F \in SUBSET Soft /\ Weighed /\ Current \in Nat \ {0} /\ Cardinality(F \cap At) \in Nat
      /\ Linear!NewCost(F) = AtCost(F) /\ Linear!NewCost(F) \in Nat
  BY <1>1, NewCostIs DEF AtCost
<1>3. /\ Sum(weight, F) = lbCost + AtCost(F) + Sum(weight, F \cap Lighter)
      /\ Sum(weight, F \cap Lighter) \in Nat
  <2>1. Sum(weight, F \cap Heavier) = lbCost
    BY <1>1 DEF BmoInv
  <2> QED
    BY <1>2, <2>1, CostSplits DEF AtCost
<1>4. Sum(weight, F \cap Lighter) <= Current
  <2>1. PICK i \in Soft : weight[i] = Current
    BY <1>1, <1>2, CurrentIs DEF At, LinearTyped
  <2>2. Current >= Sum(weight, Lighter)
    <3>1. \A j \in Soft : weight[j] >= Sum(weight, {k \in Soft : weight[k] < weight[j]})
      BY <1>1, LinearSums DEF LinearTyped
    <3> QED
      BY <2>1, <3>1 DEF Lighter
  <2>3. Lighter \in SUBSET Soft /\ F \cap Lighter \in SUBSET Lighter
    BY DEF Lighter
  <2>4. Sum(weight, F \cap Lighter) <= Sum(weight, Lighter) /\ Sum(weight, Lighter) \in Nat
    BY <1>2, <2>3, WeightSums
  <2> QED
    BY <1>2, <1>3, <2>2, <2>4
<1>5. Linear!LastWeight => Sum(weight, F \cap Lighter) = 0
  <2>1. ASSUME Linear!LastWeight PROVE Sum(weight, F \cap Lighter) = 0
    <3>1. Lighter = {}
      BY <1>1, <1>2, <2>1, CurrentIs DEF LinearTyped
    <3> QED
      BY <3>1, SumEmpty
  <2> QED
    BY <2>1
<1> QED
  BY <1>1, <1>2, <1>3, <1>4, <1>5

\* The invariant holds initially,
LEMMA LinearInit ==
  ASSUME Linear!Init
  PROVE  LinearInv
<1> USE DEF Linear!Init
<1>1. LinearInstances \subseteq SUBSET SUBSET Soft /\ Weighed /\ Soft # {}
  BY WeightsAssumption DEF Weighed
<1>2. 1 \in Positions
  <2>1. Cardinality(Weights) \in Nat /\ Cardinality(Weights) # 0
    BY <1>1, OrderIs
  <2> QED
    BY <2>1 DEF Positions
<1>3. LinearTyped
  <2>1. functions \in Seq([lits : SUBSET Soft, rhs : Nat])
    OBVIOUS
  <2> QED
    BY <1>2, <2>1 DEF LinearTyped
<1>4. Allowed = feasible
  <2>1. DOMAIN functions = {}
    OBVIOUS
  <2> QED
    BY <2>1 DEF Allowed, Meets
<1>5. Heavier = {}
  BY <1>1, <1>2, CurrentIs
<1>6. \A F : Sum(weight, F \cap Heavier) = 0
  BY <1>5, SumEmpty
<1>7. BmoInv
  BY <1>4, <1>6 DEF BmoInv
<1> QED
  BY <1>3, <1>7 DEF LinearInv, NormalInv, EncodingInv, LinearOptimum, Linear!UnsatIsInfeasible

\* and when nothing changes.
LEMMA LinearUnchanged ==
  ASSUME LinearInv, UNCHANGED <<weight, feasible, linear, lbCost, ubCost, nbSatisfiable, model, status>>
  PROVE  LinearInv'
<1>1. /\ weight' = weight /\ feasible' = feasible /\ bmo' = bmo /\ models' = models
      /\ posWeight' = posWeight /\ functions' = functions /\ encoded' = encoded
      /\ localCost' = localCost /\ lbCost' = lbCost /\ ubCost' = ubCost
      /\ nbSatisfiable' = nbSatisfiable /\ model' = model /\ status' = status
  BY DEF linear
<1>2. Current' = Current /\ Linear!LastWeight' = Linear!LastWeight /\ Positions' = Positions
  BY <1>1 DEF Current, Linear!CurrentWeight, Linear!LastWeight, Positions, Weights
<1>3. Heavier' = Heavier /\ At' = At /\ Allowed' = Allowed
  BY <1>1, <1>2 DEF Heavier, At, Allowed, Meets
<1>4. LinearTyped' /\ NormalInv' /\ LinearOptimum' /\ Linear!UnsatIsInfeasible'
  BY <1>1, <1>2 DEF LinearInv, LinearTyped, NormalInv, LinearOptimum, Linear!UnsatIsInfeasible
<1>5. BmoInv' /\ EncodingInv'
  BY <1>1, <1>2, <1>3 DEF LinearInv, BmoInv, EncodingInv, AtCost
<1> QED
  BY <1>4, <1>5 DEF LinearInv

\* The optimum of the current weight, times it: c of its clauses are falsified, at least,
\* by models that meet the optima so far.
WeightSolved(c) ==
  /\ status = "searching" /\ bmo /\ ~ Linear!LastWeight /\ model = NULL
  /\ \A F \in Allowed : c <= Cardinality(F \cap At)
  /\ feasible # {} => \E F \in Allowed : Cardinality(F \cap At) = c

\* What goes on to the next weight leaves alone.
GoesOn ==
  /\ UNCHANGED <<weight, feasible, bmo, model, ubCost>>
  /\ nbSatisfiable' \in Nat /\ (nbSatisfiable' > 0 => feasible # {})

\* rebuildBMO with the optimum of the current weight.
LEMMA LinearNextWeight ==
  ASSUME LinearInv, NEW c \in Nat, WeightSolved(c), GoesOn,
         Linear!NextWeight(Current * c), lbCost' = lbCost + Current * c
  PROVE  LinearInv'
<1> USE DEF GoesOn
<1> DEFINE new == [lits |-> At, rhs |-> c]
<1>1. /\ LinearTyped /\ BmoInv /\ Weighed /\ Current \in Nat \ {0} /\ At # {}
      /\ posWeight \in Positions /\ At \in SUBSET Soft /\ lbCost \in Nat
      /\ posWeight + 1 \in Positions
      /\ {i \in Soft : weight[i] > OW[posWeight + 1]} = Heavier \cup At
  <2>1. LinearTyped /\ BmoInv /\ Weighed /\ posWeight \in Positions /\ lbCost \in Nat
    BY WeightsAssumption DEF LinearInv, LinearTyped, Weighed
  <2> QED
    BY <2>1, CurrentIs DEF WeightSolved, At
<1>2. /\ functions' = Append(functions, new) /\ posWeight' = posWeight + 1 /\ localCost' = 0
      /\ status' = status
      /\ models' = {F \in feasible : \A j \in DOMAIN functions' :
                      Cardinality(F \cap functions'[j].lits) <= functions'[j].rhs}
  <2>1. (Current * c) \div Current = c
    BY <1>1, Multiples
  <2>2. Linear!Objective = At
    BY DEF WeightSolved, Linear!Objective, Linear!OfWeight, At, Current
  <2> QED
    BY <2>1, <2>2, LinearCardinality DEF Linear!NextWeight, Current
<1>3. /\ functions' \in Seq([lits : SUBSET Soft, rhs : Nat])
      /\ Len(functions) \in Nat /\ Len(functions') = Len(functions) + 1
      /\ \A j \in 1 .. Len(functions) : functions'[j] = functions[j]
      /\ functions'[Len(functions) + 1] = new
  <2>1. functions \in Seq([lits : SUBSET Soft, rhs : Nat]) /\ new \in [lits : SUBSET Soft, rhs : Nat]
    BY <1>1 DEF LinearTyped
  <2> DEFINE T == [lits : SUBSET Soft, rhs : Nat]
  <2>2. functions \in Seq(T) /\ new \in T
    BY <2>1
  <2> HIDE DEF T, new
  <2>3. Append(functions, new) \in Seq(T) /\ Len(Append(functions, new)) = Len(functions) + 1
        /\ \A j \in 1 .. Len(functions) : Append(functions, new)[j] = functions[j]
        /\ Append(functions, new)[Len(functions) + 1] = new
    BY <2>2, Appended
  <2>4. Len(functions) \in Nat
    BY <2>2
  <2> QED
    BY <1>2, <2>3, <2>4 DEF T
<1>4. /\ Allowed' = {F \in Allowed : Cardinality(F \cap At) <= c}
      /\ models' = Allowed'
  <2>1. DOMAIN functions = 1 .. Len(functions) /\ DOMAIN functions' = 1 .. Len(functions) + 1
    BY <1>1, <1>3 DEF LinearTyped
  <2>2. \A j \in DOMAIN functions' : j \in DOMAIN functions \/ j = Len(functions) + 1
    BY <1>3, <2>1
  <2>3. \A j \in DOMAIN functions : j \in DOMAIN functions'
    BY <1>3, <2>1
  <2>4. Len(functions) + 1 \in DOMAIN functions'
    BY <1>3, <2>1
  <2>5. new.lits = At /\ new.rhs = c
    OBVIOUS
  <2> HIDE DEF new
  <2>6. ASSUME NEW F
        PROVE  (\A j \in DOMAIN functions' : Cardinality(F \cap functions'[j].lits) <= functions'[j].rhs)
                 <=> Meets(F) /\ Cardinality(F \cap At) <= c
    BY <1>3, <2>1, <2>2, <2>3, <2>4, <2>5 DEF Meets
  <2>7. Allowed' = models'
    BY <1>2 DEF Allowed, Meets
  <2>8. models' = {F \in Allowed : Cardinality(F \cap At) <= c}
    BY <1>2, <2>6 DEF Allowed
  <2> QED
    BY <2>7, <2>8
<1> HIDE DEF new
<1>5. Positions' = Positions /\ OW' = OW
  BY DEF Positions, Weights, OW
<1>6. Current' = OW[posWeight + 1] /\ Heavier' = Heavier \cup At
  <2>1. Current' = OW'[posWeight']
    BY DEF Current, Linear!CurrentWeight, OW
  <2> QED
    BY <1>1, <1>2, <1>5, <2>1 DEF Heavier
<1>7. \A F \in Allowed' : F \in Allowed /\ Cardinality(F \cap At) = c
  <2>1. ASSUME NEW F \in Allowed' PROVE F \in Allowed /\ Cardinality(F \cap At) = c
    <3>1. F \in Allowed /\ Cardinality(F \cap At) <= c
      BY <1>4
    <3>2. Cardinality(F \cap At) \in Nat /\ c <= Cardinality(F \cap At)
      BY <3>1, AllowedCost DEF WeightSolved
    <3> QED
      BY <3>1, <3>2
  <2> QED
    BY <2>1
<1>8. LinearTyped'
  <2>1. models' \in SUBSET feasible /\ posWeight' \in Positions'
    BY <1>1, <1>2, <1>5
  <2>2. lbCost' \in Nat
    <3>1. Current * c \in Nat
      BY <1>1, Multiples
    <3> QED
      BY <1>1, <3>1
  <2> QED
    BY <1>1, <1>2, <1>3, <2>1, <2>2 DEF LinearTyped
<1>9. \A F \in Allowed' : Sum(weight, F \cap Heavier') = lbCost'
  <2>1. ASSUME NEW F \in Allowed' PROVE Sum(weight, F \cap (Heavier \cup At)) = lbCost + Current * c
    <3>1. F \in Allowed /\ Cardinality(F \cap At) = c
      BY <1>7
    <3>2. F \in SUBSET Soft
      BY <3>1, AllowedCost DEF WeightSolved
    <3>3. Sum(weight, F \cap Heavier) = lbCost
      BY <1>1, <3>1 DEF BmoInv, WeightSolved
    <3> QED
      BY <1>1, <3>1, <3>2, <3>3, CostSplits
  <2> QED
    BY <1>6, <2>1
<1>10. \A F \in Allowed' : \A G \in feasible : G \notin Allowed' => Sum(weight, F) <= Sum(weight, G)
  <2>1. ASSUME NEW F \in Allowed', NEW G \in feasible, G \notin Allowed'
        PROVE  Sum(weight, F) <= Sum(weight, G)
    <3>1. F \in Allowed /\ Cardinality(F \cap At) = c
      BY <1>7
    <3>2. CASE G \notin Allowed
      BY <1>1, <3>1, <3>2 DEF BmoInv, WeightSolved
    <3>3. CASE G \in Allowed
      <4> DEFINE f == Sum(weight, F \cap Lighter)
                 g == Sum(weight, G \cap Lighter)
                 d == Cardinality(G \cap At)
      <4>1. f \in Nat /\ f <= Current /\ Sum(weight, F) = lbCost + Current * c + f
        BY <3>1, AllowedCost DEF AtCost, WeightSolved
      <4>2. g \in Nat /\ d \in Nat /\ Sum(weight, G) = lbCost + Current * d + g
        BY <3>3, AllowedCost DEF AtCost, WeightSolved
      <4>3. ~ (d <= c)
        BY <1>4, <2>1, <3>3
      <4> HIDE DEF f, g, d
      <4>4. c < d
        BY <4>2, <4>3
      <4>5. Current * c + Current <= Current * d /\ Current * c \in Nat /\ Current * d \in Nat
        BY <1>1, <4>2, <4>4, Multiples
      <4> QED
        BY <1>1, <4>1, <4>2, <4>5
    <3> QED
      BY <3>2, <3>3
  <2> QED
    BY <2>1
<1>11. feasible # {} => Allowed' # {}
  <2>1. ASSUME NEW F \in Allowed, Cardinality(F \cap At) = c PROVE F \in Allowed'
    BY <1>4, <2>1
  <2> QED
    BY <2>1 DEF WeightSolved
<1>12. BmoInv'
  <2>1. models' = Allowed' /\ model' = NULL /\ localCost' = 0
    BY <1>2, <1>4 DEF WeightSolved
  <2> QED
    BY <1>9, <1>10, <1>11, <2>1 DEF BmoInv
<1>13. NormalInv' /\ EncodingInv' /\ LinearOptimum' /\ Linear!UnsatIsInfeasible'
  BY <1>2 DEF WeightSolved, NormalInv, EncodingInv, LinearOptimum, Linear!UnsatIsInfeasible
<1> QED
  BY <1>8, <1>12, <1>13 DEF LinearInv

\* While the current weight is searched, models are read as before.
LEMMA SameWeight ==
  ASSUME UNCHANGED <<weight, feasible, posWeight, functions>>
  PROVE  /\ Current' = Current /\ (Linear!LastWeight' <=> Linear!LastWeight)
         /\ Positions' = Positions /\ Heavier' = Heavier /\ At' = At /\ Allowed' = Allowed
<1>1. Current' = Current /\ (Linear!LastWeight' <=> Linear!LastWeight) /\ Positions' = Positions
  BY DEF Current, Linear!CurrentWeight, Linear!LastWeight, Positions, Weights
<1>2. Heavier' = Heavier /\ At' = At /\ Allowed' = Allowed
  BY <1>1 DEF Heavier, At, Allowed, Meets
<1> QED
  BY <1>1, <1>2

\* The solver allows models that meet the optima so far only.
LEMMA ModelsAllowed ==
  ASSUME LinearInv, status = "searching", bmo
  PROVE  models \in SUBSET Allowed
<1>1. LinearTyped /\ BmoInv
  BY DEF LinearInv
<1>2. localCost = 0 \/ localCost > 0
  BY <1>1 DEF LinearTyped
<1> QED
  BY <1>1, <1>2 DEF BmoInv

\* A model that falsifies nothing of the current weight, which is not the last.
LEMMA LinearSolvedWeight ==
  ASSUME LinearInv, status = "searching", NEW F \in models, Linear!SolvedWeight(F),
         UNCHANGED <<weight, feasible, bmo>>
  PROVE  LinearInv'
<1>1. /\ bmo /\ ~ Linear!LastWeight /\ Linear!NewCost(F) = 0 /\ nbSatisfiable' = nbSatisfiable + 1
      /\ model' = model /\ ubCost' = ubCost /\ Linear!NextWeight(0) /\ lbCost' = lbCost
  BY DEF Linear!SolvedWeight, Linear!Sat, Linear!KeepModel
<1>2. /\ F \in Allowed /\ F \in feasible /\ Cardinality(F \cap At) \in Nat /\ AtCost(F) = 0
  BY <1>1, ModelsAllowed, AllowedCost
<1>3. LinearTyped /\ BmoInv /\ Current \in Nat \ {0} /\ lbCost \in Nat /\ nbSatisfiable \in Nat
      /\ (localCost = 0 \/ localCost > 0)
  <2>1. LinearTyped /\ BmoInv /\ lbCost \in Nat /\ nbSatisfiable \in Nat /\ localCost \in Nat
    BY DEF LinearInv, LinearTyped
  <2>2. F \in feasible
    BY <1>2
  <2>3. Current \in Nat \ {0}
    BY <2>1, <2>2, NewCostIs
  <2> QED
    BY <2>1, <2>3
<1>4. Cardinality(F \cap At) = 0
  BY <1>2, <1>3, Multiples DEF AtCost
<1>5. model = NULL
  BY <1>1, <1>3 DEF BmoInv
<1>6. WeightSolved(0)
  <2>1. \A G \in Allowed : 0 <= Cardinality(G \cap At)
    <3>1. \A G \in Allowed : Cardinality(G \cap At) \in Nat
      BY <1>1, AllowedCost
    <3> QED
      BY <3>1
  <2> QED
    BY <1>1, <1>2, <1>4, <1>5, <2>1 DEF WeightSolved
<1>7. GoesOn
  BY <1>1, <1>2, <1>3 DEF GoesOn
<1>8. Current * 0 = 0 /\ lbCost + 0 = lbCost
  BY <1>3
<1> QED
  BY <1>1, <1>6, <1>7, <1>8, LinearNextWeight

\* No model is cheaper at the current weight, which is not the last: its optimum.
LEMMA RefutedIs ==
  ASSUME LinearInv, status = "searching", bmo, ~ Linear!LastWeight, models = {}
  PROVE  \E c \in Nat : WeightSolved(c) /\ localCost = Current * c
<1>1. LinearTyped /\ BmoInv /\ localCost \in Nat /\ Weighed /\ Current \in Nat \ {0}
  <2>1. LinearTyped /\ BmoInv /\ localCost \in Nat /\ Weighed
    BY WeightsAssumption DEF LinearInv, LinearTyped, Weighed
  <2> QED
    BY <2>1, CurrentIs DEF LinearTyped
<1>2. CASE localCost = 0
  <2>1. Allowed = {} /\ feasible = {} /\ model = NULL
    BY <1>1, <1>2 DEF BmoInv
  <2>2. WeightSolved(0)
    BY <2>1 DEF WeightSolved
  <2>3. localCost = Current * 0 /\ 0 \in Nat
    BY <1>1, <1>2
  <2> QED
    BY <2>2, <2>3
<1>3. CASE localCost # 0
  <2>1. localCost > 0
    BY <1>1, <1>3
  <2>2. PICK F \in Allowed : AtCost(F) = localCost
    BY <1>1, <2>1 DEF BmoInv
  <2> DEFINE c == Cardinality(F \cap At)
  <2>3. c \in Nat /\ localCost = Current * c /\ model = NULL
    BY <1>1, <2>1, <2>2, AllowedCost DEF AtCost, BmoInv
  <2>4. ASSUME NEW G \in Allowed PROVE c <= Cardinality(G \cap At)
    <3>1. ~ (AtCost(G) < localCost)
      BY <1>1, <2>1 DEF BmoInv
    <3>2. Cardinality(G \cap At) \in Nat
      BY AllowedCost
    <3>3. ~ (Current * Cardinality(G \cap At) < Current * c)
      BY <2>3, <3>1 DEF AtCost
    <3> HIDE DEF c
    <3>4. ~ (Cardinality(G \cap At) < c)
      BY <1>1, <2>3, <3>2, <3>3, Multiples
    <3> QED
      BY <2>3, <3>2, <3>4
  <2>5. WeightSolved(c)
    BY <2>2, <2>3, <2>4 DEF WeightSolved
  <2> QED
    BY <2>3, <2>5
<1> QED
  BY <1>2, <1>3

\* No cheaper model at the current weight: its optimum is known, and adds to the bound.
LEMMA LinearRefutedWeight ==
  ASSUME LinearInv, status = "searching", Linear!RefutedWeight,
         UNCHANGED <<weight, feasible, bmo>>
  PROVE  LinearInv'
<1>1. /\ bmo /\ ~ Linear!LastWeight /\ models = {} /\ nbSatisfiable' = nbSatisfiable
      /\ model' = model /\ ubCost' = ubCost /\ Linear!NextWeight(localCost)
      /\ lbCost' = lbCost + localCost
  BY DEF Linear!RefutedWeight, Linear!KeepModel
<1>2. PICK c \in Nat : WeightSolved(c) /\ localCost = Current * c
  BY <1>1, RefutedIs
<1>3. GoesOn
  BY <1>1 DEF GoesOn, LinearInv, LinearTyped, BmoInv
<1> QED
  BY <1>1, <1>2, <1>3, LinearNextWeight

\* A model to improve on: what the solver allows afterwards.
LEMMA TightenIs ==
  ASSUME LinearInv, status = "searching", bmo, NEW F \in models, Linear!NewCost(F) > 0,
         Linear!Tighten(F)
  PROVE  /\ localCost' = AtCost(F) /\ localCost' > 0 /\ localCost' \in Nat
         /\ localCost > 0 => AtCost(F) < localCost
         /\ models' = {G \in Allowed : AtCost(G) < AtCost(F)}
         /\ encoded' = At \/ (encoded' = {} /\ \A G \in models' : G \cap At = {})
         /\ status' = "searching"
<1> DEFINE c == Cardinality(F \cap At)
<1>1. /\ LinearTyped /\ BmoInv /\ EncodingInv /\ F \in Allowed /\ F \in feasible
      /\ F \in SUBSET Soft /\ c \in Nat /\ AtCost(F) \in Nat /\ Linear!NewCost(F) = AtCost(F)
      /\ localCost \in Nat
  BY ModelsAllowed, AllowedCost DEF LinearInv, LinearTyped
<1>2. Current \in Nat \ {0} /\ Linear!Objective = At /\ At \in SUBSET Soft
  BY <1>1, NewCostIs DEF At
<1>3. AtCost(F) = Current * c /\ (Current * c) \div Current = c /\ c > 0
  BY <1>1, <1>2, Multiples DEF AtCost
<1>4. \A G \in Allowed : /\ Cardinality(G \cap At) \in Nat
                         /\ Cardinality(G \cap At) <= c - 1 <=> AtCost(G) < AtCost(F)
  <2>1. ASSUME NEW G \in Allowed
        PROVE  /\ Cardinality(G \cap At) \in Nat
               /\ Cardinality(G \cap At) <= c - 1 <=> AtCost(G) < AtCost(F)
    <3>1. Cardinality(G \cap At) \in Nat
      BY AllowedCost
    <3>2. AtCost(G) < AtCost(F) <=> Cardinality(G \cap At) < c
      BY <1>1, <1>2, <3>1, Multiples DEF AtCost
    <3> QED
      BY <1>1, <3>1, <3>2
  <2> QED
    BY <2>1
<1>5. /\ localCost' = AtCost(F)
      /\ localCost = 0 => /\ models' = {G \in models : Cardinality(G \cap At) <= c - 1}
                          /\ encoded' = IF c - 1 = 0 \/ c - 1 = Cardinality(At) THEN {} ELSE At
                          /\ status' = status
      /\ localCost # 0 => /\ models' = {G \in models : Cardinality(G \cap encoded) <= c - 1}
                          /\ status' = (IF encoded = {} THEN "undefined" ELSE status)
                          /\ encoded' = encoded
  <2>1. Linear!NewCost(F) \div Linear!CurrentWeight - 1 = c - 1
    BY <1>1, <1>3 DEF Current
  <2> HIDE DEF c
  <2> QED
    BY <1>1, <1>2, <2>1, LinearCardinality
       DEF Linear!Tighten, Linear!AtMost, Linear!EncodedFor
<1>6. CASE localCost = 0
  <2>1. models = Allowed
    BY <1>1, <1>6 DEF BmoInv
  <2>2. models' = {G \in Allowed : AtCost(G) < AtCost(F)}
    BY <1>4, <1>5, <1>6, <2>1
  <2>3. c <= Cardinality(At) /\ Cardinality(At) \in Nat
    <3>1. IsFiniteSet(At) /\ Cardinality(At) \in Nat
      BY <1>2, SubsetCardinality
    <3>2. F \cap At \in SUBSET At
      OBVIOUS
    <3> QED
      BY <3>1, <3>2, FS_Subset
  <2>4. c - 1 # Cardinality(At)
    <3> HIDE DEF c
    <3> QED
      BY <1>1, <2>3
  <2>5. ASSUME c - 1 = 0, NEW G \in models' PROVE G \cap At = {}
    <3>1. G \in Allowed /\ Cardinality(G \cap At) <= c - 1
      BY <1>5, <1>6, <2>1, <2>5
    <3>2. Cardinality(G \cap At) = 0
      BY <1>4, <2>5, <3>1
    <3>3. G \cap At \in SUBSET Soft
      BY <1>2
    <3> QED
      BY <3>2, <3>3, NoneIsEmpty
  <2>6. encoded' = At \/ (encoded' = {} /\ \A G \in models' : G \cap At = {})
    <3> HIDE DEF c
    <3> QED
      BY <1>5, <1>6, <2>4, <2>5
  <2> QED
    BY <1>1, <1>5, <1>6, <2>2, <2>6
<1>7. CASE localCost # 0
  <2>1. localCost > 0
    BY <1>1, <1>7
  <2>2. models = {G \in Allowed : AtCost(G) < localCost} /\ AtCost(F) < localCost
    BY <1>1, <2>1 DEF BmoInv
  <2>3. encoded = At /\ encoded # {}
    <3>1. F \cap At # {}
      BY <1>1, <1>3, EmptyHasNone
    <3> QED
      BY <1>1, <2>1, <3>1 DEF EncodingInv
  <2>4. models' = {G \in Allowed : AtCost(G) < AtCost(F)}
    <3>1. models' = {G \in models : Cardinality(G \cap At) <= c - 1}
      BY <1>5, <1>7, <2>3
    <3>2. \A G \in Allowed : AtCost(G) \in Nat
      BY AllowedCost
    <3>3. \A G \in Allowed : AtCost(G) < AtCost(F) => AtCost(G) < localCost
      BY <1>1, <2>2, <3>2
    <3> QED
      BY <1>4, <2>2, <3>1, <3>3
  <2> QED
    BY <1>1, <1>3, <1>5, <1>7, <2>2, <2>3, <2>4
<1> QED
  BY <1>1, <1>6, <1>7

\* A model that improves the cost at the current weight.
LEMMA LinearImprovedWeight ==
  ASSUME LinearInv, status = "searching", NEW F \in models, Linear!ImprovedWeight(F),
         UNCHANGED <<weight, feasible, bmo>>
  PROVE  LinearInv'
<1>1. /\ bmo /\ Linear!NewCost(F) > 0 /\ nbSatisfiable' = nbSatisfiable + 1
      /\ Linear!Tighten(F) /\ posWeight' = posWeight /\ functions' = functions /\ lbCost' = lbCost
      /\ Linear!LastWeight => model' = F /\ ubCost' = Linear!NewCost(F) + lbCost
      /\ ~ Linear!LastWeight => model' = model /\ ubCost' = ubCost
  BY DEF Linear!ImprovedWeight, Linear!Sat, Linear!KeepModel, Linear!Save, Linear!Stay
<1>2. /\ localCost' = AtCost(F) /\ localCost' > 0 /\ localCost' \in Nat
      /\ models' = {G \in Allowed : AtCost(G) < AtCost(F)}
      /\ encoded' = At \/ (encoded' = {} /\ \A G \in models' : G \cap At = {})
      /\ status' = "searching"
  BY <1>1, TightenIs
<1>3. /\ Current' = Current /\ (Linear!LastWeight' <=> Linear!LastWeight)
      /\ Positions' = Positions /\ Heavier' = Heavier /\ At' = At /\ Allowed' = Allowed
  BY <1>1, SameWeight
<1>4. /\ F \in Allowed /\ F \in feasible /\ Linear!NewCost(F) = AtCost(F) /\ AtCost(F) \in Nat
  BY <1>1, ModelsAllowed, AllowedCost
<1>5. LinearTyped /\ BmoInv
  BY DEF LinearInv
<1>6. LinearTyped'
  <2>1. models' \in SUBSET feasible
    BY <1>2 DEF Allowed
  <2>2. ubCost' \in Nat /\ model' \in feasible \cup {NULL} /\ nbSatisfiable' \in Nat /\ lbCost' \in Nat
    BY <1>1, <1>4, <1>5 DEF LinearTyped
  <2> QED
    BY <1>1, <1>2, <1>3, <1>5, <2>1, <2>2 DEF LinearTyped
<1>7. BmoInv'
  <2>1. /\ \A G \in Allowed : Sum(weight, G \cap Heavier) = lbCost
        /\ \A G \in Allowed : \A H \in feasible : H \notin Allowed => Sum(weight, G) <= Sum(weight, H)
    BY <1>1, <1>5 DEF BmoInv
  <2>2. ~ Linear!LastWeight => model' = NULL
    <3>1. localCost = 0 \/ localCost > 0
      BY <1>5 DEF LinearTyped
    <3> QED
      BY <1>1, <1>5, <3>1 DEF BmoInv
  <2>3. /\ Linear!LastWeight => model' \in Allowed /\ AtCost(model') = localCost'
                                /\ ubCost' = localCost' + lbCost
        /\ \E G \in Allowed : AtCost(G) = localCost'
    BY <1>1, <1>2, <1>4
  <2>4. AtCost(model)' = AtCost(model') /\ \A G : AtCost(G)' = AtCost(G)
    BY <1>3 DEF AtCost
  <2>5. localCost' # 0
    BY <1>2
  <2> QED
    BY <1>1, <1>2, <1>3, <1>4, <2>1, <2>2, <2>3, <2>4, <2>5 DEF BmoInv, AtCost
<1>8. NormalInv' /\ LinearOptimum' /\ Linear!UnsatIsInfeasible' /\ EncodingInv'
  BY <1>1, <1>2, <1>3
     DEF NormalInv, LinearOptimum, Linear!UnsatIsInfeasible, EncodingInv
<1> QED
  BY <1>6, <1>7, <1>8 DEF LinearInv

\* At the last weight, a model that meets all other optima is optimal if the solver
\* allows none that is cheaper at the last weight.
LEMMA LastWeightOptimal ==
  ASSUME LinearInv, status = "searching", bmo, Linear!LastWeight, NEW F \in Allowed,
         \A G \in Allowed : AtCost(F) <= AtCost(G)
  PROVE  Sum(weight, F) = lbCost + AtCost(F) /\ \A G \in feasible : Sum(weight, F) <= Sum(weight, G)
<1>1. \A G \in Allowed : Sum(weight, G) = lbCost + AtCost(G) /\ AtCost(G) \in Nat
  <2>1. ASSUME NEW G \in Allowed
        PROVE  Sum(weight, G) = lbCost + AtCost(G) /\ AtCost(G) \in Nat
    <3>1. Sum(weight, G) = lbCost + AtCost(G) + 0 /\ AtCost(G) \in Nat
      BY AllowedCost
    <3>2. lbCost \in Nat
      BY DEF LinearInv, LinearTyped
    <3> QED
      BY <3>1, <3>2
  <2> QED
    BY <2>1
<1>2. lbCost \in Nat
  BY DEF LinearInv, LinearTyped
<1>3. \A G \in feasible : Sum(weight, F) <= Sum(weight, G)
  <2>1. ASSUME NEW G \in feasible PROVE Sum(weight, F) <= Sum(weight, G)
    <3>1. CASE G \in Allowed
      BY <1>1, <1>2, <3>1
    <3>2. CASE G \notin Allowed
      BY <3>2 DEF LinearInv, BmoInv
    <3> QED
      BY <3>1, <3>2
  <2> QED
    BY <2>1
<1> QED
  BY <1>1, <1>3

\* A model that falsifies nothing more is one of least weight.
LEMMA ZeroCostOptimal ==
  ASSUME LinearInv, status = "searching", NEW F \in models, Linear!NewCost(F) = 0,
         bmo => Linear!LastWeight
  PROVE  /\ F \in feasible /\ Sum(weight, F) = Linear!NewCost(F) + lbCost
         /\ lbCost \in Nat /\ \A G \in feasible : lbCost <= Sum(weight, G)
<1>1. LinearTyped /\ F \in feasible /\ lbCost \in Nat /\ feasible \in SUBSET SUBSET Soft /\ Weighed
  BY WeightsAssumption DEF LinearInv, LinearTyped, Weighed
<1>2. CASE bmo
  <2>1. F \in Allowed /\ AtCost(F) = 0
    BY <1>2, ModelsAllowed, AllowedCost
  <2>2. \A G \in Allowed : AtCost(F) <= AtCost(G)
    <3>1. \A G \in Allowed : AtCost(G) \in Nat
      BY <1>2, AllowedCost
    <3> QED
      BY <2>1, <3>1
  <2>3. Sum(weight, F) = lbCost + AtCost(F) /\ \A G \in feasible : Sum(weight, F) <= Sum(weight, G)
    BY <1>2, <2>1, <2>2, LastWeightOptimal
  <2> QED
    BY <1>1, <2>1, <2>3
<1>3. CASE ~ bmo
  <2>1. Sum(weight, F) = 0 /\ lbCost = 0
    BY <1>1, <1>3, NewCostIs DEF LinearInv, NormalInv
  <2>2. \A G \in feasible : Sum(weight, G) \in Nat
    BY <1>1, WeightSums
  <2> QED
    BY <1>1, <2>1, <2>2
<1> QED
  BY <1>2, <1>3

\* Such a model ends the search.
LEMMA LinearZeroCost ==
  ASSUME LinearInv, status = "searching", NEW F \in models, Linear!ZeroCost(F),
         UNCHANGED <<weight, feasible, bmo>>
  PROVE  LinearInv'
<1>1. /\ bmo => Linear!LastWeight
      /\ Linear!NewCost(F) = 0 /\ nbSatisfiable' = nbSatisfiable + 1
      /\ model' = F /\ ubCost' = Linear!NewCost(F) + lbCost /\ status' = "OPTIMUM"
      /\ posWeight' = posWeight /\ functions' = functions /\ lbCost' = lbCost
      /\ models' = models /\ encoded' = encoded /\ localCost' = localCost
  BY DEF Linear!ZeroCost, Linear!Sat, Linear!Save, Linear!Stay
<1>2. /\ F \in feasible /\ Sum(weight, F) = Linear!NewCost(F) + lbCost
      /\ lbCost \in Nat /\ \A G \in feasible : lbCost <= Sum(weight, G)
  BY <1>1, ZeroCostOptimal
<1>3. Positions' = Positions /\ At' = At
  BY <1>1, SameWeight
<1>4. ubCost' = lbCost
  BY <1>1, <1>2
<1>5. LinearTyped'
  BY <1>1, <1>2, <1>3, <1>4 DEF LinearInv, LinearTyped
<1>6. LinearOptimum'
  BY <1>1, <1>2, <1>4 DEF LinearOptimum
<1>7. NormalInv' /\ BmoInv' /\ EncodingInv' /\ Linear!UnsatIsInfeasible'
  BY <1>1, <1>3 DEF LinearInv, NormalInv, BmoInv, EncodingInv, Linear!UnsatIsInfeasible
<1> QED
  BY <1>5, <1>6, <1>7 DEF LinearInv

\* normalSearch: only cheaper models are allowed from now on.
LEMMA LinearImproved ==
  ASSUME LinearInv, status = "searching", NEW F \in models, Linear!Improved(F),
         UNCHANGED <<weight, feasible, bmo>>
  PROVE  LinearInv'
<1>1. /\ ~ bmo /\ nbSatisfiable' = nbSatisfiable + 1
      /\ model' = F /\ ubCost' = Linear!NewCost(F) + lbCost
      /\ models' = {G \in models : Sum(weight, G) <= Sum(weight, F) - 1}
      /\ posWeight' = posWeight /\ functions' = functions /\ lbCost' = lbCost
      /\ encoded' = encoded /\ localCost' = localCost /\ status' = status
  BY LinearSums DEF Linear!Improved, Linear!Sat, Linear!Save, Linear!Stay
<1>2. LinearTyped /\ NormalInv /\ F \in feasible /\ feasible \in SUBSET SUBSET Soft /\ Weighed
      /\ nbSatisfiable \in Nat /\ lbCost = 0
  BY <1>1, WeightsAssumption DEF LinearInv, LinearTyped, Weighed, NormalInv
<1>3. /\ \A G \in feasible : Sum(weight, G) \in Nat
      /\ ubCost' = Sum(weight, F)
  <2>1. \A G \in feasible : Sum(weight, G) \in Nat
    BY <1>2, WeightSums
  <2>2. Linear!NewCost(F) = Sum(weight, F)
    BY <1>1, <1>2, NewCostIs
  <2> QED
    BY <1>1, <1>2, <2>1, <2>2
<1>4. models' = {G \in feasible : Sum(weight, G) < ubCost'}
  <2>1. CASE nbSatisfiable = 0
    <3>1. models = feasible
      BY <1>1, <1>2, <2>1 DEF NormalInv
    <3> QED
      BY <1>1, <1>2, <1>3, <3>1
  <2>2. CASE nbSatisfiable # 0
    <3>1. models = {G \in feasible : Sum(weight, G) < ubCost} /\ ubCost \in Nat
      BY <1>1, <1>2, <2>2 DEF NormalInv, LinearTyped
    <3>2. ubCost' < ubCost
      BY <1>3, <3>1
    <3> QED
      BY <1>1, <1>2, <1>3, <3>1, <3>2
  <2> QED
    BY <2>1, <2>2
<1>5. Positions' = Positions
  BY <1>1, SameWeight
<1>6. LinearTyped'
  <2>1. nbSatisfiable' \in Nat /\ ubCost' \in Nat /\ models' \in SUBSET feasible
    BY <1>1, <1>2, <1>3, <1>4
  <2> QED
    BY <1>1, <1>2, <1>5, <2>1 DEF LinearTyped
<1>7. NormalInv'
  <2>1. nbSatisfiable' # 0
    BY <1>1, <1>2
  <2> QED
    BY <1>1, <1>2, <1>3, <1>4, <2>1 DEF NormalInv
<1>8. BmoInv' /\ EncodingInv' /\ LinearOptimum' /\ Linear!UnsatIsInfeasible'
  BY <1>1 DEF BmoInv, EncodingInv, LinearOptimum, Linear!UnsatIsInfeasible
<1> QED
  BY <1>6, <1>7, <1>8 DEF LinearInv

\* The solver allows no model any more, at the last weight if weights are optimised one by
\* one: the saved model is optimal, or the hard clauses have none.
LEMMA RefutedOptimal ==
  ASSUME LinearInv, status = "searching", models = {}, bmo => Linear!LastWeight
  PROVE  /\ model = NULL => feasible = {} /\ nbSatisfiable = 0
         /\ model # NULL => /\ model \in feasible /\ ubCost = Sum(weight, model)
                            /\ \A F \in feasible : ubCost <= Sum(weight, F)
<1>1. /\ LinearTyped /\ BmoInv /\ NormalInv /\ feasible \in SUBSET SUBSET Soft /\ Weighed
      /\ localCost \in Nat /\ nbSatisfiable \in Nat /\ lbCost \in Nat /\ NULL \notin feasible
      /\ ubCost \in Nat
  BY WeightsAssumption, FormulaAssumption DEF LinearInv, LinearTyped, Weighed
<1>2. CASE ~ bmo
  <2>1. CASE nbSatisfiable = 0
    BY <1>1, <1>2, <2>1 DEF NormalInv
  <2>2. CASE nbSatisfiable # 0
    <3>1. model \in feasible /\ ubCost = Sum(weight, model)
          /\ models = {F \in feasible : Sum(weight, F) < ubCost}
      BY <1>1, <1>2, <2>2 DEF NormalInv
    <3>2. \A F \in feasible : Sum(weight, F) \in Nat
      BY <1>1, WeightSums
    <3>3. \A F \in feasible : ubCost <= Sum(weight, F)
      BY <1>1, <3>1, <3>2
    <3> QED
      BY <1>1, <3>1, <3>3
  <2> QED
    BY <2>1, <2>2
<1>3. CASE bmo /\ localCost = 0
  <2>1. Allowed = {} /\ feasible = {} /\ model = NULL
    BY <1>1, <1>3 DEF BmoInv
  <2>2. nbSatisfiable = 0
    BY <1>1, <1>3, <2>1 DEF BmoInv
  <2> QED
    BY <2>1, <2>2
<1>4. CASE bmo /\ localCost # 0
  <2>1. localCost > 0
    BY <1>1, <1>4
  <2>2. /\ model \in Allowed /\ AtCost(model) = localCost /\ ubCost = localCost + lbCost
        /\ models = {F \in Allowed : AtCost(F) < localCost}
    BY <1>1, <1>4, <2>1 DEF BmoInv
  <2>3. \A F \in Allowed : AtCost(model) <= AtCost(F)
    <3>1. \A F \in Allowed : AtCost(F) \in Nat
      BY <1>4, AllowedCost
    <3> QED
      BY <1>1, <2>2, <3>1
  <2>4. Sum(weight, model) = lbCost + AtCost(model)
        /\ \A F \in feasible : Sum(weight, model) <= Sum(weight, F)
    BY <1>4, <2>2, <2>3, LastWeightOptimal
  <2>5. ubCost = Sum(weight, model) /\ model \in feasible
    BY <1>1, <2>2, <2>4 DEF Allowed
  <2> QED
    BY <1>1, <2>4, <2>5
<1> QED
  BY <1>2, <1>3, <1>4

\* The search ends when the solver allows no model any more.
LEMMA LinearRefuted ==
  ASSUME LinearInv, status = "searching", Linear!Refuted,
         UNCHANGED <<weight, feasible, bmo>>
  PROVE  LinearInv'
<1>1. /\ bmo => Linear!LastWeight
      /\ models = {} /\ status' = (IF model = NULL THEN "UNSATISFIABLE" ELSE "OPTIMUM")
      /\ nbSatisfiable' = nbSatisfiable /\ model' = model /\ ubCost' = ubCost
      /\ posWeight' = posWeight /\ functions' = functions /\ lbCost' = lbCost
      /\ models' = models /\ encoded' = encoded /\ localCost' = localCost
  BY DEF Linear!Refuted, Linear!KeepModel, Linear!Stay
<1>2. /\ model = NULL => feasible = {} /\ nbSatisfiable = 0
      /\ model # NULL => /\ model \in feasible /\ ubCost = Sum(weight, model)
                         /\ \A F \in feasible : ubCost <= Sum(weight, F)
  BY <1>1, RefutedOptimal
<1>3. Positions' = Positions /\ At' = At
  BY <1>1, SameWeight
<1>4. LinearTyped'
  BY <1>1, <1>3 DEF LinearInv, LinearTyped
<1>5. LinearOptimum' /\ Linear!UnsatIsInfeasible'
  BY <1>1, <1>2 DEF LinearOptimum, Linear!UnsatIsInfeasible
<1>6. NormalInv' /\ BmoInv' /\ EncodingInv'
  BY <1>1, <1>3 DEF LinearInv, NormalInv, BmoInv, EncodingInv
<1> QED
  BY <1>4, <1>5, <1>6 DEF LinearInv

\* Every step of LinearSU keeps the invariant.
LEMMA LinearStep ==
  ASSUME LinearInv, Linear!Next
  PROVE  LinearInv'
<1>1. status = "searching" /\ UNCHANGED <<weight, feasible, bmo>>
  BY DEF Linear!Next
<1>2. ASSUME NEW F \in models, Linear!SolvedWeight(F) \/ Linear!ImprovedWeight(F)
                                 \/ Linear!ZeroCost(F) \/ Linear!Improved(F)
      PROVE  LinearInv'
  BY <1>1, <1>2, LinearSolvedWeight, LinearImprovedWeight, LinearZeroCost, LinearImproved
<1>3. ASSUME Linear!RefutedWeight \/ Linear!Refuted PROVE LinearInv'
  BY <1>1, <1>3, LinearRefutedWeight, LinearRefuted
<1> QED
  BY <1>2, <1>3 DEF Linear!Next

\* The invariant holds what the run checks of LinearSU.
LEMMA LinearChecked ==
  ASSUME LinearInv
  PROVE  Linear!UpdatesOwnEncoding /\ Linear!UnsatIsInfeasible
<1>1. Linear!UnsatIsInfeasible /\ status # "undefined"
  BY DEF LinearInv, LinearTyped
<1>2. bmo => Linear!Objective = At
  BY DEF Linear!Objective, Linear!OfWeight, At, Current
<1> QED
  BY <1>1, <1>2 DEF LinearInv, EncodingInv, Linear!UpdatesOwnEncoding

\* The abstract search adds up weights as this module does,
LEMMA PromiseSums == \A F : Promise!Cost(F) = Sum(weight, F)
  BY Zenon DEF Promise!Cost, Promise!MapThenSumSet, Promise!MapThenFoldSet,
     Sum, SumFunctionOnSet, FoldFunctionOnSet, MapThenFoldSet

\* and so does this run.
LEMMA RunSums == \A F : Cost(F) = Sum(weight, F)
  BY Zenon DEF Cost, MapThenSumSet, Sum, SumFunctionOnSet, FoldFunctionOnSet, MapThenFoldSet

\* When every model found is saved, the next is cheaper.
LEMMA NextIsCheaper ==
  ASSUME LinearInv, status = "searching", NEW F \in models, bmo => Linear!LastWeight,
         model # NULL
  PROVE  model \in feasible /\ Sum(weight, F) < Sum(weight, model)
<1>1. LinearTyped /\ BmoInv /\ NormalInv /\ localCost \in Nat /\ nbSatisfiable \in Nat
      /\ lbCost \in Nat
  BY DEF LinearInv, LinearTyped
<1>2. CASE bmo
  <2>1. localCost > 0
    BY <1>1, <1>2 DEF BmoInv
  <2>2. /\ model \in Allowed /\ AtCost(model) = localCost
        /\ F \in Allowed /\ AtCost(F) < localCost
    BY <1>1, <1>2, <2>1 DEF BmoInv
  <2>3. \A G \in Allowed : Sum(weight, G) = lbCost + AtCost(G) + 0 /\ AtCost(G) \in Nat
    BY <1>2, AllowedCost
  <2> QED
    BY <1>1, <2>2, <2>3 DEF Allowed
<1>3. CASE ~ bmo
  BY <1>1, <1>3 DEF NormalInv
<1> QED
  BY <1>2, <1>3

\* The optimum of a weight raises the bound to what every model costs.
LEMMA SolvedRaises ==
  ASSUME LinearInv, NEW c \in Nat, WeightSolved(c)
  PROVE  \A G \in feasible : lbCost + Current * c <= Sum(weight, G)
<1>1. /\ status = "searching" /\ bmo /\ LinearTyped /\ BmoInv /\ lbCost \in Nat
      /\ Weighed /\ Current \in Nat \ {0}
  <2>1. status = "searching" /\ bmo /\ LinearTyped /\ BmoInv /\ lbCost \in Nat /\ Weighed
    BY WeightsAssumption DEF WeightSolved, LinearInv, LinearTyped, Weighed
  <2> QED
    BY <2>1, CurrentIs DEF LinearTyped
<1>2. ASSUME NEW G \in Allowed PROVE lbCost + Current * c <= Sum(weight, G)
  <2> DEFINE d == Cardinality(G \cap At)
             s == Sum(weight, G \cap Lighter)
  <2>1. /\ d \in Nat /\ s \in Nat /\ Sum(weight, G) = lbCost + Current * d + s
    BY <1>1, AllowedCost DEF AtCost
  <2>2. c <= d
    BY DEF WeightSolved
  <2> HIDE DEF d, s
  <2>3. Current * c <= Current * d /\ Current * c \in Nat /\ Current * d \in Nat
    BY <1>1, <2>1, <2>2, Multiples
  <2> QED
    BY <1>1, <2>1, <2>3
<1>3. ASSUME NEW G \in feasible, G \notin Allowed
      PROVE  lbCost + Current * c <= Sum(weight, G)
  <2>1. PICK F \in Allowed : TRUE
    BY <1>1, <1>3 DEF BmoInv
  <2>2. lbCost + Current * c <= Sum(weight, F)
    BY <1>2
  <2>3. Sum(weight, F) <= Sum(weight, G)
    BY <1>1, <1>3 DEF BmoInv
  <2>4. Sum(weight, F) \in Nat /\ Sum(weight, G) \in Nat /\ Current * c \in Nat
    <3>1. F \in SUBSET Soft /\ G \in SUBSET Soft
      BY <1>1, <1>3, AllowedCost, NewCostIs
    <3> QED
      BY <1>1, <3>1, WeightSums, Multiples
  <2> QED
    BY <1>1, <2>2, <2>3, <2>4
<1> QED
  BY <1>2, <1>3

\* A step of LinearSU is a step of the weighted search.
LEMMA LinearImplements ==
  ASSUME LinearInv, Linear!Next, algorithm = "linearsu", algorithm' = algorithm
  PROVE  [Promise!Next]_(Promise!vars)
<1> USE PromiseSums DEF Promise!IsLowerBound
<1>1. /\ status = "searching" /\ UNCHANGED <<weight, feasible, bmo>> /\ lbCost \in Nat
      /\ localCost \in Nat /\ status' \in {"searching", "OPTIMUM", "UNSATISFIABLE"}
  BY LinearStep DEF Linear!Next, LinearInv, LinearTyped
<1>2. ASSUME NEW F \in models, Linear!SolvedWeight(F)
      PROVE  [Promise!Next]_(Promise!vars)
  <2>1. model' = model /\ lbCost' = lbCost /\ status' = status
    BY <1>2 DEF Linear!SolvedWeight, Linear!KeepModel, Linear!NextWeight
  <2> QED
    BY <1>1, <2>1 DEF Promise!vars
<1>3. ASSUME NEW F \in models, Linear!ImprovedWeight(F)
      PROVE  [Promise!Next]_(Promise!vars)
  <2>1. bmo /\ Linear!NewCost(F) > 0 /\ Linear!Tighten(F) /\ lbCost' = lbCost
    BY <1>3 DEF Linear!ImprovedWeight, Linear!Stay
  <2>2. status' = status
    BY <1>1, <2>1, TightenIs
  <2>3. CASE Linear!LastWeight
    <3>1. model' = F
      BY <1>3, <2>3 DEF Linear!ImprovedWeight, Linear!Save
    <3>2. F \in feasible /\ (model # NULL => Sum(weight, F) < Sum(weight, model))
      BY <1>1, <2>3, NextIsCheaper DEF LinearInv, LinearTyped
    <3>3. Promise!Improve
      BY <1>1, <2>1, <2>2, <3>1, <3>2 DEF Promise!Improve
    <3> QED
      BY <1>1, <3>3 DEF Promise!Next
  <2>4. CASE ~ Linear!LastWeight
    <3>1. model' = model
      BY <1>3, <2>4 DEF Linear!ImprovedWeight, Linear!KeepModel
    <3> QED
      BY <1>1, <2>1, <2>2, <3>1 DEF Promise!vars
  <2> QED
    BY <2>3, <2>4
<1>4. ASSUME NEW F \in models, Linear!ZeroCost(F)
      PROVE  [Promise!Next]_(Promise!vars)
  <2>1. /\ bmo => Linear!LastWeight
        /\ Linear!NewCost(F) = 0 /\ model' = F /\ status' = "OPTIMUM" /\ lbCost' = lbCost
    BY <1>4 DEF Linear!ZeroCost, Linear!Save, Linear!Stay
  <2>2. /\ F \in feasible /\ Sum(weight, F) = lbCost
        /\ \A G \in feasible : lbCost <= Sum(weight, G)
    BY <1>1, <2>1, ZeroCostOptimal
  <2>3. model # NULL => Sum(weight, F) < Sum(weight, model)
    BY <1>1, <2>1, NextIsCheaper
  <2>4. Promise!Conclude
    BY <1>1, <2>1, <2>2, <2>3 DEF Promise!Conclude
  <2> QED
    BY <1>1, <2>4 DEF Promise!Next
<1>5. ASSUME NEW F \in models, Linear!Improved(F)
      PROVE  [Promise!Next]_(Promise!vars)
  <2>1. ~ bmo /\ model' = F /\ lbCost' = lbCost /\ status' = status
    BY <1>5 DEF Linear!Improved, Linear!Save, Linear!Stay
  <2>2. F \in feasible /\ (model # NULL => Sum(weight, F) < Sum(weight, model))
    BY <1>1, <2>1, NextIsCheaper DEF LinearInv, LinearTyped
  <2>3. Promise!Improve
    BY <1>1, <2>1, <2>2 DEF Promise!Improve
  <2> QED
    BY <1>1, <2>3 DEF Promise!Next
<1>6. ASSUME Linear!RefutedWeight
      PROVE  [Promise!Next]_(Promise!vars)
  <2>1. /\ bmo /\ ~ Linear!LastWeight /\ models = {} /\ model' = model
        /\ lbCost' = lbCost + localCost /\ status' = status
    BY <1>6 DEF Linear!RefutedWeight, Linear!KeepModel, Linear!NextWeight
  <2>2. \A G \in feasible : lbCost + localCost <= Sum(weight, G)
    <3>1. PICK c \in Nat : WeightSolved(c) /\ localCost = Current * c
      BY <1>1, <2>1, RefutedIs
    <3> QED
      BY <3>1, SolvedRaises
  <2>3. CASE localCost = 0
    BY <1>1, <2>1, <2>3 DEF Promise!vars
  <2>4. CASE localCost # 0
    <3>1. Promise!RaiseBound
      BY <1>1, <2>1, <2>2, <2>4 DEF Promise!RaiseBound
    <3> QED
      BY <1>1, <3>1 DEF Promise!Next
  <2> QED
    BY <2>3, <2>4
<1>7. ASSUME Linear!Refuted
      PROVE  [Promise!Next]_(Promise!vars)
  <2>1. /\ bmo => Linear!LastWeight
        /\ models = {} /\ status' = (IF model = NULL THEN "UNSATISFIABLE" ELSE "OPTIMUM")
        /\ model' = model /\ lbCost' = lbCost
    BY <1>7 DEF Linear!Refuted, Linear!KeepModel, Linear!Stay
  <2>2. /\ model = NULL => feasible = {}
        /\ model # NULL => /\ model \in feasible /\ ubCost = Sum(weight, model)
                           /\ \A F \in feasible : ubCost <= Sum(weight, F)
    BY <1>1, <2>1, RefutedOptimal
  <2>3. CASE model = NULL
    <3>1. Promise!Refute
      BY <1>1, <2>1, <2>2, <2>3 DEF Promise!Refute
    <3> QED
      BY <1>1, <3>1 DEF Promise!Next
  <2>4. CASE model # NULL
    <3>1. \A F \in feasible : lbCost <= Sum(weight, F)
      <4>1. CASE ~ bmo
        <5>1. lbCost = 0 /\ feasible \in SUBSET SUBSET Soft /\ Weighed
          BY <1>1, <4>1, WeightsAssumption DEF LinearInv, NormalInv, LinearTyped, Weighed
        <5> QED
          BY <5>1, WeightSums
      <4>2. CASE bmo
        <5>1. localCost # 0
          BY <1>1, <2>4, <4>2 DEF LinearInv, BmoInv
        <5>2. ubCost = localCost + lbCost
          BY <1>1, <2>1, <4>2, <5>1 DEF LinearInv, BmoInv
        <5>3. \A F \in feasible : Sum(weight, F) \in Nat
          <6>1. feasible \in SUBSET SUBSET Soft /\ Weighed
            BY WeightsAssumption DEF LinearInv, LinearTyped, Weighed
          <6> QED
            BY <6>1, WeightSums
        <5> QED
          BY <1>1, <2>2, <2>4, <5>2, <5>3
      <4> QED
        BY <4>1, <4>2
    <3>2. Promise!Conclude
      BY <1>1, <2>1, <2>2, <2>4, <3>1 DEF Promise!Conclude
    <3> QED
      BY <1>1, <3>2 DEF Promise!Next
  <2> QED
    BY <2>3, <2>4
<1> QED
  BY <1>2, <1>3, <1>4, <1>5, <1>6, <1>7 DEF Linear!Next

\* Its start is one of the weighted search.
LEMMA LinearPromiseInit ==
  ASSUME Linear!Init
  PROVE  Promise!Init
<1>1. weight \in [Soft -> Nat] /\ feasible \in SUBSET SUBSET Soft
  BY WeightsAssumption DEF Linear!Init
<1> QED
  BY <1>1 DEF Linear!Init, Promise!Init
=============================================================================
