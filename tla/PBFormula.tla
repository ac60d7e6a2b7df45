----------------------------- MODULE PBFormula -----------------------------
(***************************************************************************)
(* src/src/ParserPB.cc reads a pseudo-Boolean formula line by line,        *)
(* src/src/FormulaPB.h normalises each constraint, and                     *)
(* src/src/MaxSATFormula.cc files it as clause, cardinality or             *)
(* pseudo-Boolean constraint and turns the objective into soft clauses.    *)
(*                                                                         *)
(* A line is abstracted to its products <<coefficient, name>>, its         *)
(* relation and its right-hand side.  A literal is an integer: id for the  *)
(* variable with that number (from 1), -id for its negation.               *)
(***************************************************************************)
EXTENDS Integers, FiniteSetsExt, SequencesExt

CONSTANTS
  Names,       \* the variable names
  IntMax,      \* INT_MAX: changeSign sums coefficients in an int
  Products,    \* the sequences of products a constraint may have
  Objectives,  \* the sequences of products an objective may have
  Sides,       \* the right-hand sides
  MaxLines     \* bound on the lines read

VARIABLES
  lines,       \* the constraints read so far; not kept by the program
  minimise,    \* the products of the objective read last, or <<>>; not kept
  names,       \* _nameToIndex: the names in the order of their numbers
  hard,        \* the hard clauses
  cards,       \* the cardinality constraints: lits, rhs (at most)
  pbs,         \* the pseudo-Boolean constraints: lits, coeffs, rhs, sign
  objective,   \* objective_function: lits, coeffs, const
  soft,        \* the soft clauses: lit, weight
  status       \* "reading", "UNKNOWN" or "converted"

vars == <<lines, minimise, names, hard, cards, pbs, objective, soft, status>>

-----------------------------------------------------------------------------
Sum(s) == FoldLeft(+, 0, s)

\* A sum stored in an int.
Wrap(n) == ((n + IntMax + 1) % (2 * (IntMax + 1))) - (IntMax + 1)

\* PB::addProduct: a negative coefficient is moved to the other literal.
AddProduct(p, l, c) ==
  [p EXCEPT !.coeffs = Append(@, IF c >= 0 THEN c ELSE -c),
            !.lits   = Append(@, IF c >= 0 THEN l ELSE -l),
            !.rhs    = IF c >= 0 THEN @ ELSE @ - c]

\* The right-hand side is moved, too.
ChangeSignWrongly(p) ==
  [p EXCEPT !.lits = [i \in DOMAIN p.lits |-> -p.lits[i]],
            !.sign = ~ @]

\* PB::changeSign: at least becomes at most over the negated literals.
ChangeSign(p) ==
  [p EXCEPT !.lits = [i \in DOMAIN p.lits |-> -p.lits[i]],
            !.rhs  = Wrap(Sum(p.coeffs)) - @,
            !.sign = ~ @]

AtLeast(p) == IF p.sign THEN ChangeSign(p) ELSE p

AtMost(p) == IF p.sign THEN p ELSE ChangeSign(p)

Units(p) == \A i \in DOMAIN p.coeffs : p.coeffs[i] = 1

\* PB::isClause leaves a clause as "at least", whatever it was before.
IsClause(p) == AtLeast(p).rhs = 1 /\ Units(p)

IsCardinality(p) == Units(p)

\* MaxSATFormula::addPBConstraint
AddPBConstraint(f, p) ==
  IF IsClause(p) THEN [f EXCEPT !.hard = Append(@, AtLeast(p).lits)]
  ELSE IF IsCardinality(p)
    THEN [f EXCEPT !.cards = Append(@, [lits |-> AtMost(p).lits, rhs |-> AtMost(p).rhs])]
  ELSE [f EXCEPT !.pbs = Append(@, AtMost(p))]

\* ParserPB::getVariableID: a new name gets the next number.
GetVariableID(known, products) ==
  FoldLeft(LAMBDA acc, x : IF x[2] \in ToSet(acc) THEN acc ELSE Append(acc, x[2]),
           known, products)

Id(known, name) == CHOOSE i \in DOMAIN known : known[i] = name

EmptyPB == [coeffs |-> <<>>, lits |-> <<>>, rhs |-> 0, sign |-> FALSE]

\* The products of a line, read one after the other.
ParseProducts(known, products) ==
  FoldLeft(LAMBDA p, x : AddProduct(p, Id(known, x[2]), x[1]), EmptyPB, products)

\* What parseConstraint stores for a line.  An equality gives two constraints,
\* the second copied before the first one is normalised.
Stored(f, p, relation) ==
  CASE relation = ">=" -> AddPBConstraint(f, p)
    [] relation = "<=" -> AddPBConstraint(f, ChangeSign([p EXCEPT !.sign = TRUE]))
    [] relation = "="  -> AddPBConstraint(AddPBConstraint(f, p), [p EXCEPT !.sign = TRUE])

Init ==
  /\ lines = <<>>
  /\ minimise = <<>>
  /\ names = <<>>
  /\ hard = <<>>
  /\ cards = <<>>
  /\ pbs = <<>>
  /\ objective = [coeffs |-> <<>>, lits |-> <<>>, const |-> 0]
  /\ soft = <<>>
  /\ status = "reading"

\* A line with a constraint.
ParseConstraint(products, relation, side) ==
  LET known  == GetVariableID(names, products)
      parsed == ParseProducts(known, products)
      f      == Stored([hard |-> hard, cards |-> cards, pbs |-> pbs],
                       [parsed EXCEPT !.rhs = @ + side], relation)
  IN  /\ Len(lines) < MaxLines
      /\ lines' = Append(lines, [products |-> products, relation |-> relation, side |-> side])
      /\ names' = known
      /\ hard' = f.hard
      /\ cards' = f.cards
      /\ pbs' = f.pbs
      /\ UNCHANGED <<minimise, objective, soft, status>>

\* A line "min: ...".  PBObjFunction::addProduct gathers in _const what
\* PB::addProduct adds to the right-hand side.  The bound: one objective.
ParseCostFunction(products) ==
  LET known == GetVariableID(names, products)
      p     == ParseProducts(known, products)
  IN  /\ minimise = <<>>
      /\ minimise' = products
      /\ names' = known
      /\ objective' = [coeffs |-> p.coeffs, lits |-> p.lits, const |-> -p.rhs]
      /\ UNCHANGED <<lines, hard, cards, pbs, soft, status>>

\* A line "max: ..." or one whose relation is missing or is < or > ends the program.
ParseError ==
  /\ status' = "UNKNOWN"
  /\ UNCHANGED <<lines, minimise, names, hard, cards, pbs, objective, soft>>

\* MaxSATFormula::convertPBtoMaxSAT
ConvertPBtoMaxSAT ==
  /\ minimise # <<>>
  /\ soft' = [i \in DOMAIN objective.lits |->
                [lit |-> -objective.lits[i], weight |-> objective.coeffs[i]]]
  /\ status' = "converted"
  /\ UNCHANGED <<lines, minimise, names, hard, cards, pbs, objective>>

Next ==
  /\ status = "reading"
  /\ \/ \E products \in Products, relation \in {">=", "<=", "="}, side \in Sides :
          ParseConstraint(products, relation, side)
     \/ \E products \in Objectives : ParseCostFunction(products)
     \/ ParseError
     \/ ConvertPBtoMaxSAT

Spec == Init /\ [][Next]_vars

-----------------------------------------------------------------------------
\* The value of literal l when the names in T are true.
Value(l, T) == IF (l > 0) = (names[IF l > 0 THEN l ELSE -l] \in T) THEN 1 ELSE 0

Weighted(p, T) == Sum([i \in DOMAIN p.lits |-> p.coeffs[i] * Value(p.lits[i], T)])

Read(products, T) ==
  Sum([i \in DOMAIN products |-> products[i][1] * IF products[i][2] \in T THEN 1 ELSE 0])

LineHolds(line, T) ==
  CASE line.relation = ">=" -> Read(line.products, T) >= line.side
    [] line.relation = "<=" -> Read(line.products, T) <= line.side
    [] line.relation = "="  -> Read(line.products, T) = line.side

\* The stored formula, as the encoders read it: every constraint is "at most".
FormulaHolds(T) ==
  /\ \A i \in DOMAIN hard : \E l \in ToSet(hard[i]) : Value(l, T) = 1
  /\ \A i \in DOMAIN cards :
       Sum([j \in DOMAIN cards[i].lits |-> Value(cards[i].lits[j], T)]) <= cards[i].rhs
  /\ \A i \in DOMAIN pbs : Weighted(pbs[i], T) <= pbs[i].rhs

\* Moving negative coefficients, changing signs to and fro and filing the result
\* keep the assignments that satisfy the formula (FormulaPB.h:94-152,
\* MaxSATFormula.cc:160-178).
MeaningPreserved ==
  \A T \in SUBSET Names :
    FormulaHolds(T) <=> \A i \in DOMAIN lines : LineHolds(lines[i], T)

\* Everything stored is "at most" with coefficients that are not negative: what
\* the assertions p->_sign of the algorithms and the encoders rely on.
StoredAsAtMost ==
  \A i \in DOMAIN pbs : pbs[i].sign /\ \A j \in DOMAIN pbs[i].coeffs : pbs[i].coeffs[j] >= 0

\* The cost of the soft clauses and the constant, which loadFormula keeps as the
\* offset of the bounds printed, are the objective
\* (MaxSATFormula.cc:204-224, FormulaPB.h:190-201, MaxSAT.h:135-145).
ObjectivePreserved ==
  status = "converted" =>
    \A T \in SUBSET Names :
      Read(minimise, T) =
        objective.const
          + Sum([i \in DOMAIN soft |-> soft[i].weight * (1 - Value(soft[i].lit, T))])
=============================================================================
