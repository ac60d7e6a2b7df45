------------------------ MODULE GeneralizedTotalizer ------------------------
(***************************************************************************)
(* The generalized totalizer of src/src/encodings/Enc_GTE.cc: every node of*)
(* a tree has one output per sum of coefficients its literals can reach,   *)
(* sums above the bound sharing one; predict counts the clauses the        *)
(* encoding would have, without making it.                                 *)
(***************************************************************************)
EXTENDS ClauseDB

CONSTANTS
  Constraints, \* the sequences of coefficients; the literals are 1 .. Len
  MaxRhs,      \* bound on the right-hand sides
  UnsignedMax, \* the largest unsigned
  MaxClauses,  \* _MAX_CLAUSES_
  MaxSteps     \* bound on predictions and updates

VARIABLES
  S,       \* the SAT solver
  coeffs,  \* the coefficients
  outputs, \* pb_oliterals
  rhs,     \* current_pb_rhs
  hasEncoding,
  clauses, \* nb_clauses
  expected,\* nb_clauses_expected
  history  \* the bound to keep, the right-hand sides predicted and encoded, steps;
           \* not kept by the program

vars == <<S, coeffs, outputs, rhs, hasEncoding, clauses, expected, history>>

-----------------------------------------------------------------------------
Unsigned(k) == k % (UnsignedMax + 1)

\* The literals that may be true under k, lightest first.
Kept(k) ==
  LET Pairs == [i \in DOMAIN coeffs |-> [lit |-> i, weight |-> coeffs[i]]]
      Fits(p) == p.weight # 0 /\ p.weight <= Unsigned(k)
  IN  SortSeq(SelectSeq(Pairs, Fits), LAMBDA p, q : p.weight < q.weight)

\* The others are heavier than k.
TooHeavy(k) == {i \in DOMAIN coeffs : coeffs[i] # 0 /\ coeffs[i] > Unsigned(k)}

SumOfWeights(ils) == FoldLeft(LAMBDA acc, p : acc + p.weight, 0, ils)

\* The sums two children reach, with 0 for none, each as a pair.
Sums(l, r) == ({0} \cup l) \X ({0} \cup r) \ {<<0, 0>>}

\* The literal of weight w, or nothing for 0.
Premise(out, w) == IF w = 0 THEN {} ELSE {-out[w]}

\* The clauses of a node with outputs out and children l and r.
NodeClauses(k, out, l, r) ==
  {Premise(l, s[1]) \cup Premise(r, s[2]) \cup {out[Min({k, s[1] + s[2]})]} :
     s \in Sums(DOMAIN l, DOMAIN r)}

\* encodeLeq: the solver, the outputs by weight, and the number of clauses.
RECURSIVE EncodeLeq(_, _, _)
EncodeLeq(T, k, ils) ==
  LET half    == Len(ils) \div 2
      left    == SubSeq(ils, 1, half)
      right   == SubSeq(ils, half + 1, Len(ils))
      l       == EncodeLeq(T, Min({k, SumOfWeights(left)}), left)
      r       == EncodeLeq(l.S, Min({k, SumOfWeights(right)}), right)
      weights == {Min({k, s[1] + s[2]}) : s \in Sums(DOMAIN l.out, DOMAIN r.out)}
      out     == [w \in weights |-> r.S.n + Cardinality({v \in weights : v <= w})]
  IN  IF Len(ils) = 1
        THEN [S |-> T, out |-> [w \in {ils[1].weight} |-> ils[1].lit], clauses |-> 0]
        ELSE [S |-> AddClauses(NewSATVariables(r.S, Cardinality(weights)),
                               NodeClauses(k, out, l.out, r.out)),
              out |-> out,
              clauses |-> l.clauses + r.clauses + Cardinality(Sums(DOMAIN l.out, DOMAIN r.out))]

\* predictEncodeLeq: the sums reached, the clauses counted from c on, and whether
\* the count stayed below its limit.
RECURSIVE PredictLeq(_, _, _)
PredictLeq(c, k, ils) ==
  LET half  == Len(ils) \div 2
      left  == SubSeq(ils, 1, half)
      right == SubSeq(ils, half + 1, Len(ils))
      l     == PredictLeq(c, Min({k, SumOfWeights(left)}), left)
      r     == PredictLeq(l.count, Min({k, SumOfWeights(right)}), right)
      sums  == Sums(l.weights, r.weights)
      total == r.count + Cardinality(sums)
  IN  IF c >= MaxClauses THEN [weights |-> {}, count |-> c, ok |-> FALSE]
      ELSE IF Len(ils) = 1 THEN [weights |-> {ils[1].weight}, count |-> c, ok |-> TRUE]
      ELSE IF ~ l.ok THEN l
      ELSE IF ~ r.ok THEN r
      ELSE [weights |-> {Min({k, s[1] + s[2]}) : s \in sums},
            count |-> Min({total, MaxClauses}), ok |-> total < MaxClauses]

-----------------------------------------------------------------------------
WeightOf(X) == MapThenSumSet(LAMBDA i : coeffs[i], X)

NoOutputs == [w \in {} |-> 0]

Init ==
  /\ coeffs \in Constraints
  /\ S = SolverWith(Len(coeffs))
  /\ outputs = NoOutputs
  /\ rhs = 0
  /\ hasEncoding = FALSE
  /\ clauses = 0
  /\ expected = 0
  /\ history = [bound |-> WeightOf(DOMAIN coeffs), predicted |-> <<>>, encoded |-> -1, steps |-> 0]

\* GTE::predict, asked before the encoding is made.
Predict(k) ==
  /\ ~ hasEncoding /\ history.steps < MaxSteps
  /\ LET c == expected + Cardinality(TooHeavy(k))
     IN  expected' = IF Len(Kept(k)) <= 1 THEN c ELSE PredictLeq(c, k + 1, Kept(k)).count
  /\ history' = [history EXCEPT !.predicted = Append(@, k), !.steps = @ + 1]
  /\ UNCHANGED <<S, coeffs, outputs, rhs, hasEncoding, clauses>>

\* GTE::encode, called while there is no encoding.
Encode(k) ==
  LET T    == AddUnits(S, {-l : l \in TooHeavy(k)})
      tree == EncodeLeq(T, k + 1, Kept(k))
  IN  /\ ~ hasEncoding
      /\ IF Len(Kept(k)) <= 1
           THEN S' = T /\ clauses' = 0 /\ UNCHANGED <<outputs, rhs, hasEncoding>>
           ELSE /\ S' = AddUnits(tree.S, {-tree.out[w] : w \in {v \in DOMAIN tree.out : v > k}})
                /\ outputs' = tree.out
                /\ rhs' = k
                /\ hasEncoding' = TRUE
                /\ clauses' = tree.clauses
      /\ history' = [history EXCEPT !.bound = Min({@, k}),
                                    !.encoded = k]
      /\ UNCHANGED <<coeffs, expected>>

\* GTE::update: the right-hand side goes down.
Update(k) ==
  /\ hasEncoding /\ k < rhs /\ history.steps < MaxSteps
  /\ S' = AddUnits(S, {-outputs[w] : w \in {v \in DOMAIN outputs : v <= rhs /\ v > k}})
  /\ rhs' = k
  /\ history' = [history EXCEPT !.bound = Min({@, k}), !.steps = @ + 1]
  /\ UNCHANGED <<coeffs, outputs, hasEncoding, clauses, expected>>

Next == \E k \in 0 .. MaxRhs : Predict(k) \/ Encode(k) \/ Update(k)

Spec == Init /\ [][Next]_vars

-----------------------------------------------------------------------------
Inputs == DOMAIN coeffs


\* The clauses allow an assignment exactly when the true literals weigh no more
\* than the smallest bound asked for: no solution is lost to a cut sum and none
\* gained through an output left free by an update (encode, Enc_GTE.cc:168-256).
ExactlyAtMost ==
  \A X \in SUBSET Inputs :
    Satisfiable(S.clauses, Exactly(Inputs, X)) <=> WeightOf(X) <= history.bound

\* What predict answers for the right-hand side that is then encoded is the number
\* of clauses made, or says that there are too many (LinearSU changes its encoding
\* on that answer, Alg_LinearSU.cc:240-250); the counter is never reset, so only
\* the first prediction is exact and later ones err upwards.
PredictionCovers ==
  LET made   == Cardinality(TooHeavy(history.encoded)) + clauses
      asked  == history.predicted
  IN  (hasEncoding /\ asked # <<>> /\ Last(asked) = history.encoded) =>
        /\ expected >= Min({made, MaxClauses})
        /\ Len(asked) = 1 => expected = made \/ Min({made, expected}) >= MaxClauses
=============================================================================
