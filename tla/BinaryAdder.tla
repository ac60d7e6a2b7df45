----------------------------- MODULE BinaryAdder ----------------------------
(***************************************************************************)
(* The adder encoding of src/src/encodings/Enc_Adder.cc: the coefficients  *)
(* are added up in binary by full and half adders, one bucket of literals  *)
(* per bit, and the sum is compared with the bound.  Its users reach it    *)
(* through src/src/Encoder.cc, whose hasPBEncoding does not know it.       *)
(***************************************************************************)
EXTENDS ClauseDB

CONSTANTS
  Constraints, \* the sequences of coefficients; the literals are 1 .. Len
  MinRhs,      \* the smallest right-hand side
  MaxRhs,      \* bound on the right-hand sides
  WordBits,    \* the bits of a uint64_t
  MaxSteps     \* bound on encodings and updates

VARIABLES
  S,          \* the SAT solver
  coeffs,     \* the coefficients
  incremental,\* whether the user takes the interface with assumptions
  buckets,    \* _buckets, by bit from 1 on
  output,     \* _output
  bound,      \* the smallest right-hand side asked for; not kept by the program
  bits,       \* bits of the coefficients that were looked at; not kept by the program
  assumptions,\* the assumptions handed out last
  failed,     \* whether an assertion failed
  steps       \* encodings and updates so far; not kept by the program

vars == <<S, coeffs, incremental, buckets, output, bound, bits, assumptions, failed, steps>>

-----------------------------------------------------------------------------
\* FA_carry and FA_sum: x is true when at least two, or an odd number, of three are.
FACarry(x, ls) ==
  UNION {{(ls \ {l}) \cup {-x}, {-m : m \in ls \ {l}} \cup {x}} : l \in ls}

OddOf(x, ls) ==
  {{IF l \in Y THEN -l ELSE l : l \in ls} \cup {IF Cardinality(Y) % 2 = 1 THEN x ELSE -x} :
     Y \in SUBSET ls}

\* FA_extra: a carry and a sum need all three.
FAExtra(xc, xs, ls) == UNION {{{-xc, -xs, l}, {xc, xs, -l}} : l \in ls}

\* HA_carry: x is the conjunction of a and b.
HACarry(x, a, b) == {{a, -x}, {b, -x}, {-a, -b, x}}

Bit(number, i) == (number \div 2 ^ (i - 1)) % 2

\* What one adder leaves: the sum at the end of bucket i, the carry in the next.
Added(st, i, used, T, sum, carry) ==
  [st EXCEPT !.S = T,
             !.buckets = [@ EXCEPT ![i] = Append(SubSeq(@, used + 1, Len(@)), sum),
                                   ![i + 1] = Append(@, carry)]]

\* The literals of bucket i are added up until one is left.
RECURSIVE Reduce(_, _)
Reduce(st, i) ==
  LET b  == st.buckets[i]
      x  == st.S.n + 1
      y  == st.S.n + 2
      T  == NewSATVariables(st.S, 2)
      ls == {b[1], b[2], b[3]}
  IN  IF Len(b) >= 3
        THEN Reduce(Added(st, i, 3, AddClauses(T, OddOf(x, ls) \cup FACarry(y, ls)
                                                  \cup FAExtra(y, x, ls)), x, y), i)
      ELSE IF Len(b) = 2
        THEN Added(st, i, 2, AddClauses(T, OddOf(x, {b[1], b[2]}) \cup HACarry(y, b[1], b[2])),
                   x, y)
      ELSE st

\* adderTree from bucket i on; a carry out of the last bucket makes a new one.
RECURSIVE AdderTree(_, _)
AdderTree(st, i) ==
  LET grown == IF i = Len(st.buckets) /\ Len(st.buckets[i]) >= 2
                 THEN [st EXCEPT !.buckets = Append(@, <<>>), !.result = Append(@, Undef)]
                 ELSE st
      sum   == Reduce(grown, i)
  IN  IF i > Len(st.buckets) THEN st
      ELSE IF st.buckets[i] = <<>> THEN AdderTree(st, i + 1)
      ELSE AdderTree([sum EXCEPT !.result[i] = sum.buckets[i][1], !.buckets[i] = <<>>], i + 1)

\* numToBits: the first n bits of a number, all ones if it has more.
NumToBits(n, number) == [i \in 1 .. n |-> Bit(Min({number, 2 ^ n - 1}), i)]

\* lessThanOrEqual: where the bound has no bit, the sum has none unless it already
\* differs in a higher one.  An undefined bit is 0.
LessThanOrEqual(xs, k) ==
  LET ys         == NumToBits(Len(xs), k)
      Clause(i)  == {-xs[i]} \cup {IF ys[j] = 1 THEN -xs[j] ELSE xs[j] :
                                     j \in {m \in i + 1 .. Len(xs) : xs[m] # Undef}}
      Needed(i)  == /\ ys[i] = 0 /\ xs[i] # Undef
                    /\ \A j \in i + 1 .. Len(xs) : ys[j] = 1 => xs[j] # Undef
  IN  {Clause(i) : i \in {j \in DOMAIN xs : Needed(j)}}

\* lessThanOrEqualInc: each clause has a literal of its own, assumed false.
LessThanOrEqualInc(T, xs, k) ==
  LET cs == SetToSeq(LessThanOrEqual(xs, k))
  IN  [S |-> AddClauses(NewSATVariables(T, Len(cs)), {cs[i] \cup {T.n + i} : i \in DOMAIN cs}),
       assumptions |-> {-(T.n + i) : i \in DOMAIN cs}]

\* ld64: the number of bits of k; __builtin_clzll leaves it open for 0.
Ld64(k) ==
  IF k = 0 THEN 0 .. WordBits ELSE {Cardinality({i \in 1 .. WordBits : 2 ^ (i - 1) <= k})}

-----------------------------------------------------------------------------
Init ==
  /\ coeffs \in Constraints
  /\ incremental \in BOOLEAN
  /\ S = SolverWith(Len(coeffs))
  /\ buckets = <<>> /\ output = <<>>
  /\ bound = MapThenSumSet(LAMBDA i : coeffs[i], DOMAIN coeffs)
  /\ bits = 0
  /\ assumptions = {}
  /\ failed = FALSE
  /\ steps = 0

\* The adder tree over the first nb bits of the coefficients.
Tree(nb) ==
  LET Has(i) == SelectSeq([j \in DOMAIN coeffs |-> j], LAMBDA l : Bit(coeffs[l], i) = 1)
  IN  AdderTree([S |-> S, buckets |-> [i \in 1 .. nb |-> Has(i)],
                 result |-> [i \in 1 .. nb |-> Undef]], 1)

\* Adder::encode and Adder::encodeInc, called whenever hasPBEncoding is false, and
\* so on every bound.  The second call still has the buckets of the first: there are
\* more of them than outputs, and the assertion of lessThanOrEqual fails.
Encode(k) ==
  /\ steps < MaxSteps /\ ~ failed
  /\ steps' = steps + 1
  /\ \E nb \in Ld64(k) :
       LET tree == Tree(nb)
           inc  == LessThanOrEqualInc(tree.S, tree.result, k)
       IN  IF buckets # <<>>
             THEN failed' = TRUE /\ UNCHANGED <<S, bound, buckets, output, bits, assumptions>>
             ELSE /\ S' = IF incremental THEN inc.S
                          ELSE AddClauses(tree.S, LessThanOrEqual(tree.result, k))
                  /\ assumptions' = IF incremental THEN inc.assumptions ELSE {}
                  /\ bound' = IF incremental THEN k ELSE Min({bound, k})
                  /\ buckets' = tree.buckets
                  /\ output' = tree.result
                  /\ bits' = nb
                  /\ UNCHANGED failed
  /\ UNCHANGED <<coeffs, incremental>>

\* Adder::update and Adder::updateInc: the sum is compared with another bound.
Update(k) ==
  LET inc == LessThanOrEqualInc(S, output, k)
  IN  /\ buckets # <<>> /\ ~ failed /\ steps < MaxSteps
      /\ IF incremental
           THEN S' = inc.S /\ assumptions' = inc.assumptions
           ELSE S' = AddClauses(S, LessThanOrEqual(output, k)) /\ UNCHANGED assumptions
      /\ bound' = IF incremental THEN k ELSE Min({bound, k})
      /\ steps' = steps + 1
      /\ UNCHANGED <<coeffs, incremental, buckets, output, bits, failed>>

\* The bound goes down unless it holds under assumptions only.
Next == \E k \in MinRhs .. MaxRhs : (incremental \/ k <= bound) /\ (Encode(k) \/ Update(k))

Spec == Init /\ [][Next]_vars

-----------------------------------------------------------------------------
Inputs == DOMAIN coeffs

WeightOf(X) == MapThenSumSet(LAMBDA i : coeffs[i], X)

Exact ==
  \A X \in SUBSET Inputs :
    Satisfiable(S.clauses, assumptions \cup Exactly(Inputs, X)) <=> WeightOf(X) <= bound

\* When no coefficient has more bits than the bound of the encoding, the clauses
\* allow an assignment exactly when its true literals weigh no more than the bound,
\* after any updates: carries out of the last bucket and bits that no literal has
\* are accounted for (adderTree and lessThanOrEqual, Enc_Adder.cc:106-196).
ExactWhenBitsSuffice == (\A i \in Inputs : coeffs[i] < 2 ^ bits) => Exact
=============================================================================
