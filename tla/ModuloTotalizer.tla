--------------------------- MODULE ModuloTotalizer --------------------------
(***************************************************************************)
(* The modulo totalizer of src/src/encodings/Enc_MTotalizer.cc: every node *)
(* of a tree counts its true literals as a quotient (upper) and a          *)
(* remainder (lower) in unary, and an adder joins the counts of its two    *)
(* children.                                                               *)
(***************************************************************************)
EXTENDS ClauseDB

CONSTANTS
  MinInputs,  \* the fewest literals of a constraint
  MaxInputs,  \* bound on the literals of a constraint
  KeptModuli, \* moduli an encoder may keep from an earlier constraint (LinearSU::bmoSearch)
  MaxUpdates  \* bound on the updates

VARIABLES
  S,       \* the SAT solver
  n,       \* the literals constrained are 1 .. n
  enc,     \* modulo, upoutlits, lwoutlits, rhs (current_cardinality_rhs), has (hasEncoding)
  bound,   \* the smallest right-hand side asked for; not kept by the program
  updates  \* updates so far; not kept by the program

vars == <<S, n, enc, bound, updates>>

-----------------------------------------------------------------------------
\* Upper outputs of a node whose count stays below the modulus: the list <<h0>>.
NoUpper == <<Undef>>

OrNoUpper(s) == IF s = <<>> THEN NoUpper ELSE s

\* What a count of i says: nothing for 0, else that one output is true.
Counted(s, i) == IF i = 0 THEN {} ELSE {-s[i]} \ {Undef}

\* adder, the remainders: i and j give i + j, or a carry and i + j - mod.
\* carry is Undef when there is no upper part.
LowerClauses(mod, rhs, carry, low, l, r) ==
  LET pairs == {p \in (0 .. Len(l)) \X (0 .. Len(r)) :
                  p # <<0, 0>> /\ ~ (p[1] + p[2] > rhs + 1 /\ rhs + 1 < mod)}
      Sum(p) == IF p[1] + p[2] < mod THEN {low[p[1] + p[2]], carry} \ {Undef}
                ELSE IF p[1] + p[2] > mod THEN {low[(p[1] + p[2]) % mod]}
                ELSE {carry}
  IN  {Counted(l, p[1]) \cup Counted(r, p[2]) \cup Sum(p) : p \in pairs}

\* The sum that reaches the bound itself is left out too.
UpperClausesWrongly(mod, rhs, carry, up, l, r) ==
  LET pairs  == {p \in (0 .. Len(l)) \X (0 .. Len(r)) : p[1] + p[2] < rhs \div mod}
      Out(k) == IF k \in 1 .. Len(up) THEN {up[k]} \ {Undef} ELSE {}
  IN  {Counted(l, p[1]) \cup Counted(r, p[2]) \cup Out(p[1] + p[2]) :
         p \in {q \in pairs : q # <<0, 0>>}}
      \cup {{-carry} \cup Counted(l, p[1]) \cup Counted(r, p[2]) \cup Out(p[1] + p[2] + 1) :
              p \in pairs}

\* adder, the quotients: i and j give i + j, and one more with a carry; a sum
\* that has no output is excluded.
UpperClauses(mod, rhs, carry, up, l, r) ==
  LET closeMod == rhs \div mod + (IF rhs % mod # 0 THEN 1 ELSE 0)
      pairs    == {p \in (0 .. Len(l)) \X (0 .. Len(r)) : p[1] + p[2] <= closeMod}
      Out(k)   == IF k \in 1 .. Len(up) THEN {up[k]} \ {Undef} ELSE {}
      plain    == {Counted(l, p[1]) \cup Counted(r, p[2]) \cup Out(p[1] + p[2]) :
                     p \in {q \in pairs : Out(q[1] + q[2]) # {}}}
      carried  == {{-carry} \cup Counted(l, p[1]) \cup Counted(r, p[2]) \cup Out(p[1] + p[2] + 1) :
                     p \in pairs}
  IN  {c \in plain \cup carried : Cardinality(c) > 1}

\* MTotalizer::adder: node = left + right.
Adder(T, mod, rhs, node, left, right) ==
  IF node.upper = NoUpper
    THEN AddClauses(T, LowerClauses(mod, rhs, Undef, node.lower, left.lower, right.lower))
    ELSE LET carry == T.n + 1
         IN  AddClauses(NewSATVariables(T, 1),
               LowerClauses(mod, rhs, carry, node.lower, left.lower, right.lower)
               \cup UpperClauses(mod, rhs, carry, node.upper, left.upper, right.upper))

\* One child of toCNF over k literals: the last input itself, or new outputs.
Child(st, mod, k) ==
  LET quotient == k \div mod
      limit    == IF quotient % mod = 0 /\ k < mod - 1 THEN k ELSE mod - 1
      upper    == FreshLits(st.S, quotient)
      T        == NewSATVariables(st.S, quotient)
  IN  IF k = 1
        THEN [S |-> st.S, in |-> Front(st.in),
              node |-> [upper |-> NoUpper, lower |-> <<Last(st.in)>>]]
        ELSE [S |-> NewSATVariables(T, limit), in |-> st.in,
              node |-> [upper |-> OrNoUpper(upper), lower |-> FreshLits(T, limit)]]

\* MTotalizer::toCNF over k literals; st is the solver with cardinality_inlits.
RECURSIVE ToCNF(_, _, _, _, _)
ToCNF(st, mod, rhs, node, k) ==
  LET split == k \div 2
      l     == Child(st, mod, split)
      r     == Child([S |-> l.S, in |-> l.in], mod, k - split)
      sum   == [S |-> Adder(r.S, mod, rhs, node, r.node, l.node), in |-> r.in]
      below == IF split > 1 THEN ToCNF(sum, mod, rhs, l.node, split) ELSE sum
  IN  IF k - split > 1 THEN ToCNF(below, mod, rhs, r.node, k - split) ELSE below

\* MTotalizer::encode_output: fewer than k + 1 literals are true.
EncodeOutput(c, k) ==
  LET ulimit == (k + 1) \div c.modulo
      llimit == (k + 1) - ulimit * c.modulo
      above  == {-c.lwoutlits[i] : i \in llimit .. Len(c.lwoutlits)}
      top    == IF ulimit = 0 THEN {} ELSE {-c.upoutlits[ulimit]}
  IN  {{-c.upoutlits[i]} : i \in ulimit + 1 .. Len(c.upoutlits)}
      \cup (IF llimit = 0 THEN {top} ELSE {top \cup {l} : l \in above})

-----------------------------------------------------------------------------
Init ==
  /\ n \in MinInputs .. MaxInputs
  /\ S = SolverWith(n)
  /\ \E m \in {-1} \cup KeptModuli :
       enc = [modulo |-> m, upoutlits |-> <<>>, lwoutlits |-> <<>>, rhs |-> -1, has |-> FALSE]
  /\ bound = n
  /\ updates = 0

\* The least m with m * m >= k.
CeilSqrt(k) == Min({m \in 1 .. k : m * m >= k})

\* MTotalizer::encode, called while there is no encoding.
Encode(k) ==
  LET mod   == IF enc.modulo = -1 THEN CeilSqrt(k + 1) ELSE enc.modulo
      upper == FreshLits(S, n \div mod)
      T     == NewSATVariables(S, n \div mod)
      node  == [upper |-> OrNoUpper(upper), lower |-> FreshLits(T, mod - 1)]
      done  == ToCNF([S |-> NewSATVariables(T, mod - 1), in |-> [i \in 1 .. n |-> i]],
                     mod, k + 1, node, n)
      built == [modulo |-> mod, upoutlits |-> node.upper, lwoutlits |-> node.lower,
                rhs |-> k + 1, has |-> TRUE]
      none  == [enc EXCEPT !.upoutlits = <<>>, !.lwoutlits = <<>>, !.has = FALSE]
  IN  /\ ~ enc.has
      /\ bound' = Min({bound, k})
      /\ CASE k = 0 -> S' = AddUnits(S, {-l : l \in 1 .. n}) /\ enc' = none
           [] k = n -> S' = S /\ enc' = none
           [] OTHER -> S' = AddClauses(done.S, EncodeOutput(built, k)) /\ enc' = built
      /\ UNCHANGED <<n, updates>>

\* MTotalizer::update: the right-hand side goes down.
Update(k) ==
  /\ enc.has /\ k < enc.rhs - 1 /\ updates < MaxUpdates
  /\ S' = AddClauses(S, EncodeOutput(enc, k))
  /\ enc' = [enc EXCEPT !.rhs = k + 1]
  /\ bound' = Min({bound, k})
  /\ updates' = updates + 1
  /\ UNCHANGED n

Next == \E k \in 0 .. n : Encode(k) \/ Update(k)

Spec == Init /\ [][Next]_vars

-----------------------------------------------------------------------------
Inputs == 1 .. n

\* The clauses allow an assignment of the literals exactly when no more of them
\* are true than the smallest bound asked for, whatever the modulus and the
\* shape of the tree, though the adders leave out the sums they take to be beyond
\* the bound (adder, Enc_MTotalizer.cc:259-374).
ExactlyAtMost ==
  \A X \in SUBSET Inputs :
    Satisfiable(S.clauses, Exactly(Inputs, X)) <=> Cardinality(X) <= bound
=============================================================================
