------------------------------ MODULE Totalizer ------------------------------
(***************************************************************************)
(* The totalizer encoding in its iterative mode: src/src/encodings/        *)
(* Enc_Totalizer.cc as class Encoder and the MSU3 algorithms use it.  A    *)
(* tree of adders counts, in unary, how many input literals are true; its  *)
(* clauses are generated only up to the bound in use and completed when    *)
(* the bound rises, when literals join, and when two totalizers are added. *)
(*                                                                         *)
(* All clauses are implications between positive literals, so the literals *)
(* that a choice of true inputs forces are found by unit propagation.      *)
(* Operators named ...Wrongly are what a plausible bug would make of the   *)
(* definition that follows each of them; no action uses them.              *)
(***************************************************************************)
EXTENDS Naturals, FiniteSets, Sequences, SequencesExt

CONSTANTS
  Totalizers,   \* the totalizers alive at the same time
  MaxInputs     \* bound: input literals given to all of them

VARIABLES
  nInputs,      \* input literals in use: the literals 1 .. nInputs
  nVars,        \* variables of the solver; the inputs come first
  clauses,      \* clauses of the solver: a body implies a head
  nClauses,     \* n_clauses, the number of calls of addBinaryClause and addTernaryClause
  hasEncoding,  \* per totalizer, as the fields of class Totalizer
  outlits,      \* cardinality_outlits
  adders,       \* the totalizerIterative_ vectors
  inputs,       \* the literals it was given
  bound,        \* the right-hand side of its last operation
  assumptions   \* literals its last update assumes false; none since then

totalizer == <<hasEncoding, outlits, adders, inputs, bound, assumptions>>
vars == <<nInputs, nVars, clauses, nClauses, totalizer>>

-----------------------------------------------------------------------------
Implies(body, head) == [body |-> body, head |-> head]

\* Fresh variables after the first nv ones.
Fresh(n, nv) == [i \in 1 .. n |-> nv + i]

\* The sums that need no right operand are skipped.
SumsWrongly(a, lo, hi) ==
  {s \in (0 .. Len(a.left)) \X (1 .. Len(a.right)) :
     lo < s[1] + s[2] /\ s[1] + s[2] <= hi}

\* The clauses of adder a for sums above lo and up to hi: i literals of the
\* left operand and j of the right one imply output i + j.
Sums(a, lo, hi) ==
  {s \in (0 .. Len(a.left)) \X (0 .. Len(a.right)) :
     lo < s[1] + s[2] /\ s[1] + s[2] <= hi}

SumClause(a, s) ==
  Implies((IF s[1] = 0 THEN {} ELSE {a.left[s[1]]})
            \cup (IF s[2] = 0 THEN {} ELSE {a.right[s[2]]}),
          a.output[s[1] + s[2]])

SumClauses(a, lo, hi) == {SumClause(a, s) : s \in Sums(a, lo, hi)}

\* adder: counts up to k + 1.
Adder(left, right, output, k) ==
  [left |-> left, right |-> right, output |-> output, rhs |-> k]

\* Both subtrees are recorded before their root.
RootLast(l, r, root) == l \o r \o <<root>>

\* toCNF: a balanced tree of adders over the literals `ins', taken from the
\* back, with the outputs `out'.
RECURSIVE ToCNF(_, _, _, _)
ToCNF(out, ins, nv, k) ==
  LET split  == Len(out) \div 2
      Operand(n, i, v) == IF n = 1
                            THEN [lits |-> <<Last(i)>>, ins |-> Front(i), nv |-> v]
                            ELSE [lits |-> Fresh(n, v), ins |-> i, nv |-> v + n]
      Subtree(o, i, v) == IF Len(o) = 1
                            THEN [adders |-> <<>>, ins |-> i, nv |-> v]
                            ELSE ToCNF(o, i, v, k)
      left   == Operand(split, ins, nv)
      right  == Operand(Len(out) - split, left.ins, left.nv)
      l      == Subtree(left.lits, right.ins, right.nv)
      r      == Subtree(right.lits, l.ins, l.nv)
  IN  [adders |-> RootLast(l.adders, r.adders,
                           Adder(left.lits, right.lits, out, k)),
       ins    |-> r.ins,
       nv     |-> r.nv]

\* build: the outputs are the first new variables.
Tree(lits, nv, k) ==
  LET out == Fresh(Len(lits), nv)
  IN  [out |-> out] @@ ToCNF(out, lits, nv + Len(lits), k)

NewClauses(as) == UNION {SumClauses(as[i], 0, as[i].rhs + 1) : i \in DOMAIN as}

NewSums(as) ==
  FoldLeft(LAMBDA n, a : n + Cardinality(Sums(a, 0, a.rhs + 1)), 0, as)

\* The clauses of the new adders `as' are added, the last variable is nv.
Generate(as, nv) ==
  /\ nVars' = nv
  /\ clauses' = clauses \cup NewClauses(as)
  /\ nClauses' = nClauses + NewSums(as)

\* The outputs an update assumes false; NoneYet before the update.
AtMost(out, k) == {out[i] : i \in k + 1 .. Len(out)}

NoneYet == {0}

\* The next m input literals; those beyond nVars are variables of the formula.
NextInputs(m) == [i \in 1 .. m |-> nInputs + i]

-----------------------------------------------------------------------------
Init ==
  /\ nInputs = 0
  /\ nVars = MaxInputs
  /\ clauses = {}
  /\ nClauses = 0
  /\ hasEncoding = [t \in Totalizers |-> FALSE]
  /\ outlits = [t \in Totalizers |-> <<>>]
  /\ adders = [t \in Totalizers |-> <<>>]
  /\ inputs = [t \in Totalizers |-> {}]
  /\ bound = [t \in Totalizers |-> 0]
  /\ assumptions = [t \in Totalizers |-> NoneYet]

\* build(lits, k) for the first literals of totalizer t.  The encoding is
\* skipped when the bound is 0 (the inputs are false) or excludes nothing.
Build(t, m, k) ==
  LET lits == NextInputs(m)
      tree == Tree(lits, nVars, k)
  IN  /\ inputs[t] = {}
      /\ nInputs + m <= MaxInputs
      /\ m > 0
      /\ k \in 0 .. m
      /\ nInputs' = nInputs + m
      /\ IF k \in {0, m}
           THEN /\ clauses' = IF k = 0
                                THEN clauses \cup {Implies({lits[i]}, 0) : i \in 1 .. m}
                                ELSE clauses
                /\ UNCHANGED <<nVars, nClauses, totalizer>>
           ELSE /\ Generate(tree.adders, tree.nv)
                /\ hasEncoding' = [hasEncoding EXCEPT ![t] = TRUE]
                /\ outlits' = [outlits EXCEPT ![t] = tree.out]
                /\ adders' = [adders EXCEPT ![t] = tree.adders]
                /\ inputs' = [inputs EXCEPT ![t] = ToSet(lits)]
                /\ bound' = [bound EXCEPT ![t] = k]
                /\ assumptions' = [assumptions EXCEPT ![t] = NoneYet]

\* join(lits, k): a totalizer over the new literals is built in join mode, and
\* an adder joins it with the old outputs.
Join(t, m, k) ==
  LET lits == NextInputs(m)
      tree == IF m = 1 THEN [out |-> lits, adders |-> <<>>, nv |-> nVars]
                       ELSE Tree(lits, nVars, IF k < m THEN k ELSE m)
      out  == Fresh(Len(outlits[t]) + m, tree.nv)
      new  == Append(tree.adders, Adder(outlits[t], tree.out, out, k))
  IN  /\ hasEncoding[t]
      /\ m > 0
      /\ nInputs + m <= MaxInputs
      /\ k \in bound[t] .. Cardinality(inputs[t]) + m
      /\ nInputs' = nInputs + m
      /\ Generate(new, tree.nv + Len(out))
      /\ outlits' = [outlits EXCEPT ![t] = out]
      /\ adders' = [adders EXCEPT ![t] = @ \o new]
      /\ inputs' = [inputs EXCEPT ![t] = @ \cup ToSet(lits)]
      /\ bound' = [bound EXCEPT ![t] = k]
      /\ assumptions' = [assumptions EXCEPT ![t] = NoneYet]
      /\ UNCHANGED hasEncoding

\* add(u, k): the adders of u are taken over and one more adds the last outputs
\* of both; the caller deletes u.
Add(t, u, k) ==
  LET left  == Last(adders[t]).output
      right == Last(adders[u]).output
      out   == Fresh(Len(left) + Len(right), nVars)
      root  == Adder(left, right, out, k)
      Delete(f, none) == [f EXCEPT ![u] = none]
  IN  /\ t # u
      /\ hasEncoding[t] /\ hasEncoding[u]
      /\ k \in bound[t] + bound[u] .. Cardinality(inputs[t] \cup inputs[u])
      /\ Generate(<<root>>, nVars + Len(out))
      /\ outlits' = Delete([outlits EXCEPT ![t] = out], <<>>)
      /\ adders' = Delete([adders EXCEPT ![t] = Append(@ \o adders[u], root)], <<>>)
      /\ inputs' = Delete([inputs EXCEPT ![t] = @ \cup inputs[u]], {})
      /\ bound' = Delete([bound EXCEPT ![t] = k], 0)
      /\ assumptions' = Delete([assumptions EXCEPT ![t] = NoneYet], NoneYet)
      /\ hasEncoding' = Delete(hasEncoding, FALSE)
      /\ UNCHANGED nInputs

\* update(k): incremental() completes every adder up to the sum k + 1; the
\* outputs from k on are assumed false.
Update(t, k) ==
  LET Missing(i) == SumClauses(adders[t][i], adders[t][i].rhs + 1, k + 1)
      Calls(n, a) == n + Cardinality(Sums(a, a.rhs + 1, k + 1))
  IN  /\ hasEncoding[t]
      /\ k \in bound[t] .. Cardinality(inputs[t])
      /\ clauses' = clauses \cup UNION {Missing(i) : i \in DOMAIN adders[t]}
      /\ nClauses' = FoldLeft(Calls, nClauses, adders[t])
      /\ adders' = [adders EXCEPT ![t] = [i \in DOMAIN @ |-> [@[i] EXCEPT !.rhs = k]]]
      /\ bound' = [bound EXCEPT ![t] = k]
      /\ assumptions' = [assumptions EXCEPT ![t] = AtMost(outlits[t], k)]
      /\ UNCHANGED <<nInputs, nVars, hasEncoding, outlits, inputs>>

Next ==
  \E t \in Totalizers, k \in 0 .. MaxInputs :
    \/ \E m \in 1 .. MaxInputs : Build(t, m, k) \/ Join(t, m, k)
    \/ \E u \in Totalizers : Add(t, u, k)
    \/ Update(t, k)

Spec == Init /\ [][Next]_vars

-----------------------------------------------------------------------------
(***************************************************************************)
(* Properties.                                                             *)
(***************************************************************************)
TypeOK ==
  /\ nInputs \in 0 .. MaxInputs
  /\ nVars \in Nat /\ nVars >= MaxInputs
  /\ \A c \in clauses : c.body \subseteq 1 .. nVars /\ c.head \in 0 .. nVars
  /\ nClauses \in Nat
  /\ hasEncoding \in [Totalizers -> BOOLEAN]
  /\ \A t \in Totalizers :
       /\ ToSet(outlits[t]) \subseteq MaxInputs + 1 .. nVars
       /\ inputs[t] \subseteq 1 .. nInputs
       /\ bound[t] \in 0 .. Cardinality(inputs[t])
       /\ Len(outlits[t]) = Cardinality(inputs[t])
       /\ assumptions[t] \subseteq 0 .. nVars
       /\ \A i \in DOMAIN adders[t] :
            LET a == adders[t][i]
            IN  Len(a.output) = Len(a.left) + Len(a.right)

\* Unit propagation of the true literals T.
RECURSIVE Forced(_)
Forced(T) ==
  LET new == {c.head : c \in {d \in clauses : d.body \subseteq T}} \ T
  IN  IF new = {} THEN T ELSE Forced(T \cup new)

\* Under its assumptions an updated totalizer allows exactly the choices of
\* true inputs its bound allows, whatever the other totalizers count and in
\* whatever order literals joined, totalizers were added and bounds rose.
Counts ==
  \A T \in SUBSET (1 .. nInputs) :
    LET forced == Forced(T)
    IN  0 \notin forced =>
          \A t \in Totalizers :
            assumptions[t] # NoneYet =>
              (assumptions[t] \cap forced = {}
                 <=> Cardinality(T \cap inputs[t]) <= bound[t])

\* Output i of a totalizer is forced only when more than i - 1 inputs are true,
\* also between an operation and the update that completes it: no clause has
\* to be taken back when the bound changes.
NeverOvercounts ==
  \A T \in SUBSET (1 .. nInputs) :
    LET forced == Forced(T)
    IN  0 \notin forced =>
          \A t \in Totalizers : \A i \in DOMAIN outlits[t] :
            outlits[t][i] \in forced => Cardinality(T \cap inputs[t]) >= i

\* add() takes the last recorded adder for the root of a totalizer.
RootRecordedLast ==
  \A t \in Totalizers : hasEncoding[t] => Last(adders[t]).output = outlits[t]

\* incremental() adds what is missing and nothing twice.  The unit clauses of a bound 0,
\* whose head is 0, are not counted (Enc_Totalizer.cc:303-306).
NoClauseTwice == nClauses = Cardinality({c \in clauses : c.head # 0})
=============================================================================
