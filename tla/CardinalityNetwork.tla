-------------------------- MODULE CardinalityNetwork ------------------------
(***************************************************************************)
(* The cardinality networks of src/src/encodings/Enc_CNetworks.cc: sorting *)
(* networks of half merges and simplified merges whose outputs count the   *)
(* true inputs up to a power of two above the bound; an update adds the    *)
(* negations of more outputs.                                              *)
(***************************************************************************)
EXTENDS ClauseDB

CONSTANTS
  MaxInputs,  \* bound on the literals of a constraint
  MaxRhs,     \* bound on the right-hand sides
  MaxUpdates  \* bound on the updates

VARIABLES
  S,        \* the SAT solver
  n,        \* the literals constrained are 1 .. n
  outlits,  \* cardinality_outlits
  rhs,      \* current_cardinality_rhs
  bound,    \* the smallest right-hand side asked for; not kept by the program
  hasEncoding,
  updates   \* updates so far; not kept by the program

vars == <<S, n, outlits, rhs, bound, hasEncoding, updates>>

-----------------------------------------------------------------------------
OddPart(s)  == [i \in 1 .. (Len(s) + 1) \div 2 |-> s[2 * i - 1]]
EvenPart(s) == [i \in 1 .. Len(s) \div 2 |-> s[2 * i]]

\* c1 follows from one input, c2 from both.
Comparator(a, b, c1, c2) == {{-a, -b, c2}, {-a, c1}, {-b, c1}}

\* The comparators that interleave the outputs d and e of the two sub-merges.
MergeLayer(d, e, c, last) ==
  UNION {Comparator(d[i + 1], e[i], c[2 * i], c[2 * i + 1]) : i \in 1 .. last}

\* CN_hmerge: a and b have the same length, c twice that.
RECURSIVE HMerge(_, _, _, _)
HMerge(T, a, b, c) ==
  LET k  == Len(a) - 1
      d  == <<c[1]>> \o FreshLits(T, k)
      T1 == NewSATVariables(T, k)
      e  == FreshLits(T1, k) \o <<c[Len(c)]>>
      T2 == AddClauses(NewSATVariables(T1, k), MergeLayer(d, e, c, k))
  IN  IF k = 0
        THEN AddClauses(T, Comparator(a[1], b[1], c[1], c[2]))
        ELSE HMerge(HMerge(T2, OddPart(a), OddPart(b), d), EvenPart(a), EvenPart(b), e)

\* CN_hsort: sorts a, whose length is a power of two, into c.
RECURSIVE HSort(_, _, _)
HSort(T, a, c) ==
  LET h     == Len(a) \div 2
      fresh == FreshLits(T, 2 * h)
      upper == OddPart(fresh)
      lower == EvenPart(fresh)
      T1    == HSort(NewSATVariables(T, 2 * h), SubSeq(a, 1, h), lower)
      T2    == HSort(T1, SubSeq(a, h + 1, Len(a)), upper)
  IN  IF Len(a) = 2
        THEN HMerge(T, <<a[1]>>, <<a[2]>>, c)
        ELSE HMerge(T2, lower, upper, c)

\* CN_smerge: c is one longer than a and b.
RECURSIVE SMerge(_, _, _, _)
SMerge(T, a, b, c) ==
  LET k  == Len(a) \div 2
      d  == <<c[1]>> \o FreshLits(T, k)
      T1 == NewSATVariables(T, k)
      e  == FreshLits(T1, k + 1)
      T2 == AddClauses(NewSATVariables(T1, k + 1), MergeLayer(d, e, c, k))
  IN  IF Len(a) = 1
        THEN AddClauses(T, Comparator(a[1], b[1], c[1], c[2]))
        ELSE SMerge(SMerge(T2, OddPart(a), OddPart(b), d), EvenPart(a), EvenPart(b), e)

\* CN_encode: the first k inputs and the rest are counted apart, then merged.
RECURSIVE CNEncode(_, _, _, _)
CNEncode(T, a, c, k) ==
  LET fresh == FreshLits(T, 2 * k)
      lower == OddPart(fresh)
      upper == EvenPart(fresh)
      T1    == NewSATVariables(T, 2 * k)
      nextC == c \o FreshLits(T1, 1)
      T2    == CNEncode(NewSATVariables(T1, 1), SubSeq(a, 1, k), lower, k)
      T3    == CNEncode(T2, SubSeq(a, k + 1, Len(a)), upper, k)
  IN  IF Len(a) = k THEN HSort(T, a, c) ELSE SMerge(T3, lower, upper, nextC)

\* The smallest power of two above k.
PowerAbove(k) == Min({p \in {2 ^ i : i \in 0 .. k} : p > k})

-----------------------------------------------------------------------------
Init ==
  /\ n \in 1 .. MaxInputs
  /\ S = SolverWith(n)
  /\ outlits = <<>>
  /\ rhs = -1
  /\ bound = n
  /\ hasEncoding = FALSE
  /\ updates = 0

\* The padding, and every output above the bound.
ForcedFalse(padding, outs, k) == ToSet(padding) \cup {outs[i] : i \in k + 1 .. Len(outs)}

\* CNetworks::encode, called while there is no encoding.
Encode(k) ==
  LET newK    == PowerAbove(k)
      m       == (-n) % newK
      padding == FreshLits(S, m)
      T       == NewSATVariables(S, m)
      outs    == FreshLits(T, newK)
      inputs  == [i \in 1 .. n |-> i] \o padding
      network == CNEncode(NewSATVariables(T, newK), inputs, outs, newK)
  IN  /\ ~ hasEncoding
      /\ rhs' = k
      /\ bound' = Min({bound, k})
      /\ IF k = 0
           THEN /\ S' = AddUnits(S, {-l : l \in 1 .. n})
                /\ outlits' = <<>>
                /\ UNCHANGED hasEncoding
           ELSE /\ S' = AddUnits(network, {-l : l \in ForcedFalse(padding, outs, k)})
                /\ outlits' = outs
                /\ hasEncoding' = TRUE
      /\ UNCHANGED <<n, updates>>

\* CNetworks::update, within what its assertions allow.
Update(k) ==
  /\ hasEncoding /\ k < Len(outlits) /\ updates < MaxUpdates
  /\ S' = AddUnits(S, {-outlits[i] : i \in k + 1 .. rhs})
  /\ rhs' = k
  /\ bound' = Min({bound, k})
  /\ updates' = updates + 1
  /\ UNCHANGED <<n, outlits, hasEncoding>>

Next == \E k \in 0 .. MaxRhs : Encode(k) \/ Update(k)

Spec == Init /\ [][Next]_vars

-----------------------------------------------------------------------------
Inputs == 1 .. n

\* The clauses allow an assignment of the literals exactly when no more of them
\* are true than the smallest bound asked for, after any updates (encode and
\* update, Enc_CNetworks.cc:58-144): no solution is lost and none gained.
ExactlyAtMost ==
  \A X \in SUBSET Inputs :
    Satisfiable(S.clauses, Exactly(Inputs, X)) <=> Cardinality(X) <= bound

\* Once as many literals are true as the bound allows, unit propagation alone makes
\* the others false, whichever they are: search never has to guess a count.
Propagates ==
  \A X \in kSubset(bound, Inputs) :
    LET p == Propagate(S.clauses, X)
    IN  ~ p.conflict /\ {-l : l \in Inputs \ X} \subseteq p.true
=============================================================================
