----------------------------- MODULE CoreGuided -----------------------------
(***************************************************************************)
(* What the core-guided searches share: one SAT call under assumptions and *)
(* the cardinality encoding behind class Encoder (src/src/Encoder.cc).  As *)
(* in module PartMSU3, an assignment of the hard clauses is the set of     *)
(* soft clauses it falsifies, and an encoding is the set of literals it    *)
(* counts with the bound its assumptions state (how it is encoded is the   *)
(* subject of module Totalizer).                                           *)
(*                                                                         *)
(* In src/src/algorithms/Alg_OLL.cc each core is counted by a totalizer of *)
(* its own, whose outputs are assumed like soft clauses.  There a literal  *)
(* is <<"soft", i>> for the relaxation variable of clause i, or            *)
(* <<"out", t, k>> for outputs()[k] of totalizer t, which is true when     *)
(* more than k of its literals are.                                        *)
(***************************************************************************)
EXTENDS Integers, FiniteSets, Sequences

CONSTANT Soft   \* indices of the soft clauses

NewEncoder == [card |-> FALSE, lits |-> {}, rhs |-> 0]

Encode(lits, k) == [card |-> TRUE, lits |-> lits, rhs |-> k]

\* The literals that join an existing encoding are forgotten.
IncUpdateWrongly(e, join, k) == Encode(e.lits, k)

\* incUpdateCardinality: literals join an existing encoding, which then states
\* the bound k.
IncUpdate(e, join, k) == Encode(e.lits \cup join, k)

\* Soft clauses assumed to hold, and at most rhs of lits falsified.
Assume(softs, e) == [soft |-> softs, lits |-> e.lits, rhs |-> e.rhs]

\* The SAT solver may answer l_True with the model F.
Satisfies(F, a) ==
  /\ F \cap a.soft = {}
  /\ Cardinality(F \cap a.lits) <= a.rhs

\* It may answer l_False with a conflict over the assumed soft clauses C and,
\* if k, some outputs of the encoding.
IsConflict(models, a, C, k) ==
  /\ C \subseteq a.soft
  /\ k => a.lits # {}
  /\ \A F \in models : \/ F \cap C # {}
                       \/ k /\ Cardinality(F \cap a.lits) > a.rhs

-----------------------------------------------------------------------------
SoftLit(i) == <<"soft", i>>
OutLit(t, k) == <<"out", t, k>>
IsSoft(l) == l[1] = "soft"

\* How many literals of each totalizer of cs are true when S are the indices of the
\* falsified soft clauses.  An output beyond upTo is not constrained.
Counts(cs, S) ==
  LET count[t \in 1 .. Len(cs)] ==
        Cardinality({l \in cs[t].lits :
           IF IsSoft(l) THEN l[2] \in S
           ELSE l[3] <= cs[l[2]].upTo /\ count[l[2]] > l[3]})
  IN  count

True(cs, S, l) ==
  IF IsSoft(l) THEN l[2] \in S
  ELSE l[3] <= cs[l[2]].upTo /\ Counts(cs, S)[l[2]] > l[3]

\* The weight a bound still stands for: one for every literal above it.
Excess(cs, S, l) ==
  IF Counts(cs, S)[l[2]] > l[3] THEN Counts(cs, S)[l[2]] - l[3] ELSE 0

\* buildCardinality(solver, lits, k).
Card(lits, k) == [lits |-> lits, upTo |-> k]

\* incUpdateCardinality, to one more than the bound of each literal of `outs'.
RaiseAll(cs, outs) ==
  [t \in DOMAIN cs |->
     IF \E l \in outs : l[2] = t
       THEN [cs[t] EXCEPT !.upTo = 1 + CHOOSE k \in 0 .. @ : OutLit(t, k) \in outs]
       ELSE cs[t]]

\* The next bound of the totalizer of l, if it still excludes anything.
NextBound(cs, l) ==
  IF l[3] + 1 < Cardinality(cs[l[2]].lits) THEN {OutLit(l[2], l[3] + 1)} ELSE {}
=============================================================================
