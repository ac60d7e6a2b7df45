----------------------------- MODULE GuideTree -----------------------------
(***************************************************************************)
(* PartMSU3::computeGuideTree (src/src/algorithms/Alg_PartMSU3.cc): from   *)
(* the partitions of the soft clauses and the weights between them, the    *)
(* binary tree that guides the search.  Partitions without soft clauses    *)
(* are dropped, those with one are merged into a neighbour; then rounds of *)
(* pairing, in which a partition takes its heaviest neighbour from a       *)
(* lighter pair, build the tree bottom-up.                                 *)
(*                                                                         *)
(* A tree node is the set of its partitions.  Weights are naturals and 0   *)
(* is the weight of an absent edge.  Iteration over an unordered_map is in *)
(* any order, which decides between equal weights.                         *)
(*                                                                         *)
(* Operators named ...Wrongly are what a plausible bug would make of the   *)
(* definition that follows each of them; no action uses them.              *)
(*                                                                         *)
(* After the properties: that they hold for partitioned formulas of every  *)
(* size.                                                                   *)
(***************************************************************************)
EXTENDS Integers, FiniteSets, Sequences, SequencesExt, FiniteSetTheorems, SequenceTheorems, TLAPS

\* The partitioned formulas: the number n of partitions, the soft clauses of
\* each, and the weights of the edges between two of them.
CONSTANT PartitionedInputs

ASSUME InputsAssumption ==
  \A input \in PartitionedInputs :
    LET Parts == 0 .. input.n - 1
    IN  /\ input.n \in Nat \ {0}
        /\ input.softs \in [Parts -> Nat]
        /\ input.adj \in [Parts -> [Parts -> Nat]]
        /\ \A p, q \in Parts : input.adj[p][q] = input.adj[q][p]
        /\ \A p \in Parts : input.adj[p][p] = 0

NoPair == -1   \* NO_PAIR

Erase == -2    \* ERASE

VARIABLES
  nPartitions,   \* number of partitions
  softs,         \* nPartitionSoft
  adj,           \* adj_matrix
  active,        \* active_parts
  at,            \* position of the loop over active_parts
  tree,          \* tree, the node of each active partition; {} for NULL
  noAdj,         \* no_adj_parts
  nodes, leaves, \* nodes built so far, and those of them in out_tree
  pairs,         \* best_pairs
  stack,         \* delayed_parts_stack, its last element first
  phase          \* "units", "pairing", "merging" or "done"

partitions == <<nPartitions, softs>>
vars == <<partitions, adj, active, at, tree, noAdj, nodes, leaves, pairs, stack, phase>>

-----------------------------------------------------------------------------
Part == 0 .. nPartitions - 1

Heaviest(p, S) == {q \in S : \A r \in S : adj[p][q] >= adj[p][r]}

AdjacentTo(p) == {q \in Part : adj[p][q] > 0}

\* The adjacency matrix once partition `into' took over the edges of `gone'.
Absorb(gone, into) ==
  [x \in Part |-> [y \in Part |->
     IF gone \in {x, y} THEN 0
     ELSE IF x = into /\ y # into THEN adj[into][y] + adj[gone][y]
     ELSE IF x # into /\ y = into /\ adj[gone][x] > 0 THEN adj[into][x] + adj[gone][x]
     ELSE adj[x][y]]]

Nodes(t) == {t[p] : p \in Part} \ {{}}

\* A round of pairing starts, or one partition is left.
NextRound(list) ==
  /\ at' = 1
  /\ stack' = IF Len(list) > 1 THEN list ELSE <<>>
  /\ pairs' = [p \in Part |-> NoPair]
  /\ phase' = IF Len(list) > 1 THEN "pairing" ELSE "done"

-----------------------------------------------------------------------------
Init ==
  /\ \E input \in PartitionedInputs :
       nPartitions = input.n /\ softs = input.softs /\ adj = input.adj
  /\ active = [k \in 1 .. nPartitions |-> k - 1]
  /\ at = 1
  /\ tree = [p \in Part |-> {}]
  /\ noAdj = {}
  /\ nodes = {}
  /\ leaves = {}
  /\ pairs = [p \in Part |-> NoPair]
  /\ stack = <<>>
  /\ phase = "units"

\* A single partition is the whole tree, whatever it holds.
SinglePartition ==
  /\ phase = "units"
  /\ nPartitions = 1
  /\ nodes' = {Part}
  /\ leaves' = {Part}
  /\ phase' = "done"
  /\ UNCHANGED <<partitions, adj, active, at, tree, noAdj, pairs, stack>>

\* What partition p brings along: the partitions merged into it and, unless
\* it has no soft clause, itself.
Brings(p) == tree[p] \cup (IF softs[p] > 0 THEN {p} ELSE {})

UnitPhase == phase = "units" /\ nPartitions > 1 /\ at <= Len(active)

\* A partition with several soft clauses is a leaf.
KeepPartition ==
  LET p == active[at]
  IN  /\ UnitPhase
      /\ softs[p] > 1
      /\ tree' = [tree EXCEPT ![p] = Brings(p)]
      /\ at' = at + 1
      /\ UNCHANGED <<partitions, adj, active, noAdj, nodes, leaves, pairs, stack, phase>>

\* A partition with at most one soft clause joins its heaviest neighbour.
MergeUnit ==
  LET p == active[at]
  IN  /\ UnitPhase
      /\ softs[p] <= 1
      /\ \E best \in Heaviest(p, AdjacentTo(p)) :
           /\ tree' = [tree EXCEPT ![best] = @ \cup Brings(p), ![p] = {}]
           /\ adj' = Absorb(p, best)
      /\ active' = RemoveAt(active, at)
      /\ UNCHANGED <<partitions, at, noAdj, nodes, leaves, pairs, stack, phase>>

\* Without neighbours it waits for a leaf of such partitions.
SetAside ==
  LET p == active[at]
  IN  /\ UnitPhase
      /\ softs[p] <= 1
      /\ AdjacentTo(p) = {}
      /\ noAdj' = noAdj \cup Brings(p)
      /\ tree' = [tree EXCEPT ![p] = {}]
      /\ active' = RemoveAt(active, at)
      /\ UNCHANGED <<partitions, adj, at, nodes, leaves, pairs, stack, phase>>

\* What was set aside joins the first partition, if it is a single one, or
\* becomes a leaf of its own.  The leaves are complete.
OutputLeaves ==
  /\ phase = "units"
  /\ nPartitions > 1
  /\ at > Len(active)
  /\ \/ /\ noAdj = {}
        /\ UNCHANGED <<tree, active>>
     \/ /\ Cardinality(noAdj) = 1
        /\ active # <<>>
        /\ tree' = [tree EXCEPT ![active[1]] = @ \cup noAdj]
        /\ UNCHANGED active
     \/ /\ Cardinality(noAdj) > 1 \/ (noAdj # {} /\ active = <<>>)
        /\ \E p \in noAdj :
             /\ tree' = [tree EXCEPT ![p] = noAdj]
             /\ active' = Append(active, p)
  /\ nodes' = Nodes(tree')
  /\ leaves' = Nodes(tree')
  /\ NextRound(active')
  /\ UNCHANGED <<partitions, adj, noAdj>>

\* q is unpaired, or in a lighter pair than it would form with p.
FreeFor(p, q) ==
  \/ pairs[q] \in {NoPair, p}
  \/ adj[pairs[q]][q] < adj[p][q]

Partner(p) == {pairs[p]} \ {NoPair}

\* Only the partner of q is told.
LeftByWrongly(p, q) == Partner(q)

\* The partners of p and q are unpaired when they form a pair.
LeftBy(p, q) == Partner(p) \cup Partner(q)

\* The partners p and q leave are tried again, p's first.
Delay(p, q, rest) ==
  LET behind == IF pairs[q] \in {NoPair, p} THEN rest ELSE <<pairs[q]>> \o rest
  IN  IF pairs[p] \in {NoPair, q} THEN behind ELSE <<pairs[p]>> \o behind

SelectPair ==
  LET p == Head(stack)
      free == {q \in AdjacentTo(p) : FreeFor(p, q)}
  IN  /\ phase = "pairing"
      /\ stack # <<>>
      /\ \E q \in Heaviest(p, free) :
           /\ pairs' = [r \in Part |-> CASE r = p -> q
                                             [] r = q -> p
                                             [] r \in LeftBy(p, q) \ {p, q} -> NoPair
                                             [] OTHER -> pairs[r]]
           /\ stack' = Delay(p, q, Tail(stack))
      /\ UNCHANGED <<partitions, adj, active, at, tree, noAdj, nodes, leaves, phase>>

\* Without a free neighbour, any unpaired partition will do.
PairWithAny ==
  LET p == Head(stack)
      unpaired == {k \in DOMAIN active : active[k] # p /\ pairs[active[k]] = NoPair}
  IN  /\ phase = "pairing"
      /\ stack # <<>>
      /\ ~ \E q \in AdjacentTo(p) : FreeFor(p, q)
      /\ \/ /\ pairs[p] = NoPair
            /\ \E k \in unpaired :
                 /\ \A j \in unpaired : k <= j
                 /\ pairs' = [pairs EXCEPT ![p] = active[k], ![active[k]] = p]
         \/ /\ pairs[p] # NoPair \/ unpaired = {}
            /\ UNCHANGED pairs
      /\ stack' = Tail(stack)
      /\ UNCHANGED <<partitions, adj, active, at, tree, noAdj, nodes, leaves, phase>>

AllPaired ==
  /\ phase = "pairing"
  /\ stack = <<>>
  /\ phase' = "merging"
  /\ UNCHANGED <<partitions, adj, active, at, tree, noAdj, nodes, leaves, pairs, stack>>

MergePair ==
  LET p == active[at]
      q == pairs[p]
      parent == tree[p] \cup tree[q]
  IN  /\ phase = "merging"
      /\ at <= Len(active)
      /\ q \in Part
      /\ pairs' = [pairs EXCEPT ![q] = Erase]
      /\ adj' = Absorb(q, p)
      /\ tree' = [tree EXCEPT ![p] = parent]
      /\ nodes' = nodes \cup {parent}
      /\ at' = at + 1
      /\ UNCHANGED <<partitions, active, noAdj, leaves, stack, phase>>

SkipMerged ==
  /\ phase = "merging"
  /\ at <= Len(active)
  /\ pairs[active[at]] \in {NoPair, Erase}
  /\ IF pairs[active[at]] = Erase
       THEN active' = RemoveAt(active, at) /\ UNCHANGED at
       ELSE at' = at + 1 /\ UNCHANGED active
  /\ UNCHANGED <<partitions, adj, tree, noAdj, nodes, leaves, pairs, stack, phase>>

RoundMerged ==
  /\ phase = "merging"
  /\ at > Len(active)
  /\ NextRound(active)
  /\ UNCHANGED <<partitions, adj, active, tree, noAdj, nodes, leaves>>

Next ==
  \/ SinglePartition
  \/ KeepPartition \/ MergeUnit \/ SetAside \/ OutputLeaves
  \/ SelectPair \/ PairWithAny \/ AllPaired
  \/ MergePair \/ SkipMerged \/ RoundMerged

Spec == Init /\ [][Next]_vars

-----------------------------------------------------------------------------
(***************************************************************************)
(* Properties.                                                             *)
(***************************************************************************)
TypeOK ==
  /\ nPartitions \in Nat \ {0}
  /\ softs \in [Part -> Nat]
  /\ adj \in [Part -> [Part -> Nat]]
  /\ active \in Seq(Part)
  /\ at \in 1 .. Len(active) + 1
  /\ tree \in [Part -> SUBSET Part]
  /\ noAdj \subseteq Part
  /\ leaves \subseteq nodes
  /\ nodes \subseteq SUBSET Part
  /\ pairs \in [Part -> Part \cup {NoPair, Erase}]
  /\ stack \in Seq(Part)
  /\ phase \in {"units", "pairing", "merging", "done"}

WithSofts == {p \in Part : softs[p] > 0}

\* The edges stay symmetric and join partitions that are still active: a pair
\* never holds a partition that was merged before.
EdgesJoinActive ==
  phase \in {"units", "pairing"} =>
    \A p, q \in Part :
      adj[p][q] > 0 => /\ adj[q][p] = adj[p][q]
                       /\ p # q
                       /\ {p, q} \subseteq ToSet(active)

\* While units are merged, every partition with soft clauses waits to be
\* visited or is in exactly one tree node or set aside.
NothingLost ==
  LET waiting   == {active[k] : k \in at .. Len(active)}
      places(p) == Cardinality({r \in Part : p \in tree[r]})
                     + Cardinality({p} \cap noAdj)
                     + Cardinality({p} \cap waiting)
  IN  phase = "units" /\ nPartitions > 1 =>
        \A p \in WithSofts : places(p) = 1

\* The assertion at Alg_PartMSU3.cc:296: pairs are mutual whenever one of
\* their partitions is looked at.
PairsMutual ==
  phase \in {"pairing", "merging"} =>
    \A p \in Part : pairs[p] \in Part => pairs[p] # p /\ pairs[pairs[p]] \in {p, Erase}

\* When a round of pairing ends, no two partitions are joined by an edge
\* heavier than the pairs both of them are in.
PairingStable ==
  LET weight(p) == IF pairs[p] \in Part THEN adj[p][pairs[p]] ELSE 0
  IN  phase = "pairing" /\ stack = <<>> =>
        \A p, q \in ToSet(active) : p # q =>
          \/ adj[p][q] <= weight(p)
          \/ adj[p][q] <= weight(q)

\* What PartMSU3_binary relies on (TreeAssumption of module PartMSU3): the
\* leaves are disjoint and hold every partition with soft clauses, every other
\* node has two children, and there is one root.
IsGuideTree ==
  LET Kids(n) == {c \in nodes : c # n /\ c \subseteq n
                    /\ ~ \E m \in nodes : m \notin {c, n} /\ c \subseteq m /\ m \subseteq n}
  IN  phase = "done" /\ nPartitions > 1 =>
        /\ UNION leaves = WithSofts
        /\ \A m, n \in leaves : m # n => m \cap n = {}
        /\ WithSofts # {} => WithSofts \in nodes
        /\ \A n \in nodes : IF n \in leaves
                              THEN Kids(n) = {}
                              ELSE Cardinality(Kids(n)) = 2 /\ UNION Kids(n) = n

\* The guide tree is one binary tree over all partitions with soft clauses, built from
\* pairs that are mutual (assertion at Alg_PartMSU3.cc:296) and that no heavier edge
\* joins across, when a round ends (Alg_PartMSU3.cc:106-385).
GuideTreeHolds ==
  EdgesJoinActive /\ NothingLost /\ IsGuideTree /\ PairsMutual /\ PairingStable

-----------------------------------------------------------------------------
(***************************************************************************)
(* The inductive invariant.                                                *)
(***************************************************************************)
Active == ToSet(active)

\* The active partitions that were not merged into another in this round.
Live == {p \in Active : pairs[p] # Erase}

\* The active partitions still to be visited.
Waiting == {active[k] : k \in at .. Len(active)}

\* A partition is active once, and edges join those that are left.
GraphInv ==
  /\ \A j, k \in 1 .. Len(active) : active[j] = active[k] => j = k
  /\ \A p, q \in Part : adj[p][q] = adj[q][p]
  /\ \A p, q \in Part : adj[p][q] > 0 => p # q /\ p \in Live

\* While units are merged: those visited and kept are in their own node, and
\* what has soft clauses waits, is in one node or was set aside.
UnitsInv ==
  /\ \A k \in 1 .. at - 1 : active[k] \in tree[active[k]]
  /\ \A p \in Part : tree[p] # {} => p \in Active
  /\ \A p \in Part : tree[p] \cap (Waiting \cup noAdj) = {}
  /\ \A p, q \in Part : p # q => tree[p] \cap tree[q] = {}
  /\ noAdj \cap Waiting = {}
  /\ noAdj \subseteq WithSofts
  /\ \A p \in Part : tree[p] \subseteq WithSofts
  /\ \A p \in WithSofts : p \in Waiting \cup noAdj \/ \E q \in Part : p \in tree[q]
  /\ \A p \in Part : pairs[p] = NoPair

\* The nodes of the live partitions are the roots of a forest over all
\* partitions with soft clauses.
RootsInv ==
  /\ \A p \in Live : tree[p] \in nodes
  /\ \A p, q \in Live : p # q => tree[p] \cap tree[q] = {}
  /\ \A n \in nodes : n # {} /\ \E p \in Live : n \subseteq tree[p]
  /\ UNION leaves = WithSofts
  /\ \A p \in Live : tree[p] \subseteq WithSofts
  /\ \A p \in WithSofts : \E q \in Live : p \in tree[q]

\* Children l and r of node n: every node below n is below one of them.
SplitInto(n, l, r) ==
  /\ l \cap r = {}
  /\ l \cup r = n
  /\ \A m \in nodes : m \subseteq n => m = n \/ m \subseteq l \/ m \subseteq r

ForestInv ==
  /\ \A m, n \in leaves : m # n => m \cap n = {}
  /\ \A n \in leaves, m \in nodes : m \subseteq n => m = n
  /\ \A n \in nodes \ leaves : \E l, r \in nodes : SplitInto(n, l, r)

\* The weight of the pair p is in, and an edge heavier than both pairs it joins.
PairWeight(p) == IF pairs[p] \in Part THEN adj[p][pairs[p]] ELSE 0

Blocking(p, q) == adj[p][q] > PairWeight(p) /\ adj[p][q] > PairWeight(q)

\* One end of every blocking edge is still on the stack.
PairingInv ==
  /\ at = 1
  /\ ToSet(stack) \subseteq Active
  /\ \A p \in Part : pairs[p] # Erase
  /\ \A p \in Part : pairs[p] \in Part =>
       p \in Active /\ pairs[p] # p /\ pairs[pairs[p]] = p
  /\ \A p, q \in Part : Blocking(p, q) => {p, q} \cap ToSet(stack) # {}

\* Partners are taken off the list behind the partitions they were merged into.
MergingInv ==
  /\ \A p \in Part : pairs[p] \in Part =>
       p \in Active /\ pairs[p] # p /\ pairs[pairs[p]] \in {p, Erase}
  /\ \A p \in Waiting : pairs[p] \in Part => pairs[pairs[p]] = p
  /\ \A k \in 1 .. at - 1 : LET p == active[k] IN
       pairs[p] # Erase /\ (pairs[p] \in Part => pairs[pairs[p]] = Erase)

BuildInv ==
  /\ GraphInv
  /\ phase \in {"pairing", "merging"} => nPartitions > 1
  /\ nPartitions > 1 =>
       /\ phase = "units" => UnitsInv
       /\ phase # "units" => RootsInv /\ ForestInv
       /\ phase = "pairing" => PairingInv
       /\ phase = "merging" => MergingInv
       /\ phase = "done" => Len(active) <= 1 /\ \A p \in Part : pairs[p] = NoPair

-----------------------------------------------------------------------------
(***************************************************************************)
(* Lemmas about lists and the adjacency matrix.                            *)
(***************************************************************************)
\* What is left when an element is erased from a list.
LEMMA RemoveAtProperties ==
  ASSUME NEW S, NEW s \in Seq(S), NEW i \in 1 .. Len(s)
  PROVE  /\ RemoveAt(s, i) \in Seq(S)
         /\ Len(RemoveAt(s, i)) = Len(s) - 1
         /\ \A k \in 1 .. Len(s) - 1 :
              RemoveAt(s, i)[k] = IF k < i THEN s[k] ELSE s[k + 1]
<1> DEFINE front == SubSeq(s, 1, i - 1)
           rest  == SubSeq(s, i + 1, Len(s))
<1>1. Len(s) \in Nat /\ i \in Nat /\ 1 <= i /\ i <= Len(s)
  BY LenProperties
<1>2. /\ front \in Seq(S)
      /\ Len(front) = i - 1
      /\ \A k \in 1 .. i - 1 : front[k] = s[k]
  BY <1>1, SubSeqProperties
<1>3. /\ rest \in Seq(S)
      /\ Len(rest) = Len(s) - i
      /\ \A k \in 1 .. Len(s) - i : rest[k] = s[k + i]
  BY <1>1, SubSeqProperties
<1> DEFINE both == front \o rest
<1>4. /\ both \in Seq(S)
      /\ Len(both) = Len(s) - 1
      /\ \A k \in 1 .. Len(s) - 1 : both[k] = IF k < i THEN s[k] ELSE s[k + 1]
  <2> HIDE DEF front, rest
  <2>1. /\ both \in Seq(S)
        /\ Len(both) = Len(front) + Len(rest)
        /\ \A k \in 1 .. Len(front) + Len(rest) :
             both[k] = IF k <= Len(front) THEN front[k] ELSE rest[k - Len(front)]
    BY <1>2, <1>3, ConcatProperties
  <2> HIDE DEF both
  <2>2. ASSUME NEW k \in 1 .. Len(s) - 1
        PROVE  both[k] = IF k < i THEN s[k] ELSE s[k + 1]
    <3>0. k \in Int /\ k \in 1 .. Len(front) + Len(rest)
      BY <1>1, <1>2, <1>3
    <3>1. CASE k < i
      <4>1. k \in 1 .. i - 1 /\ k <= Len(front)
        BY <1>1, <1>2, <3>0, <3>1
      <4> QED
        BY <1>2, <2>1, <3>0, <3>1, <4>1
    <3>2. CASE k >= i
      <4>1. both[k] = rest[k - (i - 1)]
        BY <1>1, <1>2, <2>1, <3>0, <3>2
      <4>2. k - (i - 1) \in 1 .. Len(s) - i /\ (k - (i - 1)) + i = k + 1
        BY <1>1, <3>0, <3>2
      <4>3. ~ (k < i)
        BY <1>1, <3>0, <3>2
      <4> QED
        BY <1>3, <4>1, <4>2, <4>3
    <3> QED
      BY <1>1, <3>0, <3>1, <3>2
  <2> QED
    BY <1>1, <1>2, <1>3, <2>1, <2>2
<1> QED
  BY <1>4 DEF RemoveAt

\* The elements of a list, and those from a position on.
Elements(s) == {s[k] : k \in 1 .. Len(s)}

From(s, i) == {s[k] : k \in i .. Len(s)}

Distinct(s) == \A j, k \in 1 .. Len(s) : s[j] = s[k] => j = k

\* The same for the set of elements, and for those from a position on.
LEMMA RemovedElements ==
  ASSUME NEW S, NEW s \in Seq(S), NEW i \in 1 .. Len(s), Distinct(s),
         NEW t, t = RemoveAt(s, i)
  PROVE  /\ t \in Seq(S)
         /\ Len(t) = Len(s) - 1
         /\ Distinct(t)
         /\ Elements(t) = Elements(s) \ {s[i]}
         /\ From(t, i) = From(s, i) \ {s[i]}
         /\ \A k \in 1 .. i - 1 : t[k] = s[k]
<1>1. Len(s) \in Nat /\ i \in Nat /\ 1 <= i /\ i <= Len(s)
  BY LenProperties
<1>2. /\ t \in Seq(S)
      /\ Len(t) = Len(s) - 1
      /\ \A k \in 1 .. Len(s) - 1 : t[k] = IF k < i THEN s[k] ELSE s[k + 1]
  BY RemoveAtProperties
<1>3. Distinct(t)
  BY <1>1, <1>2 DEF Distinct
<1>4. ASSUME NEW j \in 1 .. i, NEW x, x \in {t[k] : k \in j .. Len(t)}
      PROVE  x \in {s[k] : k \in j .. Len(s)} \ {s[i]}
  <2>1. PICK k \in j .. Len(t) : x = t[k]
    BY <1>4
  <2>2. CASE k < i
    BY <1>1, <1>2, <2>1, <2>2 DEF Distinct
  <2>3. CASE k >= i
    <3>1. x = s[k + 1] /\ k + 1 \in j .. Len(s) /\ k + 1 # i
      BY <1>1, <1>2, <2>1, <2>3
    <3> QED
      BY <1>1, <3>1 DEF Distinct
  <2> QED
    BY <1>1, <2>1, <2>2, <2>3
<1>5. ASSUME NEW j \in 1 .. i, NEW x, x \in {s[k] : k \in j .. Len(s)} \ {s[i]}
      PROVE  x \in {t[k] : k \in j .. Len(t)}
  <2>1. PICK k \in j .. Len(s) : x = s[k] /\ k # i
    BY <1>5
  <2>2. CASE k < i
    <3>1. k \in j .. Len(t) /\ t[k] = x
      BY <1>1, <1>2, <2>1, <2>2
    <3> QED
      BY <3>1
  <2>3. CASE k > i
    <3>1. k - 1 \in j .. Len(t) /\ t[k - 1] = x
      BY <1>1, <1>2, <2>1, <2>3
    <3> QED
      BY <3>1
  <2> QED
    BY <1>1, <2>1, <2>2, <2>3
<1>6. \A j \in 1 .. i : {t[k] : k \in j .. Len(t)} = {s[k] : k \in j .. Len(s)} \ {s[i]}
  BY <1>4, <1>5
<1>7. Elements(t) = Elements(s) \ {s[i]}
  <2>1. 1 \in 1 .. i
    BY <1>1
  <2> QED
    BY <1>6, <2>1, Zenon DEF Elements
<1>8. From(t, i) = From(s, i) \ {s[i]}
  <2>1. i \in 1 .. i
    BY <1>1
  <2> QED
    BY <1>6, <2>1, Zenon DEF From
<1> QED
  BY <1>1, <1>2, <1>3, <1>7, <1>8

\* Edges stay symmetric when a partition takes over those of another, which has
\* none any more.
LEMMA AbsorbProperties ==
  ASSUME nPartitions \in Nat, adj \in [Part -> [Part -> Nat]],
         \A p, q \in Part : adj[p][q] = adj[q][p],
         NEW gone \in Part, NEW into \in Part, gone # into,
         NEW new, new = Absorb(gone, into)
  PROVE  /\ new \in [Part -> [Part -> Nat]]
         /\ \A p, q \in Part : new[p][q] = new[q][p]
         /\ \A p, q \in Part : new[p][q] > 0 =>
              /\ p # gone
              /\ p = into \/ \E r \in Part : adj[p][r] > 0
         /\ (\A p \in Part : adj[p][p] = 0) => \A p \in Part : new[p][p] = 0
<1>1. new \in [Part -> [Part -> Nat]]
  BY DEF Absorb
<1>2. \A p, q \in Part : new[p][q] =
        IF gone \in {p, q} THEN 0
        ELSE IF p = into /\ q # into THEN adj[into][q] + adj[gone][q]
        ELSE IF p # into /\ q = into /\ adj[gone][p] > 0 THEN adj[into][p] + adj[gone][p]
        ELSE adj[p][q]
  BY DEF Absorb
<1>3. \A p, q \in Part : adj[p][q] \in Nat
  OBVIOUS
<1>4. ASSUME NEW p \in Part, NEW q \in Part
      PROVE  new[p][q] = new[q][p]
  <2>1. adj[gone][p] = 0 \/ adj[gone][p] > 0
    BY <1>3
  <2>2. adj[gone][q] = 0 \/ adj[gone][q] > 0
    BY <1>3
  <2> QED
    BY <1>2, <1>3, <2>1, <2>2
<1>5. ASSUME NEW p \in Part, NEW q \in Part, new[p][q] > 0
      PROVE  p # gone /\ (p = into \/ \E r \in Part : adj[p][r] > 0)
  <2>1. p # gone /\ q # gone
    BY <1>2, <1>5
  <2>2. CASE p # into /\ q = into /\ adj[gone][p] > 0
    <3>1. adj[p][gone] > 0
      BY <2>2
    <3> QED
      BY <2>1, <3>1
  <2>3. CASE p # into /\ ~ (q = into /\ adj[gone][p] > 0)
    <3>1. new[p][q] = adj[p][q]
      BY <1>2, <2>1, <2>3
    <3> QED
      BY <1>5, <2>1, <3>1
  <2> QED
    BY <2>1, <2>2, <2>3
<1>6. ASSUME \A p \in Part : adj[p][p] = 0, NEW p \in Part
      PROVE  new[p][p] = 0
  BY <1>2, <1>6
<1> QED
  BY <1>1, <1>4, <1>5, <1>6

\* The elements of the list of active partitions.
LEMMA ActiveElements ==
  ASSUME active \in Seq(Part)
  PROVE  /\ Active = Elements(active)
         /\ Active \subseteq Part
         /\ Len(active) \in Nat
         /\ \A k \in 1 .. Len(active) : active[k] \in Part /\ active[k] \in Active
<1>1. DOMAIN active = 1 .. Len(active) /\ Len(active) \in Nat
  BY LenProperties
<1>2. \A k \in 1 .. Len(active) : active[k] \in Part
  BY ElementOfSeq
<1> QED
  BY <1>1, <1>2 DEF Active, Elements, ToSet

-----------------------------------------------------------------------------
(***************************************************************************)
(* Units are merged.                                                       *)
(***************************************************************************)
Inv == TypeOK /\ BuildInv

\* The partition being visited.
LEMMA Visited ==
  ASSUME Inv, UnitPhase, NEW p, p = active[at]
  PROVE  /\ GraphInv /\ UnitsInv
         /\ at \in 1 .. Len(active) /\ at \in Nat /\ Len(active) \in Nat
         /\ p \in Part /\ p \in Active /\ p \in Waiting
         /\ Active \subseteq Part
         /\ Live = Active
         /\ p \notin noAdj
         /\ \A q \in Part : p \notin tree[q]
<1>1. GraphInv /\ UnitsInv /\ TypeOK
  BY DEF Inv, BuildInv, UnitPhase
<1>2. /\ Active = Elements(active)
      /\ Active \subseteq Part
      /\ Len(active) \in Nat
      /\ \A k \in 1 .. Len(active) : active[k] \in Part /\ active[k] \in Active
  BY <1>1, ActiveElements DEF TypeOK
<1>3. at \in 1 .. Len(active) /\ at \in Nat
  BY <1>1, <1>2 DEF TypeOK, UnitPhase
<1>4. p \in Part /\ p \in Active
  BY <1>2, <1>3
<1>5. p \in Waiting
  <2>1. at \in at .. Len(active)
    BY <1>3
  <2> QED
    BY <2>1 DEF Waiting
<1>6. Live = Active
  BY <1>1, <1>2 DEF Live, UnitsInv, NoPair, Erase
<1> QED
  BY <1>1, <1>2, <1>3, <1>4, <1>5, <1>6 DEF UnitsInv

\* When the visited partition is taken off the list or left behind.
LEMMA Passed ==
  ASSUME TypeOK, GraphInv, at <= Len(active), NEW p, p = active[at], Part' = Part,
         \/ active' = RemoveAt(active, at) /\ at' = at
         \/ active' = active /\ at' = at + 1
  PROVE  /\ active' \in Seq(Part)
         /\ at' \in 1 .. Len(active') + 1
         /\ Distinct(active')
         /\ Waiting' = Waiting \ {p}
         /\ Active' = IF at' = at THEN Active \ {p} ELSE Active
         /\ \A k \in 1 .. at - 1 : active'[k] = active[k] /\ active[k] # p
<1>1. /\ TypeOK /\ Distinct(active)
      /\ at \in 1 .. Len(active) /\ at \in Nat /\ Len(active) \in Nat
  <2>1. Len(active) \in Nat
    BY ActiveElements DEF TypeOK
  <2> QED
    BY <2>1 DEF TypeOK, GraphInv, Distinct
<1>2. active \in Seq(Part) /\ Active = Elements(active)
  BY <1>1, ActiveElements DEF TypeOK
<1>3. \A k \in 1 .. Len(active) : k # at => active[k] # p
  BY <1>1 DEF Distinct
<1>4. CASE active' = RemoveAt(active, at) /\ at' = at
  <2>1. /\ active' \in Seq(Part)
        /\ Len(active') = Len(active) - 1
        /\ Distinct(active')
        /\ Elements(active') = Elements(active) \ {active[at]}
        /\ From(active', at) = From(active, at) \ {active[at]}
        /\ \A k \in 1 .. at - 1 : active'[k] = active[k]
    BY <1>1, <1>2, <1>4, RemovedElements
  <2>2. Active' = Elements(active')
    <3>1. DOMAIN active' = 1 .. Len(active')
      BY <2>1, LenProperties
    <3> QED
      BY <3>1 DEF Active, Elements, ToSet
  <2>3. Waiting = From(active, at) /\ Waiting' = From(active', at)
    BY <1>4 DEF Waiting, From
  <2> QED
    BY <1>1, <1>2, <1>3, <1>4, <2>1, <2>2, <2>3
<1>5. CASE active' = active /\ at' = at + 1
  <2>1. Active' = Active
    BY <1>5 DEF Active
  <2>2. Waiting' = Waiting \ {p}
    <3>1. Waiting' = {active[k] : k \in at + 1 .. Len(active)}
      BY <1>5 DEF Waiting
    <3>2. \A k \in at .. Len(active) : k \in at + 1 .. Len(active) <=> active[k] # p
      BY <1>1, <1>3
    <3>3. \A k \in at + 1 .. Len(active) : k \in at .. Len(active)
      BY <1>1
    <3>4. \A x \in Waiting' : x \in Waiting /\ x # p
      BY <3>1, <3>2, <3>3 DEF Waiting
    <3>5. \A x \in Waiting \ {p} : x \in Waiting'
      BY <3>1, <3>2 DEF Waiting
    <3> QED
      BY <3>4, <3>5
  <2> QED
    BY <1>1, <1>2, <1>3, <1>5, <2>1, <2>2
<1> QED
  BY <1>4, <1>5

\* The visited partition moves from the list to a node of its own.
LEMMA KeepKept == Inv /\ KeepPartition => Inv'
<1> SUFFICES ASSUME Inv, KeepPartition
             PROVE  Inv'
  OBVIOUS
<1> DEFINE p == active[at]
<1>1. /\ GraphInv /\ UnitsInv /\ TypeOK
      /\ at \in 1 .. Len(active) /\ at \in Nat /\ Len(active) \in Nat
      /\ p \in Part /\ p \in Active /\ p \in Waiting
      /\ p \notin noAdj
      /\ \A q \in Part : p \notin tree[q]
  BY Visited DEF KeepPartition, Inv
<1>2. /\ softs[p] > 1
      /\ tree' = [tree EXCEPT ![p] = tree[p] \cup {p}]
      /\ at' = at + 1
      /\ UNCHANGED <<partitions, adj, active, noAdj, nodes, leaves, pairs, stack, phase>>
      /\ phase = "units" /\ nPartitions > 1
  <2>1. /\ softs[p] \in Nat /\ softs[p] > 1
        /\ tree' = [tree EXCEPT ![p] = Brings(p)]
    BY <1>1 DEF TypeOK, KeepPartition
  <2>2. Brings(p) = tree[p] \cup {p}
    BY <2>1 DEF Brings
  <2> QED
    BY <2>1, <2>2 DEF KeepPartition, UnitPhase
<1>3. Part' = Part /\ WithSofts' = WithSofts /\ p \in WithSofts
  <2>1. softs[p] \in Nat
    BY <1>1 DEF TypeOK
  <2> QED
    BY <1>1, <1>2, <2>1 DEF partitions, Part, WithSofts
<1>4. Waiting' = Waiting \ {p} /\ Active' = Active
  BY <1>1, <1>2, <1>3, Passed
<1>5. tree \in [Part -> SUBSET Part]
  BY <1>1 DEF TypeOK
<1>6. /\ tree' \in [Part -> SUBSET Part]
      /\ \A q \in Part : tree'[q] = IF q = p THEN tree[q] \cup {p} ELSE tree[q]
  BY <1>1, <1>2, <1>5
<1> HIDE DEF p
<1>7. TypeOK'
  <2>1. at' \in 1 .. Len(active') + 1
    BY <1>1, <1>2
  <2> QED
    BY <1>1, <1>2, <1>3, <1>6, <2>1 DEF TypeOK, partitions
<1>8. GraphInv'
  <2>1. Live' = Live
    BY <1>2, <1>4 DEF Live
  <2> QED
    BY <1>1, <1>2, <1>3, <2>1 DEF GraphInv
<1>9. UnitsInv'
  <2>1. \A k \in 1 .. at' - 1 : active'[k] \in tree'[active'[k]]
    <3> SUFFICES ASSUME NEW k \in 1 .. at
                 PROVE  active[k] \in tree'[active[k]]
      BY <1>1, <1>2
    <3>1. active[k] \in Part
      <4>1. active \in Seq(Part) /\ k \in 1 .. Len(active)
        BY <1>1 DEF TypeOK
      <4> QED
        BY <4>1, ElementOfSeq
    <3>2. CASE k = at
      BY <1>1, <1>6, <3>2 DEF p
    <3>3. CASE k # at
      <4>1. k \in 1 .. at - 1
        BY <1>1, <3>3
      <4> QED
        BY <1>1, <1>6, <3>1, <4>1 DEF UnitsInv
    <3> QED
      BY <3>2, <3>3
  <2>2. \A q \in Part : tree'[q] # {} => q \in Active
    BY <1>1, <1>6 DEF UnitsInv
  <2>3. \A q \in Part : tree'[q] \cap (Waiting' \cup noAdj) = {}
    BY <1>1, <1>4, <1>6 DEF UnitsInv
  <2>4. \A q, r \in Part : q # r => tree'[q] \cap tree'[r] = {}
    BY <1>1, <1>6 DEF UnitsInv
  <2>5. /\ \A q \in Part : tree'[q] \subseteq WithSofts
        /\ \A q \in WithSofts : q \in Waiting' \cup noAdj \/ \E r \in Part : q \in tree'[r]
    <3>1. ASSUME NEW q \in WithSofts
          PROVE  q \in Waiting' \cup noAdj \/ \E r \in Part : q \in tree'[r]
      BY <1>1, <1>4, <1>6 DEF UnitsInv
    <3> QED
      BY <1>3, <1>1, <1>6, <3>1 DEF UnitsInv
  <2>6. noAdj \cap Waiting' = {} /\ noAdj \subseteq WithSofts
    BY <1>1, <1>4 DEF UnitsInv
  <2>7. \A q \in Part : pairs[q] = NoPair
    BY <1>1 DEF UnitsInv
  <2>8. noAdj' = noAdj /\ pairs' = pairs
    BY <1>2
  <2> QED
    BY <2>8, <1>3, <1>4, <2>1, <2>2, <2>3, <2>4, <2>5, <2>6, <2>7 DEF UnitsInv
<1> QED
  BY <1>2, <1>7, <1>8, <1>9 DEF Inv, BuildInv

\* What the visited partition brings along moves to a neighbour that is still active.
LEMMA MergeUnitKept == Inv /\ MergeUnit => Inv'
<1> SUFFICES ASSUME Inv, MergeUnit
             PROVE  Inv'
  OBVIOUS
<1> DEFINE p == active[at]
<1>1. /\ GraphInv /\ UnitsInv /\ TypeOK
      /\ at \in 1 .. Len(active) /\ at \in Nat /\ Len(active) \in Nat
      /\ p \in Part /\ p \in Active /\ p \in Waiting
      /\ Active \subseteq Part /\ Live = Active
      /\ p \notin noAdj
      /\ \A q \in Part : p \notin tree[q]
  BY Visited DEF MergeUnit, Inv
<1>2. /\ UNCHANGED <<partitions, at, noAdj, nodes, leaves, pairs, stack, phase>>
      /\ phase = "units" /\ nPartitions > 1
      /\ active' = RemoveAt(active, at)
  BY DEF MergeUnit, UnitPhase
<1>3. Part' = Part /\ WithSofts' = WithSofts /\ WithSofts \subseteq Part
  BY <1>2 DEF partitions, Part, WithSofts
<1>4. /\ active' \in Seq(Part)
      /\ at' \in 1 .. Len(active') + 1
      /\ Distinct(active')
      /\ Waiting' = Waiting \ {p}
      /\ Active' = Active \ {p}
      /\ \A k \in 1 .. at - 1 : active'[k] = active[k] /\ active[k] # p
  BY <1>1, <1>2, <1>3, Passed
<1>5. PICK best \in Part :
        /\ adj[p][best] > 0
        /\ tree' = [tree EXCEPT ![best] = tree[best] \cup Brings(p), ![p] = {}]
        /\ adj' = Absorb(p, best)
  BY <1>1 DEF MergeUnit, Heaviest, AdjacentTo
<1>6. p # best /\ best \in Active
  <2>1. adj[best][p] > 0
    BY <1>1, <1>5 DEF GraphInv
  <2> QED
    BY <1>1, <1>5, <2>1 DEF GraphInv
<1>7. tree \in [Part -> SUBSET Part] /\ tree[best] \subseteq Part
  BY <1>1 DEF TypeOK
<1>8. /\ Brings(p) \subseteq Part
      /\ \A x \in Brings(p) : x \in tree[p] \/ (x = p /\ p \in WithSofts)
      /\ tree[p] \subseteq Brings(p)
      /\ p \in WithSofts => p \in Brings(p)
  BY <1>1, <1>7 DEF Brings, WithSofts
<1> HIDE DEF p
<1>9. /\ tree' \in [Part -> SUBSET Part]
      /\ tree'[p] = {}
      /\ tree'[best] = tree[best] \cup Brings(p)
      /\ \A q \in Part \ {p, best} : tree'[q] = tree[q]
  BY <1>1, <1>5, <1>6, <1>7, <1>8
<1>10. /\ adj' \in [Part -> [Part -> Nat]]
       /\ \A q, r \in Part : adj'[q][r] = adj'[r][q]
       /\ \A q, r \in Part : adj'[q][r] > 0 =>
            q # p /\ (q = best \/ \E x \in Part : adj[q][x] > 0)
       /\ \A q \in Part : adj'[q][q] = 0
  <2>1. /\ nPartitions \in Nat /\ adj \in [Part -> [Part -> Nat]]
        /\ \A q, r \in Part : adj[q][r] = adj[r][q]
    BY <1>1 DEF TypeOK, GraphInv
  <2>2. \A q \in Part : adj[q][q] = 0
    <3>1. \A q \in Part : adj[q][q] \in Nat /\ ~ (adj[q][q] > 0)
      BY <1>1, <2>1 DEF GraphInv
    <3> QED
      BY <3>1
  <2>3. /\ Absorb(p, best) \in [Part -> [Part -> Nat]]
        /\ \A q, r \in Part : Absorb(p, best)[q][r] = Absorb(p, best)[r][q]
        /\ \A q, r \in Part : Absorb(p, best)[q][r] > 0 =>
             q # p /\ (q = best \/ \E x \in Part : adj[q][x] > 0)
        /\ (\A q \in Part : adj[q][q] = 0) => \A q \in Part : Absorb(p, best)[q][q] = 0
    <3>1. p \in Part /\ best \in Part /\ p # best
      BY <1>1, <1>6
    <3> QED
      BY <2>1, <3>1, AbsorbProperties
  <2> QED
    BY <1>5, <2>2, <2>3
<1>11. TypeOK'
  BY <1>1, <1>2, <1>3, <1>4, <1>9, <1>10 DEF TypeOK, partitions
<1>12. GraphInv'
  <2>1. Live' = Active'
    BY <1>1, <1>2, <1>4 DEF Live, UnitsInv, NoPair, Erase
  <2>2. \A q, r \in Part : adj'[q][r] > 0 => q # r /\ q \in Active \ {p}
    <3> SUFFICES ASSUME NEW q \in Part, NEW r \in Part, adj'[q][r] > 0
                 PROVE  q # r /\ q \in Active \ {p}
      OBVIOUS
    <3>1. q # r
      BY <1>10
    <3>2. q # p /\ (q = best \/ \E x \in Part : adj[q][x] > 0)
      BY <1>10
    <3> QED
      BY <1>1, <1>6, <3>1, <3>2 DEF GraphInv
  <2> QED
    BY <1>3, <1>4, <1>10, <2>1, <2>2 DEF GraphInv, Distinct
<1>13. UnitsInv'
  <2>1. \A k \in 1 .. at - 1 : active'[k] \in tree'[active'[k]]
    <3> SUFFICES ASSUME NEW k \in 1 .. at - 1
                 PROVE  active'[k] \in tree'[active'[k]]
      OBVIOUS
    <3>1. active'[k] = active[k] /\ active[k] # p /\ active[k] \in tree[active[k]]
      BY <1>1, <1>4 DEF UnitsInv
    <3>2. active[k] \in Part
      <4>1. active \in Seq(Part) /\ k \in 1 .. Len(active)
        BY <1>1 DEF TypeOK
      <4> QED
        BY <4>1, ElementOfSeq
    <3> QED
      BY <1>9, <3>1, <3>2
  <2>2. \A q \in Part : tree'[q] # {} => q \in Active'
    BY <1>1, <1>4, <1>6, <1>9 DEF UnitsInv
  <2>3. \A q \in Part : tree'[q] \cap (Waiting' \cup noAdj) = {}
    <3>1. tree[best] \cap (Waiting' \cup noAdj) = {} /\ tree[p] \cap (Waiting' \cup noAdj) = {}
      BY <1>1, <1>4 DEF UnitsInv
    <3>2. Brings(p) \cap (Waiting' \cup noAdj) = {}
      BY <1>1, <1>4, <1>8, <3>1
    <3> QED
      BY <1>1, <1>4, <1>9, <3>1, <3>2 DEF UnitsInv
  <2>4. \A q, r \in Part : q # r => tree'[q] \cap tree'[r] = {}
    <3>1. ASSUME NEW q \in Part, q # best
          PROVE  tree'[q] \cap tree'[best] = {}
      <4>1. CASE q = p
        BY <1>9, <4>1
      <4>2. CASE q # p
        <5>1. tree[q] \cap tree[best] = {} /\ tree[q] \cap tree[p] = {} /\ p \notin tree[q]
          BY <1>1, <3>1, <4>2 DEF UnitsInv
        <5> QED
          BY <1>8, <1>9, <3>1, <4>2, <5>1
      <4> QED
        BY <4>1, <4>2
    <3>2. ASSUME NEW q \in Part, NEW r \in Part, q # r, q # best, r # best
          PROVE  tree'[q] \cap tree'[r] = {}
      <4>1. tree[q] \cap tree[r] = {}
        BY <1>1, <3>2 DEF UnitsInv
      <4> QED
        BY <1>9, <3>2, <4>1
    <3> QED
      BY <3>1, <3>2
  <2>5. \A q \in Part : tree'[q] \subseteq WithSofts
    BY <1>1, <1>8, <1>9 DEF UnitsInv
  <2>6. \A q \in WithSofts : q \in Waiting' \cup noAdj \/ \E r \in Part : q \in tree'[r]
    <3> SUFFICES ASSUME NEW q \in WithSofts, q \notin Waiting' \cup noAdj
                 PROVE  \E r \in Part : q \in tree'[r]
      OBVIOUS
    <3>1. CASE q = p
      BY <1>8, <1>9, <3>1
    <3>2. CASE q # p
      <4>1. PICK r \in Part : q \in tree[r]
        BY <1>1, <1>4, <3>2 DEF UnitsInv
      <4> QED
        BY <1>8, <1>9, <4>1
    <3> QED
      BY <3>1, <3>2
  <2>7. noAdj \cap Waiting' = {} /\ noAdj \subseteq WithSofts
    BY <1>1, <1>4 DEF UnitsInv
  <2>8. \A q \in Part : pairs[q] = NoPair
    BY <1>1 DEF UnitsInv
  <2>9. noAdj' = noAdj /\ pairs' = pairs /\ at' = at
    BY <1>2
  <2> QED
    BY <1>3, <2>1, <2>2, <2>3, <2>4, <2>5, <2>6, <2>7, <2>8, <2>9 DEF UnitsInv
<1> QED
  BY <1>2, <1>11, <1>12, <1>13 DEF Inv, BuildInv

\* What the visited partition brings along moves to those set aside.
LEMMA SetAsideKept == Inv /\ SetAside => Inv'
<1> SUFFICES ASSUME Inv, SetAside
             PROVE  Inv'
  OBVIOUS
<1> DEFINE p == active[at]
<1>1. /\ GraphInv /\ UnitsInv /\ TypeOK
      /\ at \in 1 .. Len(active) /\ at \in Nat /\ Len(active) \in Nat
      /\ p \in Part /\ p \in Active /\ p \in Waiting
      /\ Active \subseteq Part /\ Live = Active
      /\ p \notin noAdj
      /\ \A q \in Part : p \notin tree[q]
  BY Visited DEF SetAside, Inv
<1>2. /\ UNCHANGED <<partitions, adj, at, nodes, leaves, pairs, stack, phase>>
      /\ phase = "units" /\ nPartitions > 1
      /\ active' = RemoveAt(active, at)
      /\ noAdj' = noAdj \cup Brings(p)
      /\ tree' = [tree EXCEPT ![p] = {}]
      /\ AdjacentTo(p) = {}
  BY DEF SetAside, UnitPhase
<1>3. Part' = Part /\ WithSofts' = WithSofts /\ WithSofts \subseteq Part
  BY <1>2 DEF partitions, Part, WithSofts
<1>4. tree \in [Part -> SUBSET Part] /\ noAdj \subseteq Part
  BY <1>1 DEF TypeOK
<1>5. /\ Brings(p) \subseteq Part
      /\ \A x \in Brings(p) : x \in tree[p] \/ (x = p /\ p \in WithSofts)
      /\ tree[p] \subseteq Brings(p)
      /\ p \in WithSofts => p \in Brings(p)
  BY <1>1, <1>4 DEF Brings, WithSofts
<1>6. /\ active' \in Seq(Part)
      /\ at' \in 1 .. Len(active') + 1
      /\ Distinct(active')
      /\ Waiting' = Waiting \ {p}
      /\ Active' = Active \ {p}
      /\ \A k \in 1 .. at - 1 : active'[k] = active[k] /\ active[k] # p
  BY <1>1, <1>2, <1>3, Passed
<1> HIDE DEF p
<1>7. /\ tree' \in [Part -> SUBSET Part]
      /\ tree'[p] = {}
      /\ \A q \in Part \ {p} : tree'[q] = tree[q]
  BY <1>1, <1>2, <1>4
<1>8. TypeOK'
  BY <1>1, <1>2, <1>3, <1>4, <1>5, <1>6, <1>7 DEF TypeOK, partitions
<1>9. GraphInv'
  <2>1. Live' = Active'
    BY <1>1, <1>2, <1>6 DEF Live, UnitsInv, NoPair, Erase
  <2>2. \A q, r \in Part : adj[q][r] > 0 => q # p
    BY <1>1, <1>2 DEF AdjacentTo
  <2> QED
    BY <1>1, <1>2, <1>3, <1>6, <2>1, <2>2 DEF GraphInv, Distinct
<1>10. UnitsInv'
  <2>1. \A k \in 1 .. at - 1 : active'[k] \in tree'[active'[k]]
    <3> SUFFICES ASSUME NEW k \in 1 .. at - 1
                 PROVE  active'[k] \in tree'[active'[k]]
      OBVIOUS
    <3>1. active'[k] = active[k] /\ active[k] # p /\ active[k] \in tree[active[k]]
      BY <1>1, <1>6 DEF UnitsInv
    <3>2. active[k] \in Part
      <4>1. active \in Seq(Part) /\ k \in 1 .. Len(active)
        BY <1>1 DEF TypeOK
      <4> QED
        BY <4>1, ElementOfSeq
    <3> QED
      BY <1>7, <3>1, <3>2
  <2>2. \A q \in Part : tree'[q] # {} => q \in Active'
    BY <1>1, <1>6, <1>7 DEF UnitsInv
  <2>3. ASSUME NEW q \in Part
        PROVE  tree'[q] \cap (Waiting' \cup noAdj') = {}
    <3>1. CASE q = p
      BY <1>7, <3>1
    <3>2. CASE q # p
      <4>1. tree[q] \cap tree[p] = {} /\ tree[q] \cap (Waiting \cup noAdj) = {}
        BY <1>1, <3>2 DEF UnitsInv
      <4> QED
        BY <1>1, <1>2, <1>5, <1>6, <1>7, <3>2, <4>1 DEF p
    <3> QED
      BY <3>1, <3>2
  <2>4. \A q, r \in Part : q # r => tree'[q] \cap tree'[r] = {}
    BY <1>1, <1>7 DEF UnitsInv
  <2>5. \A q \in Part : tree'[q] \subseteq WithSofts
    BY <1>1, <1>7 DEF UnitsInv
  <2>6. \A q \in WithSofts : q \in Waiting' \cup noAdj' \/ \E r \in Part : q \in tree'[r]
    <3> SUFFICES ASSUME NEW q \in WithSofts, q \notin Waiting' \cup noAdj'
                 PROVE  \E r \in Part : q \in tree'[r]
      OBVIOUS
    <3>1. q # p /\ q \notin tree[p]
      BY <1>2, <1>5 DEF p
    <3>2. PICK r \in Part : q \in tree[r]
      BY <1>1, <1>2, <1>6, <3>1 DEF UnitsInv
    <3> QED
      BY <1>7, <3>1, <3>2
  <2>7. noAdj' \cap Waiting' = {} /\ noAdj' \subseteq WithSofts
    <3>1. tree[p] \cap Waiting = {} /\ tree[p] \subseteq WithSofts
      BY <1>1 DEF UnitsInv
    <3> QED
      BY <1>1, <1>2, <1>5, <1>6, <3>1 DEF UnitsInv, p
  <2>8. \A q \in Part : pairs[q] = NoPair
    BY <1>1 DEF UnitsInv
  <2>9. pairs' = pairs /\ at' = at
    BY <1>2
  <2> QED
    BY <1>3, <2>1, <2>2, <2>3, <2>4, <2>5, <2>6, <2>7, <2>8, <2>9 DEF UnitsInv
<1> QED
  BY <1>2, <1>8, <1>9, <1>10 DEF Inv, BuildInv

\* A round of pairing starts with every active partition on the stack.
LEMMA RoundStarts ==
  ASSUME Part' = Part, active' \in Seq(Part), NextRound(active')
  PROVE  /\ at' \in 1 .. Len(active') + 1
         /\ stack' \in Seq(Part)
         /\ pairs' \in [Part -> Part \cup {NoPair, Erase}]
         /\ phase' \in {"pairing", "done"}
         /\ Live' = Active'
         /\ phase' = "done" => Len(active') <= 1 /\ \A p \in Part : pairs'[p] = NoPair
         /\ GraphInv' /\ phase' = "pairing" => PairingInv'
<1>1. /\ at' = 1
      /\ stack' = IF Len(active') > 1 THEN active' ELSE <<>>
      /\ pairs' = [p \in Part |-> NoPair]
      /\ phase' = IF Len(active') > 1 THEN "pairing" ELSE "done"
  BY DEF NextRound
<1>2. Len(active') \in Nat /\ DOMAIN active' = 1 .. Len(active')
  BY LenProperties
<1>3. Active' \subseteq Part
  <2>1. \A k \in 1 .. Len(active') : active'[k] \in Part
    BY ElementOfSeq
  <2> QED
    BY <1>2, <2>1 DEF Active, ToSet
<1>4. at' \in 1 .. Len(active') + 1 /\ stack' \in Seq(Part)
  BY <1>1, <1>2
<1>5. \A p \in Part : pairs'[p] = NoPair /\ pairs'[p] \notin Part /\ pairs'[p] # Erase
  BY <1>1 DEF NoPair, Erase, Part
<1>6. pairs' \in [Part -> Part \cup {NoPair, Erase}] /\ Live' = Active'
  BY <1>1, <1>3, <1>5 DEF Live
<1>7. ASSUME GraphInv', phase' = "pairing"
      PROVE  PairingInv'
  <2>1. stack' = active'
    BY <1>1, <1>7
  <2>2. ToSet(stack)' = Active'
    BY <2>1 DEF Active
  <2>3. ASSUME NEW p \in Part, NEW q \in Part, Blocking(p, q)'
        PROVE  p \in Active'
    <3>1. adj'[p][q] > 0
      BY <1>5, <2>3 DEF Blocking, PairWeight
    <3> QED
      BY <1>6, <1>7, <3>1 DEF GraphInv
  <2> QED
    BY <1>1, <1>5, <2>2, <2>3 DEF PairingInv
<1> QED
  BY <1>1, <1>2, <1>4, <1>5, <1>6, <1>7

\* The nodes are the roots of a forest without inner nodes.
LEMMA LeavesKept == Inv /\ OutputLeaves => Inv'
<1> SUFFICES ASSUME Inv, OutputLeaves
             PROVE  Inv'
  OBVIOUS
<1>1. /\ UNCHANGED <<partitions, adj, noAdj>>
      /\ phase = "units" /\ nPartitions > 1 /\ at > Len(active)
      /\ nodes' = Nodes(tree') /\ leaves' = Nodes(tree')
      /\ NextRound(active')
  BY DEF OutputLeaves
<1>2. GraphInv /\ UnitsInv /\ TypeOK
  BY <1>1 DEF Inv, BuildInv
<1>3. Part' = Part /\ WithSofts' = WithSofts /\ WithSofts \subseteq Part
  BY <1>1 DEF partitions, Part, WithSofts
<1>4. /\ active \in Seq(Part) /\ Len(active) \in Nat /\ DOMAIN active = 1 .. Len(active)
      /\ at = Len(active) + 1
      /\ tree \in [Part -> SUBSET Part] /\ noAdj \subseteq Part
      /\ \A k \in 1 .. Len(active) : active[k] \in Part /\ active[k] \in Active
      /\ Active \subseteq Part /\ Distinct(active)
  <2>1. active \in Seq(Part) /\ Len(active) \in Nat /\ DOMAIN active = 1 .. Len(active)
    BY <1>2, LenProperties DEF TypeOK
  <2> QED
    BY <1>1, <1>2, <2>1, ActiveElements DEF TypeOK, GraphInv, Distinct
<1>5. Waiting = {} /\ Live = Active
  <2>1. Waiting = {}
    BY <1>4 DEF Waiting
  <2> QED
    BY <1>2, <1>4, <2>1 DEF Live, UnitsInv, NoPair, Erase
<1>6. \A p \in Part : tree[p] # {} <=> p \in Active
  <2>1. ASSUME NEW p \in Active
        PROVE  p \in tree[p]
    <3>1. PICK k \in 1 .. Len(active) : p = active[k]
      BY <1>4 DEF Active, ToSet
    <3>2. k \in 1 .. at - 1
      BY <1>4
    <3> QED
      BY <1>2, <3>1, <3>2 DEF UnitsInv
  <2> QED
    BY <1>2, <2>1 DEF UnitsInv
<1>7. /\ \A p, q \in Part : p # q => tree[p] \cap tree[q] = {}
      /\ \A p \in Part : tree[p] \cap noAdj = {} /\ tree[p] \subseteq WithSofts
      /\ noAdj \subseteq WithSofts
      /\ \A p \in WithSofts : p \in noAdj \/ \E q \in Part : p \in tree[q]
  BY <1>2, <1>5 DEF UnitsInv
<1> DEFINE Ready ==
      /\ active' \in Seq(Part) /\ Distinct(active')
      /\ Active \subseteq Active' /\ Active' \subseteq Part
      /\ tree' \in [Part -> SUBSET Part]
      /\ \A p \in Part : tree'[p] # {} <=> p \in Active'
      /\ \A p, q \in Part : p # q => tree'[p] \cap tree'[q] = {}
      /\ \A p \in Part : tree'[p] \subseteq WithSofts
      /\ \A p \in WithSofts : \E q \in Part : p \in tree'[q]
<1>8. Ready
  <2>1. CASE noAdj = {} /\ UNCHANGED <<tree, active>>
    <3>1. Active' = Active
      BY <2>1 DEF Active
    <3> QED
      BY <1>4, <1>6, <1>7, <2>1, <3>1
  <2>2. CASE /\ Cardinality(noAdj) = 1
             /\ active # <<>>
             /\ tree' = [tree EXCEPT ![active[1]] = @ \cup noAdj]
             /\ UNCHANGED active
    <3>1. Active' = Active
      BY <2>2 DEF Active
    <3>2. active[1] \in Part /\ active[1] \in Active
      BY <1>4, <2>2, EmptySeq
    <3>3. /\ tree' \in [Part -> SUBSET Part]
          /\ \A p \in Part : tree'[p] = IF p = active[1] THEN tree[p] \cup noAdj ELSE tree[p]
      BY <1>4, <2>2, <3>2
    <3>4. \A p, q \in Part : p # q => tree'[p] \cap tree'[q] = {}
      BY <1>7, <3>3
    <3>5. \A p \in Part : (tree'[p] # {} <=> p \in Active) /\ tree'[p] \subseteq WithSofts
      BY <1>6, <1>7, <3>2, <3>3
    <3>6. \A p \in WithSofts : \E q \in Part : p \in tree'[q]
      BY <1>7, <3>2, <3>3
    <3> QED
      BY <1>4, <2>2, <3>1, <3>3, <3>4, <3>5, <3>6
  <2>3. ASSUME NEW p \in noAdj,
               tree' = [tree EXCEPT ![p] = noAdj],
               active' = Append(active, p)
        PROVE  Ready
    <3>1. p \in Part /\ tree[p] = {} /\ p \notin Active
      <4>1. p \in Part
        BY <1>4
      <4>2. p \notin Active
        <5> SUFFICES ASSUME p \in Active PROVE FALSE
          OBVIOUS
        <5>1. PICK k \in 1 .. Len(active) : p = active[k]
          BY <1>4 DEF Active, ToSet
        <5>2. k \in 1 .. at - 1
          BY <1>4
        <5>3. p \in tree[p]
          BY <1>2, <5>1, <5>2 DEF UnitsInv
        <5> QED
          BY <1>7, <4>1, <5>3
      <4> QED
        BY <1>6, <4>1, <4>2
    <3>2. /\ active' \in Seq(Part)
          /\ Len(active') = Len(active) + 1
          /\ \A k \in 1 .. Len(active) : active'[k] = active[k]
          /\ active'[Len(active) + 1] = p
          /\ DOMAIN active' = 1 .. Len(active')
      BY <1>4, <2>3, <3>1, AppendProperties, LenProperties
    <3>3. Active' = Active \cup {p}
      <4>1. \A x \in Active' : x \in Active \cup {p}
        BY <1>4, <3>2 DEF Active, ToSet
      <4>2. \A k \in 1 .. Len(active) : k \in 1 .. Len(active')
        BY <1>4, <3>2
      <4>3. \A x \in Active : x \in Active'
        BY <1>4, <3>2, <4>2 DEF Active, ToSet
      <4>4. p \in Active'
        <5>1. Len(active) + 1 \in DOMAIN active'
          BY <1>4, <3>2
        <5> QED
          BY <3>2, <5>1 DEF Active, ToSet
      <4> QED
        BY <4>1, <4>3, <4>4
    <3>4. Distinct(active')
      <4> SUFFICES ASSUME NEW j \in 1 .. Len(active'), NEW k \in 1 .. Len(active'),
                          active'[j] = active'[k]
                   PROVE  j = k
        BY DEF Distinct
      <4>1. \A i \in 1 .. Len(active') : i \in 1 .. Len(active) \/ i = Len(active) + 1
        BY <1>4, <3>2
      <4>2. \A i \in 1 .. Len(active) : active'[i] = active[i] /\ active[i] # p
        BY <1>4, <3>1, <3>2
      <4> QED
        BY <1>4, <3>2, <4>1, <4>2 DEF Distinct
    <3>5. /\ tree' \in [Part -> SUBSET Part]
          /\ \A q \in Part : tree'[q] = IF q = p THEN noAdj ELSE tree[q]
      BY <1>4, <2>3, <3>1
    <3>6. \A q, r \in Part : q # r => tree'[q] \cap tree'[r] = {}
      BY <1>7, <3>5
    <3>7. \A q \in Part : (tree'[q] # {} <=> q \in Active') /\ tree'[q] \subseteq WithSofts
      BY <1>6, <1>7, <2>3, <3>3, <3>5
    <3>8. \A q \in WithSofts : \E r \in Part : q \in tree'[r]
      BY <1>7, <3>1, <3>5
    <3>9. Active \subseteq Active' /\ Active' \subseteq Part
      BY <1>4, <3>1, <3>3
    <3> QED
      BY <3>2, <3>4, <3>5, <3>6, <3>7, <3>8, <3>9
  <2> QED
    BY <2>1, <2>2, <2>3 DEF OutputLeaves
<1>9. /\ at' \in 1 .. Len(active') + 1
      /\ stack' \in Seq(Part)
      /\ pairs' \in [Part -> Part \cup {NoPair, Erase}]
      /\ phase' \in {"pairing", "done"}
      /\ Live' = Active'
      /\ phase' = "done" => Len(active') <= 1 /\ \A p \in Part : pairs'[p] = NoPair
      /\ GraphInv' /\ phase' = "pairing" => PairingInv'
  BY <1>1, <1>3, <1>8, RoundStarts
<1>10. TypeOK'
  <2>1. leaves' \subseteq nodes' /\ nodes' \subseteq SUBSET Part
    BY <1>1, <1>3, <1>8 DEF Nodes
  <2> QED
    BY <1>1, <1>2, <1>3, <1>8, <1>9, <2>1 DEF TypeOK, partitions
<1>11. GraphInv'
  BY <1>1, <1>2, <1>3, <1>5, <1>8, <1>9 DEF GraphInv, Distinct
<1>12. nodes' = leaves' /\ leaves' = {tree'[p] : p \in Active'}
  <2>1. nodes' = {tree'[p] : p \in Part} \ {{}} /\ leaves' = nodes'
    BY <1>1, <1>3 DEF Nodes
  <2> QED
    BY <1>8, <2>1
<1>13. RootsInv' /\ ForestInv'
  <2>1. \A p \in Active' : tree'[p] \in nodes'
    BY <1>12
  <2>2. \A n \in nodes' : n # {} /\ \E p \in Active' : n = tree'[p]
    BY <1>8, <1>12
  <2>3. UNION leaves' = WithSofts
    <3>1. \A x \in WithSofts : x \in UNION leaves'
      <4> SUFFICES ASSUME NEW x \in WithSofts
                   PROVE  \E n \in leaves' : x \in n
        OBVIOUS
      <4>1. PICK q \in Part : x \in tree'[q]
        BY <1>8
      <4> QED
        BY <1>8, <1>12, <4>1
    <3>2. \A n \in leaves' : n \subseteq WithSofts
      BY <1>8, <1>12
    <3> QED
      BY <3>1, <3>2
  <2>4. \A p \in WithSofts : \E q \in Active' : p \in tree'[q]
    BY <1>3, <1>8
  <2>5. \A m, n \in nodes' : m \cap n # {} => m = n
    BY <1>8, <1>12
  <2>6. RootsInv'
    BY <1>3, <1>8, <1>9, <2>1, <2>2, <2>3, <2>4 DEF RootsInv
  <2>7. ForestInv'
    <3>1. \A m, n \in leaves' : m # n => m \cap n = {}
      BY <1>12, <2>5
    <3>2. \A n \in leaves', m \in nodes' : m \subseteq n => m = n
      BY <1>12, <2>2, <2>5
    <3> QED
      BY <1>12, <3>1, <3>2 DEF ForestInv
  <2> QED
    BY <2>6, <2>7
<1>14. BuildInv'
  <2>1. phase' = "pairing" => PairingInv'
    BY <1>9, <1>11
  <2>2. phase' # "units" /\ phase' # "merging"
    BY <1>9
  <2>3. phase' = "done" => Len(active') <= 1 /\ \A p \in Part' : pairs'[p] = NoPair
    BY <1>3, <1>9
  <2>4. nPartitions' > 1
    BY <1>1 DEF partitions
  <2> QED
    BY <1>11, <1>13, <2>1, <2>2, <2>3, <2>4 DEF BuildInv
<1> QED
  BY <1>10, <1>14 DEF Inv

-----------------------------------------------------------------------------
(***************************************************************************)
(* Partitions form pairs.                                                  *)
(***************************************************************************)
\* The partition that looks for a partner is active.
LEMMA StackTop ==
  ASSUME NEW S, NEW s \in Seq(S), s # <<>>
  PROVE  /\ Head(s) \in S /\ Tail(s) \in Seq(S)
         /\ ToSet(Tail(s)) \subseteq ToSet(s)
         /\ Head(s) \in ToSet(s)
         /\ \A x \in ToSet(s) : x = Head(s) \/ x \in ToSet(Tail(s))
<1>1. /\ Head(s) \in S /\ Tail(s) \in Seq(S)
      /\ Len(Tail(s)) = Len(s) - 1
      /\ \A i \in 1 .. Len(Tail(s)) : Tail(s)[i] = s[i + 1]
  BY HeadTailProperties
<1>2. /\ Len(s) \in Nat \ {0} /\ DOMAIN s = 1 .. Len(s)
      /\ DOMAIN Tail(s) = 1 .. Len(Tail(s)) /\ Head(s) = s[1]
  BY <1>1, LenProperties, EmptySeq
<1>3. ASSUME NEW x \in ToSet(Tail(s))
      PROVE  x \in ToSet(s)
  <2>1. PICK i \in 1 .. Len(s) - 1 : x = Tail(s)[i]
    BY <1>1, <1>2 DEF ToSet
  <2>2. i + 1 \in 1 .. Len(s) /\ x = s[i + 1]
    BY <1>1, <1>2, <2>1
  <2> QED
    BY <1>2, <2>2 DEF ToSet
<1>4. ASSUME NEW x \in ToSet(s), x # Head(s)
      PROVE  x \in ToSet(Tail(s))
  <2>1. PICK i \in 1 .. Len(s) : x = s[i]
    BY <1>2 DEF ToSet
  <2>2. i - 1 \in 1 .. Len(Tail(s)) /\ (i - 1) + 1 = i
    BY <1>1, <1>2, <1>4, <2>1
  <2>3. x = Tail(s)[i - 1]
    BY <1>1, <2>1, <2>2
  <2> QED
    BY <1>2, <2>2, <2>3 DEF ToSet
<1>5. Head(s) \in ToSet(s)
  BY <1>2 DEF ToSet
<1> QED
  BY <1>1, <1>3, <1>4, <1>5

\* The partners left behind are put on the stack and nothing else changes there.
LEMMA Pushed ==
  ASSUME NEW S, NEW s \in Seq(S), NEW e \in S
  PROVE  /\ <<e>> \o s \in Seq(S)
         /\ ToSet(<<e>> \o s) = {e} \cup ToSet(s)
<1>1. <<e>> \in Seq(S) /\ Len(<<e>>) = 1 /\ <<e>>[1] = e
  OBVIOUS
<1> DEFINE t == <<e>> \o s
<1>2. /\ t \in Seq(S)
      /\ Len(t) = 1 + Len(s)
      /\ \A i \in 1 .. 1 + Len(s) : t[i] = IF i <= 1 THEN <<e>>[i] ELSE s[i - 1]
  BY <1>1, ConcatProperties
<1> HIDE DEF t
<1>3. Len(s) \in Nat /\ DOMAIN s = 1 .. Len(s) /\ DOMAIN t = 1 .. Len(s) + 1
  BY <1>2, LenProperties
<1>4. t[1] = e /\ \A i \in 1 .. Len(s) : t[i + 1] = s[i]
  <2>1. t[1] = e
    BY <1>1, <1>2, <1>3
  <2>2. ASSUME NEW i \in 1 .. Len(s)
        PROVE  t[i + 1] = s[i]
    <3>1. i + 1 \in 1 .. 1 + Len(s) /\ ~ (i + 1 <= 1) /\ (i + 1) - 1 = i
      BY <1>3
    <3> QED
      BY <1>2, <3>1
  <2> QED
    BY <2>1, <2>2
<1>5. ASSUME NEW x \in ToSet(t)
      PROVE  x = e \/ x \in ToSet(s)
  <2>1. PICK i \in 1 .. Len(s) + 1 : x = t[i]
    BY <1>3 DEF ToSet
  <2>2. CASE i = 1
    BY <1>4, <2>1, <2>2
  <2>3. CASE i # 1
    <3>1. i - 1 \in 1 .. Len(s) /\ (i - 1) + 1 = i
      BY <1>3, <2>3
    <3>2. x = s[i - 1]
      BY <1>4, <2>1, <3>1
    <3> QED
      BY <1>3, <3>1, <3>2 DEF ToSet
  <2> QED
    BY <2>2, <2>3
<1>6. e \in ToSet(t)
  <2>1. 1 \in DOMAIN t
    BY <1>3
  <2> QED
    BY <1>4, <2>1 DEF ToSet
<1>7. ASSUME NEW x \in ToSet(s)
      PROVE  x \in ToSet(t)
  <2>1. PICK i \in 1 .. Len(s) : x = s[i]
    BY <1>3 DEF ToSet
  <2>2. i + 1 \in DOMAIN t /\ x = t[i + 1]
    BY <1>3, <1>4, <2>1
  <2> QED
    BY <2>2 DEF ToSet
<1>8. ToSet(t) = {e} \cup ToSet(s)
  BY <1>5, <1>6, <1>7
<1> QED
  BY <1>2, <1>8 DEF t

\* Pairing leaves the tree alone.
LEMMA RoundKept ==
  ASSUME Inv, phase = "pairing",
         UNCHANGED <<partitions, adj, active, at, tree, noAdj, nodes, leaves, phase>>,
         stack' \in Seq(Part), pairs' \in [Part -> Part \cup {NoPair, Erase}],
         PairingInv'
  PROVE  Inv'
<1>1. Part' = Part /\ WithSofts' = WithSofts
  BY DEF partitions, Part, WithSofts
<1>2. TypeOK'
  BY <1>1 DEF Inv, TypeOK, partitions
<1>3. nPartitions > 1 /\ GraphInv /\ RootsInv /\ ForestInv /\ PairingInv
  BY DEF Inv, BuildInv
<1>4. Live' = Live
  <2>1. Active' = Active
    BY DEF Active
  <2>2. Active \subseteq Part
    BY ActiveElements DEF Inv, TypeOK
  <2>3. \A p \in Part : pairs[p] # Erase /\ pairs'[p] # Erase
    BY <1>1, <1>3 DEF PairingInv
  <2> QED
    BY <2>1, <2>2, <2>3 DEF Live
<1>5. GraphInv'
  <2>1. active' = active /\ adj' = adj
    OBVIOUS
  <2> QED
    BY <1>1, <1>3, <1>4, <2>1 DEF GraphInv
<1>6. RootsInv'
  BY <1>1, <1>3, <1>4 DEF RootsInv
<1>7. ForestInv'
  <2>1. nodes' = nodes /\ leaves' = leaves
    OBVIOUS
  <2>2. \A n, l, r : SplitInto(n, l, r)' <=> SplitInto(n, l, r)
    BY <2>1 DEF SplitInto
  <2> QED
    BY <1>3, <2>1, <2>2 DEF ForestInv
<1>8. phase' = "pairing" /\ nPartitions' = nPartitions
  BY DEF partitions
<1> QED
  BY <1>2, <1>3, <1>5, <1>6, <1>7, <1>8 DEF Inv, BuildInv

\* Only lighter pairs keep a partition from being free.
LEMMA HeavierIsFree ==
  ASSUME TypeOK, \A p, q \in Part : adj[p][q] = adj[q][p],
         \A p \in Part : pairs[p] # Erase,
         NEW p \in Part, NEW q \in Part
  PROVE  /\ PairWeight(q) \in Nat
         /\ adj[p][q] > PairWeight(q) => FreeFor(p, q)
         /\ FreeFor(p, q) => PairWeight(q) <= adj[p][q]
<1>1. \A x, y \in Part : adj[x][y] \in Nat
  BY DEF TypeOK
<1>2. pairs[q] \in Part \/ pairs[q] = NoPair
  BY DEF TypeOK
<1>3. NoPair \notin Part
  BY DEF NoPair, Part
<1>4. CASE pairs[q] = NoPair
  BY <1>1, <1>3, <1>4 DEF PairWeight, FreeFor
<1>5. CASE pairs[q] \in Part
  <2>1. PairWeight(q) = adj[q][pairs[q]] /\ adj[q][pairs[q]] = adj[pairs[q]][q]
    BY <1>5 DEF PairWeight
  <2>2. pairs[q] = p => PairWeight(q) = adj[p][q]
    BY <2>1
  <2> QED
    BY <1>1, <1>3, <1>5, <2>1, <2>2 DEF FreeFor
<1> QED
  BY <1>2, <1>4, <1>5

\* A new pair is heavier than those it breaks, whose other halves go back on the stack.
LEMMA SelectKept == Inv /\ SelectPair => Inv'
<1> SUFFICES ASSUME Inv, SelectPair
             PROVE  Inv'
  OBVIOUS
<1>0. PICK p : p = Head(stack)
  OBVIOUS
<1>1. /\ phase = "pairing" /\ stack # <<>>
      /\ UNCHANGED <<partitions, adj, active, at, tree, noAdj, nodes, leaves, phase>>
  BY DEF SelectPair
<1>2. TypeOK /\ GraphInv /\ PairingInv
  BY <1>1 DEF Inv, BuildInv
<1>3. /\ p \in Part /\ Tail(stack) \in Seq(Part)
      /\ ToSet(Tail(stack)) \subseteq ToSet(stack)
      /\ \A x \in ToSet(stack) : x = p \/ x \in ToSet(Tail(stack))
  BY <1>0, <1>1, <1>2, StackTop DEF TypeOK
<1>4. PICK q \in Part :
        /\ adj[p][q] > 0 /\ FreeFor(p, q)
        /\ \A r \in Part : adj[p][r] > 0 /\ FreeFor(p, r) => adj[p][q] >= adj[p][r]
        /\ pairs' = [r \in Part |-> CASE r = p -> q
                                      [] r = q -> p
                                      [] r \in LeftBy(p, q) \ {p, q} -> NoPair
                                      [] OTHER -> pairs[r]]
        /\ stack' = Delay(p, q, Tail(stack))
  BY <1>0 DEF SelectPair, Heaviest, AdjacentTo
<1>5. /\ \A x, y \in Part : adj[x][y] \in Nat /\ adj[x][y] = adj[y][x]
      /\ Active \subseteq Part /\ Live = Active
      /\ \A x \in Part : pairs[x] \in Part \cup {NoPair} /\ pairs[x] # Erase
      /\ NoPair \notin Part /\ NoPair # Erase /\ Erase \notin Part
  <2>1. Active \subseteq Part
    BY <1>2, ActiveElements DEF TypeOK
  <2>2. \A x \in Part : pairs[x] \in Part \cup {NoPair} /\ pairs[x] # Erase
    BY <1>2 DEF TypeOK, PairingInv
  <2>3. NoPair \notin Part /\ NoPair # Erase /\ Erase \notin Part
    BY DEF NoPair, Erase, Part
  <2> QED
    BY <1>2, <2>1, <2>2, <2>3 DEF TypeOK, GraphInv, Live
<1>6. p # q /\ p \in Active /\ q \in Active
  <2>1. adj[q][p] > 0
    BY <1>3, <1>4, <1>5
  <2> QED
    BY <1>2, <1>3, <1>4, <1>5, <2>1 DEF GraphInv
<1>7. /\ pairs'[p] = q /\ pairs'[q] = p
      /\ \A x \in Part \ {p, q} :
           pairs'[x] = IF x \in {pairs[p], pairs[q]} THEN NoPair ELSE pairs[x]
  BY <1>3, <1>4, <1>5, <1>6 DEF LeftBy, Partner
<1>8. pairs' \in [Part -> Part \cup {NoPair, Erase}]
  BY <1>3, <1>4, <1>5, <1>6
<1>9. /\ stack' \in Seq(Part)
      /\ ToSet(stack') = ({pairs[p], pairs[q]} \ {NoPair, p, q}) \cup ToSet(Tail(stack))
  <2> DEFINE behind == IF pairs[q] \in {NoPair, p} THEN Tail(stack)
                       ELSE <<pairs[q]>> \o Tail(stack)
  <2>1. pairs[p] # p /\ pairs[q] # q
    BY <1>2, <1>3, <1>4 DEF PairingInv
  <2>2. /\ behind \in Seq(Part)
        /\ ToSet(behind) = ({pairs[q]} \ {NoPair, p}) \cup ToSet(Tail(stack))
    <3>1. CASE pairs[q] \in {NoPair, p}
      BY <1>3, <3>1
    <3>2. CASE pairs[q] \notin {NoPair, p}
      <4>1. pairs[q] \in Part
        BY <1>5, <3>2
      <4>2. /\ <<pairs[q]>> \o Tail(stack) \in Seq(Part)
            /\ ToSet(<<pairs[q]>> \o Tail(stack)) = {pairs[q]} \cup ToSet(Tail(stack))
        BY <1>3, <4>1, Pushed
      <4> QED
        BY <3>2, <4>2
    <3> QED
      BY <3>1, <3>2
  <2>3. stack' = IF pairs[p] \in {NoPair, q} THEN behind ELSE <<pairs[p]>> \o behind
    BY <1>4 DEF Delay
  <2> HIDE DEF behind
  <2>4. /\ stack' \in Seq(Part)
        /\ ToSet(stack') = ({pairs[p]} \ {NoPair, q}) \cup ToSet(behind)
    <3>1. CASE pairs[p] \in {NoPair, q}
      BY <2>2, <2>3, <3>1
    <3>2. CASE pairs[p] \notin {NoPair, q}
      <4>1. pairs[p] \in Part
        BY <1>3, <1>5, <3>2
      <4> QED
        BY <2>2, <2>3, <3>2, <4>1, Pushed
    <3> QED
      BY <3>1, <3>2
  <2> QED
    BY <2>1, <2>2, <2>4
<1>10. Part' = Part /\ at' = at /\ adj' = adj /\ Active' = Active
  BY <1>1 DEF partitions, Part, Active
<1>11. /\ \A x \in Part : pairs'[x] # Erase
       /\ \A x \in Part : pairs'[x] \in Part =>
            x \in Active /\ pairs'[x] # x /\ pairs'[pairs'[x]] = x
  <2>1. \A x \in Part : pairs'[x] # Erase
    BY <1>3, <1>4, <1>5, <1>7
  <2>2. ASSUME NEW x \in Part, pairs'[x] \in Part, x \notin {p, q}
        PROVE  x \in Active /\ pairs'[x] # x /\ pairs'[pairs'[x]] = x
    <3>1. pairs'[x] = pairs[x] /\ x \notin {pairs[p], pairs[q]} /\ pairs[x] \in Part
      BY <1>5, <1>7, <2>2
    <3>2. x \in Active /\ pairs[x] # x /\ pairs[pairs[x]] = x
      BY <1>2, <3>1 DEF PairingInv
    <3>3. pairs[x] \notin {p, q}
      BY <3>1, <3>2
    <3>4. pairs[p] # pairs[x] /\ pairs[q] # pairs[x]
      <4>1. ASSUME NEW r \in {p, q}, pairs[r] = pairs[x]
            PROVE  FALSE
        <5>1. r \in Part /\ pairs[r] \in Part /\ pairs[pairs[r]] = r
          BY <1>2, <1>3, <1>4, <3>1, <4>1 DEF PairingInv
        <5> QED
          BY <2>2, <3>2, <4>1, <5>1
      <4> QED
        BY <4>1
    <3> QED
      BY <1>7, <3>1, <3>2, <3>3, <3>4
  <2> QED
    BY <1>3, <1>4, <1>6, <1>7, <2>1, <2>2
<1>12. /\ PairWeight(p)' = adj[p][q] /\ PairWeight(q)' = adj[p][q]
       /\ \A x \in Part \ {p, q} : x \notin {pairs[p], pairs[q]} => PairWeight(x)' = PairWeight(x)
  <2>1. PairWeight(p)' = adj[p][q] /\ PairWeight(q)' = adj[q][p]
    BY <1>3, <1>4, <1>7, <1>10 DEF PairWeight
  <2>2. \A x \in Part \ {p, q} : x \notin {pairs[p], pairs[q]} => PairWeight(x)' = PairWeight(x)
    BY <1>7, <1>10 DEF PairWeight
  <2> QED
    BY <1>3, <1>4, <1>5, <2>1, <2>2
<1>13. \A x \in Part : /\ PairWeight(x) \in Nat
                       /\ adj[p][x] > PairWeight(x) => FreeFor(p, x)
                       /\ FreeFor(p, x) => PairWeight(x) <= adj[p][x]
  BY <1>2, <1>3, <1>5, HeavierIsFree
<1>14. ASSUME NEW x \in Part, Blocking(p, x)'
       PROVE  x \in ToSet(stack')
  <2>1. adj[p][x] > adj[p][q] /\ adj[p][x] > PairWeight(x)'
    BY <1>10, <1>12, <1>14 DEF Blocking
  <2>2. x # p /\ x # q
    <3>1. adj[p][x] > 0
      BY <1>3, <1>4, <1>5, <2>1
    <3> QED
      BY <1>2, <1>3, <1>4, <1>5, <2>1, <3>1 DEF GraphInv
  <2>3. CASE x \in {pairs[p], pairs[q]}
    <3>1. x # NoPair
      BY <1>5
    <3> QED
      BY <1>9, <2>2, <2>3, <3>1
  <2>4. CASE x \notin {pairs[p], pairs[q]}
    <3>1. FreeFor(p, x)
      BY <1>12, <1>13, <2>1, <2>2, <2>4
    <3> QED
      BY <1>3, <1>4, <1>5, <2>1, <3>1
  <2> QED
    BY <2>3, <2>4
<1>15. ASSUME NEW x \in Part, NEW y \in Part, Blocking(x, y)', p \notin {x, y}
       PROVE  {x, y} \cap ToSet(stack') # {}
  <2> SUFFICES ASSUME {x, y} \cap ToSet(stack') = {}
               PROVE  FALSE
    OBVIOUS
  <2>1. adj[x][y] > PairWeight(x)' /\ adj[x][y] > PairWeight(y)'
    BY <1>10, <1>15 DEF Blocking
  <2>2. \A z \in {x, y} \ {q} : PairWeight(z)' = PairWeight(z)
    <3> SUFFICES ASSUME NEW z \in {x, y} \ {q}
                 PROVE  z \in Part \ {p, q} /\ z \notin {pairs[p], pairs[q]}
      BY <1>12
    <3>1. z \in Part \ {p, q} /\ z # NoPair
      BY <1>5, <1>15
    <3> QED
      BY <1>9, <3>1
  <2>3. PairWeight(q)' >= PairWeight(q) /\ PairWeight(q)' \in Nat /\ PairWeight(q) \in Nat
    BY <1>3, <1>4, <1>5, <1>12, <1>13
  <2>4. adj[x][y] > PairWeight(x)
    BY <1>5, <1>13, <2>1, <2>2, <2>3
  <2>5. adj[x][y] > PairWeight(y)
    BY <1>5, <1>13, <2>1, <2>2, <2>3
  <2>6. {x, y} \cap ToSet(stack) # {}
    BY <1>2, <2>4, <2>5 DEF PairingInv, Blocking
  <2> QED
    BY <1>3, <1>9, <1>15, <2>6
<1>16. ASSUME NEW x \in Part, NEW y \in Part, Blocking(x, y)'
       PROVE  {x, y} \cap ToSet(stack') # {}
  <2>1. Blocking(y, x)'
    BY <1>5, <1>10, <1>16 DEF Blocking
  <2> QED
    BY <1>14, <1>15, <1>16, <2>1
<1>17. PairingInv'
  <2>1. ToSet(stack') \subseteq Active
    <3>1. \A x \in {p, q} : pairs[x] # NoPair => pairs[x] \in Active
      <4> SUFFICES ASSUME NEW x \in {p, q}, pairs[x] # NoPair
                   PROVE  pairs[x] \in Active
        OBVIOUS
      <4>1. x \in Part /\ pairs[x] \in Part
        BY <1>3, <1>5
      <4>2. pairs[pairs[x]] = x
        BY <1>2, <4>1 DEF PairingInv
      <4> QED
        BY <1>2, <4>1, <4>2 DEF PairingInv
    <3> QED
      BY <1>2, <1>3, <1>9, <3>1 DEF PairingInv
  <2>2. at' = 1
    BY <1>2, <1>10 DEF PairingInv
  <2> QED
    BY <1>10, <1>11, <1>16, <2>1, <2>2 DEF PairingInv
<1> QED
  BY <1>1, <1>8, <1>9, <1>17, RoundKept

\* A partition without a free neighbour has no blocking edge: it may leave the stack.
LEMMA PairWithAnyKept == Inv /\ PairWithAny => Inv'
<1> SUFFICES ASSUME Inv, PairWithAny
             PROVE  Inv'
  OBVIOUS
<1>0. PICK p : p = Head(stack)
  OBVIOUS
<1>1. /\ phase = "pairing" /\ stack # <<>>
      /\ UNCHANGED <<partitions, adj, active, at, tree, noAdj, nodes, leaves, phase>>
      /\ stack' = Tail(stack)
      /\ \A q \in AdjacentTo(p) : ~ FreeFor(p, q)
  BY <1>0 DEF PairWithAny
<1>2. TypeOK /\ GraphInv /\ PairingInv
  BY <1>1 DEF Inv, BuildInv
<1>3. /\ p \in Part /\ p \in ToSet(stack) /\ stack' \in Seq(Part)
      /\ ToSet(stack') \subseteq ToSet(stack)
      /\ \A x \in ToSet(stack) : x = p \/ x \in ToSet(stack')
  BY <1>0, <1>1, <1>2, StackTop DEF TypeOK
<1>4. /\ \A x, y \in Part : adj[x][y] \in Nat /\ adj[x][y] = adj[y][x]
      /\ \A x \in Part : pairs[x] \in Part \cup {NoPair} /\ pairs[x] # Erase
      /\ NoPair \notin Part /\ NoPair # Erase /\ Erase \notin Part
      /\ \A k \in DOMAIN active : active[k] \in Part /\ active[k] \in Active
  <2>1. \A x \in Part : pairs[x] \in Part \cup {NoPair} /\ pairs[x] # Erase
    BY <1>2 DEF TypeOK, PairingInv
  <2>2. NoPair \notin Part /\ NoPair # Erase /\ Erase \notin Part
    BY DEF NoPair, Erase, Part
  <2>3. \A k \in DOMAIN active : active[k] \in Part /\ active[k] \in Active
    BY <1>2, ActiveElements DEF TypeOK, Active, ToSet
  <2> QED
    BY <1>2, <2>1, <2>2, <2>3 DEF TypeOK, GraphInv
<1>5. Part' = Part /\ at' = at /\ adj' = adj /\ Active' = Active
  BY <1>1 DEF partitions, Part, Active
<1> DEFINE Mutual ==
      /\ pairs' \in [Part -> Part \cup {NoPair, Erase}]
      /\ \A x \in Part : pairs'[x] # Erase
      /\ \A x \in Part : pairs'[x] \in Part =>
           x \in Active /\ pairs'[x] # x /\ pairs'[pairs'[x]] = x
      /\ \A x \in Part : pairs'[x] = pairs[x] \/ pairs[x] = NoPair
<1>6. Mutual
  <2>1. CASE UNCHANGED pairs
    BY <1>2, <1>4, <2>1 DEF TypeOK, PairingInv
  <2>2. ASSUME pairs[p] = NoPair,
               NEW k \in DOMAIN active, active[k] # p, pairs[active[k]] = NoPair,
               pairs' = [pairs EXCEPT ![p] = active[k], ![active[k]] = p]
        PROVE  Mutual
    <3>1. PICK u \in Part : u = active[k] /\ u \in Active /\ u # p /\ pairs[u] = NoPair
      BY <1>4, <2>2
    <3>2. /\ pairs' \in [Part -> Part \cup {NoPair, Erase}]
          /\ pairs'[p] = u /\ pairs'[u] = p
          /\ \A x \in Part \ {p, u} : pairs'[x] = pairs[x]
      BY <1>2, <1>3, <2>2, <3>1 DEF TypeOK
    <3>3. p \in Active
      BY <1>2, <1>3 DEF PairingInv
    <3>4. \A x \in Part \ {p, u} : pairs[x] \in Part =>
            x \in Active /\ pairs[x] # x /\ pairs[pairs[x]] = x /\ pairs[x] \notin {p, u}
      BY <1>2, <1>4, <2>2, <3>1 DEF PairingInv
    <3>5. ASSUME NEW x \in Part
          PROVE  /\ pairs'[x] # Erase
                 /\ pairs'[x] \in Part =>
                      x \in Active /\ pairs'[x] # x /\ pairs'[pairs'[x]] = x
                 /\ pairs'[x] = pairs[x] \/ pairs[x] = NoPair
      <4>1. CASE x \in {p, u}
        BY <1>3, <1>4, <2>2, <3>1, <3>2, <3>3, <4>1
      <4>2. CASE x \notin {p, u}
        BY <1>4, <3>2, <3>4, <4>2
      <4> QED
        BY <4>1, <4>2
    <3> QED
      BY <3>2, <3>5
  <2> QED
    BY <1>0, <2>1, <2>2 DEF PairWithAny
<1>7. \A x \in Part : /\ PairWeight(x) \in Nat /\ PairWeight(x)' \in Nat
                      /\ PairWeight(x)' >= PairWeight(x)
  <2> SUFFICES ASSUME NEW x \in Part
               PROVE  /\ PairWeight(x) \in Nat /\ PairWeight(x)' \in Nat
                      /\ PairWeight(x)' >= PairWeight(x)
    OBVIOUS
  <2>1. PairWeight(x) \in Nat /\ PairWeight(x)' \in Nat
    BY <1>4, <1>5, <1>6 DEF PairWeight
  <2>2. CASE pairs'[x] = pairs[x]
    BY <1>5, <2>1, <2>2 DEF PairWeight
  <2>3. CASE pairs[x] = NoPair
    <3>1. PairWeight(x) = 0
      BY <1>4, <2>3 DEF PairWeight
    <3> QED
      BY <2>1, <3>1
  <2> QED
    BY <1>6, <2>2, <2>3
<1>8. ASSUME NEW x \in Part, Blocking(p, x)
      PROVE  FALSE
  <2>1. adj[p][x] > 0 /\ adj[p][x] > PairWeight(x)
    BY <1>3, <1>4, <1>7, <1>8 DEF Blocking
  <2>2. FreeFor(p, x)
    BY <1>2, <1>3, <1>4, <2>1, HeavierIsFree
  <2> QED
    BY <1>1, <2>1, <2>2 DEF AdjacentTo
<1>9. ASSUME NEW x \in Part, NEW y \in Part, Blocking(x, y)'
      PROVE  {x, y} \cap ToSet(stack') # {}
  <2>1. adj[x][y] > PairWeight(x)' /\ adj[x][y] > PairWeight(y)'
    BY <1>5, <1>9 DEF Blocking
  <2>2. Blocking(x, y) /\ Blocking(y, x)
    BY <1>4, <1>7, <2>1 DEF Blocking
  <2>3. p \notin {x, y}
    BY <1>8, <2>2
  <2>4. {x, y} \cap ToSet(stack) # {}
    BY <1>2, <2>2 DEF PairingInv
  <2> QED
    BY <1>3, <2>3, <2>4
<1>10. PairingInv'
  <2>1. ToSet(stack') \subseteq Active /\ at' = 1
    BY <1>2, <1>3, <1>5 DEF PairingInv
  <2> QED
    BY <1>5, <1>6, <1>9, <2>1 DEF PairingInv
<1> QED
  BY <1>1, <1>3, <1>6, <1>10, RoundKept

\* The pairs are mutual when they are merged.
LEMMA AllPairedKept == Inv /\ AllPaired => Inv'
<1> SUFFICES ASSUME Inv, AllPaired
             PROVE  Inv'
  OBVIOUS
<1>1. /\ phase = "pairing" /\ phase' = "merging"
      /\ UNCHANGED <<partitions, adj, active, at, tree, noAdj, nodes, leaves, pairs, stack>>
  BY DEF AllPaired
<1>2. TypeOK /\ nPartitions > 1 /\ GraphInv /\ RootsInv /\ ForestInv /\ PairingInv
  BY <1>1 DEF Inv, BuildInv
<1>3. Part' = Part /\ WithSofts' = WithSofts /\ nPartitions' = nPartitions
  BY <1>1 DEF partitions, Part, WithSofts
<1>4. Active' = Active /\ Live' = Live /\ Waiting' = Waiting
  BY <1>1 DEF Active, Live, Waiting
<1>5. TypeOK'
  BY <1>1, <1>2, <1>3 DEF TypeOK, partitions
<1>6. GraphInv' /\ RootsInv'
  BY <1>1, <1>2, <1>3, <1>4 DEF GraphInv, RootsInv
<1>7. ForestInv'
  <2>1. \A n, l, r : SplitInto(n, l, r)' <=> SplitInto(n, l, r)
    BY <1>1 DEF SplitInto
  <2> QED
    BY <1>1, <1>2, <2>1 DEF ForestInv
<1>8. MergingInv'
  <2>1. Waiting \subseteq Part
    <3>1. \A k \in at .. Len(active) : active[k] \in Part
      BY <1>2, ActiveElements DEF TypeOK, PairingInv
    <3> QED
      BY <3>1 DEF Waiting
  <2>2. \A k \in 1 .. at - 1 : FALSE
    BY <1>2 DEF PairingInv
  <2>3. /\ \A p \in Part : pairs[p] \in Part =>
             p \in Active /\ pairs[p] # p /\ pairs[pairs[p]] \in {p, Erase}
        /\ \A p \in Waiting : pairs[p] \in Part => pairs[pairs[p]] = p
    BY <1>2, <2>1 DEF PairingInv
  <2> QED
    BY <1>1, <1>3, <1>4, <2>2, <2>3 DEF MergingInv
<1> QED
  BY <1>1, <1>2, <1>3, <1>5, <1>6, <1>7, <1>8 DEF Inv, BuildInv

-----------------------------------------------------------------------------
(***************************************************************************)
(* Pairs are merged.                                                       *)
(***************************************************************************)
\* The two nodes of a pair become the children of a new root.
LEMMA MergePairKept == Inv /\ MergePair => Inv'
<1> SUFFICES ASSUME Inv, MergePair
             PROVE  Inv'
  OBVIOUS
<1>0. PICK p, q : p = active[at] /\ q = pairs[p]
  OBVIOUS
<1> DEFINE parent == tree[p] \cup tree[q]
<1>1. /\ phase = "merging" /\ at <= Len(active) /\ q \in Part
      /\ pairs' = [pairs EXCEPT ![q] = Erase]
      /\ adj' = Absorb(q, p)
      /\ tree' = [tree EXCEPT ![p] = parent]
      /\ nodes' = nodes \cup {parent}
      /\ at' = at + 1
      /\ UNCHANGED <<partitions, active, noAdj, leaves, stack, phase>>
  BY <1>0 DEF MergePair
<1>2. TypeOK /\ nPartitions > 1 /\ GraphInv /\ RootsInv /\ ForestInv /\ MergingInv
  BY <1>1 DEF Inv, BuildInv
<1>3. Part' = Part /\ WithSofts' = WithSofts /\ Active' = Active /\ nPartitions' = nPartitions
  BY <1>1 DEF partitions, Part, WithSofts, Active
<1>4. /\ Len(active) \in Nat /\ at \in Nat /\ at \in 1 .. Len(active)
      /\ Active \subseteq Part
      /\ \A k \in 1 .. Len(active) : active[k] \in Part /\ active[k] \in Active
      /\ NoPair \notin Part /\ Erase \notin Part
  <2>1. NoPair \notin Part /\ Erase \notin Part
    BY DEF NoPair, Erase, Part
  <2> QED
    BY <1>1, <1>2, <2>1, ActiveElements DEF TypeOK
<1>5. Waiting' = Waiting \ {p}
  BY <1>0, <1>1, <1>2, <1>3, <1>4, Passed
<1>6. /\ p \in Part /\ p \in Active /\ p \in Waiting /\ p # q
      /\ q \in Active /\ pairs[p] = q /\ pairs[q] = p
      /\ p \in Live /\ q \in Live
  <2>1. p \in Part /\ p \in Active
    BY <1>0, <1>4
  <2>2. p \in Waiting
    <3>1. at \in at .. Len(active)
      BY <1>4
    <3> QED
      BY <1>0, <3>1 DEF Waiting
  <2>3. p # q /\ pairs[q] = p
    BY <1>0, <1>1, <1>2, <2>1, <2>2 DEF MergingInv
  <2>4. q \in Active
    BY <1>1, <1>2, <2>1, <2>3 DEF MergingInv
  <2> QED
    BY <1>0, <1>1, <1>4, <2>1, <2>2, <2>3, <2>4 DEF Live
<1>7. /\ pairs' \in [Part -> Part \cup {NoPair, Erase}]
      /\ pairs'[q] = Erase
      /\ \A x \in Part \ {q} : pairs'[x] = pairs[x]
  BY <1>1, <1>2 DEF TypeOK
<1>8. Live' = Live \ {q}
  BY <1>3, <1>4, <1>7 DEF Live
<1>9. /\ parent \subseteq Part /\ tree \in [Part -> SUBSET Part]
      /\ tree' \in [Part -> SUBSET Part]
      /\ tree'[p] = parent
      /\ \A x \in Part \ {p} : tree'[x] = tree[x]
  BY <1>1, <1>2, <1>6 DEF TypeOK
<1>10. /\ adj' \in [Part -> [Part -> Nat]]
       /\ \A x, y \in Part : adj'[x][y] = adj'[y][x]
       /\ \A x, y \in Part : adj'[x][y] > 0 =>
            x # q /\ (x = p \/ \E z \in Part : adj[x][z] > 0)
       /\ \A x \in Part : adj'[x][x] = 0
  <2>1. /\ nPartitions \in Nat /\ adj \in [Part -> [Part -> Nat]]
        /\ \A x, y \in Part : adj[x][y] = adj[y][x]
    BY <1>2 DEF TypeOK, GraphInv
  <2>2. \A x \in Part : adj[x][x] = 0
    <3>1. \A x \in Part : adj[x][x] \in Nat /\ ~ (adj[x][x] > 0)
      BY <1>2, <2>1 DEF GraphInv
    <3> QED
      BY <3>1
  <2>3. /\ Absorb(q, p) \in [Part -> [Part -> Nat]]
        /\ \A x, y \in Part : Absorb(q, p)[x][y] = Absorb(q, p)[y][x]
        /\ \A x, y \in Part : Absorb(q, p)[x][y] > 0 =>
             x # q /\ (x = p \/ \E z \in Part : adj[x][z] > 0)
        /\ (\A x \in Part : adj[x][x] = 0) => \A x \in Part : Absorb(q, p)[x][x] = 0
    <3>1. p \in Part /\ q \in Part /\ q # p
      BY <1>1, <1>6
    <3> QED
      BY <2>1, <3>1, AbsorbProperties
  <2> QED
    BY <1>1, <2>2, <2>3
<1> HIDE DEF parent
<1>11. TypeOK'
  <2>1. at' \in 1 .. Len(active') + 1
    BY <1>1, <1>4
  <2>2. leaves' \subseteq nodes' /\ nodes' \subseteq SUBSET Part
    BY <1>1, <1>2, <1>9 DEF TypeOK
  <2> QED
    BY <1>1, <1>2, <1>3, <1>7, <1>9, <1>10, <2>1, <2>2 DEF TypeOK, partitions
<1>12. GraphInv'
  <2>1. \A x, y \in Part : adj'[x][y] > 0 => x # y /\ x \in Live'
    <3> SUFFICES ASSUME NEW x \in Part, NEW y \in Part, adj'[x][y] > 0
                 PROVE  x # y /\ x \in Live'
      OBVIOUS
    <3>1. x # y
      BY <1>10
    <3>2. x # q /\ (x = p \/ \E z \in Part : adj[x][z] > 0)
      BY <1>10
    <3> QED
      BY <1>2, <1>6, <1>8, <3>1, <3>2 DEF GraphInv
  <2>2. active' = active
    BY <1>1
  <2> QED
    BY <1>2, <1>3, <1>10, <2>1, <2>2 DEF GraphInv
<1>13. /\ \A x, y \in Live : x # y => tree[x] \cap tree[y] = {}
       /\ \A n \in nodes : n # {} /\ \E x \in Live : n \subseteq tree[x]
       /\ tree[p] \in nodes /\ tree[q] \in nodes
       /\ Live \subseteq Part
  BY <1>2, <1>4, <1>6 DEF RootsInv, Live
<1>14. parent = tree[p] \cup tree[q]
  BY DEF parent
\* No node of the forest is above the roots that are joined.
<1>15. \A n \in nodes : ~ (parent \subseteq n)
  <2> SUFFICES ASSUME NEW n \in nodes, parent \subseteq n
               PROVE  FALSE
    OBVIOUS
  <2>1. PICK x \in Live : n \subseteq tree[x]
    BY <1>13
  <2>2. tree[p] \cap tree[x] # {} /\ tree[q] \cap tree[x] # {}
    BY <1>13, <1>14, <2>1
  <2> QED
    BY <1>6, <1>13, <2>1, <2>2
<1>16. RootsInv'
  <2>1. \A x \in Live' : tree'[x] \in nodes'
    BY <1>1, <1>2, <1>6, <1>8, <1>9, <1>13 DEF RootsInv
  <2>2. ASSUME NEW x \in Live', NEW y \in Live', x # y
        PROVE  tree'[x] \cap tree'[y] = {}
    <3>1. x \in Live /\ y \in Live /\ x # q /\ y # q /\ x \in Part /\ y \in Part
      BY <1>8, <1>13, <2>2
    <3>2. CASE x = p
      BY <1>6, <1>9, <1>13, <1>14, <2>2, <3>1, <3>2
    <3>3. CASE y = p
      BY <1>6, <1>9, <1>13, <1>14, <2>2, <3>1, <3>3
    <3>4. CASE x # p /\ y # p
      BY <1>9, <1>13, <2>2, <3>1, <3>4
    <3> QED
      BY <3>2, <3>3, <3>4
  <2>3. ASSUME NEW n \in nodes'
        PROVE  n # {} /\ \E x \in Live' : n \subseteq tree'[x]
    <3>1. p \in Live'
      BY <1>6, <1>8
    <3>2. CASE n = parent
      BY <1>9, <1>13, <1>14, <3>1, <3>2
    <3>3. CASE n \in nodes
      <4>1. PICK x \in Live : n \subseteq tree[x]
        BY <1>13, <3>3
      <4>2. CASE x \in {p, q}
        BY <1>9, <1>13, <1>14, <3>1, <3>3, <4>1, <4>2
      <4>3. CASE x \notin {p, q}
        BY <1>8, <1>9, <1>13, <3>3, <4>1, <4>3
      <4> QED
        BY <4>2, <4>3
    <3> QED
      BY <1>1, <3>2, <3>3
  <2>4. \A x \in Live' : tree'[x] \subseteq WithSofts
    BY <1>2, <1>6, <1>8, <1>9, <1>13, <1>14 DEF RootsInv
  <2>5. ASSUME NEW x \in WithSofts
        PROVE  \E y \in Live' : x \in tree'[y]
    <3>1. PICK y \in Live : x \in tree[y]
      BY <1>2 DEF RootsInv
    <3>2. CASE y \in {p, q}
      BY <1>6, <1>8, <1>9, <1>14, <3>1, <3>2
    <3>3. CASE y \notin {p, q}
      BY <1>8, <1>9, <1>13, <3>1, <3>3
    <3> QED
      BY <3>2, <3>3
  <2>6. UNION leaves' = WithSofts
    BY <1>1, <1>2 DEF RootsInv
  <2> QED
    BY <1>3, <2>1, <2>2, <2>3, <2>4, <2>5, <2>6 DEF RootsInv
<1>17. ForestInv'
  <2>1. \A m, n \in leaves' : m # n => m \cap n = {}
    BY <1>1, <1>2 DEF ForestInv
  <2>2. \A n \in leaves', m \in nodes' : m \subseteq n => m = n
    <3>1. leaves \subseteq nodes
      BY <1>2 DEF TypeOK
    <3> QED
      BY <1>1, <1>2, <1>15, <3>1 DEF ForestInv
  <2>3. ASSUME NEW n \in nodes \ leaves
        PROVE  \E l, r \in nodes' : SplitInto(n, l, r)'
    <3>1. PICK l \in nodes, r \in nodes : SplitInto(n, l, r)
      BY <1>2 DEF ForestInv
    <3>2. \A m \in nodes' : m \subseteq n => m \in nodes
      BY <1>1, <1>15
    <3>3. SplitInto(n, l, r)'
      BY <3>1, <3>2 DEF SplitInto
    <3> QED
      BY <1>1, <3>1, <3>3
  <2>4. ASSUME NEW n, n = parent
        PROVE  \E l, r \in nodes' : SplitInto(n, l, r)'
    <3>1. PICK l, r : l = tree[p] /\ r = tree[q]
      OBVIOUS
    <3>2. l \cap r = {} /\ l \cup r = n
      BY <1>6, <1>13, <1>14, <2>4, <3>1
    <3>3. ASSUME NEW m \in nodes, m \subseteq n
          PROVE  m \subseteq l \/ m \subseteq r
      <4>1. PICK x \in Live : m \subseteq tree[x]
        BY <1>13
      <4>2. x \in {p, q}
        BY <1>6, <1>13, <1>14, <2>4, <3>3, <4>1
      <4> QED
        BY <3>1, <4>1, <4>2
    <3>4. SplitInto(n, l, r)'
      BY <1>1, <2>4, <3>2, <3>3 DEF SplitInto
    <3> QED
      BY <1>1, <1>13, <3>1, <3>4
  <2>5. \A n \in nodes' \ leaves' : n \in nodes \ leaves \/ n = parent
    BY <1>1
  <2> QED
    BY <2>1, <2>2, <2>3, <2>4, <2>5 DEF ForestInv
<1>18. MergingInv'
  <2>1. ASSUME NEW x \in Part, pairs'[x] \in Part
        PROVE  x \in Active /\ pairs'[x] # x /\ pairs'[pairs'[x]] \in {x, Erase}
    <3>1. x # q /\ pairs'[x] = pairs[x]
      BY <1>4, <1>7, <2>1
    <3>2. x \in Active /\ pairs[x] # x /\ pairs[pairs[x]] \in {x, Erase}
      BY <1>2, <2>1, <3>1 DEF MergingInv
    <3> QED
      BY <1>7, <2>1, <3>1, <3>2
  <2>2. ASSUME NEW x \in Waiting', pairs'[x] \in Part
        PROVE  pairs'[pairs'[x]] = x
    <3>1. Waiting \subseteq Part
      <4>1. \A k \in at .. Len(active) : active[k] \in Part
        BY <1>4
      <4> QED
        BY <4>1 DEF Waiting
    <3>2. x \in Waiting /\ x # p /\ x \in Part
      BY <1>5, <3>1
    <3>3. x # q /\ pairs'[x] = pairs[x]
      BY <1>4, <1>7, <2>2, <3>2
    <3>4. pairs[pairs[x]] = x
      BY <1>2, <2>2, <3>2, <3>3 DEF MergingInv
    <3>5. pairs[x] # q
      BY <1>6, <3>2, <3>4
    <3> QED
      BY <1>7, <2>2, <3>3, <3>4, <3>5
  <2>3. ASSUME NEW k \in 1 .. at, NEW x, x = active[k]
        PROVE  pairs'[x] # Erase /\ (pairs'[x] \in Part => pairs'[pairs'[x]] = Erase)
    <3>1. CASE k = at
      BY <1>0, <1>1, <1>4, <1>6, <1>7, <2>3, <3>1
    <3>2. CASE k # at
      <4>1. k \in 1 .. at - 1 /\ x \in Part
        BY <1>4, <2>3, <3>2
      <4>2. pairs[x] # Erase /\ (pairs[x] \in Part => pairs[pairs[x]] = Erase)
        BY <1>2, <2>3, <4>1 DEF MergingInv
      <4>3. x # q
        BY <1>1, <1>4, <1>6, <4>2
      <4> QED
        BY <1>7, <4>1, <4>2, <4>3
    <3> QED
      BY <3>1, <3>2
  <2>4. at' - 1 = at /\ active' = active
    BY <1>1, <1>4
  <2> QED
    BY <1>3, <2>1, <2>2, <2>3, <2>4 DEF MergingInv
<1> QED
  BY <1>1, <1>2, <1>3, <1>11, <1>12, <1>16, <1>17, <1>18 DEF Inv, BuildInv

\* Only partitions that were merged into another leave the list.
LEMMA SkipMergedKept == Inv /\ SkipMerged => Inv'
<1> SUFFICES ASSUME Inv, SkipMerged
             PROVE  Inv'
  OBVIOUS
<1>0. PICK p : p = active[at]
  OBVIOUS
<1>1. /\ phase = "merging" /\ at <= Len(active)
      /\ \/ pairs[p] = Erase /\ active' = RemoveAt(active, at) /\ at' = at
         \/ pairs[p] = NoPair /\ active' = active /\ at' = at + 1
      /\ UNCHANGED <<partitions, adj, tree, noAdj, nodes, leaves, pairs, stack, phase>>
  BY <1>0 DEF SkipMerged
<1>2. TypeOK /\ nPartitions > 1 /\ GraphInv /\ RootsInv /\ ForestInv /\ MergingInv
  BY <1>1 DEF Inv, BuildInv
<1>3. Part' = Part /\ WithSofts' = WithSofts /\ nPartitions' = nPartitions
  BY <1>1 DEF partitions, Part, WithSofts
<1>4. /\ Len(active) \in Nat /\ at \in Nat /\ at \in 1 .. Len(active)
      /\ Active \subseteq Part
      /\ \A k \in 1 .. Len(active) : active[k] \in Part /\ active[k] \in Active
      /\ NoPair \notin Part /\ Erase \notin Part /\ NoPair # Erase
  <2>1. NoPair \notin Part /\ Erase \notin Part /\ NoPair # Erase
    BY DEF NoPair, Erase, Part
  <2>2. at <= Len(active) /\ active \in Seq(Part) /\ at \in 1 .. Len(active) + 1
    BY <1>1, <1>2 DEF TypeOK
  <2>3. /\ Active \subseteq Part
        /\ Len(active) \in Nat
        /\ \A k \in 1 .. Len(active) : active[k] \in Part /\ active[k] \in Active
    BY <2>2, ActiveElements
  <2> QED
    BY <2>1, <2>2, <2>3
<1>5. /\ active' \in Seq(Part)
      /\ at' \in 1 .. Len(active') + 1
      /\ Distinct(active')
      /\ Waiting' = Waiting \ {p}
      /\ Active' = IF at' = at THEN Active \ {p} ELSE Active
      /\ \A k \in 1 .. at - 1 : active'[k] = active[k] /\ active[k] # p
  BY <1>0, <1>1, <1>2, <1>3, Passed
<1>6. /\ \A x \in Active : x \in Active' \/ pairs[x] = Erase
      /\ Active' \subseteq Active
  BY <1>1, <1>4, <1>5
<1>7. Live' = Live
  BY <1>1, <1>6 DEF Live
<1>8. TypeOK'
  BY <1>1, <1>2, <1>3, <1>5 DEF TypeOK, partitions
<1>9. GraphInv' /\ RootsInv'
  BY <1>1, <1>2, <1>3, <1>5, <1>7 DEF GraphInv, RootsInv, Distinct
<1>10. ForestInv'
  <2>1. \A n, l, r : SplitInto(n, l, r)' <=> SplitInto(n, l, r)
    BY <1>1 DEF SplitInto
  <2> QED
    BY <1>1, <1>2, <2>1 DEF ForestInv
<1>11. MergingInv'
  <2>1. ASSUME NEW x \in Part, pairs[x] \in Part
        PROVE  x \in Active' /\ pairs[x] # x /\ pairs[pairs[x]] \in {x, Erase}
    BY <1>2, <1>4, <1>6, <2>1 DEF MergingInv
  <2>2. \A x \in Waiting' : pairs[x] \in Part => pairs[pairs[x]] = x
    BY <1>2, <1>5 DEF MergingInv
  <2>3. ASSUME NEW k \in 1 .. at' - 1, NEW x, x = active'[k]
        PROVE  pairs[x] # Erase /\ (pairs[x] \in Part => pairs[pairs[x]] = Erase)
    <3>1. CASE k \in 1 .. at - 1
      <4>1. x = active[k]
        BY <1>5, <2>3, <3>1
      <4> QED
        BY <1>2, <3>1, <4>1 DEF MergingInv
    <3>2. CASE k \notin 1 .. at - 1
      <4>1. k = at /\ active' = active /\ pairs[p] = NoPair
        BY <1>1, <1>4, <2>3, <3>2
      <4> QED
        BY <1>0, <1>4, <2>3, <4>1
    <3> QED
      BY <3>1, <3>2
  <2> QED
    BY <1>1, <1>3, <2>1, <2>2, <2>3 DEF MergingInv
<1> QED
  BY <1>1, <1>2, <1>3, <1>8, <1>9, <1>10, <1>11 DEF Inv, BuildInv

\* The list holds exactly the roots again.
LEMMA RoundMergedKept == Inv /\ RoundMerged => Inv'
<1> SUFFICES ASSUME Inv, RoundMerged
             PROVE  Inv'
  OBVIOUS
<1>1. /\ phase = "merging" /\ at > Len(active) /\ NextRound(active')
      /\ UNCHANGED <<partitions, adj, active, tree, noAdj, nodes, leaves>>
  BY DEF RoundMerged
<1>2. TypeOK /\ nPartitions > 1 /\ GraphInv /\ RootsInv /\ ForestInv /\ MergingInv
  BY <1>1 DEF Inv, BuildInv
<1>3. /\ Part' = Part /\ WithSofts' = WithSofts /\ nPartitions' = nPartitions
      /\ Active' = Active /\ active' \in Seq(Part)
  BY <1>1, <1>2 DEF partitions, Part, WithSofts, Active, TypeOK
<1>4. /\ at' \in 1 .. Len(active') + 1
      /\ stack' \in Seq(Part)
      /\ pairs' \in [Part -> Part \cup {NoPair, Erase}]
      /\ phase' \in {"pairing", "done"}
      /\ Live' = Active'
      /\ phase' = "done" => Len(active') <= 1 /\ \A p \in Part : pairs'[p] = NoPair
      /\ GraphInv' /\ phase' = "pairing" => PairingInv'
  BY <1>1, <1>3, RoundStarts
<1>5. Live' = Live
  <2>1. Len(active) \in Nat /\ DOMAIN active = 1 .. Len(active)
    BY <1>2, LenProperties DEF TypeOK
  <2>2. at - 1 = Len(active)
    BY <1>1, <1>2, <2>1 DEF TypeOK
  <2>3. \A k \in 1 .. Len(active) : pairs[active[k]] # Erase
    BY <1>2, <2>2 DEF MergingInv
  <2>4. \A p \in Active : pairs[p] # Erase
    BY <2>1, <2>3 DEF Active, ToSet
  <2> QED
    BY <1>3, <1>4, <2>4 DEF Live
<1>6. TypeOK'
  BY <1>1, <1>2, <1>3, <1>4 DEF TypeOK, partitions
<1>7. GraphInv' /\ RootsInv'
  BY <1>1, <1>2, <1>3, <1>5 DEF GraphInv, RootsInv
<1>8. ForestInv'
  <2>1. \A n, l, r : SplitInto(n, l, r)' <=> SplitInto(n, l, r)
    BY <1>1 DEF SplitInto
  <2> QED
    BY <1>1, <1>2, <2>1 DEF ForestInv
<1>9. BuildInv'
  <2>1. phase' = "pairing" => PairingInv'
    BY <1>4, <1>7
  <2>2. phase' # "units" /\ phase' # "merging"
    BY <1>4
  <2>3. phase' = "done" => Len(active') <= 1 /\ \A p \in Part' : pairs'[p] = NoPair
    BY <1>3, <1>4
  <2> QED
    BY <1>2, <1>3, <1>7, <1>8, <2>1, <2>2, <2>3 DEF BuildInv
<1> QED
  BY <1>6, <1>9 DEF Inv

-----------------------------------------------------------------------------
(***************************************************************************)
(* The tree.                                                               *)
(***************************************************************************)
\* A single partition is the tree.
LEMMA SinglePartitionKept == Inv /\ SinglePartition => Inv'
<1> SUFFICES ASSUME Inv, SinglePartition
             PROVE  Inv'
  OBVIOUS
<1>1. /\ nPartitions = 1 /\ nodes' = {Part} /\ leaves' = {Part} /\ phase' = "done"
      /\ UNCHANGED <<partitions, adj, active, at, tree, noAdj, pairs, stack>>
  BY DEF SinglePartition
<1>2. TypeOK /\ GraphInv
  BY DEF Inv, BuildInv
<1>3. Part' = Part /\ nPartitions' = nPartitions
  BY <1>1 DEF partitions, Part
<1>4. TypeOK'
  BY <1>1, <1>2, <1>3 DEF TypeOK, partitions
<1>5. GraphInv'
  <2>1. Live' = Live
    BY <1>1 DEF Live, Active
  <2> QED
    BY <1>1, <1>2, <1>3, <2>1 DEF GraphInv
<1> QED
  BY <1>1, <1>3, <1>4, <1>5 DEF Inv, BuildInv

\* A step that changes nothing keeps the invariant.
LEMMA StutteringKept == Inv /\ UNCHANGED vars => Inv'
<1> SUFFICES ASSUME Inv, UNCHANGED vars
             PROVE  Inv'
  OBVIOUS
<1>1. UNCHANGED <<nPartitions, softs, adj, active, at, tree, noAdj, nodes, leaves, pairs,
                  stack, phase>>
  BY DEF vars, partitions
<1>2. /\ Part' = Part /\ WithSofts' = WithSofts /\ Active' = Active /\ Live' = Live
      /\ Waiting' = Waiting /\ ToSet(stack)' = ToSet(stack)
  BY <1>1 DEF Part, WithSofts, Active, Live, Waiting
<1>3. TypeOK' /\ GraphInv'
  BY <1>1, <1>2 DEF Inv, BuildInv, TypeOK, GraphInv
<1>4. (UnitsInv' <=> UnitsInv) /\ (RootsInv' <=> RootsInv) /\ (MergingInv' <=> MergingInv)
  BY <1>1, <1>2 DEF UnitsInv, RootsInv, MergingInv
<1>5. ForestInv' <=> ForestInv
  <2>1. \A n, l, r : SplitInto(n, l, r)' <=> SplitInto(n, l, r)
    BY <1>1 DEF SplitInto
  <2> QED
    BY <1>1, <2>1 DEF ForestInv
<1>6. PairingInv' <=> PairingInv
  <2>1. \A p, q : Blocking(p, q)' <=> Blocking(p, q)
    BY <1>1, <1>2 DEF Blocking, PairWeight
  <2> QED
    BY <1>1, <1>2, <2>1 DEF PairingInv
<1> QED
  BY <1>1, <1>2, <1>3, <1>4, <1>5, <1>6 DEF Inv, BuildInv

\* At the start every partition waits and has an edge to others only.
LEMMA InitEstablishes == Init => Inv
<1> SUFFICES ASSUME Init
             PROVE  Inv
  OBVIOUS
<1>1. /\ nPartitions \in Nat \ {0}
      /\ softs \in [Part -> Nat]
      /\ adj \in [Part -> [Part -> Nat]]
      /\ \A p, q \in Part : adj[p][q] = adj[q][p]
      /\ \A p \in Part : adj[p][p] = 0
  BY InputsAssumption DEF Init, Part
<1>2. /\ active = [k \in 1 .. nPartitions |-> k - 1]
      /\ at = 1 /\ tree = [p \in Part |-> {}] /\ noAdj = {} /\ nodes = {} /\ leaves = {}
      /\ pairs = [p \in Part |-> NoPair] /\ stack = <<>> /\ phase = "units"
  BY DEF Init
<1>3. /\ active \in Seq(Part) /\ Len(active) = nPartitions
      /\ \A k \in 1 .. nPartitions : active[k] = k - 1
  BY <1>1, <1>2 DEF Part
<1>4. Waiting = Part /\ Active = Part
  <2>1. Waiting \subseteq Part
    BY <1>1, <1>2, <1>3 DEF Waiting, Part
  <2>2. \A p \in Part : p + 1 \in 1 .. nPartitions /\ active[p + 1] = p
    BY <1>1, <1>3 DEF Part
  <2>3. Part \subseteq Waiting
    BY <1>2, <1>3, <2>2 DEF Waiting
  <2>4. Active = Waiting
    <3>1. DOMAIN active = at .. Len(active)
      BY <1>2, <1>3
    <3> QED
      BY <3>1 DEF Active, Waiting, ToSet
  <2> QED
    BY <2>1, <2>3, <2>4
<1>5. TypeOK
  <2>1. at \in 1 .. Len(active) + 1
    BY <1>1, <1>2, <1>3
  <2>2. tree \in [Part -> SUBSET Part] /\ pairs \in [Part -> Part \cup {NoPair, Erase}]
    BY <1>2
  <2>3. stack \in Seq(Part)
    BY <1>2
  <2> QED
    BY <1>1, <1>2, <1>3, <2>1, <2>2, <2>3 DEF TypeOK
<1>6. GraphInv
  <2>1. Live = Part
    BY <1>2, <1>4 DEF Live, NoPair, Erase
  <2>2. \A j, k \in 1 .. Len(active) : active[j] = active[k] => j = k
    BY <1>1, <1>3
  <2>3. \A p, q \in Part : adj[p][q] > 0 => p # q /\ p \in Live
    BY <1>1, <2>1
  <2> QED
    BY <1>1, <2>2, <2>3 DEF GraphInv
<1>7. UnitsInv
  <2>1. \A k \in 1 .. at - 1 : active[k] \in tree[active[k]]
    BY <1>2
  <2>2. \A p \in WithSofts : p \in Waiting
    BY <1>4 DEF WithSofts
  <2> QED
    BY <1>2, <1>4, <2>1, <2>2 DEF UnitsInv
<1> QED
  BY <1>2, <1>5, <1>6, <1>7 DEF Inv, BuildInv

\* The invariant is inductive.
LEMMA StepKeeps == Inv /\ [Next]_vars => Inv'
  BY SinglePartitionKept, KeepKept, MergeUnitKept, SetAsideKept, LeavesKept, SelectKept,
     PairWithAnyKept, AllPairedKept, MergePairKept, SkipMergedKept, RoundMergedKept,
     StutteringKept
     DEF Next

\* Every partition, list and node stays in its range: the rounds index the matrix and the
\* tree with partitions only (computeGuideTree, Alg_PartMSU3.cc:106-385).
THEOREM TypeCorrect == Spec => []TypeOK
<1>1. Inv => TypeOK
  BY DEF Inv
<1> QED
  BY <1>1, InitEstablishes, StepKeeps, PTL DEF Spec

\* EdgesJoinActive is the part of the invariant about the matrix.
LEMMA EdgesJoinActiveHolds == Inv => EdgesJoinActive
<1> SUFFICES ASSUME Inv, NEW p \in Part, NEW q \in Part, adj[p][q] > 0
             PROVE  /\ adj[q][p] = adj[p][q]
                    /\ p # q
                    /\ {p, q} \subseteq Active
  BY DEF EdgesJoinActive, Active
<1> QED
  BY DEF Inv, BuildInv, GraphInv, Live

\* The places of the invariant exclude each other.
LEMMA NothingLostHolds == Inv => NothingLost
<1> SUFFICES ASSUME Inv, phase = "units", nPartitions > 1, NEW p \in WithSofts
             PROVE  Cardinality({r \in Part : p \in tree[r]}) + Cardinality({p} \cap noAdj)
                      + Cardinality({p} \cap Waiting) = 1
  BY DEF NothingLost, Waiting
<1>1. UnitsInv
  BY DEF Inv, BuildInv
<1>2. Cardinality({}) = 0 /\ \A x : Cardinality({x}) = 1
  BY FS_EmptySet, FS_Singleton
<1>3. CASE p \in Waiting
  <2>1. {r \in Part : p \in tree[r]} = {} /\ {p} \cap noAdj = {} /\ {p} \cap Waiting = {p}
    BY <1>1, <1>3 DEF UnitsInv
  <2>2. /\ Cardinality({r \in Part : p \in tree[r]}) = 0
        /\ Cardinality({p} \cap noAdj) = 0
        /\ Cardinality({p} \cap Waiting) = 1
    BY <1>2, <2>1, Zenon
  <2> QED
    BY <2>2
<1>4. CASE p \in noAdj
  <2>1. {r \in Part : p \in tree[r]} = {} /\ {p} \cap noAdj = {p} /\ {p} \cap Waiting = {}
    BY <1>1, <1>4 DEF UnitsInv
  <2>2. /\ Cardinality({r \in Part : p \in tree[r]}) = 0
        /\ Cardinality({p} \cap noAdj) = 1
        /\ Cardinality({p} \cap Waiting) = 0
    BY <1>2, <2>1, Zenon
  <2> QED
    BY <2>2
<1>5. ASSUME NEW q \in Part, p \in tree[q]
      PROVE  Cardinality({r \in Part : p \in tree[r]}) + Cardinality({p} \cap noAdj)
               + Cardinality({p} \cap Waiting) = 1
  <2>1. {p} \cap noAdj = {} /\ {p} \cap Waiting = {}
    BY <1>1, <1>5 DEF UnitsInv
  <2>2. {r \in Part : p \in tree[r]} = {q}
    BY <1>1, <1>5 DEF UnitsInv
  <2>3. /\ Cardinality({r \in Part : p \in tree[r]}) = 1
        /\ Cardinality({p} \cap noAdj) = 0
        /\ Cardinality({p} \cap Waiting) = 0
    BY <1>2, <2>1, <2>2, Zenon
  <2> QED
    BY <2>3
<1> QED
  BY <1>1, <1>3, <1>4, <1>5 DEF UnitsInv

\* Pairs are mutual in both phases that read them.
LEMMA PairsMutualHolds == Inv => PairsMutual
  BY DEF Inv, BuildInv, PairingInv, MergingInv, PairsMutual

\* With an empty stack nothing is left that could block.
LEMMA PairingStableHolds == Inv => PairingStable
<1> SUFFICES ASSUME Inv, phase = "pairing", stack = <<>>, NEW p \in Active, NEW q \in Active
             PROVE  adj[p][q] <= PairWeight(p) \/ adj[p][q] <= PairWeight(q)
  BY DEF PairingStable, PairWeight, Active
<1>1. TypeOK /\ PairingInv
  BY DEF Inv, BuildInv
<1>2. p \in Part /\ q \in Part
  BY <1>1, ActiveElements DEF TypeOK
<1>3. ~ Blocking(p, q)
  <2>1. ToSet(stack) = {}
    BY DEF ToSet
  <2> QED
    BY <1>1, <1>2, <2>1 DEF PairingInv
<1>4. adj[p][q] \in Nat /\ PairWeight(p) \in Nat /\ PairWeight(q) \in Nat
  BY <1>1, <1>2 DEF TypeOK, PairWeight
<1> QED
  BY <1>3, <1>4 DEF Blocking

\* What is between a node and the children that split it.
LEMMA ChildrenOfSplit ==
  ASSUME Inv, RootsInv, NEW n \in nodes, NEW l \in nodes, NEW r \in nodes, SplitInto(n, l, r)
  PROVE  LET kids == {c \in nodes : c # n /\ c \subseteq n
                        /\ ~ \E m \in nodes : m \notin {c, n} /\ c \subseteq m /\ m \subseteq n}
         IN  Cardinality(kids) = 2 /\ UNION kids = n
<1> DEFINE kids == {c \in nodes : c # n /\ c \subseteq n
                      /\ ~ \E m \in nodes : m \notin {c, n} /\ c \subseteq m /\ m \subseteq n}
<1>1. /\ l \cap r = {} /\ l \cup r = n
      /\ \A m \in nodes : m \subseteq n => m = n \/ m \subseteq l \/ m \subseteq r
  BY DEF SplitInto
<1>2. l # {} /\ r # {}
  BY DEF RootsInv
<1>3. l # r /\ l # n /\ r # n /\ l \subseteq n /\ r \subseteq n
  BY <1>1, <1>2
<1>4. \A c \in kids : c = l \/ c = r
  <2> SUFFICES ASSUME NEW c \in nodes, c # n, c \subseteq n,
                      \A m \in nodes : c \subseteq m /\ m \subseteq n => m = c \/ m = n
               PROVE  c = l \/ c = r
    OBVIOUS
  <2>1. c \subseteq l \/ c \subseteq r
    BY <1>1
  <2> QED
    BY <1>3, <2>1
<1>5. l \in kids
  <2>1. ASSUME NEW m \in nodes, l \subseteq m, m \subseteq n
        PROVE  m = l \/ m = n
    <3>1. CASE m \subseteq l
      BY <2>1, <3>1
    <3>2. CASE m \subseteq r
      BY <1>1, <1>2, <2>1, <3>2
    <3> QED
      BY <1>1, <2>1, <3>1, <3>2
  <2> QED
    BY <1>3, <2>1
<1>6. r \in kids
  <2>1. ASSUME NEW m \in nodes, r \subseteq m, m \subseteq n
        PROVE  m = r \/ m = n
    <3>1. CASE m \subseteq r
      BY <2>1, <3>1
    <3>2. CASE m \subseteq l
      BY <1>1, <1>2, <2>1, <3>2
    <3> QED
      BY <1>1, <2>1, <3>1, <3>2
  <2> QED
    BY <1>3, <2>1
<1>7. kids = {l, r}
  <2> HIDE DEF kids
  <2> QED
    BY <1>4, <1>5, <1>6
<1> HIDE DEF kids
<1>8. Cardinality({l, r}) = 2
  <2>1. IsFiniteSet({l}) /\ Cardinality({l}) = 1
    BY FS_Singleton
  <2>2. {l, r} = {l} \cup {r} /\ r \notin {l}
    BY <1>3
  <2>3. Cardinality({l} \cup {r}) = Cardinality({l}) + 1
    BY <2>1, <2>2, FS_AddElement
  <2> QED
    BY <2>1, <2>2, <2>3
<1>9. UNION {l, r} = n
  BY <1>1
<1>10. Cardinality(kids) = 2 /\ UNION kids = n
  BY <1>7, <1>8, <1>9
<1> QED
  BY <1>10 DEF kids

\* With one root the forest is a tree.
LEMMA IsGuideTreeHolds == Inv => IsGuideTree
<1> SUFFICES ASSUME Inv, phase = "done", nPartitions > 1
             PROVE  IsGuideTree
  BY DEF IsGuideTree
<1>1. /\ TypeOK /\ RootsInv /\ ForestInv
      /\ Len(active) <= 1 /\ \A p \in Part : pairs[p] = NoPair
  BY DEF Inv, BuildInv
<1>2. WithSofts # {} => WithSofts \in nodes
  <2> SUFFICES ASSUME NEW p \in WithSofts
               PROVE  WithSofts \in nodes
    OBVIOUS
  <2>1. PICK root \in Live : p \in tree[root]
    BY <1>1 DEF RootsInv
  <2>2. \A q \in Live : q = root
    <3>1. Len(active) \in Nat /\ DOMAIN active = 1 .. Len(active)
      BY <1>1, LenProperties DEF TypeOK
    <3>2. \A q, r \in Active : q = r
      BY <1>1, <3>1 DEF Active, ToSet
    <3> QED
      BY <3>2 DEF Live
  <2>3. tree[root] \subseteq WithSofts
    BY <1>1 DEF RootsInv
  <2>4. \A x \in WithSofts : x \in tree[root]
    BY <1>1, <2>2 DEF RootsInv
  <2>5. WithSofts = tree[root]
    BY <2>3, <2>4
  <2> QED
    BY <1>1, <2>5 DEF RootsInv
<1>3. UNION leaves = WithSofts /\ \A m, n \in leaves : m # n => m \cap n = {}
  BY <1>1 DEF RootsInv, ForestInv
<1>4. ASSUME NEW n \in nodes, n \in leaves
      PROVE  {c \in nodes : c # n /\ c \subseteq n
                /\ ~ \E m \in nodes : m \notin {c, n} /\ c \subseteq m /\ m \subseteq n} = {}
  BY <1>1, <1>4 DEF ForestInv
<1>5. ASSUME NEW n \in nodes, n \notin leaves
      PROVE  LET kids == {c \in nodes : c # n /\ c \subseteq n
                            /\ ~ \E m \in nodes : m \notin {c, n} /\ c \subseteq m
                                                    /\ m \subseteq n}
             IN  Cardinality(kids) = 2 /\ UNION kids = n
  <2>1. PICK l \in nodes, r \in nodes : SplitInto(n, l, r)
    BY <1>1, <1>5 DEF ForestInv
  <2> QED
    BY <1>1, <2>1, ChildrenOfSplit
<1> QED
  BY <1>2, <1>3, <1>4, <1>5 DEF IsGuideTree

\* For any partitioned formula: the guide tree is one binary tree over all partitions with
\* soft clauses, pairs are mutual (assertion at Alg_PartMSU3.cc:296), and the pairing of a
\* round is stable (Alg_PartMSU3.cc:106-385).
THEOREM GuideTreeBuilt == Spec => []GuideTreeHolds
<1>1. Inv => GuideTreeHolds
  BY EdgesJoinActiveHolds, NothingLostHolds, IsGuideTreeHolds, PairsMutualHolds,
     PairingStableHolds DEF GuideTreeHolds
<1> QED
  BY <1>1, InitEstablishes, StepKeeps, PTL DEF Spec
=============================================================================
