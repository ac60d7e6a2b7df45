--------------------------- MODULE SortPartitions --------------------------
(***************************************************************************)
(* PartMSU3::sortPartitions of src/src/algorithms/Alg_PartMSU3.cc: the     *)
(* order in which the sequential search takes the partitions in.  It       *)
(* starts from the partition with the highest rank, follows the heaviest   *)
(* edges, and starts anew when they end; partitions with one soft clause   *)
(* come last.                                                              *)
(*                                                                         *)
(* The graph of partitions is the last graph of the community search: a    *)
(* partition is adjacent to itself when it has edges inside.               *)
(***************************************************************************)
EXTENDS Integers, FiniteSetsExt, SequencesExt

CONSTANTS
  Parts,    \* the partitions, 0 .. nPartitions() - 1
  Shapes,   \* the records [soft, rank] a partition may have
  Graphs    \* the weights: symmetric functions on Parts \X Parts; 0 is no edge

VARIABLES
  shape,      \* nPartitionSoft and the rank of each partition; never changes
  edge,       \* adjacentPartitionWeights; never changes
  hasGraph,   \* whether the community search ran: not when the graph was too large
  weights,    \* weight of the edges to the partitions sorted before; -1: sorted
  best_part, old_best_part,
  best_max,
  out_parts,
  unit_parts,
  status      \* "sorting", "sorted" or "undefined"

vars == <<shape, edge, hasGraph, weights, best_part, old_best_part, best_max, out_parts,
          unit_parts, status>>

-----------------------------------------------------------------------------
Soft(p) == shape[p].soft

\* The candidates of a new start: not sorted yet, with soft clauses.
Candidates == {p \in Parts : weights[p] >= 0 /\ Soft(p) > 0}

\* The first of those with the highest rank.
HighestRank ==
  LET ranks == {shape[p].rank : p \in Candidates}
  IN  Min({p \in Candidates : shape[p].rank = Max(ranks)})

\* The heaviest edge of p to a partition that is not sorted.  At this point p
\* itself counts as not sorted.
Heaviest(p) == Max({0} \cup {edge[<<p, q>>] : q \in {q \in Parts : weights[q] >= 0}})

Updated(w, p) == [q \in Parts |-> IF w[q] >= 0 THEN w[q] + edge[<<p, q>>] ELSE w[q]]

\* The first partition with the greatest weight; p when all are sorted.
SelectNext(w, p) ==
  IF \A q \in Parts : w[q] <= w[p] THEN p
  ELSE Min({q \in Parts : w[q] = Max({w[r] : r \in Parts})})

\* The chosen partition p is output, unless it is the previous one again.
Output(p) ==
  /\ out_parts' = IF p # best_part /\ Soft(p) > 1 THEN Append(out_parts, p) ELSE out_parts
  /\ unit_parts' = IF p # best_part /\ Soft(p) = 1 THEN Append(unit_parts, p) ELSE unit_parts

Init ==
  /\ shape \in [Parts -> Shapes]
  /\ edge \in Graphs
  /\ hasGraph \in IF Cardinality(Parts) = 1 THEN BOOLEAN ELSE {TRUE}
  /\ weights = [p \in Parts |-> 0]
  /\ best_part = -1
  /\ old_best_part = -2
  /\ best_max = 0
  /\ out_parts = <<>>
  /\ unit_parts = <<>>
  /\ status = "sorting"

\* One turn with best_max = 0: start anew from the partition of highest rank.
StartAnew ==
  LET p == IF Candidates = {} THEN best_part ELSE HighestRank
  IN  /\ best_max = 0
      /\ p # -1
      /\ hasGraph
      /\ best_part' = p
      /\ old_best_part' = best_part
      /\ best_max' = IF Candidates = {} THEN best_max ELSE Heaviest(p)
      /\ Output(p)
      /\ weights' = [weights EXCEPT ![p] = -1]
      /\ UNCHANGED status

\* One turn with best_max # 0: follow the edges of the last partition.
FollowEdges ==
  LET w == Updated(weights, best_part)
      p == SelectNext(w, best_part)
  IN  /\ best_max # 0
      /\ best_part' = p
      /\ old_best_part' = best_part
      /\ best_max' = w[p]
      /\ Output(p)
      /\ weights' = [w EXCEPT ![p] = -1]
      /\ UNCHANGED status

\* No partition has a soft clause, so that arrays are read and written at index
\* -1, or there is no graph whose edges could be looked at.
LeaveArrays ==
  /\ best_max = 0
  /\ best_part = -1
  /\ hasGraph => Candidates = {}
  /\ status' = "undefined"
  /\ UNCHANGED <<weights, best_part, old_best_part, best_max, out_parts, unit_parts>>

\* The units come last.
AppendUnits ==
  /\ out_parts' = out_parts \o unit_parts
  /\ status' = "sorted"
  /\ UNCHANGED <<weights, best_part, old_best_part, best_max, unit_parts>>

Next ==
  /\ status = "sorting"
  /\ IF old_best_part # best_part THEN StartAnew \/ FollowEdges \/ LeaveArrays
                                  ELSE AppendUnits
  /\ UNCHANGED <<shape, edge, hasGraph>>

Spec == Init /\ [][Next]_vars

-----------------------------------------------------------------------------
\* The order holds every partition with soft clauses once, and units last
\* (Alg_PartMSU3.cc:389-392 and 465): the search would end early without them,
\* and PartMSU3_sequential takes one clause of every partition from the first
\* unit on.
EveryPartitionOnce ==
  status = "sorted" =>
    /\ IsInjective(out_parts)
    /\ ToSet(out_parts) = {p \in Parts : Soft(p) > 0}
    /\ \A i, j \in DOMAIN out_parts : i < j /\ Soft(out_parts[i]) = 1 => Soft(out_parts[j]) = 1

\* The arrays are not left as long as some partition has a soft clause.
StaysInside == status = "undefined" => ~ hasGraph \/ \A p \in Parts : Soft(p) = 0

\* While it follows edges, no partition left is bound more tightly to those it
\* followed than the one it takes (Alg_PartMSU3.cc:437-451).
TakesHeaviest ==
  best_max # 0 /\ best_part' # best_part => \A q \in Parts : weights'[q] <= best_max'
=============================================================================
