------------------------------ MODULE PartMSU3 ------------------------------
(***************************************************************************)
(* The search Main.cc runs: PartMSU3::PartMSU3_binary of                   *)
(* src/src/algorithms/Alg_PartMSU3.cc.  The soft clauses are split into    *)
(* partitions, the leaves of a guide tree.  Each tree node is solved under *)
(* "at most lb of my relaxed soft clauses are falsified, none of the other *)
(* ones"; a core raises its bound, a model merges it with its sibling.     *)
(*                                                                         *)
(* An assignment of the hard clauses is the set of soft clauses it         *)
(* falsifies, and `feasible' the set of these sets: one SAT call answers   *)
(* with any of them that meets the assumptions, or with any core.  A       *)
(* cardinality encoding is the set of literals it counts and the bound its *)
(* assumptions state (module Totalizer is about how it is encoded).        *)
(***************************************************************************)
EXTENDS Naturals, FiniteSets, Sequences

CONSTANTS
  Soft,       \* indices of the soft clauses
  Node,       \* nodes of the guide tree
  NULL,       \* the null pointer
  Parent,     \* Parent[n]: the parent of n, NULL for the root
  SoftOf,     \* SoftOf[n]: soft clauses of the partitions of n
  Instances   \* the formulas: families of falsified sets

Children(n) == {c \in Node : Parent[c] = n}

Leaf == {n \in Node : Children(n) = {}}

\* Operators named ...Wrongly are what a plausible bug would make of the
\* definition that follows each of them; no action uses them.

\* An encoder, with the literals its cardinality encoding counts (none until
\* `card') and the right-hand side of its encoding assumptions.
Encoder == [card : BOOLEAN, lits : SUBSET Soft, rhs : Nat]

\* What computeGuideTree guarantees: a binary tree whose leaves are disjoint.
ASSUME TreeAssumption ==
  /\ IsFiniteSet(Node)
  /\ NULL \notin Node
  /\ NULL \notin Encoder
  /\ \A F \in SUBSET Soft : F # NULL
  /\ Parent \in [Node -> Node \cup {NULL}]
  /\ SoftOf \in [Node -> SUBSET Soft]
  /\ \A m, n \in Leaf : m # n => SoftOf[m] \cap SoftOf[n] = {}
  /\ \A n \in Node \ Leaf :
       \E l, r \in Node : /\ l # r
                          /\ Children(n) = {l, r}
                          /\ SoftOf[n] = SoftOf[l] \cup SoftOf[r]

\* One root, to which every node leads: no set of nodes holds the parents of all
\* its members.
ASSUME RootAssumption ==
  /\ \A m, n \in Node : Parent[m] = NULL /\ Parent[n] = NULL => m = n
  /\ \A S \in SUBSET Node : S # {} => \E n \in S : Parent[n] \notin S

\* A soft clause outside every partition is decided by the hard clauses alone
\* (MaxSAT_Partition maps it to -1), so all models agree on it.
ASSUME InstanceAssumption ==
  /\ IsFiniteSet(Soft)
  /\ Instances \subseteq SUBSET SUBSET Soft
  /\ \A I \in Instances : \A F, G \in I : \A n \in Node :
       Parent[n] = NULL => F \ SoftOf[n] = G \ SoftOf[n]

VARIABLES
  feasible,       \* the models of the hard clauses; never changes
  nodes,          \* tree nodes not deleted yet
  guideTree,      \* guide_tree, the deque of nodes to solve
  currentNode,    \* current_node
  lb,             \* lower bound of each node
  encoder,        \* encoder and encoding assumptions of each node, or NULL
  activeSoft,     \* the relaxed soft clauses
  assumptions,    \* assumptions of the next SAT call
  lbCost, ubCost, \* the global bounds
  nbSatisfiable,  \* number of satisfiable SAT calls
  model,          \* the saved model, or NULL
  status          \* "searching", "OPTIMUM", "UNSATISFIABLE" or "undefined"

tree   == <<nodes, guideTree, currentNode, lb, encoder>>
bounds == <<lbCost, ubCost, nbSatisfiable, model>>
vars   == <<feasible, tree, activeSoft, assumptions, bounds, status>>

-----------------------------------------------------------------------------
NewEncoder == [card |-> FALSE, lits |-> {}, rhs |-> 0]

Encode(lits, k) == [card |-> TRUE, lits |-> lits, rhs |-> k]

\* The assumptions under which node n is solved.
AssumptionsFor(n, enc, active) ==
  [soft |-> SoftOf[n] \ active, lits |-> enc.lits, rhs |-> enc.rhs]

NoAssumptions == [soft |-> {}, lits |-> {}, rhs |-> 0]

\* A model of the hard clauses the SAT solver may return under assumptions a.
Satisfies(F, a) ==
  /\ F \cap a.soft = {}
  /\ Cardinality(F \cap a.lits) <= a.rhs

\* A conflict the SAT solver may return: assumed soft clauses C and, if k,
\* some outputs of the cardinality encoding.
IsConflict(C, k) ==
  /\ C \subseteq assumptions.soft
  /\ \A F \in feasible :
       \/ F \cap C # {}
       \/ k /\ Cardinality(F \cap assumptions.lits) > assumptions.rhs

\* ubCost is 0 before the first model, which must be saved all the same.
SaveModelWrongly(F) ==
  /\ nbSatisfiable' = nbSatisfiable + 1
  /\ IF Cardinality(F) < ubCost
       THEN model' = F /\ ubCost' = Cardinality(F)
       ELSE UNCHANGED <<model, ubCost>>
  /\ UNCHANGED lbCost

\* The last model replaces a cheaper one.
SaveLastModelWrongly(F) ==
  /\ nbSatisfiable' = nbSatisfiable + 1
  /\ model' = F
  /\ ubCost' = Cardinality(F)
  /\ UNCHANGED lbCost

\* A first model, or a cheaper one, is saved.
SaveModel(F) ==
  /\ nbSatisfiable' = nbSatisfiable + 1
  /\ IF nbSatisfiable = 0 \/ Cardinality(F) < ubCost
       THEN model' = F /\ ubCost' = Cardinality(F)
       ELSE UNCHANGED <<model, ubCost>>
  /\ UNCHANGED lbCost

\* current_node = guide_tree.front(); guide_tree.pop_front(), which is
\* undefined when the deque is empty.
NextPartition(queue, enc) ==
  IF queue = <<>>
    THEN /\ status' = "undefined"
         /\ guideTree' = queue
         /\ UNCHANGED <<currentNode, assumptions>>
    ELSE /\ currentNode' = Head(queue)
         /\ guideTree' = Tail(queue)
         /\ assumptions' =
              AssumptionsFor(Head(queue), enc[Head(queue)], activeSoft)
         /\ UNCHANGED status

\* The bounds are added after the encodings were joined.
MergedEncoderWrongly(p, c) ==
  IF encoder[p].card
    THEN Encode(encoder[p].lits \cup (SoftOf[c] \cap activeSoft), lb[p])
    ELSE encoder[c]

\* The encoder of p after its second child c is merged into it: the two
\* encodings are added, or the relaxed soft clauses of the side that has no
\* encoding join the other one.
MergedEncoder(p, c) ==
  LET k        == lb[p] + lb[c]
      sibling  == UNION {SoftOf[s] : s \in Children(p) \ {c}}
      Join(e, S) == IF S \cap activeSoft = {}
                      THEN e
                      ELSE Encode(e.lits \cup (S \cap activeSoft), k)
  IN  IF encoder[p].card /\ encoder[c].card
        THEN Encode(encoder[p].lits \cup encoder[c].lits, k)
      ELSE IF encoder[c].card THEN Join(encoder[c], sibling)
      ELSE IF encoder[p].card THEN Join(encoder[p], SoftOf[c])
      ELSE encoder[p]

\* The encoder of node n after a core raised its bound to k and relaxed C.
\* No encoding is needed while every relaxed soft clause may be falsified.
TightenedEncoder(n, C, k) ==
  LET relaxed == SoftOf[n] \cap (activeSoft \cup C)
  IN  IF encoder[n].card THEN Encode(encoder[n].lits \cup C, k)
      ELSE IF k # Cardinality(relaxed) THEN Encode(relaxed, k)
      ELSE encoder[n]

-----------------------------------------------------------------------------
NoRepetition(q) == \A i, j \in DOMAIN q : q[i] = q[j] => i = j

\* The pointers of the inner nodes are left uninitialized.
FirstEncodersWrongly == [n \in Leaf |-> NewEncoder]

FirstEncoders == [n \in Node |-> IF n \in Leaf THEN NewEncoder ELSE NULL]

\* The deque starts with the leaves, in the order of their partitions.
Init ==
  /\ feasible \in Instances
  /\ nodes = Node
  /\ guideTree \in {q \in [1 .. Cardinality(Leaf) -> Leaf] : NoRepetition(q)}
  /\ currentNode = NULL
  /\ lb = [n \in Node |-> 0]
  /\ encoder = FirstEncoders
  /\ activeSoft = {}
  /\ assumptions = NoAssumptions
  /\ lbCost = 0
  /\ ubCost = 0
  /\ nbSatisfiable = 0
  /\ model = NULL
  /\ status = "searching"

\* The SAT solver answers l_True with the model F.
Sat(F) ==
  /\ status = "searching"
  /\ Satisfies(F, assumptions)
  /\ SaveModel(F)
  /\ UNCHANGED <<feasible, activeSoft>>

\* The first call assumes nothing; the first leaf comes next.
FirstModel(F) ==
  /\ nbSatisfiable = 0
  /\ Sat(F)
  /\ NextPartition(guideTree, encoder)
  /\ UNCHANGED <<nodes, lb, encoder>>

\* Node c is solved, its sibling is not: the parent takes its encoder.
HandToParent(F) ==
  LET c == currentNode
      p == Parent[c]
  IN  /\ nbSatisfiable > 0
      /\ p # NULL
      /\ encoder[p] = NULL
      /\ Sat(F)
      /\ encoder' = [encoder EXCEPT ![p] = encoder[c], ![c] = NULL]
      /\ lb' = [lb EXCEPT ![p] = @ + lb[c]]
      /\ nodes' = nodes \ {c}
      /\ NextPartition(guideTree, encoder')

\* The merged parent is not queued.
MergeIntoParentWrongly(F) ==
  LET c == currentNode
      p == Parent[c]
  IN  /\ nbSatisfiable > 0
      /\ p # NULL
      /\ encoder[p] # NULL
      /\ Sat(F)
      /\ encoder' = [encoder EXCEPT ![p] = MergedEncoder(p, c), ![c] = NULL]
      /\ lb' = [lb EXCEPT ![p] = @ + lb[c]]
      /\ nodes' = nodes \ {c}
      /\ NextPartition(guideTree, encoder')

\* Node c and its sibling are solved: the parent is queued with the merged
\* encoder.
MergeIntoParent(F) ==
  LET c == currentNode
      p == Parent[c]
  IN  /\ nbSatisfiable > 0
      /\ p # NULL
      /\ encoder[p] # NULL
      /\ Sat(F)
      /\ encoder' = [encoder EXCEPT ![p] = MergedEncoder(p, c), ![c] = NULL]
      /\ lb' = [lb EXCEPT ![p] = @ + lb[c]]
      /\ nodes' = nodes \ {c}
      /\ NextPartition(Append(guideTree, p), encoder')

\* The root is solved: its model is optimal.
RootSolved(F) ==
  /\ nbSatisfiable > 0
  /\ Parent[currentNode] = NULL
  /\ Sat(F)
  /\ status' = "OPTIMUM"
  /\ UNCHANGED <<tree, assumptions>>

\* The SAT solver answers l_False before any model, or with no assumption in
\* the conflict.
HardUnsatisfiable ==
  /\ status = "searching"
  /\ IF nbSatisfiable = 0
       THEN ~ \E F \in feasible : Satisfies(F, assumptions)
       ELSE IsConflict({}, FALSE)
  /\ status' = "UNSATISFIABLE"
  /\ UNCHANGED <<feasible, tree, activeSoft, assumptions, bounds>>

\* A core without soft clauses is ignored: the node is tried again unchanged.
CoreWrongly(C, k) ==
  /\ status = "searching"
  /\ nbSatisfiable > 0
  /\ C # {}
  /\ IsConflict(C, k)
  /\ lb' = [lb EXCEPT ![currentNode] = @ + 1]
  /\ lbCost' = lbCost + 1
  /\ UNCHANGED <<feasible, nodes, guideTree, currentNode, ubCost,
                 nbSatisfiable, model>>

\* The SAT solver answers l_False with conflict (C, k): both bounds rise.
Core(C, k) ==
  /\ status = "searching"
  /\ nbSatisfiable > 0
  /\ C # {} \/ k
  /\ IsConflict(C, k)
  /\ lb' = [lb EXCEPT ![currentNode] = @ + 1]
  /\ lbCost' = lbCost + 1
  /\ UNCHANGED <<feasible, nodes, guideTree, currentNode, ubCost,
                 nbSatisfiable, model>>

\* The lower bound met the cost of the saved model.
BoundsMeet(C, k) ==
  /\ Core(C, k)
  /\ lbCost + 1 = ubCost
  /\ status' = "OPTIMUM"
  /\ UNCHANGED <<encoder, activeSoft, assumptions>>

\* The soft clauses of the core are relaxed and counted.
RelaxCore(C, k) ==
  LET n   == currentNode
      enc == TightenedEncoder(n, C, lb[n] + 1)
  IN  /\ Core(C, k)
      /\ lbCost + 1 # ubCost
      /\ activeSoft' = activeSoft \cup C
      /\ encoder' = [encoder EXCEPT ![n] = enc]
      /\ assumptions' = AssumptionsFor(n, enc, activeSoft')
      /\ UNCHANGED status

Next ==
  \/ \E F \in feasible :
       \/ FirstModel(F)
       \/ HandToParent(F)
       \/ MergeIntoParent(F)
       \/ RootSolved(F)
  \/ HardUnsatisfiable
  \/ \E C \in SUBSET assumptions.soft, k \in BOOLEAN :
       \/ BoundsMeet(C, k)
       \/ RelaxCore(C, k)

Spec == Init /\ [][Next]_vars

\* The search loop runs until it answers: each SAT call ends and is handled.
FairSpec == Spec /\ WF_vars(Next)

-----------------------------------------------------------------------------
(***************************************************************************)
(* Properties.                                                             *)
(***************************************************************************)
TypeOK ==
  /\ feasible \subseteq SUBSET Soft
  /\ nodes \subseteq Node
  /\ guideTree \in Seq(Node)
  /\ currentNode \in Node \cup {NULL}
  /\ lb \in [Node -> Nat]
  /\ encoder \in [Node -> Encoder \cup {NULL}]
  /\ activeSoft \subseteq Soft
  /\ assumptions \in [soft : SUBSET Soft, lits : SUBSET Soft, rhs : Nat]
  /\ lbCost \in Nat
  /\ ubCost \in Nat
  /\ nbSatisfiable \in Nat
  /\ model \in {NULL} \cup SUBSET Soft
  /\ status \in {"searching", "OPTIMUM", "UNSATISFIABLE", "undefined"}

\* The nodes that own an encoder, and the soft clauses each one is solved
\* for: an inner node answers for its deleted children.
Owner == {n \in Node : encoder[n] # NULL}

Covered(n) ==
  IF n \in Leaf THEN SoftOf[n]
                ELSE UNION {SoftOf[c] : c \in Children(n) \ nodes}

Ready(n) == n \in nodes /\ Children(n) \cap nodes = {}

Elements(q) == {q[i] : i \in DOMAIN q}

\* The deque holds no deleted node, no node twice, and only nodes both of
\* whose children are solved; the current node has left it.
QueueInv ==
  /\ \A n \in Elements(guideTree) : Ready(n) /\ n \in Owner
  /\ NoRepetition(guideTree)
  /\ nbSatisfiable > 0 /\ status # "undefined" =>
       /\ currentNode \in Node
       /\ Ready(currentNode)
       /\ currentNode \in Owner
       /\ currentNode \notin Elements(guideTree)

\* A node outlives its children and owns an encoder once one of them is
\* solved; two owners count disjoint soft clauses.
OwnerInv ==
  /\ \A n \in nodes : Parent[n] # NULL => Parent[n] \in nodes
  /\ Owner \subseteq nodes
  /\ \A n \in nodes \ Owner : lb[n] = 0
  /\ \A n \in nodes \ Leaf : n \in Owner <=> Children(n) \ nodes # {}
  /\ \A m, n \in Owner : m # n => Covered(m) \cap Covered(n) = {}

\* The encoding of a node counts exactly its relaxed soft clauses, up to its
\* lower bound; without encoding all of them may be falsified.  Both merge
\* branches and both core branches of PartMSU3_binary must keep this.
EncoderInSync(n) ==
  LET e       == encoder[n]
      relaxed == activeSoft \cap Covered(n)
  IN  IF e.card THEN e.lits = relaxed /\ e.rhs = lb[n]
                ELSE e = NewEncoder /\ lb[n] = Cardinality(relaxed)

EncodersInSync == status = "searching" => \A n \in Owner : EncoderInSync(n)

\* The next SAT call assumes what the current node states.  A SAT call never
\* assumes a relaxed soft clause (the assertion at Alg_PartMSU3.cc:864).
AssumptionsInSync ==
  status = "searching" =>
    assumptions = IF nbSatisfiable = 0
                    THEN NoAssumptions
                    ELSE AssumptionsFor(currentNode, encoder[currentNode],
                                        activeSoft)

\* Every model falsifies lbCost relaxed soft clauses of which lb[n] belong to
\* each node n: the bounds of the nodes never count a soft clause twice.
IsWitness(W) ==
  /\ Cardinality(W) = lbCost
  /\ \A n \in Owner : Cardinality(W \cap Covered(n)) = lb[n]

BoundsWitnessed ==
  status = "searching" =>
    \A F \in feasible : \E W \in SUBSET (F \cap activeSoft) : IsWitness(W)

\* The saved model is a model of the hard clauses and ubCost its cost.
ModelInv ==
  nbSatisfiable > 0 => model \in feasible /\ ubCost = Cardinality(model)

\* The lower bound never exceeds the cost of a model.
LowerBoundSound == \A F \in feasible : lbCost <= Cardinality(F)

\* The model shown with OPTIMUM has minimum cost, although only the last node
\* of the tree was solved for all partitions at once.
OptimumIsOptimal ==
  status = "OPTIMUM" =>
    model \in feasible /\ \A F \in feasible : Cardinality(model) <= Cardinality(F)

\* UNSATISFIABLE is answered only when the hard clauses have no model, in
\* particular never once a model is saved.
UnsatIsInfeasible == status = "UNSATISFIABLE" => feasible = {}

\* While a node has a parent there is a next node to solve, so front() is
\* never called on an empty deque; at the root the deque is empty (the
\* assertion at Alg_PartMSU3.cc:833).
GuideTreeOrder ==
  /\ status # "undefined"
  /\ status = "searching" /\ nbSatisfiable > 0 =>
       (Parent[currentNode] = NULL => guideTree = <<>>)

\* Inductive invariant of the safety proofs.
SafetyInv ==
  /\ QueueInv
  /\ OwnerInv
  /\ EncodersInSync
  /\ AssumptionsInSync
  /\ BoundsWitnessed
  /\ ModelInv

\* The search always answers.
Termination == <>(status # "searching")

Promise == INSTANCE MaxSATSearch WITH
  NoModel <- NULL, best <- model, lower <- lbCost, answer <- status

\* The algorithm implements the promise of MaxSAT::search.
ImplementsSearch == Promise!Spec

-----------------------------------------------------------------------------
(***************************************************************************)
(* A guide tree and formulas for TLC.                                      *)
(***************************************************************************)
\* ((a, b), (c, d)): a and b are merged while c and d wait, or the other way
\* round, and two inner nodes meet at the root.  Soft clause 6 is in no partition.
TreeSoft   == 1 .. 6
TreeNode   == {"a", "b", "c", "d", "ab", "cd", "root"}
TreeParent == [n \in TreeNode |->
                 IF n \in {"a", "b"} THEN "ab"
                 ELSE IF n \in {"c", "d"} THEN "cd"
                 ELSE IF n \in {"ab", "cd"} THEN "root" ELSE NULL]
TreeSoftOf == [n \in TreeNode |->
                 CASE n = "a"    -> {1, 2}
                   [] n = "b"    -> {3}
                   [] n = "c"    -> {4}
                   [] n = "d"    -> {5}
                   [] n = "ab"   -> {1, 2, 3}
                   [] n = "cd"   -> {4, 5}
                   [] n = "root" -> 1 .. 5]

\* No model, one or two, or all that falsify n soft clauses of the tree; the soft
\* clause outside is falsified by all models or by none.
TreeInstances ==
  {{}} \cup {{F \cup X, G \cup X} : F, G \in SUBSET (1 .. 5), X \in SUBSET {6}}
       \cup {{F \in SUBSET (1 .. 5) : Cardinality(F) = n} : n \in 0 .. 5}
=============================================================================
