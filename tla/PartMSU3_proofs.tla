--------------------------- MODULE PartMSU3_proofs ---------------------------
(***************************************************************************)
(* Safety of PartMSU3 for every guide tree, every set of soft clauses and  *)
(* every formula: the bounds of the nodes add up without counting a soft   *)
(* clause twice, and the answers are right.                                *)
(***************************************************************************)
EXTENDS PartMSU3, FiniteSetTheorems, TLAPS

-----------------------------------------------------------------------------
(***************************************************************************)
(* Finite sets of soft clauses and sequences.                              *)
(***************************************************************************)

\* Sets of soft clauses have natural cardinalities, monotone in the set.
LEMMA SoftCardinality ==
  ASSUME NEW S \in SUBSET Soft
  PROVE  /\ IsFiniteSet(S)
         /\ Cardinality(S) \in Nat
         /\ \A T \in SUBSET S : Cardinality(T) <= Cardinality(S)
         /\ \A T \in SUBSET S : Cardinality(S) = Cardinality(T) => S = T
<1>1. IsFiniteSet(Soft)
  BY InstanceAssumption
<1>2. IsFiniteSet(S)
  BY <1>1, FS_Subset
<1>3. Cardinality(S) \in Nat
  BY <1>2, FS_CardinalityType
<1>4. \A T \in SUBSET S : Cardinality(T) <= Cardinality(S)
  BY <1>2, FS_Subset
<1>5. \A T \in SUBSET S : Cardinality(S) = Cardinality(T) => S = T
  BY <1>2, FS_Subset
<1> QED
  BY <1>2, <1>3, <1>4, <1>5

LEMMA EmptyCardinality == Cardinality({}) = 0
  BY FS_EmptySet

\* Only the empty set has no element to count.
LEMMA ZeroCardinality ==
  ASSUME NEW S \in SUBSET Soft, Cardinality(S) = 0
  PROVE  S = {}
  BY SoftCardinality, FS_EmptySet

LEMMA AddCardinality ==
  ASSUME NEW S \in SUBSET Soft, NEW x \in Soft \ S
  PROVE  Cardinality(S \cup {x}) = Cardinality(S) + 1
  BY SoftCardinality, FS_AddElement

LEMMA DisjointCardinality ==
  ASSUME NEW S \in SUBSET Soft, NEW T \in SUBSET Soft, S \cap T = {}
  PROVE  Cardinality(S \cup T) = Cardinality(S) + Cardinality(T)
<1>1. IsFiniteSet(S) /\ IsFiniteSet(T)
  BY SoftCardinality
<1>2. Cardinality(S) \in Nat /\ Cardinality(T) \in Nat
  BY SoftCardinality
<1>3. Cardinality(S \cup T)
        = Cardinality(S) + Cardinality(T) - Cardinality(S \cap T)
  BY <1>1, FS_Union
<1>4. Cardinality(S \cap T) = 0
  BY EmptyCardinality
<1> QED
  BY <1>2, <1>3, <1>4

\* Taking the front of a deque without repetition.
LEMMA PopFront ==
  ASSUME NEW q \in Seq(Node), q # <<>>, NoRepetition(q)
  PROVE  /\ Head(q) \in Elements(q)
         /\ Head(q) \in Node
         /\ Tail(q) \in Seq(Node)
         /\ Elements(Tail(q)) \subseteq Elements(q)
         /\ Head(q) \notin Elements(Tail(q))
         /\ NoRepetition(Tail(q))
<1>1. Len(q) \in Nat \ {0} /\ DOMAIN q = 1 .. Len(q)
  OBVIOUS
<1>2. Head(q) = q[1] /\ 1 \in DOMAIN q
  BY <1>1
<1>3. Tail(q) \in Seq(Node) /\ Len(Tail(q)) = Len(q) - 1
  BY <1>1
<1>4. \A i \in DOMAIN Tail(q) : i + 1 \in DOMAIN q /\ Tail(q)[i] = q[i + 1]
  BY <1>1, <1>3
<1>5. Elements(Tail(q)) \subseteq Elements(q)
  BY <1>4 DEF Elements
<1>6. Head(q) \notin Elements(Tail(q))
  <2>1. ASSUME NEW i \in DOMAIN Tail(q)
        PROVE  Tail(q)[i] # Head(q)
    <3>1. i \in Nat \ {0}
      BY <1>3, <2>1
    <3> QED
      BY <1>2, <1>4, <3>1 DEF NoRepetition
  <2> QED
    BY <2>1 DEF Elements
<1>7. NoRepetition(Tail(q))
  <2>1. ASSUME NEW i \in DOMAIN Tail(q), NEW j \in DOMAIN Tail(q),
               Tail(q)[i] = Tail(q)[j]
        PROVE  i = j
    <3>1. i \in Nat /\ j \in Nat
      BY <1>3, <2>1
    <3>2. i + 1 = j + 1
      BY <1>4, <2>1 DEF NoRepetition
    <3> QED
      BY <3>1, <3>2
  <2> QED
    BY <2>1 DEF NoRepetition
<1> QED
  BY <1>2, <1>3, <1>5, <1>6, <1>7 DEF Elements

\* Queueing a node that is not queued yet.
LEMMA PushBack ==
  ASSUME NEW q \in Seq(Node), NEW p \in Node, NoRepetition(q),
         p \notin Elements(q)
  PROVE  /\ Append(q, p) \in Seq(Node)
         /\ Elements(Append(q, p)) = Elements(q) \cup {p}
         /\ NoRepetition(Append(q, p))
<1> DEFINE r == Append(q, p)
<1>1. Len(q) \in Nat /\ DOMAIN q = 1 .. Len(q)
  OBVIOUS
<1>2. r \in Seq(Node) /\ Len(r) = Len(q) + 1 /\ DOMAIN r = 1 .. Len(q) + 1
  OBVIOUS
<1>3. \A i \in DOMAIN r : \/ i \in DOMAIN q /\ r[i] = q[i]
                          \/ i = Len(q) + 1 /\ r[i] = p
  BY <1>1, <1>2
<1>4. \A i \in DOMAIN q : i \in DOMAIN r /\ r[i] = q[i]
  BY <1>1, <1>2
<1>5. Len(q) + 1 \in DOMAIN r /\ r[Len(q) + 1] = p
  BY <1>1, <1>2
<1> HIDE DEF r
<1>6. Elements(r) = Elements(q) \cup {p}
  BY <1>3, <1>4, <1>5 DEF Elements
<1>7. \A i \in DOMAIN q : q[i] # p
  BY DEF Elements
<1>8. NoRepetition(r)
  BY <1>3, <1>7 DEF NoRepetition
<1> QED
  BY <1>2, <1>6, <1>8 DEF r

-----------------------------------------------------------------------------
(***************************************************************************)
(* The guide tree.                                                         *)
(***************************************************************************)

\* Soft clauses of the nodes are soft clauses.
LEMMA SoftOfType ==
  ASSUME NEW n \in Node
  PROVE  SoftOf[n] \in SUBSET Soft /\ Covered(n) \in SUBSET Soft
  BY TreeAssumption DEF Covered, Children

\* The parent of a node is an inner node, and the node is its child.
LEMMA ParentIsInner ==
  ASSUME NEW c \in Node, Parent[c] # NULL
  PROVE  /\ Parent[c] \in Node
         /\ Parent[c] \notin Leaf
         /\ c \in Children(Parent[c])
  BY TreeAssumption DEF Children, Leaf

\* A node without remaining children answers for all its soft clauses.
LEMMA ReadyCoversAll ==
  ASSUME NEW n \in Node, Ready(n)
  PROVE  Covered(n) = SoftOf[n]
<1>1. CASE n \in Leaf
  BY <1>1 DEF Covered
<1>2. CASE n \notin Leaf
  <2>1. PICK l \in Node, r \in Node :
          Children(n) = {l, r} /\ SoftOf[n] = SoftOf[l] \cup SoftOf[r]
    BY <1>2, TreeAssumption
  <2>2. Children(n) \ nodes = {l, r}
    BY <2>1 DEF Ready
  <2> QED
    BY <1>2, <2>1, <2>2 DEF Covered
<1> QED
  BY <1>1, <1>2

\* While c is a node, its deleted siblings are all the other children.
LEMMA DeletedSibling ==
  ASSUME NEW c \in Node, Parent[c] # NULL, c \in nodes,
         Children(Parent[c]) \ nodes # {}
  PROVE  /\ Children(Parent[c]) \ nodes = Children(Parent[c]) \ {c}
         /\ Children(Parent[c]) \cap nodes = {c}
         /\ Covered(Parent[c]) =
              UNION {SoftOf[s] : s \in Children(Parent[c]) \ {c}}
<1> DEFINE p == Parent[c]
<1>1. p \in Node /\ p \notin Leaf /\ c \in Children(p)
  BY ParentIsInner
<1>2. PICK l \in Node, r \in Node : l # r /\ Children(p) = {l, r}
  BY <1>1, TreeAssumption
<1>3. Children(p) \ nodes = Children(p) \ {c}
  BY <1>1, <1>2
<1>4. Children(p) \cap nodes = {c}
  BY <1>1, <1>2
<1> QED
  BY <1>1, <1>3, <1>4 DEF Covered

\* Deleting c changes what its parent answers for, and nothing else.
LEMMA DeleteNode ==
  ASSUME NEW c \in Node, c \in nodes, Parent[c] # NULL,
         nodes' = nodes \ {c}
  PROVE  /\ Covered(Parent[c])' = Covered(Parent[c]) \cup SoftOf[c]
         /\ \A n \in Node \ {Parent[c]} :
              /\ Covered(n)' = Covered(n)
              /\ Children(n) \ nodes' = Children(n) \ nodes
              /\ Children(n) \cap nodes' = Children(n) \cap nodes
         /\ Children(Parent[c]) \ nodes' =
              (Children(Parent[c]) \ nodes) \cup {c}
<1> DEFINE p == Parent[c]
<1>1. p \in Node /\ p \notin Leaf /\ c \in Children(p)
  BY ParentIsInner
<1>2. Children(p) \ nodes' = (Children(p) \ nodes) \cup {c}
  BY <1>1
<1>3. Covered(p)' = Covered(p) \cup SoftOf[c]
  BY <1>1, <1>2 DEF Covered
<1>4. ASSUME NEW n \in Node, n # p
      PROVE  /\ Covered(n)' = Covered(n)
             /\ Children(n) \ nodes' = Children(n) \ nodes
             /\ Children(n) \cap nodes' = Children(n) \cap nodes
  <2>1. c \notin Children(n)
    BY <1>4 DEF Children
  <2>2. /\ Children(n) \ nodes' = Children(n) \ nodes
        /\ Children(n) \cap nodes' = Children(n) \cap nodes
    BY <2>1
  <2> QED
    BY <2>2 DEF Covered
<1> QED
  BY <1>2, <1>3, <1>4

-----------------------------------------------------------------------------
(***************************************************************************)
(* The inductive invariant.                                                *)
(***************************************************************************)
Inv ==
  /\ TypeOK
  /\ feasible \in Instances
  /\ SafetyInv
  /\ LowerBoundSound
  /\ OptimumIsOptimal
  /\ UnsatIsInfeasible

\* The initial states satisfy the invariant.
LEMMA InitInv == Init => Inv
<1> SUFFICES ASSUME Init PROVE Inv
  OBVIOUS
<1>1. guideTree \in Seq(Node)
  <2>1. IsFiniteSet(Leaf)
    BY TreeAssumption, FS_Subset DEF Leaf
  <2>2. Cardinality(Leaf) \in Nat
    BY <2>1, FS_CardinalityType
  <2>3. Leaf \subseteq Node
    BY DEF Leaf
  <2> QED
    BY <2>2, <2>3 DEF Init
<1>2. NewEncoder \in Encoder
  BY DEF NewEncoder, Encoder
<1>3. feasible \in Instances /\ feasible \subseteq SUBSET Soft
  BY InstanceAssumption DEF Init
<1>4. TypeOK
  BY <1>1, <1>2, <1>3 DEF Init, TypeOK, NoAssumptions, FirstEncoders
<1>5. Owner = Leaf
  BY <1>2, TreeAssumption DEF Owner, Init, Leaf, FirstEncoders
<1>6. Leaf \subseteq Node /\ nodes = Node
  BY DEF Leaf, Init
<1>7. \A n \in Leaf : Covered(n) = SoftOf[n]
  BY DEF Covered
<1>8. QueueInv
  <2>1. Elements(guideTree) \subseteq Leaf
    BY DEF Init, Elements
  <2>2. \A n \in Leaf : Ready(n)
    BY <1>6 DEF Ready, Leaf
  <2>3. NoRepetition(guideTree) /\ nbSatisfiable = 0
    BY DEF Init
  <2> QED
    BY <1>5, <2>1, <2>2, <2>3 DEF QueueInv
<1>9. OwnerInv
  <2>1. \A n \in nodes : Parent[n] # NULL => Parent[n] \in nodes
    BY <1>6, TreeAssumption
  <2>2. \A n \in Node : Children(n) \ nodes = {}
    BY <1>6 DEF Children
  <2>3. \A m, n \in Leaf : m # n => Covered(m) \cap Covered(n) = {}
    BY <1>7, TreeAssumption
  <2>4. \A n \in nodes \ Owner : lb[n] = 0
    BY <1>6 DEF Init
  <2> QED
    BY <1>5, <1>6, <2>1, <2>2, <2>3, <2>4 DEF OwnerInv
<1>10. EncodersInSync
  <2> SUFFICES ASSUME NEW n \in Owner PROVE EncoderInSync(n)
    BY DEF EncodersInSync
  <2>1. encoder[n] = NewEncoder /\ lb[n] = 0 /\ activeSoft = {}
    BY <1>5, <1>6 DEF Init, FirstEncoders
  <2> QED
    BY <2>1, EmptyCardinality DEF EncoderInSync, NewEncoder
<1>11. AssumptionsInSync
  BY DEF AssumptionsInSync, Init
<1>12. BoundsWitnessed
  <2>1. \A n \in Owner : lb[n] = 0
    BY <1>5, <1>6 DEF Init
  <2>2. IsWitness({})
    BY <2>1, EmptyCardinality DEF IsWitness, Init
  <2> QED
    BY <2>2 DEF BoundsWitnessed
<1>13. ModelInv /\ OptimumIsOptimal /\ UnsatIsInfeasible
  BY DEF ModelInv, OptimumIsOptimal, UnsatIsInfeasible, Init
<1>14. LowerBoundSound
  <2>1. \A F \in feasible : Cardinality(F) \in Nat
    BY <1>3, SoftCardinality
  <2> QED
    BY <2>1 DEF LowerBoundSound, Init
<1> QED
  BY <1>3, <1>4, <1>8, <1>9, <1>10, <1>11, <1>12, <1>13, <1>14
  DEF Inv, SafetyInv

-----------------------------------------------------------------------------
(***************************************************************************)
(* Steps after a model.                                                    *)
(***************************************************************************)
AssumptionType == [soft : SUBSET Soft, lits : SUBSET Soft, rhs : Nat]

\* Taking the next node keeps the deque and the assumptions in order.
LEMMA NextPartitionStep ==
  ASSUME TypeOK, status = "searching",
         NEW q \in Seq(Node), NEW enc \in [Node -> Encoder \cup {NULL}],
         NextPartition(q, enc), encoder' = enc,
         activeSoft' = activeSoft,
         nbSatisfiable' \in Nat, nbSatisfiable' # 0,
         NoRepetition(q),
         \A n \in Elements(q) : Ready(n)' /\ n \in Owner'
  PROVE  /\ QueueInv' /\ AssumptionsInSync'
         /\ guideTree' \in Seq(Node)
         /\ currentNode' \in Node \cup {NULL}
         /\ assumptions' \in AssumptionType
         /\ status' \in {"searching", "undefined"}
<1>1. CASE q = <<>>
  <2>1. status' = "undefined" /\ guideTree' = q
        /\ currentNode' = currentNode /\ assumptions' = assumptions
    BY <1>1 DEF NextPartition
  <2> QED
    BY <2>1 DEF QueueInv, AssumptionsInSync, TypeOK, AssumptionType
<1>2. CASE q # <<>>
  <2> DEFINE h == Head(q)
  <2>1. /\ currentNode' = h
        /\ guideTree' = Tail(q)
        /\ assumptions' = AssumptionsFor(h, enc[h], activeSoft)
        /\ status' = status
    BY <1>2 DEF NextPartition
  <2>2. /\ h \in Elements(q)
        /\ h \in Node
        /\ Tail(q) \in Seq(Node)
        /\ Elements(Tail(q)) \subseteq Elements(q)
        /\ h \notin Elements(Tail(q))
        /\ NoRepetition(Tail(q))
    BY <1>2, PopFront
  <2> HIDE DEF h
  <2>3. Ready(h)' /\ h \in Owner'
    BY <2>2
  <2>4. Elements(guideTree)' = Elements(Tail(q))
        /\ NoRepetition(guideTree)' = NoRepetition(Tail(q))
    BY <2>1 DEF Elements, NoRepetition
  <2>5. Ready(currentNode)' = Ready(h)'
    BY <2>1 DEF Ready, Children
  <2>6. QueueInv'
    BY <2>1, <2>2, <2>3, <2>4, <2>5 DEF QueueInv
  <2>7. AssumptionsInSync'
    BY <2>1 DEF AssumptionsInSync, AssumptionsFor
  <2>8. enc[h] \in Encoder
    BY <2>2, <2>3 DEF Owner
  <2>9. assumptions' \in AssumptionType
    BY <2>1, <2>2, <2>8, SoftOfType DEF AssumptionsFor, AssumptionType, Encoder
  <2> QED
    BY <2>1, <2>2, <2>6, <2>7, <2>9
<1> QED
  BY <1>1, <1>2

\* Saving a model keeps the saved model and its cost in step.
LEMMA SaveModelStep ==
  ASSUME TypeOK, ModelInv, NEW F \in feasible, Sat(F)
  PROVE  /\ ModelInv'
         /\ nbSatisfiable' \in Nat /\ nbSatisfiable' # 0
         /\ ubCost' \in Nat /\ lbCost' = lbCost
         /\ model' \in {NULL} \cup SUBSET Soft
         /\ Cardinality(model') <= Cardinality(F)
         /\ feasible' = feasible /\ activeSoft' = activeSoft
<1>1. F \in SUBSET Soft
  BY DEF TypeOK
<1>2. Cardinality(F) \in Nat
  BY <1>1, SoftCardinality
<1>3. CASE nbSatisfiable = 0 \/ Cardinality(F) < ubCost
  <2>1. model' = F /\ ubCost' = Cardinality(F)
    BY <1>3 DEF Sat, SaveModel
  <2> QED
    BY <1>1, <1>2, <2>1 DEF Sat, SaveModel, TypeOK, ModelInv
<1>4. CASE ~ (nbSatisfiable = 0 \/ Cardinality(F) < ubCost)
  <2>1. model' = model /\ ubCost' = ubCost
    BY <1>4 DEF Sat, SaveModel
  <2>2. ubCost = Cardinality(model) /\ ubCost <= Cardinality(F)
    BY <1>2, <1>4 DEF TypeOK, ModelInv
  <2> QED
    BY <2>1, <2>2 DEF Sat, SaveModel, TypeOK, ModelInv
<1> QED
  BY <1>3, <1>4

\* The first model.
LEMMA FirstModelStep ==
  ASSUME Inv, NEW F \in feasible, FirstModel(F)
  PROVE  Inv'
<1>1. TypeOK /\ SafetyInv /\ status = "searching" /\ nbSatisfiable = 0
  BY DEF Inv, FirstModel, Sat
<1>2. /\ ModelInv'
      /\ nbSatisfiable' \in Nat /\ nbSatisfiable' # 0
      /\ ubCost' \in Nat /\ lbCost' = lbCost
      /\ model' \in {NULL} \cup SUBSET Soft
      /\ feasible' = feasible /\ activeSoft' = activeSoft
  BY <1>1, SaveModelStep DEF SafetyInv, FirstModel
<1>3. nodes' = nodes /\ lb' = lb /\ encoder' = encoder
      /\ NextPartition(guideTree, encoder)
  BY DEF FirstModel
<1>4. /\ Owner' = Owner
      /\ \A n \in Node : Covered(n)' = Covered(n) /\ Ready(n)' = Ready(n)
  BY <1>3 DEF Owner, Covered, Ready
<1>5. \A n \in Elements(guideTree) : Ready(n)' /\ n \in Owner'
  <2>1. Owner \subseteq Node
    BY DEF Owner
  <2> QED
    BY <1>1, <1>4, <2>1 DEF SafetyInv, QueueInv
<1>6. /\ QueueInv' /\ AssumptionsInSync'
      /\ guideTree' \in Seq(Node)
      /\ currentNode' \in Node \cup {NULL}
      /\ assumptions' \in AssumptionType
      /\ status' \in {"searching", "undefined"}
  <2>1. guideTree \in Seq(Node) /\ encoder \in [Node -> Encoder \cup {NULL}]
        /\ NoRepetition(guideTree)
    BY <1>1 DEF TypeOK, SafetyInv, QueueInv
  <2> QED
    BY <1>1, <1>2, <1>3, <1>5, <2>1, NextPartitionStep
<1>7. TypeOK'
  BY <1>1, <1>2, <1>3, <1>6 DEF TypeOK, AssumptionType
<1>8. OwnerInv'
  BY <1>1, <1>3, <1>4 DEF SafetyInv, OwnerInv, Owner
<1>9. EncodersInSync'
  <2>1. \A n \in Owner : EncoderInSync(n)' = EncoderInSync(n)
    BY <1>2, <1>3, <1>4 DEF EncoderInSync, Owner
  <2> QED
    BY <1>1, <1>4, <2>1 DEF SafetyInv, EncodersInSync
<1>10. BoundsWitnessed'
  <2>1. \A W : IsWitness(W) => IsWitness(W)'
    BY <1>2, <1>3, <1>4 DEF IsWitness, Owner
  <2> QED
    BY <1>1, <1>2, <2>1 DEF SafetyInv, BoundsWitnessed
<1>11. LowerBoundSound' /\ OptimumIsOptimal' /\ UnsatIsInfeasible'
  BY <1>2, <1>6 DEF Inv, LowerBoundSound, OptimumIsOptimal, UnsatIsInfeasible
<1> QED
  BY <1>2, <1>6, <1>7, <1>8, <1>9, <1>10, <1>11 DEF Inv, SafetyInv

-----------------------------------------------------------------------------
(***************************************************************************)
(* A solved node c hands its bound and its encoding to its parent p, whose *)
(* new encoder e is in step with the soft clauses p now answers for.       *)
(***************************************************************************)
Solved(c, p, e, q) ==
  /\ c = currentNode /\ p = Parent[c] /\ p # NULL
  /\ nbSatisfiable > 0
  /\ encoder' = [encoder EXCEPT ![p] = e, ![c] = NULL]
  /\ lb' = [lb EXCEPT ![p] = @ + lb[c]]
  /\ nodes' = nodes \ {c}
  /\ NextPartition(q, encoder')
  /\ q = IF encoder[p] = NULL THEN guideTree ELSE Append(guideTree, p)

\* e counts the relaxed soft clauses of p and of c, up to the sum of the bounds.
JoinsBoth(c, p, e) ==
  LET relaxed == activeSoft \cap (Covered(p) \cup Covered(c))
      k       == lb[p] + lb[c]
  IN  IF e.card THEN e.lits = relaxed /\ e.rhs = k
                ELSE e = NewEncoder /\ k = Cardinality(relaxed)

\* What the invariant says of the current node and of its parent.
LEMMA CurrentNode ==
  ASSUME Inv, status = "searching", nbSatisfiable > 0
  PROVE  LET c == currentNode
             p == Parent[c]
         IN /\ c \in Node /\ c \in nodes /\ c \in Owner /\ Ready(c)
            /\ encoder[c] \in Encoder /\ lb[c] \in Nat
            /\ Covered(c) = SoftOf[c]
            /\ c \notin Elements(guideTree)
            /\ p # NULL =>
                 /\ p \in Node /\ p \in nodes /\ p # c /\ p \notin Leaf
                 /\ c \in Children(p)
                 /\ lb[p] \in Nat
                 /\ ~ Ready(p)
                 /\ encoder[p] = NULL => lb[p] = 0 /\ Covered(p) = {}
                 /\ encoder[p] # NULL =>
                      /\ p \in Owner
                      /\ encoder[p] \in Encoder
                      /\ Children(p) \ nodes # {}
                 /\ Covered(p) \cap Covered(c) = {}
<1> DEFINE c == currentNode
           p == Parent[c]
<1>1. TypeOK /\ QueueInv /\ OwnerInv
  BY DEF Inv, SafetyInv
<1>2. /\ c \in Node /\ c \in Owner /\ Ready(c) /\ c \in nodes
      /\ c \notin Elements(guideTree)
  BY <1>1 DEF QueueInv, Ready
<1>3. encoder[c] \in Encoder /\ lb[c] \in Nat
  BY <1>1, <1>2 DEF TypeOK, Owner
<1>4. Covered(c) = SoftOf[c]
  BY <1>2, ReadyCoversAll
<1>5. ASSUME p # NULL
      PROVE  /\ p \in Node /\ p \in nodes /\ p # c /\ p \notin Leaf
             /\ c \in Children(p)
             /\ lb[p] \in Nat
             /\ ~ Ready(p)
             /\ encoder[p] = NULL => lb[p] = 0 /\ Covered(p) = {}
             /\ encoder[p] # NULL => /\ p \in Owner
                                      /\ encoder[p] \in Encoder
                                      /\ Children(p) \ nodes # {}
             /\ Covered(p) \cap Covered(c) = {}
  <2>1. p \in Node /\ p \notin Leaf /\ c \in Children(p)
    BY <1>2, <1>5, ParentIsInner
  <2>2. p \in nodes
    BY <1>1, <1>2, <1>5 DEF OwnerInv
  <2>3. ~ Ready(p) /\ p # c
    BY <1>2, <2>1 DEF Ready
  <2>4. lb[p] \in Nat
    BY <1>1, <2>1 DEF TypeOK
  <2>5. encoder[p] = NULL => lb[p] = 0 /\ Covered(p) = {}
    BY <1>1, <2>1, <2>2 DEF OwnerInv, Owner, Covered
  <2>6. encoder[p] # NULL => /\ p \in Owner
                             /\ encoder[p] \in Encoder
                             /\ Children(p) \ nodes # {}
    BY <1>1, <2>1, <2>2 DEF OwnerInv, Owner, TypeOK
  <2>7. Covered(p) \cap Covered(c) = {}
    <3>1. CASE encoder[p] = NULL
      BY <2>5, <3>1
    <3>2. CASE encoder[p] # NULL
      BY <1>1, <1>2, <2>3, <2>6, <3>2 DEF OwnerInv
    <3> QED
      BY <3>1, <3>2
  <2> QED
    BY <2>1, <2>2, <2>3, <2>4, <2>5, <2>6, <2>7
<1> QED
  BY <1>2, <1>3, <1>4, <1>5

LEMMA SolvedStep ==
  ASSUME Inv, NEW F \in feasible, Sat(F),
         NEW c, NEW p, NEW e \in Encoder, NEW q,
         Solved(c, p, e, q), JoinsBoth(c, p, e)
  PROVE  Inv'
<1>1. TypeOK /\ SafetyInv /\ status = "searching" /\ nbSatisfiable > 0
  BY DEF Inv, Solved, Sat
<1>2. /\ c \in Node /\ c \in nodes /\ c \in Owner /\ Ready(c)
      /\ lb[c] \in Nat
      /\ Covered(c) = SoftOf[c]
      /\ c \notin Elements(guideTree)
      /\ c = currentNode /\ p = Parent[c] /\ p # NULL
  BY <1>1, CurrentNode DEF Solved
<1>3. /\ p \in Node /\ p \in nodes /\ p # c /\ p \notin Leaf
      /\ c \in Children(p)
      /\ lb[p] \in Nat
      /\ ~ Ready(p)
      /\ encoder[p] = NULL => lb[p] = 0 /\ Covered(p) = {}
      /\ encoder[p] # NULL => p \in Owner /\ Children(p) \ nodes # {}
      /\ Covered(p) \cap Covered(c) = {}
  BY <1>1, <1>2, CurrentNode
<1>4. /\ ModelInv'
      /\ nbSatisfiable' \in Nat /\ nbSatisfiable' # 0
      /\ ubCost' \in Nat /\ lbCost' = lbCost
      /\ model' \in {NULL} \cup SUBSET Soft
      /\ feasible' = feasible /\ activeSoft' = activeSoft
  BY <1>1, SaveModelStep DEF SafetyInv
<1>5. /\ encoder' = [encoder EXCEPT ![p] = e, ![c] = NULL]
      /\ lb' = [lb EXCEPT ![p] = @ + lb[c]]
      /\ nodes' = nodes \ {c}
      /\ NextPartition(q, encoder')
      /\ q = IF encoder[p] = NULL THEN guideTree ELSE Append(guideTree, p)
  BY <1>2 DEF Solved
<1>6. /\ encoder' \in [Node -> Encoder \cup {NULL}]
      /\ encoder'[p] = e /\ encoder'[c] = NULL
      /\ \A n \in Node \ {c, p} : encoder'[n] = encoder[n]
  BY <1>1, <1>2, <1>3, <1>5 DEF TypeOK
<1>7. /\ lb' \in [Node -> Nat]
      /\ lb'[p] = lb[p] + lb[c]
      /\ \A n \in Node \ {p} : lb'[n] = lb[n]
  BY <1>1, <1>2, <1>3, <1>5 DEF TypeOK
<1>8. /\ Covered(p)' = Covered(p) \cup Covered(c)
      /\ Children(p) \ nodes' = (Children(p) \ nodes) \cup {c}
      /\ \A n \in Node \ {p} : /\ Covered(n)' = Covered(n)
                                 /\ Children(n) \ nodes' = Children(n) \ nodes
                                 /\ Children(n) \cap nodes' = Children(n) \cap nodes
  BY <1>2, <1>5, DeleteNode
<1>9. e # NULL
  BY TreeAssumption
<1>10. Owner' = (Owner \ {c}) \cup {p}
  BY <1>2, <1>3, <1>6, <1>9 DEF Owner
<1>11. Owner \subseteq Node /\ Owner \subseteq nodes
  BY <1>1 DEF Owner, SafetyInv, OwnerInv
<1>12. /\ q \in Seq(Node) /\ NoRepetition(q)
       /\ \A n \in Elements(q) : Ready(n)' /\ n \in Owner'
  <2>1. /\ guideTree \in Seq(Node) /\ NoRepetition(guideTree)
        /\ \A n \in Elements(guideTree) : Ready(n) /\ n \in Owner
    BY <1>1 DEF TypeOK, SafetyInv, QueueInv
  <2>2. \A n \in Elements(guideTree) : n # c /\ n # p /\ n \in Node
    BY <1>2, <1>3, <1>11, <2>1
  <2>3. \A n \in Elements(guideTree) : Ready(n)' /\ n \in Owner'
    BY <1>5, <1>8, <1>10, <2>1, <2>2 DEF Ready
  <2>4. CASE encoder[p] = NULL
    BY <1>5, <2>1, <2>3, <2>4
  <2>5. CASE encoder[p] # NULL
    <3>1. /\ q \in Seq(Node) /\ NoRepetition(q)
          /\ Elements(q) = Elements(guideTree) \cup {p}
      BY <1>3, <1>5, <2>1, <2>2, <2>5, PushBack
    <3>2. Children(p) \cap nodes = {c}
      BY <1>2, <1>3, <2>5, DeletedSibling
    <3>3. Children(p) \cap nodes' = {}
      BY <1>5, <3>2
    <3>4. Ready(p)' /\ p \in Owner'
      BY <1>3, <1>5, <1>10, <3>3 DEF Ready
    <3> QED
      BY <2>3, <3>1, <3>4
  <2> QED
    BY <2>4, <2>5
<1>13. /\ QueueInv' /\ AssumptionsInSync'
       /\ guideTree' \in Seq(Node)
       /\ currentNode' \in Node \cup {NULL}
       /\ assumptions' \in AssumptionType
       /\ status' \in {"searching", "undefined"}
  BY <1>1, <1>4, <1>5, <1>6, <1>12, NextPartitionStep
<1>14. TypeOK'
  BY <1>1, <1>4, <1>5, <1>6, <1>7, <1>13 DEF TypeOK, AssumptionType
<1>15. OwnerInv'
  <2>1. \A n \in nodes' : Parent[n] # NULL => Parent[n] \in nodes'
    <3> SUFFICES ASSUME NEW n \in nodes', Parent[n] # NULL
                 PROVE  Parent[n] \in nodes'
      OBVIOUS
    <3>1. n \in nodes /\ n \in Node /\ Parent[n] \in nodes
      BY <1>1, <1>5 DEF SafetyInv, OwnerInv, TypeOK
    <3>2. Parent[n] # c
      BY <1>2, <3>1 DEF Ready, Children
    <3> QED
      BY <1>5, <3>1, <3>2
  <2>2. Owner' \subseteq nodes'
    BY <1>3, <1>5, <1>10, <1>11
  <2>3. \A n \in nodes' \ Owner' : lb'[n] = 0
    BY <1>1, <1>5, <1>7, <1>10 DEF SafetyInv, OwnerInv, TypeOK
  <2>4. \A n \in nodes' \ Leaf : n \in Owner' <=> Children(n) \ nodes' # {}
    BY <1>1, <1>5, <1>8, <1>10 DEF SafetyInv, OwnerInv, TypeOK
  <2>5. \A m, n \in Owner' : m # n => Covered(m)' \cap Covered(n)' = {}
    <3>1. \A m, n \in Owner : m # n => Covered(m) \cap Covered(n) = {}
      BY <1>1 DEF SafetyInv, OwnerInv
    <3>2. \A n \in Owner' \ {p} :
            /\ n \in Owner /\ n # c /\ n \in Node
            /\ Covered(n)' = Covered(n)
      BY <1>8, <1>10, <1>11
    <3>3. \A n \in Owner' \ {p} : Covered(n) \cap Covered(p) = {}
      BY <1>3, <3>1, <3>2 DEF Owner
    <3>4. \A n \in Owner' \ {p} : Covered(n)' \cap Covered(p)' = {}
      BY <1>2, <1>8, <3>1, <3>2, <3>3
    <3> QED
      BY <3>1, <3>2, <3>4
  <2> QED
    BY <2>1, <2>2, <2>3, <2>4, <2>5 DEF OwnerInv
<1>16. EncodersInSync'
  <2> SUFFICES ASSUME NEW n \in Owner' PROVE EncoderInSync(n)'
    BY DEF EncodersInSync
  <2>1. CASE n = p
    <3>1. (activeSoft \cap Covered(p))' = activeSoft \cap (Covered(p) \cup Covered(c))
      BY <1>4, <1>8
    <3> QED
      BY <1>6, <1>7, <2>1, <3>1 DEF JoinsBoth, EncoderInSync, NewEncoder
  <2>2. CASE n # p
    <3>1. /\ n \in Owner /\ n \in Node /\ n # c
          /\ encoder'[n] = encoder[n] /\ lb'[n] = lb[n]
          /\ Covered(n)' = Covered(n)
      BY <1>6, <1>7, <1>8, <1>10, <1>11, <2>2
    <3>2. EncoderInSync(n)
      BY <1>1, <3>1 DEF SafetyInv, EncodersInSync
    <3> QED
      BY <1>4, <3>1, <3>2 DEF EncoderInSync, NewEncoder
  <2> QED
    BY <2>1, <2>2
<1>17. BoundsWitnessed'
  <2> SUFFICES ASSUME NEW G \in feasible,
                      NEW W \in SUBSET (G \cap activeSoft), IsWitness(W)
               PROVE  IsWitness(W)'
    BY <1>1, <1>4 DEF SafetyInv, BoundsWitnessed
  <2>1. W \in SUBSET Soft
    BY <1>1 DEF TypeOK
  <2>2. ASSUME NEW n \in Owner'
        PROVE  Cardinality(W \cap Covered(n)') = lb'[n]
    <3>1. CASE n = p
      <4>1. Cardinality(W \cap Covered(c)) = lb[c]
        BY <1>2 DEF IsWitness
      <4>2. Cardinality(W \cap Covered(p)) = lb[p]
        <5>1. CASE encoder[p] = NULL
          <6>1. W \cap Covered(p) = {}
            BY <1>3, <5>1
          <6> QED
            BY <1>3, <5>1, <6>1, EmptyCardinality
        <5>2. CASE encoder[p] # NULL
          BY <1>3, <5>2 DEF IsWitness
        <5> QED
          BY <5>1, <5>2
      <4>3. Cardinality((W \cap Covered(p)) \cup (W \cap Covered(c)))
              = Cardinality(W \cap Covered(p)) + Cardinality(W \cap Covered(c))
        <5>1. (W \cap Covered(p)) \cap (W \cap Covered(c)) = {}
          BY <1>3
        <5>2. W \cap Covered(p) \in SUBSET Soft /\ W \cap Covered(c) \in SUBSET Soft
          BY <2>1
        <5> QED
          BY <5>1, <5>2, DisjointCardinality
      <4>4. W \cap Covered(p)' = (W \cap Covered(p)) \cup (W \cap Covered(c))
        BY <1>8
      <4> QED
        BY <1>7, <3>1, <4>1, <4>2, <4>3, <4>4
    <3>2. CASE n # p
      <4>1. n \in Owner /\ Covered(n)' = Covered(n) /\ lb'[n] = lb[n]
        BY <1>7, <1>8, <1>10, <1>11, <3>2
      <4> QED
        BY <4>1 DEF IsWitness
    <3> QED
      BY <3>1, <3>2
  <2>3. Cardinality(W) = lbCost'
    BY <1>4 DEF IsWitness
  <2> QED
    BY <2>2, <2>3 DEF IsWitness
<1>18. LowerBoundSound' /\ OptimumIsOptimal' /\ UnsatIsInfeasible'
  BY <1>4, <1>13 DEF Inv, LowerBoundSound, OptimumIsOptimal, UnsatIsInfeasible
<1> QED
  BY <1>4, <1>13, <1>14, <1>15, <1>16, <1>17, <1>18 DEF Inv, SafetyInv

\* The parent takes the encoder of its first solved child as it is.
LEMMA HandToParentStep ==
  ASSUME Inv, NEW F \in feasible, HandToParent(F)
  PROVE  Inv'
<1> DEFINE c == currentNode
           p == Parent[c]
<1>1. /\ nbSatisfiable > 0 /\ p # NULL /\ encoder[p] = NULL
      /\ Sat(F) /\ status = "searching"
      /\ encoder' = [encoder EXCEPT ![p] = encoder[c], ![c] = NULL]
      /\ lb' = [lb EXCEPT ![p] = @ + lb[c]]
      /\ nodes' = nodes \ {c}
      /\ NextPartition(guideTree, encoder')
  BY DEF HandToParent, Sat
<1>2. /\ c \in Owner /\ encoder[c] \in Encoder /\ lb[c] \in Nat
      /\ lb[p] = 0 /\ Covered(p) = {}
  BY <1>1, CurrentNode
<1>3. EncoderInSync(c)
  BY <1>1, <1>2 DEF Inv, SafetyInv, EncodersInSync
<1>4. lb[p] + lb[c] = lb[c] /\ Covered(p) \cup Covered(c) = Covered(c)
  BY <1>2
<1>5. JoinsBoth(c, p, encoder[c])
  BY <1>3, <1>4 DEF JoinsBoth, EncoderInSync
<1>6. Solved(c, p, encoder[c], guideTree)
  BY <1>1 DEF Solved
<1> QED
  BY <1>1, <1>2, <1>5, <1>6, SolvedStep

\* Each of the four ways to merge two encoders counts the relaxed soft clauses
\* of both nodes.
LEMMA MergedEncoderInSync ==
  ASSUME Inv, status = "searching", nbSatisfiable > 0,
         NEW c, c = currentNode, NEW p, p = Parent[c], p # NULL,
         encoder[p] # NULL
  PROVE  /\ MergedEncoder(p, c) \in Encoder
         /\ JoinsBoth(c, p, MergedEncoder(p, c))
<1> DEFINE k == lb[p] + lb[c]
           sibling == UNION {SoftOf[s] : s \in Children(p) \ {c}}
           relaxed(S) == activeSoft \cap S
<1>1. /\ c \in Node /\ c \in nodes /\ c \in Owner
      /\ encoder[c] \in Encoder /\ lb[c] \in Nat
      /\ Covered(c) = SoftOf[c]
  BY CurrentNode
<1>2. /\ p \in Node /\ p \in Owner /\ lb[p] \in Nat
      /\ encoder[p] \in Encoder /\ Children(p) \ nodes # {}
      /\ Covered(p) \cap Covered(c) = {}
  BY CurrentNode
<1>3. Covered(p) = sibling
  BY <1>1, <1>2, DeletedSibling
<1>4. EncoderInSync(c) /\ EncoderInSync(p)
  BY <1>1, <1>2 DEF Inv, SafetyInv, EncodersInSync
<1>5. Covered(p) \in SUBSET Soft /\ Covered(c) \in SUBSET Soft
  BY <1>1, <1>2, SoftOfType
<1>6. relaxed(Covered(p) \cup Covered(c))
        = relaxed(Covered(p)) \cup relaxed(Covered(c))
  OBVIOUS
<1>7. k \in Nat /\ k = lb[c] + lb[p]
  BY <1>1, <1>2
<1>8. ASSUME NEW m, NEW n, encoder[m] \in Encoder, encoder[m].card,
             EncoderInSync(m), ~ encoder[n].card, EncoderInSync(n),
             lb[m] \in Nat, Covered(n) \in SUBSET Soft, k = lb[m] + lb[n],
             relaxed(Covered(n)) = {}
      PROVE  /\ encoder[m].lits = relaxed(Covered(m)) \cup relaxed(Covered(n))
             /\ encoder[m].rhs = k
  <2>1. lb[n] = 0
    BY <1>8, EmptyCardinality DEF EncoderInSync
  <2> QED
    BY <1>8, <2>1 DEF EncoderInSync
<1>9. ASSUME NEW S, S = relaxed(Covered(p)) \cup relaxed(Covered(c))
      PROVE  Encode(S, k) \in Encoder /\ JoinsBoth(c, p, Encode(S, k))
  <2>1. S \in SUBSET Soft /\ S = activeSoft \cap (Covered(p) \cup Covered(c))
    BY <1>5, <1>9
  <2>2. Encode(S, k) \in Encoder
    BY <1>7, <2>1 DEF Encode, Encoder
  <2>3. Encode(S, k).card /\ Encode(S, k).lits = S /\ Encode(S, k).rhs = k
    BY DEF Encode
  <2> QED
    BY <2>1, <2>2, <2>3 DEF JoinsBoth
<1>10. CASE encoder[p].card /\ encoder[c].card
  <2>1. MergedEncoder(p, c) = Encode(encoder[p].lits \cup encoder[c].lits, k)
    BY <1>10 DEF MergedEncoder
  <2>2. encoder[p].lits = relaxed(Covered(p)) /\ encoder[c].lits = relaxed(Covered(c))
    BY <1>4, <1>10 DEF EncoderInSync
  <2> QED
    BY <1>9, <2>1, <2>2
<1>11. CASE ~ encoder[p].card /\ encoder[c].card
  <2>1. MergedEncoder(p, c) =
          IF sibling \cap activeSoft = {}
            THEN encoder[c]
            ELSE Encode(encoder[c].lits \cup (sibling \cap activeSoft), k)
    BY <1>11 DEF MergedEncoder
  <2>2. sibling \cap activeSoft = relaxed(Covered(p))
    BY <1>3
  <2> HIDE DEF sibling
  <2>3. encoder[c].lits = relaxed(Covered(c))
    BY <1>4, <1>11 DEF EncoderInSync
  <2>4. CASE relaxed(Covered(p)) = {}
    <3>1. /\ encoder[c].lits = relaxed(Covered(c)) \cup relaxed(Covered(p))
          /\ encoder[c].rhs = k
      BY <1>1, <1>4, <1>5, <1>7, <1>8, <1>11, <2>4
    <3>2. MergedEncoder(p, c) = encoder[c]
      BY <2>1, <2>2, <2>4
    <3> QED
      BY <1>1, <1>6, <1>11, <3>1, <3>2 DEF JoinsBoth
  <2>5. CASE relaxed(Covered(p)) # {}
    <3>1. MergedEncoder(p, c) = Encode(encoder[c].lits \cup relaxed(Covered(p)), k)
      BY <2>1, <2>2, <2>5
    <3> QED
      BY <1>9, <2>3, <3>1
  <2> QED
    BY <2>4, <2>5
<1>12. CASE encoder[p].card /\ ~ encoder[c].card
  <2>1. MergedEncoder(p, c) =
          IF SoftOf[c] \cap activeSoft = {}
            THEN encoder[p]
            ELSE Encode(encoder[p].lits \cup (SoftOf[c] \cap activeSoft), k)
    BY <1>12 DEF MergedEncoder
  <2>2. SoftOf[c] \cap activeSoft = relaxed(Covered(c))
    BY <1>1
  <2>3. encoder[p].lits = relaxed(Covered(p))
    BY <1>4, <1>12 DEF EncoderInSync
  <2>4. CASE relaxed(Covered(c)) = {}
    <3>1. /\ encoder[p].lits = relaxed(Covered(p)) \cup relaxed(Covered(c))
          /\ encoder[p].rhs = k
      BY <1>2, <1>4, <1>5, <1>8, <1>12, <2>4
    <3>2. MergedEncoder(p, c) = encoder[p]
      BY <2>1, <2>2, <2>4
    <3> QED
      BY <1>2, <1>6, <1>12, <3>1, <3>2 DEF JoinsBoth
  <2>5. CASE relaxed(Covered(c)) # {}
    <3>1. MergedEncoder(p, c) = Encode(encoder[p].lits \cup relaxed(Covered(c)), k)
      BY <2>1, <2>2, <2>5
    <3> QED
      BY <1>9, <2>3, <3>1
  <2> QED
    BY <2>4, <2>5
<1>13. CASE ~ encoder[p].card /\ ~ encoder[c].card
  <2>1. MergedEncoder(p, c) = encoder[p]
    BY <1>13 DEF MergedEncoder
  <2>2. /\ encoder[p] = NewEncoder
        /\ lb[p] = Cardinality(relaxed(Covered(p)))
        /\ lb[c] = Cardinality(relaxed(Covered(c)))
    BY <1>4, <1>13 DEF EncoderInSync
  <2>3. relaxed(Covered(p)) \cap relaxed(Covered(c)) = {}
    BY <1>2
  <2>4. Cardinality(relaxed(Covered(p)) \cup relaxed(Covered(c))) = k
    BY <1>5, <2>2, <2>3, DisjointCardinality
  <2> QED
    BY <1>2, <1>6, <1>13, <2>1, <2>2, <2>4 DEF JoinsBoth
<1> QED
  <2>1. encoder[p].card \in BOOLEAN /\ encoder[c].card \in BOOLEAN
    BY <1>1, <1>2 DEF Encoder
  <2> QED
    BY <1>10, <1>11, <1>12, <1>13, <2>1

\* The second solved child is merged and the parent queued.
LEMMA MergeIntoParentStep ==
  ASSUME Inv, NEW F \in feasible, MergeIntoParent(F)
  PROVE  Inv'
<1> DEFINE c == currentNode
           p == Parent[c]
           e == MergedEncoder(p, c)
<1>1. /\ nbSatisfiable > 0 /\ p # NULL /\ encoder[p] # NULL
      /\ Sat(F) /\ status = "searching"
      /\ encoder' = [encoder EXCEPT ![p] = e, ![c] = NULL]
      /\ lb' = [lb EXCEPT ![p] = @ + lb[c]]
      /\ nodes' = nodes \ {c}
      /\ NextPartition(Append(guideTree, p), encoder')
  BY DEF MergeIntoParent, Sat
<1>2. e \in Encoder /\ JoinsBoth(c, p, e)
  BY <1>1, MergedEncoderInSync
<1>3. Solved(c, p, e, Append(guideTree, p))
  BY <1>1 DEF Solved
<1> HIDE DEF e
<1> QED
  BY <1>1, <1>2, <1>3, SolvedStep

-----------------------------------------------------------------------------
(***************************************************************************)
(* Steps after a core.                                                     *)
(***************************************************************************)

\* What a core at the current node n says: it relaxes soft clauses of n only.
LEMMA CurrentCore ==
  ASSUME Inv, NEW C, NEW k \in BOOLEAN, Core(C, k)
  PROVE  LET n == currentNode
         IN /\ status = "searching" /\ nbSatisfiable > 0
            /\ n \in Node /\ n \in Owner /\ Ready(n)
            /\ encoder[n] \in Encoder /\ lb[n] \in Nat
            /\ Covered(n) = SoftOf[n]
            /\ Covered(n) \in SUBSET Soft
            /\ EncoderInSync(n)
            /\ assumptions = AssumptionsFor(n, encoder[n], activeSoft)
            /\ C \subseteq Covered(n) \ activeSoft
            /\ \A F \in feasible :
                 \/ F \cap C # {}
                 \/ Cardinality(F \cap encoder[n].lits) > encoder[n].rhs
<1> DEFINE n == currentNode
<1>1. status = "searching" /\ nbSatisfiable > 0 /\ IsConflict(C, k)
  BY DEF Core
<1>2. /\ n \in Node /\ n \in Owner /\ Ready(n)
      /\ encoder[n] \in Encoder /\ lb[n] \in Nat
      /\ Covered(n) = SoftOf[n]
  BY <1>1, CurrentNode
<1>3. Covered(n) \in SUBSET Soft
  BY <1>2, SoftOfType
<1>4. EncoderInSync(n)
  BY <1>1, <1>2 DEF Inv, SafetyInv, EncodersInSync
<1>5. assumptions = AssumptionsFor(n, encoder[n], activeSoft)
  BY <1>1 DEF Inv, SafetyInv, AssumptionsInSync
<1>6. /\ assumptions.soft = SoftOf[n] \ activeSoft
      /\ assumptions.lits = encoder[n].lits
      /\ assumptions.rhs = encoder[n].rhs
  BY <1>5 DEF AssumptionsFor
<1> QED
  BY <1>1, <1>2, <1>3, <1>4, <1>5, <1>6 DEF IsConflict

\* After a core every model falsifies one more relaxed soft clause, and it
\* belongs to the current node.
LEMMA CoreWitness ==
  ASSUME Inv, NEW C, NEW k \in BOOLEAN, Core(C, k), NEW F \in feasible
  PROVE  \E W \in SUBSET (F \cap (activeSoft \cup C)) :
           /\ Cardinality(W) = lbCost + 1
           /\ \A m \in Owner :
                Cardinality(W \cap Covered(m)) =
                  IF m = currentNode THEN lb[m] + 1 ELSE lb[m]
<1> DEFINE n == currentNode
<1>1. /\ status = "searching"
      /\ n \in Node /\ n \in Owner
      /\ lb[n] \in Nat
      /\ Covered(n) \in SUBSET Soft
      /\ EncoderInSync(n)
      /\ C \subseteq Covered(n) \ activeSoft
      /\ \/ F \cap C # {}
         \/ Cardinality(F \cap encoder[n].lits) > encoder[n].rhs
  BY CurrentCore
<1>2. F \in SUBSET Soft
  BY DEF Inv, TypeOK
<1>3. PICK W \in SUBSET (F \cap activeSoft) : IsWitness(W)
  BY <1>1 DEF Inv, SafetyInv, BoundsWitnessed
<1>4. W \in SUBSET Soft
  BY <1>2, <1>3
<1>5. /\ Cardinality(W) = lbCost
      /\ \A m \in Owner : Cardinality(W \cap Covered(m)) = lb[m]
  BY <1>3 DEF IsWitness
<1>6. \E x \in F \cap (activeSoft \cup C) : x \in Covered(n) /\ x \notin W
  <2>1. CASE F \cap C # {}
    BY <1>1, <1>3, <2>1
  <2>2. CASE F \cap C = {}
    <3>1. encoder[n].card
      <4>1. SUFFICES ASSUME ~ encoder[n].card PROVE FALSE
        OBVIOUS
      <4>2. encoder[n].lits = {} /\ encoder[n].rhs = 0
        BY <1>1, <4>1 DEF EncoderInSync, NewEncoder
      <4>3. F \cap encoder[n].lits = {}
        BY <4>2
      <4> QED
        BY <1>1, <2>2, <4>2, <4>3, EmptyCardinality
    <3>2. encoder[n].lits = activeSoft \cap Covered(n) /\ encoder[n].rhs = lb[n]
      BY <1>1, <3>1 DEF EncoderInSync
    <3>3. Cardinality(F \cap (activeSoft \cap Covered(n))) > lb[n]
      BY <1>1, <2>2, <3>2
    <3>4. Cardinality(W \cap Covered(n)) = lb[n]
      BY <1>1, <1>5
    <3>5. W \cap Covered(n) # F \cap (activeSoft \cap Covered(n))
      <4>1. SUFFICES ASSUME W \cap Covered(n) = F \cap (activeSoft \cap Covered(n))
                     PROVE  FALSE
        OBVIOUS
      <4>2. Cardinality(F \cap (activeSoft \cap Covered(n))) = lb[n]
        BY <3>4, <4>1, Zenon
      <4>3. lb[n] \in Nat
        BY <1>1
      <4>4. lb[n] > lb[n]
        BY <3>3, <4>2, Zenon
      <4> QED
        BY <4>3, <4>4
    <3> QED
      BY <1>3, <3>5
  <2> QED
    BY <2>1, <2>2
<1>7. PICK x \in F \cap (activeSoft \cup C) : x \in Covered(n) /\ x \notin W
  BY <1>6
<1>8. x \in Soft
  BY <1>1, <1>7
<1> DEFINE X == W \cup {x}
<1>9. X \in SUBSET (F \cap (activeSoft \cup C))
  BY <1>3, <1>7
<1>10. Cardinality(X) = lbCost + 1
  BY <1>4, <1>5, <1>7, <1>8, AddCardinality
<1>11. ASSUME NEW m \in Owner
       PROVE  Cardinality(X \cap Covered(m)) =
                IF m = n THEN lb[m] + 1 ELSE lb[m]
  <2>1. CASE m = n
    <3>1. X \cap Covered(m) = (W \cap Covered(n)) \cup {x}
      BY <1>7, <2>1
    <3>2. W \cap Covered(n) \in SUBSET Soft /\ x \in Soft \ (W \cap Covered(n))
      BY <1>4, <1>7, <1>8
    <3>3. Cardinality(X \cap Covered(m)) = Cardinality(W \cap Covered(n)) + 1
      BY <3>1, <3>2, AddCardinality
    <3> QED
      BY <1>1, <1>5, <2>1, <3>3
  <2>2. CASE m # n
    <3>1. Covered(m) \cap Covered(n) = {}
      BY <1>1, <2>2 DEF Inv, SafetyInv, OwnerInv
    <3>2. X \cap Covered(m) = W \cap Covered(m)
      BY <1>7, <3>1
    <3> QED
      BY <1>5, <2>2, <3>2
  <2> QED
    BY <2>1, <2>2
<1> HIDE DEF X
<1> QED
  BY <1>9, <1>10, <1>11

\* Both bounds rise soundly; nothing else of the search's results changes.
LEMMA CoreBounds ==
  ASSUME Inv, NEW C, NEW k \in BOOLEAN, Core(C, k)
  PROVE  /\ lbCost' \in Nat /\ lbCost' = lbCost + 1
         /\ lb' \in [Node -> Nat]
         /\ \A m \in Node :
              lb'[m] = IF m = currentNode THEN lb[m] + 1 ELSE lb[m]
         /\ LowerBoundSound'
         /\ ModelInv'
<1> DEFINE n == currentNode
<1>1. TypeOK /\ ModelInv /\ n \in Node
  BY CurrentCore DEF Inv, SafetyInv
<1>2. /\ lb' = [lb EXCEPT ![n] = @ + 1]
      /\ lbCost' = lbCost + 1
      /\ feasible' = feasible /\ model' = model /\ ubCost' = ubCost
      /\ nbSatisfiable' = nbSatisfiable
  BY DEF Core
<1>3. /\ lb' \in [Node -> Nat]
      /\ \A m \in Node : lb'[m] = IF m = n THEN lb[m] + 1 ELSE lb[m]
  BY <1>1, <1>2 DEF TypeOK
<1>4. ASSUME NEW F \in feasible
      PROVE  lbCost + 1 <= Cardinality(F)
  <2>1. F \in SUBSET Soft
    BY <1>1 DEF TypeOK
  <2>2. PICK W \in SUBSET (F \cap (activeSoft \cup C)) :
          Cardinality(W) = lbCost + 1
    BY CoreWitness
  <2>3. W \in SUBSET F
    BY <2>2
  <2> QED
    BY <2>1, <2>2, <2>3, SoftCardinality
<1>5. lbCost' \in Nat
  BY <1>1, <1>2 DEF TypeOK
<1> QED
  BY <1>1, <1>2, <1>3, <1>4, <1>5 DEF LowerBoundSound, ModelInv

\* The node's new encoder is in step with its new bound.
LEMMA TightenedEncoderInSync ==
  ASSUME Inv, NEW C, NEW k \in BOOLEAN, Core(C, k),
         NEW n, n = currentNode, NEW e, e = TightenedEncoder(n, C, lb[n] + 1)
  PROVE  LET relaxed == (activeSoft \cup C) \cap Covered(n)
         IN /\ e \in Encoder
            /\ IF e.card THEN e.lits = relaxed /\ e.rhs = lb[n] + 1
                         ELSE e = NewEncoder /\ lb[n] + 1 = Cardinality(relaxed)
<1> DEFINE relaxed == SoftOf[n] \cap (activeSoft \cup C)
<1>1. /\ encoder[n] \in Encoder /\ lb[n] \in Nat
      /\ Covered(n) = SoftOf[n]
      /\ Covered(n) \in SUBSET Soft
      /\ EncoderInSync(n)
      /\ C \subseteq Covered(n) \ activeSoft
  BY CurrentCore
<1>2. relaxed = (activeSoft \cup C) \cap Covered(n) /\ relaxed \in SUBSET Soft
  BY <1>1
<1>3. ASSUME NEW S \in SUBSET Soft
      PROVE  /\ Encode(S, lb[n] + 1) \in Encoder
             /\ Encode(S, lb[n] + 1).card
             /\ Encode(S, lb[n] + 1).lits = S
             /\ Encode(S, lb[n] + 1).rhs = lb[n] + 1
  BY <1>1 DEF Encode, Encoder
<1>4. CASE encoder[n].card
  <2>1. encoder[n].lits = activeSoft \cap Covered(n)
    BY <1>1, <1>4 DEF EncoderInSync
  <2>2. encoder[n].lits \cup C = relaxed
    BY <1>1, <2>1
  <2>3. e = Encode(relaxed, lb[n] + 1)
    BY <1>4, <2>2 DEF TightenedEncoder
  <2> QED
    BY <1>2, <1>3, <2>3
<1>5. CASE ~ encoder[n].card /\ lb[n] + 1 # Cardinality(relaxed)
  <2>1. e = Encode(relaxed, lb[n] + 1)
    BY <1>5 DEF TightenedEncoder
  <2> QED
    BY <1>2, <1>3, <2>1
<1>6. CASE ~ encoder[n].card /\ lb[n] + 1 = Cardinality(relaxed)
  <2>1. e = encoder[n]
    BY <1>6 DEF TightenedEncoder
  <2>2. e = NewEncoder
    BY <1>1, <1>6, <2>1 DEF EncoderInSync
  <2> QED
    BY <1>1, <1>2, <1>6, <2>1, <2>2
<1> QED
  BY <1>4, <1>5, <1>6

\* The core is relaxed and the node solved again.
LEMMA RelaxCoreStep ==
  ASSUME Inv, NEW C, NEW k \in BOOLEAN, RelaxCore(C, k)
  PROVE  Inv'
<1> DEFINE n == currentNode
           e == TightenedEncoder(n, C, lb[n] + 1)
<1>1. /\ Core(C, k) /\ status' = status
      /\ activeSoft' = activeSoft \cup C
      /\ encoder' = [encoder EXCEPT ![n] = e]
      /\ assumptions' = AssumptionsFor(n, e, activeSoft')
  BY DEF RelaxCore
<1>2. /\ feasible' = feasible /\ nodes' = nodes /\ guideTree' = guideTree
      /\ currentNode' = currentNode /\ ubCost' = ubCost
      /\ nbSatisfiable' = nbSatisfiable /\ model' = model
  BY <1>1 DEF Core
<1>3. TypeOK /\ SafetyInv /\ status = "searching" /\ nbSatisfiable > 0
  BY <1>1, CurrentCore DEF Inv
<1>4. /\ n \in Node /\ n \in Owner /\ n \in nodes
      /\ Covered(n) \in SUBSET Soft
      /\ Covered(n) = SoftOf[n]
      /\ C \subseteq Covered(n) \ activeSoft
  BY <1>1, CurrentCore DEF Ready
<1>5. /\ lbCost' \in Nat /\ lbCost' = lbCost + 1
      /\ lb' \in [Node -> Nat]
      /\ \A m \in Node : lb'[m] = IF m = n THEN lb[m] + 1 ELSE lb[m]
      /\ LowerBoundSound' /\ ModelInv'
  BY <1>1, CoreBounds
<1>6. /\ e \in Encoder
      /\ LET relaxed == (activeSoft \cup C) \cap Covered(n)
         IN IF e.card THEN e.lits = relaxed /\ e.rhs = lb[n] + 1
                      ELSE e = NewEncoder /\ lb[n] + 1 = Cardinality(relaxed)
  BY <1>1, TightenedEncoderInSync
<1> HIDE DEF e
<1>7. /\ encoder' \in [Node -> Encoder \cup {NULL}]
      /\ encoder'[n] = e
      /\ \A m \in Node \ {n} : encoder'[m] = encoder[m]
  BY <1>1, <1>3, <1>4, <1>6 DEF TypeOK
<1>8. Owner' = Owner /\ Owner \subseteq Node
  BY <1>4, <1>6, <1>7, TreeAssumption DEF Owner
<1>9. \A m \in Node : Covered(m)' = Covered(m) /\ Ready(m)' = Ready(m)
  BY <1>2 DEF Covered, Ready
<1>10. activeSoft' \in SUBSET Soft
  BY <1>1, <1>3, <1>4 DEF TypeOK
<1>11. assumptions' \in AssumptionType
  BY <1>1, <1>4, <1>6 DEF AssumptionsFor, AssumptionType, Encoder
<1>12. TypeOK'
  BY <1>1, <1>2, <1>3, <1>5, <1>7, <1>10, <1>11 DEF TypeOK, AssumptionType
<1>13. QueueInv'
  <2>1. /\ \A m \in Elements(guideTree) : Ready(m) /\ m \in Owner
        /\ NoRepetition(guideTree)
        /\ n \in Node /\ Ready(n) /\ n \in Owner
        /\ n \notin Elements(guideTree)
    BY <1>1, <1>3, CurrentCore DEF SafetyInv, QueueInv
  <2>2. \A m \in Elements(guideTree) : Ready(m)' /\ m \in Owner'
    BY <1>8, <1>9, <2>1
  <2>3. Elements(guideTree)' = Elements(guideTree)
        /\ NoRepetition(guideTree)' = NoRepetition(guideTree)
    BY <1>2 DEF Elements, NoRepetition
  <2>4. Ready(currentNode)' = Ready(currentNode)
    BY <1>2 DEF Ready
  <2> QED
    BY <1>2, <1>8, <2>1, <2>2, <2>3, <2>4 DEF QueueInv
<1>14. OwnerInv'
  <2>1. \A m \in nodes \ Owner : lb'[m] = 0
    BY <1>3, <1>4, <1>5 DEF SafetyInv, OwnerInv, TypeOK
  <2>2. \A m \in nodes \ Leaf : m \in Owner' <=> Children(m) \ nodes' # {}
    BY <1>2, <1>3, <1>8 DEF SafetyInv, OwnerInv
  <2>3. \A l, m \in Owner' : l # m => Covered(l)' \cap Covered(m)' = {}
    BY <1>3, <1>8, <1>9 DEF SafetyInv, OwnerInv
  <2>4. /\ \A m \in nodes' : Parent[m] # NULL => Parent[m] \in nodes'
        /\ Owner' \subseteq nodes'
    BY <1>2, <1>3, <1>8 DEF SafetyInv, OwnerInv
  <2> QED
    BY <1>2, <1>8, <2>1, <2>2, <2>3, <2>4 DEF OwnerInv
<1>15. EncodersInSync'
  <2> SUFFICES ASSUME NEW m \in Owner' PROVE EncoderInSync(m)'
    BY DEF EncodersInSync
  <2>1. m \in Owner /\ m \in Node /\ Covered(m)' = Covered(m)
    BY <1>8, <1>9
  <2>2. CASE m = n
    <3>1. (activeSoft \cap Covered(m))' = (activeSoft \cup C) \cap Covered(n)
      BY <1>1, <2>1, <2>2
    <3> QED
      BY <1>5, <1>6, <1>7, <2>1, <2>2, <3>1 DEF EncoderInSync, NewEncoder
  <2>3. CASE m # n
    <3>1. encoder'[m] = encoder[m] /\ lb'[m] = lb[m]
      BY <1>5, <1>7, <2>1, <2>3
    <3>2. Covered(m) \cap Covered(n) = {}
      BY <1>3, <1>4, <2>1, <2>3 DEF SafetyInv, OwnerInv
    <3>3. (activeSoft \cap Covered(m))' = activeSoft \cap Covered(m)
      BY <1>1, <1>4, <2>1, <3>2
    <3>4. EncoderInSync(m)
      BY <1>3, <2>1 DEF SafetyInv, EncodersInSync
    <3> QED
      BY <3>1, <3>3, <3>4 DEF EncoderInSync, NewEncoder
  <2> QED
    BY <2>2, <2>3
<1>16. AssumptionsInSync'
  BY <1>1, <1>2, <1>3, <1>7 DEF AssumptionsInSync, AssumptionsFor, TypeOK
<1>17. BoundsWitnessed'
  <2> SUFFICES ASSUME NEW F \in feasible
               PROVE  \E W \in SUBSET (F \cap activeSoft') : IsWitness(W)'
    BY <1>2 DEF BoundsWitnessed
  <2>1. PICK W \in SUBSET (F \cap (activeSoft \cup C)) :
          /\ Cardinality(W) = lbCost + 1
          /\ \A m \in Owner : Cardinality(W \cap Covered(m)) =
                                IF m = n THEN lb[m] + 1 ELSE lb[m]
    BY <1>1, CoreWitness
  <2>2. \A m \in Owner' : Cardinality(W \cap Covered(m)') = lb'[m]
    BY <1>5, <1>8, <1>9, <2>1
  <2>3. IsWitness(W)'
    BY <1>5, <2>1, <2>2 DEF IsWitness
  <2> QED
    BY <1>1, <2>1, <2>3
<1>18. OptimumIsOptimal' /\ UnsatIsInfeasible' /\ feasible' \in Instances
  BY <1>1, <1>2, <1>3 DEF Inv, OptimumIsOptimal, UnsatIsInfeasible
<1> QED
  BY <1>5, <1>12, <1>13, <1>14, <1>15, <1>16, <1>17, <1>18 DEF Inv, SafetyInv

-----------------------------------------------------------------------------
(***************************************************************************)
(* The last steps.                                                         *)
(***************************************************************************)

\* The bounds meet: the saved model costs no more than any other.
LEMMA BoundsMeetStep ==
  ASSUME Inv, NEW C, NEW k \in BOOLEAN, BoundsMeet(C, k)
  PROVE  Inv'
<1> DEFINE n == currentNode
<1>1. /\ Core(C, k) /\ lbCost + 1 = ubCost /\ status' = "OPTIMUM"
      /\ encoder' = encoder /\ activeSoft' = activeSoft
      /\ assumptions' = assumptions
  BY DEF BoundsMeet
<1>2. /\ feasible' = feasible /\ nodes' = nodes /\ guideTree' = guideTree
      /\ currentNode' = currentNode /\ ubCost' = ubCost
      /\ nbSatisfiable' = nbSatisfiable /\ model' = model
  BY <1>1 DEF Core
<1>3. TypeOK /\ SafetyInv /\ status = "searching" /\ nbSatisfiable > 0
      /\ n \in Owner
  BY <1>1, CurrentCore DEF Inv
<1>4. /\ lbCost' \in Nat /\ lbCost' = lbCost + 1
      /\ lb' \in [Node -> Nat]
      /\ \A m \in Node : lb'[m] = IF m = n THEN lb[m] + 1 ELSE lb[m]
      /\ LowerBoundSound' /\ ModelInv'
  BY <1>1, CoreBounds
<1>5. Owner' = Owner
  BY <1>1 DEF Owner
<1>6. \A m \in Node : Covered(m)' = Covered(m)
  BY <1>2 DEF Covered
<1>7. TypeOK'
  BY <1>1, <1>2, <1>3, <1>4 DEF TypeOK
<1>8. QueueInv'
  BY <1>2, <1>3, <1>5 DEF SafetyInv, QueueInv, Elements, NoRepetition, Ready
<1>9. OwnerInv'
  <2>1. \A m \in nodes \ Owner : lb'[m] = 0
    BY <1>3, <1>4 DEF SafetyInv, OwnerInv, TypeOK
  <2>2. \A l, m \in Owner' : l # m => Covered(l)' \cap Covered(m)' = {}
    BY <1>3, <1>5, <1>6 DEF SafetyInv, OwnerInv, Owner
  <2>3. \A m \in nodes \ Leaf : m \in Owner' <=> Children(m) \ nodes' # {}
    BY <1>2, <1>3, <1>5 DEF SafetyInv, OwnerInv
  <2>4. /\ \A m \in nodes' : Parent[m] # NULL => Parent[m] \in nodes'
        /\ Owner' \subseteq nodes'
    BY <1>2, <1>3, <1>5 DEF SafetyInv, OwnerInv
  <2> QED
    BY <1>2, <1>5, <2>1, <2>2, <2>3, <2>4 DEF OwnerInv
<1>10. EncodersInSync' /\ AssumptionsInSync' /\ BoundsWitnessed'
       /\ UnsatIsInfeasible'
  BY <1>1 DEF EncodersInSync, AssumptionsInSync, BoundsWitnessed,
              UnsatIsInfeasible
<1>11. OptimumIsOptimal'
  <2>1. model' \in feasible' /\ Cardinality(model') = lbCost'
    BY <1>1, <1>2, <1>3, <1>4 DEF SafetyInv, ModelInv, TypeOK
  <2> QED
    BY <1>4, <2>1 DEF OptimumIsOptimal, LowerBoundSound
<1> QED
  BY <1>2, <1>4, <1>7, <1>8, <1>9, <1>10, <1>11 DEF Inv, SafetyInv

\* A model of the root costs no more than any other: all models agree outside
\* the root's partitions, and inside none is cheaper than the root's bound.
LEMMA RootModelIsOptimal ==
  ASSUME Inv, status = "searching", nbSatisfiable > 0,
         Parent[currentNode] = NULL,
         NEW F \in feasible, Satisfies(F, assumptions), NEW G \in feasible
  PROVE  Cardinality(F) <= Cardinality(G)
<1> DEFINE n == currentNode
           S == SoftOf[n]
<1>1. n \in Node /\ n \in Owner /\ encoder[n] \in Encoder /\ lb[n] \in Nat
      /\ Covered(n) = S
  BY CurrentNode
<1>2. EncoderInSync(n) /\ assumptions = AssumptionsFor(n, encoder[n], activeSoft)
  BY <1>1 DEF Inv, SafetyInv, EncodersInSync, AssumptionsInSync
<1>3. F \in SUBSET Soft /\ G \in SUBSET Soft
  BY DEF Inv, TypeOK
<1>4. /\ F \cap S \in SUBSET Soft /\ F \ S \in SUBSET Soft
      /\ G \cap S \in SUBSET Soft /\ G \ S \in SUBSET Soft
  BY <1>3
<1>5. F \cap S \subseteq activeSoft \cap S
      /\ Cardinality(F \cap encoder[n].lits) <= encoder[n].rhs
  BY <1>2 DEF Satisfies, AssumptionsFor
<1>6. Cardinality(F \cap S) <= lb[n]
  <2>1. CASE encoder[n].card
    <3>1. encoder[n].lits = activeSoft \cap S /\ encoder[n].rhs = lb[n]
      BY <1>1, <1>2, <2>1 DEF EncoderInSync
    <3>2. F \cap encoder[n].lits = F \cap S
      BY <1>5, <3>1
    <3> QED
      BY <1>5, <3>1, <3>2
  <2>2. CASE ~ encoder[n].card
    <3>1. lb[n] = Cardinality(activeSoft \cap S)
      BY <1>1, <1>2, <2>2 DEF EncoderInSync
    <3>2. activeSoft \cap S \in SUBSET Soft
      BY <1>1, SoftOfType
    <3> QED
      BY <1>5, <3>1, <3>2, SoftCardinality
  <2> QED
    BY <2>1, <2>2
<1>7. lb[n] <= Cardinality(G \cap S)
  <2>1. PICK W \in SUBSET (G \cap activeSoft) : IsWitness(W)
    BY DEF Inv, SafetyInv, BoundsWitnessed
  <2>2. Cardinality(W \cap S) = lb[n] /\ W \cap S \in SUBSET (G \cap S)
    BY <1>1, <2>1 DEF IsWitness
  <2> QED
    BY <1>4, <2>2, SoftCardinality
<1>8. F \ S = G \ S
  BY <1>1, InstanceAssumption DEF Inv
<1>9. /\ Cardinality(F) = Cardinality(F \cap S) + Cardinality(F \ S)
      /\ Cardinality(G) = Cardinality(G \cap S) + Cardinality(G \ S)
  <2>1. F = (F \cap S) \cup (F \ S) /\ G = (G \cap S) \cup (G \ S)
    OBVIOUS
  <2>2. (F \cap S) \cap (F \ S) = {} /\ (G \cap S) \cap (G \ S) = {}
    OBVIOUS
  <2> QED
    BY <1>4, <2>1, <2>2, DisjointCardinality
<1>10. /\ Cardinality(F \cap S) \in Nat /\ Cardinality(G \cap S) \in Nat
       /\ Cardinality(F \ S) \in Nat
  BY <1>4, SoftCardinality
<1>11. Cardinality(G) = Cardinality(G \cap S) + Cardinality(F \ S)
  BY <1>8, <1>9
<1>12. Cardinality(F \cap S) <= Cardinality(G \cap S)
  BY <1>1, <1>6, <1>7, <1>10
<1> QED
  BY <1>9, <1>10, <1>11, <1>12

\* The root is solved.
LEMMA RootSolvedStep ==
  ASSUME Inv, NEW F \in feasible, RootSolved(F)
  PROVE  Inv'
<1>1. /\ Sat(F) /\ status = "searching" /\ nbSatisfiable > 0
      /\ Parent[currentNode] = NULL /\ Satisfies(F, assumptions)
      /\ status' = "OPTIMUM"
      /\ nodes' = nodes /\ guideTree' = guideTree
      /\ currentNode' = currentNode /\ lb' = lb /\ encoder' = encoder
      /\ assumptions' = assumptions
  BY DEF RootSolved, Sat, tree
<1>2. TypeOK /\ SafetyInv
  BY DEF Inv
<1>3. /\ ModelInv'
      /\ nbSatisfiable' \in Nat /\ nbSatisfiable' # 0
      /\ ubCost' \in Nat /\ lbCost' = lbCost
      /\ model' \in {NULL} \cup SUBSET Soft
      /\ Cardinality(model') <= Cardinality(F)
      /\ feasible' = feasible /\ activeSoft' = activeSoft
  BY <1>1, <1>2, SaveModelStep DEF SafetyInv
<1>4. TypeOK'
  BY <1>1, <1>2, <1>3 DEF TypeOK
<1>5. QueueInv'
  BY <1>1, <1>2 DEF SafetyInv, QueueInv, Elements, NoRepetition, Ready, Owner
<1>6. OwnerInv'
  BY <1>1, <1>2 DEF SafetyInv, OwnerInv, Owner, Covered
<1>7. EncodersInSync' /\ AssumptionsInSync' /\ BoundsWitnessed'
      /\ UnsatIsInfeasible'
  BY <1>1 DEF EncodersInSync, AssumptionsInSync, BoundsWitnessed,
              UnsatIsInfeasible
<1>8. OptimumIsOptimal'
  <2>1. model' \in feasible'
    BY <1>3 DEF ModelInv, TypeOK
  <2>2. ASSUME NEW G \in feasible
        PROVE  Cardinality(model') <= Cardinality(G)
    <3>1. Cardinality(F) <= Cardinality(G)
      BY <1>1, RootModelIsOptimal
    <3>2. model' \in SUBSET Soft /\ F \in SUBSET Soft /\ G \in SUBSET Soft
      BY <1>2, <1>3, <2>1 DEF TypeOK
    <3>3. /\ Cardinality(model') \in Nat /\ Cardinality(F) \in Nat
          /\ Cardinality(G) \in Nat
      BY <3>2, SoftCardinality
    <3> QED
      BY <1>3, <3>1, <3>3
  <2> QED
    BY <1>3, <2>1, <2>2 DEF OptimumIsOptimal
<1>9. LowerBoundSound' /\ feasible' \in Instances
  BY <1>3 DEF Inv, LowerBoundSound
<1> QED
  BY <1>3, <1>4, <1>5, <1>6, <1>7, <1>8, <1>9 DEF Inv, SafetyInv

\* No model at all.
LEMMA HardUnsatisfiableStep ==
  ASSUME Inv, HardUnsatisfiable
  PROVE  Inv'
<1>1. /\ status = "searching" /\ status' = "UNSATISFIABLE"
      /\ feasible' = feasible /\ nodes' = nodes /\ guideTree' = guideTree
      /\ currentNode' = currentNode /\ lb' = lb /\ encoder' = encoder
      /\ activeSoft' = activeSoft /\ assumptions' = assumptions
      /\ lbCost' = lbCost /\ ubCost' = ubCost
      /\ nbSatisfiable' = nbSatisfiable /\ model' = model
  BY DEF HardUnsatisfiable, tree, bounds
<1>2. TypeOK /\ SafetyInv
  BY DEF Inv
<1>3. feasible = {}
  <2>1. CASE nbSatisfiable = 0
    <3>1. assumptions = NoAssumptions
      BY <1>1, <1>2, <2>1 DEF SafetyInv, AssumptionsInSync
    <3>2. \A F \in feasible : Satisfies(F, assumptions)
      <4>1. \A F : F \cap NoAssumptions.soft = {} /\ F \cap NoAssumptions.lits = {}
                   /\ NoAssumptions.rhs = 0
        BY DEF NoAssumptions
      <4> QED
        BY <3>1, <4>1, EmptyCardinality DEF Satisfies
    <3> QED
      BY <2>1, <3>2 DEF HardUnsatisfiable
  <2>2. CASE nbSatisfiable # 0
    BY <2>2 DEF HardUnsatisfiable, IsConflict
  <2> QED
    BY <2>1, <2>2
<1>4. TypeOK'
  BY <1>1, <1>2 DEF TypeOK
<1>5. QueueInv'
  BY <1>1, <1>2 DEF SafetyInv, QueueInv, Elements, NoRepetition, Ready, Owner
<1>6. OwnerInv'
  BY <1>1, <1>2 DEF SafetyInv, OwnerInv, Owner, Covered
<1>7. EncodersInSync' /\ AssumptionsInSync' /\ BoundsWitnessed'
      /\ OptimumIsOptimal' /\ UnsatIsInfeasible'
  BY <1>1, <1>3 DEF EncodersInSync, AssumptionsInSync, BoundsWitnessed,
                    OptimumIsOptimal, UnsatIsInfeasible
<1>8. ModelInv' /\ LowerBoundSound' /\ feasible' \in Instances
  BY <1>1, <1>2 DEF Inv, SafetyInv, ModelInv, LowerBoundSound
<1> QED
  BY <1>4, <1>5, <1>6, <1>7, <1>8 DEF Inv, SafetyInv

\* A step that changes nothing.
LEMMA StutterStep ==
  ASSUME Inv, UNCHANGED vars
  PROVE  Inv'
<1>1. /\ feasible' = feasible /\ nodes' = nodes /\ guideTree' = guideTree
      /\ currentNode' = currentNode /\ lb' = lb /\ encoder' = encoder
      /\ activeSoft' = activeSoft /\ assumptions' = assumptions
      /\ lbCost' = lbCost /\ ubCost' = ubCost
      /\ nbSatisfiable' = nbSatisfiable /\ model' = model
      /\ status' = status
  BY DEF vars, tree, bounds
<1>2. TypeOK' /\ QueueInv' /\ OwnerInv'
  BY <1>1 DEF Inv, SafetyInv, TypeOK, QueueInv, OwnerInv, Elements,
              NoRepetition, Ready, Owner, Covered
<1>3. EncodersInSync' /\ AssumptionsInSync' /\ BoundsWitnessed'
  <2>1. Owner' = Owner /\ \A n \in Node : Covered(n)' = Covered(n)
    BY <1>1 DEF Owner, Covered
  <2>2. \A n \in Owner : EncoderInSync(n)' = EncoderInSync(n)
    BY <1>1, <2>1 DEF EncoderInSync, Owner
  <2>3. \A W : IsWitness(W)' = IsWitness(W)
    BY <1>1, <2>1 DEF IsWitness, Owner
  <2> QED
    BY <1>1, <2>1, <2>2, <2>3
    DEF Inv, SafetyInv, EncodersInSync, AssumptionsInSync, BoundsWitnessed
<1>4. ModelInv' /\ LowerBoundSound' /\ OptimumIsOptimal' /\ UnsatIsInfeasible'
      /\ feasible' \in Instances
  BY <1>1 DEF Inv, SafetyInv, ModelInv, LowerBoundSound, OptimumIsOptimal,
              UnsatIsInfeasible
<1> QED
  BY <1>2, <1>3, <1>4 DEF Inv, SafetyInv

-----------------------------------------------------------------------------
\* Every step keeps the invariant.
LEMMA NextInv == Inv /\ [Next]_vars => Inv'
<1> SUFFICES ASSUME Inv, [Next]_vars PROVE Inv'
  OBVIOUS
<1>1. ASSUME NEW F \in feasible, FirstModel(F) PROVE Inv'
  BY <1>1, FirstModelStep
<1>2. ASSUME NEW F \in feasible, HandToParent(F) PROVE Inv'
  BY <1>2, HandToParentStep
<1>3. ASSUME NEW F \in feasible, MergeIntoParent(F) PROVE Inv'
  BY <1>3, MergeIntoParentStep
<1>4. ASSUME NEW F \in feasible, RootSolved(F) PROVE Inv'
  BY <1>4, RootSolvedStep
<1>5. CASE HardUnsatisfiable
  BY <1>5, HardUnsatisfiableStep
<1>6. ASSUME NEW C \in SUBSET assumptions.soft, NEW k \in BOOLEAN,
             BoundsMeet(C, k)
      PROVE  Inv'
  BY <1>6, BoundsMeetStep
<1>7. ASSUME NEW C \in SUBSET assumptions.soft, NEW k \in BOOLEAN,
             RelaxCore(C, k)
      PROVE  Inv'
  BY <1>7, RelaxCoreStep
<1>8. CASE UNCHANGED vars
  BY <1>8, StutterStep
<1> QED
  BY <1>1, <1>2, <1>3, <1>4, <1>5, <1>6, <1>7, <1>8 DEF Next

\* The invariant is inductive: Init establishes it and every action keeps it.
THEOREM Invariance == Spec => []Inv
  BY InitInv, NextInv, PTL DEF Spec

\* Type correctness.
THEOREM TypeCorrect == Spec => []TypeOK
<1>1. Inv => TypeOK
  BY DEF Inv
<1> QED
  BY <1>1, Invariance, PTL

\* The deque, the encoders, the assumptions and the witnesses of the bounds
\* stay consistent.
THEOREM Consistency == Spec => []SafetyInv
<1>1. Inv => SafetyInv
  BY DEF Inv
<1> QED
  BY <1>1, Invariance, PTL

\* The lower bound is sound at every moment of the search.
THEOREM LowerBoundIsSound == Spec => []LowerBoundSound
<1>1. Inv => LowerBoundSound
  BY DEF Inv
<1> QED
  BY <1>1, Invariance, PTL

\* OPTIMUM is answered with a model of minimum cost.
THEOREM AnswersOptimum == Spec => []OptimumIsOptimal
<1>1. Inv => OptimumIsOptimal
  BY DEF Inv
<1> QED
  BY <1>1, Invariance, PTL

\* UNSATISFIABLE is answered for formulas without models only.
THEOREM AnswersUnsatisfiable == Spec => []UnsatIsInfeasible
<1>1. Inv => UnsatIsInfeasible
  BY DEF Inv
<1> QED
  BY <1>1, Invariance, PTL
-----------------------------------------------------------------------------
(***************************************************************************)
(* There is always a next node to solve.  GuideTreeOrder is not inductive: *)
(* that the deque is not empty needs that no node is forgotten outside it. *)
(***************************************************************************)

\* Every node that can be solved waits in the deque or is being solved, and the root
\* stays.
NoneForgotten ==
  /\ status = "searching" =>
       \A n \in Node : Ready(n) =>
         n \in Elements(guideTree) \/ (nbSatisfiable > 0 /\ n = currentNode)
  /\ \A n \in Node : Parent[n] = NULL => n \in nodes

OrderInv == status # "undefined" /\ NoneForgotten

\* Some node of a set has no child in it: otherwise the members that have their
\* parents in the set would be as many as all its members.
LEMMA LowestNode ==
  ASSUME NEW S \in SUBSET Node, S # {}
  PROVE  \E n \in S : Children(n) \cap S = {}
<1> SUFFICES ASSUME \A n \in S : Children(n) \cap S # {} PROVE FALSE
  OBVIOUS
<1> DEFINE D == {c \in S : Parent[c] \in S}
           f == [c \in D |-> Parent[c]]
<1>1. IsFiniteSet(S) /\ IsFiniteSet(D) /\ D \in SUBSET S
  BY TreeAssumption, FS_Subset
<1>2. f \in Surjection(D, S)
  <2>1. f \in [D -> S]
    OBVIOUS
  <2>2. ASSUME NEW n \in S PROVE \E c \in D : f[c] = n
    <3>1. PICK c \in S : c \in Children(n)
      OBVIOUS
    <3> QED
      BY <3>1 DEF Children
  <2> QED
    BY <2>1, <2>2 DEF Surjection
<1> HIDE DEF f
<1>3. Cardinality(S) <= Cardinality(D)
  BY <1>1, <1>2, FS_Surjection
<1>4. Cardinality(D) <= Cardinality(S) /\ Cardinality(D) \in Nat /\ Cardinality(S) \in Nat
  BY <1>1, FS_Subset, FS_CardinalityType
<1>5. S = D
  BY <1>1, <1>3, <1>4, FS_Subset
<1> QED
  BY <1>5, RootAssumption

LEMMA InitOrder == Init => OrderInv
<1> SUFFICES ASSUME Init PROVE OrderInv
  OBVIOUS
<1> DEFINE N == Cardinality(Leaf)
<1>1. IsFiniteSet(Leaf) /\ N \in Nat
  BY TreeAssumption, FS_Subset, FS_CardinalityType DEF Leaf
<1>2. IsFiniteSet(1 .. N) /\ Cardinality(1 .. N) = N
  BY <1>1, FS_Interval
<1>3. guideTree \in [1 .. N -> Leaf] /\ NoRepetition(guideTree) /\ DOMAIN guideTree = 1 .. N
  BY DEF Init
<1>4. guideTree \in Injection(1 .. N, Leaf)
  BY <1>3 DEF NoRepetition, Injection, IsInjective
<1>5. guideTree \in Surjection(1 .. N, Leaf)
  BY <1>1, <1>2, <1>4, FS_Injection
<1>6. \A n \in Leaf : n \in Elements(guideTree)
  BY <1>3, <1>5 DEF Surjection, Elements
<1>7. \A n \in Node : Ready(n) => n \in Leaf
  BY DEF Init, Ready, Leaf, Children
<1> QED
  BY <1>6, <1>7 DEF OrderInv, NoneForgotten, Init

\* The next node leaves a deque that is not empty; no other one does.
LEMMA NextWaits ==
  ASSUME NEW q \in Seq(Node), q # <<>>, NEW enc, NextPartition(q, enc)
  PROVE  /\ status' = status
         /\ \A n \in Elements(q) : n \in Elements(guideTree)' \/ n = currentNode'
<1>1. status' = status /\ currentNode' = Head(q) /\ guideTree' = Tail(q)
  BY DEF NextPartition
<1>2. ASSUME NEW i \in DOMAIN q, i # 1 PROVE q[i] \in Elements(Tail(q))
  <2>1. i \in 2 .. Len(q) /\ i - 1 \in 1 .. Len(q) - 1 /\ Len(q) \in Nat
    BY <1>2
  <2>2. DOMAIN Tail(q) = 1 .. Len(q) - 1 /\ Tail(q)[i - 1] = q[i]
    BY <2>1
  <2> QED
    BY <2>1, <2>2 DEF Elements
<1>3. Head(q) = q[1]
  OBVIOUS
<1> QED
  BY <1>1, <1>2, <1>3 DEF Elements

\* After a node is deleted, the nodes that can be solved wait already, or it is the
\* parent that has lost both children.
LEMMA ReadyAfter ==
  ASSUME Inv, OrderInv, status = "searching", nbSatisfiable > 0,
         Parent[currentNode] # NULL, nodes' = nodes \ {currentNode},
         NEW n \in Node, Ready(n)'
  PROVE  \/ n \in Elements(guideTree)
         \/ n = Parent[currentNode] /\ encoder[n] # NULL
<1> DEFINE c == currentNode
           p == Parent[c]
<1>1. /\ c \in Node /\ c \in nodes /\ p \in Node /\ p \in nodes /\ p \notin Leaf
      /\ OwnerInv
  BY CurrentNode DEF Inv, SafetyInv
<1>2. n \in nodes /\ n # c /\ Children(n) \cap (nodes \ {c}) = {}
  BY DEF Ready
<1>3. CASE c \in Children(n)
  <2>1. n = p
    BY <1>3 DEF Children
  <2>2. PICK l \in Node, r \in Node : l # r /\ Children(n) = {l, r}
    BY <1>1, <2>1, TreeAssumption
  <2>3. Children(n) \ nodes # {}
    BY <1>2, <2>2
  <2>4. n \in Owner
    BY <1>1, <2>1, <2>3 DEF OwnerInv
  <2> QED
    BY <2>1, <2>4 DEF Owner
<1>4. CASE c \notin Children(n)
  <2>1. Ready(n)
    BY <1>2, <1>4 DEF Ready
  <2> QED
    BY <1>2, <2>1 DEF OrderInv, NoneForgotten
<1> QED
  BY <1>3, <1>4

\* A node is taken from a deque that holds all nodes that can be solved now.
LEMMA TakenInOrder ==
  ASSUME Node # {}, OrderInv, status = "searching", nbSatisfiable' > 0,
         NEW q \in Seq(Node), NEW enc, NextPartition(q, enc),
         \A n \in Node : Parent[n] = NULL => n \in nodes',
         nodes' \subseteq Node,
         \A n \in Node : Ready(n)' => n \in Elements(q)
  PROVE  OrderInv'
<1>1. PICK r \in Node : Parent[r] \notin Node
  BY RootAssumption
<1>2. r \in nodes'
  BY <1>1, TreeAssumption
<1>3. PICK n \in nodes' : Children(n) \cap nodes' = {}
  BY <1>2, LowestNode
<1>4. n \in Elements(q)
  BY <1>3 DEF Ready
<1>5. q # <<>>
  BY <1>4 DEF Elements
<1>6. /\ status' = "searching"
      /\ \A m \in Elements(q) : m \in Elements(guideTree)' \/ m = currentNode'
  BY <1>5, NextWaits
<1> QED
  BY <1>6 DEF OrderInv, NoneForgotten

\* Every step leaves a next node to solve.
LEMMA NextOrder ==
  ASSUME Node # {}, Inv, OrderInv, [Next]_vars
  PROVE  OrderInv'
<1>1. TypeOK /\ guideTree \in Seq(Node) /\ nodes \subseteq Node
      /\ nbSatisfiable \in Nat /\ QueueInv /\ OwnerInv
  BY DEF Inv, TypeOK, SafetyInv
<1>2. ASSUME NEW F \in feasible, FirstModel(F) PROVE OrderInv'
  <2>1. /\ status = "searching" /\ nbSatisfiable = 0 /\ nbSatisfiable' = nbSatisfiable + 1
        /\ nodes' = nodes /\ NextPartition(guideTree, encoder)
    BY <1>2 DEF FirstModel, Sat, SaveModel
  <2>2. \A n \in Node : Ready(n)' => n \in Elements(guideTree)
    BY <2>1 DEF Ready, OrderInv, NoneForgotten
  <2>3. \A n \in Node : Parent[n] = NULL => n \in nodes'
    BY <2>1 DEF OrderInv, NoneForgotten
  <2> QED
    BY <1>1, <2>1, <2>2, <2>3, TakenInOrder
<1>3. ASSUME NEW F \in feasible, HandToParent(F) PROVE OrderInv'
  <2>1. /\ status = "searching" /\ nbSatisfiable > 0 /\ nbSatisfiable' = nbSatisfiable + 1
        /\ Parent[currentNode] # NULL /\ encoder[Parent[currentNode]] = NULL
        /\ nodes' = nodes \ {currentNode} /\ NextPartition(guideTree, encoder')
    BY <1>3 DEF HandToParent, Sat, SaveModel
  <2>2. \A n \in Node : Ready(n)' => n \in Elements(guideTree)
    BY <2>1, ReadyAfter
  <2>3. \A n \in Node : Parent[n] = NULL => n \in nodes'
    BY <2>1 DEF OrderInv, NoneForgotten
  <2>4. nbSatisfiable' > 0 /\ nodes' \subseteq Node
    BY <1>1, <2>1
  <2> QED
    BY <1>1, <2>1, <2>2, <2>3, <2>4, TakenInOrder
<1>4. ASSUME NEW F \in feasible, MergeIntoParent(F) PROVE OrderInv'
  <2> DEFINE p == Parent[currentNode]
             q == Append(guideTree, p)
  <2>1. /\ status = "searching" /\ nbSatisfiable > 0 /\ nbSatisfiable' = nbSatisfiable + 1
        /\ p # NULL /\ nodes' = nodes \ {currentNode} /\ NextPartition(q, encoder')
    BY <1>4 DEF MergeIntoParent, Sat, SaveModel
  <2>2. p \in Node /\ ~ Ready(p)
    BY <2>1, CurrentNode
  <2>3. p \notin Elements(guideTree) /\ NoRepetition(guideTree)
    BY <1>1, <2>2 DEF QueueInv
  <2>4. q \in Seq(Node) /\ Elements(q) = Elements(guideTree) \cup {p}
    BY <1>1, <2>2, <2>3, PushBack
  <2>5. \A n \in Node : Ready(n)' => n \in Elements(q)
    BY <2>1, <2>4, ReadyAfter
  <2>6. \A n \in Node : Parent[n] = NULL => n \in nodes'
    BY <2>1 DEF OrderInv, NoneForgotten
  <2>7. nbSatisfiable' > 0 /\ nodes' \subseteq Node
    BY <1>1, <2>1
  <2> HIDE DEF q
  <2> QED
    BY <2>1, <2>4, <2>5, <2>6, <2>7, TakenInOrder
<1>5. ASSUME NEW F \in feasible, RootSolved(F) PROVE OrderInv'
  BY <1>5 DEF RootSolved, tree, OrderInv, NoneForgotten
<1>6. ASSUME HardUnsatisfiable PROVE OrderInv'
  BY <1>6 DEF HardUnsatisfiable, tree, OrderInv, NoneForgotten
<1>7. ASSUME NEW C \in SUBSET assumptions.soft, NEW k \in BOOLEAN, BoundsMeet(C, k)
      PROVE  OrderInv'
  BY <1>7 DEF BoundsMeet, Core, OrderInv, NoneForgotten
<1>8. ASSUME NEW C \in SUBSET assumptions.soft, NEW k \in BOOLEAN, RelaxCore(C, k)
      PROVE  OrderInv'
  BY <1>8 DEF RelaxCore, Core, OrderInv, NoneForgotten, Ready, Elements
<1>9. CASE UNCHANGED vars
  BY <1>9 DEF vars, tree, bounds, OrderInv, NoneForgotten, Ready, Elements
<1> QED
  BY <1>2, <1>3, <1>4, <1>5, <1>6, <1>7, <1>8, <1>9 DEF Next

\* When the root is being solved no other node is left to solve.
LEMMA RootIsLast ==
  ASSUME Inv, status = "searching", nbSatisfiable > 0, Parent[currentNode] = NULL
  PROVE  guideTree = <<>>
<1> DEFINE c == currentNode
           S == nodes \ {c}
<1>1. /\ TypeOK /\ QueueInv /\ OwnerInv /\ c \in Node /\ Ready(c) /\ guideTree \in Seq(Node)
      /\ nodes \subseteq Node
  BY CurrentNode DEF Inv, SafetyInv, TypeOK
<1> SUFFICES ASSUME guideTree # <<>> PROVE FALSE
  OBVIOUS
<1>2. Head(guideTree) \in Elements(guideTree)
  BY <1>1, PopFront DEF QueueInv
<1>3. Head(guideTree) \in S
  BY <1>1, <1>2 DEF QueueInv, Ready
<1>4. PICK n \in S : Parent[n] \notin S
  BY <1>1, <1>3, RootAssumption
<1>5. CASE Parent[n] = NULL
  BY <1>1, <1>4, <1>5, RootAssumption
<1>6. CASE Parent[n] # NULL
  <2>1. Parent[n] = c
    BY <1>1, <1>4, <1>6 DEF OwnerInv
  <2> QED
    BY <1>1, <1>4, <2>1 DEF Ready, Children
<1> QED
  BY <1>5, <1>6

\* front() is never called on an empty deque, and the deque is empty when the root is
\* solved (the assertion at Alg_PartMSU3.cc:833), for every guide tree that has a node.
THEOREM NodesInOrder ==
  ASSUME Node # {}
  PROVE  Spec => []GuideTreeOrder
<1>1. Init => OrderInv
  BY InitOrder
<1>2. Inv /\ OrderInv /\ [Next]_vars => OrderInv'
  BY NextOrder
<1>3. Inv /\ OrderInv => GuideTreeOrder
  BY RootIsLast DEF OrderInv, GuideTreeOrder
<1> QED
  BY <1>1, <1>2, <1>3, Invariance, PTL DEF Spec

-----------------------------------------------------------------------------
(***************************************************************************)
(* The search implements the promise of MaxSAT::search.                    *)
(***************************************************************************)

\* The bounds of the promise count as this module does.
LEMMA SameCardinality == \A S : Promise!Cardinality(S) = Cardinality(S)
  BY Zenon DEF Promise!Cardinality, Cardinality

\* No model is saved before the first one.
NoModelYet == nbSatisfiable = 0 => model = NULL

\* A model that is found improves on the saved one, or leaves it.
LEMMA ModelImproves ==
  ASSUME Inv, NoModelYet, NEW F \in feasible, Sat(F)
  PROVE  /\ feasible' = feasible /\ lbCost' = lbCost
         /\ \/ model' = model
            \/ model' = F /\ (model # NULL => Cardinality(F) < Cardinality(model))
<1>1. feasible' = feasible /\ lbCost' = lbCost /\ nbSatisfiable \in Nat
  BY DEF Inv, TypeOK, Sat, SaveModel
<1>2. CASE nbSatisfiable = 0 \/ Cardinality(F) < ubCost
  <2>1. model' = F
    BY <1>2 DEF Sat, SaveModel
  <2>2. model # NULL => Cardinality(F) < Cardinality(model)
    BY <1>1, <1>2 DEF NoModelYet, Inv, SafetyInv, ModelInv
  <2> QED
    BY <1>1, <2>1, <2>2
<1>3. CASE ~ (nbSatisfiable = 0 \/ Cardinality(F) < ubCost)
  BY <1>1, <1>3 DEF Sat, SaveModel
<1> QED
  BY <1>2, <1>3

\* A round that saves no cheaper model is a stutter of the promise, one that does
\* improves, and the other steps raise the bound or answer.
LEMMA StepImplements ==
  ASSUME Inv, Inv', OrderInv', NoModelYet, [Next]_vars
  PROVE  /\ [Promise!Next]_(Promise!vars)
         /\ NoModelYet'
<1> USE DEF Promise!Improves, Promise!IsLowerBound, Promise!Cost
<1>1. /\ TypeOK /\ nbSatisfiable \in Nat /\ ModelInv
      /\ \A F \in feasible : F # NULL
  BY TreeAssumption DEF Inv, TypeOK, SafetyInv
<1>2. ASSUME NEW F \in feasible, Sat(F), status' \in {"searching", "undefined"}
      PROVE  [Promise!Next]_(Promise!vars) /\ NoModelYet'
  <2>1. status = "searching" /\ nbSatisfiable' = nbSatisfiable + 1
    BY <1>2 DEF Sat, SaveModel
  <2>2. status' = status
    BY <1>2, <2>1 DEF OrderInv
  <2>3. /\ feasible' = feasible /\ lbCost' = lbCost
        /\ \/ model' = model
           \/ model' = F /\ (model # NULL => Cardinality(F) < Cardinality(model))
    BY <1>2, ModelImproves
  <2>4. NoModelYet'
    BY <1>1, <2>1 DEF NoModelYet
  <2>5. CASE model' = model
    BY <2>2, <2>3, <2>4, <2>5 DEF Promise!vars
  <2>6. CASE model' = F /\ (model # NULL => Cardinality(F) < Cardinality(model))
    <3>1. Promise!Improve
      BY SameCardinality, <2>1, <2>2, <2>3, <2>6 DEF Promise!Improve
    <3> QED
      BY <2>4, <3>1 DEF Promise!Next
  <2> QED
    BY <2>3, <2>5, <2>6
<1>3. ASSUME NEW F \in feasible, FirstModel(F) \/ HandToParent(F) \/ MergeIntoParent(F)
      PROVE  [Promise!Next]_(Promise!vars) /\ NoModelYet'
  <2>1. Sat(F)
    BY <1>3 DEF FirstModel, HandToParent, MergeIntoParent
  <2>2. \A q, enc : NextPartition(q, enc) => status' \in {status, "undefined"}
    BY DEF NextPartition
  <2>3. status' \in {"searching", "undefined"}
    BY <1>3, <2>1, <2>2 DEF FirstModel, HandToParent, MergeIntoParent, Sat
  <2> QED
    BY <1>2, <2>1, <2>3
<1>4. ASSUME NEW F \in feasible, RootSolved(F)
      PROVE  [Promise!Next]_(Promise!vars) /\ NoModelYet'
  <2>1. /\ Sat(F) /\ status = "searching" /\ status' = "OPTIMUM"
        /\ nbSatisfiable' = nbSatisfiable + 1
    BY <1>4 DEF RootSolved, Sat, SaveModel
  <2>2. /\ feasible' = feasible /\ lbCost' = lbCost
        /\ \/ model' = model
           \/ model' = F /\ (model # NULL => Cardinality(F) < Cardinality(model))
    BY <2>1, ModelImproves
  <2>3. model' \in feasible /\ \A G \in feasible : Cardinality(model') <= Cardinality(G)
    BY <2>1, <2>2 DEF Inv, OptimumIsOptimal
  <2>4. \A G \in feasible : lbCost <= Cardinality(G)
    BY DEF Inv, LowerBoundSound
  <2>5. Promise!Conclude
    BY SameCardinality, <2>1, <2>2, <2>3, <2>4 DEF Promise!Conclude
  <2>6. NoModelYet'
    BY <1>1, <2>1 DEF NoModelYet
  <2> QED
    BY <2>5, <2>6 DEF Promise!Next
<1>5. ASSUME HardUnsatisfiable
      PROVE  [Promise!Next]_(Promise!vars) /\ NoModelYet'
  <2>1. /\ status = "searching" /\ status' = "UNSATISFIABLE" /\ feasible' = feasible
        /\ model' = model /\ lbCost' = lbCost /\ nbSatisfiable' = nbSatisfiable
    BY <1>5 DEF HardUnsatisfiable, bounds
  <2>2. feasible = {}
    BY <2>1 DEF Inv, UnsatIsInfeasible
  <2>3. Promise!Refute
    BY <2>1, <2>2 DEF Promise!Refute
  <2> QED
    BY <2>1, <2>3 DEF Promise!Next, NoModelYet
<1>6. ASSUME NEW C \in SUBSET assumptions.soft, NEW k \in BOOLEAN, Core(C, k)
      PROVE  /\ status = "searching" /\ feasible' = feasible /\ model' = model
             /\ lbCost' = lbCost + 1 /\ nbSatisfiable' = nbSatisfiable
             /\ model \in feasible /\ model # NULL
             /\ \A F \in feasible : lbCost + 1 <= Cardinality(F)
  BY <1>1, <1>6 DEF Core, ModelInv, Inv, LowerBoundSound
<1>7. ASSUME NEW C \in SUBSET assumptions.soft, NEW k \in BOOLEAN, BoundsMeet(C, k)
      PROVE  [Promise!Next]_(Promise!vars) /\ NoModelYet'
  <2>1. Core(C, k) /\ status' = "OPTIMUM"
    BY <1>7 DEF BoundsMeet
  <2>2. /\ status = "searching" /\ feasible' = feasible /\ model' = model
        /\ lbCost' = lbCost + 1 /\ nbSatisfiable' = nbSatisfiable /\ model \in feasible
        /\ \A F \in feasible : lbCost + 1 <= Cardinality(F)
    BY <1>6, <2>1
  <2>3. \A F \in feasible : Cardinality(model) <= Cardinality(F)
    BY <2>1, <2>2 DEF Inv, OptimumIsOptimal
  <2>4. Promise!Conclude
    BY SameCardinality, <2>1, <2>2, <2>3 DEF Promise!Conclude
  <2> QED
    BY <2>2, <2>4 DEF Promise!Next, NoModelYet
<1>8. ASSUME NEW C \in SUBSET assumptions.soft, NEW k \in BOOLEAN, RelaxCore(C, k)
      PROVE  [Promise!Next]_(Promise!vars) /\ NoModelYet'
  <2>1. Core(C, k) /\ status' = status
    BY <1>8 DEF RelaxCore
  <2>2. /\ status = "searching" /\ feasible' = feasible /\ model' = model
        /\ lbCost' = lbCost + 1 /\ nbSatisfiable' = nbSatisfiable /\ model # NULL
        /\ \A F \in feasible : lbCost + 1 <= Cardinality(F)
    BY <1>6, <2>1
  <2>3. Promise!RaiseBound
    BY SameCardinality, <2>1, <2>2 DEF Promise!RaiseBound
  <2> QED
    BY <2>2, <2>3 DEF Promise!Next, NoModelYet
<1>9. CASE UNCHANGED vars
  BY <1>9 DEF vars, bounds, Promise!vars, NoModelYet
<1> QED
  BY <1>3, <1>4, <1>5, <1>7, <1>8, <1>9 DEF Next

\* PartMSU3 keeps the promise of MaxSAT::search (Alg_PartMSU3.cc:666-916): the model in
\* hand only gets cheaper, the bound stays below every model, and what it answers is
\* right; interrupted at any moment it can show both.
THEOREM Implements ==
  ASSUME Node # {}
  PROVE  Spec => ImplementsSearch
<1>1. Init => Promise!Init /\ NoModelYet
  BY DEF Init, Promise!Init, NoModelYet
<1>2. Inv /\ Inv' /\ OrderInv' /\ NoModelYet /\ [Next]_vars =>
        [Promise!Next]_(Promise!vars) /\ NoModelYet'
  BY StepImplements
<1>3. Init => OrderInv
  BY InitOrder
<1>4. Inv /\ OrderInv /\ [Next]_vars => OrderInv'
  BY NextOrder
<1> QED
  BY <1>1, <1>2, <1>3, <1>4, Invariance, PTL DEF Spec, ImplementsSearch, Promise!Spec
=============================================================================
