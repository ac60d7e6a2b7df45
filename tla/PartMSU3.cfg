\* Guide tree ((a, b), (c, d)) with six soft clauses, one of them in no partition.
CONSTANTS
  NULL      = NULL
  Soft      <- TreeSoft
  Node      <- TreeNode
  Parent    <- TreeParent
  SoftOf    <- TreeSoftOf
  Instances <- TreeInstances
SPECIFICATION FairSpec
CHECK_DEADLOCK FALSE
INVARIANTS
  TypeOK
  SafetyInv
  OptimumIsOptimal
  GuideTreeOrder
PROPERTIES
  Termination
  ImplementsSearch
