\* Unweighted formulas over five soft clauses, searched by MSU3, both sequential
\* strategies of PartMSU3, and OLL.
CONSTANTS
  NULL       = NULL
  Soft       <- FiveSoft
  Instances  <- Families
  Partitions <- Orders
  Algorithms = {"msu3", "sequential", "oll"}
  UintMax = 255
  LinearWeightings = {}
  LinearInstances  = {}
  OllWeightings    = {}
SPECIFICATION SearchSpec
CHECK_DEADLOCK FALSE
INVARIANTS
  CostPreserved
  EncodingsInSync
  OptimumIsOptimal
PROPERTIES
  Termination
  ImplementsSearch
