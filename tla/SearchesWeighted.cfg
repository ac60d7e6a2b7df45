\* Weighted formulas over three or four soft clauses, searched by LinearSU, OLL and WBO.
CONSTANTS
  NULL       = NULL
  Soft       <- FourSoft
  Instances  <- Pairs
  Partitions = {}
  Algorithms = {"linearsu", "oll_weighted", "wbo"}
  UintMax = 255
  LinearWeightings <- Lexicographic
  LinearInstances  <- Triples
  OllWeightings    <- Stratified
SPECIFICATION SearchSpec
CHECK_DEADLOCK FALSE
INVARIANTS
  CostPreserved
  WeightsInSync
  OptimumIsCheapest
PROPERTIES
  SearchEnds
  KeepsPromise
