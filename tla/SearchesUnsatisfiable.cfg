\* Formulas without models, searched by WBO, with and without weights.
CONSTANTS
  NULL       = NULL
  Soft       <- FourSoft
  Instances  <- NoModels
  Partitions = {}
  Algorithms = {"wbo"}
  UintMax = 255
  LinearWeightings = {}
  LinearInstances  = {}
  OllWeightings    = {}
SPECIFICATION SearchSpec
CHECK_DEADLOCK FALSE
PROPERTY UnsatisfiableIsReturned
