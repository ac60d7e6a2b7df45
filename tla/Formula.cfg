\* One run of each part, on formulas of two or three variables and graphs of up to
\* five partitions.
CONSTANTS
  NULL    = NULL
  PartitionedInputs <- GuideTreeInputs
  Running = {"pb", "wcnf", "loading", "bounds", "partition", "communities", "sorting", "guide_tree"}
SPECIFICATION FormulaSpec
CHECK_DEADLOCK FALSE
INVARIANTS
  MeaningKept
  NoClauseLost
  GuideTreeHolds
PROPERTIES
  StepsImprove
  PartsEnd
