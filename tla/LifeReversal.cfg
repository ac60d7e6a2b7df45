CONSTANTS
  NCells = 3
  NULL = NULL
  MaxBoards = 2
SPECIFICATION FairSpec
CHECK_DEADLOCK FALSE
INVARIANTS
  OptimumPrinted
  BestPrintedBetweenSaves
  TornBoardIsPrefix
PROPERTY Ends
