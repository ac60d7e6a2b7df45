CONSTANTS
  NCells = 3
  NULL = NULL
  MaxBoards = 2
SPECIFICATION Spec
CHECK_DEADLOCK FALSE
INVARIANT BestReturned
