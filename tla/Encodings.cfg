\* Constraints of up to seven literals, a few bounds asked for one after the other; every
\* board of the sizes 3x3, 3x4 and 4x3, up to the border cells.
CONSTANTS
  NULL       = NULL
  t1 = t1
  t2 = t2
  Totalizers = {t1, t2}
  Encodings  = {"totalizer", "network", "modulo", "generalized", "counter", "adder", "life"}
  MaxCells   = 12
SPECIFICATION EncodingSpec
CHECK_DEADLOCK FALSE
INVARIANTS
  ExactlyAtMost
  CountsByPropagation
  IncrementalExact
  ExactWithoutWrap
