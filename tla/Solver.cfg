SPECIFICATION SolverSpec
CONSTANTS
  NULL = NULL
  Parts = {"glucose", "glucose_plain", "minisat", "minisat_square", "simplifier", "simplifier_gates", "arena", "order"}
INVARIANTS
  ClausesMeanTheSame
  StructuresAgree
PROPERTIES
  AnswersRight
  SearchEnds
CHECK_DEADLOCK FALSE
