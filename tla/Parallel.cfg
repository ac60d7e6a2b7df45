SPECIFICATION ParallelSpec
CONSTANTS
  NULL = NULL
  Solvers = {s0, s1}
  First = s0
  Vars = {x, y, z}
  Eliminated = {z}
  Parts = {"threads", "ring", "ring_pair", "ring_full", "purgatory", "purgatory_units", "purgatory_unsat", "clones"}
INVARIANTS
  AnswerIsTheWinners
  ModelGiven
  UnitsReachReaders
  SharingSound
PROPERTIES
  AnswerStays
  ImplementsBlackboard
  EverybodyIsServed
CHECK_DEADLOCK FALSE
