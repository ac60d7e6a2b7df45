\* The border rules as the README states them.
CONSTANT MaxCells = 12
SPECIFICATION Spec
CHECK_DEADLOCK FALSE
INVARIANT Complete
