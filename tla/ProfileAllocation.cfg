\* A budget that pays for about half of the profiles.
CONSTANTS
  Infinite = Infinite
  N = 3
  Levels = 4
  Budget = 5
  Weights <- MCWeights
  Tables <- MCTables
SPECIFICATION Spec
INVARIANTS TypeOK Optimal NeverRaises
\* The program comes to an end.
CHECK_DEADLOCK FALSE
