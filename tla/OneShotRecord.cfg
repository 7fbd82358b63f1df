\* The documented rule that a run ends with a summary or a failure record.
CONSTANTS
  r1 = r1
  r2 = r2
  None = None
  Runners <- MCRunners
  N = 2
  MaxWorkers = 1
  Blind = TRUE
  Sizes <- MCSizes
  Reservoir <- MCReservoir
  MaxDrift = 1
SPECIFICATION Spec
INVARIANT EndsOnRecord
CHECK_DEADLOCK FALSE
