\* One thread, a development rehearsal, one edit; no symmetry, as the
\* properties are temporal.
CONSTANTS
  r1 = r1
  r2 = r2
  None = None
  Runners <- MCRunners
  N = 2
  MaxWorkers = 1
  Blind = FALSE
  Sizes <- MCSizes
  Reservoir <- MCReservoir
  MaxDrift = 1
SPECIFICATION FairSpec
PROPERTIES ImplementsSealedRun Terminates EveryBlockAttempted
\* Every launch comes to an end, so the system stops.
CHECK_DEADLOCK FALSE
