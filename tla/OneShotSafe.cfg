\* Two launches, two blocks on two threads, two edits from outside.
CONSTANTS
  r1 = r1
  r2 = r2
  None = None
  Runners <- MCRunners
  N = 2
  MaxWorkers = 2
  Blind = TRUE
  Sizes <- MCSizes
  Reservoir <- MCReservoir
  MaxDrift = 2
SPECIFICATION Spec
SYMMETRY LaunchSymmetry
INVARIANTS TypeOK EncodeAtMostOnce PublishedGenuine QuietVerdict OneVerdict
\* Every launch comes to an end, so the system stops.
CHECK_DEADLOCK FALSE
