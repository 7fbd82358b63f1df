\* Two executions and two aggregations, an edit.
CONSTANTS
  r1 = r1
  r2 = r2
  a1 = a1
  a2 = a2
  None = None
  Launches <- MCLaunches
  Aggregators <- MCAggregators
  Variant <- TwoVariants
  Manifest <- TwoManifests
  Published <- MCRevision
  N = 2
  MaxWorkers = 2
  Bits <- MCBits
  Capacity <- MCCapacity
  Overlap = FALSE
  MaxDrift = 1
SPECIFICATION Spec
INVARIANTS TypeOK EncodedOnce SummaryGenuine SummaryUnderLock QuietAfterEncoding AuditedGenuine
CHECK_DEADLOCK FALSE
