\* The documented rule that each block is encoded once, with two launches that
\* look for the lock before either writes it.
CONSTANTS
  r1 = r1
  r2 = r2
  a1 = a1
  a2 = a2
  None = None
  Launches <- MCLaunches
  Aggregators <- MCAggregators
  Variant <- OneVariant
  Manifest <- OneManifest
  Published <- MCRevision
  N = 2
  MaxWorkers = 2
  Bits <- MCBits
  Capacity <- MCCapacity
  Overlap = TRUE
  MaxDrift = 0
SPECIFICATION Spec
INVARIANT EncodedOnce
CHECK_DEADLOCK FALSE
