\* Two launches, an auditor, two publishers, an edit.
CONSTANTS
  l1 = l1
  l2 = l2
  a1 = a1
  p1 = p1
  p2 = p2
  None = None
  Launches <- MCLaunches
  Auditors <- MCAuditors
  Publishers <- MCPublishers
  N = 2
  Bits <- MCBits
  Capacity = 3
  MaxDrift = 1
SPECIFICATION Spec
SYMMETRY ProcessSymmetry
INVARIANTS TypeOK AcceptedGenuine HonestAccepted
PROPERTY ReleaseOnce
\* Every process comes to an end.
CHECK_DEADLOCK FALSE
