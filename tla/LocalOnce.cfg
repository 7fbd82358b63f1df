\* The status that every summary gives, in the absence of edits.
CONSTANTS
  l1 = l1
  l2 = l2
  a1 = a1
  p1 = p1
  p2 = p2
  None = None
  Launches <- MCLaunches
  Auditors <- MCAuditors
  Publishers <- MCPublishers
  N = 2
  Bits <- MCBits
  Capacity = 3
  MaxDrift = 0
SPECIFICATION Spec
INVARIANT EncodedOnceAndPacked
\* Every process comes to an end.
CHECK_DEADLOCK FALSE
