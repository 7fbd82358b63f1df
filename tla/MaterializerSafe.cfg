\* Two launches, two ranges and two changes from outside; no symmetry, as one
\* property is temporal.
CONSTANTS
  l1 = l1
  l2 = l2
  None = None
  Launches <- MCLaunches
  Matrices = 2
  Bodies = {"a"}
  MaxDrift = 2
SPECIFICATION FairSpec
INVARIANTS TypeOK PublishedWhole FetchedUnderFreeze AccessAlone NothingLeftBehind
PROPERTIES FinalOnce Terminates
\* Every launch comes to an end.
CHECK_DEADLOCK FALSE
