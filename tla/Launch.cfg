\* Three processes started six times over, two of them to die, over a name
\* that is free, stale, a file, or the service manager's.  Once the starts are
\* used up and all have failed nothing more can happen.
CONSTANTS
  None = None
  p1 = p1
  p2 = p2
  p3 = p3
  Procs = {p1, p2, p3}
  MaxStarts = 6
  MaxCrashes = 2
SPECIFICATION Spec
CHECK_DEADLOCK FALSE
SYMMETRY MCSymmetry
INVARIANTS
  TypeOK
  OneServes
PROPERTIES
  OwnTransfers
