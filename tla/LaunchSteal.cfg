\* A process probes what another has bound and does not listen on yet, takes it
\* for stale and unlinks it; so may the second of two that find a stale name.
CONSTANTS
  None = None
  p1 = p1
  p2 = p2
  p3 = p3
  Procs = {p1, p2}
  MaxStarts = 2
  MaxCrashes = 0
SPECIFICATION Spec
CHECK_DEADLOCK FALSE
PROPERTIES
  NeverUnlinksLive
