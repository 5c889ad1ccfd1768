\* Two copies of two representations, the second made while the first is
\* being read; nothing fails.
CONSTANTS
  Wanted = 2
  MaxCopies = 2
  MaxQueries = 0
  MaxLinks = 1
  Faults = {}
SPECIFICATION ExtSpec
INVARIANT OneCopy
CHECK_DEADLOCK FALSE
