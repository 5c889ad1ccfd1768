\* Two copies of two representations, one request of the picker's, and two
\* connections, the first of which may break anywhere.
CONSTANTS
  Wanted = 2
  MaxCopies = 2
  MaxQueries = 1
  MaxLinks = 2
  Faults = {"break", "full", "read", "store"}
SPECIFICATION ExtFairSpec
INVARIANTS
  ExtTypeOK
  OneDraft
  OneOpen
  Legal
PROPERTY GoesOn
CHECK_DEADLOCK FALSE
