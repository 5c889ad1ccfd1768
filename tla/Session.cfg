\* Three requests and two chunks, on a connection whose store refuses and
\* fails, whose client breaks the grammar and hangs up, with one broadcast.
CONSTANTS
  MaxDrafts = 1
  MaxParts = 1
  Drafts = {1}
  MaxBytes = 2
  MaxReqs = 3
  MaxChunks = 2
  MaxEvents = 1
  Window = 3
  Faults = {"store", "hangup", "misuse"}
SPECIFICATION FairSpec
INVARIANTS
  TypeOK
  Aligned
  InOrder
  PayloadWhole
PROPERTY ClosedAborts
CHECK_DEADLOCK FALSE
