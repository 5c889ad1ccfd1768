\* A client that records, edits and watches, and a native thread that records
\* and expires; queue and socket hold one frame each.
CONSTANTS
  Clients = {c}
  Natives = {n}
  Recorders = {c, n}
  Curators = {c}
  Expirers = {n}
  MaxId = 1
  QueueLimit = 1
  WireLimit = 1
  MaxEvicted = 1
  Hangups = TRUE
SPECIFICATION FairSpec
INVARIANT TypeOK
INVARIANT NoGap
PROPERTY NeverBlocked
CHECK_DEADLOCK FALSE
