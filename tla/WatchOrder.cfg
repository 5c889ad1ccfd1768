\* Two native threads that record, and a watcher who hears every broadcast.
CONSTANTS
  Clients = {}
  Natives = {n1, n2}
  Recorders = {n1, n2}
  Curators = {}
  Expirers = {}
  MaxId = 2
  QueueLimit = 1
  WireLimit = 1
  MaxEvicted = 1
  Hangups = FALSE
SPECIFICATION Spec
INVARIANT WatchersLearn
