\* Two requests and one broadcast; a file or a write fails under a payload.
CONSTANTS
  MaxDrafts = 1
  MaxParts = 1
  Drafts = {1}
  MaxBytes = 2
  MaxReqs = 2
  MaxChunks = 0
  MaxEvents = 1
  Window = 3
  Faults = {"write"}
SPECIFICATION Spec
INVARIANT PayloadWhole
CHECK_DEADLOCK FALSE
