\* Two copies of one representation; owners refuse, hang, are late and transfer in chunks, people
\* copy at any moment and the connection breaks once.  The watch may wait for
\* ever: that is no deadlock.
CONSTANTS
  Representations = {text}
  Forms = {"whole", "empty", "incremental"}
  MaxCopies = 2
  Chunks = 2
  MaxLosses = 1
  Faults = {"refuse", "silent", "late", "rush", "loss"}
SPECIFICATION X11FairSpec
INVARIANTS
  X11TypeOK
  OneCopyAtRest
PROPERTIES
  CopiesCaught
  ComesBack
CHECK_DEADLOCK FALSE
