\* Two threads, a picture, its thumbnail and a text, any of them copied, a
\* clock that ticks, and everything that may go wrong: calls that fail, clients
\* that hang up, a daemon that crashes.
CONSTANTS
  picture = picture
  thumb = thumb
  png = png
  text = text
  plain = plain
  Thumb = Thumb
  NoPart = NoPart
  Nobody = Nobody
  Threads = {t1, t2}
  Slots = {s1}
  MaxId = 2
  MaxTime = 2
  Retention = 0
  Batch = 1
  Budget = 2
  Digests <- MCDigests
  Parts <- AllParts
  Offered <- AllParts
  Size <- UnitSize
  Thumbnail <- MCThumbnail
  Faults = {"crash", "io", "hangup"}
SPECIFICATION Spec
SYMMETRY ThreadSymmetry
INVARIANTS
  TypeOK
  CountsExact
  NoHole
  TemporariesOwned
PROPERTIES
  PinnedSurvives
  KeepsPromise
