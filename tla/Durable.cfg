\* One client, two rows, three contents two of which share one, and a log of
\* up to two commits that a power cut may take.
CONSTANTS
  picture = picture
  thumb = thumb
  words = words
  Thumb = Thumb
  NoPart = NoPart
  Nobody = Nobody
  Slots = {s1}
  MaxId = 2
  MaxWal = 2
  Digests <- MCDigests
  Parts <- MCParts
  Offered <- MCParts
  Size <- UnitSize
  Thumbnail <- MCThumbnail
SPECIFICATION Spec
INVARIANTS
  TypeOK
  PinsLast
  NothingLeaks
