\* One thread whose client sends one mime twice in a draft.
CONSTANTS
  picture = picture
  thumb = thumb
  png = png
  text = text
  plain = plain
  Thumb = Thumb
  NoPart = NoPart
  Nobody = Nobody
  Threads = {t1}
  Slots = {s1, s2}
  MaxId = 2
  MaxTime = 1
  Retention = 0
  Batch = 1
  Budget = 2
  Digests <- MCDigests
  Parts <- AllParts
  Offered <- PictureAndText
  Size <- UnitSize
  Thumbnail <- MCThumbnail
  Faults = {"repeat"}
SPECIFICATION Spec
INVARIANT NoLeak
