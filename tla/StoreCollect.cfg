\* Two threads, drafts of a picture, a text or both; the daemon crashes, its
\* calls and its clients do not fail.  Two of the three contents fit the budget.
CONSTANTS
  picture = picture
  thumb = thumb
  png = png
  text = text
  plain = plain
  Thumb = Thumb
  NoPart = NoPart
  Nobody = Nobody
  Threads = {t1, t2}
  Slots = {s1, s2}
  MaxId = 2
  MaxTime = 1
  Retention = 0
  Batch = 1
  Budget = 2
  Digests <- MCDigests
  Parts <- AllParts
  Offered <- PictureAndText
  Size <- UnitSize
  Thumbnail <- MCThumbnail
  Faults = {"crash"}
SPECIFICATION FairSpec
INVARIANTS
  NoLeak
  WithinBudget
PROPERTY OrphansCollected
