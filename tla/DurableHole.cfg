\* The instance of Durable.cfg, asked whether a served row may lack its content.
CONSTANTS
  picture = picture
  thumb = thumb
  words = words
  Thumb = Thumb
  NoPart = NoPart
  Nobody = Nobody
  Slots = {s1}
  MaxId = 2
  MaxWal = 2
  Digests <- MCDigests
  Parts <- MCParts
  Offered <- MCParts
  Size <- UnitSize
  Thumbnail <- MCThumbnail
SPECIFICATION Spec
INVARIANT NoHole
