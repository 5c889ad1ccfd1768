\* Three copies: one with a flag that allows it, one with a picture in two
\* forms, one that is a secret; four changes, so that several fall into one
\* read.  Once they are used up the watcher has nothing left to do.
CONSTANTS
  None = None
  page = page
  shot = shot
  key = key
  Copies = {page, shot, key}
  Offers <- MCOffers
  Mark <- MCMark
  MaxChanges = 4
  MayRefuse = TRUE
  Names <- MCNames
  KeyOf <- MCKeyOf
  Padded <- MCPadded
  Trim <- MCTrim
  Slashed <- MCSlashed
  Pictures <- MCPictures
  Texts <- MCTexts
  Specials = {}
  MaxRepresentations = 2
SPECIFICATION Spec
CHECK_DEADLOCK FALSE
INVARIANTS
  TypeOK
  OneCopy
  NoSecret
  Caught
