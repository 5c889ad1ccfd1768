------------------------------ MODULE MCStore ------------------------------
(***************************************************************************)
(* Small instances of Store.  A picture in two formats whose thumbnails    *)
(* coincide, and the thumbnail itself as something a user may copy.        *)
(***************************************************************************)
EXTENDS Store, TLC

CONSTANTS picture, thumb, text, png, plain

MCDigests == {picture, thumb, text}
Part(mime, digest) == [mime |-> mime, digest |-> digest]

ThePicture == Part(png, picture)
TheThumb == Part(png, thumb)
TheText == Part(plain, text)

(* A thumbnail is a small PNG, and its own thumbnail. *)
MCThumbnail == [p \in Parts |-> IF p.mime = png THEN TheThumb ELSE NoPart]
PicturesOnly == {ThePicture, TheThumb}
AllParts == PicturesOnly \cup {TheText}
PictureAndText == {ThePicture, TheText}
ThreadSymmetry == Permutations(Threads)
UnitSize == [d \in Digests |-> 1]
=============================================================================
