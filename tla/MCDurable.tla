----------------------------- MODULE MCDurable -----------------------------
(***************************************************************************)
(* A small instance of Durable: a picture, its thumbnail and a text, with  *)
(* the thumbnail itself as something a user may copy.                      *)
(***************************************************************************)
EXTENDS Durable

CONSTANTS picture, thumb, words

MCDigests == {picture, thumb, words}

Picture == [mime |-> "image", digest |-> picture]
Small == [mime |-> "image", digest |-> thumb]
Words == [mime |-> "text", digest |-> words]

MCParts == {Picture, Small, Words}
MCThumbnail == [p \in MCParts |-> IF p = Picture THEN Small ELSE NoPart]
UnitSize == [d \in MCDigests |-> 1]
=============================================================================
