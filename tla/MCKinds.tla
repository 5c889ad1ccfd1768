------------------------------- MODULE MCKinds -------------------------------
(* The rules of Kinds against what they are for, over every list of up to  *)
(* four of fourteen names, two of which rank alike.  TLC evaluates these   *)
(* assumptions once.                                                       *)
EXTENDS Kinds, FiniteSets

MCKeyOf ==
  [n \in {"image/png", "IMAGE/PNG", "image/avif", "image/tiff", "text/plain", "text/html",
          "UTF8_STRING", "TARGETS", "CLIPBOARD_MANAGER", "", "  ", "secret",
          " secret", " text/html"} |->
     CASE n = "IMAGE/PNG" -> "image/png"
       [] n = "UTF8_STRING" -> "utf8_string"
       [] n = "TARGETS" -> "targets"
       [] n = "CLIPBOARD_MANAGER" -> "clipboard_manager"
       [] n = "  " -> ""
       [] n = " secret" -> "secret"
       [] n = " text/html" -> "text/html"
       [] OTHER -> n]
MCNames == DOMAIN MCKeyOf
MCPadded == {"  ", " secret", " text/html"}
MCTrim == [n \in MCNames |-> IF n \in MCPadded THEN MCKeyOf[n] ELSE n]
MCSlashed == {"image/png", "image/avif", "image/tiff", "text/plain", "text/html"}
MCPictures == {"image/png", "image/avif", "image/tiff"}
MCTexts == {"text/plain", "text/html"}

Lists == BoundedSeq(Names, 4)

(* recordable() keeps the content on offer, each key once and best ranked  *)
(* first, up to its limit.                                                 *)
ASSUME FilterIsRightHere == \A offered \in Lists : FilterIsRight(offered)

(* What recordable() has kept it keeps again, in the same order.           *)
ASSUME FilterIsStableHere == \A offered \in Lists : FilterIsStable(offered)

(* best() takes the first part that will do, of what was kept.             *)
ASSUME BestIsFirstHere == \A offered \in Lists : BestIsFirst(offered)

(* A picture is shown as one, whatever text it comes with.                 *)
ASSUME PicturesAreShown ==
  \A offered \in Lists :
    (\E i \in DOMAIN Recordable(offered) : IsImage(Recordable(offered)[i])) =>
      Classify(Recordable(offered), "link") = "image"

(* What the daemon refuses as a secret the extension has refused before.   *)
ASSUME HintsAgree == \A n \in Names : IsSensitive(n) => IsSensitiveHere(n)
=============================================================================
