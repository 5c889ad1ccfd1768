------------------------------ MODULE MCNative ------------------------------
(* A small instance of Native.                                             *)
EXTENDS Native, MCKinds

CONSTANTS page, shot, key

(* A text with its markup and the old name of its plain form, a picture    *)
(* with its bitmap and the file it lies in, and a password.                *)
MCOffers ==
  [macos |-> [c \in Copies |->
     CASE c = page -> {"public.html", "public.utf8-plain-text"}
       [] c = shot -> {"public.png", "public.file-url"}
       [] c = key -> {"public.utf8-plain-text"}],
   windows |-> [c \in Copies |->
     CASE c = page -> {"HTML Format", "CF_UNICODETEXT", "CF_TEXT", "flag"}
       [] c = shot -> {"PNG", "CF_DIB"}
       [] c = key -> {"CF_UNICODETEXT"}]]

MCMark == [c \in Copies |-> CASE c = page -> "flagged" [] c = shot -> "plain"
                              [] c = key -> "concealed"]
=============================================================================
