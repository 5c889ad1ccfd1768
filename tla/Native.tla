------------------------------- MODULE Native -------------------------------
(***************************************************************************)
(* The native clipboard watchers of macOS and Windows (capture/macos.rs,   *)
(* capture/windows.rs) and the Recorder behind them (capture/mod.rs).      *)
(*                                                                         *)
(* macOS has no notification and no lock: the watcher polls changeCount    *)
(* and reads type by type what anybody may replace meanwhile, and an owner *)
(* that has taken the pasteboard fills it piece by piece.  Windows posts a *)
(* message for each change and lets one process at a time open the         *)
(* clipboard.  Which of them it is, is chosen once.  X11 is Selection.     *)
(***************************************************************************)
EXTENDS Integers, Sequences

CONSTANTS
  MaxChanges,  \* bound on the changes of the clipboard
  Copies,      \* what is copied
  None,        \* nothing is on the clipboard, or nobody has it open
  Offers,      \* for each platform and copy the types it offers
  Mark,        \* whether a copy is "plain", "concealed", or "flagged"
  MayRefuse    \* whether the store may refuse a representation

Platforms == {"macos", "windows"}

Row(type, mime) == [type |-> type, mime |-> mime]

(* What is asked for, in its order.  On macOS the items' file URLs first,  *)
(* then the table.                                                         *)
Rows ==
  [macos |-> <<Row("public.file-url", "text/uri-list"),
               Row("public.png", "image/png"),
               Row("public.jpeg", "image/jpeg"),
               Row("public.tiff", "image/tiff"),
               Row("public.html", "text/html"),
               Row("public.rtf", "text/rtf"),
               Row("public.file-url", "text/uri-list"),
               Row("public.url", "text/uri-list"),
               Row("public.utf8-plain-text", "text/plain;charset=utf-8"),
               Row("NSStringPboardType", "text/plain"),
               Row("NeXT TIFF v4.0 pasteboard type", "image/tiff")>>,
   windows |-> <<Row("PNG", "image/png"),
                 Row("HTML Format", "text/html"),
                 Row("CF_UNICODETEXT", "text/plain;charset=utf-8"),
                 Row("CF_TEXT", "text/plain"),
                 Row("CF_DIB", "image/bmp")>>]

Types == UNION {{Rows[p][i].type : i \in DOMAIN Rows[p]} : p \in Platforms} \cup {"flag"}
Mimes == UNION {{Rows[p][i].mime : i \in DOMAIN Rows[p]} : p \in Platforms}

ASSUME NativeAssumption ==
  /\ MaxChanges \in Nat /\ MayRefuse \in BOOLEAN
  /\ None \notin Copies \cup {"other", "changed", "reader"}
  /\ Offers \in [Platforms -> [Copies -> SUBSET Types]]
  /\ Mark \in [Copies -> {"plain", "concealed", "flagged"}]

VARIABLES
  platform,
  copy,        \* what is on the clipboard, or None
  count,       \* how often it has changed: changeCount
  given,       \* the types whose data is there, and not empty
  holder,      \* Windows: who has the clipboard open, or None
  posted,      \* Windows: WM_CLIPBOARDUPDATE messages in the queue
  pc, seen, offered, at, parts,        \* the watcher
  archive,     \* the entries recorded, each a set of representations
  short        \* history: what is on the clipboard could not be read whole

board == <<copy, count, given>>
watcher == <<pc, seen, offered, at, parts>>
vars == <<platform, board, holder, posted, watcher, archive, short>>


Table == Rows[platform]
Part == [mime : Mimes, copy : Copies]

OfferOf(c) == IF c = None THEN {} ELSE Offers[platform][c]
Read == {p.mime : p \in parts}

TypeOK ==
  /\ platform \in Platforms
  /\ copy \in Copies \cup {None} /\ count \in 0 .. MaxChanges
  /\ given \subseteq OfferOf(copy)
  /\ holder \in {None, "other", "changed", "reader"} /\ posted \in Nat
  /\ posted + (IF holder = "changed" THEN 1 ELSE 0) <= count
  /\ pc \in {"idle", "types", "read", "check", "record"} /\ seen \in 0 .. count
  /\ offered \subseteq Types /\ at \in 1 .. Len(Table) + 1
  /\ parts \subseteq Part /\ \A p, q \in parts : p.mime = q.mime => p = q
  /\ archive \subseteq SUBSET Part /\ {} \notin archive
  /\ short \in BOOLEAN
  /\ platform = "macos" => holder = None /\ posted = 0
  /\ platform = "windows" => (holder = "reader" <=> pc \in {"types", "read"})

(* What is on the clipboard when the watcher starts was not just copied.   *)
Init ==
  /\ platform \in Platforms
  /\ copy \in Copies \cup {None} /\ count = 0 /\ given = OfferOf(copy)
  /\ holder = None /\ posted = 0
  /\ pc = "idle" /\ seen = 0 /\ offered = {} /\ at = 1 /\ parts = {}
  /\ archive = {} /\ short = TRUE

-----------------------------------------------------------------------------
(* The applications that copy. *)

(* macOS: taking the pasteboard declares the types and moves the count,    *)
(* the data follows.                                                       *)
Claim(c) ==
  /\ platform = "macos" /\ count < MaxChanges
  /\ copy' = c /\ count' = count + 1 /\ given' = {} /\ short' = FALSE
  /\ UNCHANGED <<platform, holder, posted, watcher, archive>>

Give(type) ==
  /\ platform = "macos"
  /\ type \in OfferOf(copy) \ given
  /\ given' = given \cup {type}
  /\ UNCHANGED <<platform, copy, count, holder, posted, watcher, archive, short>>

(* Windows: whoever has the clipboard open may replace what is on it; some *)
(* of it is only rendered when asked for, and may then not come.           *)
OpenOther ==
  /\ platform = "windows" /\ holder = None
  /\ holder' = "other"
  /\ UNCHANGED <<platform, board, posted, watcher, archive, short>>

Put(c) ==
  /\ holder = "other" /\ count < MaxChanges
  /\ holder' = "changed"
  /\ copy' = c /\ count' = count + 1 /\ short' = FALSE
  /\ given' \in SUBSET OfferOf(c)
  /\ UNCHANGED <<platform, posted, watcher, archive>>

CloseOther ==
  /\ holder \in {"other", "changed"}
  /\ holder' = None
  /\ posted' = IF holder = "changed" THEN posted + 1 ELSE posted
  /\ UNCHANGED <<platform, board, watcher, archive, short>>

-----------------------------------------------------------------------------
(* The watcher. *)

Poll ==
  /\ platform = "macos" /\ pc = "idle"
  /\ count # seen
  /\ seen' = count /\ pc' = "types"
  /\ UNCHANGED <<platform, board, holder, posted, offered, at, parts, archive, short>>

(* Deviation: whether the clipboard opened is not looked at.               *)
OpenUnchecked ==
  /\ platform = "windows" /\ pc = "idle" /\ posted > 0
  /\ posted' = posted - 1
  /\ holder' = IF holder = None THEN "reader" ELSE holder
  /\ pc' = "types"
  /\ UNCHANGED <<platform, board, seen, offered, at, parts, archive, short>>

(* WM_CLIPBOARDUPDATE: while somebody else has it open the copy is passed  *)
(* over; no later message asks for it again.                               *)
Open ==
  /\ platform = "windows" /\ pc = "idle" /\ posted > 0
  /\ posted' = posted - 1
  /\ \/ /\ holder = None
        /\ holder' = "reader" /\ pc' = "types" /\ short' = short
     \/ /\ holder # None
        /\ short' = TRUE /\ UNCHANGED <<holder, pc>>
  /\ UNCHANGED <<platform, board, seen, offered, at, parts, archive>>

(* A mark of its own, or on Windows a flag that says no or cannot be read. *)
Concealed ==
  /\ copy # None
  /\ \/ Mark[copy] = "concealed"
     \/ platform = "windows" /\ Mark[copy] = "flagged" /\ "flag" \notin given

LetGo == holder' = IF holder = "reader" THEN None ELSE holder

(* Deviation: a secret is left with the clipboard open.                    *)
LookUnclosed ==
  /\ pc = "types"
  /\ pc' = IF Concealed THEN "idle" ELSE "read"
  /\ offered' = OfferOf(copy) /\ at' = 1 /\ parts' = {}
  /\ UNCHANGED <<platform, board, holder, posted, seen, archive, short>>

Look ==
  /\ pc = "types"
  /\ IF Concealed
     THEN /\ pc' = "idle" /\ LetGo
          /\ short' = (short \/ Mark[copy] = "flagged")
          /\ UNCHANGED <<offered, at, parts>>
     ELSE /\ pc' = "read" /\ offered' = OfferOf(copy) /\ at' = 1 /\ parts' = {}
          /\ UNCHANGED <<holder, short>>
  /\ UNCHANGED <<platform, board, posted, seen, archive>>

(* Whether row i is asked for.  macOS goes by the types it was given and   *)
(* takes one representation of each name, Windows by what is there now,    *)
(* with the plainer text and the bare bitmap as fallbacks.                 *)
Due(i) ==
  IF platform = "macos"
  THEN i = 1 \/ (Table[i].type \in offered /\ Table[i].mime \notin Read)
  ELSE /\ Table[i].type \in OfferOf(copy)
       /\ Table[i].type = "CF_TEXT" => "CF_UNICODETEXT" \notin OfferOf(copy)
       /\ Table[i].type = "CF_DIB" => "image/png" \notin Read

Rest == {i \in at .. Len(Table) : Due(i)}

(* One representation, from whatever is on the clipboard by now.           *)
ReadOne ==
  /\ pc = "read"
  /\ \E i \in Rest :
       /\ \A j \in Rest : i <= j
       /\ at' = i + 1
       /\ parts' = IF Table[i].type \in given
                   THEN parts \cup {[mime |-> Table[i].mime, copy |-> copy]}
                   ELSE parts
       /\ short' = (short \/ Table[i].type \in OfferOf(copy) \ given)
  /\ UNCHANGED <<platform, board, holder, posted, pc, seen, offered, archive>>

ReadAll ==
  /\ pc = "read" /\ Rest = {}
  /\ pc' = IF platform = "macos" THEN "check" ELSE "record"
  /\ LetGo
  /\ UNCHANGED <<platform, board, posted, seen, offered, at, parts, archive, short>>

(* Deviation: the count is not read again.                                 *)
CheckNothing ==
  /\ pc = "check" /\ pc' = "record"
  /\ UNCHANGED <<platform, board, holder, posted, seen, offered, at, parts, archive, short>>

(* Deviation: what was noticed here is taken for seen.                     *)
CheckAndSee ==
  /\ pc = "check"
  /\ seen' = count /\ pc' = IF count = seen THEN "record" ELSE "idle"
  /\ UNCHANGED <<platform, board, holder, posted, offered, at, parts, archive, short>>

(* A pasteboard that changed while it was read is read again from the top, *)
(* at the next poll.                                                       *)
Check ==
  /\ pc = "check"
  /\ pc' = IF count = seen THEN "record" ELSE "idle"
  /\ UNCHANGED <<platform, board, holder, posted, seen, offered, at, parts, archive, short>>

(* Recorder::record_borrowed(): what the store takes of it is one entry,   *)
(* unless nothing is left.  None of the names above is one the recorder or *)
(* the store would refuse as a secret.                                     *)
Record ==
  /\ pc = "record" /\ pc' = "idle" /\ parts' = {}
  /\ \E kept \in (IF MayRefuse THEN SUBSET parts ELSE {parts}) :
       /\ archive' = archive \cup ({kept} \ {{}})
       /\ short' = (short \/ \E p \in parts \ kept : p.copy = copy)
  /\ UNCHANGED <<platform, board, holder, posted, seen, offered, at>>

-----------------------------------------------------------------------------
Next ==
  \/ \E c \in Copies \cup {None} : Claim(c) \/ Put(c)
  \/ \E type \in Types : Give(type)
  \/ OpenOther \/ CloseOther
  \/ Poll \/ Open \/ Look \/ ReadOne \/ ReadAll \/ Check \/ Record

Spec == Init /\ [][Next]_vars

-----------------------------------------------------------------------------
(* What a whole copy is archived as.                                       *)
Whole(c) ==
  {row.mime : row \in
     {Table[i] : i \in {j \in DOMAIN Table :
        /\ Table[j].type \in OfferOf(c)
        /\ Table[j].type = "CF_TEXT" => "CF_UNICODETEXT" \notin OfferOf(c)
        /\ Table[j].type = "CF_DIB" => "PNG" \notin OfferOf(c)}}}

(* An entry is one copy: its representations are of the same one, and of   *)
(* the same picture or text it holds a single form of each name, whatever  *)
(* was copied while it was read.                                           *)
OneCopy ==
  \A entry \in archive :
    /\ \A p, q \in entry : p.copy = q.copy /\ (p.mime = q.mime => p = q)
    /\ platform = "windows" =>
         ~ {"image/png", "image/bmp"} \subseteq {p.mime : p \in entry}

(* No byte of a copy marked as a secret is archived, be it that it was     *)
(* copied while another was read.                                          *)
NoSecret ==
  \A entry \in archive : \A p \in entry : Mark[p.copy] # "concealed"

(* The watcher has looked at everything it will look at. *)
AtRest == pc = "idle" /\ IF platform = "macos" THEN seen = count ELSE posted = 0 /\ holder = None

(* At rest the last copy is in the archive, whole, unless it is a secret   *)
(* or could not be read whole: data that was not there yet or never came,  *)
(* a clipboard that somebody else had open, a representation refused.      *)
Caught ==
  AtRest /\ ~short /\ copy # None =>
    \/ Mark[copy] = "concealed"
    \/ Whole(copy) = {}
    \/ {[mime |-> m, copy |-> copy] : m \in Whole(copy)} \in archive
=============================================================================
