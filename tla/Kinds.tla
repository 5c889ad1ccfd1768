-------------------------------- MODULE Kinds --------------------------------
(***************************************************************************)
(* Which of the names a clipboard offers are archived and in what order,   *)
(* which of them condemn the copy, and how an entry is shown (kind.rs, and *)
(* its twin in extension/lib/mimes.js).                                    *)
(*                                                                         *)
(* A name is a spelling; what the rules look at is its key, the spelling   *)
(* trimmed and in lower case.  The sets of keys below say what a key       *)
(* begins with or contains.                                                *)
(***************************************************************************)
EXTENDS Integers, Sequences, FiniteSets, SequencesExt

CONSTANTS
  Names,        \* spellings a clipboard may offer
  KeyOf,        \* the key of each, "" for a blank one
  Padded,       \* the spellings with outer blanks
  Trim,         \* each without them
  Slashed,      \* the keys with a slash
  Pictures,     \* the keys that begin with image/
  Texts,        \* the keys that begin with text/
  Specials,     \* the keys that begin with x-special/
  MaxRepresentations

ASSUME KindsAssumption ==
  /\ DOMAIN KeyOf = Names /\ Padded \subseteq Names
  /\ Trim \in [Names -> Names \ Padded]
  /\ \A n \in Names : KeyOf[Trim[n]] = KeyOf[n] /\ (n \in Padded \/ Trim[n] = n)
  /\ Pictures \cup Texts \cup Specials \subseteq Slashed
  /\ MaxRepresentations \in Nat \ {0}

SENSITIVE ==
  {"x-kde-passwordmanagerhint", "text/x-kde-passwordmanagerhint",
   "application/x-nspasteboard-concealed-type",
   "org.nspasteboard.concealedtype", "org.nspasteboard.transienttype",
   "org.nspasteboard.autogeneratedtype", "com.agilebits.onepassword",
   "de.petermaurer.transientpasteboardtype", "com.typeit4me.clipping",
   "text/x-moz-password", "x-keepassxc-password", "password", "secret"}

PROTOCOL_TARGETS ==
  {"targets", "timestamp", "multiple", "save_targets", "delete",
   "insert_selection", "insert_property", "atom", "atom_pair", "null"}

RANKED_BARE == {"utf8_string", "string", "text"}

(* The daemon lowers the case of a hint and leaves its blanks, the         *)
(* extension trims it as well.                                             *)
IsSensitive(n) == KeyOf[n] \in SENSITIVE /\ n \notin Padded
IsSensitiveHere(n) == KeyOf[n] \in SENSITIVE
AnySensitive(offered) == \E i \in DOMAIN offered : IsSensitive(offered[i])

Rank(n) ==
  LET k == KeyOf[n]
  IN CASE k = "image/png" -> 0
       [] k = "image/webp" -> 1
       [] k \in {"image/jpeg", "image/jpg"} -> 2
       [] k = "image/gif" -> 3
       [] k = "image/bmp" -> 4
       [] k = "x-special/gnome-copied-files" -> 10
       [] k = "x-special/nautilus-clipboard" -> 11
       [] k = "text/uri-list" -> 12
       [] k = "text/html" -> 20
       [] k \in {"text/rtf", "application/rtf"} -> 21
       [] k = "text/plain;charset=utf-8" -> 30
       [] k = "utf8_string" -> 31
       [] k = "text/plain" -> 32
       [] k \in {"string", "text"} -> 33
       [] k \in Pictures \ {"image/png", "image/webp", "image/jpeg",
                            "image/jpg", "image/gif", "image/bmp"} -> 5
       [] OTHER -> IF k \in Texts THEN 34 ELSE 100

(* Neither protocol noise nor an atom nobody knows.                        *)
IsContent(k) == k \notin PROTOCOL_TARGETS /\ (k \in Slashed \/ k \in RANKED_BARE)

(* The first name of each key, trimmed, if it is content.                  *)
Take(acc, n) ==
  IF KeyOf[n] = "" \/ KeyOf[n] \in acc.seen THEN acc
  ELSE [seen |-> acc.seen \cup {KeyOf[n]},
        wanted |-> IF IsContent(KeyOf[n]) THEN Append(acc.wanted, Trim[n]) ELSE acc.wanted]
Wanted(offered) == FoldLeft(Take, [seen |-> {}, wanted |-> <<>>], offered).wanted

(* A stable sort by rank: each name goes where the number of those that    *)
(* are not to come after it says.                                          *)
NoLater(names, i, j) ==
  Rank(names[i]) < Rank(names[j]) \/ (Rank(names[i]) = Rank(names[j]) /\ i <= j)
Place(names, j) == Cardinality({i \in DOMAIN names : NoLater(names, i, j)})
Ranked(names) ==
  [k \in DOMAIN names |-> names[CHOOSE j \in DOMAIN names : Place(names, j) = k]]

Recordable(offered) ==
  LET ranked == Ranked(Wanted(offered))
  IN SubSeq(ranked, 1, IF Len(ranked) < MaxRepresentations THEN Len(ranked)
                       ELSE MaxRepresentations)

(* Store::best(): the part a preview or a thumbnail is made of, the first  *)
(* of those of the lowest rank; 0 when none of them passes the test.  fit  *)
(* is the places of those that do.                                         *)
Best(parts, fit) ==
  IF fit = {} THEN 0
  ELSE CHOOSE i \in fit : \A j \in fit : NoLater(parts, i, j)

IsText(n) == KeyOf[n] \in Texts \cup RANKED_BARE \cup Specials
IsImage(n) == KeyOf[n] \in Pictures
IsFiles(n) == KeyOf[n] \in {"x-special/gnome-copied-files",
                            "x-special/nautilus-clipboard", "text/uri-list"}

(* sample is what the text at hand looks like: "colour", "link", "prose",  *)
(* or "none" when there is no text.                                        *)
Classify(mimes, sample) ==
  CASE \E i \in DOMAIN mimes : IsFiles(mimes[i]) -> "files"
    [] \A i \in DOMAIN mimes : ~IsFiles(mimes[i]) /\ ~IsImage(mimes[i]) ->
         CASE sample = "colour" -> "color" [] sample = "link" -> "link" [] OTHER -> "text"
    [] OTHER -> "image"

-----------------------------------------------------------------------------
(* The places that hold content under a key for the first time.            *)
Firsts(offered) ==
  {p \in DOMAIN offered :
     /\ KeyOf[offered[p]] # "" /\ IsContent(KeyOf[offered[p]])
     /\ \A q \in DOMAIN offered : q < p => KeyOf[offered[q]] # KeyOf[offered[p]]}

(* A place is better ranked than another, or as good and earlier.          *)
Ahead(offered, x, y) ==
  \/ Rank(offered[x]) < Rank(offered[y])
  \/ Rank(offered[x]) = Rank(offered[y]) /\ x < y

(* What is archived of an offer (recordable()) is the content on it, each  *)
(* key once and as it was first spelled but for outer blanks, by rank and  *)
(* among equals by place, as much as may be recorded; what is cut off      *)
(* comes after all that is kept.                                           *)
FilterIsRight(offered) ==
  LET r == Recordable(offered)
      few == Cardinality(Firsts(offered))
  IN /\ Len(r) = IF few < MaxRepresentations THEN few ELSE MaxRepresentations
     /\ \E p \in [DOMAIN r -> Firsts(offered)] :
          /\ \A i \in DOMAIN r : r[i] = Trim[offered[p[i]]]
          /\ \A i, j \in DOMAIN r : i < j => Ahead(offered, p[i], p[j])
          /\ \A q \in Firsts(offered) :
               \/ \E i \in DOMAIN r : p[i] = q
               \/ \A i \in DOMAIN r : Ahead(offered, p[i], q)

(* Filtering what was filtered changes nothing: an entry that is put back  *)
(* on the clipboard offers what it holds, and that is archived again.      *)
FilterIsStable(offered) == Recordable(Recordable(offered)) = Recordable(offered)

(* Of what was filtered a preview or a thumbnail is made of the first part *)
(* that can carry it (best()), whichever parts those are.                  *)
BestIsFirst(offered) ==
  LET r == Recordable(offered)
  IN \A fit \in (SUBSET DOMAIN r) \ {{}} :
       Best(r, fit) \in fit /\ \A i \in fit : Best(r, fit) <= i
=============================================================================
