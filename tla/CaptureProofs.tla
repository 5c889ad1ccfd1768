--------------------------- MODULE CaptureProofs ---------------------------
(***************************************************************************)
(* What the platforms' watchers archive.  Whatever is copied while the     *)
(* macOS and Windows watchers read, no entry mixes two copies, nothing of  *)
(* a secret is archived, and the last copy is archived whole if it could   *)
(* be read.  On X11, whose conversions are answered one after the other on *)
(* the same property, no entry mixes two copies while nothing is left over *)
(* of what the watch has stopped waiting for.  Of the names that are on    *)
(* offer the filter keeps what it should, for any offer.                   *)
(***************************************************************************)
EXTENDS Native, Selection, Kinds,
        FiniteSetTheorems, SequenceTheorems, WellFoundedInduction, TLAPS

-----------------------------------------------------------------------------
(* The macOS and the Windows watcher. *)

(* The rows of a platform name its types and the mimes they stand for. *)
LEMMA RowTyped ==
  ASSUME NEW p \in Platforms, NEW i \in DOMAIN Rows[p]
  PROVE  Rows[p][i].type \in Types /\ Rows[p][i].mime \in Mimes
<1> DEFINE T(q) == {Rows[q][j].type : j \in DOMAIN Rows[q]}
           M(q) == {Rows[q][j].mime : j \in DOMAIN Rows[q]}
<1>1. Rows[p][i].type \in T(p) /\ Rows[p][i].mime \in M(p)
  OBVIOUS
<1>2. T(p) \in {T(q) : q \in Platforms} /\ M(p) \in {M(q) : q \in Platforms}
  OBVIOUS
<1>3. Types = UNION {T(q) : q \in Platforms} \cup {"flag"} /\ Mimes = UNION {M(q) : q \in Platforms}
  BY DEF Types, Mimes
<1> HIDE DEF T, M
<1> QED BY <1>1, <1>2, <1>3

(* So does the list of types that a read goes through. *)
LEMMA TableTyped ==
  ASSUME platform \in Platforms
  PROVE  /\ Len(Table) \in Nat
         /\ \A i \in 1 .. Len(Table) : Table[i].type \in Types /\ Table[i].mime \in Mimes
<1>1. Len(Table) \in Nat /\ 1 .. Len(Table) = DOMAIN Table
  <2>1. CASE platform = "macos"
    BY <2>1 DEF Table, Rows
  <2>2. CASE platform = "windows"
    BY <2>2 DEF Table, Rows
  <2> QED BY <2>1, <2>2 DEF Platforms
<1> QED BY <1>1, RowTyped DEF Table

(* Windows has one row for each name, the picture first and the bitmap     *)
(* last.                                                                   *)
LEMMA WindowsRows ==
  ASSUME platform = "windows"
  PROVE  /\ \A i, j \in 1 .. Len(Table) : Table[i].mime = Table[j].mime => i = j
         /\ \A i \in 1 .. Len(Table) :
              /\ Table[i].mime = "image/png" => i = 1
              /\ Table[i].mime = "image/bmp" => Table[i].type = "CF_DIB"
<1>1. Table = Rows["windows"] /\ Len(Table) = 5
  BY DEF Table, Rows
<1>2. /\ Table[1].mime = "image/png" /\ Table[2].mime = "text/html"
      /\ Table[3].mime = "text/plain;charset=utf-8" /\ Table[4].mime = "text/plain"
      /\ Table[5].mime = "image/bmp" /\ Table[5].type = "CF_DIB"
  BY <1>1 DEF Rows, Row
<1>3. \A i \in 1 .. 5 : i = 1 \/ i = 2 \/ i = 3 \/ i = 4 \/ i = 5
  OBVIOUS
<1>4. ASSUME NEW i \in 1 .. 5, NEW j \in 1 .. 5, Table[i].mime = Table[j].mime PROVE i = j
  <2>1. /\ i = 1 => j = 1
        /\ i = 2 => j = 2
        /\ i = 3 => j = 3
    BY ONLY <1>2, <1>3, <1>4
  <2>2. /\ i = 4 => j = 4
        /\ i = 5 => j = 5
    BY ONLY <1>2, <1>3, <1>4
  <2> QED BY <1>3, <2>1, <2>2
<1>5. ASSUME NEW i \in 1 .. 5
      PROVE  /\ Table[i].mime = "image/png" => i = 1
             /\ Table[i].mime = "image/bmp" => Table[i].type = "CF_DIB"
  BY ONLY <1>2, <1>3, <1>5
<1> QED BY <1>1, <1>4, <1>5

-----------------------------------------------------------------------------
(* What has been read comes from the rows before the next one, and on      *)
(* Windows the bitmap was not read beside the picture.                     *)
Formed ==
  /\ \A x \in parts : \E j \in 1 .. at - 1 : x.mime = Table[j].mime
  /\ platform = "windows" => ~ {"image/png", "image/bmp"} \subseteq Read
  /\ pc = "check" => platform = "macos"

(* Nobody has changed what is being read. *)
Untouched == pc \in {"read", "check"} /\ (platform = "windows" \/ seen = count)

Steady ==
  /\ Untouched => /\ copy = None \/ Mark[copy] # "concealed"
                  /\ \A x \in parts : x.copy = copy
  /\ pc = "record" => \A x, y \in parts : x.copy = y.copy /\ Mark[x.copy] # "concealed"

IndInv == TypeOK /\ Formed /\ Steady /\ OneCopy /\ NoSecret

(* The invariant holds at first. *)
LEMMA InitInd == Init => IndInv
<1> SUFFICES ASSUME Init PROVE IndInv
  OBVIOUS
<1>1. Len(Table) \in Nat
  BY TableTyped DEF Init
<1>2. OfferOf(copy) \subseteq Types
  BY NativeAssumption DEF Init, OfferOf
<1>3. TypeOK
  BY <1>1, <1>2, NativeAssumption DEF Init, TypeOK
<1> QED BY <1>3 DEF Init, IndInv, Formed, Steady, Untouched, OneCopy, NoSecret, Read

(* The applications' steps leave the watcher alone, and it notices.        *)
LEMMA CopyKeeps ==
  ASSUME IndInv, NEW c \in Copies \cup {None}, Claim(c) \/ Put(c)
  PROVE  IndInv'
<1>1. UNCHANGED <<platform, watcher, archive>> /\ count' = count + 1 /\ copy' = c
  BY DEF Claim, Put
<1>2. OfferOf(c) \subseteq Types /\ given' \subseteq OfferOf(c)
  BY <1>1, NativeAssumption DEF IndInv, TypeOK, Claim, Put, OfferOf
<1>3. TypeOK'
  <2>1. CASE Claim(c)
    <3>1. copy' \in Copies \cup {None} /\ given' \subseteq OfferOf(copy)' /\ count' \in 0 .. MaxChanges
      BY <1>1, <2>1, NativeAssumption DEF IndInv, TypeOK, Claim, OfferOf
    <3>2. holder' = holder /\ posted' = posted /\ Table' = Table
      BY <1>1, <2>1 DEF Claim, Table
    <3>3. posted' + (IF holder' = "changed" THEN 1 ELSE 0) <= count' /\ seen' \in 0 .. count'
      BY <1>1, <3>1, <3>2 DEF IndInv, TypeOK, watcher
    <3>4. short' \in BOOLEAN
      BY <2>1 DEF Claim
    <3> QED
      BY <1>1, <3>1, <3>2, <3>3, <3>4 DEF IndInv, TypeOK, watcher, Read
  <2>2. CASE Put(c)
    <3>1. copy' \in Copies \cup {None} /\ given' \subseteq OfferOf(copy)' /\ count' \in 0 .. MaxChanges
      BY <1>1, <1>2, <2>2, NativeAssumption DEF IndInv, TypeOK, Put, OfferOf
    <3>2. holder = "other" /\ holder' = "changed" /\ posted' = posted /\ Table' = Table
      BY <1>1, <2>2 DEF Put, Table
    <3>3. posted' + (IF holder' = "changed" THEN 1 ELSE 0) <= count' /\ seen' \in 0 .. count'
      BY <1>1, <3>1, <3>2 DEF IndInv, TypeOK, watcher
    <3>4. short' \in BOOLEAN /\ platform # "macos"
      BY <2>2, NativeAssumption DEF Put, IndInv, TypeOK
    <3> QED
      BY <1>1, <3>1, <3>2, <3>3, <3>4 DEF IndInv, TypeOK, watcher, Read
  <2> QED BY <2>1, <2>2
<1>4. ~Untouched'
  BY <1>1, NativeAssumption DEF IndInv, TypeOK, Formed, Untouched, Claim, Put, watcher, Platforms
<1> QED
  BY <1>1, <1>3, <1>4 DEF IndInv, Formed, Steady, OneCopy, NoSecret, watcher, Table, Read

(* What others do, short of replacing the copy, keeps it. *)
LEMMA OthersKeep ==
  ASSUME IndInv, (\E type \in Types : Give(type)) \/ OpenOther \/ CloseOther
  PROVE  IndInv'
<1>1. UNCHANGED <<platform, copy, count, watcher, archive>>
  BY DEF Give, OpenOther, CloseOther, board
<1>2. TypeOK'
  BY <1>1, NativeAssumption
  DEF IndInv, TypeOK, Give, OpenOther, CloseOther, watcher, board, OfferOf, Table
<1> QED
  BY <1>1, <1>2
  DEF IndInv, Formed, Steady, Untouched, OneCopy, NoSecret, watcher, Table, Read

(* A poll and an opened clipboard begin a read with nothing read. *)
LEMMA BeginKeeps ==
  ASSUME IndInv, Poll \/ Open
  PROVE  IndInv'
<1>1. UNCHANGED <<platform, copy, count, given, offered, at, parts, archive>> /\ pc' \in {"types", "idle"}
  BY DEF Poll, Open, board, IndInv, TypeOK
<1>2. TypeOK'
  <2>1. CASE Poll
    BY <1>1, <2>1, NativeAssumption DEF IndInv, TypeOK, Poll, OfferOf, Table, Platforms
  <2>2. CASE Open
    <3>1. platform = "windows" /\ pc = "idle" /\ posted > 0 /\ posted' = posted - 1 /\ seen' = seen
      BY <2>2 DEF Open
    <3>2. posted' \in Nat /\ posted' + (IF holder' = "changed" THEN 1 ELSE 0) <= count
      BY <2>2, <3>1 DEF Open, IndInv, TypeOK
    <3>3. /\ holder' \in {None, "other", "changed", "reader"} /\ short' \in BOOLEAN
          /\ holder' = "reader" <=> pc' = "types"
      BY <2>2, <3>1, NativeAssumption DEF Open, IndInv, TypeOK
    <3>4. OfferOf(copy)' = OfferOf(copy) /\ Table' = Table
      BY <1>1 DEF OfferOf, Table
    <3> QED BY <1>1, <3>1, <3>2, <3>3, <3>4 DEF IndInv, TypeOK
  <2> QED BY <2>1, <2>2
<1> QED
  BY <1>1, <1>2 DEF IndInv, Formed, Steady, Untouched, OneCopy, NoSecret, Table, Read

(* The look at the types condemns a secret and nothing else. *)
LEMMA LookKeeps == ASSUME IndInv, Look PROVE IndInv'
<1>1. UNCHANGED <<platform, copy, count, given, posted, seen, archive>>
  BY DEF Look, board
<1>2. OfferOf(copy) \subseteq Types /\ Len(Table) \in Nat
  BY NativeAssumption, TableTyped DEF IndInv, TypeOK, OfferOf
<1>3. CASE Concealed
  <2>1. TypeOK'
    BY <1>1, <1>3, NativeAssumption DEF IndInv, TypeOK, Look, LetGo, OfferOf, Table
  <2> QED
    BY <1>1, <1>3, <2>1
    DEF Look, IndInv, Formed, Steady, Untouched, OneCopy, NoSecret, Table, Read
<1>4. CASE ~Concealed
  <2>1. pc' = "read" /\ offered' = OfferOf(copy) /\ at' = 1 /\ parts' = {} /\ UNCHANGED <<holder, short>>
    BY <1>4 DEF Look
  <2>2. TypeOK'
    BY <1>1, <1>2, <2>1, NativeAssumption DEF IndInv, TypeOK, Look, OfferOf, Table
  <2>3. copy = None \/ Mark[copy] # "concealed"
    BY <1>4 DEF Concealed
  <2> QED
    BY <1>1, <2>1, <2>2, <2>3
    DEF IndInv, Formed, Steady, Untouched, OneCopy, NoSecret, Table, Read
<1> QED BY <1>3, <1>4

(* What is read is of the copy that is there. *)
LEMMA ReadKeeps == ASSUME IndInv, ReadOne PROVE IndInv'
<1>1. PICK i \in Rest :
        /\ at' = i + 1
        /\ parts' = IF Table[i].type \in given
                    THEN parts \cup {[mime |-> Table[i].mime, copy |-> copy]} ELSE parts
        /\ short' = (short \/ Table[i].type \in OfferOf(copy) \ given)
  BY DEF ReadOne
<1>2. pc = "read" /\ UNCHANGED <<platform, copy, count, given, holder, posted, pc, seen, offered, archive>>
  BY DEF ReadOne, board
<1>3. i \in 1 .. Len(Table) /\ at <= i /\ Len(Table) \in Nat /\ Due(i)
  BY TableTyped DEF Rest, IndInv, TypeOK
<1>4. Table[i].mime \in Mimes /\ Table' = Table
  BY <1>2, <1>3, TableTyped DEF IndInv, TypeOK, Table
<1>5. CASE Table[i].type \notin given
  <2>1. TypeOK'
    BY <1>1, <1>2, <1>3, <1>4, <1>5 DEF IndInv, TypeOK, OfferOf
  <2>2. \A x \in parts : \E j \in 1 .. at' - 1 : x.mime = Table[j].mime
    BY <1>1, <1>3 DEF IndInv, Formed, TypeOK
  <2> QED
    BY <1>1, <1>2, <1>4, <1>5, <2>1, <2>2
    DEF IndInv, Formed, Steady, Untouched, OneCopy, NoSecret, Read
<1>6. CASE Table[i].type \in given
  <2> DEFINE new == [mime |-> Table[i].mime, copy |-> copy]
  <2>1. parts' = parts \cup {new} /\ copy \in Copies /\ new \in Part
    BY <1>1, <1>4, <1>6 DEF IndInv, TypeOK, OfferOf, Part
  <2>2. \A x \in parts : \E j \in 1 .. i - 1 : x.mime = Table[j].mime
    BY <1>3 DEF IndInv, Formed, TypeOK
  <2>3. \A x \in parts : x.mime # new.mime
    <3>1. CASE platform = "windows"
      BY <1>3, <2>2, <3>1, WindowsRows
    <3>2. CASE platform = "macos"
      <4>1. CASE i = 1
        BY <2>2, <4>1
      <4>2. CASE i # 1
        BY <1>3, <3>2, <4>2 DEF Due, Read
      <4> QED BY <4>1, <4>2
    <3> QED BY <3>1, <3>2 DEF IndInv, TypeOK, Platforms
  <2>4. TypeOK'
    BY <1>1, <1>2, <1>3, <1>4, <2>1, <2>3 DEF IndInv, TypeOK, OfferOf
  <2>5. platform = "windows" => ~ {"image/png", "image/bmp"} \subseteq Read'
    <3> SUFFICES ASSUME platform = "windows",
                        NEW x \in parts', NEW y \in parts',
                        x.mime = "image/png", y.mime = "image/bmp"
                 PROVE  FALSE
      BY DEF Read
    <3>1. ~(x \in parts /\ y \in parts)
      BY DEF IndInv, Formed, Read
    <3>2. CASE x = new /\ y \in parts
      <4>1. i = 1
        BY <1>3, <3>2, WindowsRows
      <4> QED BY <2>2, <3>2, <4>1
    <3>3. CASE x \in parts /\ y = new
      <4>1. "image/png" \in Read /\ Table[i].type = "CF_DIB"
        BY <1>3, <3>3, WindowsRows DEF Read
      <4> QED BY <1>3, <4>1 DEF Due
    <3> QED BY <2>1, <3>1, <3>2, <3>3
  <2>6. Formed'
    <3>1. \A x \in parts' : \E j \in 1 .. at' - 1 : x.mime = Table'[j].mime
      BY <1>1, <1>3, <1>4, <2>1, <2>2 DEF IndInv, TypeOK
    <3> QED BY <1>2, <2>5, <3>1 DEF Formed
  <2>7. Steady'
    BY <1>2, <2>1 DEF IndInv, Steady, Untouched
  <2> QED BY <1>2, <2>4, <2>6, <2>7 DEF IndInv, OneCopy, NoSecret
<1> QED BY <1>5, <1>6

(* A read that ends is of one copy, or is thrown away. *)
LEMMA EndKeeps == ASSUME IndInv, ReadAll \/ Check PROVE IndInv'
<1>1. UNCHANGED <<platform, copy, count, given, posted, seen, offered, at, parts, archive, short>>
  BY DEF ReadAll, Check, board
<1>2. TypeOK'
  BY <1>1, NativeAssumption DEF IndInv, TypeOK, ReadAll, Check, LetGo, OfferOf, Table, Formed, Platforms
<1>3. Formed'
  BY <1>1 DEF IndInv, Formed, ReadAll, Check, Table, Read, TypeOK, Platforms
<1>4. Steady'
  <2>1. CASE ReadAll
    BY <1>1, <2>1, NativeAssumption
    DEF IndInv, TypeOK, Steady, Untouched, ReadAll, Part, Platforms
  <2>2. CASE Check
    BY <1>1, <2>2, NativeAssumption
    DEF IndInv, TypeOK, Steady, Untouched, Check, Part, Formed
  <2> QED BY <2>1, <2>2
<1> QED BY <1>1, <1>2, <1>3, <1>4 DEF IndInv, OneCopy, NoSecret

(* What is recorded is what was read. *)
LEMMA RecordKeeps == ASSUME IndInv, Record PROVE IndInv'
<1>1. pc = "record" /\ pc' = "idle" /\ parts' = {}
      /\ UNCHANGED <<platform, copy, count, given, holder, posted, seen, offered, at>>
  BY DEF Record, board
<1>2. PICK kept \in SUBSET parts :
        /\ archive' = archive \cup ({kept} \ {{}})
        /\ short' = (short \/ \E x \in parts \ kept : x.copy = copy)
  BY DEF Record
<1>3. TypeOK'
  BY <1>1, <1>2, NativeAssumption DEF IndInv, TypeOK, OfferOf, Table
<1>4. /\ \A x, y \in kept : x.copy = y.copy /\ (x.mime = y.mime => x = y)
      /\ platform = "windows" => ~ {"image/png", "image/bmp"} \subseteq {x.mime : x \in kept}
  BY <1>1, <1>2 DEF IndInv, TypeOK, Steady, Formed, Read
<1>5. \A x \in kept : Mark[x.copy] # "concealed"
  BY <1>1, <1>2 DEF IndInv, Steady
<1>6. OneCopy'
  BY <1>1, <1>2, <1>4 DEF IndInv, OneCopy
<1>7. NoSecret'
  BY <1>2, <1>5 DEF IndInv, NoSecret
<1> QED BY <1>1, <1>3, <1>6, <1>7 DEF IndInv, Formed, Steady, Untouched, Read

(* Every step keeps the invariant. *)
LEMMA StepInd == IndInv /\ [Next]_vars => IndInv'
<1> SUFFICES ASSUME IndInv, [Next]_vars PROVE IndInv'
  OBVIOUS
<1>1. CASE UNCHANGED vars
  BY <1>1 DEF vars, board, watcher, IndInv, TypeOK, Formed, Steady, Untouched, OneCopy,
              NoSecret, OfferOf, Table, Read
<1> QED
  BY <1>1, CopyKeeps, OthersKeep, BeginKeeps, LookKeeps, ReadKeeps, EndKeeps, RecordKeeps
  DEF Next

(* Every variable keeps its type: the clipboard is open to the watcher     *)
(* exactly while it reads (capture/windows.rs read()), and no name is read *)
(* twice.                                                                  *)
THEOREM NativeTyped == Spec => []TypeOK
<1> QED BY InitInd, StepInd, PTL DEF Spec, IndInv

(* No entry mixes two copies (capture/macos.rs watch(), windows.rs read()). *)
THEOREM EntriesAreOneCopy == Spec => []OneCopy
<1> QED BY InitInd, StepInd, PTL DEF Spec, IndInv

(* Nothing of a copy marked as a secret is archived, even one copied in    *)
(* the middle of a read (capture/macos.rs read(), windows.rs concealed()). *)
THEOREM SecretsStayOut == Spec => []NoSecret
<1> QED BY InitInd, StepInd, PTL DEF Spec, IndInv

-----------------------------------------------------------------------------
(* Nothing that could be read is missed. *)

Readable(j) ==
  /\ Table[j].type \in OfferOf(copy)
  /\ Table[j].type = "CF_TEXT" => "CF_UNICODETEXT" \notin OfferOf(copy)
  /\ Table[j].type = "CF_DIB" => "PNG" \notin OfferOf(copy)

Entire == {[mime |-> m, copy |-> copy] : m \in Whole(copy)}

Kept ==
  \/ Mark[copy] = "concealed"
  \/ Whole(copy) = {}
  \/ Entire \in archive

(* The change that made the clipboard what it is has been noticed.         *)
Noticed ==
  \/ platform = "macos" /\ seen = count
  \/ platform = "windows" /\ posted = 0 /\ holder # "changed"

(* Of the rows passed, each that the whole copy has was read, and no other.*)
ReadSoFar ==
  /\ offered = OfferOf(copy)
  /\ parts \subseteq Entire
  /\ \A j \in 1 .. at - 1 : Readable(j) => Table[j].mime \in Read

Catching ==
  Noticed /\ ~short /\ copy # None =>
    /\ pc = "idle" => Kept
    /\ pc = "read" => ReadSoFar
    /\ pc \in {"check", "record"} => parts = Entire

(* A copy is whole when every type that is wanted of it was read. *)
LEMMA WholeIsWanted ==
  ASSUME platform \in Platforms
  PROVE  Whole(copy) = {Table[j].mime : j \in {i \in 1 .. Len(Table) : Readable(i)}}
<1>1. DOMAIN Table = 1 .. Len(Table)
  <2>1. CASE platform = "macos"
    BY <2>1 DEF Table, Rows
  <2>2. CASE platform = "windows"
    BY <2>2 DEF Table, Rows
  <2> QED BY <2>1, <2>2 DEF Platforms
<1> QED BY <1>1 DEF Whole, Readable

(* Only Windows has the plainer text and the bare bitmap.                  *)
LEMMA MacRows ==
  ASSUME platform = "macos", NEW j \in 1 .. Len(Table)
  PROVE  Table[j].type \notin {"CF_TEXT", "CF_DIB"}
<1>1. Table = Rows["macos"] /\ Len(Table) = 11
  BY DEF Table, Rows
<1>2. /\ Table[1].type = "public.file-url" /\ Table[2].type = "public.png"
      /\ Table[3].type = "public.jpeg" /\ Table[4].type = "public.tiff"
      /\ Table[5].type = "public.html" /\ Table[6].type = "public.rtf"
      /\ Table[7].type = "public.file-url" /\ Table[8].type = "public.url"
      /\ Table[9].type = "public.utf8-plain-text" /\ Table[10].type = "NSStringPboardType"
      /\ Table[11].type = "NeXT TIFF v4.0 pasteboard type"
  BY <1>1 DEF Rows, Row
<1>3. j \in 1 .. 6 \/ j \in 7 .. 11
  BY <1>1
<1>4. j \in 1 .. 6 => j = 1 \/ j = 2 \/ j = 3 \/ j = 4 \/ j = 5 \/ j = 6
  OBVIOUS
<1>5. j \in 7 .. 11 => j = 7 \/ j = 8 \/ j = 9 \/ j = 10 \/ j = 11
  OBVIOUS
<1> QED BY <1>2, <1>3, <1>4, <1>5

(* On Windows a picture is wanted in its first form, or in its other form  *)
(* when the first is not offered.                                          *)
LEMMA WindowsPicture ==
  ASSUME platform = "windows"
  PROVE  /\ 1 \in 1 .. Len(Table)
         /\ Table[1].type = "PNG" /\ Table[1].mime = "image/png"
         /\ \A j \in 1 .. Len(Table) : Table[j].type = "CF_DIB" => j = 5
<1>1. Table = Rows["windows"] /\ Len(Table) = 5
  BY DEF Table, Rows
<1>2. /\ Table[1].type = "PNG" /\ Table[1].mime = "image/png"
      /\ Table[2].type = "HTML Format" /\ Table[3].type = "CF_UNICODETEXT"
      /\ Table[4].type = "CF_TEXT" /\ Table[5].type = "CF_DIB"
  BY <1>1 DEF Rows, Row
<1>3. \A i \in 1 .. 5 : i = 1 \/ i = 2 \/ i = 3 \/ i = 4 \/ i = 5
  OBVIOUS
<1>4. ASSUME NEW j \in 1 .. 5, Table[j].type = "CF_DIB" PROVE j = 5
  BY <1>2, <1>3, <1>4
<1>5. 1 \in 1 .. Len(Table) /\ 1 .. Len(Table) = 1 .. 5
  BY <1>1
<1>6. \A j \in 1 .. Len(Table) : Table[j].type = "CF_DIB" => j = 5
  BY <1>4, <1>5
<1>7. Table[1].type = "PNG" /\ Table[1].mime = "image/png"
  BY <1>2
<1> QED BY <1>5, <1>6, <1>7

(* A row that is passed over and belongs to the whole has been read under  *)
(* its name.                                                               *)
LEMMA PassedIsRead ==
  ASSUME IndInv, ReadSoFar, NEW j \in at .. Len(Table), ~Due(j), Readable(j)
  PROVE  Table[j].mime \in Read
<1>1. j \in 1 .. Len(Table) /\ platform \in Platforms
  BY TableTyped DEF IndInv, TypeOK
<1>2. CASE platform = "macos"
  BY <1>2 DEF Due, Readable, ReadSoFar
<1>3. CASE platform = "windows"
  <2>1. Table[j].type = "CF_DIB" /\ "image/png" \in Read
    BY <1>3 DEF Due, Readable
  <2>2. PICK x \in parts : x.mime = "image/png"
    BY <2>1 DEF Read
  <2>3. x \in Entire
    BY <2>2 DEF ReadSoFar
  <2>4. PICK i \in 1 .. Len(Table) : Readable(i) /\ Table[i].mime = "image/png"
    BY <1>1, <2>2, <2>3, WholeIsWanted DEF Entire
  <2>5. i = 1 /\ Table[1].type = "PNG"
    BY <1>3, <2>4, WindowsRows, WindowsPicture
  <2> QED BY <2>1, <2>4, <2>5 DEF Readable
<1> QED BY <1>1, <1>2, <1>3 DEF Platforms

(* What is read next belongs to the whole. *)
LEMMA DueIsWanted ==
  ASSUME IndInv, ReadSoFar, NEW i \in at .. Len(Table), Due(i),
         Table[i].type \in OfferOf(copy), \A j \in at .. Len(Table) : Due(j) => i <= j
  PROVE  Readable(i)
<1>1. i \in 1 .. Len(Table) /\ platform \in Platforms /\ at \in Nat /\ Len(Table) \in Nat
  BY TableTyped DEF IndInv, TypeOK
<1>2. CASE platform = "macos"
  BY <1>1, <1>2, MacRows DEF Readable
<1>3. CASE platform = "windows"
  <2> SUFFICES ASSUME Table[i].type = "CF_DIB", "PNG" \in OfferOf(copy) PROVE FALSE
    BY <1>3 DEF Due, Readable
  <2>1. i = 5 /\ Readable(1) /\ Table[1].mime = "image/png"
    BY <1>1, <1>3, WindowsPicture DEF Readable
  <2>2. "image/png" \notin Read
    BY <1>3 DEF Due
  <2>3. CASE 1 \in 1 .. at - 1
    BY <2>1, <2>2, <2>3 DEF ReadSoFar
  <2>4. CASE 1 \in at .. Len(Table)
    <3>1. ~Due(1)
      BY <2>1, <2>4
    <3> QED BY <2>1, <2>2, <2>4, <3>1, PassedIsRead
  <2>5. 1 \in 1 .. at - 1 \/ 1 \in at .. Len(Table)
    BY <1>1, <1>3, WindowsPicture DEF IndInv, TypeOK
  <2> QED BY <2>3, <2>4, <2>5
<1> QED BY <1>1, <1>2, <1>3 DEF Platforms

(* What others do leaves a watcher that will come to the last copy, or     *)
(* excuses it.                                                             *)
LEMMA CatchingFromOthers ==
  ASSUME IndInv, Catching,
         \/ \E c \in Copies \cup {None} : Claim(c) \/ Put(c)
         \/ \E type \in Types : Give(type)
         \/ OpenOther \/ CloseOther
  PROVE  Catching'
<1>1. CASE \E c \in Copies \cup {None} : Claim(c) \/ Put(c)
  <2>1. ~Noticed'
    BY <1>1, NativeAssumption DEF Claim, Put, Noticed, IndInv, TypeOK, watcher
  <2> QED BY <2>1 DEF Catching
<1>2. CASE (\E type \in Types : Give(type)) \/ OpenOther \/ CloseOther
  <2>1. UNCHANGED <<platform, copy, count, watcher, archive, short>>
    BY <1>2 DEF Give, OpenOther, CloseOther, board
  <2>2. Noticed' => Noticed
    BY <1>2, <2>1, NativeAssumption DEF Give, OpenOther, CloseOther, Noticed, watcher, IndInv, TypeOK
  <2>3. UNCHANGED <<Kept, Entire, ReadSoFar>>
    BY <2>1 DEF Kept, Entire, Whole, ReadSoFar, Read, Readable, OfferOf, Table, watcher
  <2> QED BY <2>1, <2>2, <2>3 DEF Catching, watcher
<1> QED BY <1>1, <1>2

(* A read that begins is of the last copy. *)
LEMMA CatchingFromStart ==
  ASSUME IndInv, Catching, Poll \/ Open \/ Look
  PROVE  Catching'
<1>1. UNCHANGED <<platform, copy, archive>>
  BY DEF Poll, Open, Look, board
<1>2. UNCHANGED <<Kept, Entire>>
  BY <1>1 DEF Kept, Entire, Whole, OfferOf, Table
<1>3. CASE Poll
  BY <1>3 DEF Poll, Catching
<1>4. CASE Open
  BY <1>4 DEF Open, Catching
<1>5. CASE Look
  <2>1. CASE Concealed
    <3>1. pc' = "idle" /\ (~short' => Mark[copy] = "concealed")
      BY <1>5, <2>1 DEF Look, Concealed
    <3> QED BY <1>1, <3>1 DEF Catching, Kept
  <2>2. CASE ~Concealed
    <3>1. pc' = "read" /\ offered' = OfferOf(copy) /\ at' = 1 /\ parts' = {}
      BY <1>5, <2>2 DEF Look
    <3>2. ReadSoFar'
      BY <1>1, <3>1 DEF ReadSoFar, OfferOf
    <3> QED BY <3>1, <3>2 DEF Catching
  <2> QED BY <2>1, <2>2
<1> QED BY <1>3, <1>4, <1>5

(* What is read of it is all that was wanted so far. *)
LEMMA CatchingFromReadOne ==
  ASSUME IndInv, Catching, ReadOne
  PROVE  Catching'
<1>1. PICK i \in Rest :
        /\ \A j \in Rest : i <= j
        /\ at' = i + 1
        /\ parts' = IF Table[i].type \in given
                    THEN parts \cup {[mime |-> Table[i].mime, copy |-> copy]} ELSE parts
        /\ short' = (short \/ Table[i].type \in OfferOf(copy) \ given)
  BY DEF ReadOne
<1>2. pc = "read" /\ UNCHANGED <<platform, copy, count, given, holder, posted, pc, seen, offered, archive>>
  BY DEF ReadOne, board
<1>3. SUFFICES ASSUME Noticed', ~short', copy' # None PROVE ReadSoFar'
  BY <1>2 DEF Catching
<1>4. Noticed /\ ~short /\ copy # None /\ (Table[i].type \in OfferOf(copy) => Table[i].type \in given)
  BY <1>1, <1>2, <1>3 DEF Noticed
<1>5. ReadSoFar
  BY <1>2, <1>4 DEF Catching
<1>6. /\ i \in at .. Len(Table) /\ Due(i) /\ at \in 1 .. Len(Table) + 1 /\ Len(Table) \in Nat
      /\ \A j \in at .. Len(Table) : Due(j) => i <= j
      /\ platform \in Platforms
  BY <1>1, TableTyped DEF Rest, IndInv, TypeOK
<1>7. UNCHANGED <<Entire, Table, OfferOf(copy)>> /\ \A j : Readable(j)' = Readable(j)
  BY <1>2 DEF Entire, Whole, OfferOf, Table, Readable
<1>8. parts' \subseteq Entire
  <2>1. CASE Table[i].type \in given
    <3>1. Readable(i)
      BY <1>5, <1>6, <2>1, DueIsWanted DEF IndInv, TypeOK
    <3>2. Table[i].mime \in Whole(copy)
      BY <1>6, <3>1, WholeIsWanted
    <3>3. [mime |-> Table[i].mime, copy |-> copy] \in Entire
      BY <3>2 DEF Entire
    <3> QED BY <1>1, <1>5, <2>1, <3>3 DEF ReadSoFar
  <2>2. CASE Table[i].type \notin given
    BY <1>1, <1>5, <2>2 DEF ReadSoFar
  <2> QED BY <2>1, <2>2
<1>9. Read \subseteq Read' /\ (Table[i].type \in given => Table[i].mime \in Read')
  <2>1. parts \subseteq parts'
    BY <1>1
  <2>2. Table[i].type \in given => [mime |-> Table[i].mime, copy |-> copy] \in parts'
    BY <1>1
  <2> QED BY <2>1, <2>2 DEF Read
<1>10. ASSUME NEW j \in 1 .. i, Readable(j) PROVE Table[j].mime \in Read'
  <2>1. CASE j \in 1 .. at - 1
    BY <1>5, <1>9, <1>10, <2>1 DEF ReadSoFar
  <2>2. CASE j \in at .. i - 1
    <3>1. j \in at .. Len(Table) /\ ~Due(j)
      BY <1>6, <2>2
    <3> QED BY <1>5, <1>9, <1>10, <3>1, PassedIsRead
  <2>3. CASE j = i
    BY <1>4, <1>9, <1>10, <2>3 DEF Readable
  <2> QED BY <1>6, <2>1, <2>2, <2>3
<1>11. at' - 1 = i
  BY <1>1, <1>6
<1> QED BY <1>2, <1>5, <1>7, <1>8, <1>10, <1>11 DEF ReadSoFar

(* A read that ends has recorded it, or another read will. *)
LEMMA CatchingFromEnd ==
  ASSUME IndInv, Catching, ReadAll \/ Check \/ Record
  PROVE  Catching'
<1>1. UNCHANGED <<platform, copy, count, posted, seen>> /\ (Noticed' => Noticed)
  BY NativeAssumption DEF ReadAll, Check, Record, board, Noticed, LetGo, IndInv, TypeOK
<1>2. UNCHANGED Entire /\ UNCHANGED Whole(copy)
  BY <1>1 DEF Entire, Whole, OfferOf, Table
<1>3. SUFFICES ASSUME Noticed', ~short', copy' # None
               PROVE  /\ pc' = "idle" => Kept'
                      /\ pc' = "read" => ReadSoFar'
                      /\ pc' \in {"check", "record"} => parts' = Entire'
  BY DEF Catching
<1>4. Noticed /\ ~short /\ copy # None
  <2>1. short => short'
    <3>1. CASE Record
      BY <3>1 DEF Record
    <3> QED BY <3>1 DEF ReadAll, Check
  <2> QED BY <1>1, <1>3, <2>1
<1>5. CASE ReadAll
  <2>1. pc = "read" /\ Rest = {} /\ pc' \in {"check", "record"} /\ parts' = parts
    BY <1>5 DEF ReadAll
  <2>2. ReadSoFar
    BY <1>4, <2>1 DEF Catching
  <2>3. at \in 1 .. Len(Table) + 1 /\ Len(Table) \in Nat /\ platform \in Platforms
    BY TableTyped DEF IndInv, TypeOK
  <2>4. ASSUME NEW j \in 1 .. Len(Table), Readable(j) PROVE Table[j].mime \in Read
    <3>1. CASE j \in 1 .. at - 1
      BY <2>2, <2>4, <3>1 DEF ReadSoFar
    <3>2. CASE j \in at .. Len(Table)
      BY <2>1, <2>2, <2>4, <3>2, PassedIsRead DEF Rest
    <3> QED BY <2>3, <3>1, <3>2
  <2>5. Whole(copy) \subseteq Read
    BY <2>3, <2>4, WholeIsWanted
  <2>6. Entire \subseteq parts
    <3> SUFFICES ASSUME NEW m \in Whole(copy) PROVE [mime |-> m, copy |-> copy] \in parts
      BY DEF Entire
    <3>1. PICK x \in parts : x.mime = m
      BY <2>5 DEF Read
    <3>2. x \in Entire
      BY <2>2 DEF ReadSoFar
    <3>3. x = [mime |-> m, copy |-> copy]
      BY <3>1, <3>2 DEF Entire
    <3> QED BY <3>3
  <2> QED BY <1>2, <2>1, <2>2, <2>6 DEF ReadSoFar
<1>6. CASE Check
  <2>1. pc = "check" /\ pc' = (IF count = seen THEN "record" ELSE "idle") /\ parts' = parts
    BY <1>6 DEF Check
  <2>2. count = seen
    BY <1>4, <2>1 DEF Noticed, IndInv, Formed
  <2> QED BY <1>2, <1>4, <2>1, <2>2 DEF Catching
<1>7. CASE Record
  <2>1. PICK kept \in SUBSET parts :
          /\ archive' = archive \cup ({kept} \ {{}})
          /\ short' = (short \/ \E x \in parts \ kept : x.copy = copy)
    BY <1>7 DEF Record
  <2>2. pc = "record" /\ pc' = "idle" /\ parts = Entire
    BY <1>4, <1>7 DEF Record, Catching
  <2>3. kept = Entire
    <3>1. \A x \in parts : x.copy = copy
      BY <2>2 DEF Entire
    <3>2. ~ \E x \in parts \ kept : x.copy = copy
      BY <1>3, <2>1
    <3>3. parts \subseteq kept
      BY <3>1, <3>2
    <3> QED BY <2>1, <2>2, <3>3
  <2>4. Entire = {} => Whole(copy) = {}
    BY DEF Entire
  <2> QED BY <1>1, <1>2, <2>1, <2>2, <2>3, <2>4 DEF Kept
<1> QED BY <1>5, <1>6, <1>7

(* The last copy is archived whole once the watcher is at rest, unless it  *)
(* is a secret or could not be read whole (capture/macos.rs watch(),       *)
(* capture/windows.rs wndproc(), capture/mod.rs Recorder).                 *)
THEOREM LastCopyIsCaught == Spec => []Caught
<1>1. Init => Catching
  BY DEF Init, Catching
<1>2. IndInv /\ Catching /\ [Next]_vars => Catching'
  <2> SUFFICES ASSUME IndInv, Catching, [Next]_vars PROVE Catching'
    OBVIOUS
  <2>1. CASE UNCHANGED vars
    BY <2>1 DEF vars, board, watcher, Catching, Noticed, Kept, Entire, Whole, ReadSoFar, Read,
                Readable, OfferOf, Table
  <2> QED
    BY <2>1, CatchingFromOthers, CatchingFromStart, CatchingFromReadOne, CatchingFromEnd DEF Next
<1>3. IndInv /\ Catching => Caught
  <2>1. None # "changed"
    BY NativeAssumption
  <2>2. IndInv /\ AtRest => Noticed /\ pc = "idle"
    BY <2>1 DEF IndInv, TypeOK, Platforms, AtRest, Noticed
  <2> QED BY <2>2 DEF Catching, Caught, Kept, Entire
<1> QED BY InitInd, StepInd, <1>1, <1>2, <1>3, PTL DEF Spec

-----------------------------------------------------------------------------
(* The X11 watch. *)

(* A conversion, a transfer, what an owner leaves on the property, and     *)
(* what the daemon may hear.                                               *)
Conversion == [copy : 1 .. MaxCopies, target : Targets]
Transfer == [copy : 1 .. MaxCopies, target : Representations, next : 1 .. Chunks + 1, ready : BOOLEAN]
Left == [type : {"none", "atoms", "data", "INCR"}, pieces : SUBSET Pieces]
Events == {"owner", "new", "deleted", "answer", "refusal"}

Reading == {"data", "takeData", "increment", "takeChunk"}

(* What the typing of the X11 watch rests on: nothing is collected before  *)
(* the targets are known, and what is asked for is not to be asked again.  *)
X11Fits ==
  /\ asked \in Seq(Conversion)
  /\ transfers \subseteq Transfer
  /\ property \in Left
  /\ queue \in Seq(Events)
  /\ stage \in Reading => target \in Representations \ todo
  /\ stage \notin Reading \cup {"next"} => todo = {} /\ DOMAIN collected = {}

X11Typed == X11TypeOK /\ X11Fits

(* Nothing is on its way where there is no connection, and a transfer's    *)
(* bytes are kept no longer than it lasts.                                 *)
Orderly ==
  /\ owner \in {0, Len(offers)}
  /\ ~live => asked = <<>> /\ transfers = {} /\ queue = <<>>
  /\ stage \notin {"increment", "takeChunk"} => bytes = {}

(* The copy that is read. *)
Latest == Len(offers)

(* What may be left of an earlier conversion: that its answer is deleted.  *)
Remains == {<<>>, <<"deleted">>}

Afterwards(event) == {<<event>>, <<"deleted", event>>}

(* The property as the latest copy leaves it, asked for t. *)
Proper(t) ==
  /\ Latest \in DOMAIN offers
  /\ IF t = "TARGETS"
     THEN property = [type |-> "atoms", pieces |-> {Piece(Latest, t, 0)}] /\ transfers = {}
     ELSE \/ /\ property.type = "INCR" /\ offers[Latest].form[t] = "incremental"
             /\ transfers \subseteq {[copy |-> Latest, target |-> t, next |-> 1, ready |-> FALSE]}
          \/ /\ property.type = "data" /\ property.pieces = Content(Latest, t)
             /\ transfers = {}

(* A conversion is with the latest copy, answered, or in vain. *)
Unanswered ==
  /\ Latest \in DOMAIN offers /\ asked = <<[copy |-> Latest, target |-> target]>>
  /\ transfers = {} /\ queue \in Remains

Answered ==
  /\ asked = <<>> /\ Proper(target)
  /\ queue \in {<<"new", "answer">>, <<"deleted", "new", "answer">>, <<"answer">>}

InVain ==
  /\ asked = <<>> /\ transfers = {}
  /\ queue \in Remains \cup Afterwards("refusal")

(* The first k chunks of the transfer are taken, and the next is not yet   *)
(* on the property,                                                        *)
Between(k) ==
  /\ property = NoProperty
  /\ transfers \subseteq {[copy |-> Latest, target |-> target, next |-> k + 1, ready |-> TRUE]}

(* or it is, the last one being empty.                                     *)
Appended(k) ==
  /\ property = [type |-> "data",
                 pieces |-> IF k = Chunks THEN {} ELSE {Piece(Latest, target, k + 1)}]
  /\ transfers \subseteq
       IF k = Chunks THEN {}
       ELSE {[copy |-> Latest, target |-> target, next |-> k + 2, ready |-> FALSE]}

Brought(k) == bytes = {Piece(Latest, target, n) : n \in 1 .. k}

(* Where the watch is, and what it may then hear. *)
Placed ==
  /\ stage \in {"top", "waiting", "down"} => asked = <<>> /\ transfers = {}
  /\ stage = "top" => queue = <<>>
  /\ stage = "waiting" => queue \in Remains \cup {<<"owner">>}
  /\ stage \notin {"top", "waiting", "down"} => ~changed
  /\ stage \in {"targets", "takeTargets"} => target = "TARGETS"
  /\ stage \in {"targets", "data"} => Unanswered \/ Answered \/ InVain
  /\ stage \in {"takeTargets", "takeData"} =>
       asked = <<>> /\ queue = <<>> /\ (IF live THEN Proper(target) ELSE transfers = {})
  /\ stage = "next" => asked = <<>> /\ transfers = {} /\ queue \in Remains
  /\ stage \in {"increment", "takeChunk"} =>
       /\ asked = <<>> /\ offers[Latest].form[target] = "incremental"
       /\ \E k \in 0 .. Chunks :
            /\ Brought(k)
            /\ IF stage = "increment"
               THEN \/ Between(k) /\ queue \in Remains
                    \/ Appended(k) /\ queue \in Afterwards("new")
               ELSE queue = <<>> /\ (IF live THEN Appended(k) ELSE transfers = {})

(* What the watch holds is the latest copy's, and that is no secret. *)
Gathered ==
  stage \in Reading \cup {"next"} =>
    /\ Latest \in DOMAIN offers /\ ~offers[Latest].secret
    /\ \A m \in DOMAIN collected : collected[m] = Content(Latest, m)

InStep == Placed /\ Gathered

X11Inv == X11Typed /\ Orderly /\ (~muddled => InStep) /\ OneCopyAtRest

(* A sequence without one of its elements. *)
LEMMA WithoutOne ==
  ASSUME NEW S, NEW s \in Seq(S), NEW i \in DOMAIN s
  PROVE  /\ Seqs!RemoveAt(s, i) \in Seq(S)
         /\ Len(s) = 1 => Seqs!RemoveAt(s, i) = <<>>
<1>1. i \in 1 .. Len(s)
  OBVIOUS
<1>2. SubSeq(s, 1, i - 1) \in Seq(S) /\ SubSeq(s, i + 1, Len(s)) \in Seq(S)
  BY <1>1
<1>3. ASSUME Len(s) = 1 PROVE Seqs!RemoveAt(s, i) = <<>>
  <2>1. i = 1
    BY <1>1, <1>3
  <2>2. SubSeq(s, 1, 0) = <<>> /\ SubSeq(s, 2, 1) = <<>>
    OBVIOUS
  <2> QED BY <1>3, <2>1, <2>2 DEF Seqs!RemoveAt
<1> QED BY <1>2, <1>3 DEF Seqs!RemoveAt

(* What is asked for is known by then. *)
LEMMA AskedTyped ==
  ASSUME X11Typed, NEW i \in DOMAIN asked
  PROVE  /\ asked[i] \in Conversion
         /\ asked[i].copy \in DOMAIN offers /\ asked[i].target \in Targets
<1>1. asked \in Seq(Conversion)
  BY DEF X11Typed, X11Fits
<1>2. asked[i] \in Conversion
  BY <1>1
<1> QED BY <1>2 DEF X11Typed, X11TypeOK

(* The typing of what the X server holds. *)
OutsideTyped ==
  /\ asked \in Seq(Conversion)
  /\ \A i \in DOMAIN asked : asked[i].copy \in DOMAIN offers /\ asked[i].target \in Targets
  /\ transfers \subseteq Transfer
  /\ property \in Left
  /\ queue \in Seq(Events)

(* Where only that changes, the rest stays typed, *)
LEMMA StillTyped ==
  ASSUME X11Typed, OutsideTyped', UNCHANGED <<owner, offers, live, stage, reading, losses>>
  PROVE  X11Typed'
<1>1. \A i \in DOMAIN queue' : queue'[i] \in Events
  <2>1. queue' \in Seq(Events)
    BY DEF OutsideTyped
  <2> QED BY <2>1
<1>2. property'.type \in {"none", "atoms", "data", "INCR"} /\ property'.pieces \subseteq Pieces
  BY DEF OutsideTyped, Left
<1> QED BY <1>1, <1>2 DEF X11Typed, X11TypeOK, X11Fits, OutsideTyped, reading, Reading, Events

(* and so it was before. *)
LEMMA OutsideIsTyped == X11Typed => OutsideTyped
BY DEF X11Typed, X11TypeOK, X11Fits, OutsideTyped

(* One conversion less leaves the others typed. *)
LEMMA LessAsked ==
  ASSUME X11Typed, NEW i \in DOMAIN asked, asked' = Seqs!RemoveAt(asked, i), UNCHANGED offers
  PROVE  /\ asked' \in Seq(Conversion)
         /\ \A j \in DOMAIN asked' : asked'[j].copy \in DOMAIN offers /\ asked'[j].target \in Targets
<1> DEFINE S == {q \in Conversion : q.copy \in DOMAIN offers}
<1>1. asked \in Seq(S)
  <2>1. asked \in Seq(Conversion)
    BY DEF X11Typed, X11Fits
  <2>2. \A j \in DOMAIN asked : asked[j] \in S
    BY AskedTyped
  <2> HIDE DEF S
  <2> QED BY <2>1, <2>2
<1>2. asked' \in Seq(S)
  <2> HIDE DEF S
  <2> QED BY <1>1, WithoutOne
<1>3. \A j \in DOMAIN asked' : asked'[j] \in S
  <2> HIDE DEF S
  <2> QED BY <1>2
<1>4. \A q \in S : q \in Conversion /\ q.copy \in DOMAIN offers /\ q.target \in Targets
  BY DEF Conversion
<1>5. S \subseteq Conversion
  OBVIOUS
<1> HIDE DEF S
<1>6. asked' \in Seq(Conversion)
  BY <1>2, <1>5
<1> QED BY <1>3, <1>4, <1>6

(* The typing at the start, *)
LEMMA X11InitTyped == X11Init => X11Typed
<1> SUFFICES ASSUME X11Init PROVE X11Typed
  OBVIOUS
<1>1. /\ offers = <<>> /\ owner \in 0 .. Len(offers) /\ offers \in Seq(Offer)
      /\ Len(offers) <= MaxCopies /\ losses \in 0 .. MaxLosses
  BY SelectionAssumption DEF X11Init
<1>2. /\ property.type \in {"none", "atoms", "data", "INCR"} /\ property.pieces \subseteq Pieces
      /\ property \in Left
  BY DEF X11Init, NoProperty, Left
<1>3. /\ asked = <<>> /\ asked \in Seq(Conversion)
      /\ queue = <<>> /\ queue \in Seq(Events)
      /\ DOMAIN asked = {} /\ DOMAIN queue = {} /\ DOMAIN collected = {}
  BY DEF X11Init
<1>4. /\ live \in BOOLEAN /\ changed \in BOOLEAN /\ stage = "top" /\ stage \in Places
      /\ target \in Targets /\ todo = {} /\ bytes = {} /\ transfers = {}
  BY DEF X11Init, Targets, Places
<1> QED BY <1>1, <1>2, <1>3, <1>4 DEF X11Typed, X11TypeOK, X11Fits, Reading

(* while others copy, *)
LEMMA CopyTyped == ASSUME X11Typed, Copy PROVE X11Typed'
<1>1. PICK o \in Offer : offers' = Append(offers, o)
  BY DEF Copy
<1>2. /\ offers \in Seq(Offer) /\ Len(offers) \in Nat /\ Len(offers) < MaxCopies
      /\ queue \in Seq(Events)
  BY DEF Copy, X11Typed, X11TypeOK, X11Fits
<1>3. offers' \in Seq(Offer) /\ Len(offers') = Len(offers) + 1
  BY <1>1, <1>2
<1>4. /\ DOMAIN offers \subseteq DOMAIN offers' /\ Len(offers') <= MaxCopies
      /\ owner' \in 0 .. Len(offers')
  BY <1>2, <1>3, SelectionAssumption DEF Copy
<1>5. queue' \in Seq(Events)
  BY <1>2 DEF Copy, Events
<1>6. \A i \in DOMAIN queue' : queue'[i] \in Events
  BY <1>5
<1>7. UNCHANGED <<asked, transfers, property, live, stage, changed, target, todo, bytes, collected, losses>>
  BY DEF Copy, reading
<1> QED BY <1>3, <1>4, <1>5, <1>6, <1>7 DEF X11Typed, X11TypeOK, X11Fits, Reading, Events

(* when an owner answers, *)
LEMMA AnswerTyped == ASSUME X11Typed, Answer PROVE X11Typed'
<1>1. PICK i \in DOMAIN asked : Answer!(i)
  BY DEF Answer
<1> DEFINE c == asked[i].copy
           t == asked[i].target
           form == IF t = "TARGETS" THEN "atoms" ELSE offers[c].form[t]
<1>2. /\ c \in 1 .. MaxCopies /\ c \in DOMAIN offers /\ t \in Targets
  BY AskedTyped DEF Conversion
<1>3. /\ asked' \in Seq(Conversion)
      /\ \A j \in DOMAIN asked' : asked'[j].copy \in DOMAIN offers /\ asked'[j].target \in Targets
  BY <1>1, LessAsked
<1>4. property' \in Left
  <2>1. property'.type \in {"atoms", "data", "INCR"}
    BY <1>1
  <2>2. Piece(c, t, 0) \in Pieces
    BY <1>2, SelectionAssumption DEF Piece, Pieces
  <2> QED BY <1>1, <2>1, <2>2 DEF Left
<1>5. transfers' \subseteq Transfer
  <2>1. form = "incremental" => t \in Representations
    BY <1>2 DEF Targets
  <2>2. form = "incremental" =>
          [copy |-> c, target |-> t, next |-> 1, ready |-> FALSE] \in Transfer
    BY <1>2, <2>1, SelectionAssumption DEF Transfer
  <2> QED BY <1>1, <2>2 DEF X11Typed, X11Fits
<1>6. queue' \in Seq(Events)
  BY <1>1 DEF X11Typed, X11Fits, Events
<1>7. UNCHANGED <<owner, offers, live, stage, reading, ghosts>>
  BY <1>1
<1> HIDE DEF c, t, form
<1> QED BY <1>3, <1>4, <1>5, <1>6, <1>7, StillTyped DEF OutsideTyped, ghosts

(* when it refuses, *)
LEMMA RefuseTyped == ASSUME X11Typed, Refuse PROVE X11Typed'
<1>1. PICK i \in DOMAIN asked : Refuse!(i)
  BY DEF Refuse
<1>2. OutsideTyped
  BY OutsideIsTyped
<1>3. /\ asked' \in Seq(Conversion)
      /\ \A j \in DOMAIN asked' : asked'[j].copy \in DOMAIN offers /\ asked'[j].target \in Targets
  BY <1>1, LessAsked
<1>4. queue' \in Seq(Events)
  BY <1>1, <1>2 DEF OutsideTyped, Events
<1>5. UNCHANGED <<owner, offers, transfers, property, live, stage, reading, losses>>
  BY <1>1
<1> QED BY <1>2, <1>3, <1>4, <1>5, StillTyped DEF OutsideTyped

(* when it goes on with a transfer, *)
LEMMA AppendChunkTyped == ASSUME X11Typed, AppendChunk PROVE X11Typed'
<1>1. PICK x \in transfers : AppendChunk!(x)
  BY DEF AppendChunk
<1>2. OutsideTyped
  BY OutsideIsTyped
<1>3. x \in Transfer
  BY <1>2 DEF OutsideTyped
<1>4. property' \in Left
  <2>1. CASE x.next > Chunks \/ property.type \notin {"none", "data"}
    BY <1>1, <1>2, <2>1 DEF OutsideTyped, Left
  <2>2. CASE ~(x.next > Chunks \/ property.type \notin {"none", "data"})
    <3>1. Piece(x.copy, x.target, x.next) \in Pieces
      BY <1>3, <2>2, SelectionAssumption DEF Piece, Pieces, Targets, Transfer
    <3> QED BY <1>1, <1>2, <2>2, <3>1 DEF OutsideTyped, Left
  <2> QED BY <2>1, <2>2
<1>5. transfers' \subseteq Transfer
  <2>1. x.next <= Chunks => [x EXCEPT !.next = @ + 1, !.ready = FALSE] \in Transfer
    <3>1. x.next <= Chunks => x.next + 1 \in 1 .. Chunks + 1
      BY <1>3, SelectionAssumption DEF Transfer
    <3> QED BY <1>3, <3>1 DEF Transfer
  <2>2. x.next \in Nat
    BY <1>3 DEF Transfer
  <2>3. transfers \subseteq Transfer
    BY <1>2 DEF OutsideTyped
  <2> QED BY <1>1, <2>1, <2>2, <2>3, SelectionAssumption
<1>6. queue' \in Seq(Events)
  BY <1>1, <1>2 DEF OutsideTyped, Events
<1>7. UNCHANGED <<owner, offers, asked, live, stage, reading, losses>>
  BY <1>1 DEF ghosts
<1> QED BY <1>2, <1>4, <1>5, <1>6, <1>7, StillTyped DEF OutsideTyped

(* when it falls silent, *)
LEMMA SilenceTyped == ASSUME X11Typed, Silence PROVE X11Typed'
<1>1. OutsideTyped
  BY OutsideIsTyped
<1>2. UNCHANGED <<owner, offers, property, queue, live, stage, reading, losses>>
  BY DEF Silence
<1>3. /\ asked' \in Seq(Conversion)
      /\ \A j \in DOMAIN asked' : asked'[j].copy \in DOMAIN offers /\ asked'[j].target \in Targets
  BY <1>1, LessAsked DEF Silence, OutsideTyped
<1>4. transfers' \subseteq transfers
  BY DEF Silence
<1> QED BY <1>1, <1>2, <1>3, <1>4, StillTyped DEF OutsideTyped

(* when the connection breaks, *)
LEMMA LossTyped == ASSUME X11Typed, Loss PROVE X11Typed'
<1>1. /\ NoProperty \in Left
      /\ NoProperty.type = "none" /\ NoProperty.pieces = {}
  BY DEF NoProperty, Left
<1>2. /\ asked' \in Seq(Conversion) /\ DOMAIN asked' = {}
      /\ queue' \in Seq(Events) /\ DOMAIN queue' = {}
  BY DEF Loss
<1>3. owner' \in 0 .. Len(offers)
  BY DEF Loss, X11Typed, X11TypeOK
<1>4. losses' \in 0 .. MaxLosses
  BY SelectionAssumption DEF Loss, X11Typed, X11TypeOK
<1>5. /\ live' = FALSE /\ transfers' = {} /\ property' = NoProperty
      /\ UNCHANGED <<offers, stage, changed, target, todo, bytes, collected>>
  BY DEF Loss, reading
<1> QED BY <1>1, <1>2, <1>3, <1>4, <1>5 DEF X11Typed, X11TypeOK, X11Fits, Reading

(* The typing of the watch itself. *)
WatchTyped ==
  /\ live \in BOOLEAN /\ stage \in Places /\ changed \in BOOLEAN
  /\ stage = "down" => ~live
  /\ target \in Targets /\ todo \subseteq Representations /\ bytes \subseteq Pieces
  /\ DOMAIN collected \subseteq Representations \ todo
  /\ \A m \in DOMAIN collected : collected[m] \in (SUBSET Pieces) \ {{}}
  /\ stage \in Reading => target \in Representations \ todo
  /\ stage \notin Reading \cup {"next"} => todo = {} /\ DOMAIN collected = {}

(* It is part of the typing, *)
LEMMA WatchIsTyped == X11Typed => WatchTyped
BY DEF X11Typed, X11TypeOK, X11Fits, WatchTyped

(* and with that of the X server makes it up. *)
LEMMA BothTyped ==
  ASSUME X11Typed, OutsideTyped', WatchTyped', UNCHANGED <<owner, offers, losses>>
  PROVE  X11Typed'
<1>1. \A i \in DOMAIN queue' : queue'[i] \in Events
  <2>1. queue' \in Seq(Events)
    BY DEF OutsideTyped
  <2> QED BY <2>1
<1>2. property'.type \in {"none", "atoms", "data", "INCR"} /\ property'.pieces \subseteq Pieces
  BY DEF OutsideTyped, Left
<1> QED BY <1>1, <1>2 DEF X11Typed, X11TypeOK, X11Fits, OutsideTyped, WatchTyped, Events

(* A conversion that is asked for, *)
LEMMA ConvertTyped ==
  ASSUME X11Typed, NEW t \in Targets, Convert(t)
  PROVE  OutsideTyped' /\ target' = t /\ UNCHANGED <<owner, offers>>
<1>1. OutsideTyped
  BY OutsideIsTyped
<1>2. UNCHANGED <<owner, offers, transfers, property>> /\ target' = t
  BY DEF Convert
<1>3. CASE owner # 0
  <2>1. owner \in 1 .. MaxCopies /\ owner \in DOMAIN offers
    BY <1>3, SelectionAssumption DEF X11Typed, X11TypeOK
  <2>2. [copy |-> owner, target |-> t] \in Conversion
    BY <2>1 DEF Conversion
  <2>3. asked' = Append(asked, [copy |-> owner, target |-> t]) /\ queue' = queue
    BY <1>3 DEF Convert
  <2>4. asked' \in Seq(Conversion)
    BY <1>1, <2>2, <2>3 DEF OutsideTyped
  <2>5. \A j \in DOMAIN asked' : asked'[j].copy \in DOMAIN offers /\ asked'[j].target \in Targets
    <3>1. asked \in Seq(Conversion)
      BY <1>1 DEF OutsideTyped
    <3>2. \A j \in DOMAIN asked' : \/ j \in DOMAIN asked /\ asked'[j] = asked[j]
                                  \/ asked'[j] = [copy |-> owner, target |-> t]
      BY <2>2, <2>3, <3>1
    <3> QED BY <1>1, <2>1, <3>2 DEF OutsideTyped
  <2> QED BY <1>1, <1>2, <2>3, <2>4, <2>5 DEF OutsideTyped
<1>4. CASE owner = 0
  <2>1. queue' = Append(queue, "refusal") /\ asked' = asked
    BY <1>4 DEF Convert
  <2>2. queue' \in Seq(Events)
    BY <1>1, <2>1 DEF OutsideTyped, Events
  <2> QED BY <1>1, <1>2, <2>1, <2>2 DEF OutsideTyped
<1> QED BY <1>2, <1>3, <1>4

(* and a property that is deleted. *)
LEMMA DeletedTyped ==
  ASSUME X11Typed, Deleted
  PROVE  OutsideTyped' /\ UNCHANGED <<owner, offers>>
<1>1. OutsideTyped
  BY OutsideIsTyped
<1>2. property' \in Left
  BY DEF Deleted, NoProperty, Left
<1>3. transfers' \subseteq Transfer
  <2>1. \A x \in Transfer : [x EXCEPT !.ready = TRUE] \in Transfer
    BY DEF Transfer
  <2> QED BY <1>1, <2>1 DEF Deleted, OutsideTyped
<1>4. queue' \in Seq(Events)
  BY <1>1 DEF Deleted, OutsideTyped, Events
<1>5. UNCHANGED <<owner, offers, asked>>
  BY DEF Deleted
<1> QED BY <1>1, <1>2, <1>3, <1>4, <1>5 DEF OutsideTyped

(* An event heard is one less to hear. *)
LEMMA HeardTyped ==
  ASSUME X11Typed, queue # <<>>, queue' = Tail(queue), UNCHANGED <<owner, offers, asked, transfers, property>>
  PROVE  OutsideTyped' /\ Head(queue) \in Events
<1>1. OutsideTyped
  BY OutsideIsTyped
<1>2. queue' \in Seq(Events) /\ Head(queue) \in Events
  BY <1>1 DEF OutsideTyped
<1> QED BY <1>1, <1>2 DEF OutsideTyped

(* Nothing is kept of a read that ends, *)
LEMMA EndTyped ==
  ASSUME X11Typed, EndRead, UNCHANGED <<live, target>>, changed' \in BOOLEAN
  PROVE  WatchTyped'
<1>1. DOMAIN collected' = {}
  BY DEF EndRead
<1>2. stage' = "waiting" /\ stage' \in Places /\ todo' = {} /\ bytes' = {}
  BY DEF EndRead, Go, Places
<1> QED BY <1>1, <1>2, WatchIsTyped DEF WatchTyped, Reading

(* nor of a part that is given up. *)
LEMMA GiveUpTyped ==
  ASSUME X11Typed, GiveUp, UNCHANGED <<live, target>>, changed' \in BOOLEAN
  PROVE  WatchTyped'
<1>1. CASE stage \in {"targets", "takeTargets"}
  BY <1>1, EndTyped DEF GiveUp
<1>2. CASE stage \notin {"targets", "takeTargets"}
  <2>1. stage' = "next" /\ stage' \in Places /\ bytes' = {} /\ UNCHANGED <<todo, collected>>
    BY <1>2 DEF GiveUp, Go, Places
  <2> QED BY <2>1, WatchIsTyped DEF WatchTyped, Reading
<1> QED BY <1>1, <1>2

(* What has come for the target is kept under its name. *)
LEMMA PushTyped ==
  ASSUME X11Typed, stage \in Reading, NEW content \in SUBSET Pieces, Push(content), UNCHANGED todo
  PROVE  /\ DOMAIN collected' \subseteq Representations \ todo'
         /\ \A m \in DOMAIN collected' : collected'[m] \in (SUBSET Pieces) \ {{}}
<1>1. WatchTyped
  BY WatchIsTyped
<1>2. CASE content = {}
  BY <1>1, <1>2 DEF Push, WatchTyped
<1>3. CASE content # {}
  <2>1. collected' = [m \in DOMAIN collected \cup {target} |->
                        IF m \in DOMAIN collected THEN collected[m] ELSE content]
    BY <1>3 DEF Push, With
  <2> QED BY <1>1, <1>3, <2>1 DEF WatchTyped
<1> QED BY <1>2, <1>3

(* The typing while the watch looks and waits, *)
LEMMA LookTyped == ASSUME X11Typed, LookAgain PROVE X11Typed'
<1>1. WatchTyped /\ OutsideTyped
  BY WatchIsTyped, OutsideIsTyped
<1>2. stage = "top" /\ changed' = FALSE /\ UNCHANGED <<live, todo, bytes, collected, losses>>
  BY DEF LookAgain, ghosts
<1>3. CASE changed /\ live
  <2>1. Convert("TARGETS") /\ stage' = "targets"
    BY <1>3 DEF LookAgain, Go
  <2>2. OutsideTyped' /\ target' = "TARGETS" /\ UNCHANGED <<owner, offers>>
    BY <2>1, ConvertTyped DEF Targets
  <2>3. WatchTyped'
    BY <1>1, <1>2, <2>1, <2>2 DEF WatchTyped, Reading, Places, Awaiting, Targets
  <2> QED BY <1>2, <2>2, <2>3, BothTyped
<1>4. CASE ~(changed /\ live)
  <2>1. stage' = "waiting" /\ UNCHANGED <<server, target>>
    BY <1>4 DEF LookAgain, Go
  <2>2. WatchTyped'
    BY <1>1, <1>2, <2>1 DEF WatchTyped, Reading, Places
  <2> QED BY <1>1, <1>2, <2>1, <2>2, BothTyped DEF server, OutsideTyped
<1> QED BY <1>3, <1>4

(* hears of an event, *)
LEMMA WaitTyped == ASSUME X11Typed, WaitForEvent PROVE X11Typed'
<1>1. WatchTyped
  BY WatchIsTyped
<1>2. /\ stage = "waiting" /\ stage' = "top" /\ changed' \in BOOLEAN
      /\ queue # <<>> /\ queue' = Tail(queue)
      /\ UNCHANGED <<owner, offers, asked, transfers, property, live, target, todo, bytes, collected, losses>>
  BY DEF WaitForEvent, Go, ghosts
<1>3. WatchTyped'
  BY <1>1, <1>2 DEF WatchTyped, Reading, Places
<1> QED BY <1>2, <1>3, HeardTyped, BothTyped

(* fails and starts again, *)
LEMMA RestartTyped == ASSUME X11Typed, Fail \/ Reconnect PROVE X11Typed'
<1>1. WatchTyped /\ OutsideTyped
  BY WatchIsTyped, OutsideIsTyped
<1>2. UNCHANGED <<server, target, todo, bytes, collected, losses>> /\ changed' \in BOOLEAN
  BY <1>1 DEF Fail, Reconnect, reading, ghosts, WatchTyped
<1>3. \/ stage = "waiting" /\ stage' = "down" /\ live' = live /\ ~live
      \/ stage = "down" /\ stage' = "top" /\ live' = TRUE
  BY DEF Fail, Reconnect, Go
<1>4. WatchTyped'
  <2>1. live' \in BOOLEAN /\ (stage' = "down" => ~live') /\ stage' \in {"down", "top"}
    <3>1. CASE stage = "waiting" /\ stage' = "down" /\ live' = live /\ ~live
      BY <1>1, <3>1, Zenon DEF WatchTyped
    <3>2. CASE stage = "down" /\ stage' = "top" /\ live' = TRUE
      BY <3>2
    <3> QED BY <1>3, <3>1, <3>2
  <2>2. todo = {} /\ DOMAIN collected = {}
    BY <1>1, <1>3 DEF WatchTyped, Reading
  <2> QED BY <1>1, <1>2, <2>1, <2>2 DEF WatchTyped, Reading, Places
<1> QED BY <1>1, <1>2, <1>4, BothTyped DEF server, OutsideTyped

(* hears of one in the middle of a read, *)
LEMMA PollTyped == ASSUME X11Typed, PollEvent PROVE X11Typed'
<1>1. WatchTyped
  BY WatchIsTyped
<1>2. /\ stage \in Awaiting /\ changed' \in BOOLEAN
      /\ queue # <<>> /\ queue' = Tail(queue)
      /\ UNCHANGED <<owner, offers, asked, transfers, property, live, target, losses>>
  BY DEF PollEvent, ghosts
<1>3. WatchTyped'
  <2>1. CASE Head(queue) = "refusal" /\ stage # "increment"
    BY <1>2, <2>1, GiveUpTyped DEF PollEvent
  <2>2. CASE ~(Head(queue) = "refusal" /\ stage # "increment")
    <3>1. stage' = Reached(Head(queue)) /\ UNCHANGED <<todo, bytes, collected>>
      BY <2>2 DEF PollEvent, Go
    <3>2. \/ stage' = stage
          \/ stage = "targets" /\ stage' = "takeTargets"
          \/ stage = "data" /\ stage' = "takeData"
          \/ stage = "increment" /\ stage' = "takeChunk"
      BY <3>1 DEF Reached
    <3> QED BY <1>1, <1>2, <3>1, <3>2 DEF WatchTyped, Reading, Places, Awaiting
  <2> QED BY <2>1, <2>2
<1> QED BY <1>2, <1>3, HeardTyped, BothTyped

(* stops waiting, or drops the read, *)
LEMMA StopTyped == ASSUME X11Typed, Timeout \/ Abandon PROVE X11Typed'
<1>1. OutsideTyped
  BY OutsideIsTyped
<1>2. UNCHANGED <<server, live, changed, target, losses>> /\ (GiveUp \/ EndRead)
  BY DEF Timeout, Abandon, ghosts
<1>3. WatchTyped'
  BY <1>2, GiveUpTyped, EndTyped, WatchIsTyped DEF WatchTyped
<1> QED BY <1>1, <1>2, <1>3, BothTyped DEF server, OutsideTyped

(* takes the targets, *)
LEMMA TakeTargetsTyped == ASSUME X11Typed, TakeTargets PROVE X11Typed'
<1>1. WatchTyped /\ OutsideTyped
  BY WatchIsTyped, OutsideIsTyped
<1>2. stage = "takeTargets" /\ UNCHANGED <<live, changed, target, losses>>
  BY DEF TakeTargets, ghosts
<1>3. OutsideTyped' /\ UNCHANGED <<owner, offers>>
  <2>1. CASE Deleted
    BY <2>1, DeletedTyped
  <2>2. CASE UNCHANGED server
    BY <1>1, <2>2 DEF server, OutsideTyped
  <2> QED BY <2>1, <2>2 DEF TakeTargets
<1>4. WatchTyped'
  <2>1. CASE EndRead
    BY <1>1, <1>2, <2>1, EndTyped DEF WatchTyped
  <2>2. CASE ~EndRead
    <3>1. stage' = "next" /\ todo' \subseteq Representations /\ UNCHANGED <<bytes, collected>>
      BY <2>2 DEF TakeTargets, Go, Offered
    <3>2. DOMAIN collected = {}
      BY <1>1, <1>2 DEF WatchTyped, Reading
    <3> QED BY <1>1, <1>2, <3>1, <3>2 DEF WatchTyped, Reading, Places
  <2> QED BY <2>1, <2>2
<1> QED BY <1>2, <1>3, <1>4, BothTyped

(* asks for a representation, *)
LEMMA AskTyped == ASSUME X11Typed, Ask PROVE X11Typed'
<1>1. WatchTyped
  BY WatchIsTyped
<1>2. stage = "next" /\ stage' = "data" /\ UNCHANGED <<live, changed, bytes, collected, losses>>
  BY DEF Ask, Go, ghosts
<1>3. PICK m \in todo : Convert(m) /\ todo' = todo \ {m}
  BY DEF Ask
<1>4. m \in Representations /\ m \in Targets
  BY <1>1 DEF WatchTyped, Targets
<1>5. OutsideTyped' /\ target' = m /\ UNCHANGED <<owner, offers>>
  BY <1>3, <1>4, ConvertTyped
<1>6. WatchTyped'
  BY <1>1, <1>2, <1>3, <1>4, <1>5 DEF WatchTyped, Reading, Places, Awaiting
<1> QED BY <1>2, <1>5, <1>6, BothTyped

(* takes what has come, *)
LEMMA TakeTyped == ASSUME X11Typed, TakeData \/ TakeChunk PROVE X11Typed'
<1>1. WatchTyped /\ property.pieces \in SUBSET Pieces
  BY WatchIsTyped, OutsideIsTyped DEF OutsideTyped, Left
<1>2. /\ stage \in {"takeData", "takeChunk"} /\ stage \in Reading
      /\ Deleted /\ UNCHANGED <<live, changed, target, todo, losses>>
  BY DEF TakeData, TakeChunk, ghosts, Reading
<1>3. /\ stage' \in {"increment", "next"} /\ bytes' \subseteq Pieces
      /\ \/ UNCHANGED collected
         \/ \E content \in SUBSET Pieces : Push(content)
  <2>1. CASE TakeData
    BY <1>1, <2>1 DEF TakeData, Go, WatchTyped
  <2>2. CASE TakeChunk
    BY <1>1, <2>2 DEF TakeChunk, Go, WatchTyped
  <2> QED BY <2>1, <2>2
<1>4. /\ DOMAIN collected' \subseteq Representations \ todo'
      /\ \A m \in DOMAIN collected' : collected'[m] \in (SUBSET Pieces) \ {{}}
  <2>1. CASE UNCHANGED collected
    BY <1>1, <1>2, <2>1 DEF WatchTyped
  <2>2. CASE ~UNCHANGED collected
    BY <1>2, <1>3, <2>2, PushTyped
  <2> QED BY <2>1, <2>2
<1>5. WatchTyped'
  BY <1>1, <1>2, <1>3, <1>4 DEF WatchTyped, Reading, Places, Awaiting
<1> QED BY <1>2, <1>5, DeletedTyped, BothTyped

(* finds the connection broken, *)
LEMMA CallFailsTyped == ASSUME X11Typed, CallFails PROVE X11Typed'
<1>1. WatchTyped /\ OutsideTyped
  BY WatchIsTyped, OutsideIsTyped
<1>2. UNCHANGED <<server, live, changed, target, losses>>
  BY DEF CallFails, ghosts
<1>3. WatchTyped'
  <2>1. CASE GiveUp
    BY <1>1, <1>2, <2>1, GiveUpTyped DEF WatchTyped
  <2>2. CASE ~GiveUp
    <3>1. stage = "next" /\ todo' = {} /\ UNCHANGED <<stage, bytes, collected>>
      BY <2>2 DEF CallFails
    <3> QED BY <1>1, <1>2, <3>1 DEF WatchTyped, Reading
  <2> QED BY <2>1, <2>2
<1> QED BY <1>1, <1>2, <1>3, BothTyped DEF server, OutsideTyped

(* and records. *)
LEMMA RecordTyped == ASSUME X11Typed, RecordParts PROVE X11Typed'
<1>1. WatchTyped /\ OutsideTyped
  BY WatchIsTyped, OutsideIsTyped
<1>2. EndRead /\ UNCHANGED <<server, live, changed, target, losses>>
  BY DEF RecordParts
<1> QED BY <1>1, <1>2, EndTyped, BothTyped DEF server, OutsideTyped, WatchTyped

(* Every step keeps the typing. *)
LEMMA X11StepTyped == X11Typed /\ [X11Next]_x11Vars => X11Typed'
<1>1. ASSUME X11Typed, UNCHANGED x11Vars PROVE X11Typed'
  BY <1>1 DEF x11Vars, server, reading, ghosts, X11Typed, X11TypeOK, X11Fits
<1>2. ASSUME X11Typed, Owners PROVE X11Typed'
  BY <1>2, AnswerTyped, RefuseTyped, AppendChunkTyped DEF Owners
<1>3. ASSUME X11Typed, Watch PROVE X11Typed'
  BY <1>3, LookTyped, WaitTyped, RestartTyped, PollTyped, StopTyped, TakeTargetsTyped,
     AskTyped, TakeTyped, CallFailsTyped, RecordTyped DEF Watch
<1> QED BY <1>1, <1>2, <1>3, CopyTyped, SilenceTyped, LossTyped DEF X11Next

(* The watch keeps what it has collected apart from what it still has to   *)
(* ask for, under recordable names and never empty, and every piece is of  *)
(* a copy that was made, whatever is left over and whoever is late.        *)
THEOREM SelectionTyped == X11Spec => []X11TypeOK
<1>1. X11Typed => X11TypeOK
  BY DEF X11Typed
<1> QED BY <1>1, X11InitTyped, X11StepTyped, PTL DEF X11Spec

(* What the queue becomes where an event is heard or sent. *)
LEMMA Queues ==
  ASSUME NEW e, NEW f, NEW g
  PROVE  /\ Append(<<>>, e) = <<e>> /\ Append(<<e>>, f) = <<e, f>>
         /\ <<>> \o <<e, f>> = <<e, f>>
         /\ Head(<<e>>) = e /\ Tail(<<e>>) = <<>>
         /\ Head(<<e, f>>) = e /\ Tail(<<e, f>>) = <<f>>
         /\ Head(<<e, f, g>>) = e /\ Tail(<<e, f, g>>) = <<f, g>>
<1>1. Append(<<e>>, f) = <<e, f>>
  <2>1. <<e, f>> \in Seq({e, f}) /\ <<e>> \in Seq({e, f})
    OBVIOUS
  <2>2. Append(<<e>>, f) \in Seq({e, f}) /\ Len(Append(<<e>>, f)) = 2
    BY <2>1
  <2>3. Append(<<e>>, f)[1] = e /\ Append(<<e>>, f)[2] = f
    BY <2>1
  <2>4. \A i \in 1 .. 2 : i = 1 \/ i = 2
    OBVIOUS
  <2>5. <<e, f>>[1] = e /\ <<e, f>>[2] = f /\ Len(<<e, f>>) = 2
    OBVIOUS
  <2> QED BY <2>1, <2>2, <2>3, <2>4, <2>5, SeqEqual
<1>2. Append(<<>>, e) = <<e>> /\ <<>> \o <<e, f>> = <<e, f>>
  OBVIOUS
<1>3. /\ Head(<<e>>) = e /\ Tail(<<e>>) = <<>>
      /\ Head(<<e, f>>) = e /\ Tail(<<e, f>>) = <<f>>
      /\ Head(<<e, f, g>>) = e /\ Tail(<<e, f, g>>) = <<f, g>>
  OBVIOUS
<1> QED BY <1>1, <1>2, <1>3

(* Likewise where two events are sent at once. *)
LEMMA QueueOfThree ==
  ASSUME NEW e, NEW f, NEW g
  PROVE  <<e>> \o <<f, g>> = <<e, f, g>>
<1>1. <<e>> \in Seq({e, f, g}) /\ <<f, g>> \in Seq({e, f, g}) /\ <<e, f, g>> \in Seq({e, f, g})
  OBVIOUS
<1>2. <<e>> \o <<f, g>> \in Seq({e, f, g}) /\ Len(<<e>> \o <<f, g>>) = 3
  BY <1>1
<1>3. (<<e>> \o <<f, g>>)[1] = e /\ (<<e>> \o <<f, g>>)[2] = f /\ (<<e>> \o <<f, g>>)[3] = g
  BY <1>1
<1>4. \A i \in 1 .. 3 : i = 1 \/ i = 2 \/ i = 3
  OBVIOUS
<1>5. <<e, f, g>>[1] = e /\ <<e, f, g>>[2] = f /\ <<e, f, g>>[3] = g /\ Len(<<e, f, g>>) = 3
  OBVIOUS
<1> QED BY <1>1, <1>2, <1>3, <1>4, <1>5, SeqEqual

(* The latest copy answers for a representation in one of the ways. *)
LEMMA LatestForm ==
  ASSUME X11Typed, Latest \in DOMAIN offers, NEW t \in Representations
  PROVE  offers[Latest].form[t] \in AllForms
<1>1. offers \in Seq(Offer)
  BY DEF X11Typed, X11TypeOK
<1>2. offers[Latest] \in Offer
  BY <1>1
<1> QED BY <1>2, SelectionAssumption DEF Offer

(* An answer is proper, *)
LEMMA AnswerPlaced == ASSUME X11Typed, Placed, Answer PROVE Placed'
<1>1. PICK i \in DOMAIN asked : Answer!(i)
  BY DEF Answer
<1>2. stage \in {"targets", "data"} /\ Unanswered
  BY <1>1 DEF Placed, Answered, InVain, X11Typed, X11TypeOK, Places, Awaiting
<1>3. /\ asked = <<[copy |-> Latest, target |-> target]>> /\ Len(asked) = 1 /\ i = 1
      /\ asked[i].copy = Latest /\ asked[i].target = target
  BY <1>1, <1>2 DEF Unanswered
<1>4. asked' = <<>>
  BY <1>1, <1>3, WithoutOne DEF X11Typed, X11Fits
<1>5. UNCHANGED <<offers, live, stage, changed, target>> /\ Latest' = Latest
  BY <1>1 DEF reading, Latest
<1>6. queue' \in {<<"new", "answer">>, <<"deleted", "new", "answer">>, <<"answer">>}
  <2>1. queue' = queue \o <<"new", "answer">>
    BY <1>1
  <2>2. CASE queue = <<>>
    BY <2>1, <2>2, Queues
  <2>3. CASE queue = <<"deleted">>
    <3>1. <<"deleted">> \o <<"new", "answer">> = <<"deleted", "new", "answer">>
      BY QueueOfThree, Zenon
    <3>2. queue' = <<"deleted", "new", "answer">>
      BY <2>1, <2>3, <3>1, Zenon
    <3> QED BY <3>2
  <2> QED BY <1>2, <2>2, <2>3 DEF Unanswered, Remains
<1>7. Proper(target)'
  <2>1. CASE target = "TARGETS"
    BY <1>1, <1>2, <1>3, <1>5, <2>1 DEF Proper, Unanswered
  <2>2. CASE target # "TARGETS"
    <3>1. target \in Representations /\ Latest \in DOMAIN offers
      BY <1>2, <2>2 DEF X11Typed, X11TypeOK, Targets, Unanswered
    <3> DEFINE form == offers[Latest].form[target]
    <3>2. form \in AllForms /\ form # "absent"
      BY <1>1, <1>3, <2>2, <3>1, LatestForm
    <3>3. /\ property'.type = IF form = "incremental" THEN "INCR" ELSE "data"
          /\ property'.pieces = IF form = "whole" THEN {Piece(Latest, target, 0)} ELSE {}
          /\ transfers' = IF form # "incremental" THEN {}
               ELSE {[copy |-> Latest, target |-> target, next |-> 1, ready |-> FALSE]}
      BY <1>1, <1>2, <1>3, <2>2, <3>2 DEF Unanswered, AllForms
    <3>4. form # "incremental" => property'.pieces = Content(Latest, target)
      BY <3>2, <3>3 DEF Content, AllForms
    <3>5. form = offers'[Latest'].form[target'] /\ Content(Latest, target)' = Content(Latest, target)
      BY <1>5 DEF Content, Piece
    <3> HIDE DEF form
    <3> QED BY <1>5, <2>2, <3>1, <3>3, <3>4, <3>5 DEF Proper
  <2> QED BY <2>1, <2>2
<1>8. Answered'
  BY <1>4, <1>6, <1>7 DEF Answered
<1> QED BY <1>2, <1>5, <1>8 DEF Placed

(* a refusal and a silence leave the conversion in vain, *)
LEMMA RefusePlaced == ASSUME X11Typed, Placed, Refuse PROVE Placed'
<1>1. PICK i \in DOMAIN asked : Refuse!(i)
  BY DEF Refuse
<1>2. stage \in {"targets", "data"} /\ Unanswered
  BY <1>1 DEF Placed, Answered, InVain, X11Typed, X11TypeOK, Places, Awaiting
<1>3. asked' = <<>>
  <2>1. Len(asked) = 1
    BY <1>2 DEF Unanswered
  <2> QED BY <1>1, <2>1, WithoutOne DEF X11Typed, X11Fits
<1>4. UNCHANGED <<transfers, stage, changed, target>>
  BY <1>1 DEF reading
<1>5. InVain'
  <2>1. queue' = Append(queue, "refusal")
    BY <1>1
  <2>2. Append(<<>>, "refusal") = <<"refusal">> /\ Append(<<"deleted">>, "refusal") = <<"deleted", "refusal">>
    BY Queues
  <2>3. queue' \in Afterwards("refusal")
    BY <1>2, <2>1, <2>2 DEF Unanswered, Remains, Afterwards
  <2> QED BY <1>2, <1>3, <1>4, <2>3 DEF InVain, Unanswered
<1> QED BY <1>2, <1>4, <1>5 DEF Placed

(* and so does a transfer that stops: the watch is where it was. *)
LEMMA SilencePlaced == ASSUME X11Typed, Placed, Silence PROVE Placed'
<1>1. UNCHANGED <<offers, property, queue, live, stage, changed, target, bytes>> /\ Latest' = Latest
  BY DEF Silence, reading, Latest
<1>2. CASE \E i \in DOMAIN asked : asked' = Seqs!RemoveAt(asked, i) /\ UNCHANGED transfers
  <2>1. PICK i \in DOMAIN asked : asked' = Seqs!RemoveAt(asked, i) /\ UNCHANGED transfers
    BY <1>2
  <2>2. stage \in {"targets", "data"} /\ Unanswered
    BY <2>1 DEF Placed, Answered, InVain, X11Typed, X11TypeOK, Places, Awaiting
  <2>3. asked' = <<>>
    <3>1. Len(asked) = 1
      BY <2>2 DEF Unanswered
    <3> QED BY <2>1, <3>1, WithoutOne DEF X11Typed, X11Fits
  <2>4. InVain'
    BY <1>1, <2>1, <2>2, <2>3 DEF InVain, Unanswered
  <2> QED BY <1>1, <2>2, <2>4 DEF Placed
<1>3. CASE transfers' \subseteq transfers /\ UNCHANGED asked
  <2>1. transfers = {} => transfers' = {}
    BY <1>3
  <2>2. ASSUME Proper(target) PROVE Proper(target)'
    BY <1>1, <1>3, <2>2 DEF Proper, Content, Piece
  <2>3. ASSUME NEW k \in 0 .. Chunks, Brought(k) PROVE Brought(k)'
    BY <1>1, <2>3 DEF Brought, Piece
  <2>4. ASSUME NEW k \in 0 .. Chunks, Between(k) PROVE Between(k)'
    BY <1>1, <1>3, <2>4 DEF Between, NoProperty
  <2>5. ASSUME NEW k \in 0 .. Chunks, Appended(k) PROVE Appended(k)'
    BY <1>1, <1>3, <2>5 DEF Appended, Piece
  <2>6. ASSUME Unanswered \/ Answered \/ InVain PROVE (Unanswered \/ Answered \/ InVain)'
    BY <1>1, <1>3, <2>1, <2>2, <2>6 DEF Unanswered, Answered, InVain, Remains, Afterwards
  <2>7. offers'[Latest'].form[target'] = offers[Latest].form[target]
    BY <1>1
  <2> QED BY <1>1, <1>3, <2>1, <2>2, <2>3, <2>4, <2>5, <2>6, <2>7
          DEF Placed, Remains, Afterwards
<1> QED BY <1>2, <1>3 DEF Silence

(* The record of a transfer whose next chunk is appended. *)
LEMMA NextChunk ==
  ASSUME NEW x \in Transfer
  PROVE  [x EXCEPT !.next = @ + 1, !.ready = FALSE] =
           [copy |-> x.copy, target |-> x.target, next |-> x.next + 1, ready |-> FALSE]
<1> DEFINE R == [copy : Int, target : Representations, next : Int, ready : BOOLEAN]
           y == [x EXCEPT !.next = @ + 1, !.ready = FALSE]
           z == [copy |-> x.copy, target |-> x.target, next |-> x.next + 1, ready |-> FALSE]
<1>1. y \in R /\ z \in R
  <2>1. x \in R /\ x.next + 1 \in Int
    BY SelectionAssumption DEF Transfer
  <2>2. y \in R
    BY <2>1
  <2>3. z \in R
    BY <2>1
  <2> QED BY <2>2, <2>3
<1>2. y.copy = z.copy /\ y.target = z.target /\ y.next = z.next /\ y.ready = z.ready
  BY DEF Transfer
<1>3. \A a, b \in R : a.copy = b.copy /\ a.target = b.target /\ a.next = b.next /\ a.ready = b.ready
                      => a = b
  OBVIOUS
<1> HIDE DEF R, y, z
<1>4. y = z
  BY <1>1, <1>2, <1>3
<1> QED BY <1>4 DEF y, z

(* A chunk goes to the property only after the last was taken from it. *)
LEMMA AppendChunkPlaced == ASSUME X11Typed, Placed, AppendChunk PROVE Placed'
<1>1. PICK x \in transfers : AppendChunk!(x)
  BY DEF AppendChunk
<1>2. UNCHANGED <<offers, asked, live, stage, changed, target, bytes>> /\ Latest' = Latest
  BY <1>1 DEF reading, Latest
<1>3. stage = "increment"
  BY <1>1 DEF Placed, Unanswered, Answered, InVain, Proper, Appended,
     X11Typed, X11TypeOK, Places, Awaiting
<1>4. PICK k \in 0 .. Chunks : Brought(k) /\ Between(k) /\ queue \in Remains
  <2>1. PICK k \in 0 .. Chunks :
          Brought(k) /\ ((Between(k) /\ queue \in Remains) \/ Appended(k))
    BY <1>3 DEF Placed
  <2>2. ~Appended(k)
    BY <1>1, <2>1, SelectionAssumption DEF Appended
  <2> QED BY <2>1, <2>2
<1>5. x = [copy |-> Latest, target |-> target, next |-> k + 1, ready |-> TRUE] /\ transfers = {x}
  BY <1>1, <1>4 DEF Between
<1>6. property.type = "none" /\ property.pieces = {}
  BY <1>4 DEF Between, NoProperty
<1>7. Appended(k)'
  <2>1. CASE k = Chunks
    <3>1. x.next > Chunks
      BY <1>5, <2>1, SelectionAssumption
    <3>2. property' = [type |-> "data", pieces |-> {}]
      BY <1>1, <1>4, <1>6, <3>1 DEF Between, NoProperty
    <3>3. transfers' = {}
      BY <1>1, <1>5, <3>1
    <3> QED BY <2>1, <3>2, <3>3 DEF Appended
  <2>2. CASE k # Chunks
    <3>1. ~(x.next > Chunks) /\ x.copy = Latest /\ x.target = target /\ x.next = k + 1
      BY <1>5, <2>2, SelectionAssumption
    <3>2. property' = [type |-> "data", pieces |-> {Piece(Latest, target, k + 1)}]
      BY <1>1, <1>6, <3>1
    <3>3. [x EXCEPT !.next = @ + 1, !.ready = FALSE] =
            [copy |-> Latest, target |-> target, next |-> k + 2, ready |-> FALSE]
      <4>1. x.next + 1 = k + 2
        BY <3>1, SelectionAssumption
      <4>2. x \in Transfer /\ x.copy = Latest /\ x.target = target
        BY <1>5 DEF X11Typed, X11Fits
      <4> QED BY <4>1, <4>2, NextChunk
    <3>4. transfers' = {[copy |-> Latest, target |-> target, next |-> k + 2, ready |-> FALSE]}
      BY <1>1, <1>5, <3>1, <3>3
    <3>5. Piece(Latest, target, k + 1)' = Piece(Latest, target, k + 1)
      BY <1>2 DEF Piece
    <3> QED BY <1>2, <2>2, <3>2, <3>4, <3>5 DEF Appended
  <2> QED BY <2>1, <2>2
<1>8. queue' \in Afterwards("new")
  <2>1. Append(<<>>, "new") = <<"new">> /\ Append(<<"deleted">>, "new") = <<"deleted", "new">>
    BY Queues
  <2> QED BY <1>1, <1>4, <2>1 DEF Remains, Afterwards
<1>9. Brought(k)'
  BY <1>2, <1>4 DEF Brought, Piece
<1> QED BY <1>2, <1>3, <1>7, <1>8, <1>9 DEF Placed

(* With the connection all that was on its way is gone. *)
LEMMA LossPlaced == ASSUME X11Typed, Placed, Loss PROVE Placed'
<1>1. /\ UNCHANGED <<offers, stage, changed, target, bytes>> /\ Latest' = Latest
      /\ live' = FALSE /\ asked' = <<>> /\ transfers' = {} /\ property' = NoProperty /\ queue' = <<>>
  BY DEF Loss, reading, Latest
<1>2. InVain'
  BY <1>1 DEF InVain, Remains
<1>3. ASSUME NEW k \in 0 .. Chunks, Brought(k) PROVE Brought(k)' /\ Between(k)'
  BY <1>1, <1>3 DEF Brought, Between, Piece, NoProperty
<1>4. offers'[Latest'].form[target'] = offers[Latest].form[target] /\ queue' \in Remains'
  BY <1>1 DEF Remains
<1> QED BY <1>1, <1>2, <1>3, <1>4 DEF Placed

(* What the watch holds does not change with what the owners do. *)
LEMMA GatheredStays ==
  ASSUME Gathered, UNCHANGED <<offers, stage, collected>>
  PROVE  Gathered'
BY DEF Gathered, Latest, Content, Piece

(* Nor do the entries, while none is added and copies are only made. *)
LEMMA EntriesStay ==
  ASSUME X11Typed, OneCopyAtRest, UNCHANGED archived,
         UNCHANGED offers \/ \E o \in Offer : offers' = Append(offers, o)
  PROVE  OneCopyAtRest'
<1>1. \A c \in DOMAIN offers : c \in DOMAIN offers' /\ offers'[c] = offers[c]
  <2>1. offers \in Seq(Offer)
    BY DEF X11Typed, X11TypeOK
  <2> QED BY <2>1
<1>2. ASSUME NEW c \in DOMAIN offers, NEW m PROVE Content(c, m)' = Content(c, m)
  BY <1>1 DEF Content, Piece
<1>3. ASSUME NEW content, OfOneCopy(content) PROVE OfOneCopy(content)'
  BY <1>1, <1>2, <1>3 DEF OfOneCopy
<1> QED BY <1>3 DEF OneCopyAtRest

(* What others do keeps the watch in step, or muddles it. *)
LEMMA OthersInStep ==
  ASSUME X11Inv, Copy \/ Owners \/ Silence \/ Loss
  PROVE  Orderly' /\ (~muddled' => InStep') /\ OneCopyAtRest'
<1> USE DEF X11Inv
<1>1. CASE Copy
  <2>1. PICK o \in Offer : offers' = Append(offers, o)
    BY <1>1 DEF Copy
  <2>2. /\ owner' = Len(offers') /\ queue' = IF live THEN Append(queue, "owner") ELSE queue
        /\ UNCHANGED <<asked, transfers, live, stage, bytes, archived>> /\ muddled' = ~Resting
    BY <1>1 DEF Copy, reading
  <2>3. Orderly'
    BY <2>2 DEF Orderly
  <2>4. OneCopyAtRest'
    BY <2>1, <2>2, EntriesStay
  <2>5. ASSUME Resting PROVE InStep'
    <3>1. stage \in {"waiting", "down"} /\ queue = <<>> /\ asked = <<>> /\ transfers = {}
      BY <2>5 DEF Resting
    <3>2. queue' \in {<<>>, <<"owner">>}
      BY <2>2, <3>1, Queues
    <3> QED BY <2>2, <3>1, <3>2 DEF InStep, Placed, Gathered, Reading, Remains
  <2> QED BY <2>2, <2>3, <2>4, <2>5
<1>2. CASE Owners
  <2>1. /\ UNCHANGED <<owner, offers, live, stage, changed, target, todo, bytes, collected, archived, muddled>>
        /\ asked # <<>> \/ transfers # {}
    <3>1. CASE Answer
      <4>1. PICK i \in DOMAIN asked : Answer!(i)
        BY <3>1 DEF Answer
      <4> QED BY <4>1 DEF reading, ghosts
    <3>2. CASE Refuse
      <4>1. PICK i \in DOMAIN asked : Refuse!(i)
        BY <3>2 DEF Refuse
      <4> QED BY <4>1 DEF reading
    <3>3. CASE AppendChunk
      BY <3>3 DEF AppendChunk, reading, ghosts
    <3> QED BY <1>2, <3>1, <3>2, <3>3 DEF Owners
  <2>2. live
    BY <2>1 DEF Orderly
  <2>3. Orderly'
    BY <2>1, <2>2 DEF Orderly
  <2>4. InStep => InStep'
    BY <1>2, <2>1, AnswerPlaced, RefusePlaced, AppendChunkPlaced, GatheredStays DEF InStep, Owners
  <2> QED BY <2>1, <2>3, <2>4, EntriesStay
<1>3. CASE Silence
  <2>1. UNCHANGED <<owner, offers, queue, live, stage, bytes, collected, archived, muddled>>
    BY <1>3 DEF Silence, reading
  <2>2. asked # <<>> \/ transfers # {}
    BY <1>3 DEF Silence
  <2>3. live
    BY <2>2 DEF Orderly
  <2>4. Orderly'
    BY <2>1, <2>3 DEF Orderly
  <2>5. InStep => InStep'
    BY <1>3, <2>1, SilencePlaced, GatheredStays DEF InStep
  <2> QED BY <2>1, <2>4, <2>5, EntriesStay
<1>4. CASE Loss
  <2>1. /\ UNCHANGED <<offers, stage, bytes, collected, archived, muddled>>
        /\ owner' \in {owner, 0} /\ asked' = <<>> /\ transfers' = {} /\ queue' = <<>>
    BY <1>4 DEF Loss, reading
  <2>2. Orderly'
    BY <2>1 DEF Orderly
  <2>3. InStep => InStep'
    BY <1>4, <2>1, LossPlaced, GatheredStays DEF InStep
  <2> QED BY <2>1, <2>2, <2>3, EntriesStay
<1> QED BY <1>1, <1>2, <1>3, <1>4

(* An owner that has seen the property deleted has its next chunk ready. *)
LEMMA Readied ==
  ASSUME NEW c, NEW t, NEW n, Deleted,
         transfers \subseteq {[copy |-> c, target |-> t, next |-> n, ready |-> FALSE]}
  PROVE  transfers' \subseteq {[copy |-> c, target |-> t, next |-> n, ready |-> TRUE]}
<1>1. [[copy |-> c, target |-> t, next |-> n, ready |-> FALSE] EXCEPT !.ready = TRUE]
        = [copy |-> c, target |-> t, next |-> n, ready |-> TRUE]
  <2> DEFINE x == [copy |-> c, target |-> t, next |-> n, ready |-> FALSE]
             R == [copy : {c}, target : {t}, next : {n}, ready : BOOLEAN]
  <2>1. x \in R
    OBVIOUS
  <2> HIDE DEF x
  <2>2. [x EXCEPT !.ready = TRUE] \in R /\ [x EXCEPT !.ready = TRUE].ready = TRUE
    BY <2>1
  <2>3. \A y \in R : y.ready = TRUE => y = [copy |-> c, target |-> t, next |-> n, ready |-> TRUE]
    OBVIOUS
  <2> QED BY <2>2, <2>3 DEF x
<1> QED BY <1>1 DEF Deleted

(* The queue after a deletion. *)
LEMMA DeletedHeard ==
  ASSUME Deleted, queue = <<>>
  PROVE  queue' \in Remains /\ asked' = asked /\ property' = NoProperty /\ UNCHANGED <<owner, offers>>
BY Queues DEF Deleted, Remains

(* A conversion that is asked for goes to the latest copy, or to nobody. *)
LEMMA ConvertPlaced ==
  ASSUME Orderly, X11Typed, NEW t, Convert(t), asked = <<>>, transfers = {}, queue \in Remains
  PROVE  Unanswered' \/ InVain'
<1>1. target' = t /\ UNCHANGED <<offers, transfers>> /\ Latest' = Latest
  BY DEF Convert, Latest
<1>2. CASE owner # 0
  <2>1. owner = Latest /\ Latest \in DOMAIN offers
    BY <1>2 DEF Orderly, Latest, X11Typed, X11TypeOK
  <2>2. asked' = Append(<<>>, [copy |-> owner, target |-> t]) /\ queue' = queue
    BY <1>2 DEF Convert
  <2>3. asked' = <<[copy |-> Latest, target |-> t]>>
    BY <2>1, <2>2, Queues
  <2> QED BY <1>1, <2>1, <2>2, <2>3 DEF Unanswered, Remains
<1>3. CASE owner = 0
  <2>1. queue' = Append(queue, "refusal") /\ asked' = asked
    BY <1>3 DEF Convert
  <2>2. Append(<<>>, "refusal") = <<"refusal">> /\ Append(<<"deleted">>, "refusal") = <<"deleted", "refusal">>
    BY Queues
  <2>3. queue' \in Afterwards("refusal")
    BY <2>1, <2>2 DEF Remains, Afterwards
  <2> QED BY <1>1, <2>1, <2>3 DEF InVain
<1> QED BY <1>2, <1>3

(* The watch in step, while it looks and waits, *)
LEMMA LookInStep == ASSUME X11Inv, InStep, LookAgain PROVE InStep'
<1> USE DEF X11Inv
<1>1. stage = "top" /\ changed' = FALSE /\ asked = <<>> /\ transfers = {} /\ queue = <<>> /\ queue \in Remains
  BY DEF LookAgain, InStep, Placed, Remains
<1>2. CASE changed /\ live
  <2>1. Convert("TARGETS") /\ stage' = "targets" /\ target' = "TARGETS"
    BY <1>2 DEF LookAgain, Go, Convert
  <2>2. Unanswered' \/ InVain'
    BY <1>1, <2>1, ConvertPlaced
  <2> QED BY <1>1, <2>1, <2>2 DEF InStep, Placed, Gathered, Reading
<1>3. CASE ~(changed /\ live)
  <2>1. stage' = "waiting" /\ UNCHANGED <<asked, transfers, queue>>
    BY <1>3 DEF LookAgain, Go, server
  <2> QED BY <1>1, <2>1 DEF InStep, Placed, Gathered, Reading, Remains
<1> QED BY <1>2, <1>3

(* hears of an event, *)
LEMMA WaitInStep == ASSUME X11Inv, InStep, WaitForEvent PROVE InStep'
<1>1. /\ stage = "waiting" /\ stage' = "top" /\ queue # <<>> /\ queue' = Tail(queue)
      /\ UNCHANGED <<asked, transfers>>
  BY DEF WaitForEvent, Go
<1>2. asked = <<>> /\ transfers = {} /\ queue \in {<<"deleted">>, <<"owner">>}
  BY <1>1 DEF InStep, Placed, Remains
<1>3. queue' = <<>>
  BY <1>1, <1>2, Queues
<1> QED BY <1>1, <1>2, <1>3 DEF InStep, Placed, Gathered, Reading

(* fails, *)
LEMMA FailInStep == ASSUME X11Inv, InStep, Fail PROVE InStep'
<1>1. stage = "waiting" /\ stage' = "down" /\ UNCHANGED <<asked, transfers>>
  BY DEF Fail, Go, server
<1> QED BY <1>1 DEF InStep, Placed, Gathered, Reading

(* or starts again, whatever was left over. *)
LEMMA ReconnectInStep == ASSUME X11Inv, Reconnect PROVE InStep'
<1>1. stage = "down" /\ stage' = "top" /\ UNCHANGED <<asked, transfers, queue>>
  BY DEF Reconnect, Go, server
<1>2. asked = <<>> /\ transfers = {} /\ queue = <<>>
  BY <1>1 DEF X11Inv, Orderly, X11Typed, X11TypeOK
<1> QED BY <1>1, <1>2 DEF InStep, Placed, Gathered, Reading

(* A part that is given up with nothing outstanding leaves nothing behind. *)
LEMMA GiveUpInStep ==
  ASSUME Gathered, GiveUp, stage \in Awaiting, ~changed',
         UNCHANGED <<offers, asked, transfers, target>>, asked = <<>>, transfers = {}, queue' \in Remains
  PROVE  InStep'
<1>1. CASE stage = "targets"
  BY <1>1 DEF GiveUp, EndRead, Go, InStep, Placed, Gathered, Reading, Remains
<1>2. CASE stage # "targets"
  <2>1. stage \in {"data", "increment"} /\ stage' = "next" /\ UNCHANGED <<todo, collected>>
    BY <1>2 DEF GiveUp, Go, Awaiting
  <2>2. Gathered'
    BY <2>1 DEF Gathered, Reading, Latest, Content, Piece
  <2> QED BY <2>1, <2>2 DEF InStep, Placed, Remains
<1> QED BY <1>1, <1>2

(* An event heard where a conversion is awaited. *)
LEMMA AwaitedHeard ==
  ASSUME X11Inv, InStep, PollEvent, stage \in {"targets", "data"}
  PROVE  InStep'
<1> USE DEF X11Inv
<1>1. /\ queue # <<>> /\ queue' = Tail(queue) /\ ~changed
      /\ UNCHANGED <<owner, offers, asked, transfers, property, live, target>>
      /\ Latest' = Latest
  BY DEF PollEvent, Latest
<1>2. /\ live /\ (stage = "targets" => target = "TARGETS") /\ Gathered
      /\ Unanswered \/ Answered \/ InVain
  BY <1>1 DEF InStep, Placed, Orderly
<1>3. Head(queue) # "owner" /\ ~changed'
  <2>1. Head(queue) # "owner"
    BY <1>1, <1>2, Queues DEF Unanswered, Answered, InVain, Remains, Afterwards
  <2> QED BY <2>1 DEF PollEvent
<1>4. CASE Head(queue) = "refusal"
  <2>1. InVain /\ queue = <<"refusal">>
    BY <1>1, <1>2, <1>4, Queues DEF Unanswered, Answered, InVain, Remains, Afterwards
  <2>2. GiveUp /\ stage \in Awaiting
    BY <1>4 DEF PollEvent, Awaiting
  <2>3. queue' \in Remains
    BY <1>1, <2>1, Queues DEF Remains
  <2> QED BY <1>1, <1>2, <1>3, <2>1, <2>2, <2>3, GiveUpInStep DEF InVain
<1>5. CASE Head(queue) # "refusal"
  <2>1. stage' = Reached(Head(queue)) /\ UNCHANGED <<todo, bytes, collected>>
    BY <1>5 DEF PollEvent, Go
  <2>2. Gathered'
    <3>1. stage' \in {"targets", "takeTargets"} \/ stage \in Reading
      BY <2>1 DEF Reached, Reading
    <3>2. stage' \in {"targets", "takeTargets"} => Gathered'
      BY DEF Gathered, Reading
    <3>3. stage \in Reading => Gathered'
      BY <1>1, <1>2, <2>1 DEF Gathered, Latest, Content, Piece
    <3> QED BY <3>1, <3>2, <3>3
  <2>3. CASE Head(queue) = "answer"
    <3>1. Answered /\ queue = <<"answer">>
      BY <1>1, <1>2, <2>3, Queues DEF Unanswered, Answered, InVain, Remains, Afterwards
    <3>2. queue' = <<>> /\ asked = <<>>
      BY <1>1, <3>1, Queues DEF Answered
    <3>3. Proper(target)'
      BY <1>1, <3>1 DEF Answered, Proper, Content, Piece
    <3>4. stage' \in {"takeTargets", "takeData"} /\ (stage' = "takeTargets" => target' = "TARGETS")
      BY <1>1, <1>2, <2>1, <2>3 DEF Reached
    <3> QED BY <1>1, <1>2, <1>3, <2>2, <3>2, <3>3, <3>4 DEF InStep, Placed
  <2>4. CASE Head(queue) # "answer"
    <3>1. stage' = stage
      BY <2>1, <2>4 DEF Reached
    <3>2. CASE Unanswered
      <4>1. queue' = <<>>
        BY <1>1, <3>2, Queues DEF Unanswered, Remains
      <4>2. Unanswered'
        BY <1>1, <3>2, <4>1 DEF Unanswered, Remains
      <4> QED BY <1>1, <1>2, <1>3, <2>2, <3>1, <4>2 DEF InStep, Placed
    <3>3. CASE Answered
      <4>1. queue' \in {<<"new", "answer">>, <<"answer">>}
        <5>1. \/ queue = <<"new", "answer">>
              \/ queue = <<"deleted", "new", "answer">>
          <6>1. Head(<<"answer">>) = "answer"
            BY Queues
          <6> QED BY <2>4, <3>3, <6>1 DEF Answered
        <5>2. /\ Tail(<<"new", "answer">>) = <<"answer">>
              /\ Tail(<<"deleted", "new", "answer">>) = <<"new", "answer">>
          BY Queues
        <5> QED BY <1>1, <5>1, <5>2
      <4>2. Answered'
        BY <1>1, <3>3, <4>1 DEF Answered, Proper, Content, Piece
      <4> QED BY <1>1, <1>2, <1>3, <2>2, <3>1, <4>2 DEF InStep, Placed
    <3>4. CASE InVain
      <4>1. queue' \in {<<>>, <<"refusal">>}
        <5>1. queue = <<"deleted">> \/ queue = <<"deleted", "refusal">>
          <6>1. Head(<<"refusal">>) = "refusal"
            BY Queues
          <6> QED BY <1>1, <1>5, <3>4, <6>1 DEF InVain, Remains, Afterwards
        <5>2. Tail(<<"deleted">>) = <<>> /\ Tail(<<"deleted", "refusal">>) = <<"refusal">>
          BY Queues
        <5> QED BY <1>1, <5>1, <5>2
      <4>2. InVain'
        BY <1>1, <3>4, <4>1 DEF InVain, Remains, Afterwards
      <4> QED BY <1>1, <1>2, <1>3, <2>2, <3>1, <4>2 DEF InStep, Placed
    <3> QED BY <1>2, <3>2, <3>3, <3>4
  <2> QED BY <2>3, <2>4
<1> QED BY <1>4, <1>5

(* An event heard where a chunk is awaited. *)
LEMMA ChunkHeard ==
  ASSUME X11Inv, InStep, PollEvent, stage = "increment"
  PROVE  InStep'
<1> USE DEF X11Inv
<1>1. /\ queue # <<>> /\ queue' = Tail(queue) /\ asked = <<>>
      /\ UNCHANGED <<owner, offers, asked, transfers, property, live, target>>
      /\ Latest' = Latest
  BY DEF PollEvent, Latest, InStep, Placed
<1>2. /\ stage' = Reached(Head(queue)) /\ UNCHANGED <<todo, bytes, collected>>
      /\ changed' = (Head(queue) = "owner")
  BY DEF PollEvent, Go
<1>3. live /\ Gathered /\ offers[Latest].form[target] = "incremental"
  BY <1>1 DEF InStep, Placed, Orderly
<1>4. PICK k \in 0 .. Chunks :
        /\ Brought(k)
        /\ \/ Between(k) /\ queue \in Remains
           \/ Appended(k) /\ queue \in Afterwards("new")
  BY DEF InStep, Placed
<1>5. Gathered'
  BY <1>1, <1>2, <1>3 DEF Gathered, Reading, Latest, Content, Piece
<1>6. Brought(k)' /\ (Between(k) => Between(k)') /\ (Appended(k) => Appended(k)')
  BY <1>1, <1>2, <1>4 DEF Brought, Between, Appended, Piece, NoProperty
<1>7. CASE Between(k) /\ queue \in Remains
  <2>1. queue = <<"deleted">> /\ queue' = <<>> /\ Head(queue) = "deleted"
    BY <1>1, <1>7, Queues DEF Remains
  <2>2. stage' = "increment" /\ ~changed' /\ queue' \in Remains
    BY <1>2, <2>1 DEF Reached, Remains
  <2> QED BY <1>1, <1>3, <1>5, <1>6, <1>7, <2>2 DEF InStep, Placed, Remains
<1>8. CASE Appended(k) /\ queue = <<"new">>
  <2>1. queue' = <<>> /\ Head(queue) = "new"
    BY <1>1, <1>8, Queues
  <2>2. stage' = "takeChunk" /\ ~changed'
    BY <1>2, <2>1 DEF Reached
  <2> QED BY <1>1, <1>3, <1>5, <1>6, <1>8, <2>1, <2>2 DEF InStep, Placed
<1>9. CASE Appended(k) /\ queue = <<"deleted", "new">>
  <2>1. queue' = <<"new">> /\ Head(queue) = "deleted"
    <3>1. Tail(<<"deleted", "new">>) = <<"new">> /\ Head(<<"deleted", "new">>) = "deleted"
      BY Queues
    <3> QED BY <1>1, <1>9, <3>1
  <2>2. stage' = "increment" /\ ~changed' /\ queue' \in Afterwards("new")
    BY <1>2, <2>1 DEF Reached, Afterwards
  <2> QED BY <1>1, <1>3, <1>5, <1>6, <1>9, <2>2 DEF InStep, Placed, Afterwards
<1> QED BY <1>4, <1>7, <1>8, <1>9 DEF Afterwards

(* A deadline that passes with nothing outstanding, *)
LEMMA TimeoutInStep == ASSUME X11Inv, InStep, Timeout, ~muddled' PROVE InStep'
<1>1. /\ asked = <<>> /\ transfers = {} /\ queue = <<>>
      /\ GiveUp /\ stage \in Awaiting /\ ~changed
      /\ UNCHANGED <<server, changed, target>>
  BY DEF Timeout
<1> QED BY <1>1, GiveUpInStep DEF server, InStep, Remains

(* the targets taken, *)
LEMMA TakeTargetsInStep == ASSUME X11Inv, InStep, TakeTargets PROVE InStep'
<1> USE DEF X11Inv
<1>1. /\ stage = "takeTargets" /\ target = "TARGETS" /\ ~changed /\ UNCHANGED <<live, changed, target>>
      /\ asked = <<>> /\ queue = <<>> /\ (IF live THEN Proper(target) ELSE transfers = {})
  BY DEF TakeTargets, InStep, Placed
<1>2. CASE live
  <2>1. property = [type |-> "atoms", pieces |-> {Piece(Latest, "TARGETS", 0)}] /\ transfers = {}
        /\ Latest \in DOMAIN offers
    BY <1>1, <1>2 DEF Proper
  <2>2. (CHOOSE p \in property.pieces : TRUE).copy = Latest
    <3>1. (CHOOSE p \in property.pieces : TRUE) \in property.pieces
      BY <2>1
    <3> QED BY <2>1, <3>1 DEF Piece
  <2>3. /\ Deleted
        /\ IF offers[Latest].secret THEN EndRead
           ELSE stage' = "next" /\ UNCHANGED <<bytes, collected>>
    BY <1>2, <2>1, <2>2 DEF TakeTargets, Go
  <2>4. queue' \in Remains /\ asked' = <<>> /\ transfers' = {} /\ UNCHANGED offers /\ Latest' = Latest
    BY <1>1, <2>1, <2>3, DeletedHeard DEF Deleted, Latest
  <2>5. CASE offers[Latest].secret
    BY <1>1, <2>3, <2>4, <2>5 DEF EndRead, Go, InStep, Placed, Gathered, Reading, Remains
  <2>6. CASE ~offers[Latest].secret
    <3>1. DOMAIN collected = {}
      BY <1>1, WatchIsTyped DEF WatchTyped, Reading
    <3>2. Gathered'
      BY <2>1, <2>3, <2>4, <2>6, <3>1 DEF Gathered
    <3> QED BY <1>1, <2>3, <2>4, <2>6, <3>2 DEF InStep, Placed, Remains
  <2> QED BY <2>5, <2>6
<1>3. CASE ~live
  <2>1. EndRead /\ UNCHANGED server
    BY <1>3 DEF TakeTargets
  <2> QED BY <1>1, <1>3, <2>1 DEF EndRead, Go, server, InStep, Placed, Gathered, Reading, Remains
<1> QED BY <1>2, <1>3

(* a representation asked for, *)
LEMMA AskInStep == ASSUME X11Inv, InStep, Ask PROVE InStep'
<1> USE DEF X11Inv
<1>1. /\ stage = "next" /\ stage' = "data" /\ ~changed /\ UNCHANGED <<changed, collected>>
      /\ asked = <<>> /\ transfers = {} /\ queue \in Remains /\ Gathered
  BY DEF Ask, Go, InStep, Placed
<1>2. PICK m \in todo : Convert(m)
  BY DEF Ask
<1>3. Unanswered' \/ InVain'
  BY <1>1, <1>2, ConvertPlaced
<1>4. UNCHANGED offers
  BY <1>2 DEF Convert
<1>5. Gathered'
  BY <1>1, <1>4 DEF Gathered, Reading, Latest, Content, Piece
<1> QED BY <1>1, <1>3, <1>5 DEF InStep, Placed

(* What is pushed is what the latest copy holds. *)
LEMMA PushGathered ==
  ASSUME Gathered, stage \in Reading, stage' \in Reading \cup {"next"}, UNCHANGED <<offers, target>>,
         Push(Content(Latest, target))
  PROVE  Gathered'
<1>1. Latest' = Latest /\ \A m : Content(Latest, m)' = Content(Latest, m)
  BY DEF Latest, Content, Piece
<1>2. \A m \in DOMAIN collected' : collected'[m] = Content(Latest, m)
  <2>1. CASE Content(Latest, target) = {}
    BY <2>1 DEF Push, Gathered
  <2>2. CASE Content(Latest, target) # {}
    <3>1. collected' = [m \in DOMAIN collected \cup {target} |->
                          IF m \in DOMAIN collected THEN collected[m] ELSE Content(Latest, target)]
      BY <2>2 DEF Push, With
    <3> QED BY <3>1 DEF Gathered
  <2> QED BY <2>1, <2>2
<1> QED BY <1>1, <1>2 DEF Gathered

(* the answer taken, *)
LEMMA TakeDataInStep == ASSUME X11Inv, InStep, TakeData PROVE InStep'
<1> USE DEF X11Inv
<1>1. /\ stage = "takeData" /\ stage \in Reading /\ live /\ Deleted /\ ~changed
      /\ asked = <<>> /\ queue = <<>> /\ Proper(target) /\ Gathered
      /\ UNCHANGED <<live, changed, target, todo, bytes>>
  BY DEF TakeData, InStep, Placed, Reading
<1>2. /\ queue' \in Remains /\ asked' = <<>> /\ property' = NoProperty
      /\ UNCHANGED <<owner, offers>> /\ Latest' = Latest
  BY <1>1, DeletedHeard DEF Latest
<1>3. target # "TARGETS"
  BY <1>1, SelectionAssumption, WatchIsTyped DEF WatchTyped
<1>4. CASE property.type = "INCR"
  <2>1. stage' = "increment" /\ UNCHANGED collected
    BY <1>4 DEF TakeData, Go
  <2>2. /\ offers[Latest].form[target] = "incremental"
        /\ transfers \subseteq {[copy |-> Latest, target |-> target, next |-> 1, ready |-> FALSE]}
    BY <1>1, <1>3, <1>4 DEF Proper
  <2>3. transfers' \subseteq {[copy |-> Latest, target |-> target, next |-> 1, ready |-> TRUE]}
    BY <1>1, <2>2, Readied
  <2>4. Between(0)'
    BY <1>1, <1>2, <2>3 DEF Between, NoProperty
  <2>5. Brought(0)'
    BY <1>1 DEF Brought, Orderly
  <2>6. 0 \in 0 .. Chunks
    BY SelectionAssumption
  <2>7. Gathered'
    BY <1>1, <1>2, <2>1 DEF Gathered, Reading, Latest, Content, Piece
  <2> QED BY <1>1, <1>2, <2>1, <2>2, <2>4, <2>5, <2>6, <2>7 DEF InStep, Placed, Remains
<1>5. CASE property.type # "INCR"
  <2>1. stage' = "next" /\ Push(property.pieces)
    BY <1>5 DEF TakeData, Go
  <2>2. property.pieces = Content(Latest, target) /\ transfers = {}
    BY <1>1, <1>3, <1>5 DEF Proper
  <2>3. transfers' = {}
    BY <1>1, <2>2 DEF Deleted
  <2>4. Gathered'
    BY <1>1, <1>2, <2>1, <2>2, PushGathered
  <2> QED BY <1>1, <1>2, <2>1, <2>3, <2>4 DEF InStep, Placed, Remains
<1> QED BY <1>4, <1>5

(* a chunk taken, *)
LEMMA TakeChunkInStep == ASSUME X11Inv, InStep, TakeChunk PROVE InStep'
<1> USE DEF X11Inv
<1>1. /\ stage = "takeChunk" /\ stage \in Reading /\ live /\ Deleted /\ ~changed
      /\ asked = <<>> /\ queue = <<>> /\ Gathered
      /\ offers[Latest].form[target] = "incremental"
      /\ UNCHANGED <<live, changed, target, todo>>
  BY DEF TakeChunk, InStep, Placed, Reading
<1>2. /\ queue' \in Remains /\ asked' = <<>> /\ property' = NoProperty
      /\ UNCHANGED <<owner, offers>> /\ Latest' = Latest
  BY <1>1, DeletedHeard DEF Latest
<1>3. PICK k \in 0 .. Chunks : Brought(k) /\ Appended(k)
  BY <1>1 DEF InStep, Placed
<1>4. CASE k = Chunks
  <2>1. property.pieces = {} /\ transfers = {}
    BY <1>3, <1>4 DEF Appended
  <2>2. stage' = "next" /\ Push(bytes) /\ transfers' = {}
    BY <1>1, <2>1 DEF TakeChunk, Go, Deleted
  <2>3. bytes = Content(Latest, target)
    BY <1>1, <1>3, <1>4 DEF Brought, Content
  <2>4. Gathered'
    BY <1>1, <1>2, <2>2, <2>3, PushGathered
  <2> QED BY <1>1, <1>2, <2>2, <2>4 DEF InStep, Placed, Remains
<1>5. CASE k # Chunks
  <2>1. /\ property.pieces = {Piece(Latest, target, k + 1)}
        /\ transfers \subseteq {[copy |-> Latest, target |-> target, next |-> k + 2, ready |-> FALSE]}
    BY <1>3, <1>5 DEF Appended
  <2>2. /\ stage' = "increment" /\ UNCHANGED collected
        /\ bytes' = bytes \cup {Piece(Latest, target, k + 1)}
    BY <2>1 DEF TakeChunk, Go
  <2>3. k + 1 \in 0 .. Chunks /\ (k + 1) + 1 = k + 2 /\ \A n \in Int : n \in 1 .. k + 1 <=> n \in 1 .. k \/ n = k + 1
    BY <1>5, SelectionAssumption
  <2>4. Brought(k + 1)'
    <3>1. {Piece(Latest, target, n) : n \in 1 .. k + 1}
            = {Piece(Latest, target, n) : n \in 1 .. k} \cup {Piece(Latest, target, k + 1)}
      BY <2>3, SelectionAssumption
    <3>2. bytes' = {Piece(Latest, target, n) : n \in 1 .. k + 1}
      BY <1>3, <2>2, <3>1 DEF Brought
    <3> QED BY <1>1, <1>2, <3>2 DEF Brought, Piece
  <2>5. transfers' \subseteq {[copy |-> Latest, target |-> target, next |-> k + 2, ready |-> TRUE]}
    BY <1>1, <2>1, Readied
  <2>6. Between(k + 1)'
    BY <1>1, <1>2, <2>3, <2>5 DEF Between, NoProperty
  <2>7. Gathered'
    BY <1>1, <1>2, <2>2 DEF Gathered, Reading, Latest, Content, Piece
  <2>8. offers'[Latest'].form[target'] = "incremental"
    BY <1>1, <1>2
  <2> QED BY <1>1, <1>2, <2>2, <2>3, <2>4, <2>6, <2>7, <2>8 DEF InStep, Placed, Remains
<1> QED BY <1>4, <1>5

(* and the connection found broken. *)
LEMMA CallFailsInStep == ASSUME X11Inv, InStep, CallFails PROVE InStep'
<1> USE DEF X11Inv
<1>1. ~live /\ UNCHANGED <<server, changed, target>> /\ asked = <<>> /\ transfers = {} /\ queue = <<>>
      /\ Gathered
  BY DEF CallFails, Orderly, InStep
<1>2. stage \in {"takeData", "takeChunk", "next"} /\ stage' = "next" /\ UNCHANGED collected /\ ~changed
  BY DEF CallFails, GiveUp, Go, InStep, Placed
<1>3. Gathered'
  BY <1>1, <1>2 DEF Gathered, Reading, Latest, Content, Piece, server
<1> QED BY <1>1, <1>2, <1>3 DEF InStep, Placed, Remains, server

(* What is recorded is the latest copy's. *)
LEMMA RecordInStep ==
  ASSUME X11Inv, RecordParts
  PROVE  (InStep => InStep') /\ OneCopyAtRest'
<1> USE DEF X11Inv
<1>1. stage = "next" /\ stage' = "waiting" /\ UNCHANGED <<server, changed, target, muddled>>
  BY DEF RecordParts, EndRead, Go
<1>2. ASSUME InStep PROVE InStep'
  BY <1>1, <1>2 DEF InStep, Placed, Gathered, Reading, server, Remains
<1>3. ASSUME NEW content, OfOneCopy(content) PROVE OfOneCopy(content)'
  BY <1>1, <1>3 DEF OfOneCopy, Content, Piece, server
<1>4. ~muddled => OfOneCopy(collected)
  BY <1>1 DEF InStep, Gathered, OfOneCopy
<1>5. ASSUME NEW entry \in archived' PROVE entry.muddled \/ OfOneCopy(entry.parts)'
  <2>1. CASE entry \in archived
    BY <1>3, <2>1 DEF OneCopyAtRest
  <2>2. CASE entry = [parts |-> collected, muddled |-> muddled]
    BY <1>3, <1>4, <2>2
  <2> QED BY <1>5, <2>1, <2>2 DEF RecordParts
<1> QED BY <1>2, <1>5 DEF OneCopyAtRest

(* What is orderly stays so while the watch goes on. *)
LEMMA WatchOrderly == ASSUME X11Inv, Watch PROVE Orderly'
<1> USE DEF X11Inv
<1>1. UNCHANGED offers /\ UNCHANGED owner
  BY DEF Watch, LookAgain, WaitForEvent, Fail, Reconnect, PollEvent, Timeout, Abandon, TakeTargets,
     Ask, TakeData, TakeChunk, CallFails, RecordParts, Convert, Deleted, server
<1>2. ~live' => asked' = <<>> /\ transfers' = {} /\ queue' = <<>>
  <2>1. CASE live
    BY <2>1 DEF Watch, LookAgain, WaitForEvent, Fail, Reconnect, PollEvent, Timeout, Abandon,
       TakeTargets, Ask, TakeData, TakeChunk, CallFails, RecordParts
  <2>2. CASE ~live
    <3>1. asked = <<>> /\ transfers = {} /\ queue = <<>>
      BY <2>2 DEF Orderly
    <3>2. UNCHANGED <<asked, transfers, queue>> \/ live'
      BY <2>2, <3>1 DEF Watch, LookAgain, WaitForEvent, Fail, Reconnect, PollEvent, Timeout, Abandon,
         TakeTargets, Ask, TakeData, TakeChunk, CallFails, RecordParts, server
    <3> QED BY <3>1, <3>2
  <2> QED BY <2>1, <2>2
<1>3. stage' \notin {"increment", "takeChunk"} => bytes' = {}
  <2>1. CASE LookAgain \/ WaitForEvent \/ Fail \/ Reconnect
    BY <2>1 DEF LookAgain, WaitForEvent, Fail, Reconnect, Go, reading, Orderly
  <2>2. CASE PollEvent
    BY <2>2 DEF PollEvent, GiveUp, EndRead, Go, Reached, Orderly
  <2>3. CASE Timeout \/ Abandon
    BY <2>3 DEF Timeout, Abandon, GiveUp, EndRead
  <2>4. CASE TakeTargets \/ RecordParts
    BY <2>4 DEF TakeTargets, RecordParts, EndRead, Orderly
  <2>5. CASE Ask
    BY <2>5 DEF Ask, Orderly
  <2>6. CASE TakeData
    BY <2>6 DEF TakeData, Orderly
  <2>7. CASE TakeChunk
    BY <2>7 DEF TakeChunk, Go
  <2>8. CASE CallFails
    BY <2>8 DEF CallFails, GiveUp, EndRead, Orderly
  <2> QED BY <2>1, <2>2, <2>3, <2>4, <2>5, <2>6, <2>7, <2>8 DEF Watch
<1> QED BY <1>1, <1>2, <1>3 DEF Orderly

(* The watch stays in step, and adds no entry that mixes copies. *)
LEMMA WatchInStep ==
  ASSUME X11Inv, Watch
  PROVE  (~muddled' => InStep') /\ OneCopyAtRest'
<1> USE DEF X11Inv
<1>1. UNCHANGED offers
  BY DEF Watch, LookAgain, WaitForEvent, Fail, Reconnect, PollEvent, Timeout, Abandon, TakeTargets,
     Ask, TakeData, TakeChunk, CallFails, RecordParts, Convert, Deleted, server
<1>2. CASE Reconnect
  BY <1>1, <1>2, ReconnectInStep, EntriesStay DEF Reconnect
<1>3. CASE Timeout
  <2>1. UNCHANGED archived /\ (~muddled' => ~muddled)
    BY <1>3 DEF Timeout
  <2> QED BY <1>1, <1>3, <2>1, TimeoutInStep, EntriesStay
<1>4. CASE RecordParts
  BY <1>4, RecordInStep DEF RecordParts, EndRead
<1>5. CASE LookAgain \/ WaitForEvent \/ Fail
  <2>1. UNCHANGED <<archived, muddled>>
    BY <1>5 DEF LookAgain, WaitForEvent, Fail, ghosts
  <2> QED BY <1>1, <1>5, <2>1, LookInStep, WaitInStep, FailInStep, EntriesStay
<1>6. CASE PollEvent
  <2>1. UNCHANGED <<archived, muddled>> /\ stage \in Awaiting
    BY <1>6 DEF PollEvent, ghosts
  <2> QED BY <1>1, <1>6, <2>1, AwaitedHeard, ChunkHeard, EntriesStay DEF Awaiting
<1>7. CASE Abandon
  <2>1. UNCHANGED <<archived, muddled>> /\ ~InStep
    BY <1>7 DEF Abandon, ghosts, InStep, Placed, Awaiting
  <2> QED BY <1>1, <2>1, EntriesStay
<1>8. CASE TakeTargets \/ Ask \/ TakeData \/ TakeChunk \/ CallFails
  <2>1. UNCHANGED <<archived, muddled>>
    BY <1>8 DEF TakeTargets, Ask, TakeData, TakeChunk, CallFails, ghosts
  <2> QED BY <1>1, <1>8, <2>1, TakeTargetsInStep, AskInStep, TakeDataInStep, TakeChunkInStep,
             CallFailsInStep, EntriesStay
<1> QED BY <1>2, <1>3, <1>4, <1>5, <1>6, <1>7, <1>8 DEF Watch

(* The invariant holds at the start and through every step. *)
LEMMA X11InitInv == X11Init => X11Inv
<1> SUFFICES ASSUME X11Init PROVE X11Inv
  OBVIOUS
<1>1. Orderly /\ OneCopyAtRest
  BY DEF X11Init, Orderly, OneCopyAtRest
<1>2. InStep
  BY DEF X11Init, InStep, Placed, Gathered, Reading
<1> QED BY <1>1, <1>2, X11InitTyped DEF X11Inv

(* Likewise. *)
LEMMA X11StepInv == X11Inv /\ [X11Next]_x11Vars => X11Inv'
<1> SUFFICES ASSUME X11Inv, [X11Next]_x11Vars PROVE X11Inv'
  OBVIOUS
<1>1. X11Typed'
  BY X11StepTyped DEF X11Inv
<1>2. CASE UNCHANGED x11Vars
  <2>1. UNCHANGED <<owner, offers, asked, transfers, property, queue, live, stage, changed, target,
                    todo, bytes, collected, archived, muddled>> /\ Latest' = Latest
    BY <1>2 DEF x11Vars, server, reading, ghosts, Latest
  <2>2. Orderly' /\ OneCopyAtRest'
    BY <2>1, EntriesStay DEF X11Inv, Orderly
  <2>3. ASSUME Proper(target) PROVE Proper(target)'
    BY <2>1, <2>3 DEF Proper, Content, Piece
  <2>4. ASSUME NEW k \in 0 .. Chunks
        PROVE  /\ Brought(k) => Brought(k)'
               /\ Between(k) => Between(k)'
               /\ Appended(k) => Appended(k)'
    BY <2>1 DEF Brought, Between, Appended, Piece, NoProperty
  <2>5. (Unanswered \/ Answered \/ InVain) => (Unanswered \/ Answered \/ InVain)'
    BY <2>1, <2>3 DEF Unanswered, Answered, InVain, Remains, Afterwards
  <2>6. Placed => Placed'
    BY <2>1, <2>3, <2>4, <2>5 DEF Placed, Remains, Afterwards
  <2>7. Gathered => Gathered'
    BY <2>1, GatheredStays
  <2> QED BY <1>1, <2>1, <2>2, <2>6, <2>7 DEF X11Inv, InStep
<1>3. CASE Copy \/ Owners \/ Silence \/ Loss
  BY <1>1, <1>3, OthersInStep DEF X11Inv
<1>4. CASE Watch
  BY <1>1, <1>4, WatchOrderly, WatchInStep DEF X11Inv
<1> QED BY <1>2, <1>3, <1>4 DEF X11Next

(* An entry made while no stray answer could be taken for another is one   *)
(* copy's, all of it under its own names, and no secret's: however owners  *)
(* refuse, fall silent or are late, and wherever the connection breaks.    *)
THEOREM EntriesAtRestAreOneCopy == X11Spec => []OneCopyAtRest
<1>1. X11Inv => OneCopyAtRest
  BY DEF X11Inv
<1> QED BY <1>1, X11InitInv, X11StepInv, PTL DEF X11Spec

-----------------------------------------------------------------------------
(* What is archived of the names an offer has, in any order and number:    *)
(* the fold over the names is a table of its prefixes, of which the least  *)
(* that went wrong would not be the empty one; the sort gives each name a  *)
(* place of its own, since as many names come no later as its place says.  *)

(* Numbers have a least one. *)
LEMMA LeastNat ==
  ASSUME NEW B, B \subseteq Nat, B # {}
  PROVE  \E n \in B : \A m \in B : n <= m
<1>1. PICK n \in B : \A m \in B : ~(<<m, n>> \in OpToRel(<, Nat))
  BY WFMin, NatLessThanWellFounded
<1>2. ASSUME NEW m \in B PROVE n <= m
  <2>1. n \in Nat /\ m \in Nat
    OBVIOUS
  <2>2. ~(m < n)
    BY <1>1, <2>1 DEF OpToRel
  <2> QED BY <2>1, <2>2
<1> QED BY <1>2

LEMMA RankIsNumber == ASSUME NEW n PROVE Rank(n) \in Nat
BY DEF Rank

(* The rank goes by the key. *)
LEMMA RankOfKey == ASSUME NEW n, NEW o, KeyOf[n] = KeyOf[o] PROVE Rank(n) = Rank(o)
<1>1. PICK k : k = KeyOf[n] /\ k = KeyOf[o]
  OBVIOUS
<1> QED BY <1>1, Zenon DEF Rank

(* Of two places one comes no later, both only of the same one; and what   *)
(* comes no later than an earlier one is earlier.                          *)
LEMMA NoLaterOrders ==
  ASSUME NEW names, NEW i \in Nat, NEW j \in Nat, NEW k \in Nat
  PROVE  /\ NoLater(names, i, j) \/ NoLater(names, j, i)
         /\ NoLater(names, i, j) /\ NoLater(names, j, i) => i = j
         /\ NoLater(names, i, j) /\ NoLater(names, j, k) => NoLater(names, i, k)
<1>1. Rank(names[i]) \in Nat /\ Rank(names[j]) \in Nat /\ Rank(names[k]) \in Nat
  BY RankIsNumber
<1> QED BY <1>1 DEF NoLater

(* Whatever comes earlier has a smaller place. *)
LEMMA PlaceOrders ==
  ASSUME NEW names, NEW n \in Nat, DOMAIN names = 1 .. n, NEW i \in 1 .. n, NEW j \in 1 .. n
  PROVE  /\ Place(names, j) \in 1 .. n
         /\ i # j /\ NoLater(names, i, j) => Place(names, i) < Place(names, j)
<1> DEFINE Upto(x) == {y \in 1 .. n : NoLater(names, y, x)}
<1>1. \A x \in 1 .. n : IsFiniteSet(Upto(x)) /\ Cardinality(Upto(x)) \in Nat
  <2>1. IsFiniteSet(1 .. n)
    BY FS_Interval
  <2> QED BY <2>1, FS_Subset, FS_CardinalityType
<1>2. \A x \in 1 .. n : Place(names, x) = Cardinality(Upto(x))
  BY DEF Place
<1>3. j \in Upto(j) /\ Upto(j) \subseteq 1 .. n
  BY NoLaterOrders
<1>4. Cardinality(Upto(j)) \in 1 .. n
  <2>1. Cardinality(Upto(j)) <= n
    <3>1. IsFiniteSet(1 .. n) /\ Cardinality(1 .. n) = n
      BY FS_Interval
    <3> QED BY <1>3, <3>1, FS_Subset
  <2>2. Cardinality(Upto(j)) # 0
    <3> HIDE DEF Upto
    <3> QED BY <1>1, <1>3, FS_EmptySet
  <2> HIDE DEF Upto
  <2> QED BY <1>1, <2>1, <2>2
<1>5. ASSUME i # j, NoLater(names, i, j) PROVE Cardinality(Upto(i)) < Cardinality(Upto(j))
  <2>1. Upto(i) \subseteq Upto(j)
    BY <1>5, NoLaterOrders
  <2>2. j \notin Upto(i)
    BY <1>5, NoLaterOrders
  <2> HIDE DEF Upto
  <2> QED BY <1>1, <1>3, <2>1, <2>2, FS_Subset
<1> HIDE DEF Upto
<1> QED BY <1>2, <1>4, <1>5

(* s has the names at the places F of an offer, in order of rank.          *)
Ranks(s, n, q, F, h) ==
  /\ \A k \in 1 .. n : s[k] = q[h[k]]
  /\ \A k, l \in 1 .. n : k < l => h[k] # h[l] /\ NoLater(q, h[k], h[l])
  /\ \A x \in F : \E k \in 1 .. n : h[k] = x

(* Sorting moves each name to a place of its own, an earlier one before a  *)
(* later one.                                                              *)
LEMMA RankedSorts ==
  ASSUME NEW names, NEW n \in Nat, DOMAIN names = 1 .. n
  PROVE  /\ DOMAIN Ranked(names) = 1 .. n
         /\ \E p \in [1 .. n -> 1 .. n] : Ranks(Ranked(names), n, names, 1 .. n, p)
<1> DEFINE f == [j \in 1 .. n |-> Place(names, j)]
           p == [k \in 1 .. n |-> CHOOSE j \in 1 .. n : Place(names, j) = k]
<1>1. f \in Injection(1 .. n, 1 .. n)
  <2>1. f \in [1 .. n -> 1 .. n]
    BY PlaceOrders
  <2>2. ASSUME NEW i \in 1 .. n, NEW j \in 1 .. n, f[i] = f[j] PROVE i = j
    <3>1. Place(names, i) = Place(names, j) /\ Place(names, i) \in 1 .. n
      BY <2>2, PlaceOrders
    <3>2. ~ Place(names, i) < Place(names, j) /\ ~ Place(names, j) < Place(names, i)
      BY <3>1
    <3> QED BY <3>2, PlaceOrders, NoLaterOrders
  <2> HIDE DEF f
  <2> QED BY <2>1, <2>2 DEF Injection, IsInjective
<1>2. \A k \in 1 .. n : \E j \in 1 .. n : Place(names, j) = k
  <2>1. f \in Surjection(1 .. n, 1 .. n)
    BY <1>1, FS_Interval, FS_Injection
  <2> QED BY <2>1 DEF Surjection
<1>3. \A k \in 1 .. n : p[k] \in 1 .. n /\ Place(names, p[k]) = k
  BY <1>2
<1>4. p \in [1 .. n -> 1 .. n]
  BY <1>3
<1>5. DOMAIN Ranked(names) = 1 .. n /\ \A k \in 1 .. n : Ranked(names)[k] = names[p[k]]
  BY DEF Ranked
<1>6. ASSUME NEW k \in 1 .. n, NEW l \in 1 .. n, k < l
      PROVE  p[k] # p[l] /\ NoLater(names, p[k], p[l])
  <2> HIDE DEF p
  <2>1. p[k] # p[l]
    BY <1>3, <1>6
  <2>2. ~ Place(names, p[l]) < Place(names, p[k])
    BY <1>3, <1>6
  <2> QED BY <1>3, <2>1, <2>2, PlaceOrders, NoLaterOrders
<1>7. \A j \in 1 .. n : \E k \in 1 .. n : p[k] = j
  <2>1. ASSUME NEW j \in 1 .. n PROVE p[Place(names, j)] = j
    <3>1. Place(names, j) \in 1 .. n
      BY PlaceOrders
    <3>2. f[p[Place(names, j)]] = f[j]
      BY <1>3, <3>1
    <3> HIDE DEF f, p
    <3> QED BY <1>1, <1>3, <3>1, <3>2 DEF Injection, IsInjective
  <2> HIDE DEF p
  <2> QED BY <2>1, PlaceOrders
<1> HIDE DEF p
<1> QED BY <1>4, <1>5, <1>6, <1>7, Zenon DEF Ranks
(* T[V] is what taking the names of q at the places V makes of s. *)
Takes(T, s, q, n) ==
  T = [V \in SUBSET (1 .. n) |->
        IF V = {} THEN s ELSE Take(T[V \ {Max(V)}], q[Max(V)])]

(* The fold takes the places of a sequence from the last. *)
LEMMA LastPlace ==
  ASSUME NEW n \in Nat, NEW k \in 1 .. n
  PROVE  /\ Max(1 .. k) = k
         /\ (1 .. k) \ {k} = 1 .. (k - 1)
         /\ 1 .. k \in SUBSET (1 .. n) /\ 1 .. (k - 1) \in SUBSET (1 .. n)
<1>1. Max(1 .. k) = CHOOSE x \in 1 .. k : \A y \in 1 .. k : x >= y
  BY DEF Max
<1>2. k \in 1 .. k /\ \A y \in 1 .. k : k >= y
  OBVIOUS
<1>3. \A x \in 1 .. k : (\A y \in 1 .. k : x >= y) => x = k
  OBVIOUS
<1>4. Max(1 .. k) = k
  BY <1>1, <1>2, <1>3
<1> QED BY <1>4

(* A table takes the names one by one. *)
LEMMA TakesStep ==
  ASSUME NEW T, NEW s, NEW q, NEW n \in Nat, Takes(T, s, q, n)
  PROVE  /\ T[1 .. 0] = s
         /\ \A i, k \in 0 .. n : k = i + 1 => T[1 .. k] = Take(T[1 .. i], q[k])
<1>1. 1 .. 0 = {} /\ {} \in SUBSET (1 .. n)
  OBVIOUS
<1>2. T[1 .. 0] = s
  BY <1>1 DEF Takes
<1>3. ASSUME NEW k \in 1 .. n PROVE T[1 .. k] = Take(T[1 .. (k - 1)], q[k])
  <2>1. 1 .. k # {}
    OBVIOUS
  <2>2. T[1 .. k] = Take(T[(1 .. k) \ {Max(1 .. k)}], q[Max(1 .. k)])
    BY <2>1, LastPlace DEF Takes
  <2> QED BY <2>2, LastPlace
<1>4. ASSUME NEW i \in 0 .. n, NEW k \in 0 .. n, k = i + 1
      PROVE  T[1 .. k] = Take(T[1 .. i], q[k])
  <2>1. k \in 1 .. n /\ k - 1 = i
    BY <1>4
  <2> QED BY <1>3, <2>1
<1> QED BY <1>2, <1>4

(* There is such a table for every sequence: the shortest prefix without   *)
(* one would have one.                                                     *)
LEMMA TakesExist ==
  ASSUME NEW s, NEW q, NEW n \in Nat
  PROVE  \E T : Takes(T, s, q, n)
<1> DEFINE Bad == {k \in Nat : ~ \E T : Takes(T, s, q, k)}
<1>1. SUFFICES ASSUME Bad # {} PROVE FALSE
  OBVIOUS
<1>2. PICK k \in Bad : \A i \in Bad : k <= i
  <2>1. Bad \subseteq Nat
    OBVIOUS
  <2> HIDE DEF Bad
  <2> QED BY <1>1, <2>1, LeastNat
<1>3. k # 0
  <2> DEFINE T == [V \in SUBSET (1 .. 0) |-> s]
  <2>1. Takes(T, s, q, 0)
    BY DEF Takes
  <2> QED BY <2>1
<1>4. PICK T : Takes(T, s, q, k - 1)
  <2>1. k - 1 \in Nat /\ k - 1 \notin Bad
    BY <1>2, <1>3
  <2> QED BY <2>1
<1> DEFINE U == [V \in SUBSET (1 .. k) |->
                  IF k \in V THEN Take(T[V \ {k}], q[k]) ELSE T[V]]
<1>5. ASSUME NEW V \in SUBSET (1 .. k), V # {}
      PROVE  U[V] = Take(U[V \ {Max(V)}], q[Max(V)])
  <2>1. CASE k \in V
    <3>1. Max(V) = k
      <4>1. Max(V) = CHOOSE x \in V : \A y \in V : x >= y
        BY DEF Max
      <4>2. \A x \in V : (\A y \in V : x >= y) <=> x = k
        BY <2>1
      <4> QED BY <2>1, <4>1, <4>2
    <3>2. V \ {k} \in SUBSET (1 .. k) /\ k \notin V \ {k}
      OBVIOUS
    <3>3. U[V] = Take(T[V \ {k}], q[k]) /\ U[V \ {k}] = T[V \ {k}]
      BY <2>1, <3>2
    <3> QED BY <3>1, <3>3
  <2>2. CASE k \notin V
    <3> DEFINE x == Max(V)
    <3>1. V \in SUBSET (1 .. (k - 1)) /\ V \ {x} \in SUBSET (1 .. k) /\ k \notin V \ {x}
      <4>1. \A i \in V : i \in 1 .. k /\ i # k
        BY <2>2
      <4>2. \A i \in V : i \in 1 .. (k - 1)
        BY <1>3, <4>1
      <4> HIDE DEF x
      <4> QED BY <2>2, <4>2
    <3>2. T[V] = Take(T[V \ {x}], q[x])
      BY <1>4, <1>5, <3>1 DEF Takes
    <3>3. U[V] = T[V] /\ U[V \ {x}] = T[V \ {x}]
      BY <2>2, <3>1
    <3> QED BY <3>2, <3>3
  <2> QED BY <2>1, <2>2
<1>6. U[{}] = s
  <2>1. T[{}] = s
    BY <1>4 DEF Takes
  <2> QED BY <2>1
<1>7. U = [V \in SUBSET (1 .. k) |->
            IF V = {} THEN s ELSE Take(U[V \ {Max(V)}], q[Max(V)])]
  <2> HIDE DEF U
  <2>1. U = [V \in SUBSET (1 .. k) |-> U[V]]
    BY DEF U
  <2> QED BY <1>5, <1>6, <2>1
<1>8. Takes(U, s, q, k)
  <2> HIDE DEF U
  <2> QED BY <1>7 DEF Takes
<1> QED BY <1>2, <1>8


LEMMA WantedTable ==
  ASSUME NEW S, NEW q \in Seq(S)
  PROVE  \E T : /\ Takes(T, [seen |-> {}, wanted |-> << >>], q, Len(q))
               /\ Wanted(q) = T[1 .. Len(q)].wanted
<1> DEFINE s == [seen |-> {}, wanted |-> << >>]
<1>1. DOMAIN q = 1 .. Len(q) /\ Len(q) \in Nat
  OBVIOUS
<1>2. Wanted(q) = (CHOOSE T : Takes(T, s, q, Len(q)))[1 .. Len(q)].wanted
  BY <1>1 DEF Wanted, FoldLeft, MapThenFoldSet, Takes
<1>3. \E T : Takes(T, s, q, Len(q))
  BY <1>1, TakesExist
<1> QED BY <1>2, <1>3

(* A table of places that are numbered is a sequence.                      *)
LEMMA TableIsSeq ==
  ASSUME NEW S, NEW n \in Nat, NEW R \in [1 .. n -> S]
  PROVE  R \in Seq(S) /\ Len(R) = n
OBVIOUS

(* A trimmed name has the key it had, and nothing left to trim.            *)
LEMMA TrimIs ==
  ASSUME NEW n \in Names
  PROVE  Trim[n] \in Names /\ KeyOf[Trim[n]] = KeyOf[n] /\ Trim[Trim[n]] = Trim[n]
<1>1. Trim[n] \in Names /\ Trim[n] \notin Padded
  BY KindsAssumption
<1> QED BY <1>1, KindsAssumption

(* An offer whose names are trimmed has the keys and the ranks it had.     *)
Trimmed(q) == [i \in DOMAIN q |-> Trim[q[i]]]

LEMMA TrimmedIs ==
  ASSUME NEW q \in Seq(Names)
  PROVE  /\ Trimmed(q) \in Seq(Names) /\ Len(Trimmed(q)) = Len(q)
         /\ \A i \in 1 .. Len(q) :
              /\ q[i] \in Names /\ Trimmed(q)[i] = Trim[q[i]]
              /\ Rank(Trimmed(q)[i]) = Rank(q[i])
<1>1. \A n \in Names : Trim[n] \in Names /\ KeyOf[Trim[n]] = KeyOf[n]
  BY TrimIs
<1>2. Len(q) \in Nat /\ DOMAIN q = 1 .. Len(q) /\ \A i \in 1 .. Len(q) : q[i] \in Names
  OBVIOUS
<1>3. PICK n \in Nat : n = Len(q)
  BY <1>2
<1>4. Trimmed(q) \in [1 .. n -> Names] /\ \A i \in 1 .. n : Trimmed(q)[i] = Trim[q[i]]
  BY <1>1, <1>2, <1>3 DEF Trimmed
<1>5. Trimmed(q) \in Seq(Names) /\ Len(Trimmed(q)) = n
  BY <1>4, TableIsSeq
<1>6. \A i \in 1 .. Len(q) : Rank(Trimmed(q)[i]) = Rank(q[i])
  <2>1. \A i \in 1 .. Len(q) : KeyOf[Trimmed(q)[i]] = KeyOf[q[i]]
    BY <1>1, <1>2, <1>3, <1>4
  <2> QED BY <2>1, RankOfKey, Zenon
<1> QED BY <1>2, <1>3, <1>4, <1>5, <1>6

(* w has the names at the places P of an offer, in order. *)
Lines(w, q, P) ==
  \E f \in [DOMAIN w -> P] :
    /\ \A a \in DOMAIN w : w[a] = q[f[a]]
    /\ \A a, b \in DOMAIN w : a < b => f[a] < f[b]
    /\ \A p \in P : \E a \in DOMAIN w : f[a] = p

(* After k names the keys of these are seen, and the first ones of content *)
(* taken, trimmed.                                                         *)
Accepted(acc, q, k) ==
  /\ acc.seen = {KeyOf[q[i]] : i \in 1 .. k} \ {""}
  /\ acc.wanted \in Seq(Names)
  /\ Lines(acc.wanted, Trimmed(q), {p \in Firsts(q) : p <= k})

(* The places of an offer. *)
LEMMA FirstsIn ==
  ASSUME NEW S, NEW q \in Seq(S)
  PROVE  Len(q) \in Nat /\ DOMAIN q = 1 .. Len(q) /\ Firsts(q) \subseteq 1 .. Len(q)
<1>1. Len(q) \in Nat /\ DOMAIN q = 1 .. Len(q)
  OBVIOUS
<1>2. Firsts(q) \subseteq DOMAIN q
  BY Zenon DEF Firsts
<1> QED BY <1>1, <1>2

LEMMA TakeAccepts ==
  ASSUME NEW q \in Seq(Names), NEW k \in 1 .. Len(q), NEW acc, Accepted(acc, q, k - 1)
  PROVE  Accepted(Take(acc, q[k]), q, k)
<1> DEFINE F(i) == {p \in Firsts(q) : p <= i}
           K(i) == {KeyOf[q[j]] : j \in 1 .. i} \ {""}
           key == KeyOf[q[k]]
           t == Trimmed(q)
<1>1. /\ DOMAIN q = 1 .. Len(q) /\ k \in DOMAIN q /\ k \in Nat
      /\ \A j \in 1 .. Len(q) : j < k <=> j \in 1 .. (k - 1)
  OBVIOUS
<1>2. K(k) = K(k - 1) \cup ({key} \ {""})
  <2>1. \A j : j \in 1 .. k <=> j \in 1 .. (k - 1) \/ j = k
    BY <1>1
  <2> QED BY <2>1
<1>3. k \in Firsts(q) <=> key # "" /\ IsContent(key) /\ key \notin K(k - 1)
  <2>1. \A v : v \in K(k - 1) <=> v # "" /\ \E j \in 1 .. (k - 1) : v = KeyOf[q[j]]
    BY Zenon
  <2>2. key # "" => (key \notin K(k - 1) <=> \A j \in 1 .. (k - 1) : KeyOf[q[j]] # key)
    BY <2>1, Zenon
  <2>3. k \in Firsts(q) <=>
          key # "" /\ IsContent(key) /\ \A j \in 1 .. Len(q) : j < k => KeyOf[q[j]] # key
    <3>1. k \in Firsts(q) <=>
            /\ k \in DOMAIN q /\ key # "" /\ IsContent(key)
            /\ \A j \in DOMAIN q : j < k => KeyOf[q[j]] # key
      BY Zenon DEF Firsts
    <3> QED BY <1>1, <3>1, Zenon
  <2>4. (\A j \in 1 .. Len(q) : j < k => KeyOf[q[j]] # key) <=>
        (\A j \in 1 .. (k - 1) : KeyOf[q[j]] # key)
    BY <1>1
  <2> QED BY <2>2, <2>3, <2>4, Zenon
<1>4. F(k) = IF k \in Firsts(q) THEN F(k - 1) \cup {k} ELSE F(k - 1)
  <2>1. \A p \in Firsts(q) : p \in Nat /\ (p <= k <=> p <= k - 1 \/ p = k)
    BY FirstsIn
  <2> QED BY <2>1, <1>1
<1>5. acc.seen = K(k - 1) /\ acc.wanted \in Seq(Names) /\ Lines(acc.wanted, t, F(k - 1))
  BY DEF Accepted
<1>6. SUFFICES /\ Take(acc, q[k]).seen = K(k)
               /\ Take(acc, q[k]).wanted \in Seq(Names)
               /\ Lines(Take(acc, q[k]).wanted, t, F(k))
  BY DEF Accepted
<1>7. \A p \in F(k - 1) : p \in Nat /\ p < k
  BY <1>1, FirstsIn
<1>11. t[k] = Trim[q[k]] /\ t[k] \in Names
  BY TrimmedIs, KindsAssumption
<1> HIDE DEF F, K, t
<1>8. CASE key = "" \/ key \in K(k - 1)
  <2>1. Take(acc, q[k]) = acc /\ K(k) = K(k - 1) /\ F(k) = F(k - 1)
    BY <1>2, <1>3, <1>4, <1>5, <1>8 DEF Take
  <2> QED BY <1>5, <2>1
<1>9. CASE key # "" /\ key \notin K(k - 1) /\ ~IsContent(key)
  <2>1. /\ Take(acc, q[k]).wanted = acc.wanted /\ Take(acc, q[k]).seen = K(k)
        /\ F(k) = F(k - 1)
    BY <1>2, <1>3, <1>4, <1>5, <1>9 DEF Take
  <2> QED BY <1>5, <2>1
<1>10. CASE k \in Firsts(q)
  <2>1. /\ Take(acc, q[k]).wanted = Append(acc.wanted, t[k]) /\ Take(acc, q[k]).seen = K(k)
        /\ F(k) = F(k - 1) \cup {k}
    BY <1>2, <1>3, <1>4, <1>5, <1>10, <1>11 DEF Take
  <2> DEFINE w == acc.wanted
             v == Append(acc.wanted, t[k])
  <2>2. /\ Len(w) \in Nat /\ DOMAIN w = 1 .. Len(w) /\ DOMAIN v = 1 .. (Len(w) + 1)
        /\ v[Len(w) + 1] = t[k] /\ \A a \in DOMAIN w : v[a] = w[a]
        /\ v \in Seq(Names)
    BY <1>5, <1>11
  <2>3. PICK f \in [DOMAIN w -> F(k - 1)] :
          /\ \A a \in DOMAIN w : w[a] = t[f[a]]
          /\ \A a, b \in DOMAIN w : a < b => f[a] < f[b]
          /\ \A p \in F(k - 1) : \E a \in DOMAIN w : f[a] = p
    BY <1>5 DEF Lines
  <2> DEFINE g == [a \in DOMAIN v |-> IF a = Len(w) + 1 THEN k ELSE f[a]]
  <2> HIDE DEF v, w
  <2>4. /\ g \in [DOMAIN v -> F(k - 1) \cup {k}] /\ g[Len(w) + 1] = k
        /\ \A a \in DOMAIN w : a \in DOMAIN v /\ g[a] = f[a] /\ a < Len(w) + 1
        /\ \A a \in DOMAIN v : a \in DOMAIN w \/ a = Len(w) + 1
    BY <2>2
  <2> HIDE DEF g
  <2>5. \A a \in DOMAIN v : v[a] = t[g[a]]
    BY <2>2, <2>3, <2>4
  <2>6. ASSUME NEW a \in DOMAIN v, NEW b \in DOMAIN v, a < b PROVE g[a] < g[b]
    <3>1. a \in DOMAIN w
      BY <2>2, <2>6
    <3>2. CASE b \in DOMAIN w
      BY <2>3, <2>4, <2>6, <3>1, <3>2
    <3>3. CASE b = Len(w) + 1
      <4>1. f[a] \in F(k - 1)
        BY <2>3, <3>1
      <4> QED BY <1>7, <2>4, <3>1, <3>3, <4>1
    <3> QED BY <2>4, <3>2, <3>3
  <2>7. \A p \in F(k - 1) \cup {k} : \E a \in DOMAIN v : g[a] = p
    <3>1. Len(w) + 1 \in DOMAIN v
      BY <2>2
    <3> QED BY <2>3, <2>4, <3>1
  <2>8. Lines(v, t, F(k - 1) \cup {k})
    BY <2>4, <2>5, <2>6, <2>7 DEF Lines
  <2> QED BY <2>1, <2>2, <2>8 DEF v
<1> QED BY <1>3, <1>8, <1>9, <1>10

(* The filter's names are the first ones of content, trimmed. *)
LEMMA WantedLines ==
  ASSUME NEW q \in Seq(Names)
  PROVE  Wanted(q) \in Seq(Names) /\ Lines(Wanted(q), Trimmed(q), Firsts(q))
<1> DEFINE s == [seen |-> {}, wanted |-> << >>]
           n == Len(q)
<1>1. PICK T : Takes(T, s, q, n) /\ Wanted(q) = T[1 .. n].wanted
  BY WantedTable
<1>2. n \in Nat /\ DOMAIN q = 1 .. n
  OBVIOUS
<1>3. T[1 .. 0] = s /\ \A i, k \in 0 .. n : k = i + 1 => T[1 .. k] = Take(T[1 .. i], q[k])
  BY <1>1, <1>2, TakesStep
<1>4. Accepted(s, q, 0)
  <2>1. s.seen = {KeyOf[q[i]] : i \in 1 .. 0} \ {""} /\ s.wanted = << >>
    OBVIOUS
  <2>2. {p \in Firsts(q) : p <= 0} = {}
    BY FirstsIn
  <2>3. Lines(<< >>, Trimmed(q), {})
    <3>1. DOMAIN << >> = {}
      OBVIOUS
    <3>2. << >> \in [DOMAIN << >> -> {}]
      OBVIOUS
    <3> QED BY <3>1, <3>2 DEF Lines
  <2>4. << >> \in Seq(Names)
    OBVIOUS
  <2> HIDE DEF s
  <2> QED BY <2>1, <2>2, <2>3, <2>4, Zenon DEF Accepted
<1> DEFINE Bad == {k \in 0 .. n : ~Accepted(T[1 .. k], q, k)}
<1>5. Bad = {}
  <2>1. SUFFICES ASSUME Bad # {} PROVE FALSE
    OBVIOUS
  <2>2. PICK k \in Bad : \A i \in Bad : k <= i
    <3>1. Bad \subseteq Nat
      BY <1>2
    <3> HIDE DEF Bad
    <3> QED BY <2>1, <3>1, LeastNat
  <2>3. k # 0
    BY <1>3, <1>4
  <2>4. k \in 1 .. n /\ k - 1 \in 0 .. n /\ k - 1 \notin Bad
    BY <1>2, <2>2, <2>3
  <2>5. Accepted(T[1 .. (k - 1)], q, k - 1)
    BY <2>4
  <2>6. T[1 .. k] = Take(T[1 .. (k - 1)], q[k])
    BY <1>2, <1>3, <2>4
  <2>7. Accepted(T[1 .. k], q, k)
    BY <2>4, <2>5, <2>6, TakeAccepts
  <2> QED BY <2>7
<1>6. Accepted(T[1 .. n], q, n)
  BY <1>2, <1>5
<1>7. {p \in Firsts(q) : p <= n} = Firsts(q)
  BY <1>2, FirstsIn
<1> HIDE DEF n
<1> QED BY <1>1, <1>6, <1>7 DEF Accepted

(* Sorting names that are at the places F of an offer sorts these places.  *)
LEMMA RankedLines ==
  ASSUME NEW q, NEW n \in Nat, NEW w \in [1 .. n -> Names],
         NEW F, F \subseteq Nat, Lines(w, q, F)
  PROVE  /\ Ranked(w) \in Seq(Names) /\ Len(Ranked(w)) = n /\ Cardinality(F) = n
         /\ \E h \in [1 .. n -> F] : Ranks(Ranked(w), n, q, F, h)
<1>1. DOMAIN w = 1 .. n /\ \A i \in 1 .. n : w[i] \in Names
  OBVIOUS
<1>2. PICK f \in [1 .. n -> F] :
        /\ \A a \in 1 .. n : w[a] = q[f[a]]
        /\ \A a, b \in 1 .. n : a < b => f[a] < f[b]
        /\ \A x \in F : \E a \in 1 .. n : f[a] = x
  BY <1>1 DEF Lines
<1>3. /\ DOMAIN Ranked(w) = 1 .. n
      /\ \E g \in [1 .. n -> 1 .. n] : Ranks(Ranked(w), n, w, 1 .. n, g)
  BY <1>1, RankedSorts, Zenon
<1>4. PICK g \in [1 .. n -> 1 .. n] :
        /\ \A k \in 1 .. n : Ranked(w)[k] = w[g[k]]
        /\ \A k, l \in 1 .. n : k < l => g[k] # g[l] /\ NoLater(w, g[k], g[l])
        /\ \A j \in 1 .. n : \E k \in 1 .. n : g[k] = j
  BY <1>3, Zenon DEF Ranks
<1>5. Ranked(w) \in Seq(Names) /\ Len(Ranked(w)) = n
  <2>1. Ranked(w) = [k \in 1 .. n |-> Ranked(w)[k]]
    BY DEF Ranked
  <2>2. \A k \in 1 .. n : Ranked(w)[k] \in Names
    BY <1>1, <1>4
  <2>3. Ranked(w) \in [1 .. n -> Names]
    BY <2>1, <2>2
  <2> QED BY <2>3, TableIsSeq
<1>6. \A a, b \in 1 .. n : f[a] \in Nat /\ (f[a] = f[b] => a = b) /\ (a <= b => f[a] <= f[b])
  <2>1. \A a \in 1 .. n : f[a] \in Nat
    BY <1>2
  <2>2. ASSUME NEW a \in 1 .. n, NEW b \in 1 .. n
        PROVE  (f[a] = f[b] => a = b) /\ (a <= b => f[a] <= f[b])
    <3>1. a \in Nat /\ b \in Nat /\ f[a] \in Nat /\ f[b] \in Nat
      BY <2>1
    <3>2. (a < b => f[a] < f[b]) /\ (b < a => f[b] < f[a])
      BY <1>2
    <3> QED BY <3>1, <3>2
  <2> QED BY <2>1, <2>2
<1>7. Cardinality(F) = n
  <2>1. f \in Bijection(1 .. n, F)
    BY <1>2, <1>6 DEF Bijection, Injection, IsInjective, Surjection
  <2>2. ExistsBijection(1 .. n, F)
    BY <2>1 DEF ExistsBijection
  <2>3. IsFiniteSet(1 .. n) /\ Cardinality(1 .. n) = n
    BY <1>1, FS_Interval
  <2> QED BY <2>2, <2>3, FS_Bijection
<1>8. ASSUME NEW a \in 1 .. n, NEW b \in 1 .. n, NoLater(w, a, b)
      PROVE  NoLater(q, f[a], f[b])
  BY <1>1, <1>2, <1>6, <1>8 DEF NoLater
<1>9. PICK h \in [1 .. n -> F] : \A k \in 1 .. n : g[k] \in 1 .. n /\ h[k] = f[g[k]]
  <2> DEFINE d == [k \in 1 .. n |-> f[g[k]]]
  <2>1. d \in [1 .. n -> F]
    OBVIOUS
  <2>2. \A k \in 1 .. n : g[k] \in 1 .. n /\ d[k] = f[g[k]]
    OBVIOUS
  <2> QED BY <2>1, <2>2
<1>10. ASSUME NEW k \in 1 .. n PROVE Ranked(w)[k] = q[h[k]]
  <2>1. Ranked(w)[k] = w[g[k]] /\ g[k] \in 1 .. n /\ h[k] = f[g[k]]
    BY <1>4, <1>9, Zenon
  <2>2. w[g[k]] = q[f[g[k]]]
    BY <1>2, <2>1, Zenon
  <2> QED BY <2>1, <2>2, Zenon
<1>11. ASSUME NEW k \in 1 .. n, NEW l \in 1 .. n, k < l
       PROVE  h[k] # h[l] /\ NoLater(q, h[k], h[l])
  <2>1. g[k] \in 1 .. n /\ g[l] \in 1 .. n /\ h[k] = f[g[k]] /\ h[l] = f[g[l]]
    BY <1>9, Zenon
  <2>2. g[k] # g[l] /\ NoLater(w, g[k], g[l])
    BY <1>4, <1>11, Zenon
  <2>3. f[g[k]] # f[g[l]] /\ NoLater(q, f[g[k]], f[g[l]])
    BY <1>6, <1>8, <2>1, <2>2, Zenon
  <2> QED BY <2>1, <2>3, Zenon
<1>12. ASSUME NEW x \in F PROVE \E k \in 1 .. n : h[k] = x
  <2>1. PICK a \in 1 .. n : f[a] = x
    BY <1>2, Zenon
  <2>2. PICK k \in 1 .. n : g[k] = a
    BY <1>4, Zenon
  <2> QED BY <1>9, <2>1, <2>2, Zenon
<1> QED BY <1>5, <1>7, <1>10, <1>11, <1>12, Zenon DEF Ranks

(* What is ahead is at another place and comes no later. *)
LEMMA AheadIs ==
  ASSUME NEW q, NEW x \in Nat, NEW y \in Nat
  PROVE  Ahead(q, x, y) <=> x # y /\ NoLater(q, x, y)
<1>1. Rank(q[x]) \in Nat /\ Rank(q[y]) \in Nat
  BY RankIsNumber
<1> QED BY <1>1 DEF Ahead, NoLater

(* What recordable() keeps of any offer is its content, each key once and  *)
(* as it was first spelled but for outer blanks, the best ranked first, as *)
(* much as may be recorded (kind.rs recordable(), rank()).                 *)
THEOREM FilterSound == \A q \in Seq(Names) : FilterIsRight(q)
<1> SUFFICES ASSUME NEW q \in Seq(Names) PROVE FilterIsRight(q)
  OBVIOUS
<1>1. PICK F : F = Firsts(q)
  OBVIOUS
<1>2. PICK w \in Seq(Names) : w = Wanted(q) /\ Lines(w, Trimmed(q), F)
  BY <1>1, WantedLines
<1>3. PICK n \in Nat : w \in [1 .. n -> Names]
  <2>1. Len(w) \in Nat /\ w \in [1 .. Len(w) -> Names]
    BY <1>2
  <2> QED BY <2>1
<1>4. F \subseteq Nat
  BY <1>1, FirstsIn
<1>5. /\ Ranked(w) \in Seq(Names) /\ Len(Ranked(w)) = n /\ Cardinality(F) = n
      /\ \E h \in [1 .. n -> F] : Ranks(Ranked(w), n, Trimmed(q), F, h)
  BY <1>2, <1>3, <1>4, RankedLines, Zenon
<1>6. PICK h \in [1 .. n -> F] :
        /\ \A k \in 1 .. n : Ranked(w)[k] = Trim[q[h[k]]]
        /\ \A k, l \in 1 .. n : k < l => h[k] # h[l] /\ NoLater(q, h[k], h[l])
        /\ \A x \in F : \E k \in 1 .. n : h[k] = x
  <2>1. PICK h \in [1 .. n -> F] :
          /\ \A k \in 1 .. n : Ranked(w)[k] = Trimmed(q)[h[k]]
          /\ \A k, l \in 1 .. n : k < l => h[k] # h[l] /\ NoLater(Trimmed(q), h[k], h[l])
          /\ \A x \in F : \E k \in 1 .. n : h[k] = x
    BY <1>5, Zenon DEF Ranks
  <2>2. \A k \in 1 .. n : /\ Trimmed(q)[h[k]] = Trim[q[h[k]]]
                          /\ Rank(Trimmed(q)[h[k]]) = Rank(q[h[k]])
    <3>1. \A x \in F : x \in 1 .. Len(q)
      BY <1>1, FirstsIn
    <3>2. \A k \in 1 .. n : h[k] \in F
      BY <2>1
    <3>3. \A x \in 1 .. Len(q) : /\ Trimmed(q)[x] = Trim[q[x]]
                                 /\ Rank(Trimmed(q)[x]) = Rank(q[x])
      BY TrimmedIs, Zenon
    <3> QED BY <3>1, <3>2, <3>3, Zenon
  <2>3. ASSUME NEW k \in 1 .. n, NEW l \in 1 .. n, NoLater(Trimmed(q), h[k], h[l])
        PROVE  NoLater(q, h[k], h[l])
    <3>1. Rank(Trimmed(q)[h[k]]) = Rank(q[h[k]]) /\ Rank(Trimmed(q)[h[l]]) = Rank(q[h[l]])
      BY <2>2, Zenon
    <3> QED BY <2>3, <3>1 DEF NoLater
  <2>4. \A k \in 1 .. n : Ranked(w)[k] = Trim[q[h[k]]]
    BY <2>1, <2>2, Zenon
  <2>5. \A k, l \in 1 .. n : k < l => h[k] # h[l] /\ NoLater(q, h[k], h[l])
    BY <2>1, <2>3, Zenon
  <2> QED BY <2>1, <2>4, <2>5, Zenon
<1>7. PICK m \in Nat : m = IF n < MaxRepresentations THEN n ELSE MaxRepresentations
  BY KindsAssumption
<1>8. m <= n /\ \A i \in 1 .. m : i \in 1 .. n
  BY <1>7, KindsAssumption
<1>9. PICK r : r = Recordable(q)
  OBVIOUS
<1>10. Len(r) = m /\ DOMAIN r = 1 .. m /\ \A i \in 1 .. m : r[i] = Ranked(w)[i]
  <2>1. r = SubSeq(Ranked(w), 1, m)
    BY <1>2, <1>5, <1>7, <1>9 DEF Recordable
  <2> QED BY <1>5, <1>8, <2>1
<1>11. PICK p \in [1 .. m -> F] : \A i \in 1 .. m : p[i] = h[i]
  <2> DEFINE d == [i \in 1 .. m |-> h[i]]
  <2>1. d \in [1 .. m -> F] /\ \A i \in 1 .. m : d[i] = h[i]
    BY <1>8
  <2> QED BY <2>1
<1>12. \A i \in DOMAIN r : r[i] = Trim[q[p[i]]]
  BY <1>6, <1>8, <1>10, <1>11
<1>13. ASSUME NEW i \in DOMAIN r, NEW j \in DOMAIN r, i < j PROVE Ahead(q, p[i], p[j])
  <2>1. i \in 1 .. m /\ j \in 1 .. m /\ i \in 1 .. n /\ j \in 1 .. n
    BY <1>8, <1>10
  <2>2. h[i] # h[j] /\ NoLater(q, h[i], h[j]) /\ p[i] = h[i] /\ p[j] = h[j]
    BY <1>6, <1>11, <1>13, <2>1
  <2>3. h[i] \in Nat /\ h[j] \in Nat
    BY <1>4, <2>1
  <2> QED BY <2>2, <2>3, AheadIs
<1>14. ASSUME NEW x \in F, ~ \E i \in DOMAIN r : p[i] = x, NEW i \in DOMAIN r
       PROVE  Ahead(q, p[i], x)
  <2>1. PICK k \in 1 .. n : h[k] = x
    BY <1>6
  <2>2. k \notin 1 .. m
    BY <1>10, <1>11, <1>14, <2>1
  <2>3. i \in 1 .. m /\ i \in 1 .. n /\ i < k
    BY <1>8, <1>10, <2>2
  <2>4. h[i] # x /\ NoLater(q, h[i], x) /\ p[i] = h[i]
    BY <1>6, <1>11, <2>1, <2>3
  <2>5. h[i] \in Nat /\ x \in Nat
    BY <1>4, <2>3
  <2> QED BY <2>4, <2>5, AheadIs
<1>15. Len(r) = IF Cardinality(F) < MaxRepresentations THEN Cardinality(F) ELSE MaxRepresentations
  BY <1>5, <1>7, <1>10
<1>16. /\ p \in [DOMAIN r -> F]
       /\ \A x \in F : \/ \E i \in DOMAIN r : p[i] = x
                       \/ \A i \in DOMAIN r : Ahead(q, p[i], x)
  BY <1>10, <1>14
<1> QED BY <1>1, <1>9, <1>12, <1>13, <1>15, <1>16, Zenon DEF FilterIsRight

(* What was filtered are content names without blanks around them, each    *)
(* key once, in order of rank.                                             *)
Filtered(r, m) ==
  /\ r \in Seq(Names) /\ r \in [1 .. m -> Names]
  /\ Len(r) = m /\ m <= MaxRepresentations
  /\ \A i \in 1 .. m : KeyOf[r[i]] # "" /\ IsContent(KeyOf[r[i]]) /\ Trim[r[i]] = r[i]
  /\ \A i, j \in 1 .. m : i < j => KeyOf[r[i]] # KeyOf[r[j]] /\ NoLater(r, i, j)

LEMMA FilteredOrdered ==
  ASSUME NEW q \in Seq(Names)
  PROVE  \E m \in Nat : Filtered(Recordable(q), m)
<1>1. Recordable(q) \in Seq(Names)
  <2>1. PICK w \in Seq(Names) : w = Wanted(q) /\ Lines(w, Trimmed(q), Firsts(q))
    BY WantedLines
  <2>2. PICK n \in Nat : w \in [1 .. n -> Names]
    <3>1. Len(w) \in Nat /\ w \in [1 .. Len(w) -> Names]
      BY <2>1
    <3> QED BY <3>1
  <2>3. Firsts(q) \subseteq Nat
    BY FirstsIn
  <2>4. Ranked(w) \in Seq(Names)
    BY <2>1, <2>2, <2>3, RankedLines, Zenon
  <2>5. PICK m \in Nat : m <= Len(Ranked(w)) /\ Recordable(q) = SubSeq(Ranked(w), 1, m)
    <3>1. Len(Ranked(w)) \in Nat
      BY <2>4
    <3> QED BY <2>1, <3>1, KindsAssumption DEF Recordable
  <2> QED BY <2>4, <2>5
<1>2. PICK r \in Seq(Names) : r = Recordable(q)
  BY <1>1
<1>3. PICK m \in Nat : Len(r) = m /\ DOMAIN r = 1 .. m /\ r \in [1 .. m -> Names]
  <2>1. Len(r) \in Nat /\ DOMAIN r = 1 .. Len(r) /\ r \in [1 .. Len(r) -> Names]
    OBVIOUS
  <2> QED BY <2>1
<1>4. FilterIsRight(q)
  BY FilterSound
<1>5. PICK p \in [DOMAIN r -> Firsts(q)] :
        /\ \A i \in DOMAIN r : r[i] = Trim[q[p[i]]]
        /\ \A i, j \in DOMAIN r : i < j => Ahead(q, p[i], p[j])
  BY <1>2, <1>4, Zenon DEF FilterIsRight
<1>6. m <= MaxRepresentations
  <2>1. PICK few : m = IF few < MaxRepresentations THEN few ELSE MaxRepresentations
    BY <1>2, <1>3, <1>4, Zenon DEF FilterIsRight
  <2> QED BY <1>3, <2>1, KindsAssumption
<1>7. \A x \in Firsts(q) :
        /\ x \in DOMAIN q /\ KeyOf[q[x]] # "" /\ IsContent(KeyOf[q[x]])
        /\ \A y \in DOMAIN q : y < x => KeyOf[q[y]] # KeyOf[q[x]]
  BY Zenon DEF Firsts
<1>8. Firsts(q) \subseteq Nat
  BY FirstsIn
<1>9. \A i \in 1 .. m :
        /\ p[i] \in Firsts(q)
        /\ KeyOf[r[i]] = KeyOf[q[p[i]]] /\ Rank(r[i]) = Rank(q[p[i]]) /\ Trim[r[i]] = r[i]
  <2>1. \A i \in 1 .. m : p[i] \in Firsts(q) /\ r[i] = Trim[q[p[i]]]
    BY <1>3, <1>5
  <2>2. \A x \in Firsts(q) : q[x] \in Names
    BY FirstsIn, TrimmedIs, Zenon
  <2>3. ASSUME NEW i \in 1 .. m
        PROVE  KeyOf[r[i]] = KeyOf[q[p[i]]] /\ Trim[r[i]] = r[i]
    <3>1. PICK o \in Names : o = q[p[i]] /\ r[i] = Trim[o]
      BY <2>1, <2>2
    <3>2. KeyOf[Trim[o]] = KeyOf[o] /\ Trim[Trim[o]] = Trim[o]
      BY TrimIs
    <3> QED BY <3>1, <3>2
  <2>4. ASSUME NEW i \in 1 .. m PROVE Rank(r[i]) = Rank(q[p[i]])
    BY <2>3, RankOfKey, Zenon
  <2> QED BY <2>1, <2>3, <2>4, Zenon
<1>10. ASSUME NEW i \in 1 .. m
       PROVE  KeyOf[r[i]] # "" /\ IsContent(KeyOf[r[i]]) /\ Trim[r[i]] = r[i]
  <2>1. PICK x \in Firsts(q) : KeyOf[r[i]] = KeyOf[q[x]] /\ Trim[r[i]] = r[i]
    BY <1>9, Zenon
  <2>2. KeyOf[q[x]] # "" /\ IsContent(KeyOf[q[x]])
    BY <1>7, Zenon
  <2> QED BY <2>1, <2>2, Zenon
<1>11. ASSUME NEW i \in 1 .. m, NEW j \in 1 .. m, i < j
       PROVE  KeyOf[r[i]] # KeyOf[r[j]] /\ NoLater(r, i, j)
  <2>1. p[i] # p[j] /\ NoLater(q, p[i], p[j])
    <3>1. Ahead(q, p[i], p[j])
      BY <1>3, <1>5, <1>11, Zenon
    <3>2. p[i] \in Nat /\ p[j] \in Nat
      BY <1>8, <1>9
    <3> QED BY <3>1, <3>2, AheadIs
  <2>2. p[i] < p[j] \/ p[j] < p[i]
    BY <1>8, <1>9, <2>1
  <2>3. KeyOf[r[i]] # KeyOf[r[j]]
    <3>1. p[i] \in Firsts(q) /\ p[j] \in Firsts(q) /\ p[i] \in DOMAIN q /\ p[j] \in DOMAIN q
      BY <1>7, <1>9, Zenon
    <3>2. KeyOf[q[p[i]]] # KeyOf[q[p[j]]]
      <4>1. CASE p[i] < p[j]
        BY <1>7, <3>1, <4>1, Zenon
      <4>2. CASE p[j] < p[i]
        BY <1>7, <3>1, <4>2, Zenon
      <4> QED BY <2>2, <4>1, <4>2
    <3> QED BY <1>9, <3>2
  <2>4. NoLater(r, i, j)
    <3>1. Rank(r[i]) < Rank(r[j]) \/ Rank(r[i]) = Rank(r[j])
      BY <1>9, <2>1, Zenon DEF NoLater
    <3>2. i <= j
      BY <1>11
    <3> QED BY <3>1, <3>2, Zenon DEF NoLater
  <2> QED BY <2>3, <2>4
<1>12. Filtered(r, m)
  BY <1>3, <1>6, <1>10, <1>11, Zenon DEF Filtered
<1> QED BY <1>2, <1>12

(* Numbers that grow from place to place and fill no more than the places  *)
(* are the places.                                                         *)
LEMMA Grows ==
  ASSUME NEW m \in Nat, NEW p \in [1 .. m -> 1 .. m],
         \A i, j \in 1 .. m : i < j => p[i] < p[j]
  PROVE  \A i \in 1 .. m : p[i] = i
<1>1. {i \in 1 .. m : p[i] < i} = {}
  <2> DEFINE Low == {i \in 1 .. m : p[i] < i}
  <2>1. SUFFICES ASSUME Low # {} PROVE FALSE
    OBVIOUS
  <2>2. PICK i \in Low : \A j \in Low : i <= j
    <3>1. Low \subseteq Nat
      OBVIOUS
    <3> HIDE DEF Low
    <3> QED BY <2>1, <3>1, LeastNat
  <2>3. i \in 1 .. m /\ p[i] \in 1 .. m /\ p[i] < i
    OBVIOUS
  <2>4. i - 1 \in 1 .. m /\ p[i - 1] < p[i]
    BY <2>3
  <2>5. i - 1 \in Low
    BY <2>3, <2>4
  <2> QED BY <2>2, <2>3, <2>5
<1>2. {i \in 1 .. m : p[i] > i} = {}
  <2> DEFINE High == {k \in 0 .. m : \E i \in 1 .. m : i = m - k /\ p[i] > i}
  <2>1. SUFFICES ASSUME High # {} PROVE FALSE
    <3>1. ASSUME NEW i \in 1 .. m, p[i] > i PROVE m - i \in High
      BY <3>1
    <3> HIDE DEF High
    <3> QED BY <3>1
  <2>2. PICK k \in High : \A j \in High : k <= j
    <3>1. High \subseteq Nat
      OBVIOUS
    <3> HIDE DEF High
    <3> QED BY <2>1, <3>1, LeastNat
  <2>3. PICK i \in 1 .. m : i = m - k /\ p[i] > i
    OBVIOUS
  <2>4. i + 1 \in 1 .. m /\ p[i] < p[i + 1]
    <3>1. p[i] \in 1 .. m
      OBVIOUS
    <3> QED BY <2>3, <3>1
  <2>5. k - 1 \in High
    <3>1. k \in 0 .. m /\ k - 1 \in 0 .. m /\ i + 1 = m - (k - 1)
      BY <2>3, <2>4
    <3>2. p[i + 1] > i + 1
      BY <2>3, <2>4
    <3> QED BY <2>4, <3>1, <3>2
  <2>6. k \in 0 .. m
    OBVIOUS
  <2> HIDE DEF High
  <2> QED BY <2>2, <2>5, <2>6
<1> QED BY <1>1, <1>2

(* What recordable() has kept it keeps again, in the same order: an entry  *)
(* that is put back is archived as it was.                                 *)
THEOREM FilterStable == \A q \in Seq(Names) : FilterIsStable(q)
<1> SUFFICES ASSUME NEW q \in Seq(Names) PROVE FilterIsStable(q)
  OBVIOUS
<1>1. PICK r : r = Recordable(q)
  OBVIOUS
<1>2. PICK m \in Nat : Filtered(r, m)
  BY <1>1, FilteredOrdered
<1>3. /\ r \in Seq(Names) /\ r \in [1 .. m -> Names] /\ m <= MaxRepresentations
      /\ \A i \in 1 .. m : KeyOf[r[i]] # "" /\ IsContent(KeyOf[r[i]]) /\ Trim[r[i]] = r[i]
      /\ \A i, j \in 1 .. m : i < j => KeyOf[r[i]] # KeyOf[r[j]] /\ NoLater(r, i, j)
  BY <1>2, Zenon DEF Filtered
<1>4. Firsts(r) = 1 .. m
  <2>1. DOMAIN r = 1 .. m
    BY <1>3
  <2> QED BY <1>3, <2>1, Zenon DEF Firsts
<1>5. FilterIsRight(r)
  BY <1>3, FilterSound
<1>6. PICK t : t = Recordable(r)
  OBVIOUS
<1>7. PICK k \in Nat : Filtered(t, k)
  BY <1>3, <1>6, FilteredOrdered
<1>8. k = m
  <2>1. Cardinality(1 .. m) = m
    BY FS_Interval
  <2>2. Len(t) = IF m < MaxRepresentations THEN m ELSE MaxRepresentations
    BY <1>4, <1>5, <1>6, <2>1, Zenon DEF FilterIsRight
  <2>3. k = IF m < MaxRepresentations THEN m ELSE MaxRepresentations
    BY <1>7, <2>2, Zenon DEF Filtered
  <2>4. m <= MaxRepresentations
    BY <1>3
  <2> QED BY <2>3, <2>4, KindsAssumption
<1>9. t \in [1 .. m -> Names]
  BY <1>7, <1>8, Zenon DEF Filtered
<1>10. PICK p \in [1 .. m -> 1 .. m] :
         /\ \A i \in 1 .. m : t[i] = r[p[i]]
         /\ \A i, j \in 1 .. m : i < j => Ahead(r, p[i], p[j])
  <2>1. DOMAIN t = 1 .. m
    BY <1>9
  <2>2. PICK p \in [1 .. m -> 1 .. m] :
          /\ \A i \in 1 .. m : t[i] = Trim[r[p[i]]]
          /\ \A i, j \in 1 .. m : i < j => Ahead(r, p[i], p[j])
    BY <1>4, <1>5, <1>6, <2>1, Zenon DEF FilterIsRight
  <2>3. \A i \in 1 .. m : p[i] \in 1 .. m
    OBVIOUS
  <2> QED BY <1>3, <2>2, <2>3, Zenon
<1>11. ASSUME NEW i \in 1 .. m, NEW j \in 1 .. m, i < j PROVE p[i] < p[j]
  <2>1. p[i] \in 1 .. m /\ p[j] \in 1 .. m /\ p[i] # p[j] /\ NoLater(r, p[i], p[j])
    <3>1. p[i] \in 1 .. m /\ p[j] \in 1 .. m /\ Ahead(r, p[i], p[j])
      BY <1>10, <1>11
    <3> QED BY <3>1, AheadIs
  <2>2. p[j] < p[i] => NoLater(r, p[j], p[i])
    BY <1>3, <2>1
  <2> QED BY <2>1, <2>2, NoLaterOrders
<1>12. \A i \in 1 .. m : p[i] = i
  BY <1>11, Grows
<1>13. t = r
  <2>1. \A i \in 1 .. m : t[i] = r[i]
    BY <1>10, <1>12
  <2>2. r \in [1 .. m -> Names]
    BY <1>3
  <2> QED BY <1>9, <2>1, <2>2
<1> QED BY <1>1, <1>6, <1>13 DEF FilterIsStable

(* Whichever parts of what was kept can carry a preview, best() takes the  *)
(* first of them (store/mod.rs best()).                                    *)
THEOREM BestSound == \A q \in Seq(Names) : BestIsFirst(q)
<1> SUFFICES ASSUME NEW q \in Seq(Names) PROVE BestIsFirst(q)
  OBVIOUS
<1>1. PICK r : r = Recordable(q)
  OBVIOUS
<1>2. PICK m \in Nat : Filtered(r, m)
  BY <1>1, FilteredOrdered
<1>3. DOMAIN r = 1 .. m /\ \A i, j \in 1 .. m : i < j => NoLater(r, i, j)
  BY <1>2 DEF Filtered
<1>4. ASSUME NEW fit \in SUBSET DOMAIN r, fit # {}
      PROVE  Best(r, fit) \in fit /\ \A i \in fit : Best(r, fit) <= i
  <2>1. fit \subseteq 1 .. m /\ fit \subseteq Nat
    BY <1>3
  <2>2. PICK b \in fit : \A i \in fit : b <= i
    BY <1>4, <2>1, LeastNat
  <2>3. \A i \in fit : NoLater(r, b, i)
    <3>1. ASSUME NEW i \in fit PROVE NoLater(r, b, i)
      <4>1. b \in 1 .. m /\ i \in 1 .. m /\ (b < i \/ b = i)
        BY <2>1, <2>2
      <4> QED BY <1>3, <4>1, NoLaterOrders
    <3> QED BY <3>1
  <2>4. \A i \in fit : (\A j \in fit : NoLater(r, i, j)) => i = b
    <3>1. ASSUME NEW i \in fit, \A j \in fit : NoLater(r, i, j) PROVE i = b
      <4>1. NoLater(r, i, b) /\ NoLater(r, b, i) /\ i \in Nat /\ b \in Nat
        BY <2>1, <2>3, <3>1
      <4> QED BY <4>1, NoLaterOrders
    <3> QED BY <3>1
  <2>5. Best(r, fit) = b
    BY <1>4, <2>2, <2>3, <2>4, Zenon DEF Best
  <2> QED BY <2>2, <2>5
<1> QED BY <1>1, <1>4, Zenon DEF BestIsFirst
=============================================================================
