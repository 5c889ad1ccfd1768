----------------------------- MODULE GnomeProofs -----------------------------
(***************************************************************************)
(* The parts of the GNOME extension, for any number of copies, kinds, ids, *)
(* requests and connections.                                               *)
(*                                                                         *)
(* Picker: a row stands for the entry it shows, or what ends the row is on *)
(* its way; and at rest the list is the archive's.  AddRow is folded over  *)
(* a page; what a table of that fold holds for each part of the page       *)
(* follows by the least part for which it would not.                       *)
(*                                                                         *)
(* Extension: an entry is one draft of one copy, whole and in order; a     *)
(* connection has one draft open; a part is never interrupted.  The stream *)
(* of a connection is read as frames and as parts of the one job at work:  *)
(* what is queued, what is on the wire, what is in the daemon and what is  *)
(* on its way back add up to what the job has done.                        *)
(***************************************************************************)
EXTENDS Picker, Extension, FiniteSetTheorems, SequenceTheorems,
        WellFoundedInduction, TLAPS

-----------------------------------------------------------------------------
(* PICKER *)

(* A set of naturals that is not empty has a least element. *)
LEMMA LeastNat ==
  ASSUME NEW B, B \subseteq Nat, B # {}
  PROVE  \E n \in B : \A m \in B : n <= m
<1>1. PICK n \in B : \A m \in B : ~(<<m, n>> \in OpToRel(<, Nat))
  BY WFMin, NatLessThanWellFounded
<1>2. ASSUME NEW m \in B PROVE n <= m
  <2>1. n \in Nat /\ m \in Nat
    OBVIOUS
  <2>2. ~(m < n)
    BY <1>1, <2>1 DEF OpToRel
  <2> QED BY <2>1, <2>2
<1> QED BY <1>2

-----------------------------------------------------------------------------
(* Adding the rows of a page. *)

(* T[V] is what adding the items of q at the places V makes of list s. *)
Adds(T, s, q, n) ==
  T = [V \in SUBSET (1 .. n) |->
        IF V = {} THEN s ELSE AddRow(T[V \ {Seqs!Max(V)}], q[Seqs!Max(V)])]

(* The largest of the first k places is k. *)
LEMMA LastPlace ==
  ASSUME NEW n \in Nat, NEW k \in 1 .. n
  PROVE  /\ Seqs!Max(1 .. k) = k
         /\ (1 .. k) \ {k} = 1 .. (k - 1)
         /\ 1 .. k \in SUBSET (1 .. n) /\ 1 .. (k - 1) \in SUBSET (1 .. n)
<1>1. Seqs!Max(1 .. k) = CHOOSE x \in 1 .. k : \A y \in 1 .. k : x >= y
  BY DEF Seqs!Max
<1>2. k \in 1 .. k /\ \A y \in 1 .. k : k >= y
  OBVIOUS
<1>3. \A x \in 1 .. k : (\A y \in 1 .. k : x >= y) => x = k
  OBVIOUS
<1>4. Seqs!Max(1 .. k) = k
  BY <1>1, <1>2, <1>3
<1> QED BY <1>4

(* A table begins with the list and takes the items one by one. *)
LEMMA AddsStep ==
  ASSUME NEW T, NEW s, NEW q, NEW n \in Nat, Adds(T, s, q, n)
  PROVE  /\ T[1 .. 0] = s
         /\ \A k \in 1 .. n : T[1 .. k] = AddRow(T[1 .. (k - 1)], q[k])
<1>1. 1 .. 0 = {} /\ {} \in SUBSET (1 .. n)
  OBVIOUS
<1>2. T[1 .. 0] = s
  BY <1>1 DEF Adds
<1>3. ASSUME NEW k \in 1 .. n PROVE T[1 .. k] = AddRow(T[1 .. (k - 1)], q[k])
  <2>1. 1 .. k # {}
    OBVIOUS
  <2>2. T[1 .. k] = AddRow(T[(1 .. k) \ {Seqs!Max(1 .. k)}], q[Seqs!Max(1 .. k)])
    BY <2>1, LastPlace DEF Adds
  <2> QED BY <2>2, LastPlace
<1> QED BY <1>2, <1>3

(* There is such a table for any number of items. *)
LEMMA AddsExist ==
  ASSUME NEW s, NEW q, NEW n \in Nat
  PROVE  \E T : Adds(T, s, q, n)
<1> DEFINE Bad == {k \in Nat : ~ \E T : Adds(T, s, q, k)}
<1>1. SUFFICES ASSUME Bad # {} PROVE FALSE
  OBVIOUS
<1>2. PICK k \in Bad : \A i \in Bad : k <= i
  <2>1. Bad \subseteq Nat
    OBVIOUS
  <2> HIDE DEF Bad
  <2> QED BY <1>1, <2>1, LeastNat
<1>3. k # 0
  <2> DEFINE T == [V \in SUBSET (1 .. 0) |-> s]
  <2>1. Adds(T, s, q, 0)
    BY DEF Adds
  <2> QED BY <2>1
<1>4. PICK T : Adds(T, s, q, k - 1)
  <2>1. k - 1 \in Nat /\ k - 1 \notin Bad
    BY <1>2, <1>3
  <2> QED BY <2>1
<1> DEFINE U == [V \in SUBSET (1 .. k) |->
                  IF k \in V THEN AddRow(T[V \ {k}], q[k]) ELSE T[V]]
<1>5. ASSUME NEW V \in SUBSET (1 .. k), V # {}
      PROVE  U[V] = AddRow(U[V \ {Seqs!Max(V)}], q[Seqs!Max(V)])
  <2>1. CASE k \in V
    <3>1. Seqs!Max(V) = k
      <4>1. Seqs!Max(V) = CHOOSE x \in V : \A y \in V : x >= y
        BY DEF Seqs!Max
      <4>2. \A x \in V : (\A y \in V : x >= y) <=> x = k
        BY <2>1
      <4> QED BY <2>1, <4>1, <4>2
    <3>2. V \ {k} \in SUBSET (1 .. k) /\ k \notin V \ {k}
      OBVIOUS
    <3>3. U[V] = AddRow(T[V \ {k}], q[k]) /\ U[V \ {k}] = T[V \ {k}]
      BY <2>1, <3>2
    <3> QED BY <3>1, <3>3
  <2>2. CASE k \notin V
    <3> DEFINE x == Seqs!Max(V)
    <3>1. V \in SUBSET (1 .. (k - 1)) /\ V \ {x} \in SUBSET (1 .. k) /\ k \notin V \ {x}
      <4>1. \A i \in V : i \in 1 .. k /\ i # k
        BY <2>2
      <4>2. \A i \in V : i \in 1 .. (k - 1)
        BY <1>3, <4>1
      <4> HIDE DEF x
      <4> QED BY <2>2, <4>2
    <3>2. T[V] = AddRow(T[V \ {x}], q[x])
      BY <1>4, <1>5, <3>1 DEF Adds
    <3>3. U[V] = T[V] /\ U[V \ {x}] = T[V \ {x}]
      BY <2>2, <3>1
    <3> QED BY <3>2, <3>3
  <2> QED BY <2>1, <2>2
<1>6. U[{}] = s
  <2>1. T[{}] = s
    BY <1>4 DEF Adds
  <2> QED BY <2>1
<1>7. U = [V \in SUBSET (1 .. k) |->
            IF V = {} THEN s ELSE AddRow(U[V \ {Seqs!Max(V)}], q[Seqs!Max(V)])]
  <2> HIDE DEF U
  <2>1. U = [V \in SUBSET (1 .. k) |-> U[V]]
    BY DEF U
  <2> QED BY <1>5, <1>6, <2>1
<1>8. Adds(U, s, q, k)
  <2> HIDE DEF U
  <2> QED BY <1>7 DEF Adds
<1> QED BY <1>2, <1>8

(* The list s with the items of q added: one row for each id, every row of *)
(* s or of q, every row of s, and every id of the first k items.           *)
Extends(t, s, q, k) ==
  /\ t \in Seq(Row) /\ OneRowEach(t)
  /\ \A i \in DOMAIN t :
       \/ \E j \in DOMAIN s : t[i] = s[j]
       \/ t[i].id \notin Shown(s) /\ \E j \in 1 .. k : t[i] = q[j]
  /\ Shown(t) = Shown(s) \cup {q[j].id : j \in 1 .. k}

(* Adding one more item. *)
LEMMA AddRowExtends ==
  ASSUME NEW s \in Seq(Row), NEW q \in Seq(Row), NEW k \in 1 .. Len(q),
         NEW t, Extends(t, s, q, k - 1)
  PROVE  Extends(AddRow(t, q[k]), s, q, k)
<1> DEFINE u == AddRow(t, q[k])
<1>1. q[k] \in Row /\ t \in Seq(Row) /\ k - 1 \in Nat
  BY DEF Extends
<1>2. \A j \in 1 .. (k - 1) : j \in 1 .. k
  BY <1>1
<1>3. \A j \in 1 .. k : j = k \/ j \in 1 .. (k - 1)
  BY <1>1
<1>4. CASE q[k].id \in Shown(t)
  <2>1. u = t
    BY <1>4 DEF AddRow
  <2>2. Shown(t) = Shown(s) \cup {q[j].id : j \in 1 .. k}
    BY <1>2, <1>3, <1>4 DEF Extends
  <2> HIDE DEF u
  <2> QED BY <1>2, <2>1, <2>2 DEF Extends, u
<1>5. CASE q[k].id \notin Shown(t)
  <2>1. u = Append(t, q[k])
    BY <1>5 DEF AddRow
  <2>2. /\ u \in Seq(Row) /\ Len(u) = Len(t) + 1 /\ DOMAIN u = 1 .. (Len(t) + 1)
        /\ u[Len(t) + 1] = q[k] /\ Len(t) \in Nat /\ DOMAIN t = 1 .. Len(t)
        /\ \A i \in 1 .. Len(t) : u[i] = t[i]
    BY <1>1, <2>1
  <2> HIDE DEF u
  <2>3. \A i \in DOMAIN u : i \in DOMAIN t \/ i = Len(t) + 1
    BY <2>2
  <2>4. \A i \in DOMAIN t : t[i].id # q[k].id
    BY <1>5 DEF Shown
  <2>5. OneRowEach(u)
    BY <2>2, <2>3, <2>4 DEF OneRowEach, Extends
  <2>6. Shown(u) = Shown(t) \cup {q[k].id}
    <3>1. \A i \in DOMAIN t : i \in DOMAIN u /\ u[i].id = t[i].id
      BY <2>2
    <3>2. Len(t) + 1 \in DOMAIN u
      BY <2>2
    <3> QED BY <2>2, <2>3, <3>1, <3>2 DEF Shown
  <2>7. Shown(u) = Shown(s) \cup {q[j].id : j \in 1 .. k}
    <3>1. k \in 1 .. k
      BY <1>1
    <3> QED BY <1>2, <1>3, <2>6, <3>1 DEF Extends
  <2>8. q[k].id \notin Shown(s)
    BY <1>5 DEF Extends
  <2>9. ASSUME NEW i \in DOMAIN u
        PROVE  \/ \E j \in DOMAIN s : u[i] = s[j]
               \/ u[i].id \notin Shown(s) /\ \E j \in 1 .. k : u[i] = q[j]
    <3>1. CASE i = Len(t) + 1
      <4>1. k \in 1 .. k /\ u[i] = q[k]
        BY <1>1, <2>2, <3>1
      <4> QED BY <2>8, <4>1
    <3>2. CASE i \in DOMAIN t
      <4>1. u[i] = t[i]
        BY <2>2, <3>2
      <4> QED BY <1>2, <3>2, <4>1 DEF Extends
    <3> QED BY <2>3, <3>1, <3>2
  <2> QED BY <2>2, <2>5, <2>7, <2>9 DEF Extends, u
<1> QED BY <1>4, <1>5

(* Adding a whole page. *)
LEMMA PageExtends ==
  ASSUME NEW s \in Seq(Row), OneRowEach(s), NEW q \in Seq(Row)
  PROVE  Extends(Seqs!FoldLeft(AddRow, s, q), s, q, Len(q))
<1>1. DOMAIN q = 1 .. Len(q) /\ Len(q) \in Nat
  OBVIOUS
<1>2. Seqs!FoldLeft(AddRow, s, q) = (CHOOSE T : Adds(T, s, q, Len(q)))[1 .. Len(q)]
  BY <1>1 DEF Seqs!FoldLeft, Seqs!MapThenFoldSet, Adds
<1>3. PICK T : Adds(T, s, q, Len(q)) /\ Seqs!FoldLeft(AddRow, s, q) = T[1 .. Len(q)]
  <2>1. \E T : Adds(T, s, q, Len(q))
    BY <1>1, AddsExist
  <2> QED BY <1>2, <2>1
<1> DEFINE Bad == {k \in 0 .. Len(q) : ~Extends(T[1 .. k], s, q, k)}
<1>4. SUFFICES ASSUME Bad # {} PROVE FALSE
  <2>1. Len(q) \in 0 .. Len(q)
    BY <1>1
  <2> QED BY <1>3, <2>1
<1>5. PICK k \in Bad : \A i \in Bad : k <= i
  <2>1. Bad \subseteq Nat
    OBVIOUS
  <2> HIDE DEF Bad
  <2> QED BY <1>4, <2>1, LeastNat
<1>6. k \in 1 .. Len(q)
  <2>1. T[1 .. 0] = s
    BY <1>1, <1>3, AddsStep
  <2>2. Extends(s, s, q, 0)
    BY DEF Extends
  <2>3. k # 0
    BY <2>1, <2>2
  <2> QED BY <1>1, <2>3
<1>7. k - 1 \in 0 .. Len(q) /\ k - 1 \notin Bad
  BY <1>1, <1>5, <1>6
<1>8. Extends(T[1 .. (k - 1)], s, q, k - 1)
  BY <1>7
<1>9. T[1 .. k] = AddRow(T[1 .. (k - 1)], q[k])
  BY <1>1, <1>3, <1>6, AddsStep
<1>10. Extends(T[1 .. k], s, q, k)
  BY <1>6, <1>8, <1>9, AddRowExtends
<1> QED BY <1>10

-----------------------------------------------------------------------------
(* The parts of the model. *)

(* Taking row i off a list leaves the others, each where it was or one     *)
(* place nearer.                                                           *)
LEMMA Shortened ==
  ASSUME NEW s \in Seq(Row), OneRowEach(s), NEW i \in DOMAIN s
  PROVE  LET t == Seqs!RemoveAt(s, i)
         IN /\ t \in Seq(Row) /\ OneRowEach(t)
            /\ \A j \in DOMAIN t : \E k \in DOMAIN s : k # i /\ t[j] = s[k]
            /\ Shown(t) = Shown(s) \ {s[i].id}
<1> DEFINE t == Seqs!RemoveAt(s, i)
           n == Len(s)
<1>1. i \in 1 .. n /\ n \in Nat /\ DOMAIN s = 1 .. n
  OBVIOUS
<1>2. t = SubSeq(s, 1, i - 1) \o SubSeq(s, i + 1, n)
  BY DEF Seqs!RemoveAt
<1> DEFINE place(j) == IF j < i THEN j ELSE j + 1
<1> DEFINE front == SubSeq(s, 1, i - 1)
           back == SubSeq(s, i + 1, n)
<1>3. front \in Seq(Row) /\ Len(front) = i - 1 /\ \A j \in 1 .. (i - 1) : front[j] = s[j]
  BY <1>1, SubSeqProperties
<1>4. back \in Seq(Row) /\ Len(back) = n - i /\ \A j \in 1 .. (n - i) : back[j] = s[i + j]
  BY <1>1, SubSeqProperties
<1> HIDE DEF t, n, front, back
<1>5. /\ t \in Seq(Row) /\ DOMAIN t = 1 .. (n - 1)
      /\ \A j \in 1 .. (n - 1) : t[j] = s[place(j)]
  <2>1. /\ t \in Seq(Row) /\ Len(t) = n - 1
        /\ \A j \in 1 .. (n - 1) : t[j] = IF j <= i - 1 THEN front[j] ELSE back[j - (i - 1)]
    <3>1. t = front \o back
      BY <1>2 DEF front, back
    <3>2. Len(front) + Len(back) = n - 1
      BY <1>1, <1>3, <1>4
    <3> QED BY <1>3, <1>4, <3>1, <3>2, ConcatProperties
  <2>2. ASSUME NEW j \in 1 .. (n - 1), j < i PROVE t[j] = s[j]
    BY <1>1, <1>3, <2>1, <2>2
  <2>3. ASSUME NEW j \in 1 .. (n - 1), ~(j < i) PROVE t[j] = s[j + 1]
    <3>1. j - (i - 1) \in 1 .. (n - i) /\ i + (j - (i - 1)) = j + 1 /\ ~(j <= i - 1)
      BY <1>1, <2>3
    <3> QED BY <1>4, <2>1, <3>1
  <2> QED BY <2>1, <2>2, <2>3
<1>6. /\ \A j \in DOMAIN t : place(j) \in DOMAIN s /\ place(j) # i
      /\ \A j, k \in DOMAIN t : place(j) = place(k) => j = k
      /\ \A k \in DOMAIN s : k # i => \E j \in DOMAIN t : k = place(j)
  <2>1. ASSUME NEW k \in DOMAIN s, k # i PROVE \E j \in DOMAIN t : k = place(j)
    <3>1. CASE k < i
      <4>1. k \in DOMAIN t /\ k = place(k)
        BY <1>1, <1>5, <3>1
      <4> QED BY <4>1
    <3>2. CASE k > i
      <4>1. k - 1 \in DOMAIN t /\ k = place(k - 1)
        BY <1>1, <1>5, <3>2
      <4> QED BY <4>1
    <3> QED BY <1>1, <2>1, <3>1, <3>2
  <2>2. ASSUME NEW j \in DOMAIN t PROVE place(j) \in DOMAIN s /\ place(j) # i
    BY <1>1, <1>5
  <2>3. ASSUME NEW j \in DOMAIN t, NEW k \in DOMAIN t, place(j) = place(k) PROVE j = k
    BY <1>1, <1>5, <2>3
  <2> QED BY <2>1, <2>2, <2>3
<1>7. \A j \in DOMAIN t : t[j] = s[place(j)]
  BY <1>5
<1> HIDE DEF place
<1>8. OneRowEach(t)
  BY <1>6, <1>7 DEF OneRowEach
<1>9. \A j \in DOMAIN t : \E k \in DOMAIN s : k # i /\ t[j] = s[k]
  BY <1>6, <1>7
<1>10. Shown(t) = Shown(s) \ {s[i].id}
  <2>1. \A k \in DOMAIN s : k # i => s[k].id # s[i].id
    BY DEF OneRowEach
  <2> QED BY <1>6, <1>7, <2>1 DEF Shown
<1> QED BY <1>5, <1>8, <1>9, <1>10 DEF t

(* A page is a few of the entries that match and come after the cursor.    *)
LEMMA PageFits ==
  ASSUME TypeOK, NEW v, NEW cursor, NEW items \in Page(v, cursor)
  PROVE  /\ items \in Seq(Matches(v)) /\ Len(items) \in Nat /\ Len(items) <= PageSize
         /\ DOMAIN items = 1 .. Len(items)
<1> DEFINE found == Matches(v) \cap Past(cursor)
           c == Cardinality(found)
           n == Seqs!Min({c, PageSize})
<1>1. c \in Nat
  <2>1. found \subseteq Ids
    BY DEF Matches, Held
  <2>2. IsFiniteSet(Ids)
    BY FS_Interval, PickerAssumption DEF Ids
  <2> QED BY <2>1, <2>2, FS_Subset, FS_CardinalityType
<1>2. n \in Nat /\ n <= PageSize
  <2> HIDE DEF c
  <2>1. n = CHOOSE x \in {c, PageSize} : \A y \in {c, PageSize} : x <= y
    BY DEF Seqs!Min
  <2>2. \E x \in {c, PageSize} : \A y \in {c, PageSize} : x <= y
    BY <1>1, PickerAssumption
  <2>3. n \in {c, PageSize} /\ \A y \in {c, PageSize} : n <= y
    BY <2>1, <2>2
  <2> QED BY <1>1, <2>3, PickerAssumption
<1>3. items \in [1 .. n -> found]
  <2>1. Cardinality(found) = c /\ Page(v, cursor) = Firsts(found, n)
    BY DEF Page, Seqs!Cardinality, Cardinality
  <2> HIDE DEF found, n, c
  <2> QED BY <2>1 DEF Firsts
<1> HIDE DEF n
<1> QED BY <1>2, <1>3

(* What a row shows of an entry that is held. *)
LEMMA RowOfTyped ==
  ASSUME TypeOK, NEW v, NEW e \in Matches(v)
  PROVE  /\ RowOf(e) \in Row /\ RowOf(e).id = e /\ RowOf(e).copy = shelf[e].copy
         /\ e \in Held /\ shelf[e].pinned = v.pinned
<1>1. e \in Held /\ shelf[e].pinned = v.pinned /\ e \in Ids /\ shelf[e] \in Entry
  BY DEF Matches, Held, TypeOK
<1> QED BY <1>1 DEF RowOf, Row, Entry

(* A request is none but the one that is absent. *)
LEMMA Requested ==
  ASSUME NEW v \in View, NEW cursor \in Row \cup {None}
  PROVE  /\ Request(v, cursor) \in Load /\ Request(v, cursor) # None
         /\ Request(v, cursor).view = v /\ Request(v, cursor).read = FALSE
         /\ Request(v, cursor).items = << >>
<1>1. << >> \in Seq(Row) /\ {} \in SUBSET Ids
  OBVIOUS
<1>2. Request(v, cursor) \in Load
  BY <1>1 DEF Request, Load
<1> QED BY <1>2, PickerAssumption DEF Request

-----------------------------------------------------------------------------
(* Types. *)

(* Refreshing keeps the list typed. *)
LEMMA RefreshTyped ==
  ASSUME TypeOK, NEW v \in View, NEW connected \in BOOLEAN, Refresh(v, connected),
         linked' \in BOOLEAN, connected => linked', linked => linked', UNCHANGED shelf
  PROVE  /\ rows' \in Seq(Row) /\ OneRowEach(rows') /\ oldest' \in Row \cup {None}
         /\ exhausted' \in BOOLEAN /\ stale' \in BOOLEAN /\ blank' \in BOOLEAN
         /\ ghosts' \subseteq Shown(rows') /\ lost' \in BOOLEAN
         /\ asked' \in Load \cup {None} /\ (Loading' => Len(asked'.items) <= PageSize)
         /\ (stale' => Loading') /\ (Loading' => linked')
<1>1. rows' = << >> /\ rows' \in Seq(Row)
  BY DEF Refresh
<1>2. OneRowEach(rows')
  BY <1>1 DEF OneRowEach
<1>3. None \in Row \cup {None}
  OBVIOUS
<1>4. CASE Loading \/ ~connected
  BY <1>1, <1>2, <1>3, <1>4 DEF Refresh, TypeOK, Loading
<1>5. CASE ~Loading /\ connected
  <2>1. asked' = Request(v, None) /\ stale' = FALSE
    BY <1>5 DEF Refresh
  <2>2. asked' \in Load /\ asked' # None /\ asked'.items = << >>
    BY <1>3, <2>1, Requested
  <2>3. Len(asked'.items) = 0
    BY <2>2
  <2>4. Len(asked'.items) <= PageSize
    BY <2>3, PickerAssumption
  <2> QED BY <1>1, <1>2, <1>3, <1>5, <2>1, <2>2, <2>4 DEF Refresh, TypeOK, Loading
<1> QED BY <1>4, <1>5

-----------------------------------------------------------------------------
(* The archive changes. *)

(* What an event ends: what its id stood for, or everything. *)
Ends(event, e) ==
  \/ event.ev = "cleared"
  \/ event.ev \in {"removed", "updated"} /\ event.id = e

(* Every change is told by one event: it ends what it touches, and what it *)
(* adds is as it says.                                                     *)
LEMMA Changes ==
  ASSUME TypeOK, Change
  PROVE  \E event \in Event :
           /\ shelf' \in [Ids -> Entry \cup {Absent}]
           /\ Tell(event)
           /\ \A e \in Held : Ends(event, e) \/ (e \in Held' /\ shelf'[e] = shelf[e])
           /\ event.ev = "added" =>
                /\ event.id \in Held'
                /\ shelf'[event.id].copy = event.copy
                /\ shelf'[event.id].pinned = event.pinned
<1>1. shelf \in [Ids -> Entry \cup {Absent}] /\ Absent \notin Entry
  BY PickerAssumption DEF TypeOK
<1>2. \A e \in Held : e \in Ids /\ shelf[e] \in Entry
  BY <1>1 DEF Held
<1>3. ASSUME NEW ev \in {"added", "updated"}, NEW e \in Ids, NEW entry \in Entry,
             shelf' = [shelf EXCEPT ![e] = entry], Tell(Summary(ev, e)),
             ev = "added" => e \notin Held
      PROVE  \E event \in Event :
               /\ shelf' \in [Ids -> Entry \cup {Absent}]
               /\ Tell(event)
               /\ \A o \in Held : Ends(event, o) \/ (o \in Held' /\ shelf'[o] = shelf[o])
               /\ event.ev = "added" =>
                    /\ event.id \in Held'
                    /\ shelf'[event.id].copy = event.copy
                    /\ shelf'[event.id].pinned = event.pinned
  <2> DEFINE event == Summary(ev, e)
  <2>1. shelf' \in [Ids -> Entry \cup {Absent}] /\ shelf'[e] = entry /\ e \in Held'
    BY <1>1, <1>3 DEF Held
  <2>2. entry.copy \in Copies /\ entry.pinned \in BOOLEAN
    BY DEF Entry
  <2>3. event = [ev |-> ev, id |-> e, copy |-> entry.copy, pinned |-> entry.pinned]
    BY <2>1 DEF Summary
  <2>4. event \in Event
    BY <2>2, <2>3 DEF Event
  <2>5. event.ev = ev /\ event.id = e /\ event.copy = entry.copy /\ event.pinned = entry.pinned
    BY <2>3
  <2> HIDE DEF event
  <2>6. ASSUME NEW o \in Held PROVE Ends(event, o) \/ (o \in Held' /\ shelf'[o] = shelf[o])
    <3>1. CASE o = e
      BY <1>3, <2>5, <3>1 DEF Ends
    <3>2. CASE o # e
      BY <1>1, <1>3, <3>2 DEF Held
    <3> QED BY <3>1, <3>2
  <2> QED BY <1>3, <2>1, <2>4, <2>5, <2>6 DEF event
<1>4. ASSUME NEW data \in Copies, Record(data) PROVE \E e \in Ids, entry \in Entry :
        /\ shelf' = [shelf EXCEPT ![e] = entry] /\ Tell(Summary("added", e)) /\ e \notin Held
  <2>1. PICK e \in Ids \ Held, second \in Seconds :
          /\ shelf' = [shelf EXCEPT ![e] = [copy |-> data, pinned |-> FALSE, at |-> second]]
          /\ Tell(Summary("added", e))
    BY <1>4 DEF Record
  <2>2. [copy |-> data, pinned |-> FALSE, at |-> second] \in Entry
    BY DEF Entry, Seconds
  <2> QED BY <2>1, <2>2
<1>5. ASSUME NEW e \in Ids, Touch(e) \/ \E pinned \in BOOLEAN : SetPinned(e, pinned)
      PROVE  \E entry \in Entry :
               shelf' = [shelf EXCEPT ![e] = entry] /\ Tell(Summary("updated", e))
  <2>1. e \in Held /\ shelf[e] \in Entry
    BY <1>2, <1>5 DEF Touch, SetPinned
  <2>2. CASE Touch(e)
    <3>1. PICK second \in Seconds : shelf' = [shelf EXCEPT ![e].at = second]
      BY <2>2 DEF Touch
    <3>2. [shelf[e] EXCEPT !.at = second] \in Entry
      BY <2>1 DEF Entry, Seconds
    <3>3. shelf' = [shelf EXCEPT ![e] = [shelf[e] EXCEPT !.at = second]]
      BY <3>1
    <3> QED BY <2>2, <3>2, <3>3 DEF Touch
  <2>3. ASSUME NEW pinned \in BOOLEAN, SetPinned(e, pinned)
        PROVE  \E entry \in Entry :
                 shelf' = [shelf EXCEPT ![e] = entry] /\ Tell(Summary("updated", e))
    <3>1. [shelf[e] EXCEPT !.pinned = pinned] \in Entry
      BY <2>1 DEF Entry
    <3>2. shelf' = [shelf EXCEPT ![e] = [shelf[e] EXCEPT !.pinned = pinned]]
      BY <2>3 DEF SetPinned
    <3> QED BY <2>3, <3>1, <3>2 DEF SetPinned
  <2> QED BY <1>5, <2>2, <2>3
<1>6. ASSUME NEW e \in Ids, Remove(e)
      PROVE  \E event \in Event :
               /\ shelf' \in [Ids -> Entry \cup {Absent}] /\ Tell(event)
               /\ \A o \in Held : Ends(event, o) \/ (o \in Held' /\ shelf'[o] = shelf[o])
               /\ event.ev # "added"
  <2> DEFINE event == [ev |-> "removed", id |-> e]
  <2>1. event \in Event /\ event.ev = "removed" /\ event.id = e
    BY DEF Event
  <2>2. shelf' = [shelf EXCEPT ![e] = Absent] /\ Tell(event)
    BY <1>6 DEF Remove
  <2> HIDE DEF event
  <2>3. \A o \in Held : Ends(event, o) \/ (o \in Held' /\ shelf'[o] = shelf[o])
    BY <1>1, <2>1, <2>2 DEF Ends, Held
  <2> QED BY <1>1, <2>1, <2>2, <2>3
<1>7. ASSUME Clear
      PROVE  \E event \in Event :
               /\ shelf' \in [Ids -> Entry \cup {Absent}] /\ Tell(event)
               /\ \A o \in Held : Ends(event, o)
               /\ event.ev # "added"
  <2>1. [ev |-> "cleared"] \in Event /\ Tell([ev |-> "cleared"])
    BY <1>7 DEF Event, Clear
  <2>2. shelf' \in [Ids -> Entry \cup {Absent}]
    BY <1>2, <1>7 DEF Clear
  <2> QED BY <2>1, <2>2 DEF Ends
<1>8. \/ \E data \in Copies : Record(data)
      \/ \E e \in Ids : Touch(e) \/ Remove(e) \/ \E pinned \in BOOLEAN : SetPinned(e, pinned)
      \/ Clear
  BY DEF Change
<1> QED BY <1>3, <1>4, <1>5, <1>6, <1>7, <1>8

-----------------------------------------------------------------------------
(* The invariant. *)

(* The event that ends whatever the id stands for comes after event i. *)
EndedAfter(i, e) ==
  \E j \in DOMAIN events :
    /\ j > i
    /\ \/ events[j].ev = "cleared"
       \/ events[j].ev \in {"removed", "updated"} /\ events[j].id = e

(* Entry e is held, and is this copy on this tab. *)
StandsFor(e, data, pinned) ==
  e \in Held /\ shelf[e].copy = data /\ shelf[e].pinned = pinned

(* RowsTrue in these words. *)
Truthful ==
  open /\ linked =>
    \A i \in DOMAIN rows :
      \/ rows[i].id \in ghosts
      \/ EndedAfter(0, rows[i].id)
      \/ StandsFor(rows[i].id, rows[i].copy, view.pinned)

(* Nothing is on its way over a connection that has ended. *)
Severed == ~linked => events = << >>

(* What an added event says is so, or its end is on the way behind it. *)
Heralded ==
  \A i \in DOMAIN events :
    events[i].ev = "added" =>
      \/ EndedAfter(i, events[i].id)
      \/ StandsFor(events[i].id, events[i].copy, events[i].pinned)

(* A page that will land was asked for the tab that is shown. *)
SameTab == open /\ Loading /\ ~stale => asked.view.pinned = view.pinned

(* Its rows will be ghosts, or stand for what they show. *)
Carried ==
  open /\ Loading /\ ~stale /\ asked.read =>
    \A i \in DOMAIN asked.items :
      \/ asked.items[i].id \in asked.missed
      \/ EndedAfter(0, asked.items[i].id)
      \/ StandsFor(asked.items[i].id, asked.items[i].copy, view.pinned)

IndInv ==
  /\ TypeOK /\ Truthful /\ PageUnderWay
  /\ Severed /\ Heralded /\ SameTab /\ Carried

-----------------------------------------------------------------------------
(* Types are kept. *)

(* Marking the page under way as one that has missed an event. *)
LEMMA MissesTyped ==
  ASSUME TypeOK, NEW e \in Ids, Misses(e)
  PROVE  /\ asked' \in Load \cup {None} /\ (Loading' <=> Loading)
         /\ (Loading' => Len(asked'.items) <= PageSize)
         /\ Loading => /\ asked'.items = asked.items /\ asked'.view = asked.view
                       /\ asked'.read = asked.read
                       /\ asked'.missed = IF asked.read THEN asked.missed \cup {e}
                                          ELSE asked.missed
<1>1. CASE Loading /\ asked.read
  <2>1. asked' = [asked EXCEPT !.missed = @ \cup {e}]
    BY <1>1 DEF Misses
  <2>2. asked \in Load /\ Len(asked.items) <= PageSize
    BY <1>1 DEF TypeOK, Loading
  <2>3. /\ asked' \in Load /\ asked'.items = asked.items /\ asked'.view = asked.view
        /\ asked'.read = asked.read /\ asked'.missed = asked.missed \cup {e}
    BY <2>1, <2>2 DEF Load
  <2> QED BY <1>1, <2>2, <2>3, PickerAssumption DEF Loading
<1>2. CASE ~(Loading /\ asked.read)
  BY <1>2 DEF Misses, TypeOK, Loading
<1> QED BY <1>1, <1>2

(* Asking again, or not. *)
LEMMA SettleTyped ==
  ASSUME TypeOK, Settle
  PROVE  /\ asked' \in Load \cup {None} /\ (Loading' <=> stale)
         /\ (Loading' => Len(asked'.items) <= PageSize)
         /\ Loading' => asked'.view = view /\ asked'.read = FALSE
<1>1. CASE stale
  <2>1. asked' = Request(view, oldest)
    BY <1>1 DEF Settle
  <2>2. /\ asked' \in Load /\ asked' # None /\ asked'.items = << >>
        /\ asked'.view = view /\ asked'.read = FALSE
    BY <2>1, Requested DEF TypeOK
  <2>3. Len(asked'.items) = 0
    BY <2>2
  <2>4. Len(asked'.items) <= PageSize
    BY <2>3, PickerAssumption
  <2> QED BY <1>1, <2>2, <2>4 DEF Loading
<1>2. CASE ~stale
  BY <1>2 DEF Settle, Loading
<1> QED BY <1>1, <1>2

(* Reading a page makes rows of what matches. *)
LEMMA ServeReads ==
  ASSUME TypeOK, Serve
  PROVE  /\ asked' \in Load /\ Len(asked'.items) <= PageSize /\ asked'.view = asked.view
         /\ \A i \in DOMAIN asked'.items :
              /\ asked'.items[i].id \in Held
              /\ shelf[asked'.items[i].id].copy = asked'.items[i].copy
              /\ shelf[asked'.items[i].id].pinned = asked.view.pinned
<1>1. asked \in Load
  BY DEF Serve, Loading, TypeOK
<1>2. PICK items \in Page(asked.view, asked.before) :
      \E fits \in (IF Limited THEN 1 ELSE Len(items)) .. Len(items) \cup {Len(items)} :
        asked' = [asked EXCEPT !.read = TRUE,
                    !.items = [i \in 1 .. fits |-> RowOf(items[i])],
                    !.more = Len(items) >= PageSize \/ fits < Len(items)]
  BY DEF Serve
<1>3. /\ items \in Seq(Matches(asked.view)) /\ Len(items) \in Nat /\ Len(items) <= PageSize
      /\ DOMAIN items = 1 .. Len(items)
  BY PageFits
<1>4. PICK fits \in Nat :
        /\ fits <= Len(items)
        /\ asked' = [asked EXCEPT !.read = TRUE,
                       !.items = [i \in 1 .. fits |-> RowOf(items[i])],
                       !.more = Len(items) >= PageSize \/ fits < Len(items)]
  <2> DEFINE n == Len(items)
             low == IF Limited THEN 1 ELSE n
  <2>1. n \in Nat /\ low \in Nat
    BY <1>3
  <2>2. \A fits \in low .. n \cup {n} : fits \in Nat /\ fits <= n
    <3> HIDE DEF n, low
    <3> QED BY <2>1
  <2> QED BY <1>2, <2>2
<1>5. \A i \in 1 .. fits : i \in DOMAIN items
  BY <1>3, <1>4
<1> DEFINE page == [i \in 1 .. fits |-> RowOf(items[i])]
<1>6. \A i \in 1 .. fits : items[i] \in Matches(asked.view)
  BY <1>3, <1>5
<1>7. /\ page \in Seq(Row) /\ Len(page) = fits /\ DOMAIN page = 1 .. fits
      /\ \A i \in 1 .. fits : page[i] = RowOf(items[i])
  <2>1. \A i \in 1 .. fits : RowOf(items[i]) \in Row
    BY <1>6, RowOfTyped
  <2> QED BY <2>1
<1>8. fits <= PageSize
  <2>1. PageSize \in Nat
    BY PickerAssumption
  <2> HIDE DEF page
  <2> QED BY <1>3, <1>4, <2>1
<1>9. asked'.items = page /\ asked' \in Load /\ asked'.view = asked.view
  <2> DEFINE more == Len(items) >= PageSize \/ fits < Len(items)
  <2>1. asked' = [asked EXCEPT !.read = TRUE, !.items = page, !.more = more]
    BY <1>4
  <2>2. more \in BOOLEAN
    OBVIOUS
  <2> HIDE DEF page, more
  <2> QED BY <1>1, <1>7, <2>1, <2>2 DEF Load
<1> HIDE DEF page
<1>10. ASSUME NEW i \in DOMAIN asked'.items
       PROVE  /\ asked'.items[i].id \in Held
              /\ shelf[asked'.items[i].id].copy = asked'.items[i].copy
              /\ shelf[asked'.items[i].id].pinned = asked.view.pinned
  <2>1. asked'.items[i] = RowOf(items[i]) /\ items[i] \in Matches(asked.view)
    BY <1>6, <1>7, <1>9
  <2> QED BY <2>1, RowOfTyped
<1> QED BY <1>7, <1>8, <1>9, <1>10

(* What lands is one row for each id: one that was there, or one of the    *)
(* page, and a ghost if the page has missed an event about it.             *)
LEMMA LandAdds ==
  ASSUME TypeOK, Loading, Land
  PROVE  /\ rows' \in Seq(Row) /\ OneRowEach(rows')
         /\ ghosts \subseteq ghosts' /\ ghosts' \subseteq Shown(rows')
         /\ oldest' \in Row \cup {None} /\ exhausted' \in BOOLEAN /\ blank' = FALSE
         /\ \A i \in DOMAIN rows' :
              \/ \E j \in DOMAIN rows : rows'[i] = rows[j]
              \/ /\ \E j \in DOMAIN asked.items : rows'[i] = asked.items[j]
                 /\ rows'[i].id \in asked.missed => rows'[i].id \in ghosts'
<1>1. asked \in Load /\ asked.items \in Seq(Row) /\ asked.more \in BOOLEAN
  BY DEF TypeOK, Loading, Load
<1>2. DOMAIN asked.items = 1 .. Len(asked.items)
  BY <1>1
<1>3. rows' = Seqs!FoldLeft(AddRow, rows, asked.items)
  BY DEF Land
<1>4. Extends(rows', rows, asked.items, Len(asked.items))
  BY <1>1, <1>3, PageExtends DEF TypeOK
<1>5. ghosts' = ghosts \cup ((Shown(rows') \ Shown(rows)) \cap asked.missed)
  BY DEF Land
<1>6. ghosts \subseteq Shown(rows')
  BY <1>4 DEF Extends, TypeOK
<1>7. oldest' \in Row \cup {None}
  <2>1. CASE asked.items = << >>
    BY <2>1 DEF Land, TypeOK
  <2>2. CASE asked.items # << >>
    <3>1. Len(asked.items) \in 1 .. Len(asked.items)
      BY <1>1, <2>2
    <3> QED BY <1>1, <2>2, <3>1 DEF Land
  <2> QED BY <2>1, <2>2
<1>8. ASSUME NEW i \in DOMAIN rows'
      PROVE  \/ \E j \in DOMAIN rows : rows'[i] = rows[j]
             \/ /\ \E j \in DOMAIN asked.items : rows'[i] = asked.items[j]
                /\ rows'[i].id \in asked.missed => rows'[i].id \in ghosts'
  <2>1. rows'[i].id \in Shown(rows')
    BY DEF Shown
  <2> QED BY <1>2, <1>4, <1>5, <2>1 DEF Extends
<1> QED BY <1>1, <1>4, <1>5, <1>6, <1>7, <1>8 DEF Land, Extends, TypeOK

(* Every step keeps every variable in its type. *)
LEMMA TypedNext == TypeOK /\ [Next]_vars => TypeOK'
<1> SUFFICES ASSUME TypeOK, [Next]_vars PROVE TypeOK'
  OBVIOUS
<1> USE DEF wire, screen, list
<1>1. CASE Change
  <2>1. PICK event \in Event : shelf' \in [Ids -> Entry \cup {Absent}] /\ Tell(event)
    BY <1>1, Changes
  <2>2. events' \in Seq(Event) /\ Len(events') <= MaxEvents
    <3>1. CASE linked
      <4>1. events' = Append(events, event) /\ Len(events) < MaxEvents
        BY <2>1, <3>1 DEF Tell
      <4> QED BY <4>1, PickerAssumption DEF TypeOK
    <3>2. CASE ~linked
      BY <2>1, <3>2 DEF Tell, TypeOK
    <3> QED BY <3>1, <3>2
  <2> QED BY <2>1, <2>2 DEF Tell, TypeOK, Loading
<1>2. CASE Open
  <2>1. Refresh(view, linked) /\ UNCHANGED <<shelf, events, linked, view, due>> /\ open' = TRUE
    BY <1>2 DEF Open
  <2> QED BY <2>1, RefreshTyped DEF TypeOK
<1>3. CASE Close
  <2>1. view' \in View
    BY <1>3 DEF Close, TypeOK, View
  <2>2. due' \in BOOLEAN
    BY <1>3 DEF Close, TypeOK, View
  <2> QED BY <1>3, <2>1, <2>2 DEF Close, TypeOK, Loading
<1>4. CASE Type
  <2>1. view' \in View
    BY <1>4 DEF Type, TypeOK, View
  <2> QED BY <1>4, <2>1 DEF Type, TypeOK, Loading
<1>5. CASE LoadMore
  <2>1. asked' = Request(view, oldest)
    BY <1>5 DEF LoadMore
  <2>2. asked' \in Load /\ asked'.items = << >>
    BY <2>1, Requested DEF TypeOK
  <2>3. Len(asked'.items) <= PageSize
    <3>1. Len(asked'.items) = 0
      BY <2>2
    <3> QED BY <3>1, PickerAssumption
  <2> QED BY <1>5, <2>2, <2>3 DEF LoadMore, TypeOK, Loading
<1>6. ASSUME NEW v \in View, Choose(v) PROVE TypeOK'
  <2>1. Refresh(v, linked) /\ UNCHANGED <<shelf, events, linked, open, due>> /\ view' = v
    BY <1>6 DEF Choose
  <2> QED BY <2>1, RefreshTyped DEF TypeOK
<1>7. CASE Serve
  <2>1. lost' \in BOOLEAN
    BY <1>7 DEF Serve, TypeOK
  <2>2. asked' \in Load /\ Len(asked'.items) <= PageSize
    BY <1>7, ServeReads
  <2> QED BY <1>7, <2>1, <2>2, PickerAssumption DEF Serve, TypeOK, Loading
<1>8. CASE Arrive
  <2>1. Loading /\ Settle /\ stale' = FALSE /\ UNCHANGED <<shelf, events, linked, open, view, due, lost>>
    BY <1>8 DEF Arrive, Settle
  <2>2. CASE Current
    <3>1. Land
      BY <1>8, <2>2 DEF Arrive
    <3> QED BY <2>1, <3>1, SettleTyped, LandAdds DEF TypeOK
  <2>3. CASE ~Current
    <3>1. UNCHANGED <<rows, ghosts, exhausted, oldest, blank>>
      BY <1>8, <2>3 DEF Arrive
    <3> QED BY <2>1, <3>1, SettleTyped DEF TypeOK
  <2> QED BY <2>2, <2>3
<1>9. CASE Refused
  <2>1. /\ Loading /\ Settle /\ stale' = FALSE /\ blank' = stale
        /\ UNCHANGED <<shelf, events, linked, open, view, due, rows, oldest, exhausted, ghosts, lost>>
    BY <1>9 DEF Refused, Settle
  <2> QED BY <2>1, SettleTyped DEF TypeOK
<1>10. CASE Hear
  <2>1. /\ linked /\ events # << >> /\ events' = Tail(events)
        /\ UNCHANGED <<shelf, linked, open, view, due>>
    BY <1>10 DEF Hear
  <2>2. events' \in Seq(Event) /\ Len(events') <= MaxEvents /\ Head(events) \in Event
    BY <2>1, PickerAssumption DEF TypeOK
  <2> DEFINE event == Head(events)
  <2>3. CASE UNCHANGED list
    BY <2>1, <2>2, <2>3 DEF TypeOK, Loading
  <2>4. CASE Refresh(view, TRUE)
    <3>1. view \in View
      BY DEF TypeOK
    <3> QED BY <2>1, <2>2, <2>4, <3>1, RefreshTyped DEF TypeOK
  <2>5. CASE event.ev = "added" /\ Added(event)
    <3>1. event.id \in Ids /\ event.copy \in Copies
      BY <2>2, <2>5 DEF Event
    <3> DEFINE row == [id |-> event.id, copy |-> event.copy]
    <3>2. row \in Row /\ row.id = event.id
      BY <3>1 DEF Row
    <3>3. CASE Belongs(event)
      <4> DEFINE n == Len(rows)
      <4>1. /\ rows' = <<row>> \o rows
            /\ rows' \in Seq(Row) /\ DOMAIN rows' = 1 .. (n + 1) /\ n \in Nat
            /\ DOMAIN rows = 1 .. n
            /\ rows'[1] = row /\ \A i \in 1 .. n : rows'[i + 1] = rows[i]
        <5>1. rows' = <<row>> \o rows
          BY <2>5, <3>3 DEF Added
        <5>2. <<row>> \in Seq(Row) /\ rows \in Seq(Row)
          BY <3>2 DEF TypeOK
        <5> HIDE DEF row
        <5> QED BY <5>1, <5>2
      <4>2. \A i \in 1 .. n : rows[i].id # event.id
        BY <3>3, <4>1 DEF Belongs, Shown
      <4> HIDE DEF row
      <4>3. \A i \in DOMAIN rows' : i = 1 \/ (i - 1 \in 1 .. n /\ rows'[i] = rows[i - 1])
        <5>1. ASSUME NEW i \in DOMAIN rows', i # 1
              PROVE  i - 1 \in 1 .. n /\ rows'[i] = rows[i - 1]
          <6>1. i - 1 \in 1 .. n /\ (i - 1) + 1 = i
            BY <4>1, <5>1
          <6> QED BY <4>1, <6>1
        <5> QED BY <5>1
      <4>4. OneRowEach(rows')
        <5>1. ASSUME NEW i \in DOMAIN rows', NEW j \in DOMAIN rows', rows'[i].id = rows'[j].id
              PROVE  i = j
          <6>1. CASE i = 1 /\ j # 1
            BY <3>2, <4>1, <4>2, <4>3, <5>1, <6>1
          <6>2. CASE i # 1 /\ j = 1
            BY <3>2, <4>1, <4>2, <4>3, <5>1, <6>2
          <6>3. CASE i # 1 /\ j # 1
            <7>1. i - 1 \in DOMAIN rows /\ j - 1 \in DOMAIN rows /\ rows[i - 1].id = rows[j - 1].id
              BY <4>1, <4>3, <5>1, <6>3
            <7>2. i - 1 = j - 1
              BY <7>1 DEF TypeOK, OneRowEach
            <7> QED BY <4>1, <7>2
          <6> QED BY <6>1, <6>2, <6>3
        <5> QED BY <5>1 DEF OneRowEach
      <4>5. Shown(rows) \subseteq Shown(rows')
        <5>1. \A i \in DOMAIN rows : i + 1 \in DOMAIN rows' /\ rows'[i + 1] = rows[i]
          BY <4>1
        <5> QED BY <5>1 DEF Shown
      <4>6. UNCHANGED <<oldest, exhausted, asked, stale, blank, ghosts, lost>>
        BY <2>5 DEF Added
      <4> QED BY <2>1, <2>2, <4>1, <4>4, <4>5, <4>6 DEF TypeOK, Loading
    <3>4. CASE ~Belongs(event)
      BY <2>1, <2>2, <2>5, <3>4 DEF Added, TypeOK, Loading
    <3> QED BY <3>3, <3>4
  <2>6. CASE /\ event.ev = "updated" /\ Misses(event.id)
             /\ UNCHANGED <<rows, oldest, exhausted, stale, blank, ghosts, lost>>
    <3>1. event.id \in Ids
      BY <2>2, <2>6 DEF Event
    <3> QED BY <2>1, <2>2, <2>6, <3>1, MissesTyped DEF TypeOK
  <2>7. CASE event.ev = "removed" /\ Removed(event)
    <3>1. event.id \in Ids
      BY <2>2, <2>7 DEF Event
    <3>2. rows' \in Seq(Row) /\ OneRowEach(rows') /\ Shown(rows') = Shown(rows) \ {event.id}
      <4>1. CASE event.id \in Shown(rows)
        <5>1. PICK i \in DOMAIN rows : rows[i].id = event.id /\ rows' = Seqs!RemoveAt(rows, i)
          BY <2>7, <4>1 DEF Removed
        <5> QED BY <5>1, Shortened DEF TypeOK
      <4>2. CASE event.id \notin Shown(rows)
        BY <2>7, <4>2 DEF Removed, TypeOK
      <4> QED BY <4>1, <4>2
    <3>3. /\ Misses(event.id) /\ ghosts' = ghosts \ {event.id}
          /\ UNCHANGED <<oldest, exhausted, stale, blank, lost>>
      BY <2>7 DEF Removed
    <3> QED BY <2>1, <2>2, <3>1, <3>2, <3>3, MissesTyped DEF TypeOK
  <2> QED BY <1>10, <2>3, <2>4, <2>5, <2>6, <2>7 DEF Hear, Updated
<1>11. CASE Search
  <2>1. /\ Refresh(view, linked) /\ UNCHANGED <<shelf, events, linked, open, view>>
        /\ due' = FALSE
    BY <1>11 DEF Search
  <2> QED BY <2>1, RefreshTyped DEF TypeOK
<1>12. CASE Disconnect
  <2>1. events' = << >> /\ events' \in Seq(Event) /\ Len(events') = 0
    BY <1>12 DEF Disconnect
  <2>2. Len(events') <= MaxEvents
    BY <2>1, PickerAssumption
  <2> QED BY <1>12, <2>1, <2>2 DEF Disconnect, TypeOK, Loading
<1>13. CASE Connect
  <2>1. linked' = TRUE /\ UNCHANGED <<shelf, events, open, view, due>>
    BY <1>13 DEF Connect
  <2>2. CASE open
    <3>1. Refresh(view, TRUE)
      BY <1>13, <2>2 DEF Connect
    <3> QED BY <2>1, <3>1, RefreshTyped DEF TypeOK
  <2>3. CASE ~open
    BY <1>13, <2>1, <2>3 DEF Connect, TypeOK, Loading
  <2> QED BY <2>2, <2>3
<1>14. CASE UNCHANGED vars
  BY <1>14 DEF vars, TypeOK, Loading
<1> QED BY <1>1, <1>2, <1>3, <1>4, <1>5, <1>6, <1>7, <1>8, <1>9, <1>10, <1>11, <1>12,
           <1>13, <1>14 DEF Next, User

-----------------------------------------------------------------------------
(* What is true of the list stays true. *)

(* A list that was cleared has nothing to be wrong about, and neither has  *)
(* a request that was made for it or one whose page will not land.         *)
LEMMA Refreshed ==
  ASSUME TypeOK, NEW v \in View, NEW connected \in BOOLEAN, Refresh(v, connected), view' = v
  PROVE  Truthful' /\ SameTab' /\ Carried' /\ PageUnderWay'
<1>1. rows' = << >> /\ DOMAIN rows' = {}
  BY DEF Refresh
<1>2. Truthful'
  BY <1>1 DEF Truthful
<1>3. CASE Loading
  BY <1>2, <1>3 DEF Refresh, SameTab, Carried, PageUnderWay, Loading
<1>4. CASE ~Loading /\ ~connected
  BY <1>2, <1>4 DEF Refresh, SameTab, Carried, PageUnderWay, Loading
<1>5. CASE ~Loading /\ connected
  <2>1. None \in Row \cup {None}
    OBVIOUS
  <2>2. asked' = Request(v, None)
    BY <1>5 DEF Refresh
  <2>3. asked' # None /\ asked'.view = v /\ asked'.read = FALSE
    BY <2>1, <2>2, Requested
  <2> QED BY <1>2, <2>3 DEF SameTab, Carried, PageUnderWay, Loading
<1> QED BY <1>3, <1>4, <1>5

(* What stood for an entry, or was to be ended, still is, and what is told *)
(* of an addition is so.                                                   *)
LEMMA ChangeSpares ==
  ASSUME TypeOK, Severed, linked, Change
  PROVE  \E event \in Event :
           /\ \A i \in DOMAIN events : i \in DOMAIN events' /\ events'[i] = events[i]
           /\ \A i \in DOMAIN events' :
                i \in DOMAIN events \/ (events'[i] = event /\ \A j \in DOMAIN events : j < i)
           /\ \A i \in Int : \A e : EndedAfter(i, e) => EndedAfter(i, e)'
           /\ \A i \in {0} \cup DOMAIN events : \A e, data, pinned :
                StandsFor(e, data, pinned) => \/ StandsFor(e, data, pinned)'
                                              \/ EndedAfter(i, e)'
           /\ event.ev = "added" => StandsFor(event.id, event.copy, event.pinned)'
           /\ UNCHANGED <<linked, screen, list>>
<1>1. PICK event \in Event :
        /\ shelf' \in [Ids -> Entry \cup {Absent}]
        /\ Tell(event)
        /\ \A e \in Held : Ends(event, e) \/ (e \in Held' /\ shelf'[e] = shelf[e])
        /\ event.ev = "added" =>
             /\ event.id \in Held'
             /\ shelf'[event.id].copy = event.copy
             /\ shelf'[event.id].pinned = event.pinned
  BY Changes
<1> DEFINE n == Len(events)
<1>2. /\ n \in Nat /\ DOMAIN events = 1 .. n /\ DOMAIN events' = 1 .. (n + 1)
      /\ events'[n + 1] = event /\ \A i \in 1 .. n : events'[i] = events[i]
  <2>1. events' = Append(events, event) /\ events \in Seq(Event)
    BY <1>1 DEF Tell, TypeOK
  <2> QED BY <2>1
<1> HIDE DEF n
<1>3. \A i \in DOMAIN events : i \in DOMAIN events' /\ events'[i] = events[i]
  BY <1>2
<1>4. \A i \in DOMAIN events' :
        i \in DOMAIN events \/ (events'[i] = event /\ \A j \in DOMAIN events : j < i)
  BY <1>2
<1>5. ASSUME NEW i \in Int, NEW e, EndedAfter(i, e) PROVE EndedAfter(i, e)'
  BY <1>3, <1>5 DEF EndedAfter
<1>6. ASSUME NEW i \in {0} \cup DOMAIN events, NEW e, Ends(event, e) PROVE EndedAfter(i, e)'
  <2>1. n + 1 \in DOMAIN events' /\ n + 1 > i
    BY <1>2
  <2> QED BY <1>2, <1>6, <2>1 DEF EndedAfter, Ends
<1>7. ASSUME NEW i \in {0} \cup DOMAIN events, NEW e, NEW data, NEW pinned,
             StandsFor(e, data, pinned)
      PROVE  StandsFor(e, data, pinned)' \/ EndedAfter(i, e)'
  BY <1>1, <1>6, <1>7 DEF StandsFor
<1>8. event.ev = "added" => StandsFor(event.id, event.copy, event.pinned)'
  BY <1>1 DEF StandsFor
<1> QED BY <1>1, <1>3, <1>4, <1>5, <1>7, <1>8 DEF Tell

(* What follows the first event is ended later by the same events. *)
LEMMA TailEnds ==
  ASSUME TypeOK, events # << >>, events' = Tail(events)
  PROVE  /\ Head(events) = events[1] /\ 1 \in DOMAIN events
         /\ \A i \in DOMAIN events' : i + 1 \in DOMAIN events /\ events'[i] = events[i + 1]
         /\ \A i \in Nat : \A e : EndedAfter(i + 1, e) => EndedAfter(i, e)'
         /\ \A e : EndedAfter(0, e) => Ends(Head(events), e) \/ EndedAfter(0, e)'
<1> DEFINE n == Len(events)
<1>1. /\ n \in Nat \ {0} /\ DOMAIN events = 1 .. n /\ DOMAIN events' = 1 .. (n - 1)
      /\ Head(events) = events[1] /\ \A i \in 1 .. (n - 1) : events'[i] = events[i + 1]
  BY DEF TypeOK
<1> HIDE DEF n
<1>2. \A i \in DOMAIN events' : i + 1 \in DOMAIN events /\ events'[i] = events[i + 1]
  BY <1>1
<1>3. \A j \in DOMAIN events : j > 1 => j - 1 \in DOMAIN events' /\ events'[j - 1] = events[j]
  <2>1. ASSUME NEW j \in DOMAIN events, j > 1
        PROVE  j - 1 \in DOMAIN events' /\ events'[j - 1] = events[j]
    <3>1. j - 1 \in 1 .. (n - 1) /\ (j - 1) + 1 = j
      BY <1>1, <2>1
    <3> QED BY <1>1, <3>1
  <2> QED BY <2>1
<1>4. ASSUME NEW i \in Nat, NEW e, EndedAfter(i + 1, e) PROVE EndedAfter(i, e)'
  <2>1. PICK j \in DOMAIN events :
          /\ j > i + 1
          /\ \/ events[j].ev = "cleared"
             \/ events[j].ev \in {"removed", "updated"} /\ events[j].id = e
    BY <1>4 DEF EndedAfter
  <2>2. j > 1 /\ j - 1 > i
    BY <1>1, <2>1
  <2> QED BY <1>3, <2>1, <2>2 DEF EndedAfter
<1>5. ASSUME NEW e, EndedAfter(0, e) PROVE Ends(Head(events), e) \/ EndedAfter(0, e)'
  <2>1. PICK j \in DOMAIN events :
          \/ events[j].ev = "cleared"
          \/ events[j].ev \in {"removed", "updated"} /\ events[j].id = e
    BY <1>5 DEF EndedAfter
  <2>2. CASE j = 1
    BY <1>1, <2>1, <2>2 DEF Ends
  <2>3. CASE j # 1
    <3>1. j > 1 /\ j - 1 > 0
      BY <1>1, <2>3
    <3> QED BY <1>3, <2>1, <3>1 DEF EndedAfter
  <2> QED BY <2>2, <2>3
<1> QED BY <1>1, <1>2, <1>4, <1>5

(* An archive that changes leaves the list right. *)
LEMMA ChangeKeeps == IndInv /\ Change => IndInv'
<1> SUFFICES ASSUME IndInv, Change PROVE IndInv'
  OBVIOUS
<1> USE DEF wire, screen, list
<1>1. TypeOK' /\ UNCHANGED <<linked, screen, list>>
  <2>1. TypeOK'
    BY TypedNext DEF IndInv, Next
  <2>2. \E event \in Event : Tell(event)
    BY Changes DEF IndInv
  <2> QED BY <2>1, <2>2 DEF Tell
<1>2. CASE ~linked
  <2>1. events = << >> /\ events' = events
    <3>1. \E event \in Event : Tell(event)
      BY Changes DEF IndInv
    <3> QED BY <1>2, <3>1 DEF Tell, IndInv, Severed
  <2>2. Heralded'
    <3>1. DOMAIN events' = {}
      BY <2>1
    <3> QED BY <3>1 DEF Heralded
  <2> QED BY <1>1, <1>2, <2>1, <2>2
          DEF IndInv, TypeOK, Truthful, PageUnderWay, Severed, SameTab, Carried, Loading
<1>3. CASE linked
  <2>1. PICK event \in Event :
          /\ \A i \in DOMAIN events : i \in DOMAIN events' /\ events'[i] = events[i]
          /\ \A i \in DOMAIN events' :
               i \in DOMAIN events \/ (events'[i] = event /\ \A j \in DOMAIN events : j < i)
          /\ \A i \in Int : \A e : EndedAfter(i, e) => EndedAfter(i, e)'
          /\ \A i \in {0} \cup DOMAIN events : \A e, data, pinned :
               StandsFor(e, data, pinned) => \/ StandsFor(e, data, pinned)'
                                             \/ EndedAfter(i, e)'
          /\ event.ev = "added" => StandsFor(event.id, event.copy, event.pinned)'
    BY <1>3, ChangeSpares DEF IndInv
  <2>2. \A i \in DOMAIN events : i \in Int
    BY DEF IndInv, TypeOK
  <2>3. Truthful'
    BY <1>1, <2>1 DEF IndInv, Truthful
  <2>4. Heralded'
    <3>1. ASSUME NEW i \in DOMAIN events', NEW told, told = events'[i], told.ev = "added"
          PROVE  EndedAfter(i, told.id)' \/ StandsFor(told.id, told.copy, told.pinned)'
      <4>1. CASE i \in DOMAIN events
        <5>1. told = events[i] /\ i \in Int /\ i \in {0} \cup DOMAIN events
          BY <2>1, <2>2, <3>1, <4>1
        <5>2. EndedAfter(i, told.id) \/ StandsFor(told.id, told.copy, told.pinned)
          BY <3>1, <4>1, <5>1 DEF IndInv, Heralded
        <5> QED BY <2>1, <5>1, <5>2
      <4>2. CASE i \notin DOMAIN events
        <5>1. told = event
          BY <2>1, <3>1, <4>2
        <5> QED BY <2>1, <3>1, <5>1
      <4> QED BY <4>1, <4>2
    <3> QED BY <3>1 DEF Heralded
  <2>5. Carried'
    BY <1>1, <2>1 DEF IndInv, Carried, Loading
  <2> QED BY <1>1, <1>3, <2>3, <2>4, <2>5
          DEF IndInv, PageUnderWay, Severed, SameTab, Loading
<1> QED BY <1>2, <1>3

(* What a broadcast does to the list keeps it right. *)
LEMMA HearKeeps == IndInv /\ Hear => IndInv'
<1> SUFFICES ASSUME IndInv, Hear PROVE IndInv'
  OBVIOUS
<1> USE DEF wire, screen, list
<1> DEFINE event == events[1]
<1>1. /\ TypeOK /\ TypeOK' /\ linked /\ events # << >> /\ events' = Tail(events)
      /\ UNCHANGED <<shelf, linked, open, view, due>>
  BY TypedNext DEF IndInv, Next, Hear
<1>2. /\ Head(events) = event /\ 1 \in DOMAIN events
      /\ \A i \in DOMAIN events' : i + 1 \in DOMAIN events /\ events'[i] = events[i + 1]
      /\ \A i \in Nat : \A e : EndedAfter(i + 1, e) => EndedAfter(i, e)'
      /\ \A e : EndedAfter(0, e) => Ends(event, e) \/ EndedAfter(0, e)'
  BY <1>1, TailEnds
<1>3. event \in Event
  BY <1>1, <1>2 DEF TypeOK
<1>4. \A e, data, pinned : StandsFor(e, data, pinned) => StandsFor(e, data, pinned)'
  BY <1>1 DEF StandsFor, Held
<1>5. Severed'
  BY <1>1 DEF Severed
<1>6. Heralded'
  <2>1. ASSUME NEW i \in DOMAIN events', NEW told, told = events'[i], told.ev = "added"
        PROVE  EndedAfter(i, told.id)' \/ StandsFor(told.id, told.copy, told.pinned)'
    <3>1. i + 1 \in DOMAIN events /\ told = events[i + 1] /\ i \in Nat
      BY <1>1, <1>2, <2>1 DEF TypeOK
    <3>2. EndedAfter(i + 1, told.id) \/ StandsFor(told.id, told.copy, told.pinned)
      BY <2>1, <3>1 DEF IndInv, Heralded
    <3> QED BY <1>2, <1>4, <3>1, <3>2
  <2> QED BY <2>1 DEF Heralded
<1>7. CASE ~open /\ UNCHANGED list
  <2>1. Truthful' /\ SameTab' /\ Carried' /\ PageUnderWay'
    BY <1>1, <1>7 DEF IndInv, Truthful, SameTab, Carried, PageUnderWay, Loading
  <2> QED BY <1>1, <1>5, <1>6, <2>1 DEF IndInv
<1>8. CASE Refresh(view, TRUE)
  <2>1. view \in View /\ view' = view /\ TRUE \in BOOLEAN
    BY <1>1 DEF TypeOK
  <2>2. Truthful' /\ SameTab' /\ Carried' /\ PageUnderWay'
    BY <1>1, <1>8, <2>1, Refreshed
  <2> QED BY <1>1, <1>5, <1>6, <2>2 DEF IndInv
<1>9. CASE open /\ event.ev = "added" /\ Added(event)
  <2>1. \A e : ~Ends(event, e)
    BY <1>9 DEF Ends
  <2>2. UNCHANGED <<asked, stale, blank, ghosts>>
    BY <1>9 DEF Added
  <2>3. Truthful'
    <3>1. ASSUME NEW i \in DOMAIN rows, NEW r, r = rows[i]
          PROVE  \/ r.id \in ghosts' \/ EndedAfter(0, r.id)'
                 \/ StandsFor(r.id, r.copy, view.pinned)'
      BY <1>1, <1>2, <1>4, <1>9, <2>1, <2>2, <3>1 DEF IndInv, Truthful
    <3>2. CASE Belongs(event)
      <4> DEFINE row == [id |-> event.id, copy |-> event.copy]
                 n == Len(rows)
      <4>1. row \in Row /\ event.pinned = view.pinned /\ row.id = event.id /\ row.copy = event.copy
        BY <1>3, <1>9, <3>2 DEF Event, Row, Belongs
      <4>2. /\ DOMAIN rows' = 1 .. (n + 1) /\ n \in Nat /\ DOMAIN rows = 1 .. n
            /\ rows'[1] = row /\ \A i \in 1 .. n : rows'[i + 1] = rows[i]
        <5>1. rows' = <<row>> \o rows
          BY <1>9, <3>2 DEF Added
        <5>2. <<row>> \in Seq(Row) /\ rows \in Seq(Row)
          BY <1>1, <4>1 DEF TypeOK
        <5> HIDE DEF row
        <5> QED BY <5>1, <5>2
      <4>3. PICK r : /\ r = row
                     /\ EndedAfter(0, r.id)' \/ StandsFor(r.id, r.copy, view.pinned)'
        <5>1. EndedAfter(1, event.id) \/ StandsFor(event.id, event.copy, event.pinned)
          BY <1>2, <1>9 DEF IndInv, Heralded
        <5>2. ASSUME NEW e, EndedAfter(1, e) PROVE EndedAfter(0, e)'
          <6>1. 0 + 1 = 1 /\ 0 \in Nat
            OBVIOUS
          <6> QED BY <1>2, <5>2, <6>1
        <5> QED BY <1>1, <1>4, <4>1, <5>1, <5>2
      <4> HIDE DEF row
      <4>4. ASSUME NEW i \in DOMAIN rows', i # 1
            PROVE  i - 1 \in DOMAIN rows /\ rows'[i] = rows[i - 1]
        <5>1. i - 1 \in 1 .. n /\ (i - 1) + 1 = i
          BY <4>2, <4>4
        <5> QED BY <4>2, <5>1
      <4>5. \A i \in DOMAIN rows' : rows'[i] = row \/ \E j \in DOMAIN rows : rows'[i] = rows[j]
        BY <4>2, <4>4
      <4> QED BY <1>1, <3>1, <4>3, <4>5 DEF Truthful
    <3>3. CASE ~Belongs(event)
      <4>1. rows' = rows
        BY <1>9, <3>3 DEF Added
      <4> QED BY <1>1, <3>1, <4>1 DEF Truthful
    <3> QED BY <3>2, <3>3
  <2>4. Carried'
    BY <1>1, <1>2, <1>4, <2>1, <2>2 DEF IndInv, Carried, Loading
  <2>5. SameTab' /\ PageUnderWay'
    BY <1>1, <2>2 DEF IndInv, SameTab, PageUnderWay, Loading
  <2> QED BY <1>1, <1>5, <1>6, <2>3, <2>4, <2>5 DEF IndInv
<1>10. ASSUME open, event.ev \in {"updated", "removed"}, Misses(event.id),
              UNCHANGED <<stale, blank>>
       PROVE  Carried' /\ SameTab' /\ PageUnderWay'
  <2>1. event.id \in Ids
    BY <1>3, <1>10 DEF Event
  <2>2. /\ Loading' <=> Loading
        /\ Loading => /\ asked'.items = asked.items /\ asked'.view = asked.view
                      /\ asked'.read = asked.read
                      /\ asked'.missed = IF asked.read THEN asked.missed \cup {event.id}
                                         ELSE asked.missed
    BY <1>1, <1>10, <2>1, MissesTyped
  <2>3. \A e : Ends(event, e) => e = event.id
    BY <1>10 DEF Ends
  <2>4. Carried'
    <3>1. ASSUME Loading', ~stale', asked'.read, NEW i \in DOMAIN asked'.items,
                 NEW r, r = asked'.items[i]
          PROVE  \/ r.id \in asked'.missed \/ EndedAfter(0, r.id)'
                 \/ StandsFor(r.id, r.copy, view.pinned)'
      <4>1. /\ Loading /\ ~stale /\ asked.read /\ i \in DOMAIN asked.items
            /\ r = asked.items[i] /\ asked'.missed = asked.missed \cup {event.id}
        BY <1>10, <2>2, <3>1
      <4>2. \/ r.id \in asked.missed \/ EndedAfter(0, r.id)
            \/ StandsFor(r.id, r.copy, view.pinned)
        BY <1>10, <4>1 DEF IndInv, Carried
      <4>3. EndedAfter(0, r.id) => r.id = event.id \/ EndedAfter(0, r.id)'
        BY <1>2, <2>3
      <4>4. view'.pinned = view.pinned
        BY <1>1
      <4> QED BY <1>4, <4>1, <4>2, <4>3, <4>4
    <3> QED BY <3>1 DEF Carried
  <2>5. SameTab' /\ PageUnderWay'
    BY <1>1, <1>10, <2>2 DEF IndInv, SameTab, PageUnderWay
  <2> QED BY <2>4, <2>5
<1>11. CASE /\ open /\ event.ev = "updated" /\ Misses(event.id) /\ event.id \notin Shown(rows)
            /\ UNCHANGED <<rows, oldest, exhausted, stale, blank, ghosts, lost>>
  <2>1. \A i \in DOMAIN rows : ~Ends(event, rows[i].id)
    BY <1>11 DEF Ends, Shown
  <2>2. Truthful'
    BY <1>1, <1>2, <1>4, <1>11, <2>1 DEF IndInv, Truthful
  <2> QED BY <1>1, <1>5, <1>6, <1>10, <1>11, <2>2 DEF IndInv
<1>12. CASE open /\ event.ev = "removed" /\ Removed(event)
  <2>1. /\ Misses(event.id) /\ ghosts' = ghosts \ {event.id}
        /\ UNCHANGED <<oldest, exhausted, stale, blank, lost>>
    BY <1>12 DEF Removed
  <2>2. \A i \in DOMAIN rows' :
          rows'[i].id # event.id /\ \E j \in DOMAIN rows : rows'[i] = rows[j]
    <3>1. CASE event.id \in Shown(rows)
      <4>1. PICK i \in DOMAIN rows : rows[i].id = event.id /\ rows' = Seqs!RemoveAt(rows, i)
        BY <1>12, <3>1 DEF Removed
      <4>2. rows \in Seq(Row) /\ OneRowEach(rows)
        BY <1>1 DEF TypeOK
      <4>3. \A j \in DOMAIN rows' : \E k \in DOMAIN rows : k # i /\ rows'[j] = rows[k]
        BY <4>1, <4>2, Shortened
      <4> QED BY <4>1, <4>2, <4>3 DEF OneRowEach
    <3>2. CASE event.id \notin Shown(rows)
      BY <1>12, <3>2 DEF Removed, Shown
    <3> QED BY <3>1, <3>2
  <2>3. \A e : Ends(event, e) => e = event.id
    BY <1>12 DEF Ends
  <2>4. Truthful'
    BY <1>1, <1>2, <1>4, <1>12, <2>1, <2>2, <2>3 DEF IndInv, Truthful
  <2> QED BY <1>1, <1>5, <1>6, <1>10, <1>12, <2>1, <2>4 DEF IndInv
<1>13. \/ ~open /\ UNCHANGED list
       \/ open /\ event.ev = "added" /\ Added(event)
       \/ open /\ event.ev = "updated" /\ Updated(event)
       \/ open /\ event.ev = "removed" /\ Removed(event)
       \/ Refresh(view, TRUE)
  BY <1>2 DEF Hear
<1> QED BY <1>7, <1>8, <1>9, <1>11, <1>12, <1>13 DEF Updated

(* Nothing said about the events changes while they and the archive stay.  *)
LEMMA Unmoved ==
  ASSUME UNCHANGED <<shelf, events>>
  PROVE  /\ Heralded => Heralded'
         /\ \A i, e : EndedAfter(i, e) => EndedAfter(i, e)'
         /\ \A e, data, pinned : StandsFor(e, data, pinned) => StandsFor(e, data, pinned)'
BY DEF Heralded, EndedAfter, StandsFor, Held

(* What the user, the loads and the connection do keeps it right. *)
LEMMA StepKeeps == IndInv /\ [Next]_vars => IndInv'
<1> SUFFICES ASSUME IndInv, [Next]_vars PROVE IndInv'
  OBVIOUS
<1> USE DEF wire, screen, list
<1>1. TypeOK /\ TypeOK'
  BY TypedNext DEF IndInv
<1>2. ASSUME NEW v \in View, NEW connected \in BOOLEAN, Refresh(v, connected), view' = v,
             UNCHANGED <<shelf, events>>, linked' \/ UNCHANGED linked
      PROVE  IndInv'
  <2>1. Truthful' /\ SameTab' /\ Carried' /\ PageUnderWay'
    BY <1>1, <1>2, Refreshed
  <2>2. Severed'
    BY <1>2 DEF IndInv, Severed
  <2> QED BY <1>1, <1>2, <2>1, <2>2, Unmoved DEF IndInv
<1>3. linked \in BOOLEAN /\ TRUE \in BOOLEAN /\ view \in View
  BY <1>1 DEF TypeOK
<1>4. CASE Open
  BY <1>2, <1>3, <1>4 DEF Open
<1>5. CASE Close
  <2>1. UNCHANGED <<shelf, events, linked, list>> /\ open' = FALSE
    BY <1>5 DEF Close
  <2> QED BY <1>1, <2>1, Unmoved
          DEF IndInv, Truthful, Severed, SameTab, Carried, PageUnderWay, Loading
<1>6. CASE Type
  <2>1. UNCHANGED <<shelf, events, linked, open, list>> /\ view'.pinned = view.pinned
    BY <1>3, <1>6 DEF Type, View
  <2> QED BY <1>1, <2>1, Unmoved
          DEF IndInv, Truthful, Severed, SameTab, Carried, PageUnderWay, Loading, StandsFor, Held
<1>7. CASE LoadMore
  <2>1. /\ asked' = Request(view, oldest)
        /\ UNCHANGED <<shelf, events, linked, open, view, rows, ghosts, stale, blank>>
    BY <1>7 DEF LoadMore
  <2>2. asked' # None /\ asked'.view = view /\ asked'.read = FALSE
    BY <1>1, <2>1, Requested DEF TypeOK
  <2> QED BY <1>1, <2>1, <2>2, Unmoved
          DEF IndInv, Truthful, Severed, SameTab, Carried, PageUnderWay, Loading
<1>8. ASSUME NEW v \in View, Choose(v) PROVE IndInv'
  BY <1>2, <1>3, <1>8 DEF Choose
<1>9. CASE Serve
  <2>1. /\ Loading
        /\ UNCHANGED <<shelf, events, linked, open, view, rows, ghosts, stale, blank>>
    BY <1>9 DEF Serve
  <2>2. /\ asked' \in Load /\ asked'.view = asked.view
        /\ \A i \in DOMAIN asked'.items :
             /\ asked'.items[i].id \in Held
             /\ shelf[asked'.items[i].id].copy = asked'.items[i].copy
             /\ shelf[asked'.items[i].id].pinned = asked.view.pinned
    BY <1>1, <1>9, ServeReads
  <2>3. Loading' /\ SameTab' /\ PageUnderWay'
    BY <2>1, <2>2, PickerAssumption DEF IndInv, SameTab, PageUnderWay, Loading
  <2>4. Carried'
    <3>1. ASSUME open', ~stale', NEW i \in DOMAIN asked'.items, NEW r, r = asked'.items[i]
          PROVE  StandsFor(r.id, r.copy, view.pinned)'
      <4>1. asked.view.pinned = view.pinned
        BY <2>1, <3>1 DEF IndInv, SameTab
      <4>2. StandsFor(r.id, r.copy, view.pinned)
        BY <2>2, <3>1, <4>1 DEF StandsFor
      <4> QED BY <2>1, <4>2, Unmoved
    <3> QED BY <3>1 DEF Carried
  <2> QED BY <1>1, <2>1, <2>3, <2>4, Unmoved DEF IndInv, Truthful, Severed
<1>10. CASE Arrive
  <2>1. /\ Loading /\ asked.read /\ Settle
        /\ UNCHANGED <<shelf, events, linked, open, view>>
    BY <1>10 DEF Arrive
  <2>2. (Loading' <=> stale) /\ (Loading' => asked'.view = view /\ asked'.read = FALSE)
    BY <1>1, <2>1, SettleTyped
  <2>3. SameTab' /\ Carried' /\ Severed'
    BY <2>1, <2>2 DEF IndInv, SameTab, Carried, Severed
  <2>4. Truthful'
    <3>1. ASSUME open', linked', NEW i \in DOMAIN rows', NEW r, r = rows'[i]
          PROVE  \/ r.id \in ghosts' \/ EndedAfter(0, r.id)'
                 \/ StandsFor(r.id, r.copy, view.pinned)'
      <4>1. open /\ linked
        BY <2>1, <3>1
      <4>2. CASE /\ ghosts \subseteq ghosts'
                 /\ \E j \in DOMAIN rows : r = rows[j]
        BY <2>1, <4>1, <4>2, Unmoved DEF IndInv, Truthful
      <4>3. CASE /\ Current /\ \E j \in DOMAIN asked.items : r = asked.items[j]
                 /\ r.id \in asked.missed => r.id \in ghosts'
        BY <2>1, <4>1, <4>3, Unmoved DEF IndInv, Carried, Current
      <4>4. CASE Current
        <5>1. Land
          BY <1>10, <4>4 DEF Arrive
        <5> QED BY <1>1, <2>1, <3>1, <4>2, <4>3, <4>4, <5>1, LandAdds
      <4>5. CASE ~Current
        BY <1>10, <3>1, <4>2, <4>5 DEF Arrive
      <4> QED BY <4>4, <4>5
    <3> QED BY <3>1 DEF Truthful
  <2>5. PageUnderWay'
    <3>1. CASE Current
      <4>1. Land
        BY <1>10, <3>1 DEF Arrive
      <4> QED BY <4>1 DEF Land, PageUnderWay
    <3>2. CASE ~Current
      BY <2>2, <3>2 DEF Current, PageUnderWay
    <3> QED BY <3>1, <3>2
  <2> QED BY <1>1, <2>1, <2>3, <2>4, <2>5, Unmoved DEF IndInv
<1>11. CASE Refused
  <2>1. /\ Settle /\ blank' = stale
        /\ UNCHANGED <<shelf, events, linked, open, view, rows, ghosts>>
    BY <1>11 DEF Refused
  <2>2. (Loading' <=> stale) /\ (Loading' => asked'.view = view /\ asked'.read = FALSE)
    BY <1>1, <2>1, SettleTyped
  <2> QED BY <1>1, <2>1, <2>2, Unmoved
          DEF IndInv, Truthful, Severed, SameTab, Carried, PageUnderWay
<1>12. CASE Search
  BY <1>2, <1>3, <1>12 DEF Search
<1>13. CASE Disconnect
  <2>1. /\ events' = << >> /\ linked' = FALSE /\ asked' = None /\ blank' = FALSE
        /\ DOMAIN events' = {}
    BY <1>13 DEF Disconnect
  <2> QED BY <1>1, <2>1
          DEF IndInv, Truthful, Severed, Heralded, SameTab, Carried, PageUnderWay, Loading
<1>14. CASE Connect
  <2>1. linked' = TRUE /\ UNCHANGED <<shelf, events, open, view>>
    BY <1>14 DEF Connect
  <2>2. CASE open
    BY <1>2, <1>3, <1>14, <2>1, <2>2 DEF Connect
  <2>3. CASE ~open
    <3>1. UNCHANGED list
      BY <1>14, <2>3 DEF Connect
    <3> QED BY <1>1, <2>1, <2>3, <3>1, Unmoved
            DEF IndInv, Truthful, Severed, SameTab, Carried, PageUnderWay, Loading
  <2> QED BY <2>2, <2>3
<1>15. CASE UNCHANGED vars
  <2>1. UNCHANGED <<shelf, events, linked, open, view, list>>
    BY <1>15 DEF vars
  <2> QED BY <1>1, <2>1, Unmoved
          DEF IndInv, Truthful, Severed, SameTab, Carried, PageUnderWay, Loading
<1> QED BY <1>4, <1>5, <1>6, <1>7, <1>8, <1>9, <1>10, <1>11, <1>12, <1>13, <1>14, <1>15,
           ChangeKeeps, HearKeeps DEF Next, User

-----------------------------------------------------------------------------
(* The theorems. *)

(* The start is typed. *)
LEMMA InitTyped == Init => TypeOK
<1> SUFFICES ASSUME Init PROVE TypeOK
  OBVIOUS
<1>1. view \in View
  BY DEF Init, Recent, View
<1>2. events \in Seq(Event) /\ Len(events) <= MaxEvents
  BY PickerAssumption DEF Init
<1>3. rows \in Seq(Row) /\ OneRowEach(rows)
  BY DEF Init, OneRowEach
<1> QED BY <1>1, <1>2, <1>3 DEF Init, TypeOK, Loading

(* The archive, the broadcasts, the screen and the list keep their types,  *)
(* and no id has two rows however pages and broadcasts interleave.         *)
THEOREM PickerTyped == Spec => []TypeOK
<1>1. Init => TypeOK
  BY InitTyped
<1> QED BY <1>1, TypedNext, PTL DEF Spec

(* The invariant holds, whatever the interleaving. *)
LEMMA PickerInvariant == Spec => []IndInv
<1>1. Init => IndInv
  <2> SUFFICES ASSUME Init PROVE IndInv
    OBVIOUS
  <2>1. TypeOK
    BY InitTyped
  <2> QED BY <2>1
          DEF Init, IndInv, Truthful, PageUnderWay, Severed, Heralded, SameTab, Carried, Loading
<1> QED BY <1>1, StepKeeps, PTL DEF Spec

(* A row stands for the entry it shows, on the tab that is shown, unless   *)
(* the event that ends it is on its way or it came after that event.       *)
THEOREM RowsStandForTheirEntries == Spec => []RowsTrue
<1>1. IndInv => RowsTrue
  <2> SUFFICES ASSUME IndInv, open, linked, NEW i \in DOMAIN rows
               PROVE  \/ rows[i].id \in ghosts
                      \/ Doomed(rows[i])
                      \/ /\ rows[i].id \in Held
                         /\ shelf[rows[i].id].copy = rows[i].copy
                         /\ shelf[rows[i].id].pinned = view.pinned
    BY DEF RowsTrue
  <2> QED BY DEF IndInv, Truthful, EndedAfter, StandsFor, Doomed
<1> QED BY <1>1, PickerInvariant, PTL

(* A list that waits for its first page has a request under way. *)
THEOREM NoRefreshIsLost == Spec => []PageUnderWay
<1>1. IndInv => PageUnderWay
  BY DEF IndInv
<1> QED BY <1>1, PickerInvariant, PTL

-----------------------------------------------------------------------------
(* The list is right. *)

(* What renews the list of a tab comes after event i, *)
Renewed(i, pinned) ==
  \E j \in DOMAIN events :
    /\ j > i
    /\ \/ events[j].ev = "cleared"
       \/ events[j].ev = "updated" /\ events[j].pinned = pinned

(* or entry e is announced there, as it is now. *)
Announced(i, e) ==
  \E j \in DOMAIN events :
    /\ j > i
    /\ events[j].ev = "added" /\ events[j].id = e
    /\ StandsFor(e, events[j].copy, events[j].pinned)

ToCome(i, e) == Announced(i, e) \/ Renewed(i, shelf[e].pinned)

(* An id that is told to be removed and is held again is told of again.    *)
Returned ==
  \A i \in DOMAIN events :
    events[i].ev = "removed" /\ events[i].id \in Held => ToCome(i, events[i].id)

(* Whatever is not beneath an entry that is told to be added is told of    *)
(* after it.                                                               *)
Topmost ==
  \A i \in DOMAIN events :
    events[i].ev = "added" /\ StandsFor(events[i].id, events[i].copy, events[i].pinned) =>
      \A e \in Held \ {events[i].id} :
        shelf[e].pinned = events[i].pinned =>
          Behind(Key(e), Key(events[i].id)) \/ ToCome(i, e)

OfKind(r, kind) == \A i \in DOMAIN r : kind = None \/ Kind[r[i].copy] = kind

(* The list has the kind that was chosen, and the page that will land was  *)
(* asked for this list and its end.                                        *)
Fitting ==
  /\ OfKind(rows, view.kind)
  /\ Loading /\ ~stale =>
       /\ OfKind(asked.items, view.kind) /\ asked.view.kind = view.kind
       /\ asked.before = oldest
       /\ open => due \/ asked.view.query = view.query

(* Entry e is on the list or will be; it comes after what row r stands for. *)
OnList(e) == e \in Shown(rows) \/ ToCome(0, e)
Beneath(e, r) == StandsFor(r.id, r.copy, view.pinned) => Behind(Key(e), Key(r.id))

(* A list that no query cuts, and no cursor that was gone.                 *)
Plain == open /\ linked /\ ~view.query /\ ~due /\ ~lost

(* What belongs on the list and is not on it comes after everything that   *)
(* is, and after the cursor.                                               *)
Divided ==
  Plain =>
    \A e \in Matches(view) :
      \/ OnList(e)
      \/ /\ ~exhausted
         /\ \A i \in DOMAIN rows : Beneath(e, rows[i])
         /\ oldest # None => Beneath(e, oldest)

(* It comes after the page that was read as well, or is on that page.      *)
PageDivided ==
  Plain /\ Loading /\ ~stale /\ asked.read =>
    \A e \in Matches(view) :
      \/ OnList(e)
      \/ e \in Shown(asked.items)
      \/ asked.more /\ \A i \in DOMAIN asked.items : Beneath(e, asked.items[i])

ListInv == Returned /\ Topmost /\ Fitting /\ Divided /\ PageDivided

(* Two entries of one tab are ordered by time, and by id at one time.      *)
LEMMA SameTabBehind ==
  ASSUME NEW p \in Int, NEW s, NEW t, NEW e, NEW o
  PROVE  Behind(<<p, s, e>>, <<p, t, o>>) <=> s < t \/ (s = t /\ e < o)
BY DEF Behind

(* Entry e is held as it was.                                              *)
Stays(e) == e \in Held /\ e \in Held' /\ shelf'[e] = shelf[e]

LEMMA StaysBehind ==
  ASSUME NEW e, NEW o, Stays(e), Stays(o), Behind(Key(e), Key(o))
  PROVE  Behind(Key(e), Key(o))'
BY DEF Stays, Key

(* It does, and before and after it comes after the same entries, and      *)
(* after what is added.                                                    *)
Unshaken(e) ==
  /\ Stays(e)
  /\ \A o \in Held' : shelf'[o].pinned = shelf'[e].pinned => Stays(o) \/ Behind(Key(e), Key(o))'

(* An entry is shaken only by a change that tells of it. *)
Accounted(event, e) ==
  \/ event.ev = "cleared"
  \/ event.ev = "updated" /\ event.pinned = shelf'[e].pinned
  \/ /\ event.ev = "added" /\ event.id = e
     /\ shelf'[e].copy = event.copy /\ shelf'[e].pinned = event.pinned
  \/ Unshaken(e)

(* Every change accounts for every entry in the one event it tells. *)
LEMMA ChangeTells ==
  ASSUME TypeOK, Change
  PROVE  \E event \in Event :
           /\ Tell(event)
           /\ event.ev = "removed" => event.id \notin Held'
           /\ event.ev = "added" =>
                \A e \in Held' \ {event.id} :
                  shelf'[e].pinned = event.pinned => Behind(Key(e), Key(event.id))'
           /\ \A e \in Held' : Accounted(event, e)
<1>1. shelf \in [Ids -> Entry \cup {Absent}] /\ Absent \notin Entry
  BY PickerAssumption DEF TypeOK
<1>2. \A e \in Held : e \in Ids /\ shelf[e] \in Entry
  BY <1>1 DEF Held
<1>3. ASSUME NEW data \in Copies, Record(data)
      PROVE  \E event \in Event :
               /\ Tell(event) /\ event.ev # "removed"
               /\ event.ev = "added" =>
                    \A e \in Held' \ {event.id} :
                      shelf'[e].pinned = event.pinned => Behind(Key(e), Key(event.id))'
               /\ \A e \in Held' : Accounted(event, e)
  <2>1. PICK x \in Ids \ Held, second \in Seconds :
          /\ \A o \in Held : o < x
          /\ shelf' = [shelf EXCEPT ![x] = [copy |-> data, pinned |-> FALSE, at |-> second]]
          /\ Tell(Summary("added", x))
    BY <1>3 DEF Record
  <2> DEFINE event == Summary("added", x)
  <2>2. /\ shelf'[x] = [copy |-> data, pinned |-> FALSE, at |-> second] /\ x \in Held'
        /\ [copy |-> data, pinned |-> FALSE, at |-> second] \in Entry
    <3>1. [copy |-> data, pinned |-> FALSE, at |-> second] \in Entry
      BY DEF Entry, Seconds
    <3> QED BY <1>1, <2>1, <3>1 DEF Held
  <2>3. shelf'[x].copy \in Copies /\ shelf'[x].pinned \in BOOLEAN
    BY <2>2 DEF Entry
  <2>4. /\ event \in Event /\ event.ev = "added" /\ event.id = x
        /\ event.copy = shelf'[x].copy /\ event.pinned = shelf'[x].pinned
    BY <2>3 DEF Event, Summary
  <2> HIDE DEF event
  <2>5. ASSUME NEW e \in Held', e # x PROVE Stays(e)
    BY <1>1, <2>1, <2>5 DEF Held, Stays
  <2>6. ASSUME NEW e \in Held', e # x, shelf'[e].pinned = FALSE
        PROVE  Behind(Key(e), Key(x))'
    <3>1. e \in Held /\ shelf'[e] = shelf[e]
      BY <2>5, <2>6 DEF Stays
    <3>2. shelf[e].at <= second /\ e < x /\ shelf[e].at \in Int /\ second \in Int /\ e \in Int /\ x \in Int
      BY <1>2, <2>1, <3>1 DEF Seconds, Entry, Ids
    <3>3. Key(e)' = <<0, shelf[e].at, e>> /\ Key(x)' = <<0, second, x>>
      BY <2>2, <2>6, <3>1 DEF Key
    <3>4. Behind(<<0, shelf[e].at, e>>, <<0, second, x>>)
      BY <3>2, SameTabBehind
    <3> QED BY <3>3, <3>4 DEF Behind
  <2>7. ASSUME NEW e \in Held' PROVE Accounted(event, e)
    <3>1. CASE e = x
      BY <2>4, <3>1 DEF Accounted, Unshaken
    <3>2. CASE e # x
      <4>1. Stays(e)
        BY <2>5, <3>2
      <4>2. ASSUME NEW o \in Held', shelf'[o].pinned = shelf'[e].pinned
            PROVE  Stays(o) \/ Behind(Key(e), Key(o))'
        <5>1. CASE o # x
          BY <2>5, <5>1
        <5>2. CASE o = x
          <6>1. shelf'[e].pinned = FALSE
            BY <2>2, <4>2, <5>2
          <6> QED BY <2>6, <3>2, <5>2, <6>1
        <5> QED BY <5>1, <5>2
      <4> QED BY <4>1, <4>2 DEF Accounted, Unshaken
    <3> QED BY <3>1, <3>2
  <2>8. PICK told \in Event : told = event
    BY <2>4
  <2>9. Tell(told) /\ told.ev # "removed" /\ told.id = x /\ told.pinned = FALSE
    <3>1. Tell(event)
      BY <2>1 DEF event
    <3>2. Tell(told)
      BY <2>8, <3>1
    <3>3. shelf'[x].pinned = FALSE
      BY <2>2
    <3> QED BY <2>4, <2>8, <3>2, <3>3
  <2>10. \A e \in Held' \ {told.id} :
           shelf'[e].pinned = told.pinned => Behind(Key(e), Key(told.id))'
    BY <2>6, <2>9
  <2> QED BY <2>7, <2>8, <2>9, <2>10
<1>4. ASSUME NEW x \in Ids, Touch(x) \/ \E pinned \in BOOLEAN : SetPinned(x, pinned)
      PROVE  \E event \in Event :
               Tell(event) /\ event.ev = "updated" /\ \A e \in Held' : Accounted(event, e)
  <2> DEFINE event == Summary("updated", x)
  <2>1. /\ x \in Held /\ Tell(event)
        /\ \A e \in Ids : e # x => shelf'[e] = shelf[e]
    <3>1. CASE Touch(x)
      BY <1>1, <3>1 DEF Touch
    <3>2. CASE \E pinned \in BOOLEAN : SetPinned(x, pinned)
      BY <1>1, <3>2 DEF SetPinned
    <3> QED BY <1>4, <3>1, <3>2
  <2>2. shelf'[x].copy \in Copies /\ shelf'[x].pinned \in BOOLEAN
    <3>1. CASE Touch(x)
      <4>1. PICK second \in Seconds : shelf' = [shelf EXCEPT ![x].at = second]
        BY <3>1 DEF Touch
      <4>2. shelf'[x] = [shelf[x] EXCEPT !.at = second]
        BY <1>1, <4>1
      <4> QED BY <1>2, <2>1, <4>2 DEF Entry
    <3>2. ASSUME NEW pinned \in BOOLEAN, SetPinned(x, pinned)
          PROVE  shelf'[x].copy \in Copies /\ shelf'[x].pinned \in BOOLEAN
      <4>1. shelf'[x] = [shelf[x] EXCEPT !.pinned = pinned]
        BY <1>1, <3>2 DEF SetPinned
      <4> QED BY <1>2, <2>1, <4>1 DEF Entry
    <3> QED BY <1>4, <3>1, <3>2
  <2>3. event \in Event /\ event.ev = "updated" /\ event.pinned = shelf'[x].pinned
    BY <2>2 DEF Event, Summary
  <2> HIDE DEF event
  <2>4. ASSUME NEW e \in Held', shelf'[e].pinned # event.pinned PROVE Accounted(event, e)
    <3>1. \A o \in Held' : shelf'[o].pinned = shelf'[e].pinned => Stays(o)
      BY <2>1, <2>3, <2>4 DEF Held, Stays
    <3> QED BY <3>1 DEF Accounted, Unshaken
  <2>5. ASSUME NEW e \in Held' PROVE Accounted(event, e)
    BY <2>3, <2>4 DEF Accounted, Unshaken
  <2> QED BY <2>1, <2>3, <2>5
<1>5. ASSUME NEW x \in Ids, Remove(x)
      PROVE  \E event \in Event :
               /\ Tell(event) /\ event.ev = "removed" /\ event.id \notin Held'
               /\ \A e \in Held' : Accounted(event, e)
  <2> DEFINE event == [ev |-> "removed", id |-> x]
  <2>1. event \in Event /\ event.ev = "removed" /\ event.id = x
    BY DEF Event
  <2>2. shelf' = [shelf EXCEPT ![x] = Absent] /\ Tell(event)
    BY <1>5 DEF Remove
  <2> HIDE DEF event
  <2>3. x \notin Held' /\ \A e \in Held' : Stays(e)
    BY <1>1, <2>2 DEF Held, Stays
  <2> QED BY <2>1, <2>2, <2>3 DEF Accounted, Unshaken
<1>6. ASSUME Clear
      PROVE  \E event \in Event : Tell(event) /\ event.ev = "cleared"
  BY <1>6 DEF Event, Clear
<1>7. \/ \E data \in Copies : Record(data)
      \/ \E e \in Ids : Touch(e) \/ Remove(e) \/ \E pinned \in BOOLEAN : SetPinned(e, pinned)
      \/ Clear
  BY DEF Change
<1>8. CASE Clear
  BY <1>6, <1>8 DEF Accounted, Unshaken
<1> QED BY <1>3, <1>4, <1>5, <1>7, <1>8

(* Over a connection, what a change does to an entry is told behind all    *)
(* that was told before, and what was to come still is.                    *)
LEMMA ChangeAhead ==
  ASSUME TypeOK, linked, Change
  PROVE  \E event \in Event :
           /\ \A i \in DOMAIN events : i \in DOMAIN events' /\ events'[i] = events[i]
           /\ \A i \in DOMAIN events' : i \in DOMAIN events \/ events'[i] = event
           /\ event.ev = "removed" => event.id \notin Held'
           /\ event.ev = "added" =>
                \A e \in Held' \ {event.id} :
                  shelf'[e].pinned = event.pinned => Behind(Key(e), Key(event.id))'
           /\ \A i \in {0} \cup DOMAIN events : \A e \in Held' :
                /\ ToCome(i, e)' \/ Unshaken(e)
                /\ ToCome(i, e) => ToCome(i, e)'
           /\ UNCHANGED <<linked, screen, list>>
<1>1. PICK event \in Event :
        /\ Tell(event)
        /\ event.ev = "removed" => event.id \notin Held'
        /\ event.ev = "added" =>
             \A e \in Held' \ {event.id} :
               shelf'[e].pinned = event.pinned => Behind(Key(e), Key(event.id))'
        /\ \A e \in Held' : Accounted(event, e)
  BY ChangeTells
<1> DEFINE n == Len(events)
<1>2. /\ n \in Nat /\ DOMAIN events = 1 .. n /\ DOMAIN events' = 1 .. (n + 1)
      /\ events'[n + 1] = event /\ \A i \in 1 .. n : events'[i] = events[i]
  <2>1. events' = Append(events, event) /\ events \in Seq(Event)
    BY <1>1 DEF Tell, TypeOK
  <2> QED BY <2>1
<1> HIDE DEF n
<1>3. \A i \in DOMAIN events : i \in DOMAIN events' /\ events'[i] = events[i]
  BY <1>2
<1>4. \A i \in DOMAIN events' : i \in DOMAIN events \/ events'[i] = event
  BY <1>2
<1>5. ASSUME NEW i \in {0} \cup DOMAIN events, NEW e \in Held' PROVE ToCome(i, e)' \/ Unshaken(e)
  <2>1. Accounted(event, e)
    BY <1>1
  <2>2. n + 1 \in DOMAIN events' /\ n + 1 > i /\ events'[n + 1] = event
    BY <1>2
  <2>3. CASE event.ev = "cleared" \/ (event.ev = "updated" /\ event.pinned = shelf'[e].pinned)
    BY <2>2, <2>3 DEF ToCome, Renewed
  <2>4. CASE /\ event.ev = "added" /\ event.id = e
             /\ shelf'[e].copy = event.copy /\ shelf'[e].pinned = event.pinned
    <3>1. Announced(i, e)'
      BY <2>2, <2>4 DEF Announced, StandsFor
    <3> QED BY <3>1 DEF ToCome
  <2> QED BY <2>1, <2>3, <2>4 DEF Accounted, Unshaken
<1>6. ASSUME NEW i \in {0} \cup DOMAIN events, NEW e \in Held', ToCome(i, e) PROVE ToCome(i, e)'
  <2>1. CASE Stays(e)
    <3>1. CASE Renewed(i, shelf[e].pinned)
      <4>1. shelf'[e].pinned = shelf[e].pinned
        BY <2>1 DEF Stays
      <4> QED BY <1>3, <3>1, <4>1 DEF ToCome, Renewed
    <3>2. CASE Announced(i, e)
      <4>1. Announced(i, e)'
        BY <1>3, <2>1, <3>2 DEF Announced, StandsFor, Stays
      <4> QED BY <4>1 DEF ToCome
    <3> QED BY <1>6, <3>1, <3>2 DEF ToCome
  <2>2. CASE ~Stays(e)
    BY <1>5, <2>2 DEF Unshaken
  <2> QED BY <2>1, <2>2
<1> QED BY <1>1, <1>3, <1>4, <1>5, <1>6 DEF Tell

(* An entry that comes after another's row still does, or is told of. *)
LEMMA StaysBeneath ==
  ASSUME NEW e \in Held', Unshaken(e), shelf[e].pinned = view.pinned, UNCHANGED view,
         NEW r, Beneath(e, r)
  PROVE  Beneath(e, r)'
<1> SUFFICES ASSUME StandsFor(r.id, r.copy, view.pinned)' PROVE Behind(Key(e), Key(r.id))'
  BY DEF Beneath
<1>1. r.id \in Held' /\ shelf'[r.id].pinned = view.pinned /\ shelf'[r.id].copy = r.copy
  BY DEF StandsFor
<1>2. shelf'[e].pinned = view.pinned
  BY DEF Unshaken, Stays
<1>3. CASE Stays(r.id)
  <2>1. Behind(Key(e), Key(r.id))
    BY <1>1, <1>3 DEF Beneath, StandsFor, Stays
  <2> QED BY <1>3, <2>1, StaysBehind DEF Unshaken
<1> QED BY <1>1, <1>2, <1>3 DEF Unshaken

(* A change of the archive keeps the list divided. *)
LEMMA ChangeDivides == TypeOK /\ Severed /\ ListInv /\ Change => ListInv'
<1> SUFFICES ASSUME TypeOK, Severed, ListInv, Change PROVE ListInv'
  OBVIOUS
<1> USE DEF wire, screen, list
<1>1. CASE ~linked
  <2>1. events = << >> /\ events' = events /\ UNCHANGED <<linked, screen, list>>
    <3>1. \E event \in Event : Tell(event)
      BY Changes
    <3> QED BY <1>1, <3>1 DEF Tell, Severed
  <2>2. DOMAIN events' = {}
    BY <2>1
  <2> QED BY <1>1, <2>1, <2>2
          DEF ListInv, Returned, Topmost, Fitting, Divided, PageDivided, Plain, OfKind, Loading
<1>2. CASE linked
  <2>1. PICK event \in Event :
           /\ \A i \in DOMAIN events : i \in DOMAIN events' /\ events'[i] = events[i]
           /\ \A i \in DOMAIN events' : i \in DOMAIN events \/ events'[i] = event
           /\ event.ev = "removed" => event.id \notin Held'
           /\ event.ev = "added" =>
                \A e \in Held' \ {event.id} :
                  shelf'[e].pinned = event.pinned => Behind(Key(e), Key(event.id))'
           /\ \A i \in {0} \cup DOMAIN events : \A e \in Held' :
                /\ ToCome(i, e)' \/ Unshaken(e)
                /\ ToCome(i, e) => ToCome(i, e)'
           /\ UNCHANGED <<linked, screen, list>>
    BY <1>2, ChangeAhead
  <2>2. Returned'
    <3> SUFFICES ASSUME NEW i \in DOMAIN events', NEW told, told = events'[i],
                        told.ev = "removed", told.id \in Held'
                 PROVE  ToCome(i, told.id)'
      BY DEF Returned
    <3>1. i \in DOMAIN events /\ told = events[i]
      BY <2>1
    <3>2. Unshaken(told.id) => told.id \in Held
      BY DEF Unshaken, Stays
    <3> QED BY <2>1, <3>1, <3>2 DEF ListInv, Returned
  <2>3. Topmost'
    <3> SUFFICES ASSUME NEW i \in DOMAIN events', NEW told, told = events'[i],
                        told.ev = "added", StandsFor(told.id, told.copy, told.pinned)',
                        NEW e \in Held' \ {told.id}, shelf'[e].pinned = told.pinned
                 PROVE  Behind(Key(e), Key(told.id))' \/ ToCome(i, e)'
      BY DEF Topmost
    <3>1. CASE i \notin DOMAIN events
      BY <2>1, <3>1
    <3>2. CASE i \in DOMAIN events
      <4>1. told = events[i] /\ told.id \in Held' /\ shelf'[told.id].pinned = told.pinned
        BY <2>1, <3>2 DEF StandsFor
      <4>2. CASE Unshaken(e) /\ Stays(told.id)
        <5>1. /\ StandsFor(told.id, told.copy, told.pinned)
              /\ e \in Held \ {told.id} /\ shelf[e].pinned = told.pinned /\ Stays(e)
          BY <4>1, <4>2 DEF StandsFor, Stays, Unshaken
        <5>2. Behind(Key(e), Key(told.id)) \/ ToCome(i, e)
          BY <3>2, <4>1, <5>1 DEF ListInv, Topmost
        <5> QED BY <2>1, <3>2, <4>2, <5>1, <5>2, StaysBehind
      <4>3. CASE Unshaken(e) /\ ~Stays(told.id)
        BY <4>1, <4>3 DEF Unshaken
      <4> QED BY <2>1, <3>2, <4>2, <4>3
    <3> QED BY <3>1, <3>2
  <2>4. Fitting'
    BY <2>1 DEF ListInv, Fitting, OfKind, Loading
  <2>5. ASSUME NEW e \in Matches(view)', ~OnList(e)', Plain'
        PROVE  /\ e \in Held' /\ Unshaken(e) /\ shelf[e].pinned = view.pinned
               /\ e \in Matches(view) /\ ~OnList(e) /\ Plain
    <3>1. e \in Held' /\ Unshaken(e)
      BY <2>1, <2>5 DEF OnList, Matches
    <3>2. e \in Matches(view) /\ shelf[e].pinned = view.pinned
      BY <2>1, <2>5, <3>1 DEF Matches, Unshaken, Stays
    <3>3. ~OnList(e)
      BY <2>1, <2>5, <3>1 DEF OnList
    <3> QED BY <2>1, <2>5, <3>1, <3>2, <3>3 DEF Plain
  <2>6. Divided'
    <3> SUFFICES ASSUME Plain', NEW e \in Matches(view)', ~OnList(e)'
                 PROVE  /\ ~exhausted'
                        /\ \A i \in DOMAIN rows' : Beneath(e, rows[i])'
                        /\ oldest' # None => Beneath(e, oldest)'
      BY DEF Divided
    <3>1. /\ ~exhausted
          /\ \A i \in DOMAIN rows : Beneath(e, rows[i])
          /\ oldest # None => Beneath(e, oldest)
      BY <2>5 DEF ListInv, Divided
    <3>2. \A r : Beneath(e, r) => Beneath(e, r)'
      BY <2>1, <2>5, StaysBeneath
    <3>3. ASSUME NEW i \in DOMAIN rows' PROVE Beneath(e, rows[i])'
      <4>1. PICK r : r = rows[i] /\ r = rows'[i] /\ Beneath(e, r)'
        BY <2>1, <3>1, <3>2, <3>3
      <4> QED BY <4>1 DEF Beneath
    <3>4. ASSUME oldest' # None PROVE Beneath(e, oldest)'
      <4>1. PICK r : r = oldest /\ r = oldest' /\ Beneath(e, r)'
        BY <2>1, <3>1, <3>2, <3>4
      <4> QED BY <4>1 DEF Beneath
    <3> QED BY <2>1, <3>1, <3>3, <3>4
  <2>7. PageDivided'
    <3> SUFFICES ASSUME Plain', Loading', ~stale', asked'.read,
                        NEW e \in Matches(view)', ~OnList(e)', e \notin Shown(asked'.items)
                 PROVE  /\ asked'.more
                        /\ \A i \in DOMAIN asked'.items : Beneath(e, asked.items[i])'
      BY DEF PageDivided
    <3>1. asked.more /\ \A i \in DOMAIN asked.items : Beneath(e, asked.items[i])
      BY <2>1, <2>5 DEF ListInv, PageDivided, Loading
    <3>2. \A r : Beneath(e, r) => Beneath(e, r)'
      BY <2>1, <2>5, StaysBeneath
    <3>3. ASSUME NEW i \in DOMAIN asked'.items PROVE Beneath(e, asked.items[i])'
      <4>1. PICK r : r = asked.items[i] /\ r = asked'.items[i] /\ Beneath(e, r)'
        BY <2>1, <3>1, <3>2, <3>3
      <4> QED BY <4>1 DEF Beneath
    <3> QED BY <2>1, <3>1, <3>3
  <2> QED BY <2>2, <2>3, <2>4, <2>6, <2>7 DEF ListInv
<1> QED BY <1>1, <1>2

(* A page holds the first of what is found; one that is not full, all.     *)
LEMMA PageTakes ==
  ASSUME TypeOK, NEW v, NEW cursor, NEW items \in Page(v, cursor),
         NEW e \in Matches(v) \cap Past(cursor), \A i \in DOMAIN items : items[i] # e
  PROVE  /\ Len(items) >= PageSize
         /\ \A i \in DOMAIN items : Behind(Key(e), Key(items[i]))
<1> DEFINE found == Matches(v) \cap Past(cursor)
           c == Cardinality(found)
           n == Seqs!Min({c, PageSize})
<1>1. c \in Nat /\ IsFiniteSet(found)
  <2>1. found \subseteq Ids
    BY DEF Matches, Held
  <2>2. IsFiniteSet(Ids)
    BY FS_Interval, PickerAssumption DEF Ids
  <2> QED BY <2>1, <2>2, FS_Subset, FS_CardinalityType
<1>2. n \in Nat /\ n <= PageSize /\ (n # PageSize => n = c)
  <2> HIDE DEF c
  <2>1. n = CHOOSE x \in {c, PageSize} : \A y \in {c, PageSize} : x <= y
    BY DEF Seqs!Min
  <2>2. \E x \in {c, PageSize} : \A y \in {c, PageSize} : x <= y
    BY <1>1, PickerAssumption
  <2>3. n \in {c, PageSize} /\ \A y \in {c, PageSize} : n <= y
    BY <2>1, <2>2
  <2> QED BY <1>1, <2>3, PickerAssumption
<1>3. items \in Firsts(found, n)
  BY DEF Page, Seqs!Cardinality, Cardinality
<1> HIDE DEF n, c, found
<1>4. /\ items \in [1 .. n -> found] /\ DOMAIN items = 1 .. n
      /\ \A i, j \in 1 .. n : i < j => Behind(Key(items[j]), Key(items[i]))
      /\ \A i \in 1 .. n : Behind(Key(e), Key(items[i]))
  <2>1. e \in found
    BY DEF found
  <2>2. items \in [1 .. n -> found] /\ DOMAIN items = 1 .. n
    BY <1>3 DEF Firsts
  <2> QED BY <1>3, <2>1, <2>2 DEF Firsts
<1>5. Len(items) = n
  BY <1>2, <1>4
<1>6. ASSUME n # PageSize PROVE FALSE
  <2>1. \A x \in found : ~Behind(Key(x), Key(x))
    <3>1. ASSUME NEW x \in found, Behind(Key(x), Key(x)) PROVE FALSE
      <4>1. x \in Ids /\ shelf[x] \in Entry
        BY DEF found, Matches, Held, TypeOK
      <4>2. Key(x) = <<Key(x)[1], Key(x)[2], Key(x)[3]>> /\ Key(x)[1] \in Int /\ Key(x)[2] \in Int /\ Key(x)[3] \in Int
        BY <4>1 DEF Key, Entry, Ids
      <4> QED BY ONLY <3>1, <4>2 DEF Behind
    <3> QED BY <3>1
  <2>2. \A i, j \in 1 .. n : items[i] = items[j] => i = j
    <3>1. ASSUME NEW i \in 1 .. n, NEW j \in 1 .. n, items[i] = items[j], i # j PROVE FALSE
      <4>1. items[i] \in found /\ (i < j \/ j < i)
        BY <1>2, <1>4, <3>1
      <4> QED BY <1>4, <2>1, <3>1, <4>1
    <3> QED BY <3>1
  <2>3. items \in Injection(1 .. n, found)
    BY <1>4, <2>2 DEF Injection, IsInjective
  <2>4. Cardinality(1 .. n) = n
    BY <1>2, FS_Interval
  <2>5. Cardinality(1 .. n) = Cardinality(found)
    BY <1>2, <1>6, <2>4 DEF c
  <2>6. items \in Surjection(1 .. n, found)
    BY <1>1, <2>3, <2>5, FS_Injection
  <2>7. e \in found
    BY DEF found
  <2> QED BY <1>4, <2>6, <2>7 DEF Surjection
<1> QED BY <1>4, <1>5, <1>6, PickerAssumption

(* What the session reads divides what comes after the cursor. *)
LEMMA ServeTakes ==
  ASSUME TypeOK, Serve
  PROVE  /\ asked'.before = asked.before /\ asked'.view = asked.view
         /\ OfKind(asked'.items, asked.view.kind)
         /\ \A e \in Matches(asked.view) \cap Past(asked.before) :
              \/ e \in Shown(asked'.items)
              \/ /\ asked'.more
                 /\ \A i \in DOMAIN asked'.items : Behind(Key(e), Key(asked'.items[i].id))
<1>1. asked \in Load
  BY DEF Serve, Loading, TypeOK
<1>2. PICK items \in Page(asked.view, asked.before) :
      \E fits \in (IF Limited THEN 1 ELSE Len(items)) .. Len(items) \cup {Len(items)} :
        asked' = [asked EXCEPT !.read = TRUE,
                    !.items = [i \in 1 .. fits |-> RowOf(items[i])],
                    !.more = Len(items) >= PageSize \/ fits < Len(items)]
  BY DEF Serve
<1>3. /\ items \in Seq(Matches(asked.view)) /\ Len(items) \in Nat /\ Len(items) <= PageSize
      /\ DOMAIN items = 1 .. Len(items)
  BY PageFits
<1>4. PICK fits \in Nat :
        /\ fits <= Len(items)
        /\ asked' = [asked EXCEPT !.read = TRUE,
                       !.items = [i \in 1 .. fits |-> RowOf(items[i])],
                       !.more = Len(items) >= PageSize \/ fits < Len(items)]
  <2> DEFINE n == Len(items)
             low == IF Limited THEN 1 ELSE n
  <2>1. n \in Nat /\ low \in Nat
    BY <1>3
  <2>2. \A fits \in low .. n \cup {n} : fits \in Nat /\ fits <= n
    <3> HIDE DEF n, low
    <3> QED BY <2>1
  <2> QED BY <1>2, <2>2
<1> DEFINE page == [i \in 1 .. fits |-> RowOf(items[i])]
           more == Len(items) >= PageSize \/ fits < Len(items)
<1>5. /\ asked'.items = page /\ asked'.more = more
      /\ asked'.before = asked.before /\ asked'.view = asked.view
  <2>1. asked' = [asked EXCEPT !.read = TRUE, !.items = page, !.more = more]
    BY <1>4
  <2> HIDE DEF page, more
  <2> QED BY <1>1, <2>1 DEF Load
<1>6. /\ DOMAIN page = 1 .. fits
      /\ \A i \in 1 .. fits : /\ i \in DOMAIN items /\ items[i] \in Matches(asked.view)
                               /\ page[i] = RowOf(items[i])
  BY <1>3, <1>4
<1> HIDE DEF page
<1>7. \A i \in DOMAIN page :
        page[i].id = items[i] /\ page[i].copy = shelf[items[i]].copy
  BY <1>6 DEF RowOf
<1>8. OfKind(asked'.items, asked.view.kind)
  BY <1>5, <1>6, <1>7 DEF OfKind, Matches
<1>9. ASSUME NEW e \in Matches(asked.view) \cap Past(asked.before), e \notin Shown(page)
      PROVE  more /\ \A i \in DOMAIN page : Behind(Key(e), Key(page[i].id))
  <2>1. \A i \in 1 .. fits : items[i] # e
    BY <1>6, <1>7, <1>9 DEF Shown
  <2>2. CASE \A i \in DOMAIN items : items[i] # e
    <3>1. Len(items) >= PageSize /\ \A i \in DOMAIN items : Behind(Key(e), Key(items[i]))
      BY <2>2, PageTakes
    <3> QED BY <1>6, <1>7, <3>1
  <2>3. ASSUME NEW j \in DOMAIN items, items[j] = e
        PROVE  more /\ \A i \in DOMAIN page : Behind(Key(e), Key(page[i].id))
    <3>1. j > fits /\ fits < Len(items) /\ \A i \in 1 .. fits : i < j
      BY <1>3, <1>4, <2>1, <2>3
    <3>2. \A i \in DOMAIN items : i < j => Behind(Key(items[j]), Key(items[i]))
      BY <1>3, <2>3 DEF Page, Firsts
    <3> QED BY <1>6, <1>7, <2>3, <3>1, <3>2
  <2> QED BY <2>2, <2>3
<1> QED BY <1>5, <1>8, <1>9

(* A list that was cleared is divided, whatever its request will bring. *)
LEMMA RefreshDivides ==
  ASSUME TypeOK, NEW v \in View, NEW connected \in BOOLEAN, Refresh(v, connected), view' = v
  PROVE  Fitting' /\ Divided' /\ PageDivided'
<1>1. /\ rows' = << >> /\ DOMAIN rows' = {} /\ oldest' = None /\ exhausted' = FALSE
  BY DEF Refresh
<1>2. Divided'
  BY <1>1 DEF Divided
<1>3. OfKind(rows, view.kind)'
  BY <1>1 DEF OfKind
<1>4. CASE Loading
  BY <1>2, <1>3, <1>4 DEF Refresh, Fitting, PageDivided, Loading
<1>5. CASE ~Loading /\ ~connected
  BY <1>2, <1>3, <1>5 DEF Refresh, Fitting, PageDivided, Loading
<1>6. CASE ~Loading /\ connected
  <2>1. None \in Row \cup {None}
    OBVIOUS
  <2>2. asked' = Request(v, None)
    BY <1>6 DEF Refresh
  <2>3. /\ asked' # None /\ asked'.view = v /\ asked'.read = FALSE /\ asked'.items = << >>
        /\ asked'.before = None
    BY <2>1, <2>2, Requested DEF Request
  <2>4. OfKind(asked.items, view.kind)'
    BY <2>3 DEF OfKind
  <2> QED BY <1>1, <1>2, <1>3, <2>3, <2>4 DEF Fitting, PageDivided
<1> QED BY <1>4, <1>5, <1>6

(* Marking a page leaves the rest of it. *)
LEMMA MissesSpares ==
  ASSUME TypeOK, NEW e \in Ids, Misses(e)
  PROVE  /\ Loading' <=> Loading
         /\ Loading => /\ asked'.items = asked.items /\ asked'.view = asked.view
                       /\ asked'.read = asked.read /\ asked'.more = asked.more
                       /\ asked'.before = asked.before
<1>1. CASE Loading /\ asked.read
  <2>1. asked' = [asked EXCEPT !.missed = @ \cup {e}]
    BY <1>1 DEF Misses
  <2>2. asked \in Load
    BY <1>1 DEF TypeOK, Loading
  <2>3. /\ asked'.items = asked.items /\ asked'.view = asked.view
        /\ asked'.read = asked.read /\ asked'.more = asked.more /\ asked'.before = asked.before
    BY <2>1, <2>2 DEF Load
  <2>4. Loading'
    BY <1>1, MissesTyped
  <2> QED BY <1>1, <2>3, <2>4
<1>2. CASE ~(Loading /\ asked.read)
  BY <1>2 DEF Misses, Loading
<1> QED BY <1>1, <1>2

(* A removed row is off the list, and the others are on it. *)
LEMMA RemovedTakes ==
  ASSUME TypeOK, NEW event, Removed(event)
  PROVE  /\ \A i \in DOMAIN rows' : \E j \in DOMAIN rows : rows'[i] = rows[j]
         /\ Shown(rows') = Shown(rows) \ {event.id}
<1>1. CASE event.id \in Shown(rows)
  <2>1. PICK i \in DOMAIN rows : rows[i].id = event.id /\ rows' = Seqs!RemoveAt(rows, i)
    BY <1>1 DEF Removed
  <2>2. rows \in Seq(Row) /\ OneRowEach(rows)
    BY DEF TypeOK
  <2>3. /\ \A j \in DOMAIN rows' : \E k \in DOMAIN rows : k # i /\ rows'[j] = rows[k]
        /\ Shown(rows') = Shown(rows) \ {rows[i].id}
    BY <2>1, <2>2, Shortened
  <2> QED BY <2>1, <2>3
<1>2. CASE event.id \notin Shown(rows)
  BY <1>2 DEF Removed
<1> QED BY <1>1, <1>2

(* What follows the first event is still to come. *)
LEMMA TailToCome ==
  ASSUME TypeOK, events # << >>, events' = Tail(events), UNCHANGED shelf
  PROVE  /\ \A i \in Nat : \A e : ToCome(i + 1, e) => ToCome(i, e)'
         /\ \A e : ToCome(0, e) =>
              \/ ToCome(0, e)'
              \/ events[1].ev = "cleared"
              \/ events[1].ev = "updated" /\ events[1].pinned = shelf[e].pinned
              \/ /\ events[1].ev = "added" /\ events[1].id = e
                 /\ StandsFor(e, events[1].copy, events[1].pinned)
<1> DEFINE n == Len(events)
<1>1. /\ n \in Nat \ {0} /\ DOMAIN events = 1 .. n /\ DOMAIN events' = 1 .. (n - 1)
      /\ \A i \in 1 .. (n - 1) : events'[i] = events[i + 1]
  BY DEF TypeOK
<1> HIDE DEF n
<1>2. ASSUME NEW j \in DOMAIN events, j > 1
      PROVE  j - 1 \in DOMAIN events' /\ events'[j - 1] = events[j]
  <2>1. j - 1 \in 1 .. (n - 1) /\ (j - 1) + 1 = j
    BY <1>1, <1>2
  <2> QED BY <1>1, <2>1
<1>3. ASSUME NEW i \in Nat, NEW e, NEW j \in DOMAIN events, j > i, j > 1,
             \/ events[j].ev = "cleared"
             \/ events[j].ev = "updated" /\ events[j].pinned = shelf[e].pinned
             \/ /\ events[j].ev = "added" /\ events[j].id = e
                /\ StandsFor(e, events[j].copy, events[j].pinned),
             NEW k \in Nat, k < j - 1
      PROVE  ToCome(k, e)'
  <2>1. j - 1 \in DOMAIN events' /\ events'[j - 1] = events[j] /\ j - 1 > k
    BY <1>1, <1>2, <1>3
  <2>2. CASE \/ events[j].ev = "cleared"
             \/ events[j].ev = "updated" /\ events[j].pinned = shelf[e].pinned
    BY <2>1, <2>2 DEF ToCome, Renewed
  <2>3. CASE /\ events[j].ev = "added" /\ events[j].id = e
             /\ StandsFor(e, events[j].copy, events[j].pinned)
    <3>1. Announced(k, e)'
      BY <2>1, <2>3 DEF Announced, StandsFor, Held
    <3> QED BY <3>1 DEF ToCome
  <2> QED BY <1>3, <2>2, <2>3
<1>4. ASSUME NEW i \in Nat, NEW e, ToCome(i, e)
      PROVE  \E j \in DOMAIN events :
               /\ j > i
               /\ \/ events[j].ev = "cleared"
                  \/ events[j].ev = "updated" /\ events[j].pinned = shelf[e].pinned
                  \/ /\ events[j].ev = "added" /\ events[j].id = e
                     /\ StandsFor(e, events[j].copy, events[j].pinned)
  BY <1>4 DEF ToCome, Renewed, Announced
<1>5. ASSUME NEW i \in Nat, NEW e, ToCome(i + 1, e) PROVE ToCome(i, e)'
  <2>1. i + 1 \in Nat
    OBVIOUS
  <2>2. PICK j \in DOMAIN events :
               /\ j > i + 1
               /\ \/ events[j].ev = "cleared"
                  \/ events[j].ev = "updated" /\ events[j].pinned = shelf[e].pinned
                  \/ /\ events[j].ev = "added" /\ events[j].id = e
                     /\ StandsFor(e, events[j].copy, events[j].pinned)
    BY <1>4, <1>5, <2>1
  <2>3. j > i /\ j > 1 /\ i < j - 1
    BY <1>1, <2>2
  <2> QED BY <1>3, <2>2, <2>3
<1>6. ASSUME NEW e, ToCome(0, e), ~ToCome(0, e)'
      PROVE  \/ events[1].ev = "cleared"
             \/ events[1].ev = "updated" /\ events[1].pinned = shelf[e].pinned
             \/ /\ events[1].ev = "added" /\ events[1].id = e
                /\ StandsFor(e, events[1].copy, events[1].pinned)
  <2>1. 0 \in Nat
    OBVIOUS
  <2>2. PICK j \in DOMAIN events :
               \/ events[j].ev = "cleared"
               \/ events[j].ev = "updated" /\ events[j].pinned = shelf[e].pinned
               \/ /\ events[j].ev = "added" /\ events[j].id = e
                  /\ StandsFor(e, events[j].copy, events[j].pinned)
    BY <1>4, <1>6, <2>1
  <2>3. ASSUME j # 1 PROVE FALSE
    <3>1. j > 0 /\ j > 1 /\ 0 < j - 1
      BY <1>1, <2>3
    <3> QED BY <1>3, <1>6, <2>1, <2>2, <3>1
  <2> QED BY <2>2, <2>3
<1> QED BY <1>5, <1>6

(* A list that keeps what is on it or to come, and takes only rows beneath *)
(* which the rest is, stays divided.                                       *)
LEMMA HeardDivides ==
  ASSUME ListInv, UNCHANGED <<shelf, linked, open, view, due, oldest, exhausted, stale, lost>>,
         Loading' <=> Loading,
         Loading => /\ asked'.items = asked.items /\ asked'.view = asked.view
                    /\ asked'.read = asked.read /\ asked'.more = asked.more
                    /\ asked'.before = asked.before,
         OfKind(rows', view.kind),
         Plain => \A e \in Matches(view) :
                    /\ OnList(e) => OnList(e)'
                    /\ \A i \in DOMAIN rows' : \/ OnList(e)'
                                              \/ Beneath(e, rows'[i])
                                              \/ \E j \in DOMAIN rows : rows'[i] = rows[j]
  PROVE  Fitting' /\ Divided' /\ PageDivided'
<1>1. Fitting'
  BY DEF ListInv, Fitting, OfKind
<1>2. Plain' <=> Plain
  BY DEF Plain
<1>3. Matches(view)' = Matches(view)
  BY DEF Matches, Held
<1>4. ASSUME NEW e, NEW r, Beneath(e, r) PROVE Beneath(e, r)'
  BY <1>4 DEF Beneath, StandsFor, Held, Key
<1>5. Divided'
  <2> SUFFICES ASSUME Plain, NEW e \in Matches(view), ~OnList(e)'
               PROVE  /\ ~exhausted
                      /\ \A i \in DOMAIN rows' : Beneath(e, rows[i])'
                      /\ oldest # None => Beneath(e, oldest)'
    BY <1>2, <1>3 DEF Divided
  <2>1. /\ ~exhausted
        /\ \A i \in DOMAIN rows : Beneath(e, rows[i])
        /\ oldest # None => Beneath(e, oldest)
    BY DEF ListInv, Divided
  <2>2. ASSUME NEW i \in DOMAIN rows' PROVE Beneath(e, rows[i])'
    <3>1. PICK r : r = rows'[i] /\ Beneath(e, r)
      BY <2>1, <2>2
    <3> QED BY <1>4, <3>1 DEF Beneath
  <2>3. oldest # None => Beneath(e, oldest)'
    <3>1. PICK r : r = oldest /\ r = oldest'
      OBVIOUS
    <3>2. Beneath(e, r) => Beneath(e, r)'
      BY <1>4
    <3> QED BY <2>1, <3>1, <3>2 DEF Beneath
  <2> QED BY <2>1, <2>2, <2>3
<1>6. PageDivided'
  <2> SUFFICES ASSUME Plain, Loading, ~stale, asked.read, NEW e \in Matches(view), ~OnList(e)',
                      e \notin Shown(asked.items)
               PROVE  asked.more /\ \A i \in DOMAIN asked'.items : Beneath(e, asked.items[i])'
    BY <1>2, <1>3 DEF PageDivided
  <2>1. asked.more /\ \A i \in DOMAIN asked.items : Beneath(e, asked.items[i])
    BY DEF ListInv, PageDivided
  <2>2. ASSUME NEW i \in DOMAIN asked'.items PROVE Beneath(e, asked.items[i])'
    <3>1. PICK r : r = asked'.items[i] /\ Beneath(e, r)
      BY <2>1, <2>2
    <3> QED BY <1>4, <3>1 DEF Beneath
  <2> QED BY <2>1, <2>2
<1> QED BY <1>1, <1>5, <1>6

(* A broadcast that is heard keeps the list divided. *)
LEMMA HearDivides == TypeOK /\ ListInv /\ Hear => ListInv'
<1> SUFFICES ASSUME TypeOK, ListInv, Hear PROVE ListInv'
  OBVIOUS
<1> USE DEF wire, screen, list
<1> DEFINE event == events[1]
<1>1. /\ linked /\ events # << >> /\ events' = Tail(events)
      /\ UNCHANGED <<shelf, linked, open, view, due>>
  BY DEF Hear
<1>2. /\ Head(events) = event /\ 1 \in DOMAIN events /\ event \in Event
      /\ \A i \in DOMAIN events' : i \in Nat /\ i + 1 \in DOMAIN events /\ events'[i] = events[i + 1]
  <2>1. \A i \in DOMAIN events' : i \in Nat
    BY <1>1 DEF TypeOK
  <2> QED BY <1>1, <2>1, TailEnds DEF TypeOK
<1>3. /\ \A i \in Nat : \A e : ToCome(i + 1, e) => ToCome(i, e)'
      /\ \A e : ToCome(1, e) => ToCome(0, e)'
      /\ \A e : ToCome(0, e) =>
           \/ ToCome(0, e)'
           \/ event.ev = "cleared"
           \/ event.ev = "updated" /\ event.pinned = shelf[e].pinned
           \/ /\ event.ev = "added" /\ event.id = e
              /\ StandsFor(e, event.copy, event.pinned)
  <2>1. 0 \in Nat /\ 0 + 1 = 1
    OBVIOUS
  <2>2. /\ \A i \in Nat : \A e : ToCome(i + 1, e) => ToCome(i, e)'
        /\ \A e : ToCome(0, e) =>
             \/ ToCome(0, e)'
             \/ event.ev = "cleared"
             \/ event.ev = "updated" /\ event.pinned = shelf[e].pinned
             \/ /\ event.ev = "added" /\ event.id = e
                /\ StandsFor(e, event.copy, event.pinned)
    BY <1>1, TailToCome
  <2>3. ASSUME NEW e, ToCome(1, e) PROVE ToCome(0, e)'
    <3>1. ToCome(0 + 1, e)
      BY <2>1, <2>3
    <3> QED BY <2>1, <2>2, <3>1
  <2> QED BY <2>2, <2>3
<1> HIDE DEF event
<1>4. Returned'
  <2> SUFFICES ASSUME NEW i \in DOMAIN events', NEW told, told = events'[i],
                      told.ev = "removed", told.id \in Held'
               PROVE  ToCome(i, told.id)'
    BY DEF Returned
  <2>1. i + 1 \in DOMAIN events /\ told = events[i + 1] /\ told.id \in Held
    BY <1>1, <1>2 DEF Held
  <2> QED BY <1>2, <1>3, <2>1 DEF ListInv, Returned
<1>5. Topmost'
  <2> SUFFICES ASSUME NEW i \in DOMAIN events', NEW told, told = events'[i],
                      told.ev = "added", StandsFor(told.id, told.copy, told.pinned)',
                      NEW e \in Held' \ {told.id}, shelf'[e].pinned = told.pinned
               PROVE  Behind(Key(e), Key(told.id))' \/ ToCome(i, e)'
    BY DEF Topmost
  <2>1. /\ i + 1 \in DOMAIN events /\ told = events[i + 1] /\ e \in Held \ {told.id}
        /\ StandsFor(told.id, told.copy, told.pinned) /\ shelf[e].pinned = told.pinned
    BY <1>1, <1>2 DEF Held, StandsFor
  <2>2. Behind(Key(e), Key(told.id)) \/ ToCome(i + 1, e)
    BY <2>1 DEF ListInv, Topmost
  <2>3. Behind(Key(e), Key(told.id)) => Behind(Key(e), Key(told.id))'
    BY <1>1 DEF Key
  <2> QED BY <1>2, <1>3, <2>2, <2>3
<1>6. CASE ~open /\ UNCHANGED list
  <2>1. Fitting' /\ Divided' /\ PageDivided'
    BY <1>1, <1>6 DEF ListInv, Fitting, OfKind, Divided, PageDivided, Plain, Loading
  <2> QED BY <1>4, <1>5, <2>1 DEF ListInv
<1>7. CASE Refresh(view, TRUE)
  <2>1. view \in View /\ view' = view /\ TRUE \in BOOLEAN
    BY <1>1 DEF TypeOK
  <2>2. Fitting' /\ Divided' /\ PageDivided'
    BY <1>7, <2>1, RefreshDivides
  <2> QED BY <1>4, <1>5, <2>2 DEF ListInv
<1>8. CASE event.ev = "added" /\ Added(event)
  <2>1. UNCHANGED <<oldest, exhausted, asked, stale, lost>>
    BY <1>8 DEF Added
  <2> DEFINE row == [id |-> event.id, copy |-> event.copy]
  <2>2. row.id = event.id /\ row.copy = event.copy
    OBVIOUS
  <2>3. /\ ~Belongs(event) => rows' = rows
        /\ Belongs(event) =>
              /\ \A i \in DOMAIN rows' : rows'[i] = row \/ \E j \in DOMAIN rows : rows'[i] = rows[j]
              /\ event.id \in Shown(rows')
        /\ Shown(rows) \subseteq Shown(rows')
    <3>1. ASSUME Belongs(event)
          PROVE  /\ \A i \in DOMAIN rows' : rows'[i] = row \/ \E j \in DOMAIN rows : rows'[i] = rows[j]
                 /\ event.id \in Shown(rows')
                 /\ Shown(rows) \subseteq Shown(rows')
      <4> DEFINE n == Len(rows)
      <4>1. rows' = <<row>> \o rows
        BY <1>8, <3>1 DEF Added
      <4>2. row \in Row
        BY <1>2, <1>8 DEF Event, Row
      <4>3. <<row>> \in Seq(Row) /\ rows \in Seq(Row)
        BY <4>2 DEF TypeOK
      <4> HIDE DEF row
      <4>4. /\ DOMAIN rows' = 1 .. (n + 1) /\ n \in Nat /\ DOMAIN rows = 1 .. n
            /\ rows'[1] = row /\ \A i \in 1 .. n : rows'[i + 1] = rows[i]
        BY <4>1, <4>3
      <4> HIDE DEF n
      <4>5. ASSUME NEW i \in DOMAIN rows', i # 1 PROVE \E j \in DOMAIN rows : rows'[i] = rows[j]
        <5>1. i - 1 \in 1 .. n /\ (i - 1) + 1 = i
          BY <4>4, <4>5
        <5> QED BY <4>4, <5>1
      <4>6. \A i \in DOMAIN rows : i + 1 \in DOMAIN rows' /\ rows'[i + 1] = rows[i]
        BY <4>4
      <4>7. 1 \in DOMAIN rows'
        BY <4>4
      <4>8. event.id \in Shown(rows')
        BY <2>2, <4>4, <4>7 DEF Shown
      <4>9. Shown(rows) \subseteq Shown(rows')
        BY <4>6 DEF Shown
      <4> QED BY <4>4, <4>5, <4>8, <4>9
    <3>2. ~Belongs(event) => rows' = rows
      BY <1>8 DEF Added
    <3> QED BY <3>1, <3>2
  <2> HIDE DEF row
  <2>4. OfKind(rows', view.kind)
    <3>1. OfKind(rows, view.kind)
      BY DEF ListInv, Fitting
    <3>2. Belongs(event) => view.kind = None \/ Kind[row.copy] = view.kind
      BY <2>2 DEF Belongs
    <3> QED BY <2>3, <3>1, <3>2 DEF OfKind
  <2>5. ASSUME Plain, NEW e \in Matches(view), OnList(e) PROVE OnList(e)'
    <3>1. CASE e \in Shown(rows)
      BY <2>3, <3>1 DEF OnList
    <3>2. CASE ToCome(0, e) /\ e \notin Shown(rows) /\ ~ToCome(0, e)'
      <4>1. event.id = e /\ StandsFor(e, event.copy, event.pinned)
        BY <1>3, <1>8, <3>2
      <4>2. Belongs(event)
        BY <2>5, <3>2, <4>1 DEF Belongs, Matches, Plain, StandsFor
      <4> QED BY <2>3, <4>1, <4>2 DEF OnList
    <3> QED BY <2>5, <3>1, <3>2 DEF OnList
  <2>6. ASSUME Plain, NEW e \in Matches(view), ~OnList(e)', Belongs(event) PROVE Beneath(e, row)
    <3> SUFFICES ASSUME StandsFor(row.id, row.copy, view.pinned) PROVE Behind(Key(e), Key(row.id))
      BY DEF Beneath
    <3>1. event.pinned = view.pinned /\ e # event.id /\ e \in Held /\ shelf[e].pinned = view.pinned
      BY <2>3, <2>6 DEF Belongs, OnList, Matches
    <3>2. StandsFor(event.id, event.copy, event.pinned)
      BY <2>2, <3>1
    <3>3. Behind(Key(e), Key(event.id)) \/ ToCome(1, e)
      BY <1>2, <1>8, <3>1, <3>2 DEF ListInv, Topmost, event
    <3>4. ~ToCome(1, e)
      BY <1>3, <2>6 DEF OnList
    <3> QED BY <2>2, <3>3, <3>4
  <2>7. Loading' <=> Loading
    BY <2>1 DEF Loading
  <2>8. Fitting' /\ Divided' /\ PageDivided'
    BY <1>1, <2>1, <2>3, <2>4, <2>5, <2>6, <2>7, HeardDivides
  <2> QED BY <1>4, <1>5, <2>8 DEF ListInv
<1>9. CASE /\ open /\ event.ev = "updated" /\ Misses(event.id) /\ event.pinned # view.pinned
           /\ UNCHANGED <<rows, oldest, exhausted, stale, blank, ghosts, lost>>
  <2>1. event.id \in Ids
    BY <1>2, <1>9 DEF Event
  <2>2. ASSUME NEW e \in Matches(view), OnList(e) PROVE OnList(e)'
    BY <1>3, <1>9, <2>2 DEF OnList, Matches
  <2>3. OfKind(rows', view.kind)
    BY <1>9 DEF ListInv, Fitting
  <2>4. Fitting' /\ Divided' /\ PageDivided'
    BY <1>1, <1>9, <2>1, <2>2, <2>3, MissesSpares, HeardDivides
  <2> QED BY <1>4, <1>5, <2>4 DEF ListInv
<1>10. CASE event.ev = "removed" /\ Removed(event)
  <2>1. Misses(event.id) /\ event.id \in Ids /\ UNCHANGED <<oldest, exhausted, stale, lost>>
    BY <1>2, <1>10 DEF Removed, Event
  <2>2. /\ \A i \in DOMAIN rows' : \E j \in DOMAIN rows : rows'[i] = rows[j]
        /\ Shown(rows') = Shown(rows) \ {event.id}
    BY <1>10, RemovedTakes
  <2>3. OfKind(rows', view.kind)
    BY <2>2 DEF ListInv, Fitting, OfKind
  <2>4. ASSUME NEW e \in Matches(view), OnList(e) PROVE OnList(e)'
    <3>1. CASE e = event.id
      <4>1. ToCome(1, e)
        BY <1>2, <1>10, <3>1 DEF ListInv, Returned, Matches, event
      <4> QED BY <1>3, <4>1 DEF OnList
    <3>2. CASE e # event.id
      BY <1>3, <1>10, <2>2, <2>4, <3>2 DEF OnList
    <3> QED BY <3>1, <3>2
  <2>5. Fitting' /\ Divided' /\ PageDivided'
    BY <1>1, <2>1, <2>2, <2>3, <2>4, MissesSpares, HeardDivides
  <2> QED BY <1>4, <1>5, <2>5 DEF ListInv
<1>11. \/ ~open /\ UNCHANGED list
       \/ event.ev = "added" /\ Added(event)
       \/ open /\ event.ev = "updated" /\ Updated(event)
       \/ event.ev = "removed" /\ Removed(event)
       \/ Refresh(view, TRUE)
  BY <1>2 DEF Hear
<1> QED BY <1>6, <1>7, <1>8, <1>9, <1>10, <1>11 DEF Updated

(* The load that was turned away is asked for as the list now is. *)
LEMMA SettleFits ==
  ASSUME TypeOK, Settle, Loading'
  PROVE  /\ stale /\ asked'.view = view /\ asked'.read = FALSE
         /\ asked'.items = << >> /\ asked'.before = oldest
<1>1. stale
  BY SettleTyped
<1>2. asked' = Request(view, oldest)
  BY <1>1 DEF Settle
<1> QED BY <1>1, <1>2 DEF Request

(* Neither a page that lands nor one that does not leaves the list         *)
(* undivided.                                                              *)
LEMMA ArriveDivides ==
  ASSUME TypeOK, ListInv, Arrive
  PROVE  Fitting' /\ Divided' /\ PageDivided'
<1> USE DEF wire, screen, list
<1>1. /\ Loading /\ asked.read /\ Settle
      /\ UNCHANGED <<shelf, events, linked, open, view, due, lost>>
  BY DEF Arrive
<1>2. /\ \A e : ToCome(0, e)' <=> ToCome(0, e)
      /\ \A e, r : Beneath(e, r) => Beneath(e, r)'
      /\ Matches(view)' = Matches(view) /\ (Plain' <=> Plain)
  BY <1>1 DEF ToCome, Renewed, Announced, Beneath, StandsFor, Held, Key, Matches, Plain
<1>3. Loading' => /\ ~Current /\ asked'.view = view /\ asked'.read = FALSE
                  /\ asked'.items = << >> /\ asked'.before = oldest
  BY <1>1, SettleFits DEF Current
<1>4. PageDivided'
  BY <1>3 DEF PageDivided
<1>5. ASSUME OfKind(rows', view.kind), ~Current => oldest' = oldest PROVE Fitting'
  <2>1. OfKind(<< >>, view.kind)
    BY DEF OfKind
  <2>2. Loading' => OfKind(asked.items, view.kind)'
    BY <1>1, <1>3, <2>1 DEF OfKind
  <2> QED BY <1>1, <1>3, <1>5, <2>2 DEF Fitting, OfKind
<1>6. CASE ~Current
  <2>1. UNCHANGED <<rows, exhausted, oldest>>
    BY <1>6 DEF Arrive
  <2>2. Fitting'
    BY <1>5, <2>1 DEF ListInv, Fitting
  <2>3. Divided'
    <3> SUFFICES ASSUME Plain, NEW e \in Matches(view), ~OnList(e)'
                 PROVE  /\ ~exhausted'
                        /\ \A i \in DOMAIN rows' : Beneath(e, rows[i])'
                        /\ oldest' # None => Beneath(e, oldest)'
      BY <1>2 DEF Divided
    <3>1. /\ ~exhausted
          /\ \A i \in DOMAIN rows : Beneath(e, rows[i])
          /\ oldest # None => Beneath(e, oldest)
      BY <1>2, <2>1 DEF ListInv, Divided, OnList
    <3>2. ASSUME NEW i \in DOMAIN rows' PROVE Beneath(e, rows[i])'
      <4>1. PICK r : r = rows'[i] /\ Beneath(e, r)
        BY <2>1, <3>1, <3>2
      <4> QED BY <1>2, <4>1 DEF Beneath
    <3>3. oldest' # None => Beneath(e, oldest)'
      <4>1. PICK r : r = oldest /\ r = oldest'
        BY <2>1
      <4>2. Beneath(e, r) => Beneath(e, r)'
        BY <1>2
      <4> QED BY <3>1, <4>1, <4>2 DEF Beneath
    <3> QED BY <2>1, <3>1, <3>2, <3>3
  <2> QED BY <1>4, <2>2, <2>3
<1>7. CASE Current
  <2>1. Land /\ ~stale
    BY <1>7 DEF Arrive, Current
  <2>2. asked.items \in Seq(Row) /\ asked.more \in BOOLEAN
    BY <1>1 DEF TypeOK, Loading, Load
  <2>3. /\ Extends(rows', rows, asked.items, Len(asked.items))
        /\ DOMAIN asked.items = 1 .. Len(asked.items)
    BY <2>1, <2>2, PageExtends DEF Land, TypeOK
  <2>4. \A i \in DOMAIN rows' : \/ \E j \in DOMAIN rows : rows'[i] = rows[j]
                              \/ \E j \in DOMAIN asked.items : rows'[i] = asked.items[j]
    BY <2>3 DEF Extends
  <2>5. Shown(rows') = Shown(rows) \cup Shown(asked.items)
    BY <2>3 DEF Extends, Shown
  <2>6. OfKind(rows', view.kind)
    BY <1>1, <2>1, <2>4 DEF ListInv, Fitting, OfKind
  <2>7. Fitting'
    BY <1>5, <1>7, <2>6
  <2>8. Divided'
    <3> SUFFICES ASSUME Plain, NEW e \in Matches(view), ~OnList(e)'
                 PROVE  /\ ~exhausted'
                        /\ \A i \in DOMAIN rows' : Beneath(e, rows[i])'
                        /\ oldest' # None => Beneath(e, oldest)'
      BY <1>2 DEF Divided
    <3>1. ~OnList(e) /\ e \notin Shown(asked.items)
      BY <1>2, <2>5 DEF OnList
    <3>2. /\ ~exhausted
          /\ \A i \in DOMAIN rows : Beneath(e, rows[i])
          /\ oldest # None => Beneath(e, oldest)
      BY <3>1 DEF ListInv, Divided
    <3>3. asked.more /\ \A i \in DOMAIN asked.items : Beneath(e, asked.items[i])
      BY <1>1, <2>1, <3>1 DEF ListInv, PageDivided
    <3>4. ~exhausted'
      BY <2>1, <3>2, <3>3 DEF Land
    <3>5. ASSUME NEW i \in DOMAIN rows' PROVE Beneath(e, rows[i])'
      <4>1. PICK r : r = rows'[i] /\ Beneath(e, r)
        BY <2>4, <3>2, <3>3, <3>5
      <4> QED BY <1>2, <4>1 DEF Beneath
    <3>6. ASSUME oldest' # None PROVE Beneath(e, oldest)'
      <4>1. CASE asked.items = << >>
        <5>1. PICK r : r = oldest' /\ Beneath(e, r)
          BY <2>1, <3>2, <3>6, <4>1 DEF Land
        <5> QED BY <1>2, <5>1 DEF Beneath
      <4>2. CASE asked.items # << >>
        <5>1. Len(asked.items) \in DOMAIN asked.items
          BY <2>2, <4>2
        <5>2. PICK r : r = oldest' /\ Beneath(e, r)
          BY <2>1, <3>3, <4>2, <5>1 DEF Land
        <5> QED BY <1>2, <5>2 DEF Beneath
      <4> QED BY <4>1, <4>2
    <3> QED BY <3>4, <3>5, <3>6
  <2> QED BY <1>4, <2>7, <2>8
<1> QED BY <1>6, <1>7

(* A page that is read divides what comes after the cursor, and the list   *)
(* was divided at the cursor.                                              *)
LEMMA ServeDivides ==
  ASSUME TypeOK, SameTab, ListInv, Serve
  PROVE  Fitting' /\ Divided' /\ PageDivided'
<1> USE DEF wire, screen, list
<1>1. /\ Loading /\ ~asked.read
      /\ lost' = (lost \/ (~stale /\ Gone(asked.view, asked.before)))
      /\ UNCHANGED <<shelf, events, linked, open, view, due, rows, oldest, exhausted, stale>>
  BY DEF Serve
<1>2. /\ asked'.before = asked.before /\ asked'.view = asked.view
      /\ OfKind(asked'.items, asked.view.kind)
      /\ \A e \in Matches(asked.view) \cap Past(asked.before) :
           \/ e \in Shown(asked'.items)
           \/ /\ asked'.more
              /\ \A i \in DOMAIN asked'.items : Behind(Key(e), Key(asked'.items[i].id))
  BY ServeTakes
<1>3. /\ \A e : ToCome(0, e)' <=> ToCome(0, e)
      /\ \A e, r : Beneath(e, r) => Beneath(e, r)'
      /\ Matches(view)' = Matches(view) /\ (Plain' => Plain)
  BY <1>1 DEF ToCome, Renewed, Announced, Beneath, StandsFor, Held, Key, Matches, Plain
<1>4. Fitting'
  BY <1>1, <1>2 DEF ListInv, Fitting, OfKind
<1>5. Divided'
  <2> SUFFICES ASSUME Plain, NEW e \in Matches(view), ~OnList(e)'
               PROVE  /\ ~exhausted'
                      /\ \A i \in DOMAIN rows' : Beneath(e, rows[i])'
                      /\ oldest' # None => Beneath(e, oldest)'
    BY <1>3 DEF Divided
  <2>1. /\ ~exhausted
        /\ \A i \in DOMAIN rows : Beneath(e, rows[i])
        /\ oldest # None => Beneath(e, oldest)
    BY <1>1, <1>3 DEF ListInv, Divided, OnList
  <2>2. ASSUME NEW i \in DOMAIN rows' PROVE Beneath(e, rows[i])'
    <3>1. PICK r : r = rows'[i] /\ Beneath(e, r)
      BY <1>1, <2>1, <2>2
    <3> QED BY <1>3, <3>1 DEF Beneath
  <2>3. oldest' # None => Beneath(e, oldest)'
    <3>1. PICK r : r = oldest /\ r = oldest'
      BY <1>1
    <3>2. Beneath(e, r) => Beneath(e, r)'
      BY <1>3
    <3> QED BY <2>1, <3>1, <3>2 DEF Beneath
  <2> QED BY <1>1, <2>1, <2>2, <2>3
<1>6. PageDivided'
  <2> SUFFICES ASSUME Plain', ~stale, NEW e \in Matches(view), ~OnList(e)',
                      e \notin Shown(asked'.items)
               PROVE  asked'.more /\ \A i \in DOMAIN asked'.items : Beneath(e, asked.items[i])'
    BY <1>1, <1>3 DEF PageDivided
  <2>1. Plain /\ ~OnList(e) /\ ~Gone(asked.view, asked.before)
    BY <1>1, <1>3 DEF OnList, Plain
  <2>2. /\ asked.view.pinned = view.pinned /\ asked.view.kind = view.kind
        /\ ~asked.view.query /\ asked.before = oldest
    BY <1>1, <2>1 DEF ListInv, Fitting, SameTab, Plain
  <2>3. e \in Matches(asked.view)
    BY <2>2 DEF Matches
  <2>4. e \in Past(asked.before)
    <3> SUFFICES ASSUME asked.before # None, e \notin Past(asked.before) PROVE FALSE
      BY DEF Past, Matches
    <3>1. Beneath(e, oldest)
      BY <2>1, <2>2 DEF ListInv, Divided
    <3>2. StandsFor(oldest.id, oldest.copy, view.pinned)
      BY <2>1, <2>2 DEF Gone, StandsFor
    <3>3. Behind(Key(e), Key(asked.before.id)) /\ asked.before.id \in Held
      BY <2>2, <3>1, <3>2 DEF Beneath, StandsFor
    <3> QED BY <3>3 DEF Past, Matches
  <2>5. asked'.more /\ \A i \in DOMAIN asked'.items : Behind(Key(e), Key(asked'.items[i].id))
    BY <1>2, <2>3, <2>4
  <2>6. ASSUME NEW i \in DOMAIN asked'.items PROVE Beneath(e, asked.items[i])'
    <3>1. PICK r : r = asked'.items[i] /\ Beneath(e, r)
      BY <2>5, <2>6 DEF Beneath
    <3> QED BY <1>3, <3>1 DEF Beneath
  <2> QED BY <2>5, <2>6
<1> QED BY <1>4, <1>5, <1>6

(* What is told stays told while the events and the archive stay. *)
LEMMA ToldStays ==
  ASSUME UNCHANGED <<shelf, events>>
  PROVE  /\ Returned => Returned'
         /\ Topmost => Topmost'
         /\ \A i, e : ToCome(i, e)' <=> ToCome(i, e)
<1>1. \A i, e : ToCome(i, e)' <=> ToCome(i, e)
  BY DEF ToCome, Renewed, Announced, StandsFor, Held
<1> QED BY <1>1 DEF Returned, Topmost, StandsFor, Held, Key

(* Every step keeps the list divided. *)
LEMMA StepDivides == IndInv /\ ListInv /\ [Next]_vars => ListInv'
<1> SUFFICES ASSUME IndInv, ListInv, [Next]_vars PROVE ListInv'
  OBVIOUS
<1> USE DEF wire, screen, list
<1>1. TypeOK /\ Severed /\ SameTab
  BY DEF IndInv
<1>2. linked \in BOOLEAN /\ TRUE \in BOOLEAN /\ view \in View
  BY <1>1 DEF TypeOK
<1>3. ASSUME NEW v \in View, NEW connected \in BOOLEAN, Refresh(v, connected), view' = v,
             UNCHANGED <<shelf, events>>
      PROVE  ListInv'
  BY <1>1, <1>3, RefreshDivides, ToldStays DEF ListInv
<1>4. ASSUME UNCHANGED <<shelf, events>>, Fitting', ~Plain' PROVE ListInv'
  BY <1>4, ToldStays DEF ListInv, Divided, PageDivided
<1>5. CASE Open
  BY <1>2, <1>3, <1>5 DEF Open
<1>6. CASE Close
  <2>1. UNCHANGED <<shelf, events, list>> /\ open' = FALSE /\ view'.kind = view.kind
    BY <1>2, <1>6 DEF Close, View
  <2> QED BY <1>4, <2>1 DEF ListInv, Fitting, OfKind, Plain, Loading
<1>7. CASE Type
  <2>1. UNCHANGED <<shelf, events, open, list>> /\ due' = TRUE /\ view'.kind = view.kind
    BY <1>2, <1>7 DEF Type, View
  <2> QED BY <1>4, <2>1 DEF ListInv, Fitting, OfKind, Plain, Loading
<1>8. CASE LoadMore
  <2>1. /\ asked' = Request(view, oldest)
        /\ UNCHANGED <<shelf, events, linked, open, view, due, rows, oldest, exhausted, stale, lost>>
    BY <1>8 DEF LoadMore
  <2>2. /\ asked' # None /\ asked'.view = view /\ asked'.read = FALSE
        /\ asked'.items = << >> /\ asked'.before = oldest
    BY <1>1, <2>1, Requested DEF TypeOK, Request
  <2>3. Fitting'
    BY <2>1, <2>2 DEF ListInv, Fitting, OfKind
  <2>4. PageDivided'
    BY <2>2 DEF PageDivided
  <2>5. Divided'
    BY <2>1, ToldStays DEF ListInv, Divided, OnList, Beneath, StandsFor, Held, Key, Matches, Plain
  <2> QED BY <2>1, <2>3, <2>4, <2>5, ToldStays DEF ListInv
<1>9. ASSUME NEW v \in View, Choose(v) PROVE ListInv'
  BY <1>2, <1>3, <1>9 DEF Choose
<1>10. CASE Serve
  <2>1. UNCHANGED <<shelf, events>>
    BY <1>10 DEF Serve
  <2> QED BY <1>1, <1>10, <2>1, ServeDivides, ToldStays DEF ListInv
<1>11. CASE Arrive
  <2>1. UNCHANGED <<shelf, events>>
    BY <1>11 DEF Arrive
  <2> QED BY <1>1, <1>11, <2>1, ArriveDivides, ToldStays DEF ListInv
<1>12. CASE Refused
  <2>1. /\ Settle
        /\ UNCHANGED <<shelf, events, linked, open, view, due, rows, oldest, exhausted, lost>>
    BY <1>12 DEF Refused
  <2>2. Loading' => /\ asked'.view = view /\ asked'.read = FALSE
                    /\ asked'.items = << >> /\ asked'.before = oldest
    BY <1>1, <2>1, SettleFits
  <2>3. Fitting'
    BY <2>1, <2>2 DEF ListInv, Fitting, OfKind
  <2>4. PageDivided'
    BY <2>2 DEF PageDivided
  <2>5. Divided'
    BY <2>1, ToldStays DEF ListInv, Divided, OnList, Beneath, StandsFor, Held, Key, Matches, Plain
  <2> QED BY <2>1, <2>3, <2>4, <2>5, ToldStays DEF ListInv
<1>13. CASE Search
  BY <1>2, <1>3, <1>13 DEF Search
<1>14. CASE Disconnect
  <2>1. /\ events' = << >> /\ linked' = FALSE /\ asked' = None
        /\ DOMAIN events' = {} /\ UNCHANGED <<view, rows>>
    BY <1>14 DEF Disconnect
  <2> QED BY <2>1 DEF ListInv, Returned, Topmost, Fitting, OfKind, Divided, PageDivided, Plain, Loading
<1>15. CASE Connect
  <2>1. UNCHANGED <<shelf, events, open, view, due>>
    BY <1>15 DEF Connect
  <2>2. CASE open
    BY <1>2, <1>3, <1>15, <2>1, <2>2 DEF Connect
  <2>3. CASE ~open
    <3>1. UNCHANGED list
      BY <1>15, <2>3 DEF Connect
    <3> QED BY <1>4, <2>1, <2>3, <3>1 DEF ListInv, Fitting, OfKind, Plain, Loading
  <2> QED BY <2>2, <2>3
<1>16. CASE UNCHANGED vars
  <2>1. UNCHANGED <<shelf, events, linked, open, view, due, list>>
    BY <1>16 DEF vars
  <2>2. Fitting'
    BY <2>1 DEF ListInv, Fitting, OfKind, Loading
  <2>3. Divided' /\ PageDivided'
    BY <2>1, ToldStays
       DEF ListInv, Divided, PageDivided, OnList, Beneath, StandsFor, Held, Key, Matches, Plain, Loading
  <2> QED BY <2>1, <2>2, <2>3, ToldStays DEF ListInv
<1> QED BY <1>1, <1>5, <1>6, <1>7, <1>8, <1>9, <1>10, <1>11, <1>12, <1>13, <1>14, <1>15, <1>16,
           ChangeDivides, HearDivides DEF Next, User

(* At rest the list shows the newest of what belongs on it, and all of it  *)
(* once it takes itself to be complete, however pages, broadcasts and      *)
(* changes of the archive were interleaved.                                *)
THEOREM ListIsRight == Spec => []ListRight
<1>1. Init => ListInv
  <2> SUFFICES ASSUME Init PROVE ListInv
    OBVIOUS
  <2>1. DOMAIN events = {} /\ DOMAIN rows = {}
    BY DEF Init
  <2> QED BY <2>1 DEF Init, ListInv, Returned, Topmost, Fitting, OfKind, Divided, PageDivided,
                     Plain, Loading
<1>2. IndInv /\ ListInv => ListRight
  <2> SUFFICES ASSUME IndInv, ListInv, Quiet, ~view.query, ghosts = {}, ~lost
               PROVE  /\ Shown(rows) \subseteq Matches(view)
                      /\ \A e \in Matches(view) \ Shown(rows), o \in Shown(rows) :
                           Behind(Key(e), Key(o))
                      /\ exhausted => Shown(rows) = Matches(view)
    BY DEF ListRight
  <2>1. Plain /\ DOMAIN events = {}
    BY DEF Plain, Quiet
  <2>2. \A i \in DOMAIN rows : /\ StandsFor(rows[i].id, rows[i].copy, view.pinned)
                              /\ (view.kind = None \/ Kind[rows[i].copy] = view.kind)
    <3>1. \A i \in DOMAIN rows : StandsFor(rows[i].id, rows[i].copy, view.pinned)
      BY <2>1 DEF IndInv, Truthful, EndedAfter, Plain
    <3> QED BY <3>1 DEF ListInv, Fitting, OfKind
  <2>3. Shown(rows) \subseteq Matches(view)
    <3>1. ASSUME NEW i \in DOMAIN rows PROVE rows[i].id \in Matches(view)
      BY <2>2, <3>1 DEF Matches, StandsFor
    <3> QED BY <3>1 DEF Shown
  <2>4. \A e : OnList(e) => e \in Shown(rows)
    BY <2>1 DEF OnList, ToCome, Renewed, Announced
  <2>5. ASSUME NEW e \in Matches(view) \ Shown(rows)
        PROVE  ~exhausted /\ \A o \in Shown(rows) : Behind(Key(e), Key(o))
    <3>1. ~exhausted /\ \A i \in DOMAIN rows : Beneath(e, rows[i])
      BY <2>1, <2>4, <2>5 DEF ListInv, Divided
    <3> QED BY <2>2, <3>1 DEF Beneath, Shown
  <2> QED BY <2>3, <2>5
<1> QED BY <1>1, <1>2, StepDivides, StepKeeps, PickerInvariant, PTL DEF Spec

-----------------------------------------------------------------------------
(* EXTENSION *)

(* A job's operations and frames, beside the picker's and the greeting.    *)
IsJobs(op) == op \notin {"query", "hello"}

(* What the stream is in the middle of behind a frame.                     *)
Midst(op) == IF op \in {"head", "chunk"} THEN op ELSE "none"
Before(u, start, i) == IF i = 1 THEN start ELSE Midst(u[i - 1].op)

(* A frame may come there.  A part that is spoilt may end without a chunk. *)
Fits(op, was, bad) ==
  /\ op = "chunk" => was = "head"
  /\ op = "end" => was = "chunk" \/ (was = "head" /\ bad)
  /\ op \notin {"chunk", "end"} => was = "none"

Grammatical(u, start, bad) ==
  \A i \in DOMAIN u : Fits(u[i].op, Before(u, start, i), bad)
Finally(u, start) == Before(u, start, Len(u) + 1)

(* Behind a request that opens or closes a draft comes nothing of a job's, *)
(* and there is one part at a time.                                        *)
Trails(op, next) ==
  /\ op \in {"begin", "commit", "abort"} => ~IsJobs(next)
  /\ op = "head" => next # "head"
Trailing(u) == \A i, k \in DOMAIN u : i < k => Trails(u[i].op, u[k].op)

(* One operation of a job's at most, and only the first one is under way.  *)
OneJob(q) ==
  /\ \A i, k \in DOMAIN q : IsJobs(q[i].op) /\ IsJobs(q[k].op) => i = k
  /\ \A i \in DOMAIN q : i > 1 => q[i].op \notin {"chunk", "end"}

-----------------------------------------------------------------------------
(* The invariant. *)

Bodies == Contents \cup {Nothing}
Operations ==
  [link : 0 .. MaxLinks, op : {"begin", "part", "chunk", "end", "commit", "abort", "query"},
   req : Nat, draft : Nat, content : Bodies]
Requests_ == {"begin", "commit", "abort", "query"}
Frames ==
  [op : {"hello", "chunk", "end"}]
    \cup [op : Requests_, req : Nat, draft : Nat]
    \cup [op : {"head"}, req : Nat, draft : Nat, content : Bodies]
Replies == [req : Nat, ok : BOOLEAN, draft : Nat]
Parts == [content : Bodies, whole : BOOLEAN]
JobStates ==
  [stage : Stages, draft : Nat, done : 0 .. Wanted, req : Nat,
   got : {"none", "ok", "failed"}, any : BOOLEAN]
Openings == UNION {[D -> SUBSET Parts] : D \in SUBSET Nat}
Ends_ ==
  [state : {"none", "backlog", "served", "ended"}, next : Nat \ {0}, drafts : Openings,
   part : Nat, req : Nat, content : Bodies, whole : BOOLEAN]

Typed ==
  /\ copy \in 0 .. MaxCopies /\ queries \in 0 .. MaxQueries
  /\ jobs \in [Jobs -> JobStates]
  /\ link \in 0 .. MaxLinks /\ links \in 0 .. MaxLinks /\ greeted \in BOOLEAN
  /\ pending \in SUBSET (Nat \ {0}) /\ nextReq \in Nat \ {0}
  /\ chain \in Seq(Operations)
  /\ up \in [Links -> Seq(Frames)] /\ down \in [Links -> Seq(Replies)]
  /\ session \in [Links -> Ends_]
  /\ archived \in SUBSET SUBSET Parts

(* What is queued, and what is under way on the connection. *)
Chained == Seqs!ToSet(chain)
Coming == Seqs!ToSet(up[link])
Going == Seqs!ToSet(down[link])

(* The connection that stands is the last one made, and has nothing of an  *)
(* earlier one; its first answer is the greeting.                          *)
Standing(l) == session[l].state \in {"backlog", "served"}
Alive == link # 0 /\ Standing(link)

Linked ==
  /\ link = 0 \/ link = links
  /\ \A l \in Links :
       /\ Standing(l) => l = link
       /\ session[l].state = "none" <=> l > links
       /\ l > links => down[l] = << >>
       /\ session[l].req = 0 => ~session[l].whole
       /\ session[l].state # "served" => session[l].req = 0 /\ DOMAIN session[l].drafts = {}

Greeting ==
  ~greeted /\ Alive =>
    \/ down[link] = << >> /\ up[link] # << >> /\ Head(up[link]).op = "hello"
    \/ down[link] # << >> /\ Head(down[link]).req = 0

(* One job is at work at a time, and what it waits for is pending.         *)
Waiting(j) == jobs[j].stage \in Waits
Active(j) == Waiting(j) \/ jobs[j].stage = "next"

Turns ==
  \A j \in Jobs :
    /\ jobs[j].stage # "idle" => j <= copy
    /\ Active(j) => \A i \in Jobs : i < j => jobs[i].stage = "done"
    /\ Waiting(j) => jobs[j].req # 0 /\ (jobs[j].got = "none" => jobs[j].req \in pending)
    /\ jobs[j].stage = "next" => jobs[j].got = "ok"
    /\ ~Active(j) => jobs[j].req = 0 /\ jobs[j].got = "none"

(* The stream is grammatical up to where the chain has come, and a job's   *)
(* draft is closed by the last of its frames.                              *)
Reading ==
  IF InPart(link) THEN IF session[link].whole THEN "chunk" ELSE "head" ELSE "none"
Writing ==
  IF chain # << >> /\ Running.link = link
  THEN IF Running.op = "chunk" THEN "head" ELSE IF Running.op = "end" THEN "chunk" ELSE "none"
  ELSE "none"
Spoilt ==
  \E j \in Jobs : jobs[j].stage = "abort" \/ (jobs[j].stage = "part" /\ jobs[j].got = "failed")

Stream ==
  Alive =>
    /\ Grammatical(up[link], Reading, Spoilt)
    /\ Finally(up[link], Reading) = Writing
    /\ Trailing(up[link])

(* A frame is taken that has its place.                                    *)
Proper(l) ==
  /\ session[l].state = "served" /\ up[l] # <<>> /\ up' = [up EXCEPT ![l] = Tail(@)]
  /\ UNCHANGED <<capture, client, exiting>>
  /\ InPart(l) <=> Frame(l).op \in {"chunk", "end"}
  /\ \/ TakeHello(l) \/ TakeBegin(l) \/ TakeHead(l) \/ TakeChunk(l) \/ TakeEnd(l)
     \/ TakeCommit(l) \/ TakeAbort(l) \/ TakeQuery(l)

(* Request numbers are used once. *)
Numbered(req) == 0 < req /\ req < nextReq
Foreign(req) == \A j \in Jobs : req # jobs[j].req

Fresh ==
  /\ \A j \in Jobs : jobs[j].req < nextReq
  /\ \A x \in Chained :
       Numbered(x.req) /\ x.link <= links /\ (x.op = "query" => Foreign(x.req))
  /\ link # 0 => \A x \in Going : x.req < nextReq
  /\ Alive =>
       /\ session[link].req < nextReq
       /\ \A f \in Coming :
            /\ f.op \in Requests_ \cup {"head"} => Numbered(f.req)
            /\ f.op = "query" => Foreign(f.req)

(* Nothing of a job's is queued; nothing of one is on the connection.      *)
Unqueued == \A x \in Chained : ~IsJobs(x.op)
Calm == ~InPart(link) /\ \A f \in Coming : ~IsJobs(f.op)
Drafts == DOMAIN session[link].drafts
Answers(j) == {x \in Going : x.req = jobs[j].req}

Idle ==
  (\A j \in Jobs : ~Active(j)) => Unqueued /\ (Alive => Calm /\ Drafts = {})

(* What is queued of the job at work.                                      *)
OpsOf(stage) == IF stage = "part" THEN {"part", "chunk", "end"} ELSE {stage}
Queued(j) ==
  /\ \A x \in Chained : IsJobs(x.op) =>
       /\ Waiting(j) /\ x.req = jobs[j].req /\ x.op \in OpsOf(jobs[j].stage)
       /\ x.op # "begin" => x.draft = jobs[j].draft
       /\ x.op = "part" => x.content.job = j
       /\ Alive /\ x.link = link => jobs[j].got = "none" /\ (x.op = "part" => Calm)
  /\ jobs[j].stage = "next" \/ (Waiting(j) /\ jobs[j].got = "ok") => Unqueued
  /\ Waiting(j) /\ link # 0 /\ Answers(j) # {} => Unqueued

(* What is on its way to the daemon.                                       *)
Sent(j) ==
  \A f \in Coming :
    /\ f.op \in {"begin", "commit", "abort"} =>
         /\ Unqueued
         /\ jobs[j].stage = f.op /\ jobs[j].req = f.req /\ jobs[j].got = "none"
         /\ f.op # "begin" => f.draft = jobs[j].draft
    /\ f.op = "head" =>
         /\ jobs[j].stage \in {"part", "abort"}
         /\ jobs[j].stage = "part" <=> f.req = jobs[j].req
         /\ f.draft = jobs[j].draft /\ f.content.job = j

(* What the daemon is in the middle of.                                    *)
Received(j) ==
  InPart(link) =>
    /\ jobs[j].stage \in {"part", "abort"}
    /\ jobs[j].stage = "part" <=> session[link].req = jobs[j].req
    /\ session[link].part = jobs[j].draft /\ session[link].content.job = j
    /\ \A f \in Coming : f.op # "head"

Answered_(j) ==
  jobs[j].stage = "next" \/ (Waiting(j) /\ (jobs[j].got = "ok" \/ Answers(j) # {})) => Calm

(* Whose draft is open, and what is in it.                                 *)
Opened(j) ==
  /\ jobs[j].stage = "begin" /\ jobs[j].got # "ok" =>
       /\ Answers(j) = {} => Drafts = {}
       /\ \A x \in Answers(j) : /\ jobs[j].got = "none" /\ x.ok
                               /\ x.draft # 0 /\ Drafts = {x.draft}
  /\ jobs[j].stage # "begin" \/ jobs[j].got = "ok" => Drafts \subseteq {jobs[j].draft}
  /\ Waiting(j) /\ jobs[j].stage # "begin" => \A x \in Answers(j) : x.draft = 0
  /\ jobs[j].stage \in {"commit", "abort"} /\ (Drafts # {} \/ ~Calm) =>
       ~Unqueued \/ \E f \in Coming : f.op = jobs[j].stage
  /\ Drafts # {} \/ ~Calm =>
       \A x \in Chained : IsJobs(x.op) => x.link = link
  /\ \A d \in Drafts : \A p \in session[link].drafts[d] :
       p.content.job = j /\ (p.whole \/ Spoilt)

Mine(j) == Queued(j) /\ (Alive => Sent(j) /\ Received(j) /\ Answered_(j) /\ Opened(j))

Kept ==
  /\ Linked /\ Greeting /\ Turns /\ OneJob(chain) /\ Fresh /\ Stream /\ Idle
  /\ \A j \in Jobs : Active(j) => Mine(j)
  /\ OneDraft /\ illegal = {}
ExtInd == Typed /\ Kept

-----------------------------------------------------------------------------
(* Sequences. *)

(* What is left when the first one is taken.                               *)
LEMMA TailOf ==
  ASSUME NEW S, NEW q \in Seq(S), q # << >>
  PROVE  /\ Tail(q) \in Seq(S) /\ Head(q) \in S /\ Head(q) = q[1] /\ 1 \in DOMAIN q
         /\ Len(q) \in Nat \ {0} /\ Len(Tail(q)) = Len(q) - 1
         /\ DOMAIN q = 1 .. Len(q) /\ DOMAIN Tail(q) = 1 .. Len(q) - 1
         /\ \A i \in DOMAIN Tail(q) : i + 1 \in DOMAIN q /\ Tail(q)[i] = q[i + 1]
OBVIOUS

(* What is there when one was added.                                       *)
LEMMA AppendOf ==
  ASSUME NEW S, NEW q \in Seq(S), NEW x \in S
  PROVE  /\ Append(q, x) \in Seq(S) /\ Len(q) \in Nat
         /\ DOMAIN q = 1 .. Len(q) /\ DOMAIN Append(q, x) = 1 .. Len(q) + 1
         /\ Len(Append(q, x)) = Len(q) + 1
         /\ \A i \in DOMAIN q : Append(q, x)[i] = q[i]
         /\ Append(q, x)[Len(q) + 1] = x
OBVIOUS

(* The first one stays the first.                                          *)
LEMMA HeadOfAppend ==
  ASSUME NEW S, NEW q \in Seq(S), NEW x \in S
  PROVE  /\ Append(q, x) # << >>
         /\ Head(Append(q, x)) = IF q = << >> THEN x ELSE Head(q)
<1>1. /\ Append(q, x) # << >> /\ Head(Append(q, x)) = Append(q, x)[1]
      /\ 1 \in DOMAIN Append(q, x)
  BY AppendOf
<1>2. CASE q = << >>
  BY <1>1, <1>2, AppendOf
<1>3. CASE q # << >>
  BY <1>1, <1>3, AppendOf, TailOf
<1> QED BY <1>1, <1>2, <1>3

(* The first one is a member, and so are those behind it.                  *)
LEMMA MembersOfTail ==
  ASSUME NEW S, NEW q \in Seq(S), q # << >>
  PROVE  Seqs!ToSet(q) = {Head(q)} \cup Seqs!ToSet(Tail(q))
<1>1. \A x : x \in Seqs!ToSet(q) => x = Head(q) \/ x \in Seqs!ToSet(Tail(q))
  <2>1. ASSUME NEW i \in DOMAIN q, i # 1 PROVE i - 1 \in DOMAIN Tail(q) /\ Tail(q)[i - 1] = q[i]
    BY <2>1, TailOf
  <2> QED BY <2>1, TailOf DEF Seqs!ToSet
<1>2. \A x : x \in Seqs!ToSet(Tail(q)) => x \in Seqs!ToSet(q)
  BY TailOf DEF Seqs!ToSet
<1>3. Head(q) \in Seqs!ToSet(q)
  BY TailOf DEF Seqs!ToSet
<1> QED BY <1>1, <1>2, <1>3

(* What is added is a member, and nothing else becomes one.                *)
LEMMA MembersOfAppend ==
  ASSUME NEW S, NEW q \in Seq(S), NEW x \in S
  PROVE  Seqs!ToSet(Append(q, x)) = Seqs!ToSet(q) \cup {x}
<1>1. \A i : i \in DOMAIN Append(q, x) <=> i \in DOMAIN q \/ i = Len(q) + 1
  BY AppendOf
<1> QED BY <1>1, AppendOf DEF Seqs!ToSet

(* A stream from which a frame is taken is one from behind the frame.      *)
LEMMA GrammarTail ==
  ASSUME NEW S, NEW u \in Seq(S), u # << >>, NEW start, NEW bad, Grammatical(u, start, bad)
  PROVE  /\ Fits(Head(u).op, start, bad)
         /\ Grammatical(Tail(u), Midst(Head(u).op), bad)
         /\ Finally(Tail(u), Midst(Head(u).op)) = Finally(u, start)
<1> DEFINE t == Tail(u)
           now == Midst(Head(u).op)
<1>1. /\ Head(u) = u[1] /\ 1 \in DOMAIN u /\ Len(u) \in Nat \ {0} /\ Len(t) = Len(u) - 1
      /\ DOMAIN t = 1 .. Len(u) - 1
      /\ \A i \in DOMAIN t : i + 1 \in DOMAIN u /\ t[i] = u[i + 1]
  BY TailOf
<1>2. ASSUME NEW i \in 1 .. Len(u) PROVE Before(t, now, i) = Before(u, start, i + 1)
  <2>1. CASE i = 1
    BY <1>1, <2>1 DEF Before
  <2>2. CASE i # 1
    <3>1. i - 1 \in DOMAIN t /\ (i - 1) + 1 = i /\ (i + 1) - 1 = i /\ i + 1 # 1
      BY <1>1, <2>2
    <3> QED BY <1>1, <2>2, <3>1 DEF Before
  <2> QED BY <2>1, <2>2
<1>3. Fits(Head(u).op, start, bad)
  BY <1>1 DEF Grammatical, Before
<1>4. Grammatical(t, now, bad)
  <2>1. SUFFICES ASSUME NEW i \in DOMAIN t PROVE Fits(t[i].op, Before(t, now, i), bad)
    BY DEF Grammatical
  <2>2. i \in 1 .. Len(u) /\ i + 1 \in DOMAIN u /\ t[i] = u[i + 1]
    BY <1>1
  <2> HIDE DEF t, now
  <2> QED BY <1>2, <2>2 DEF Grammatical
<1>5. Finally(t, now) = Finally(u, start)
  <2>1. Len(t) + 1 = Len(u) /\ Len(u) \in 1 .. Len(u)
    BY <1>1
  <2> HIDE DEF t, now
  <2> QED BY <1>2, <2>1 DEF Finally
<1> QED BY <1>3, <1>4, <1>5

(* A frame that fits is put at the end of the stream.                      *)
LEMMA GrammarAppend ==
  ASSUME NEW S, NEW u \in Seq(S), NEW f \in S, NEW start, NEW bad, Grammatical(u, start, bad),
         Fits(f.op, Finally(u, start), bad)
  PROVE  /\ Grammatical(Append(u, f), start, bad)
         /\ Finally(Append(u, f), start) = Midst(f.op)
<1> DEFINE t == Append(u, f)
<1>1. /\ Len(u) \in Nat /\ Len(t) = Len(u) + 1 /\ DOMAIN u = 1 .. Len(u)
      /\ DOMAIN t = 1 .. Len(u) + 1 /\ t[Len(u) + 1] = f
      /\ \A i \in DOMAIN u : t[i] = u[i]
  BY AppendOf
<1> HIDE DEF t
<1>2. ASSUME NEW i \in DOMAIN t PROVE Before(t, start, i) = Before(u, start, i)
  <2>1. i = 1 \/ (i # 1 /\ i - 1 \in DOMAIN u)
    BY <1>1
  <2> QED BY <1>1, <2>1 DEF Before
<1>3. Grammatical(t, start, bad)
  <2>1. ASSUME NEW i \in DOMAIN t PROVE Fits(t[i].op, Before(t, start, i), bad)
    <3>1. CASE i \in DOMAIN u
      BY <1>1, <1>2, <3>1 DEF Grammatical
    <3>2. CASE i = Len(u) + 1
      BY <1>1, <1>2, <3>2 DEF Finally
    <3> QED BY <1>1, <3>1, <3>2
  <2> QED BY <2>1 DEF Grammatical
<1>4. Finally(t, start) = Midst(f.op)
  <2>1. (Len(u) + 1) + 1 # 1 /\ ((Len(u) + 1) + 1) - 1 = Len(u) + 1
    BY <1>1
  <2> QED BY <1>1, <2>1 DEF Finally, Before
<1> QED BY <1>3, <1>4 DEF t

(* What is spoilt matters only where there is something of a job's.        *)
LEMMA GrammarAnyhow ==
  ASSUME NEW u, NEW start, NEW bad, NEW worse, Grammatical(u, start, bad),
         (bad => worse) \/ \A f \in Seqs!ToSet(u) : ~IsJobs(f.op)
  PROVE  Grammatical(u, start, worse)
BY DEF Grammatical, Fits, Seqs!ToSet, IsJobs

(* What comes behind a frame still does when the frame is taken.           *)
LEMMA TrailingTail ==
  ASSUME NEW S, NEW u \in Seq(S), u # << >>, Trailing(u)
  PROVE  Trailing(Tail(u)) /\ \A f \in Seqs!ToSet(Tail(u)) : Trails(Head(u).op, f.op)
<1>1. /\ Head(u) = u[1] /\ 1 \in DOMAIN u /\ DOMAIN Tail(u) \subseteq Nat \ {0}
      /\ \A i \in DOMAIN Tail(u) : i + 1 \in DOMAIN u /\ Tail(u)[i] = u[i + 1]
  BY TailOf
<1>2. Trailing(Tail(u))
  <2>1. SUFFICES ASSUME NEW i \in DOMAIN Tail(u), NEW k \in DOMAIN Tail(u), i < k
                 PROVE  Trails(Tail(u)[i].op, Tail(u)[k].op)
    BY DEF Trailing
  <2>2. i + 1 < k + 1
    BY <1>1, <2>1
  <2> QED BY <1>1, <2>1, <2>2 DEF Trailing
<1>3. ASSUME NEW i \in DOMAIN Tail(u) PROVE Trails(Head(u).op, Tail(u)[i].op)
  <2>1. 1 < i + 1
    BY <1>1
  <2> QED BY <1>1, <2>1 DEF Trailing
<1> QED BY <1>2, <1>3 DEF Seqs!ToSet

(* A frame is sent that may come behind each of those before it.           *)
LEMMA TrailingAppend ==
  ASSUME NEW S, NEW u \in Seq(S), NEW f \in S, Trailing(u),
         \A g \in Seqs!ToSet(u) : Trails(g.op, f.op)
  PROVE  Trailing(Append(u, f))
<1> DEFINE t == Append(u, f)
<1>1. /\ Len(u) \in Nat /\ DOMAIN u = 1 .. Len(u)
      /\ DOMAIN t = 1 .. Len(u) + 1 /\ t[Len(u) + 1] = f
      /\ \A i \in DOMAIN u : t[i] = u[i]
  BY AppendOf
<1> HIDE DEF t
<1>2. SUFFICES ASSUME NEW i \in DOMAIN t, NEW k \in DOMAIN t, i < k
               PROVE  Trails(t[i].op, t[k].op)
  BY DEF Trailing, t
<1>3. i \in DOMAIN u
  BY <1>1, <1>2
<1>4. CASE k \in DOMAIN u
  BY <1>1, <1>2, <1>3, <1>4 DEF Trailing
<1>5. CASE k = Len(u) + 1
  BY <1>1, <1>2, <1>3, <1>5 DEF Seqs!ToSet
<1> QED BY <1>1, <1>4, <1>5

(* Where no part has begun there is nothing of one, up to the end.         *)
LEMMA GrammarCalm ==
  ASSUME NEW S, NEW u \in Seq(S), NEW bad, Grammatical(u, "none", bad),
         \A f \in Seqs!ToSet(u) : f.op # "head"
  PROVE  /\ \A f \in Seqs!ToSet(u) : f.op \notin {"chunk", "end"}
         /\ Finally(u, "none") = "none"
<1>1. DOMAIN u = 1 .. Len(u) /\ Len(u) \in Nat /\ \A i \in DOMAIN u : u[i].op # "head"
  BY DEF Seqs!ToSet
<1>2. ASSUME NEW i \in 1 .. Len(u) + 1 PROVE i = 1 \/ i - 1 \in DOMAIN u
  BY <1>1
<1>3. ASSUME NEW i \in 1 .. Len(u) + 1 PROVE Before(u, "none", i) # "head"
  BY <1>1, <1>2 DEF Before, Midst
<1>4. ASSUME NEW i \in DOMAIN u PROVE u[i].op # "chunk"
  BY <1>1, <1>3 DEF Grammatical, Fits
<1>5. ASSUME NEW i \in 1 .. Len(u) + 1 PROVE Before(u, "none", i) = "none"
  BY <1>1, <1>2, <1>4 DEF Before, Midst
<1>6. ASSUME NEW i \in DOMAIN u PROVE u[i].op # "end"
  BY <1>1, <1>5 DEF Grammatical, Fits
<1>7. Finally(u, "none") = "none"
  BY <1>1, <1>5 DEF Finally
<1> QED BY <1>4, <1>6, <1>7 DEF Seqs!ToSet

(* Without its first operation the chain has none under way, and no other  *)
(* of a job's.                                                             *)
LEMMA OneJobTail ==
  ASSUME NEW S, NEW q \in Seq(S), q # << >>, OneJob(q)
  PROVE  /\ OneJob(Tail(q))
         /\ \A x \in Seqs!ToSet(Tail(q)) :
              /\ x.op \notin {"chunk", "end"}
              /\ IsJobs(Head(q).op) => ~IsJobs(x.op)
<1>1. /\ Head(q) = q[1] /\ 1 \in DOMAIN q /\ DOMAIN Tail(q) \subseteq Nat \ {0}
      /\ \A i \in DOMAIN Tail(q) : i + 1 \in DOMAIN q /\ Tail(q)[i] = q[i + 1]
  BY TailOf
<1>2. ASSUME NEW i \in DOMAIN Tail(q), NEW k \in DOMAIN Tail(q),
             IsJobs(Tail(q)[i].op), IsJobs(Tail(q)[k].op)
      PROVE  i = k
  <2>1. i + 1 = k + 1
    BY <1>1, <1>2 DEF OneJob
  <2> QED BY <1>1, <2>1
<1>3. ASSUME NEW i \in DOMAIN Tail(q)
      PROVE  /\ Tail(q)[i].op \notin {"chunk", "end"}
             /\ IsJobs(Head(q).op) => ~IsJobs(Tail(q)[i].op)
  <2>1. i + 1 > 1 /\ i + 1 # 1
    BY <1>1
  <2> QED BY <1>1, <2>1 DEF OneJob
<1> QED BY <1>2, <1>3 DEF OneJob, Seqs!ToSet

(* A job queues its operation when the chain has no other of a job.        *)
LEMMA OneJobAppend ==
  ASSUME NEW S, NEW q \in Seq(S), NEW x \in S, OneJob(q), x.op \notin {"chunk", "end"},
         IsJobs(x.op) => \A y \in Seqs!ToSet(q) : ~IsJobs(y.op)
  PROVE  OneJob(Append(q, x))
<1> DEFINE t == Append(q, x)
<1>1. /\ Len(q) \in Nat /\ DOMAIN q = 1 .. Len(q)
      /\ DOMAIN t = 1 .. Len(q) + 1 /\ t[Len(q) + 1] = x
      /\ \A i \in DOMAIN q : t[i] = q[i]
  BY AppendOf
<1> HIDE DEF t
<1>2. \A i \in DOMAIN t : i \in DOMAIN q \/ i = Len(q) + 1
  BY <1>1
<1>3. \A i \in DOMAIN q : IsJobs(x.op) => ~IsJobs(q[i].op)
  BY DEF Seqs!ToSet
<1>4. \A i, k \in DOMAIN t : IsJobs(t[i].op) /\ IsJobs(t[k].op) => i = k
  BY <1>1, <1>2, <1>3 DEF OneJob
<1>5. \A i \in DOMAIN t : i > 1 => t[i].op \notin {"chunk", "end"}
  BY <1>1, <1>2 DEF OneJob
<1> QED BY <1>4, <1>5 DEF OneJob, t

(* The first operation goes on.                                            *)
LEMMA ContinueOf ==
  ASSUME NEW S, NEW q \in Seq(S), q # << >>, NEW x \in S, OneJob(q),
         IsJobs(Head(q).op)
  PROVE  /\ <<x>> \o Tail(q) \in Seq(S) /\ <<x>> \o Tail(q) # << >>
         /\ Head(<<x>> \o Tail(q)) = x
         /\ OneJob(<<x>> \o Tail(q))
         /\ Seqs!ToSet(<<x>> \o Tail(q)) = {x} \cup Seqs!ToSet(Tail(q))
<1> DEFINE t == <<x>> \o Tail(q)
<1>1. Tail(q) \in Seq(S) /\ Len(Tail(q)) \in Nat /\ DOMAIN Tail(q) = 1 .. Len(Tail(q))
  BY TailOf
<1>2. /\ t \in Seq(S) /\ t # << >> /\ Head(t) = x /\ t[1] = x
      /\ DOMAIN t = 1 .. Len(Tail(q)) + 1
      /\ \A i \in DOMAIN Tail(q) : t[i + 1] = Tail(q)[i]
  BY <1>1
<1> HIDE DEF t
<1>3. \A i \in DOMAIN t : i = 1 \/ (i - 1 \in DOMAIN Tail(q) /\ t[i] = Tail(q)[i - 1])
  <2>1. ASSUME NEW i \in DOMAIN t, i # 1 PROVE i - 1 \in DOMAIN Tail(q) /\ (i - 1) + 1 = i
    BY <1>1, <1>2, <2>1
  <2> QED BY <1>2, <2>1
<1>4. \A i \in DOMAIN t : i = 1 \/ t[i] \in Seqs!ToSet(Tail(q))
  BY <1>3 DEF Seqs!ToSet
<1>5. OneJob(t)
  BY <1>2, <1>4, OneJobTail DEF OneJob
<1>6. Seqs!ToSet(t) \subseteq {x} \cup Seqs!ToSet(Tail(q))
  BY <1>2, <1>4 DEF Seqs!ToSet
<1>7. x \in Seqs!ToSet(t)
  BY <1>1, <1>2 DEF Seqs!ToSet
<1>8. ASSUME NEW i \in DOMAIN Tail(q) PROVE Tail(q)[i] \in Seqs!ToSet(t)
  <2>1. i + 1 \in DOMAIN t /\ t[i + 1] = Tail(q)[i]
    BY <1>1, <1>2
  <2> QED BY <2>1 DEF Seqs!ToSet
<1>9. Seqs!ToSet(t) = {x} \cup Seqs!ToSet(Tail(q))
  BY <1>6, <1>7, <1>8 DEF Seqs!ToSet
<1> QED BY <1>2, <1>5, <1>9 DEF t

-----------------------------------------------------------------------------
(* Types. *)

(* What a job is told keeps its type.                                      *)
LEMMA SettledTyped ==
  ASSUME Typed, NEW R, NEW got \in {"ok", "failed"}, NEW d \in Nat
  PROVE  Settled(R, got, d) \in [Jobs -> JobStates]
<1>1. ASSUME NEW j \in Jobs
      PROVE  [jobs[j] EXCEPT !.got = got, !.draft = IF d = 0 THEN @ ELSE d] \in JobStates
  <2>1. jobs[j] \in JobStates
    BY DEF Typed
  <2>2. (IF d = 0 THEN jobs[j].draft ELSE d) \in Nat
    BY <2>1 DEF JobStates
  <2> QED BY <2>1, <2>2 DEF JobStates
<1> QED BY <1>1 DEF Settled, Typed

(* Writing, and failing to, keeps the types.                               *)
LEMMA ClientTyped ==
  ASSUME Typed, WriteRequest \/ RequestFails \/ WritePart \/ PartFails \/ StreamFails
  PROVE  Typed'
<1>1. chain # << >> /\ chain \in Seq(Operations) /\ Running \in Operations
      /\ Tail(chain) \in Seq(Operations)
  BY TailOf DEF Typed, WriteRequest, RequestFails, WritePart, PartFails, StreamFails, Running
<1>2. ASSUME NEW R, jobs' = Failed(R) PROVE jobs' \in [Jobs -> JobStates]
  BY <1>2, SettledTyped DEF Failed
<1>3. ASSUME NEW f \in Frames, link \in Links, Put(f) PROVE up' \in [Links -> Seq(Frames)]
  BY <1>3, AppendOf DEF Typed, Put
<1>4. CASE WriteRequest
  <2>1. [op |-> Running.op, req |-> Running.req, draft |-> Running.draft] \in Frames
    BY <1>1, <1>4 DEF WriteRequest, Frames, Operations, Requests_
  <2>2. link \in Links
    BY <1>4 DEF WriteRequest, Writable, Links, Typed
  <2> QED BY <1>1, <1>3, <1>4, <2>1, <2>2 DEF WriteRequest, Typed, capture, daemon
<1>5. CASE RequestFails
  BY <1>1, <1>2, <1>5 DEF RequestFails, Typed, wires, daemon
<1>6. CASE WritePart
  <2>1. link \in Links
    BY <1>6 DEF WritePart, Writable, Links, Typed
  <2>2. ASSUME NEW op \in {"chunk", "end"}, Continue(op) PROVE chain' \in Seq(Operations)
    BY <1>1, <2>2 DEF Continue, Operations
  <2>3. chain' \in Seq(Operations)
    BY <1>1, <1>6, <2>2 DEF WritePart
  <2>4. up' \in [Links -> Seq(Frames)]
    <3>1. [op |-> "chunk"] \in Frames /\ [op |-> "end"] \in Frames
      BY DEF Frames
    <3>2. [op |-> "head", req |-> Running.req, draft |-> Running.draft,
           content |-> Running.content] \in Frames
      BY <1>1 DEF Frames, Operations
    <3> QED BY <1>3, <1>6, <2>1, <3>1, <3>2 DEF WritePart
  <2> QED BY <1>6, <2>3, <2>4 DEF WritePart, Typed, capture, daemon
<1>7. CASE PartFails
  BY <1>1, <1>2, <1>7 DEF PartFails, Typed, wires, daemon
<1>8. CASE StreamFails
  <2>1. up' \in [Links -> Seq(Frames)]
    <3>1. [op |-> "end"] \in Frames
      BY DEF Frames
    <3>2. Writable(Running) => link \in Links
      BY DEF Writable, Links, Typed
    <3> QED BY <1>3, <1>8, <3>1, <3>2 DEF StreamFails, Typed
  <2> QED BY <1>1, <1>2, <1>8, <2>1 DEF StreamFails, Typed, daemon
<1> QED BY <1>4, <1>5, <1>6, <1>7, <1>8

(* A session that begins, or is over, has no draft.                        *)
LEMMA NoSessionTyped == << >> \in Openings /\ NoSession \in Ends_
<1>1. << >> \in [{} -> SUBSET Parts]
  OBVIOUS
<1>2. << >> \in Openings
  BY <1>1 DEF Openings
<1> QED BY <1>2 DEF NoSession, Ends_, Bodies

(* Connecting, being answered and tearing down keep the types.             *)
LEMMA LinkTyped ==
  ASSUME Typed, Dispatch \/ MakeLink \/ Greeted \/ Retry
  PROVE  Typed'
<1>1. ASSUME NEW R, NEW got \in {"ok", "failed"}, NEW d \in Nat, jobs' = Settled(R, got, d)
      PROVE  jobs' \in [Jobs -> JobStates]
  BY <1>1, SettledTyped
<1>2. ASSUME link \in Links, down[link] # << >>
      PROVE  Head(down[link]) \in Replies /\ Tail(down[link]) \in Seq(Replies)
  BY <1>2, TailOf DEF Typed
<1>3. CASE Dispatch
  <2>1. link \in Links /\ down[link] # << >>
    BY <1>3 DEF Dispatch, Typed, Links
  <2>2. down' \in [Links -> Seq(Replies)]
    BY <1>2, <1>3, <2>1 DEF Dispatch, Typed
  <2>3. jobs' \in [Jobs -> JobStates]
    <3>1. (IF Head(down[link]).ok THEN "ok" ELSE "failed") \in {"ok", "failed"}
          /\ Head(down[link]).draft \in Nat
      BY <1>2, <2>1 DEF Replies
    <3> QED BY <1>1, <1>3, <3>1 DEF Dispatch, Typed
  <2> QED BY <1>3, <2>2, <2>3 DEF Dispatch, Typed, daemon
<1>4. CASE MakeLink
  <2>1. links' \in 1 .. MaxLinks /\ link' = links'
    BY <1>4, ExtensionAssumption DEF MakeLink, Typed
  <2>2. up' \in [Links -> Seq(Frames)]
    <3>1. <<[op |-> "hello"]>> \in Seq(Frames)
      BY DEF Frames
    <3> QED BY <1>4, <3>1 DEF MakeLink, Typed
  <2>3. session' \in [Links -> Ends_]
    <3>1. [NoSession EXCEPT !.state = "backlog"] \in Ends_
      BY NoSessionTyped DEF Ends_
    <3> QED BY <1>4, <3>1 DEF MakeLink, Typed
  <2> QED BY <1>4, <2>1, <2>2, <2>3 DEF MakeLink, Typed, capture
<1>5. CASE Greeted
  <2>1. link \in Links /\ down[link] # << >>
    BY <1>5 DEF Greeted, Typed, Links
  <2> QED BY <1>2, <1>5, <2>1 DEF Greeted, Typed, capture, daemon
<1>6. CASE Retry
  <2>1. jobs' \in [Jobs -> JobStates]
    BY <1>1, <1>6 DEF Retry, Failed
  <2>2. 0 \in 0 .. MaxLinks /\ link' = 0 /\ {} \in SUBSET (Nat \ {0}) /\ pending' = {}
    BY <1>6, ExtensionAssumption DEF Retry
  <2>3. greeted' \in BOOLEAN /\ UNCHANGED <<copy, queries, links, nextReq, chain, wires, daemon>>
    BY <1>6 DEF Retry
  <2> QED BY <2>1, <2>2, <2>3 DEF Typed, wires, daemon
<1> QED BY <1>3, <1>4, <1>5, <1>6

(* What is issued is written to the connection of the moment.              *)
LEMMA IssueTyped ==
  ASSUME Typed, NEW op \in {"begin", "part", "commit", "abort", "query"}, NEW d \in Nat,
         NEW c \in Bodies, Issue(op, d, c)
  PROVE  /\ chain' = Append(chain, [link |-> link, op |-> op, req |-> nextReq, draft |-> d,
                                    content |-> c])
         /\ [link |-> link, op |-> op, req |-> nextReq, draft |-> d, content |-> c] \in Operations
         /\ chain' \in Seq(Operations) /\ pending' = pending \cup {nextReq}
         /\ pending' \in SUBSET (Nat \ {0}) /\ nextReq' = nextReq + 1 /\ nextReq' \in Nat \ {0}
         /\ UNCHANGED <<link, greeted, links>>
<1>1. [link |-> link, op |-> op, req |-> nextReq, draft |-> d, content |-> c] \in Operations
  BY DEF Operations, Typed
<1>2. /\ nextReq \in Nat \ {0} /\ nextReq + 1 \in Nat \ {0}
      /\ pending \cup {nextReq} \in SUBSET (Nat \ {0})
  BY DEF Typed
<1> HIDE DEF Operations
<1>3. Append(chain, [link |-> link, op |-> op, req |-> nextReq, draft |-> d, content |-> c])
        \in Seq(Operations)
  BY <1>1, AppendOf DEF Typed
<1> QED BY <1>1, <1>2, <1>3 DEF Issue

(* A job's step keeps the types.                                           *)
LEMMA JobTyped ==
  ASSUME Typed, NEW j \in Jobs,
         \/ Start(j) \/ Begun(j) \/ RecordOne(j) \/ Recorded(j) \/ Finish(j) \/ Finished(j),
         jobs[j].stage # "idle" => copy \in Jobs
  PROVE  Typed'
<1>1. jobs \in [Jobs -> JobStates] /\ nextReq \in Nat /\ jobs[j].draft \in Nat
      /\ Nothing \in Bodies /\ 0 \in Nat
  BY DEF Typed, JobStates, Bodies
<1>2. Done(j) \in [Jobs -> JobStates]
  <2>1. [NoJob EXCEPT !.stage = "done"] \in JobStates
    <3>1. 0 \in 0 .. Wanted /\ "done" \in Stages /\ "idle" \in Stages
      BY ExtensionAssumption DEF Stages
    <3>2. NoJob \in JobStates
      BY <3>1 DEF NoJob, JobStates
    <3> QED BY <3>1, <3>2 DEF JobStates
  <2> QED BY <1>1, <2>1 DEF Done
<1>3. ASSUME NEW stage \in Stages PROVE Awaiting(j, stage) \in [Jobs -> JobStates]
  <2> DEFINE job == [jobs[j] EXCEPT !.stage = stage, !.req = nextReq, !.got = "none"]
  <2>1. job \in JobStates
    BY <1>1 DEF JobStates
  <2>2. Awaiting(j, stage) = [jobs EXCEPT ![j] = job]
    BY <1>1 DEF Awaiting
  <2> HIDE DEF job
  <2> QED BY <1>1, <2>1, <2>2
<1>4. ASSUME NEW stage \in Stages PROVE [jobs EXCEPT ![j].stage = stage] \in [Jobs -> JobStates]
  BY <1>1 DEF JobStates
<1>5. ASSUME jobs' \in [Jobs -> JobStates], UNCHANGED <<copy, queries, client, wires, daemon>>
      PROVE  Typed'
  BY <1>5 DEF Typed, client, wires, daemon
<1>6. ASSUME jobs' \in [Jobs -> JobStates], UNCHANGED <<copy, queries, wires, daemon>>,
             NEW op \in {"begin", "part", "commit", "abort", "query"}, NEW d \in Nat,
             NEW c \in Bodies, Issue(op, d, c)
      PROVE  Typed'
  <2>1. chain' \in Seq(Operations) /\ pending' \in SUBSET (Nat \ {0}) /\ nextReq' \in Nat \ {0}
        /\ UNCHANGED <<link, greeted, links>>
    BY <1>6, IssueTyped
  <2> QED BY <1>6, <2>1 DEF Typed, wires, daemon
<1>7. {"begin", "next", "part", "commit", "abort"} \subseteq Stages
  BY DEF Stages
<1>8. CASE Start(j)
  BY <1>1, <1>2, <1>3, <1>5, <1>6, <1>7, <1>8 DEF Start
<1>9. CASE Begun(j)
  BY <1>2, <1>4, <1>5, <1>7, <1>9 DEF Begun
<1>10. CASE RecordOne(j)
  <2> DEFINE mime == jobs[j].done + 1
             c == [job |-> j, copy |-> copy, mime |-> mime]
  <2>1. mime \in 0 .. Wanted /\ mime \in 1 .. Wanted /\ jobs[j].stage = "next"
    BY <1>1, <1>10, ExtensionAssumption DEF RecordOne, JobStates
  <2>2. c \in Bodies
    BY <2>1 DEF Bodies, Contents
  <2>3. CASE Issue("part", jobs[j].draft, c)
             /\ jobs' = [Awaiting(j, "part") EXCEPT ![j].done = mime]
    <3>1. jobs' \in [Jobs -> JobStates]
      <4> DEFINE A == Awaiting(j, "part")
      <4>1. A \in [Jobs -> JobStates] /\ jobs' = [A EXCEPT ![j].done = mime]
        BY <1>3, <1>7, <2>3
      <4> HIDE DEF A
      <4> QED BY <2>1, <4>1 DEF JobStates
    <3> QED BY <1>1, <1>6, <1>10, <2>2, <2>3, <3>1 DEF RecordOne
  <2>4. CASE jobs' = [jobs EXCEPT ![j].done = mime] /\ UNCHANGED client
    <3>1. jobs' \in [Jobs -> JobStates]
      BY <1>1, <2>1, <2>4 DEF JobStates
    <3> QED BY <1>5, <1>10, <2>4, <3>1 DEF RecordOne
  <2> QED BY <1>10, <2>3, <2>4 DEF RecordOne
<1>11. CASE Recorded(j)
  <2>1. [jobs EXCEPT ![j].stage = "next", ![j].any = TRUE] \in [Jobs -> JobStates]
    BY <1>1, <1>7 DEF JobStates
  <2> QED BY <1>1, <1>3, <1>5, <1>6, <1>7, <1>11, <2>1 DEF Recorded
<1>12. CASE Finish(j)
  BY <1>1, <1>3, <1>6, <1>7, <1>12 DEF Finish
<1>13. CASE Finished(j)
  BY <1>2, <1>5, <1>13 DEF Finished
<1> QED BY <1>8, <1>9, <1>10, <1>11, <1>12, <1>13

(* What is kept was asked of a draft that is known.                        *)
LEMMA StoresOf ==
  ASSUME NEW known \in BOOLEAN, NEW kept \in Stores(known)
  PROVE  kept \in BOOLEAN /\ (kept => known)
<1>1. kept = TRUE \/ kept = FALSE
  BY DEF Stores
<1>2. CASE known = TRUE
  BY <1>1, <1>2
<1>3. CASE known = FALSE
  BY <1>3 DEF Stores
<1> QED BY <1>1, <1>2, <1>3

(* The daemon's step keeps the types.                                      *)
LEMMA DaemonTyped ==
  ASSUME Typed, NEW l \in Links, Accept(l) \/ Take(l)
  PROVE  Typed'
<1>1. /\ session[l] \in Ends_ /\ up[l] \in Seq(Frames) /\ down[l] \in Seq(Replies)
      /\ NoSession \in Ends_ /\ << >> \in Openings
  BY NoSessionTyped DEF Typed
<1>2. CASE Accept(l)
  <2>1. ASSUME NEW state \in {"served", "ended"}
        PROVE  [session EXCEPT ![l].state = state] \in [Links -> Ends_]
    BY <1>1 DEF Typed, Ends_
  <2>2. session' \in [Links -> Ends_]
    BY <1>2, <2>1 DEF Accept
  <2> QED BY <1>2, <2>2 DEF Accept, Typed, capture, client, wires
<1>3. CASE Take(l)
  <2>1. up[l] # << >> /\ up' = [up EXCEPT ![l] = Tail(@)] /\ UNCHANGED <<capture, client, exiting>>
    BY <1>3 DEF Take
  <2>2. Frame(l) \in Frames /\ up' \in [Links -> Seq(Frames)]
    BY <1>1, <2>1, TailOf DEF Typed, Frame
  <2>3. /\ Frame(l).op \in Requests_ \cup {"head"} => Frame(l).req \in Nat /\ Frame(l).draft \in Nat
        /\ Frame(l).op = "head" => Frame(l).content \in Bodies
    BY <2>2 DEF Frames, Requests_
  <2>4. ASSUME NEW req \in Nat, NEW ok \in BOOLEAN, NEW d \in Nat, Say(l, req, ok, d)
        PROVE  down' \in [Links -> Seq(Replies)]
    <3>1. [req |-> req, ok |-> ok, draft |-> d] \in Replies
      BY DEF Replies
    <3> QED BY <1>1, <2>4, <3>1, AppendOf DEF Say, Typed
  <2>5. ASSUME session' \in [Links -> Ends_], down' \in [Links -> Seq(Replies)],
               archived' \in SUBSET SUBSET Parts
        PROVE  Typed'
    BY <2>1, <2>2, <2>5 DEF Typed, capture, client
  <2>6. /\ session \in [Links -> Ends_] /\ down \in [Links -> Seq(Replies)]
        /\ archived \in SUBSET SUBSET Parts /\ 0 \in Nat
    BY DEF Typed
  <2>8. CASE TakeHello(l)
    BY <2>4, <2>5, <2>6, <2>8 DEF TakeHello
  <2>9. CASE TakeBegin(l)
    <3>1. session[l].next \in Nat \ {0} /\ session[l].drafts \in Openings
      BY <1>1 DEF Ends_
    <3> DEFINE d == session[l].next
               after == [e \in DOMAIN session[l].drafts \cup {d} |->
                           IF e = d THEN {} ELSE session[l].drafts[e]]
    <3>2. after \in Openings
      <4>1. PICK D \in SUBSET Nat : session[l].drafts \in [D -> SUBSET Parts]
        BY <3>1 DEF Openings
      <4>2. after \in [D \cup {d} -> SUBSET Parts] /\ D \cup {d} \in SUBSET Nat
        BY <3>1, <4>1
      <4> QED BY <4>2 DEF Openings
    <3>3. session' \in [Links -> Ends_]
      <4>1. session' = [session EXCEPT ![l] = [session[l] EXCEPT !.next = d + 1, !.drafts = after]]
        BY <2>6, <2>9 DEF TakeBegin
      <4>2. d + 1 \in Nat \ {0}
        BY <3>1
      <4> HIDE DEF after, d
      <4> QED BY <1>1, <2>6, <3>2, <4>1, <4>2 DEF Ends_
    <3> QED BY <2>3, <2>4, <2>5, <2>6, <2>9, <3>1, <3>3 DEF TakeBegin, Requests_
  <2>10. CASE TakeHead(l)
    <3>1. session' \in [Links -> Ends_]
      BY <1>1, <2>3, <2>6, <2>10 DEF TakeHead, Ends_
    <3> QED BY <2>5, <2>6, <2>10, <3>1 DEF TakeHead
  <2>11. CASE TakeChunk(l)
    <3>1. session' \in [Links -> Ends_]
      BY <1>1, <2>6, <2>11 DEF TakeChunk, Ends_
    <3> QED BY <2>5, <2>6, <2>11, <3>1 DEF TakeChunk
  <2>12. CASE TakeEnd(l)
    <3> DEFINE s == session[l]
               part == [content |-> s.content, whole |-> s.whole]
    <3>1. PICK kept \in Stores(s.part \in DOMAIN s.drafts) :
            /\ session' = [session EXCEPT ![l] =
                              [s EXCEPT !.req = 0, !.part = 0, !.content = Nothing, !.whole = FALSE,
                                        !.drafts = IF kept
                                                   THEN [s.drafts EXCEPT ![s.part] = @ \cup {part}]
                                                   ELSE s.drafts]]
            /\ Say(l, s.req, kept, 0)
      BY <2>12 DEF TakeEnd
    <3>2. s.drafts \in Openings /\ part \in Parts /\ s.req \in Nat /\ kept \in BOOLEAN
          /\ Nothing \in Bodies /\ session \in [Links -> Ends_]
      <4>1. (s.part \in DOMAIN s.drafts) \in BOOLEAN
        OBVIOUS
      <4>2. kept \in BOOLEAN
        BY <4>1, StoresOf
      <4> QED BY <1>1, <2>6, <4>2 DEF Ends_, Parts, Bodies
    <3>3. [s.drafts EXCEPT ![s.part] = @ \cup {part}] \in Openings
      <4>1. PICK D \in SUBSET Nat : s.drafts \in [D -> SUBSET Parts]
        BY <3>2 DEF Openings
      <4>2. [s.drafts EXCEPT ![s.part] = @ \cup {part}] \in [D -> SUBSET Parts]
        BY <3>2, <4>1
      <4> QED BY <4>2 DEF Openings
    <3>4. session' \in [Links -> Ends_]
      <4> DEFINE after == IF kept THEN [s.drafts EXCEPT ![s.part] = @ \cup {part}] ELSE s.drafts
      <4>1. after \in Openings
        BY <3>2, <3>3
      <4>2. session' = [session EXCEPT ![l] = [s EXCEPT !.req = 0, !.part = 0, !.content = Nothing,
                                                 !.whole = FALSE, !.drafts = after]]
        BY <3>1
      <4> HIDE DEF after
      <4> QED BY <1>1, <2>6, <3>2, <4>1, <4>2 DEF Ends_
    <3>5. down' \in [Links -> Seq(Replies)]
      BY <2>4, <2>6, <3>1, <3>2
    <3> QED BY <2>5, <2>6, <2>12, <3>4, <3>5 DEF TakeEnd
  <2>13. ASSUME session' = Without(l) PROVE session' \in [Links -> Ends_]
    <3> DEFINE D == DOMAIN session[l].drafts \ {Frame(l).draft}
    <3>1. [d \in D |-> session[l].drafts[d]] \in Openings
      <4>1. PICK E \in SUBSET Nat : session[l].drafts \in [E -> SUBSET Parts]
        BY <1>1 DEF Openings, Ends_
      <4>2. [d \in D |-> session[l].drafts[d]] \in [D -> SUBSET Parts] /\ D \in SUBSET Nat
        BY <4>1
      <4> QED BY <4>2 DEF Openings
    <3>2. session' = [session EXCEPT ![l] = [session[l] EXCEPT !.drafts = [d \in D |-> session[l].drafts[d]]]]
      BY <2>6, <2>13 DEF Without
    <3> HIDE DEF D
    <3> QED BY <1>1, <2>6, <3>1, <3>2 DEF Ends_
  <2>14. CASE TakeCommit(l)
    <3>1. Frame(l).req \in Nat /\ Frame(l).draft \in Nat
      BY <2>3, <2>14 DEF TakeCommit, Requests_
    <3>2. PICK kept \in Stores(Frame(l).draft \in DOMAIN session[l].drafts) :
            /\ archived' = IF kept THEN archived \cup ({session[l].drafts[Frame(l).draft]} \ {{}})
                           ELSE archived
            /\ Say(l, Frame(l).req, kept, 0)
      BY <2>14 DEF TakeCommit
    <3>3. kept \in BOOLEAN /\ (kept => Frame(l).draft \in DOMAIN session[l].drafts)
      <4>1. (Frame(l).draft \in DOMAIN session[l].drafts) \in BOOLEAN
        OBVIOUS
      <4> QED BY <4>1, StoresOf
    <3>4. kept => session[l].drafts[Frame(l).draft] \in SUBSET Parts
      <4>1. PICK E \in SUBSET Nat : session[l].drafts \in [E -> SUBSET Parts]
        BY <1>1 DEF Openings, Ends_
      <4> QED BY <3>3, <4>1
    <3> QED BY <2>4, <2>5, <2>6, <2>13, <2>14, <3>1, <3>2, <3>3, <3>4 DEF TakeCommit
  <2>15. CASE TakeAbort(l)
    BY <2>3, <2>4, <2>5, <2>6, <2>13, <2>15 DEF TakeAbort, Requests_
  <2>16. CASE TakeQuery(l)
    BY <2>3, <2>4, <2>5, <2>6, <2>16 DEF TakeQuery, Requests_
  <2>17. CASE TakeStray(l)
    <3>1. Ended(l) \in [Links -> Ends_]
      <4>1. [NoSession EXCEPT !.state = "ended"] \in Ends_
        BY <1>1 DEF Ends_
      <4> QED BY <2>6, <4>1 DEF Ended
    <3> QED BY <2>4, <2>5, <2>6, <2>17, <3>1 DEF TakeStray
  <2> QED BY <1>3, <2>8, <2>9, <2>10, <2>11, <2>12, <2>14, <2>15, <2>16, <2>17 DEF Take
<1> QED BY <1>2, <1>3

(* Links that end keep the types.                                          *)
LEMMA CutTyped ==
  ASSUME Typed, NEW cut \in SUBSET Links, Cut(cut)
  PROVE  Typed'
<1>1. ASSUME NEW l \in Links
      PROVE  Ended(l)[l] = [NoSession EXCEPT !.state = "ended"] /\ Ended(l)[l] \in Ends_
  <2>1. Ended(l)[l] = [NoSession EXCEPT !.state = "ended"]
    BY DEF Ended, Typed
  <2> QED BY <2>1, NoSessionTyped DEF Ends_
<1>2. session' \in [Links -> Ends_]
  BY <1>1 DEF Cut, Typed
<1>3. up' \in [Links -> Seq(Frames)] /\ down' \in [Links -> Seq(Replies)]
  <2>1. << >> \in Seq(Frames) /\ << >> \in Seq(Replies)
    OBVIOUS
  <2>2. up' \in [Links -> Seq(Frames)]
    BY <2>1 DEF Cut, Typed
  <2>3. [l \in Links |-> IF l \in cut THEN <<>> ELSE down[l]] \in [Links -> Seq(Replies)]
    BY <2>1 DEF Typed
  <2> QED BY <2>2, <2>3 DEF Cut, Typed
<1> QED BY <1>2, <1>3 DEF Cut, Typed, capture, client

-----------------------------------------------------------------------------
(* Connections. *)

(* The client connects only when it has no connection.                     *)
LEMMA LinkedFromClient ==
  ASSUME Typed, Linked, Dispatch \/ MakeLink \/ Greeted \/ Retry
  PROVE  Linked'
<1>1. CASE Dispatch \/ Greeted
  <2>1. link \in Links /\ link <= links
    BY <1>1 DEF Dispatch, Greeted, Typed, Linked, Links
  <2>2. UNCHANGED <<session, link, links>> /\ down' = [down EXCEPT ![link] = Tail(@)]
    BY <1>1 DEF Dispatch, Greeted, daemon
  <2>3. ASSUME NEW l \in Links, l > links PROVE down'[l] = << >>
    <3>1. l # link
      BY <2>1, <2>3 DEF Typed, Links
    <3> QED BY <2>2, <2>3, <3>1 DEF Typed, Linked
  <2> QED BY <2>2, <2>3 DEF Linked, Standing
<1>2. CASE MakeLink
  <2>1. /\ link = 0 /\ links < MaxLinks /\ links' = links + 1 /\ link' = links' /\ down' = down
        /\ session' = [session EXCEPT ![links'] = [NoSession EXCEPT !.state = "backlog"]]
    BY <1>2 DEF MakeLink
  <2>2. links' \in Links
    BY <2>1, ExtensionAssumption DEF Typed, Links
  <2>3. session'[links'].state = "backlog" /\ session'[links'].req = 0 /\ ~session'[links'].whole
        /\ DOMAIN session'[links'].drafts = {}
    BY <2>1, <2>2 DEF Typed, NoSession
  <2>4. ASSUME NEW l \in Links, l # links' PROVE session'[l] = session[l] /\ ~Standing(l)
    <3>1. link \notin Links
      BY <2>1 DEF Links
    <3> QED BY <2>1, <2>4, <3>1 DEF Typed, Linked
  <2>5. \A l \in Links : l > links' => l > links /\ l # links'
    BY <2>1 DEF Typed, Links
  <2>6. \A l \in Links : l > links /\ l # links' => l > links'
    BY <2>1 DEF Typed, Links
  <2> QED BY <2>1, <2>2, <2>3, <2>4, <2>5, <2>6 DEF Linked, Standing
<1>3. CASE Retry
  <2>1. UNCHANGED <<session, links, down>> /\ link' = 0 /\ link \in Links /\ ~Standing(link)
    BY <1>3 DEF Retry, wires, daemon, Dead, Standing, Typed, Links
  <2> QED BY <2>1 DEF Linked, Standing
<1> QED BY <1>1, <1>2, <1>3

(* No other frame is taken. *)
LEMMA TakeIsProper ==
  ASSUME Typed, Linked, Stream, NEW l \in Links, Take(l)
  PROVE  Proper(l) /\ l = link /\ Alive
<1>1. session[l].state = "served" /\ up[l] # <<>> /\ l = link /\ Alive
  BY DEF Take, Linked, Alive, Standing, Links
<1>2. up[link] \in Seq(Frames)
  BY <1>1 DEF Typed
<1>3. Fits(Head(up[link]).op, Reading, Spoilt)
  BY <1>1, <1>2, GrammarTail DEF Stream
<1>4. InPart(l) <=> Frame(l).op \in {"chunk", "end"}
  BY <1>1, <1>3 DEF Fits, Reading, Frame
<1>5. InPart(l) = (Frame(l).op \in {"chunk", "end"})
  BY <1>4 DEF InPart
<1> QED BY <1>1, <1>4, <1>5 DEF Take, Proper

(* The daemon serves the connection that stands.                           *)
LEMMA LinkedFromDaemon ==
  ASSUME Typed, Linked, NEW l \in Links, Accept(l) \/ Proper(l)
  PROVE  Linked'
<1>1. UNCHANGED <<link, links>> /\ Standing(l) /\ l = link /\ l <= links
  BY DEF Accept, Proper, client, Linked, Standing, Typed, Links
<1>2. SUFFICES /\ \A k \in Links : k # l => session'[k] = session[k] /\ down'[k] = down[k]
               /\ session'[l].state # "none"
               /\ session'[l].req = 0 => ~session'[l].whole
               /\ session'[l].state # "served" => session'[l].req = 0 /\ DOMAIN session'[l].drafts = {}
  <2>1. \A k \in Links : k > links => k # l
    BY <1>1 DEF Links, Typed
  <2>2. ~(l > links)
    BY <1>1 DEF Links, Typed
  <2> QED BY <1>1, <1>2, <2>1, <2>2 DEF Linked, Standing
<1>3. CASE Accept(l)
  <2>1. down' = down /\ \E state \in {"served", "ended"} : session' = [session EXCEPT ![l].state = state]
        /\ session[l].state = "backlog"
    BY <1>3 DEF Accept, wires
  <2>2. session[l] \in Ends_
    BY DEF Typed
  <2>3. /\ \A k \in Links : k # l => session'[k] = session[k]
        /\ session'[l].state \in {"served", "ended"} /\ session'[l].req = session[l].req
        /\ session'[l].whole = session[l].whole /\ session'[l].drafts = session[l].drafts
    BY <2>1, <2>2 DEF Typed, Ends_
  <2> QED BY <2>1, <2>3 DEF Linked
<1>4. CASE Proper(l)
  <2>1. session[l].state = "served" /\ session[l] \in Ends_ /\ session \in [Links -> Ends_]
    BY <1>4 DEF Proper, Typed
  <2>2. \A k \in Links : k # l => session'[k] = session[k] /\ down'[k] = down[k]
    BY <1>4 DEF Proper, Typed, TakeHello, TakeBegin, TakeHead, TakeChunk, TakeEnd, TakeCommit, TakeAbort,
           TakeQuery, Say, Without
  <2>3. /\ session'[l].state # "none"
        /\ session'[l].req = 0 => ~session'[l].whole
        /\ session'[l].state # "served" => session'[l].req = 0 /\ DOMAIN session'[l].drafts = {}
    <3>1. CASE TakeHello(l) \/ TakeQuery(l)
      BY <2>1, <3>1 DEF TakeHello, TakeQuery, Linked
    <3>2. CASE TakeBegin(l)
      <4>1. session'[l].state = "served" /\ session'[l].req = session[l].req
            /\ session'[l].whole = session[l].whole
        BY <2>1, <3>2 DEF TakeBegin, Ends_
      <4> QED BY <4>1 DEF Linked
    <3>3. CASE TakeHead(l)
      <4>1. session'[l].state = "served" /\ session'[l].whole = session[l].whole
        BY <2>1, <3>3 DEF TakeHead, Ends_
      <4>2. ~session[l].whole
        BY <1>4, <3>3 DEF Proper, TakeHead, InPart, Linked
      <4> QED BY <4>1, <4>2
    <3>4. CASE TakeChunk(l)
      <4>1. session'[l].state = "served" /\ session'[l].req = session[l].req
        BY <2>1, <3>4 DEF TakeChunk, Ends_
      <4>2. session[l].req # 0
        BY <1>4, <3>4 DEF Proper, TakeChunk, InPart, Linked
      <4> QED BY <4>1, <4>2
    <3>5. CASE TakeEnd(l)
      BY <2>1, <3>5 DEF TakeEnd, Ends_
    <3>6. CASE TakeCommit(l) \/ TakeAbort(l)
      <4>1. session'[l].state = "served" /\ session'[l].req = session[l].req
            /\ session'[l].whole = session[l].whole
        <5>1. session' = Without(l)
          BY <3>6 DEF TakeCommit, TakeAbort
        <5> QED BY <2>1, <5>1 DEF Without, Ends_
      <4> QED BY <4>1 DEF Linked
    <3> QED BY <1>4, <3>1, <3>2, <3>3, <3>4, <3>5, <3>6 DEF Proper
  <2> QED BY <2>2, <2>3
<1> QED BY <1>3, <1>4

(* A link that has ended stands no more, and has no draft.                 *)
LEMMA LinkedFromCut ==
  ASSUME Typed, Linked, NEW cut \in SUBSET Served, Cut(cut)
  PROVE  Linked'
<1>1. UNCHANGED <<link, links>>
  BY DEF Cut, client
<1>2. ASSUME NEW l \in Links, l \in cut
      PROVE  /\ session'[l].state = "ended" /\ session'[l].req = 0 /\ ~session'[l].whole
             /\ DOMAIN session'[l].drafts = {} /\ l <= links /\ session[l].state # "none"
  <2>1. session'[l] = [NoSession EXCEPT !.state = "ended"]
    BY <1>2 DEF Cut, Ended, Typed
  <2>2. session[l].state = "served" /\ l \in Nat
    BY <1>2 DEF Served, Links
  <2>3. links \in Nat
    BY DEF Typed
  <2> QED BY <2>1, <2>2, <2>3 DEF NoSession, Linked
<1>3. ASSUME NEW l \in Links, l \notin cut PROVE session'[l] = session[l]
  BY <1>3 DEF Cut
<1>4. \A l \in Links : down'[l] = down[l] \/ down'[l] = << >>
  BY DEF Cut
<1>5. ASSUME NEW l \in Links, l \in cut PROVE ~(l > links)
  BY <1>2, <1>5 DEF Typed, Links
<1> QED BY <1>1, <1>2, <1>3, <1>4, <1>5 DEF Linked, Standing

-----------------------------------------------------------------------------
(* Jobs. *)

(* One job is at work. *)
LEMMA OneAtWork ==
  ASSUME Turns, NEW i \in Jobs, NEW j \in Jobs, Active(i), Active(j)
  PROVE  i = j
<1>1. i < j => jobs[i].stage = "done"
  BY DEF Turns
<1>2. j < i => jobs[j].stage = "done"
  BY DEF Turns
<1>3. jobs[i].stage # "done" /\ jobs[j].stage # "done"
  BY DEF Active, Waiting, Waits
<1> QED BY <1>1, <1>2, <1>3 DEF Jobs

(* A part is spoilt by the job at work. *)
LEMMA SpoiltBy ==
  ASSUME Turns, NEW j \in Jobs, Active(j)
  PROVE  Spoilt <=> jobs[j].stage = "abort" \/ (jobs[j].stage = "part" /\ jobs[j].got = "failed")
<1>1. ASSUME NEW i \in Jobs, jobs[i].stage = "abort" \/ jobs[i].stage = "part" PROVE Active(i)
  BY <1>1 DEF Active, Waiting, Waits
<1> QED BY <1>1, OneAtWork DEF Spoilt

(* Nothing is spoilt where none is. *)
LEMMA NotSpoilt ==
  ASSUME \A j \in Jobs : ~Active(j)
  PROVE  ~Spoilt
BY DEF Spoilt, Active, Waiting, Waits

(* What a job of a job's in the chain, or of one's on the way, is of. *)
LEMMA ChainedIsOf ==
  ASSUME Kept, NEW x \in Chained, IsJobs(x.op)
  PROVE  \E j \in Jobs : /\ Active(j) /\ Waiting(j) /\ Mine(j) /\ x.req = jobs[j].req
                         /\ x.op \in OpsOf(jobs[j].stage) /\ ~Unqueued
<1>1. ~Unqueued
  BY DEF Unqueued
<1>2. PICK j \in Jobs : Active(j)
  BY <1>1 DEF Kept, Idle
<1>3. Mine(j)
  BY <1>2 DEF Kept
<1> QED BY <1>1, <1>2, <1>3 DEF Mine, Queued

(* A job's frame on its way is that of a job at work.                      *)
LEMMA ComingIsOf ==
  ASSUME Kept, Alive, ~Calm
  PROVE  \E j \in Jobs : Active(j) /\ Mine(j)
BY DEF Kept, Idle

(* Who is told of these requests: what it is told is all that changes.     *)
Told(j, R) == Waiting(j) /\ jobs[j].req \in R /\ jobs[j].got = "none"

(* Who waits for the request is told, and nobody else.                     *)
LEMMA SettledOf ==
  ASSUME Typed, Turns, NEW R, 0 \notin R, NEW got, NEW d \in Nat, NEW j \in Jobs
  PROVE  /\ Settled(R, got, d)[j].stage = jobs[j].stage
         /\ Settled(R, got, d)[j].req = jobs[j].req
         /\ Told(j, R) => Settled(R, got, d)[j].got = got
         /\ ~Told(j, R) => Settled(R, got, d)[j] = jobs[j]
         /\ d = 0 => Settled(R, got, d)[j].draft = jobs[j].draft
         /\ Told(j, R) /\ d # 0 => Settled(R, got, d)[j].draft = d
<1>1. jobs[j] \in JobStates
  BY DEF Typed
<1>2. jobs[j].req \in R /\ jobs[j].got = "none" => Waiting(j)
  BY DEF Turns, Active
<1> DEFINE told == [jobs[j] EXCEPT !.got = got, !.draft = IF d = 0 THEN jobs[j].draft ELSE d]
<1>3. Settled(R, got, d)[j] = IF Told(j, R) THEN told ELSE jobs[j]
  BY <1>2, Zenon DEF Settled, Told
<1>4. told.stage = jobs[j].stage /\ told.req = jobs[j].req /\ told.got = got
      /\ told.draft = IF d = 0 THEN jobs[j].draft ELSE d
  BY <1>1 DEF JobStates
<1> QED BY <1>3, <1>4

(* And so nothing, where no job waits for any of them. *)
LEMMA SettledNone ==
  ASSUME Typed, Turns, NEW R, 0 \notin R, NEW got, NEW d, \A r \in R : Foreign(r)
  PROVE  Settled(R, got, d) = jobs
BY DEF Settled, Foreign, Typed

(* What jobs are told changes no turn, where who is not told is pending.    *)
LEMMA TurnsKept ==
  ASSUME Turns, UNCHANGED copy,
         \A j \in Jobs : jobs'[j].stage = jobs[j].stage /\ jobs'[j].req = jobs[j].req,
         \A j \in Jobs : Waiting(j) /\ jobs'[j].got = "none" => jobs[j].req \in pending',
         \A j \in Jobs : ~Waiting(j) => jobs'[j].got = jobs[j].got
  PROVE  Turns'
<1>1. \A j \in Jobs : UNCHANGED <<Active(j), Waiting(j)>>
  BY DEF Active, Waiting
<1>2. SUFFICES ASSUME NEW j \in Jobs
               PROVE  /\ jobs'[j].stage # "idle" => j <= copy
                      /\ Active(j) => \A i \in Jobs : i < j => jobs'[i].stage = "done"
                      /\ Waiting(j) => jobs'[j].req # 0 /\ (jobs'[j].got = "none" => jobs'[j].req \in pending')
                      /\ jobs'[j].stage = "next" => jobs'[j].got = "ok"
                      /\ ~Active(j) => jobs'[j].req = 0 /\ jobs'[j].got = "none"
  BY <1>1 DEF Turns
<1>3. Active(j) => \A i \in Jobs : i < j => jobs'[i].stage = "done"
  BY DEF Turns
<1>4. jobs[j].stage = "next" => ~Waiting(j)
  BY DEF Waiting, Waits
<1> QED BY <1>3, <1>4 DEF Turns, Active

(* No number is used twice by what goes on with the same ones.             *)
LEMMA FreshKept ==
  ASSUME Fresh, UNCHANGED <<link, links, nextReq>>,
         \A j \in Jobs : jobs'[j].req = jobs[j].req,
         Chained' \subseteq Chained \/ \A x \in Chained' : \E y \in Chained :
           x.req = y.req /\ x.link = y.link /\ (x.op = "query" => y.op = "query"),
         link # 0 => \A x \in Going' : x \in Going \/ x.req < nextReq,
         Alive' => /\ Alive /\ session'[link].req < nextReq
                   /\ \A f \in Coming' :
                        \/ f \in Coming \/ f.op \in {"hello", "chunk", "end"}
                        \/ Numbered(f.req) /\ (f.op = "query" => Foreign(f.req))
  PROVE  Fresh'
<1>1. \A r : (Foreign(r)' <=> Foreign(r)) /\ (Numbered(r)' <=> Numbered(r))
  BY DEF Foreign, Numbered
<1>2. \A x \in Chained' : Numbered(x.req) /\ x.link <= links /\ (x.op = "query" => Foreign(x.req))
  BY DEF Fresh
<1>3. Alive' => \A f \in Coming' :
            /\ f.op \in Requests_ \cup {"head"} => Numbered(f.req)
            /\ f.op = "query" => Foreign(f.req)
  BY DEF Fresh, Requests_
<1> QED BY <1>1, <1>2, <1>3 DEF Fresh

-----------------------------------------------------------------------------
(* Nothing changes on the connection that stands, or it falls. *)
LEMMA QuietKept ==
  ASSUME Typed, Kept, Linked', UNCHANGED <<capture, client, archived, illegal>>,
         \/ ~Alive'
         \/ /\ Alive /\ UNCHANGED <<up[link], down[link]>>
            /\ session'[link].req = session[link].req
            /\ session'[link].part = session[link].part
            /\ session'[link].content = session[link].content
            /\ session'[link].whole = session[link].whole
            /\ session'[link].drafts = session[link].drafts,
         link # 0 => Going' \subseteq Going
  PROVE  Kept'
<1>1. /\ link' = link /\ UNCHANGED <<Chained, Unqueued, Spoilt>>
      /\ UNCHANGED <<jobs, pending, nextReq, chain, links, copy, greeted, archived, illegal>>
      /\ \A j \in Jobs : UNCHANGED <<Active(j), Waiting(j)>>
  BY DEF capture, client, Chained, Unqueued, Spoilt, Active, Waiting
<1>2. Turns' /\ OneJob(chain)' /\ OneDraft' /\ (illegal = {})'
  BY <1>1 DEF Kept, Turns, OneDraft
<1>3. CASE ~Alive'
  <2>1. Greeting' /\ Stream'
    BY <1>3 DEF Greeting, Stream
  <2>2. Idle'
    BY <1>1, <1>3 DEF Idle, Kept
  <2>3. Fresh'
    BY <1>1, <1>3 DEF Fresh, Kept, Foreign, Numbered
  <2>4. ASSUME NEW j \in Jobs, Active(j)' PROVE Mine(j)'
    <3>1. Queued(j)
      BY <1>1, <2>4 DEF Kept, Mine
    <3>2. link # 0 => Answers(j)' \subseteq Answers(j)
      BY <1>1 DEF Answers
    <3>3. Queued(j)'
      BY <1>1, <1>3, <3>1, <3>2 DEF Queued
    <3> QED BY <1>3, <3>3 DEF Mine
  <2> QED BY <1>2, <2>1, <2>2, <2>3, <2>4 DEF Kept
<1>4. CASE Alive /\ Alive'
  <2>1. /\ UNCHANGED <<Coming, Going, up[link], down[link], Calm, InPart(link), Drafts, Reading, Writing>>
        /\ \A j \in Jobs : UNCHANGED Answers(j)
    BY <1>1, <1>4 DEF Coming, Going, Calm, InPart, Drafts, Reading, Writing, Answers, Running, Alive
  <2>2. Greeting'
    BY <1>1, <1>4, <2>1 DEF Greeting, Kept
  <2>3. Stream'
    BY <1>1, <1>4, <2>1 DEF Stream, Kept
  <2>4. Idle'
    BY <1>1, <1>4, <2>1 DEF Idle, Kept
  <2>5. Fresh'
    BY <1>1, <1>4, <2>1 DEF Fresh, Kept, Foreign, Numbered, Alive
  <2>6. ASSUME NEW j \in Jobs, Active(j)' PROVE Mine(j)'
    <3>1. Mine(j)
      BY <1>1, <2>6 DEF Kept
    <3>2. Queued(j)'
      BY <1>1, <1>4, <2>1, <3>1 DEF Queued, Mine
    <3>3. Sent(j)' /\ Received(j)'
      BY <1>1, <1>4, <2>1, <3>1 DEF Sent, Received, Mine
    <3>4. Answered_(j)' /\ Opened(j)'
      BY <1>1, <1>4, <2>1, <3>1 DEF Answered_, Opened, Mine
    <3> QED BY <3>2, <3>3, <3>4 DEF Mine
  <2> QED BY <1>2, <2>2, <2>3, <2>4, <2>5, <2>6 DEF Kept
<1> QED BY <1>3, <1>4

-----------------------------------------------------------------------------
(* Writing. *)

(* The connection that stands has its two directions and its session.      *)
LEMMA AliveTyped ==
  ASSUME Typed, Alive
  PROVE  /\ link \in Links /\ up[link] \in Seq(Frames) /\ down[link] \in Seq(Replies)
         /\ session[link] \in Ends_
BY DEF Typed, Alive, Links

(* What may be written is written to the connection that stands.           *)
LEMMA WritableAlive ==
  ASSUME Typed, Linked, NEW op, Writable(op)
  PROVE  Alive /\ op.link = link
<1>1. op.link = link /\ link \in Links /\ link = links /\ ~Dead(link)
  BY DEF Writable, Typed, Linked, Links
<1>2. session[link] \in Ends_ /\ session[link].state # "none"
  BY <1>1 DEF Typed, Linked, Links
<1>3. link # 0 /\ session[link].state \in {"none", "backlog", "served", "ended"}
  BY <1>1, <1>2 DEF Links, Ends_
<1> QED BY <1>1, <1>2, <1>3 DEF Alive, Standing, Dead

(* What was queued for the connection that stands can be written.          *)
LEMMA AliveWritable ==
  ASSUME Alive, NEW op, op.link = link
  PROVE  Writable(op)
BY DEF Alive, Standing, Writable, Dead

(* The chain without its first operation. *)
LEMMA ChainTail ==
  ASSUME Typed, Kept, chain # << >>
  PROVE  /\ Running \in Operations /\ Running \in Chained
         /\ Chained = {Running} \cup Seqs!ToSet(Tail(chain))
         /\ chain' = Tail(chain) =>
              /\ Chained = {Running} \cup Chained' /\ OneJob(chain)' /\ Writing' = "none"
              /\ (IsJobs(Running.op) => Unqueued')
<1>1. /\ chain \in Seq(Operations) /\ Running \in Operations /\ Tail(chain) \in Seq(Operations)
      /\ Chained = {Running} \cup Seqs!ToSet(Tail(chain)) /\ OneJob(chain)
  BY TailOf, MembersOfTail DEF Typed, Running, Chained, Kept
<1>2. ASSUME chain' = Tail(chain)
      PROVE  /\ Chained = {Running} \cup Chained' /\ OneJob(chain)' /\ Writing' = "none"
             /\ (IsJobs(Running.op) => Unqueued')
  <2>1. Chained' = Seqs!ToSet(Tail(chain))
    BY <1>2 DEF Chained
  <2>2. /\ OneJob(Tail(chain)) /\ \A x \in Chained' : x.op \notin {"chunk", "end"}
        /\ IsJobs(Running.op) => \A x \in Chained' : ~IsJobs(x.op)
    BY <1>1, <2>1, OneJobTail DEF Running
  <2>3. chain' # << >> => Running' \in Chained'
    <3>1. chain' # << >> => Seqs!ToSet(Tail(chain)) = {Head(Tail(chain))} \cup Seqs!ToSet(Tail(Tail(chain)))
      BY <1>1, <1>2, MembersOfTail
    <3> QED BY <1>2, <2>1, <3>1 DEF Running
  <2>4. Writing' = "none"
    BY <2>2, <2>3 DEF Writing
  <2> QED BY <1>1, <1>2, <2>1, <2>2, <2>4 DEF Unqueued
<1> QED BY <1>1, <1>2

(* A frame that comes behind the others.                                   *)
LEMMA PutKept ==
  ASSUME Typed, Kept, Alive, NEW f \in Frames, Put(f),
         UNCHANGED <<link, session, greeted, down>>, Spoilt => Spoilt',
         Fits(f.op, Writing, Spoilt'), Writing' = Midst(f.op),
         \A g \in Coming : Trails(g.op, f.op)
  PROVE  /\ Stream' /\ Greeting' /\ Coming' = Coming \cup {f} /\ UNCHANGED <<Alive, Drafts, InPart(link), Going>>
         /\ Calm' <=> Calm /\ ~IsJobs(f.op)
<1>1. /\ link \in Links /\ up[link] \in Seq(Frames) /\ up'[link] = Append(up[link], f)
      /\ up'[link] \in Seq(Frames)
  BY AliveTyped, AppendOf DEF Put, Typed
<1>2. Coming' = Coming \cup {f}
  BY <1>1, MembersOfAppend DEF Coming
<1>3. UNCHANGED <<Alive, Drafts, InPart(link), Reading, Going>>
  BY DEF Alive, Drafts, InPart, Reading, Standing, Going
<1>4. Stream'
  <2>1. Grammatical(up[link], Reading, Spoilt) /\ Finally(up[link], Reading) = Writing
        /\ Trailing(up[link])
    BY DEF Kept, Stream
  <2>2. Grammatical(up[link], Reading, Spoilt')
    BY <2>1, GrammarAnyhow
  <2>3. Grammatical(up'[link], Reading, Spoilt') /\ Finally(up'[link], Reading) = Midst(f.op)
    BY <1>1, <2>1, <2>2, GrammarAppend
  <2>4. Trailing(up'[link])
    BY <1>1, <2>1, TrailingAppend DEF Coming
  <2> QED BY <1>3, <2>3, <2>4 DEF Stream
<1>5. Greeting'
  <2>1. up'[link] # << >> /\ (up[link] # << >> => Head(up'[link]) = Head(up[link]))
    BY <1>1, HeadOfAppend
  <2> QED BY <1>3, <2>1 DEF Greeting, Kept
<1>6. Calm' <=> Calm /\ ~IsJobs(f.op)
  BY <1>2, <1>3 DEF Calm
<1> QED BY <1>2, <1>3, <1>4, <1>5, <1>6

(* WriteRequest() keeps the invariant: the request goes from the chain to the wire. *)
LEMMA WriteRequestKept ==
  ASSUME Typed, Kept, WriteRequest, Linked'
  PROVE  Kept'
<1> DEFINE f == [op |-> Running.op, req |-> Running.req, draft |-> Running.draft]
<1>1. /\ chain # << >> /\ chain' = Tail(chain) /\ Put(f) /\ Running.op \in Requests_
      /\ UNCHANGED <<capture, link, greeted, links, pending, nextReq, down, daemon>>
      /\ Alive /\ Running.link = link
  BY WritableAlive DEF WriteRequest, Requests_, Kept
<1>2. /\ Running \in Operations /\ Running \in Chained /\ Chained = {Running} \cup Chained'
      /\ OneJob(chain)' /\ Writing' = "none" /\ (IsJobs(Running.op) => Unqueued')
  BY <1>1, ChainTail
<1>3. f \in Frames /\ f.op = Running.op /\ f.req = Running.req /\ f.draft = Running.draft
  BY <1>1, <1>2 DEF Frames, Operations, Requests_
<1> HIDE DEF f
<1>4. /\ UNCHANGED <<jobs, copy, session, archived, illegal, Spoilt>>
      /\ \A j \in Jobs : UNCHANGED <<Active(j), Waiting(j)>>
  BY <1>1 DEF capture, daemon, Spoilt, Active, Waiting
<1>5. IsJobs(f.op) => \E j \in Jobs : Active(j) /\ Waiting(j) /\ Mine(j) /\ f.req = jobs[j].req
                       /\ f.op = jobs[j].stage /\ ~Unqueued
  BY <1>1, <1>2, <1>3, ChainedIsOf DEF OpsOf, Requests_
<1>6. \A g \in Coming : Trails(g.op, f.op)
  <2>1. f.op # "head"
    BY <1>1, <1>3 DEF Requests_
  <2>2. IsJobs(f.op) => \A g \in Coming : g.op \notin {"begin", "commit", "abort"}
    BY <1>1, <1>5 DEF Mine, Sent
  <2> QED BY <2>1, <2>2 DEF Trails
<1>7. Fits(f.op, Writing, Spoilt') /\ Midst(f.op) = "none"
  BY <1>1, <1>2, <1>3 DEF Fits, Midst, Writing, Requests_
<1>8. /\ Stream' /\ Greeting' /\ Coming' = Coming \cup {f}
      /\ UNCHANGED <<Alive, Drafts, InPart(link), Going>>
      /\ Calm' <=> Calm /\ ~IsJobs(f.op)
  BY <1>1, <1>2, <1>3, <1>4, <1>6, <1>7, PutKept
<1>9. Turns' /\ OneDraft' /\ (illegal = {})'
  BY <1>1, <1>4 DEF Kept, Turns, OneDraft
<1>10. Fresh'
  <2>1. Numbered(f.req) /\ (f.op = "query" => Foreign(f.req))
    BY <1>2, <1>3 DEF Fresh, Kept
  <2>2. Fresh
    BY DEF Kept
  <2> QED BY <1>1, <1>2, <1>4, <1>8, <2>1, <2>2 DEF Fresh, Numbered, Foreign
<1>11. Unqueued => Unqueued'
  BY <1>2 DEF Unqueued
<1>12. Idle'
  BY <1>4, <1>5, <1>8, <1>11 DEF Idle, Kept
<1>13. ASSUME NEW j \in Jobs, Active(j)' PROVE Mine(j)'
  <2>1. Active(j) /\ Mine(j) /\ Answers(j)' = Answers(j)
    BY <1>4, <1>8, <1>13 DEF Kept, Answers
  <2>2. IsJobs(f.op) => /\ Waiting(j) /\ f.req = jobs[j].req /\ f.op = jobs[j].stage
                        /\ ~Unqueued /\ Unqueued' /\ jobs[j].got = "none" /\ Answers(j) = {}
                        /\ (f.op # "begin" => f.draft = jobs[j].draft)
    <3>1. IsJobs(f.op) => Waiting(j) /\ f.req = jobs[j].req /\ f.op = jobs[j].stage /\ ~Unqueued /\ Unqueued'
      BY <1>2, <1>3, <1>5, <2>1, OneAtWork DEF Kept
    <3> QED BY <1>1, <1>2, <1>3, <2>1, <3>1 DEF Mine, Queued, Alive
  <2>3. Queued(j)'
    <3>1. Queued(j)
      BY <2>1 DEF Mine
    <3>2. CASE IsJobs(f.op)
      BY <2>2, <3>2 DEF Queued, Unqueued
    <3>3. CASE ~IsJobs(f.op)
      BY <1>1, <1>2, <1>4, <1>8, <1>11, <2>1, <3>1, <3>3 DEF Queued
    <3> QED BY <3>2, <3>3
  <2>4. Sent(j)'
    BY <1>1, <1>3, <1>4, <1>8, <1>11, <2>1, <2>2 DEF Sent, Mine, IsJobs, Requests_
  <2>5. Received(j)'
    BY <1>1, <1>3, <1>4, <1>8, <2>1 DEF Received, Mine, Requests_
  <2>6. Answered_(j)'
    BY <1>1, <1>4, <1>8, <2>1, <2>2 DEF Answered_, Mine, IsJobs, Waiting, Waits
  <2>7. Opened(j)'
    <3>1. Opened(j)
      BY <1>1, <2>1 DEF Mine
    <3>2. CASE IsJobs(f.op)
      BY <1>1, <1>4, <1>8, <2>1, <2>2, <3>1, <3>2 DEF Opened, Unqueued
    <3>3. CASE ~IsJobs(f.op)
      <4>1. Unqueued' <=> Unqueued
        BY <1>2, <1>3, <3>3 DEF Unqueued
      <4> QED BY <1>1, <1>2, <1>3, <1>4, <1>8, <2>1, <3>1, <3>3, <4>1 DEF Opened
    <3> QED BY <3>2, <3>3
  <2> QED BY <2>3, <2>4, <2>5, <2>6, <2>7 DEF Mine
<1> QED BY <1>2, <1>8, <1>9, <1>10, <1>12, <1>13 DEF Kept

(* The first operation fails, and no part of a job's is under way.         *)
LEMMA FailsKept ==
  ASSUME Typed, Kept, Linked', RequestFails \/ PartFails \/ (StreamFails /\ ~Writable(Running))
  PROVE  Kept'
<1>1. /\ chain # << >> /\ chain' = Tail(chain) /\ jobs' = Failed({Running.req})
      /\ pending \ {Running.req} \subseteq pending' /\ ~Writable(Running)
      /\ UNCHANGED <<copy, link, greeted, links, nextReq, up, down, session, archived, illegal>>
  BY DEF RequestFails, PartFails, StreamFails, wires, daemon
<1>2. /\ Running \in Operations /\ Running \in Chained /\ Chained = {Running} \cup Chained'
      /\ OneJob(chain)' /\ Writing' = "none" /\ (IsJobs(Running.op) => Unqueued')
  BY <1>1, ChainTail
<1>3. Alive => Running.link # link /\ Writing = "none"
  BY <1>1, AliveWritable DEF Writing
<1>4. Numbered(Running.req) /\ (Running.op = "query" => Foreign(Running.req))
  BY <1>2 DEF Kept, Fresh
<1>5. \A j \in Jobs :
        /\ jobs'[j].stage = jobs[j].stage /\ jobs'[j].req = jobs[j].req
        /\ jobs'[j].draft = jobs[j].draft
        /\ Told(j, {Running.req}) => jobs'[j].got = "failed"
        /\ ~Told(j, {Running.req}) => jobs'[j].got = jobs[j].got
  <2>1. 0 \notin {Running.req} /\ Turns /\ 0 \in Nat
    BY <1>4 DEF Numbered, Kept
  <2>2. jobs' = Settled({Running.req}, "failed", 0)
    BY <1>1 DEF Failed
  <2> QED BY <2>1, <2>2, SettledOf
<1>6. \A j \in Jobs : UNCHANGED <<Active(j), Waiting(j)>>
  BY <1>5 DEF Active, Waiting
<1>7. /\ UNCHANGED <<Alive, Coming, Going, Drafts, Calm, InPart(link), Reading>>
      /\ \A j \in Jobs : UNCHANGED Answers(j)
  BY <1>1, <1>5 DEF Alive, Standing, Coming, Going, Drafts, Calm, InPart, Reading, Answers
<1>8. Spoilt => Spoilt'
  BY <1>5 DEF Spoilt, Told
<1>9. Turns'
  <2>1. \A j \in Jobs : ~Waiting(j) => ~Told(j, {Running.req})
    BY DEF Told
  <2>2. \A j \in Jobs : Waiting(j) /\ jobs'[j].got = "none" => jobs[j].req \in pending'
    BY <1>1, <1>5 DEF Told, Kept, Turns
  <2> QED BY <1>1, <1>5, <2>1, <2>2, TurnsKept DEF Kept
<1>10. OneDraft' /\ (illegal = {})' /\ Greeting'
  BY <1>1, <1>7 DEF Kept, OneDraft, Greeting
<1>11. Unqueued => Unqueued'
  BY <1>2 DEF Unqueued
<1>12. ASSUME NEW j \in Jobs, Active(j), IsJobs(Running.op)
       PROVE  /\ Mine(j) /\ Waiting(j) /\ Running.req = jobs[j].req /\ ~Unqueued
              /\ (Alive => Calm /\ Drafts = {} /\ Answers(j) = {})
              /\ jobs'[j].got = "failed"
  <2>1. Mine(j) /\ ~Unqueued /\ Waiting(j) /\ Running.req = jobs[j].req
    BY <1>2, <1>12 DEF Kept, Mine, Queued, Unqueued
  <2>2. ASSUME Alive PROVE Calm /\ Drafts = {} /\ Answers(j) = {}
    BY <1>2, <1>3, <1>12, <2>1, <2>2 DEF Mine, Opened, Queued, Alive
  <2>3. jobs[j].got # "ok" /\ jobs[j] \in JobStates
    BY <1>12, <2>1 DEF Mine, Queued, Typed
  <2>4. jobs'[j].got = "failed"
    BY <1>5, <2>1, <2>3 DEF JobStates, Told
  <2> QED BY <2>1, <2>2, <2>4
<1>13. ASSUME ~IsJobs(Running.op)
       PROVE  /\ (Unqueued' <=> Unqueued) /\ UNCHANGED Spoilt
              /\ \A j \in Jobs : jobs'[j].got = jobs[j].got
  <2>1. Running.op = "query"
    BY <1>2, <1>13 DEF IsJobs, Operations
  <2>2. \A j \in Jobs : jobs'[j].got = jobs[j].got
    BY <1>4, <1>5, <2>1 DEF Foreign, Told
  <2>3. \A j \in Jobs : jobs'[j].stage = jobs[j].stage
    BY <1>5
  <2>4. UNCHANGED Spoilt
    BY <2>2, <2>3 DEF Spoilt
  <2>5. Unqueued' <=> Unqueued
    BY <1>2, <1>13 DEF Unqueued
  <2> QED BY <2>2, <2>4, <2>5
<1>14. Stream'
  <2>1. Alive => Grammatical(up[link], Reading, Spoilt')
    BY <1>8, GrammarAnyhow DEF Kept, Stream
  <2> QED BY <1>1, <1>2, <1>3, <1>7, <2>1 DEF Stream, Kept
<1>15. Fresh'
  <2>1. Alive => session[link].req < nextReq
    BY DEF Kept, Fresh
  <2> QED BY <1>1, <1>2, <1>5, <1>7, <2>1, FreshKept DEF Kept
<1>16. Idle'
  BY <1>6, <1>7, <1>11 DEF Idle, Kept
<1>17. ASSUME NEW j \in Jobs, Active(j)' PROVE Mine(j)'
  <2>1. Active(j) /\ Mine(j)
    BY <1>6, <1>17 DEF Kept
  <2>2. CASE IsJobs(Running.op)
    <3>1. Unqueued' /\ jobs'[j].got = "failed" /\ (Alive' => Calm' /\ Drafts' = {} /\ Answers(j)' = {})
      BY <1>2, <1>7, <1>12, <2>1, <2>2
    <3>2. Queued(j)'
      BY <3>1 DEF Queued, Unqueued
    <3>3. Alive' => Sent(j)' /\ Received(j)' /\ Answered_(j)'
      BY <3>1 DEF Calm, Sent, Received, Answered_, IsJobs
    <3>4. Alive' => Opened(j)'
      BY <3>1 DEF Opened, Unqueued
    <3> QED BY <3>2, <3>3, <3>4 DEF Mine
  <2>3. CASE ~IsJobs(Running.op)
    <3>1. /\ (Unqueued' <=> Unqueued) /\ UNCHANGED <<Spoilt, link, session>> /\ jobs'[j].got = jobs[j].got
          /\ jobs'[j].stage = jobs[j].stage /\ jobs'[j].req = jobs[j].req
          /\ jobs'[j].draft = jobs[j].draft /\ Chained' \subseteq Chained
      BY <1>1, <1>2, <1>5, <1>13, <2>3
    <3>2. Queued(j)'
      BY <1>6, <1>7, <2>1, <3>1 DEF Queued, Mine
    <3>3. Alive' => Sent(j)' /\ Received(j)' /\ Answered_(j)'
      BY <1>6, <1>7, <2>1, <3>1 DEF Mine, Sent, Received, Answered_
    <3>4. Alive' => Opened(j)'
      BY <1>6, <1>7, <2>1, <3>1 DEF Mine, Opened
    <3> QED BY <3>2, <3>3, <3>4 DEF Mine
  <2> QED BY <2>2, <2>3
<1> QED BY <1>2, <1>9, <1>10, <1>14, <1>15, <1>16, <1>17 DEF Kept

(* The stream that fails is ended.                                         *)
LEMMA StreamFailsKept ==
  ASSUME Typed, Kept, Linked', StreamFails, Writable(Running)
  PROVE  Kept'
<1> DEFINE f == [op |-> "end"]
<1>1. /\ chain # << >> /\ chain' = Tail(chain) /\ jobs' = Failed({Running.req}) /\ Put(f)
      /\ pending' = pending \ {Running.req} /\ Running.op = "chunk"
      /\ UNCHANGED <<copy, link, greeted, links, nextReq, down, session, archived, illegal>>
      /\ Alive /\ Running.link = link
  BY WritableAlive DEF StreamFails, daemon, Kept
<1>2. /\ Running \in Operations /\ Running \in Chained /\ Chained = {Running} \cup Chained'
      /\ OneJob(chain)' /\ Writing' = "none" /\ Unqueued'
  BY <1>1, ChainTail DEF IsJobs
<1>3. f \in Frames /\ f.op = "end"
  BY DEF Frames
<1> HIDE DEF f
<1>4. PICK j \in Jobs : /\ Active(j) /\ Waiting(j) /\ Mine(j) /\ Running.req = jobs[j].req
                        /\ jobs[j].stage = "part" /\ ~Unqueued /\ jobs[j].got = "none" /\ Answers(j) = {}
  <2>1. PICK j \in Jobs : /\ Active(j) /\ Waiting(j) /\ Mine(j) /\ Running.req = jobs[j].req
                          /\ Running.op \in OpsOf(jobs[j].stage) /\ ~Unqueued
    BY <1>1, <1>2, ChainedIsOf DEF IsJobs
  <2>2. jobs[j].stage = "part"
    BY <1>1, <2>1 DEF OpsOf, Waiting, Waits
  <2>3. jobs[j].got = "none" /\ Answers(j) = {}
    BY <1>1, <1>2, <2>1 DEF Mine, Queued, IsJobs, Alive
  <2> QED BY <2>1, <2>2, <2>3
<1>5. /\ \A i \in Jobs : jobs'[i].stage = jobs[i].stage /\ jobs'[i].req = jobs[i].req
                         /\ jobs'[i].draft = jobs[i].draft
      /\ \A i \in Jobs : i # j => jobs'[i].got = jobs[i].got
      /\ jobs'[j].got = "failed"
  <2> DEFINE R == {Running.req}
  <2>1. 0 \notin R /\ Turns /\ 0 \in Nat
    BY <1>2 DEF Numbered, Kept, Fresh
  <2>2. jobs' = Settled(R, "failed", 0)
    BY <1>1 DEF Failed
  <2>3. Told(j, R) /\ \A i \in Jobs : i # j => ~Told(i, R)
    BY <1>4, OneAtWork DEF Active, Kept, Told
  <2> HIDE DEF R
  <2>4. ASSUME NEW i \in Jobs
        PROVE  /\ jobs'[i].stage = jobs[i].stage /\ jobs'[i].req = jobs[i].req
               /\ jobs'[i].draft = jobs[i].draft /\ (Told(i, R) => jobs'[i].got = "failed")
               /\ (~Told(i, R) => jobs'[i] = jobs[i])
    BY <2>1, <2>2, SettledOf
  <2> QED BY <2>3, <2>4
<1>6. \A i \in Jobs : UNCHANGED <<Active(i), Waiting(i)>>
  BY <1>5 DEF Active, Waiting
<1>7. Spoilt'
  BY <1>4, <1>5 DEF Spoilt
<1>8. /\ Stream' /\ Greeting' /\ Coming' = Coming \cup {f}
      /\ UNCHANGED <<Alive, Drafts, InPart(link), Going>>
      /\ Calm' <=> Calm /\ ~IsJobs(f.op)
  <2>1. Writing = "head" /\ Midst("end") = "none"
    BY <1>1 DEF Writing, Midst
  <2>2. \A g \in Coming : Trails(g.op, "end")
    BY <1>1, <1>4 DEF Mine, Sent, Trails
  <2>3. Fits("end", "head", Spoilt')
    BY <1>7 DEF Fits
  <2> QED BY <1>1, <1>2, <1>3, <1>7, <2>1, <2>2, <2>3, PutKept
<1>9. Turns'
  <2>1. \A i \in Jobs : i # j => ~Waiting(i)
    BY <1>4, OneAtWork DEF Kept, Active
  <2>2. \A i \in Jobs : Waiting(i) => jobs'[i].got # "none"
    BY <1>5, <2>1
  <2> QED BY <1>1, <1>4, <1>5, <2>1, <2>2, TurnsKept DEF Kept
<1>10. OneDraft' /\ (illegal = {})'
  BY <1>1 DEF Kept, OneDraft
<1>11. Fresh'
  <2>1. Alive => session[link].req < nextReq
    BY DEF Kept, Fresh
  <2> QED BY <1>1, <1>2, <1>3, <1>5, <1>8, <2>1, FreshKept DEF Kept
<1>12. Idle'
  BY <1>4, <1>6 DEF Idle
<1>13. ASSUME NEW i \in Jobs, Active(i)' PROVE Mine(i)'
  <2>1. i = j
    BY <1>4, <1>6, <1>13, OneAtWork DEF Kept
  <2>2. Answers(j)' = {}
    BY <1>4, <1>5, <1>8 DEF Answers
  <2>3. Queued(j)'
    BY <1>2, <1>5 DEF Queued, Unqueued
  <2>4. Sent(j)' /\ Received(j)' /\ Answered_(j)'
    BY <1>1, <1>3, <1>4, <1>5, <1>6, <1>8, <2>2 DEF Mine, Sent, Received, Answered_
  <2>5. Opened(j)'
    BY <1>1, <1>2, <1>4, <1>5, <1>6, <1>7, <1>8, <2>2 DEF Mine, Opened, Unqueued
  <2> QED BY <2>1, <2>3, <2>4, <2>5 DEF Mine
<1> QED BY <1>2, <1>8, <1>9, <1>10, <1>11, <1>12, <1>13 DEF Kept

(* A piece of a part is put where the chain had come to: its head, a chunk *)
(* or its terminator.                                                      *)
LEMMA PieceKept ==
  ASSUME Typed, Kept, Linked', Alive, chain # << >>, Running.link = link,
         NEW f \in Frames, Put(f), f.op \in {"head", "chunk", "end"},
         UNCHANGED <<capture, link, greeted, links, pending, nextReq, down, daemon>>,
         Running.op = IF f.op = "head" THEN "part" ELSE f.op,
         f.op = "head" => /\ f.req = Running.req /\ f.draft = Running.draft
                          /\ f.content = Running.content,
         OneJob(chain)', Writing' = Midst(f.op),
         \A y \in Chained' : \/ ~IsJobs(y.op) /\ y \in Chained
                             \/ /\ y.op \in {"chunk", "end"} /\ y.link = link
                                /\ y.req = Running.req /\ y.draft = Running.draft
  PROVE  Kept'
<1>1. /\ UNCHANGED <<jobs, copy, session, archived, illegal, Spoilt>>
      /\ \A j \in Jobs : UNCHANGED <<Active(j), Waiting(j)>>
  BY DEF capture, daemon, Spoilt, Active, Waiting
<1>2. Running \in Operations /\ Running \in Chained /\ IsJobs(Running.op)
  BY ChainTail DEF IsJobs
<1>3. PICK j \in Jobs : /\ Active(j) /\ Waiting(j) /\ Mine(j) /\ Running.req = jobs[j].req
                        /\ Running.op \in OpsOf(jobs[j].stage) /\ ~Unqueued
  BY <1>2, ChainedIsOf
<1>4. jobs[j].stage = "part" /\ jobs[j].got = "none" /\ Answers(j) = {}
      /\ Running.draft = jobs[j].draft /\ (f.op = "head" => Calm /\ Running.content.job = j)
  <2>1. jobs[j].stage = "part"
    BY <1>3 DEF OpsOf, Waiting, Waits
  <2> QED BY <1>2, <1>3, <2>1 DEF Mine, Queued, Alive
<1>5. \A g \in Coming : Trails(g.op, f.op)
  <2>1. \A g \in Coming : g.op \notin {"begin", "commit", "abort"}
    BY <1>3 DEF Mine, Sent
  <2>2. f.op = "head" => \A g \in Coming : g.op # "head"
    BY <1>4 DEF Calm, IsJobs
  <2> QED BY <2>1, <2>2 DEF Trails
<1>6. Fits(f.op, Writing, Spoilt')
  BY DEF Fits, Writing
<1>7. /\ Stream' /\ Greeting' /\ Coming' = Coming \cup {f}
      /\ UNCHANGED <<Alive, Drafts, InPart(link), Going>>
      /\ ~Calm'
  BY <1>1, <1>5, <1>6, PutKept DEF IsJobs
<1>8. Turns' /\ OneDraft' /\ (illegal = {})'
  BY <1>1 DEF Kept, Turns, OneDraft
<1>9. Fresh'
  <2>1. Fresh /\ (Alive => session[link].req < nextReq) /\ Numbered(Running.req)
    BY <1>2 DEF Kept, Fresh
  <2> QED BY <1>1, <1>2, <1>7, <2>1, FreshKept
<1>10. Idle'
  BY <1>1, <1>3 DEF Idle
<1>11. ASSUME NEW i \in Jobs, Active(i)' PROVE Mine(i)'
  <2>1. i = j
    BY <1>1, <1>3, <1>11, OneAtWork DEF Kept
  <2>2. Answers(j)' = {}
    BY <1>1, <1>4, <1>7 DEF Answers
  <2>3. Queued(j)'
    BY <1>1, <1>3, <1>4, <2>2 DEF Queued, OpsOf
  <2>4. Sent(j)'
    BY <1>1, <1>3, <1>4, <1>7 DEF Sent, Mine
  <2>5. Received(j)'
    <3>1. f.op = "head" => ~InPart(link)
      BY <1>4 DEF Calm
    <3> QED BY <1>1, <1>3, <1>7, <3>1 DEF Received, Mine
  <2>6. Answered_(j)'
    BY <1>1, <1>4, <2>2 DEF Answered_
  <2>7. Opened(j)'
    BY <1>1, <1>3, <1>4, <1>7, <2>2 DEF Opened, Mine
  <2> QED BY <2>1, <2>3, <2>4, <2>5, <2>6, <2>7 DEF Mine
<1> QED BY <1>7, <1>8, <1>9, <1>10, <1>11 DEF Kept

(* WritePart() keeps it: the stream ends where the chain goes on.          *)
LEMMA WritePartKept ==
  ASSUME Typed, Kept, Linked', WritePart
  PROVE  Kept'
<1>1. /\ chain # << >> /\ Running.link = link /\ Alive
      /\ UNCHANGED <<capture, link, greeted, links, pending, nextReq, down, daemon>>
  BY WritableAlive DEF WritePart, Kept
<1>2. Running \in Operations /\ Running \in Chained /\ chain \in Seq(Operations) /\ OneJob(chain)
  BY <1>1, ChainTail DEF Kept, Typed
<1>3. ASSUME NEW op \in {"chunk", "end"}, Continue(op), IsJobs(Running.op)
      PROVE  /\ OneJob(chain)' /\ Writing' = IF op = "chunk" THEN "head" ELSE "chunk"
             /\ \A y \in Chained' : \/ ~IsJobs(y.op) /\ y \in Chained
                                    \/ /\ y.op \in {"chunk", "end"} /\ y.link = link
                                       /\ y.req = Running.req /\ y.draft = Running.draft
  <2> DEFINE x == [Running EXCEPT !.op = op]
  <2>1. x \in Operations /\ x.op = op /\ x.link = Running.link /\ x.req = Running.req
        /\ x.draft = Running.draft
    BY <1>2 DEF Operations
  <2>2. chain' = <<x>> \o Tail(chain)
    BY <1>3 DEF Continue
  <2> HIDE DEF x
  <2>3. /\ chain' # << >> /\ Head(chain') = x /\ OneJob(chain')
        /\ Chained' = {x} \cup Seqs!ToSet(Tail(chain))
    BY <1>1, <1>2, <1>3, <2>1, <2>2, ContinueOf DEF Running, Chained
  <2>4. Writing' = IF op = "chunk" THEN "head" ELSE "chunk"
    BY <1>1, <2>1, <2>3 DEF Writing, Running
  <2>5. \A y \in Seqs!ToSet(Tail(chain)) : ~IsJobs(y.op) /\ y \in Chained
    BY <1>1, <1>2, <1>3, OneJobTail, ChainTail DEF Running
  <2> QED BY <1>1, <2>1, <2>3, <2>4, <2>5
<1>4. CASE Running.op = "part"
  <2> DEFINE f == [op |-> "head", req |-> Running.req, draft |-> Running.draft,
                   content |-> Running.content]
  <2>1. f \in Frames /\ f.op = "head" /\ f.req = Running.req /\ f.draft = Running.draft
        /\ f.content = Running.content
    BY <1>2 DEF Frames, Operations
  <2>2. Put(f) /\ Continue("chunk")
    BY <1>4 DEF WritePart
  <2> HIDE DEF f
  <2> QED BY <1>1, <1>3, <1>4, <2>1, <2>2, PieceKept DEF Midst, IsJobs
<1>5. CASE Running.op = "chunk"
  <2> DEFINE f == [op |-> "chunk"]
  <2>1. f \in Frames /\ f.op = "chunk"
    BY DEF Frames
  <2>2. Put(f) /\ Continue("end")
    BY <1>5 DEF WritePart
  <2> HIDE DEF f
  <2> QED BY <1>1, <1>3, <1>5, <2>1, <2>2, PieceKept DEF Midst, IsJobs
<1>6. CASE Running.op = "end"
  <2> DEFINE f == [op |-> "end"]
  <2>1. f \in Frames /\ f.op = "end"
    BY DEF Frames
  <2>2. Put(f) /\ chain' = Tail(chain)
    BY <1>6 DEF WritePart
  <2> HIDE DEF f
  <2>3. OneJob(chain)' /\ Writing' = "none" /\ \A y \in Chained' : ~IsJobs(y.op) /\ y \in Chained
    BY <1>1, <1>6, <2>2, ChainTail DEF Unqueued, IsJobs
  <2> QED BY <1>1, <1>6, <2>1, <2>2, <2>3, PieceKept DEF Midst
<1> QED BY <1>4, <1>5, <1>6 DEF WritePart

-----------------------------------------------------------------------------
(* The connection. *)

(* An answer is taken: less of them is on the way.                         *)
LEMMA AnswerTaken ==
  ASSUME Typed, link \in Links, down[link] # << >>, down' = [down EXCEPT ![link] = Tail(@)],
         link' = link
  PROVE  /\ Head(down[link]) \in Replies /\ Going = {Head(down[link])} \cup Going'
<1>1. down[link] \in Seq(Replies) /\ down'[link] = Tail(down[link])
  BY DEF Typed
<1> QED BY <1>1, MembersOfTail, TailOf DEF Going

(* Dispatch() keeps it: an answer reaches the job whose request it is.     *)
LEMMA DispatchKept ==
  ASSUME Typed, Kept, Linked', Dispatch
  PROVE  Kept'
<1> DEFINE a == Head(down[link])
           R == {a.req}
           got == IF a.ok THEN "ok" ELSE "failed"
<1>1. /\ link \in Links /\ greeted /\ down[link] # << >>
      /\ down' = [down EXCEPT ![link] = Tail(@)] /\ pending' = pending \ {a.req}
      /\ jobs' = IF a.req \in pending THEN Settled(R, got, a.draft) ELSE jobs
      /\ UNCHANGED <<copy, link, greeted, links, nextReq, chain, up, session, archived, illegal>>
  BY DEF Dispatch, Typed, Links, daemon
<1>2. a \in Replies /\ Going = {a} \cup Going'
  BY <1>1, AnswerTaken
<1>3. a.req \in Nat /\ a.draft \in Nat /\ a.ok \in BOOLEAN /\ got \in {"ok", "failed"} /\ (a.ok <=> got = "ok")
  BY <1>2 DEF Replies
<1> DEFINE mine(j) == Told(j, R)
<1>4. \A j \in Jobs :
        /\ jobs'[j].stage = jobs[j].stage /\ jobs'[j].req = jobs[j].req
        /\ mine(j) => jobs'[j].got = got /\ jobs'[j].draft = IF a.draft = 0 THEN jobs[j].draft ELSE a.draft
        /\ ~mine(j) => jobs'[j] = jobs[j]
  <2>1. Turns
    BY DEF Kept
  <2>2. CASE a.req \in pending
    <3>1. 0 \notin R
      BY <2>2 DEF Typed
    <3>2. jobs' = Settled(R, got, a.draft)
      BY <1>1, <2>2
    <3> HIDE DEF R, got, a
    <3> SUFFICES ASSUME NEW j \in Jobs
                 PROVE  /\ jobs'[j].stage = jobs[j].stage /\ jobs'[j].req = jobs[j].req
                        /\ Told(j, R) => jobs'[j].got = got /\ jobs'[j].draft = IF a.draft = 0 THEN jobs[j].draft ELSE a.draft
                        /\ ~Told(j, R) => jobs'[j] = jobs[j]
      OBVIOUS
    <3> QED BY <1>3, <2>1, <3>1, <3>2, SettledOf
  <2>3. CASE a.req \notin pending
    BY <1>1, <2>1, <2>3 DEF Told, Turns
  <2> QED BY <2>2, <2>3
<1> HIDE DEF got, R, a
<1>5. \A j \in Jobs : UNCHANGED <<Active(j), Waiting(j)>>
  BY <1>4 DEF Active, Waiting
<1>6. /\ UNCHANGED <<Alive, Coming, Drafts, Calm, InPart(link), Reading, Writing, Chained, Unqueued>>
      /\ \A j \in Jobs : Answers(j)' \subseteq Answers(j)
      /\ \A j \in Jobs : a.req # jobs[j].req => Answers(j)' = Answers(j)
  BY <1>1, <1>2, <1>4 DEF Alive, Standing, Coming, Drafts, Calm, InPart, Reading, Writing, Running,
     Answers, Chained, Unqueued
<1>7. ASSUME NEW j \in Jobs, mine(j)
      PROVE  /\ Active(j) /\ Mine(j) /\ a \in Answers(j) /\ Unqueued /\ jobs[j].got = "none"
             /\ Alive => Calm /\ (jobs[j].stage = "begin" => a.ok /\ a.draft # 0 /\ Drafts = {a.draft})
                              /\ (jobs[j].stage # "begin" => a.draft = 0)
  <2>1. Active(j) /\ Waiting(j) /\ a \in Answers(j) /\ jobs[j].got = "none"
    BY <1>2, <1>7 DEF Told, Active, Answers, R
  <2>2. Mine(j) /\ link # 0
    BY <1>1, <2>1 DEF Kept, Links
  <2>3. Unqueued
    BY <2>1, <2>2 DEF Mine, Queued
  <2>4. Alive => Calm
    BY <2>1, <2>2 DEF Mine, Answered_
  <2>5. Alive => /\ jobs[j].stage = "begin" => a.ok /\ a.draft # 0 /\ Drafts = {a.draft}
                 /\ jobs[j].stage # "begin" => a.draft = 0
    BY <2>1, <2>2 DEF Mine, Opened
  <2> QED BY <2>1, <2>2, <2>3, <2>4, <2>5
<1>8. Spoilt => Spoilt'
  BY <1>4 DEF Spoilt, Told
<1>9. Turns'
  <2>1. \A j \in Jobs : Waiting(j) /\ jobs'[j].got = "none" => jobs[j].req \in pending'
    BY <1>1, <1>3, <1>4 DEF Told, Kept, Turns, R, a
  <2>2. \A j \in Jobs : ~Waiting(j) => jobs'[j].got = jobs[j].got
    BY <1>4 DEF Told
  <2> QED BY <1>1, <1>4, <2>1, <2>2, TurnsKept DEF Kept
<1>10. OneDraft' /\ (illegal = {})' /\ Greeting' /\ OneJob(chain)'
  BY <1>1, <1>6 DEF Kept, OneDraft, Greeting
<1>11. Stream'
  <2>1. Alive => Grammatical(up[link], Reading, Spoilt')
    BY <1>8, GrammarAnyhow DEF Kept, Stream
  <2> QED BY <1>1, <1>6, <2>1 DEF Stream, Kept
<1>12. Fresh'
  <2>1. Alive => session[link].req < nextReq
    BY DEF Kept, Fresh
  <2> QED BY <1>1, <1>2, <1>4, <1>6, <2>1, FreshKept DEF Kept
<1>13. Idle'
  BY <1>5, <1>6 DEF Idle, Kept
<1>14. ASSUME NEW j \in Jobs, Active(j)' PROVE Mine(j)'
  <2>1. Active(j) /\ Mine(j)
    BY <1>5, <1>14 DEF Kept
  <2>2. CASE mine(j)
    <3>1. Queued(j)'
      BY <1>6, <1>7, <2>2 DEF Queued, Unqueued
    <3>2. Alive' => Sent(j)' /\ Received(j)' /\ Answered_(j)'
      BY <1>6, <1>7, <2>2 DEF Calm, Sent, Received, Answered_, IsJobs
    <3>3. Alive' => Opened(j)'
      <4>1. ASSUME Alive PROVE Opened(j)
        BY <2>1, <4>1 DEF Mine
      <4>2. ASSUME Alive, jobs[j].stage = "begin"
            PROVE  jobs'[j].got = "ok" /\ Drafts \subseteq {jobs'[j].draft}
        BY <1>3, <1>4, <1>7, <2>2, <4>2
      <4>3. ASSUME Alive, jobs[j].stage # "begin"
            PROVE  jobs'[j].draft = jobs[j].draft
        BY <1>4, <1>7, <2>2, <4>3
      <4>4. session' = session /\ link' = link
        BY <1>1
      <4>5. jobs'[j].stage = jobs[j].stage /\ jobs'[j].got = got
        BY <1>4, <2>2
      <4>6. CASE Alive /\ jobs[j].stage = "begin"
        BY <1>6, <1>7, <1>8, <2>2, <4>1, <4>2, <4>4, <4>5, <4>6 DEF Opened, Unqueued
      <4>7. CASE Alive /\ jobs[j].stage # "begin"
        BY <1>5, <1>6, <1>7, <1>8, <2>2, <4>1, <4>3, <4>4, <4>5, <4>7 DEF Opened, Unqueued
      <4> QED BY <1>6, <4>6, <4>7
    <3> QED BY <3>1, <3>2, <3>3 DEF Mine
  <2>3. CASE ~mine(j)
    <3>1. jobs'[j] = jobs[j] /\ UNCHANGED <<link, session>>
      BY <1>1, <1>4, <2>3
    <3>2. Queued(j)'
      BY <1>5, <1>6, <2>1, <3>1 DEF Queued, Mine
    <3>3. Alive' => Sent(j)' /\ Received(j)' /\ Answered_(j)'
      BY <1>5, <1>6, <2>1, <3>1 DEF Mine, Sent, Received, Answered_
    <3>4. Waiting(j) /\ a.req = jobs[j].req => jobs[j].got # "none"
      BY <2>3 DEF Told, R
    <3>5. Alive' => Opened(j)'
      BY <1>5, <1>6, <1>8, <2>1, <3>1, <3>4 DEF Mine, Opened, Waiting, Waits
    <3> QED BY <3>2, <3>3, <3>5 DEF Mine
  <2> QED BY <2>2, <2>3
<1> QED BY <1>9, <1>10, <1>11, <1>12, <1>13, <1>14 DEF Kept

(* Greeted() keeps it: the first answer is no job's.                       *)
LEMMA GreetedKept ==
  ASSUME Typed, Kept, Linked', Greeted
  PROVE  Kept'
<1>1. /\ link \in Links /\ ~greeted /\ greeted' /\ down[link] # << >>
      /\ down' = [down EXCEPT ![link] = Tail(@)]
      /\ UNCHANGED <<capture, link, links, pending, nextReq, chain, up, session, archived, illegal>>
  BY DEF Greeted, Typed, Links, daemon
<1>2. Going = {Head(down[link])} \cup Going'
  BY <1>1, AnswerTaken
<1>3. Alive => Head(down[link]).req = 0
  BY <1>1 DEF Kept, Greeting
<1>4. /\ UNCHANGED <<Alive, Coming, Drafts, Calm, InPart(link), Reading, Writing, Chained, Unqueued, Spoilt>>
      /\ UNCHANGED <<jobs, copy>> /\ \A j \in Jobs : UNCHANGED <<Active(j), Waiting(j)>>
      /\ \A j \in Jobs : Answers(j)' \subseteq Answers(j)
      /\ \A j \in Jobs : Alive /\ Waiting(j) => Answers(j)' = Answers(j)
  <2>1. \A j \in Jobs : Waiting(j) => jobs[j].req # 0
    BY DEF Kept, Turns
  <2> QED BY <1>1, <1>2, <1>3, <2>1 DEF Alive, Standing, Coming, Drafts, Calm, InPart, Reading, Writing,
             Running, Answers, Chained, Unqueued, capture, Active, Waiting, Spoilt
<1>5. OneDraft' /\ (illegal = {})' /\ Greeting' /\ OneJob(chain)' /\ Turns'
  BY <1>1, <1>4 DEF Kept, OneDraft, Greeting, Turns
<1>6. Stream'
  BY <1>1, <1>4 DEF Stream, Kept
<1>7. Fresh'
  <2>1. Alive => session[link].req < nextReq
    BY DEF Kept, Fresh
  <2> QED BY <1>1, <1>2, <1>4, <2>1, FreshKept DEF Kept
<1>8. Idle'
  BY <1>4 DEF Idle, Kept
<1>9. ASSUME NEW j \in Jobs, Active(j)' PROVE Mine(j)'
  <2>1. Active(j) /\ Mine(j) /\ UNCHANGED <<link, session>>
    BY <1>1, <1>4, <1>9 DEF Kept
  <2>2. Queued(j)'
    BY <1>4, <2>1 DEF Queued, Mine
  <2>3. Alive' => Sent(j)' /\ Received(j)' /\ Answered_(j)'
    BY <1>4, <2>1 DEF Mine, Sent, Received, Answered_
  <2>4. Alive' => Opened(j)'
    BY <1>4, <2>1 DEF Mine, Opened, Waiting, Waits
  <2> QED BY <2>2, <2>3, <2>4 DEF Mine
<1> QED BY <1>5, <1>6, <1>7, <1>8, <1>9 DEF Kept

(* Retry() keeps it: nothing stands, and whoever waited has failed.        *)
LEMMA RetryKept ==
  ASSUME Typed, Kept, Linked', Retry
  PROVE  Kept'
<1>1. /\ link' = 0 /\ pending' = {} /\ jobs' = Settled(pending, "failed", 0)
      /\ UNCHANGED <<copy, links, nextReq, chain, archived, illegal>>
  BY DEF Retry, daemon, Failed
<1>2. \A j \in Jobs :
        /\ jobs'[j].stage = jobs[j].stage /\ jobs'[j].req = jobs[j].req
        /\ jobs'[j].draft = jobs[j].draft
        /\ Told(j, pending) => jobs'[j].got = "failed"
        /\ ~Told(j, pending) => jobs'[j].got = jobs[j].got
  <2>1. 0 \notin pending /\ 0 \in Nat /\ Turns
    BY DEF Typed, Kept
  <2> QED BY <1>1, <2>1, SettledOf
<1>3. \A j \in Jobs : UNCHANGED <<Active(j), Waiting(j)>>
  BY <1>2 DEF Active, Waiting
<1>4. ~Alive' /\ UNCHANGED <<Chained, Unqueued>>
  BY <1>1 DEF Alive, Chained, Unqueued
<1>5. Turns'
  <2>1. \A j \in Jobs : Waiting(j) /\ jobs'[j].got = "none" => jobs[j].req \in pending'
    BY <1>2 DEF Told, Kept, Turns
  <2>2. \A j \in Jobs : ~Waiting(j) => jobs'[j].got = jobs[j].got
    BY <1>2 DEF Told
  <2> QED BY <1>1, <1>2, <2>1, <2>2, TurnsKept DEF Kept
<1>6. OneDraft' /\ (illegal = {})' /\ Greeting' /\ OneJob(chain)' /\ Stream'
  BY <1>1, <1>4 DEF Kept, OneDraft, Greeting, Stream
<1>7. Fresh'
  BY <1>1, <1>2, <1>4 DEF Fresh, Kept, Foreign, Numbered
<1>8. Idle'
  BY <1>3, <1>4 DEF Idle, Kept
<1>9. ASSUME NEW j \in Jobs, Active(j)' PROVE Mine(j)'
  <2>1. Queued(j)
    BY <1>3, <1>9 DEF Kept, Mine
  <2>2. jobs'[j].got = "ok" => jobs[j].got = "ok"
    BY <1>2
  <2>3. Queued(j)'
    BY <1>1, <1>2, <1>3, <1>4, <2>1, <2>2 DEF Queued
  <2> QED BY <1>4, <2>3 DEF Mine
<1> QED BY <1>5, <1>6, <1>7, <1>8, <1>9 DEF Kept

(* MakeLink() keeps it: the new connection has the greeting on it only.    *)
LEMMA MakeLinkKept ==
  ASSUME Typed, Kept, Linked', MakeLink
  PROVE  Kept'
<1>1. /\ link = 0 /\ links < MaxLinks /\ links' = links + 1 /\ link' = links'
      /\ up' = [up EXCEPT ![links'] = <<[op |-> "hello"]>>]
      /\ session' = [session EXCEPT ![links'] = [NoSession EXCEPT !.state = "backlog"]]
      /\ UNCHANGED <<capture, greeted, pending, nextReq, chain, down, archived, illegal>>
  BY DEF MakeLink
<1>2. links' \in Links /\ link' \in Links /\ link' > links
  BY <1>1, ExtensionAssumption DEF Typed, Links
<1>3. /\ up'[link'] = <<[op |-> "hello"]>> /\ down'[link'] = << >>
      /\ session'[link'].req = 0 /\ ~session'[link'].whole /\ DOMAIN session'[link'].drafts = {}
  BY <1>1, <1>2 DEF Typed, NoSession, Kept, Linked
<1>4. /\ ~Alive /\ UNCHANGED <<Chained, Unqueued, jobs, copy, Spoilt>>
      /\ \A j \in Jobs : UNCHANGED <<Active(j), Waiting(j)>>
  BY <1>1 DEF Alive, Chained, Unqueued, capture, Active, Waiting, Spoilt
<1>5. /\ Coming' = {[op |-> "hello"]} /\ Going' = {} /\ Drafts' = {} /\ ~InPart(link)' /\ Reading' = "none"
      /\ \A j \in Jobs : Answers(j)' = {}
  <2>1. Coming' = {[op |-> "hello"]} /\ Going' = {}
    BY <1>3 DEF Coming, Going, Seqs!ToSet
  <2> QED BY <1>3, <2>1 DEF Drafts, InPart, Reading, Answers
<1>6. Calm'
  BY <1>5 DEF Calm, IsJobs
<1>7. \A x \in Chained : x.link <= links /\ x.link # link'
  <2>1. \A x \in Chained : x.link <= links /\ x \in Operations
    BY DEF Kept, Fresh, Chained, Seqs!ToSet, Typed
  <2> QED BY <1>2, <2>1 DEF Operations, Typed, Links
<1>8. Writing' = "none"
  <2>1. chain # << >> => Running \in Chained
    BY ChainTail
  <2> QED BY <1>1, <1>7, <2>1 DEF Writing, Running
<1>9. OneDraft' /\ (illegal = {})' /\ OneJob(chain)' /\ Turns'
  BY <1>1, <1>4 DEF Kept, OneDraft, Turns
<1>10. Stream' /\ Greeting'
  <2> DEFINE u == <<[op |-> "hello"]>>
  <2>1. /\ u # << >> /\ Head(u).op = "hello" /\ DOMAIN u = {1} /\ Len(u) = 1 /\ u[1].op = "hello"
    OBVIOUS
  <2>2. Grammatical(u, "none", Spoilt')
    BY <2>1 DEF Grammatical, Before, Fits
  <2>3. Finally(u, "none") = "none"
    BY <2>1 DEF Finally, Before, Midst
  <2>4. Trailing(u)
    BY <2>1 DEF Trailing
  <2> HIDE DEF u
  <2>5. up'[link'] = u
    BY <1>3 DEF u
  <2> QED BY <1>3, <1>5, <1>8, <2>1, <2>2, <2>3, <2>4, <2>5 DEF Stream, Greeting
<1>11. Fresh'
  <2>1. Fresh /\ nextReq \in Nat \ {0}
    BY DEF Kept, Typed
  <2>2. \A x \in Chained : x.link <= links'
    <3>1. \A x \in Chained : x \in Operations
      BY DEF Chained, Seqs!ToSet, Typed
    <3>2. \A x \in Chained : x.link \in Nat
      BY <3>1 DEF Operations
    <3> QED BY <1>1, <1>7, <3>2 DEF Typed
  <2>3. \A r : (Foreign(r)' <=> Foreign(r)) /\ (Numbered(r)' <=> Numbered(r))
    BY <1>1, <1>4 DEF Foreign, Numbered
  <2>4. [op |-> "hello"].op = "hello"
    OBVIOUS
  <2>5. \A f \in Coming' : f.op = "hello"
    BY <1>5, <2>4
  <2>6. \A j \in Jobs : jobs'[j].req < nextReq'
    BY <1>1, <1>4, <2>1 DEF Fresh
  <2>7. \A x \in Chained' : (Numbered(x.req) /\ x.link <= links /\ (x.op = "query" => Foreign(x.req)))'
    BY <1>4, <2>1, <2>2, <2>3 DEF Fresh
  <2>8. session'[link'].req < nextReq'
    BY <1>1, <1>3, <2>1
  <2> QED BY <1>5, <2>5, <2>6, <2>7, <2>8 DEF Fresh, Requests_
<1>12. Idle'
  BY <1>4, <1>5, <1>6 DEF Idle, Kept
<1>13. ASSUME NEW j \in Jobs, Active(j)' PROVE Mine(j)'
  <2>1. Queued(j)
    BY <1>4, <1>13 DEF Kept, Mine
  <2>2. Queued(j)'
    BY <1>4, <1>5, <1>7, <2>1 DEF Queued
  <2>3. Sent(j)' /\ Received(j)' /\ Answered_(j)'
    BY <1>5, <1>6 DEF Sent, Received, Answered_
  <2>4. Opened(j)'
    BY <1>3, <1>5, <1>6 DEF Opened
  <2> QED BY <2>2, <2>3, <2>4 DEF Mine
<1> QED BY <1>9, <1>10, <1>11, <1>12, <1>13 DEF Kept

-----------------------------------------------------------------------------
(* The jobs. *)

(* What is issued comes behind what is queued, and nothing else changes.   *)
LEMMA Issued ==
  ASSUME Typed, Kept, NEW op \in {"begin", "part", "commit", "abort", "query"}, NEW d \in Nat,
         NEW c \in Bodies, Issue(op, d, c), IsJobs(op) => Unqueued
  PROVE  \E x \in Operations :
           /\ x.link = link /\ x.op = op /\ x.req = nextReq /\ x.draft = d /\ x.content = c
           /\ Chained' = Chained \cup {x} /\ OneJob(chain)' /\ Writing' = Writing
           /\ pending' = pending \cup {nextReq} /\ nextReq' = nextReq + 1
           /\ UNCHANGED <<link, greeted, links>>
<1> DEFINE x == [link |-> link, op |-> op, req |-> nextReq, draft |-> d, content |-> c]
<1>1. /\ chain' = Append(chain, x) /\ x \in Operations /\ pending' = pending \cup {nextReq}
      /\ nextReq' = nextReq + 1 /\ UNCHANGED <<link, greeted, links>> /\ chain \in Seq(Operations)
  BY IssueTyped DEF Typed
<1>2. x.link = link /\ x.op = op /\ x.req = nextReq /\ x.draft = d /\ x.content = c
  OBVIOUS
<1> HIDE DEF x
<1>3. Chained' = Chained \cup {x}
  BY <1>1, MembersOfAppend DEF Chained
<1>4. OneJob(chain)'
  BY <1>1, <1>2, OneJobAppend DEF Kept, Unqueued, Chained
<1>5. Writing' = Writing
  BY <1>1, <1>2, HeadOfAppend DEF Writing, Running
<1> QED BY <1>1, <1>2, <1>3, <1>4, <1>5

(* The job is done, and has left nothing.                                  *)
LEMMA DoneKept ==
  ASSUME Typed, Kept, Linked', NEW j \in Jobs, jobs' = Done(j), jobs[j].stage # "idle",
         UNCHANGED <<copy, client, wires, daemon>>,
         \A i \in Jobs : i # j => ~Active(i),
         Unqueued, Alive => Calm /\ Drafts = {}
  PROVE  Kept'
<1>1. /\ \A i \in Jobs : i # j => jobs'[i] = jobs[i]
      /\ jobs'[j].stage = "done" /\ jobs'[j].req = 0 /\ jobs'[j].got = "none"
  BY DEF Done, Typed, NoJob
<1>2. \A i \in Jobs : ~Active(i)'
  BY <1>1 DEF Active, Waiting, Waits
<1>3. /\ UNCHANGED <<Alive, Coming, Going, Drafts, Calm, InPart(link), Reading, Writing, Chained, Unqueued>>
      /\ UNCHANGED <<link, links, greeted, nextReq, chain, up, down, session, copy, archived, illegal>>
  BY DEF Alive, Standing, Coming, Going, Drafts, Calm, InPart, Reading, Writing, Running, Chained,
     Unqueued, client, wires, daemon
<1>4. Turns'
  <2>1. j <= copy /\ \A i \in Jobs : i # j => (jobs[i].stage # "idle" => i <= copy)
        /\ jobs[i].req = 0 /\ jobs[i].got = "none"
    BY DEF Kept, Turns
  <2>2. \A i \in Jobs : ~Waiting(i)' /\ jobs'[i].stage # "next"
    BY <1>2 DEF Active
  <2> QED BY <1>1, <1>2, <1>3, <2>1, <2>2 DEF Turns
<1>5. OneDraft' /\ (illegal = {})' /\ Greeting' /\ OneJob(chain)'
  BY <1>3 DEF Kept, OneDraft, Greeting
<1>6. Stream'
  <2>1. Alive => Grammatical(up[link], Reading, Spoilt')
    BY GrammarAnyhow DEF Kept, Stream, Calm, Coming
  <2> QED BY <1>3, <2>1 DEF Stream, Kept
<1>7. Fresh'
  <2>1. Fresh /\ nextReq \in Nat \ {0}
    BY DEF Kept, Typed
  <2>2. \A r : (Numbered(r) /\ Foreign(r) => Foreign(r)') /\ (Numbered(r)' <=> Numbered(r))
    BY <1>1, <1>3 DEF Foreign, Numbered
  <2>3. \A i \in Jobs : jobs'[i].req < nextReq
    BY <1>1, <2>1 DEF Fresh
  <2>4. \A x \in Chained' : (Numbered(x.req) /\ x.link <= links /\ (x.op = "query" => Foreign(x.req)))'
    BY <1>3, <2>1, <2>2 DEF Fresh
  <2>5. Alive' => \A f \in Coming' :
          /\ f.op \in Requests_ \cup {"head"} => Numbered(f.req)'
          /\ f.op = "query" => Foreign(f.req)'
    BY <1>3, <2>1, <2>2 DEF Fresh, Requests_
  <2> QED BY <1>3, <2>1, <2>3, <2>4, <2>5 DEF Fresh
<1>8. Idle'
  BY <1>3 DEF Idle
<1> QED BY <1>2, <1>4, <1>5, <1>6, <1>7, <1>8 DEF Kept

(* What was asked has been granted, and the job goes on.                   *)
LEMMA NextKept ==
  ASSUME Typed, Kept, Linked', NEW j \in Jobs, Active(j), jobs[j].got = "ok",
         jobs[j].stage \in {"begin", "part", "next"},
         \A i \in Jobs : i # j => jobs'[i] = jobs[i],
         jobs'[j].stage = "next" /\ jobs'[j].got = "ok",
         jobs'[j].req = jobs[j].req /\ jobs'[j].draft = jobs[j].draft,
         UNCHANGED <<copy, client, wires, daemon>>
  PROVE  Kept'
<1>1. /\ \A i \in Jobs : Active(i)' <=> Active(i)
      /\ \A i \in Jobs : jobs'[i].req = jobs[i].req
      /\ \A i \in Jobs : Waiting(i)' => Waiting(i) /\ jobs'[i] = jobs[i]
  BY DEF Active, Waiting, Waits
<1>2. /\ UNCHANGED <<Alive, Coming, Going, Drafts, Calm, InPart(link), Reading, Writing, Chained, Unqueued>>
      /\ UNCHANGED <<link, links, greeted, nextReq, pending, chain, up, down, session, copy, archived, illegal>>
  BY DEF Alive, Standing, Coming, Going, Drafts, Calm, InPart, Reading, Writing, Running, Chained,
     Unqueued, client, wires, daemon
<1>3. Mine(j) /\ Turns
  BY DEF Kept
<1>4. Unqueued /\ (Alive => Calm /\ Drafts \subseteq {jobs[j].draft})
      /\ ~(jobs[j].stage = "abort" \/ (jobs[j].stage = "part" /\ jobs[j].got = "failed"))
  BY <1>3 DEF Mine, Queued, Answered_, Opened, Active
<1>5. ~Spoilt
  BY <1>3, <1>4, SpoiltBy
<1>6. Turns'
  <2>1. \A i \in Jobs : i # j => ~Active(i)
    BY <1>3, OneAtWork
  <2>2. j <= copy /\ \A i \in Jobs : i < j => jobs[i].stage = "done"
    BY <1>3 DEF Turns
  <2>3. \A i \in Jobs : i < j => jobs'[i].stage = "done"
    BY <2>2 DEF Jobs
  <2>4. ~Waiting(j)'
    BY DEF Waiting, Waits
  <2> SUFFICES ASSUME NEW i \in Jobs
               PROVE  /\ jobs'[i].stage # "idle" => i <= copy
                      /\ Active(i)' => \A k \in Jobs : k < i => jobs'[k].stage = "done"
                      /\ Waiting(i)' => jobs'[i].req # 0 /\ (jobs'[i].got = "none" => jobs'[i].req \in pending)
                      /\ jobs'[i].stage = "next" => jobs'[i].got = "ok"
                      /\ ~Active(i)' => jobs'[i].req = 0 /\ jobs'[i].got = "none"
    BY <1>2 DEF Turns
  <2> QED BY <1>1, <1>3, <2>1, <2>2, <2>3, <2>4 DEF Turns
<1>7. OneDraft' /\ (illegal = {})' /\ Greeting' /\ OneJob(chain)'
  BY <1>2 DEF Kept, OneDraft, Greeting
<1>8. Stream'
  <2>1. Alive => Grammatical(up[link], Reading, Spoilt')
    BY <1>5, GrammarAnyhow DEF Kept, Stream
  <2> QED BY <1>2, <2>1 DEF Stream, Kept
<1>9. Fresh'
  <2>1. Alive => session[link].req < nextReq
    BY DEF Kept, Fresh
  <2> QED BY <1>1, <1>2, <2>1, FreshKept DEF Kept
<1>10. Idle'
  BY <1>1 DEF Idle
<1>11. ASSUME NEW i \in Jobs, Active(i)' PROVE Mine(i)'
  <2>1. i = j
    BY <1>1, <1>3, <1>11, OneAtWork
  <2>2. ~Waiting(j)' /\ jobs'[j].stage = "next"
    BY DEF Waiting, Waits
  <2>3. Queued(j)'
    BY <1>2, <1>4 DEF Queued, Unqueued
  <2>4. Alive' => Sent(j)' /\ Received(j)' /\ Answered_(j)'
    BY <1>2, <1>4 DEF Sent, Received, Answered_, Calm, IsJobs
  <2>5. Alive => \A d \in Drafts : \A p \in session[link].drafts[d] : p.content.job = j /\ p.whole
    BY <1>3, <1>5 DEF Mine, Opened
  <2>6. Alive' => Opened(j)'
    BY <1>2, <1>4, <2>2, <2>5 DEF Opened, Unqueued
  <2> QED BY <2>1, <2>3, <2>4, <2>6 DEF Mine
<1> QED BY <1>6, <1>7, <1>8, <1>9, <1>10, <1>11 DEF Kept

(* The job asks for something, and waits.                                  *)
LEMMA AskedKept ==
  ASSUME Typed, Kept, Linked', NEW j \in Jobs, \A i \in Jobs : i # j => ~Active(i),
         j <= copy, \A i \in Jobs : i < j => jobs[i].stage = "done",
         NEW op \in Waits, NEW d \in Nat, NEW c \in Bodies, Issue(op, d, c),
         \A i \in Jobs : i # j => jobs'[i] = jobs[i],
         jobs'[j].stage = op /\ jobs'[j].req = nextReq /\ jobs'[j].got = "none",
         op # "begin" => d = jobs'[j].draft, op = "part" => c.job = j,
         UNCHANGED <<copy, wires, daemon>>,
         Unqueued,
         Alive => \/ Calm
                  \/ op = "abort" /\ jobs[j].stage = "part" /\ d = jobs[j].draft /\ Sent(j) /\ Received(j),
         Alive => Drafts \subseteq IF op = "begin" THEN {} ELSE {d},
         Alive => \A e \in Drafts : \A p \in session[link].drafts[e] :
                    p.content.job = j /\ (p.whole \/ op = "abort")
  PROVE  Kept'
<1>1. PICK x \in Operations :
           /\ x.link = link /\ x.op = op /\ x.req = nextReq /\ x.draft = d /\ x.content = c
           /\ Chained' = Chained \cup {x} /\ OneJob(chain)' /\ Writing' = Writing
           /\ pending' = pending \cup {nextReq} /\ nextReq' = nextReq + 1
           /\ UNCHANGED <<link, greeted, links>>
  BY Issued DEF Waits
<1>2. /\ UNCHANGED <<Alive, Coming, Going, Drafts, Calm, InPart(link), Reading>>
      /\ UNCHANGED <<up, down, session, copy, archived, illegal>>
  BY <1>1 DEF Alive, Standing, Coming, Going, Drafts, Calm, InPart, Reading, wires, daemon
<1>3. /\ Waiting(j)' /\ Active(j)' /\ IsJobs(op) /\ Turns /\ Fresh /\ nextReq \in Nat \ {0}
      /\ \A i \in Jobs : i # j => ~Active(i)' /\ ~Waiting(i)'
  BY DEF Active, Waiting, Kept, IsJobs, Waits, Typed
<1>4. Turns'
  <2>1. \A i \in Jobs : i < j => jobs'[i].stage = "done"
    BY DEF Jobs
  <2> SUFFICES ASSUME NEW i \in Jobs
               PROVE  /\ jobs'[i].stage # "idle" => i <= copy
                      /\ Active(i)' => \A k \in Jobs : k < i => jobs'[k].stage = "done"
                      /\ Waiting(i)' => jobs'[i].req # 0 /\ (jobs'[i].got = "none" => jobs'[i].req \in pending')
                      /\ jobs'[i].stage = "next" => jobs'[i].got = "ok"
                      /\ ~Active(i)' => jobs'[i].req = 0 /\ jobs'[i].got = "none"
    BY <1>2 DEF Turns
  <2>2. CASE i = j
    BY <1>1, <1>3, <2>1, <2>2 DEF Waits
  <2>3. CASE i # j
    BY <1>3, <2>3 DEF Turns, Active
  <2> QED BY <2>2, <2>3
<1>5. OneDraft' /\ (illegal = {})' /\ Greeting'
  BY <1>1, <1>2 DEF Kept, OneDraft, Greeting
<1>6. Spoilt' <=> op = "abort"
  <2>1. \A i \in Jobs : i # j => jobs[i].stage \notin {"abort", "part"}
    BY DEF Active, Waiting, Waits
  <2> QED BY <2>1 DEF Spoilt
<1>7. Stream'
  <2>1. Alive => Grammatical(up[link], Reading, Spoilt')
    BY <1>6, GrammarAnyhow DEF Kept, Stream, Calm, Coming
  <2> QED BY <1>1, <1>2, <2>1 DEF Stream, Kept
<1>8. Fresh'
  <2>1. \A r \in Nat : Numbered(r) => Numbered(r)' /\ (Foreign(r) => Foreign(r)')
    BY <1>1, <1>3 DEF Numbered, Foreign
  <2>2. \A i \in Jobs : jobs'[i].req < nextReq'
    <3>1. \A i \in Jobs : jobs[i].req \in Nat
      BY DEF Typed, JobStates
    <3>2. \A i \in Jobs : jobs'[i].req = nextReq \/ (jobs'[i].req \in Nat /\ jobs'[i].req < nextReq)
      BY <1>3, <3>1 DEF Fresh
    <3> QED BY <1>1, <1>3, <3>2
  <2>3. \A y \in Chained : y.req \in Nat
    <3>1. \A y \in Chained : y \in Operations
      BY DEF Chained, Seqs!ToSet, Typed
    <3> QED BY <3>1 DEF Operations
  <2>4. \A y \in Chained' : (Numbered(y.req) /\ y.link <= links /\ (y.op = "query" => Foreign(y.req)))'
    <3>1. Numbered(x.req)' /\ x.link <= links' /\ x.op # "query"
      BY <1>1, <1>3 DEF Numbered, Typed, IsJobs, Kept, Linked
    <3> QED BY <1>1, <1>3, <2>1, <2>3, <3>1 DEF Fresh
  <2>5. ASSUME link # 0, NEW y \in Going PROVE y.req < nextReq'
    <3>1. link \in Links /\ y \in Replies
      BY <2>5 DEF Going, Seqs!ToSet, Typed, Links
    <3>2. y.req \in Nat /\ y.req < nextReq
      BY <1>3, <2>5, <3>1 DEF Fresh, Replies
    <3> QED BY <1>1, <1>3, <3>2
  <2>6. ASSUME Alive
        PROVE  /\ session[link].req < nextReq'
               /\ \A f \in Coming : /\ f.op \in Requests_ \cup {"head"} => Numbered(f.req)'
                                    /\ f.op = "query" => Foreign(f.req)'
    <3>1. \A f \in Coming : f \in Frames
      BY <2>6, AliveTyped DEF Coming, Seqs!ToSet
    <3>2. \A f \in Coming : f.op \in Requests_ \cup {"head"} => f.req \in Nat
      BY <3>1 DEF Frames, Requests_
    <3>3. session[link].req \in Nat /\ session[link].req < nextReq
      BY <1>3, <2>6, AliveTyped DEF Fresh, Ends_
    <3> QED BY <1>1, <1>3, <2>1, <2>6, <3>2, <3>3 DEF Fresh, Requests_
  <2> QED BY <1>1, <1>2, <2>2, <2>4, <2>5, <2>6 DEF Fresh
<1>9. Idle'
  BY <1>3 DEF Idle
<1>10. ASSUME NEW i \in Jobs, Active(i)' PROVE Mine(i)'
  <2>1. i = j
    BY <1>3, <1>10
  <2>2. link # 0 => Answers(j)' = {}
    <3>1. ASSUME link # 0, NEW y \in Going PROVE y.req # nextReq
      <4>1. link \in Links /\ y \in Replies
        BY <3>1 DEF Going, Seqs!ToSet, Typed, Links
      <4> QED BY <1>3, <3>1, <4>1 DEF Fresh, Replies
    <3> QED BY <1>2, <3>1 DEF Answers
  <2>3. Queued(j)'
    <3>1. op \in OpsOf(op) /\ (op = "part" /\ Alive => Calm)
      BY DEF OpsOf
    <3>2. \A y \in Chained' : IsJobs(y.op) => y = x
      BY <1>1 DEF Unqueued
    <3> QED BY <1>1, <1>2, <1>3, <2>2, <3>1, <3>2 DEF Queued, Waits
  <2>4. Alive' => Sent(j)' /\ Received(j)'
    <3>1. CASE Alive /\ Calm
      BY <1>2, <3>1 DEF Sent, Received, Calm, IsJobs
    <3>2. CASE Alive /\ op = "abort" /\ jobs[j].stage = "part" /\ d = jobs[j].draft /\ Sent(j) /\ Received(j)
      <4>1. session[link].req # nextReq /\ \A f \in Coming : f.op = "head" => f.req # nextReq
        <5>1. session[link].req \in Nat
          BY <3>2, AliveTyped DEF Ends_
        <5> QED BY <1>3, <3>2, <5>1 DEF Fresh, Numbered
      <4>2. jobs'[j].draft = jobs[j].draft /\ jobs'[j].stage = "abort" /\ jobs'[j].req = nextReq
        BY <3>2
      <4>3. Sent(j)'
        BY <1>2, <3>2, <4>1, <4>2 DEF Sent
      <4>4. Received(j)'
        BY <1>1, <1>2, <3>2, <4>1, <4>2 DEF Received
      <4> QED BY <4>3, <4>4
    <3> QED BY <1>2, <3>1, <3>2
  <2>5. Alive' => Answered_(j)' /\ Opened(j)'
    <3>1. Alive' => link # 0
      BY <1>2 DEF Alive
    <3>2. Alive' => Answered_(j)'
      BY <2>2, <3>1 DEF Answered_, Waits
    <3>3. ~Unqueued'
      BY <1>1, <1>3 DEF Unqueued
    <3>4. \A y \in Chained' : IsJobs(y.op) => y.link = link'
      BY <1>1 DEF Unqueued
    <3>5. Alive' => Opened(j)'
      BY <1>1, <1>2, <1>6, <2>2, <3>1, <3>3, <3>4 DEF Opened
    <3> QED BY <3>2, <3>5
  <2> QED BY <2>1, <2>3, <2>4, <2>5 DEF Mine
<1> QED BY <1>1, <1>4, <1>5, <1>7, <1>8, <1>9, <1>10 DEF Kept

(* Query() keeps it: the picker asks behind whatever is queued.            *)
LEMMA QueryKept ==
  ASSUME Typed, Kept, Linked', Query
  PROVE  Kept'
<1>1. UNCHANGED <<copy, jobs, wires, daemon>> /\ Issue("query", 0, Nothing)
  BY DEF Query
<1>2. PICK x \in Operations :
           /\ x.link = link /\ x.op = "query" /\ x.req = nextReq
           /\ Chained' = Chained \cup {x} /\ OneJob(chain)' /\ Writing' = Writing
           /\ pending' = pending \cup {nextReq} /\ nextReq' = nextReq + 1
           /\ UNCHANGED <<link, greeted, links>>
  BY <1>1, Issued DEF Bodies, IsJobs
<1>3. /\ UNCHANGED <<Alive, Coming, Going, Drafts, Calm, InPart(link), Reading, Spoilt>>
      /\ UNCHANGED <<up, down, session, copy, archived, illegal>>
      /\ \A j \in Jobs : UNCHANGED <<Active(j), Waiting(j), Answers(j)>>
  BY <1>1, <1>2 DEF Alive, Standing, Coming, Going, Drafts, Calm, InPart, Reading, wires, daemon, Spoilt,
     Active, Waiting, Answers
<1>4. Turns'
  BY <1>1, <1>2, <1>3 DEF Turns, Kept
<1>5. OneDraft' /\ (illegal = {})' /\ Greeting' /\ Stream'
  BY <1>1, <1>2, <1>3 DEF Kept, OneDraft, Greeting, Stream
<1>6. Unqueued' <=> Unqueued
  BY <1>2 DEF Unqueued, IsJobs
<1>7. Fresh'
  <2>1. Fresh /\ nextReq \in Nat \ {0}
    BY DEF Kept, Typed
  <2>2. \A r \in Nat : Numbered(r) => Numbered(r)' /\ (Foreign(r) => Foreign(r)')
    BY <1>1, <1>2, <2>1 DEF Numbered, Foreign
  <2>3. \A i \in Jobs : jobs'[i].req < nextReq' /\ jobs[i].req # nextReq
    <3>1. \A i \in Jobs : jobs[i].req \in Nat
      BY DEF Typed, JobStates
    <3> QED BY <1>1, <1>2, <2>1, <3>1 DEF Fresh
  <2>4. \A y \in Chained' : (Numbered(y.req) /\ y.link <= links /\ (y.op = "query" => Foreign(y.req)))'
    <3>1. \A y \in Chained : y \in Operations
      BY DEF Chained, Seqs!ToSet, Typed
    <3>2. \A y \in Chained : y.req \in Nat
      BY <3>1 DEF Operations
    <3>3. Numbered(x.req)' /\ x.link <= links' /\ Foreign(x.req)'
      BY <1>1, <1>2, <2>1, <2>3 DEF Numbered, Typed, Kept, Linked, Foreign
    <3> QED BY <1>2, <2>1, <2>2, <3>2, <3>3 DEF Fresh
  <2>5. ASSUME link # 0, NEW y \in Going PROVE y.req < nextReq'
    <3>1. link \in Links /\ y \in Replies
      BY <2>5 DEF Going, Seqs!ToSet, Typed, Links
    <3>2. y.req \in Nat /\ y.req < nextReq
      BY <2>1, <2>5, <3>1 DEF Fresh, Replies
    <3> QED BY <1>2, <2>1, <3>2
  <2>6. ASSUME Alive
        PROVE  /\ session[link].req < nextReq'
               /\ \A f \in Coming : /\ f.op \in Requests_ \cup {"head"} => Numbered(f.req)'
                                    /\ f.op = "query" => Foreign(f.req)'
    <3>1. \A f \in Coming : f \in Frames
      BY <2>6, AliveTyped DEF Coming, Seqs!ToSet
    <3>2. \A f \in Coming : f.op \in Requests_ \cup {"head"} => f.req \in Nat
      BY <3>1 DEF Frames, Requests_
    <3>3. session[link].req \in Nat /\ session[link].req < nextReq
      BY <2>1, <2>6, AliveTyped DEF Fresh, Ends_
    <3> QED BY <1>2, <2>1, <2>2, <2>6, <3>2, <3>3 DEF Fresh, Requests_
  <2> QED BY <1>2, <1>3, <2>3, <2>4, <2>5, <2>6 DEF Fresh
<1>8. Idle'
  BY <1>3, <1>6 DEF Idle, Kept
<1>9. ASSUME NEW j \in Jobs, Active(j)' PROVE Mine(j)'
  <2>1. Active(j) /\ Mine(j) /\ UNCHANGED <<link, session, jobs>> /\ ~IsJobs(x.op)
    BY <1>1, <1>2, <1>3, <1>9 DEF Kept, IsJobs
  <2>2. Queued(j)'
    BY <1>2, <1>3, <1>6, <2>1 DEF Queued, Mine
  <2>3. Alive' => Sent(j)' /\ Received(j)' /\ Answered_(j)'
    BY <1>3, <1>6, <2>1 DEF Mine, Sent, Received, Answered_
  <2>4. Alive' => Opened(j)'
    BY <1>2, <1>3, <1>6, <2>1 DEF Mine, Opened
  <2> QED BY <2>2, <2>3, <2>4 DEF Mine
<1> QED BY <1>2, <1>4, <1>5, <1>7, <1>8, <1>9 DEF Kept

(* An event puts its job behind the others.                                *)
LEMMA OwnerChangedKept ==
  ASSUME Typed, Kept, Linked', OwnerChanged
  PROVE  Kept'
<1> DEFINE k == copy + 1
<1>1. /\ k \in Jobs /\ copy' = k /\ jobs' = [jobs EXCEPT ![k].stage = "queued"]
      /\ UNCHANGED <<link, greeted, links, pending, nextReq, chain, up, down, session, archived, illegal>>
  <2>1. copy < MaxCopies /\ copy' = k /\ copy \in Nat /\ MaxCopies \in Nat
    BY ExtensionAssumption DEF OwnerChanged, Typed
  <2>2. k \in Jobs
    BY <2>1 DEF Jobs
  <2>3. jobs' = [jobs EXCEPT ![k].stage = "queued"] /\ UNCHANGED <<client, wires, daemon>>
    BY <2>1 DEF OwnerChanged
  <2> QED BY <2>1, <2>2, <2>3 DEF client, wires, daemon
<1>2. jobs[k].stage = "idle"
  <2>1. jobs[k].stage # "idle" => k <= copy
    BY <1>1 DEF Kept, Turns
  <2>2. copy \in Nat
    BY DEF Typed
  <2> QED BY <2>1, <2>2
<1>3. /\ \A j \in Jobs : j # k => jobs'[j] = jobs[j]
      /\ jobs'[k].stage = "queued" /\ jobs'[k].req = jobs[k].req /\ jobs'[k].got = jobs[k].got
  <2>1. jobs[k] \in JobStates
    BY <1>1 DEF Typed
  <2> QED BY <1>1, <2>1 DEF JobStates, Typed
<1>4. /\ \A j \in Jobs : UNCHANGED <<Active(j), Waiting(j)>> /\ jobs'[j].req = jobs[j].req
      /\ \A j \in Jobs : Active(j) => jobs'[j] = jobs[j]
      /\ Turns /\ ~Active(k)
  BY <1>2, <1>3 DEF Active, Waiting, Waits, Kept
<1> HIDE DEF k
<1>5. /\ UNCHANGED <<Alive, Coming, Going, Drafts, Calm, InPart(link), Reading, Writing, Chained, Unqueued>>
      /\ \A j \in Jobs : UNCHANGED Answers(j)
  BY <1>1, <1>4 DEF Alive, Standing, Coming, Going, Drafts, Calm, InPart, Reading, Writing, Running,
     Answers, Chained, Unqueued
<1>6. UNCHANGED Spoilt
  BY <1>2, <1>3 DEF Spoilt
<1>7. Turns'
  <2>1. copy' = copy + 1 /\ copy \in Nat
    BY <1>1 DEF Typed, k
  <2> SUFFICES ASSUME NEW j \in Jobs
               PROVE  /\ jobs'[j].stage # "idle" => j <= copy'
                      /\ Active(j) => \A i \in Jobs : i < j => jobs'[i].stage = "done"
                      /\ Waiting(j) => jobs'[j].req # 0 /\ (jobs'[j].got = "none" => jobs'[j].req \in pending)
                      /\ jobs'[j].stage = "next" => jobs'[j].got = "ok"
                      /\ ~Active(j) => jobs'[j].req = 0 /\ jobs'[j].got = "none"
    BY <1>1, <1>4 DEF Turns
  <2>2. CASE j = k
    BY <1>3, <1>4, <2>1, <2>2 DEF Turns, k, Active
  <2>3. CASE j # k
    <3>1. Active(j) => \A i \in Jobs : i < j => jobs'[i].stage = "done"
      <4>1. \A i \in Jobs : jobs[i].stage = "done" => i # k
        BY <1>2
      <4> QED BY <1>3, <1>4, <4>1 DEF Turns
    <3>2. jobs[j].stage # "idle" => j <= copy + 1
      BY <1>4, <2>1 DEF Turns, Jobs
    <3> QED BY <1>3, <1>4, <2>1, <2>3, <3>1, <3>2 DEF Turns
  <2> QED BY <2>2, <2>3
<1>8. OneDraft' /\ (illegal = {})' /\ Greeting' /\ Stream' /\ OneJob(chain)'
  BY <1>1, <1>5, <1>6 DEF Kept, OneDraft, Greeting, Stream
<1>9. Fresh'
  <2>1. Alive => session[link].req < nextReq
    BY DEF Kept, Fresh
  <2> QED BY <1>1, <1>4, <1>5, <2>1, FreshKept DEF Kept
<1>10. Idle'
  BY <1>4, <1>5 DEF Idle, Kept
<1>11. ASSUME NEW j \in Jobs, Active(j)' PROVE Mine(j)'
  <2>1. Active(j) /\ Mine(j) /\ UNCHANGED <<link, session, jobs[j]>>
    BY <1>1, <1>4, <1>11 DEF Kept
  <2>2. Queued(j)'
    BY <1>4, <1>5, <2>1 DEF Queued, Mine
  <2>3. Alive' => Sent(j)' /\ Received(j)' /\ Answered_(j)'
    BY <1>4, <1>5, <2>1 DEF Mine, Sent, Received, Answered_
  <2>4. Alive' => Opened(j)'
    BY <1>4, <1>5, <1>6, <2>1 DEF Mine, Opened
  <2> QED BY <2>2, <2>3, <2>4 DEF Mine
<1> QED BY <1>7, <1>8, <1>9, <1>10, <1>11 DEF Kept

-----------------------------------------------------------------------------
(* No other job is at work while one takes its turn, or is at work.        *)
LEMMA Alone ==
  ASSUME Turns, NEW j \in Jobs, Turn(j) \/ Active(j)
  PROVE  /\ \A i \in Jobs : i # j => ~Active(i)
         /\ \A i \in Jobs : i < j => jobs[i].stage = "done"
         /\ Turn(j) => ~Active(j)
<1>1. CASE Active(j)
  BY <1>1, OneAtWork DEF Turns, Turn, Active, Waiting, Waits
<1>2. CASE Turn(j)
  <2>1. ASSUME NEW i \in Jobs, i < j PROVE jobs[i].stage = "done"
    <3>1. i \in 1 .. j - 1
      BY <2>1 DEF Jobs
    <3> QED BY <1>2, <3>1 DEF Turn
  <2>2. ASSUME NEW i \in Jobs, Active(i) PROVE FALSE
    <3>1. i < j => jobs[i].stage = "done"
      BY <2>1
    <3>2. j < i => jobs[j].stage = "done"
      BY <2>2 DEF Turns
    <3> QED BY <1>2, <2>2, <3>1, <3>2 DEF Turn, Active, Waiting, Waits, Jobs
  <2> QED BY <2>1, <2>2
<1> QED BY <1>1, <1>2

(* An answer that has come back is one to what is no longer queued.        *)
LEMMA AnsweredOf ==
  ASSUME Typed, Kept, NEW j \in Jobs, Waiting(j), Answered(j)
  PROVE  Active(j) /\ Mine(j) /\ Unqueued
<1>1. Active(j) /\ Mine(j)
  BY DEF Active, Kept
<1>2. \A x \in Chained : x.req # jobs[j].req
  BY DEF Answered, Chained, Seqs!ToSet
<1> QED BY <1>1, <1>2 DEF Mine, Queued, Unqueued

(* Start() keeps it: nothing is left of the jobs before.                   *)
LEMMA StartKept ==
  ASSUME Typed, Kept, Linked', NEW j \in Jobs, Start(j)
  PROVE  Kept'
<1>1. Turn(j) /\ Turns /\ Idle /\ jobs[j].stage = "queued" /\ j <= copy
  BY DEF Start, Turn, Kept, Turns
<1>2. (\A i \in Jobs : ~Active(i)) /\ \A i \in Jobs : i < j => jobs[i].stage = "done"
  BY <1>1, Alone
<1>3. Unqueued /\ (Alive => Calm /\ Drafts = {})
  BY <1>1, <1>2 DEF Idle
<1>4. CASE link = 0
  BY <1>1, <1>2, <1>3, <1>4, DoneKept DEF Start
<1>5. CASE link # 0
  <2>1. Issue("begin", 0, Nothing) /\ jobs' = Awaiting(j, "begin")
    BY <1>5 DEF Start
  <2>2. /\ \A i \in Jobs : i # j => jobs'[i] = jobs[i]
        /\ jobs'[j].stage = "begin" /\ jobs'[j].req = nextReq /\ jobs'[j].got = "none"
    <3>1. jobs[j] \in JobStates
      BY DEF Typed
    <3> QED BY <2>1, <3>1 DEF Awaiting, Typed, JobStates
  <2>3. Nothing \in Bodies /\ "begin" \in Waits /\ 0 \in Nat
    BY DEF Bodies, Waits
  <2>4. UNCHANGED <<copy, wires, daemon>>
    BY DEF Start
  <2>5. Alive => \A e \in Drafts : \A p \in session[link].drafts[e] : p.content.job = j /\ (p.whole \/ "begin" = "abort")
    BY <1>3
  <2> HIDE DEF Issue
  <2> QED BY <1>1, <1>2, <1>3, <2>1, <2>2, <2>3, <2>4, <2>5, AskedKept
<1> QED BY <1>4, <1>5

(* Begun() keeps it: the draft that is open is the one the answer named.   *)
LEMMA BegunKept ==
  ASSUME Typed, Kept, Linked', NEW j \in Jobs, Begun(j)
  PROVE  Kept'
<1>1. jobs[j].stage = "begin" /\ Waiting(j) /\ Answered(j) /\ jobs[j] \in JobStates
      /\ UNCHANGED <<copy, client, wires, daemon>>
  BY DEF Begun, Waiting, Waits, Typed
<1>2. Active(j) /\ Mine(j) /\ Unqueued /\ Turns
  BY <1>1, AnsweredOf DEF Kept
<1>3. CASE jobs[j].got = "ok"
  <2>1. /\ \A i \in Jobs : i # j => jobs'[i] = jobs[i]
        /\ jobs'[j].stage = "next" /\ jobs'[j].got = "ok" /\ jobs'[j].req = jobs[j].req
        /\ jobs'[j].draft = jobs[j].draft
    BY <1>1, <1>3 DEF Begun, JobStates, Typed
  <2> QED BY <1>1, <1>2, <1>3, <2>1, NextKept
<1>4. CASE jobs[j].got # "ok"
  <2>1. jobs' = Done(j) /\ jobs[j].got # "none"
    BY <1>1, <1>4 DEF Begun, Answered
  <2>2. ASSUME Alive PROVE Calm /\ Drafts = {}
    <3>1. Answers(j) = {} /\ Drafts = {}
      BY <1>1, <1>2, <1>4, <2>1, <2>2 DEF Mine, Opened
    <3>2. ~InPart(link)
      BY <1>1, <1>2, <2>2 DEF Mine, Received
    <3>3. \A f \in Coming : f.op \notin {"begin", "commit", "abort", "head"}
      BY <1>1, <1>2, <2>1, <2>2 DEF Mine, Sent
    <3>4. \A f \in Coming : f.op \notin {"chunk", "end"}
      BY <2>2, <3>2, <3>3, AliveTyped, GrammarCalm DEF Kept, Stream, Reading, Coming
    <3>5. \A f \in Coming : f \in Frames
      BY <2>2, AliveTyped DEF Coming, Seqs!ToSet
    <3>6. \A f \in Coming : ~IsJobs(f.op)
      BY <3>3, <3>4, <3>5 DEF Frames, IsJobs, Requests_
    <3> QED BY <3>1, <3>2, <3>6 DEF Calm
  <2> QED BY <1>1, <1>2, <2>1, <2>2, DoneKept, Alone
<1> QED BY <1>3, <1>4

(* RecordOne() keeps it: the part before is done with.                     *)
LEMMA RecordOneKept ==
  ASSUME Typed, Kept, Linked', NEW j \in Jobs, RecordOne(j)
  PROVE  Kept'
<1> DEFINE mime == jobs[j].done + 1
           c == [job |-> j, copy |-> copy, mime |-> mime]
<1>1. jobs[j].stage = "next" /\ jobs[j].done < Wanted /\ Active(j) /\ jobs[j] \in JobStates
      /\ UNCHANGED <<copy, queries, wires, daemon>>
  BY DEF RecordOne, Active, Typed
<1>2. Mine(j) /\ Turns /\ j <= copy /\ jobs[j].got = "ok"
  BY <1>1 DEF Kept, Turns
<1>3. Unqueued /\ (Alive => Calm)
  BY <1>1, <1>2 DEF Mine, Queued, Answered_
<1>4. ~Spoilt
  BY <1>1, <1>2, SpoiltBy
<1>5. CASE /\ Issue("part", jobs[j].draft, c)
           /\ jobs' = [Awaiting(j, "part") EXCEPT ![j].done = mime]
  <2>1. /\ \A i \in Jobs : i # j => jobs'[i] = jobs[i]
        /\ jobs'[j].stage = "part" /\ jobs'[j].req = nextReq /\ jobs'[j].got = "none"
        /\ jobs'[j].draft = jobs[j].draft
    <3> DEFINE A == Awaiting(j, "part")
    <3>1. /\ \A i \in Jobs : i # j => A[i] = jobs[i]
          /\ A[j].stage = "part" /\ A[j].req = nextReq /\ A[j].got = "none" /\ A[j].draft = jobs[j].draft
          /\ DOMAIN A = Jobs /\ A[j] = [jobs[j] EXCEPT !.stage = "part", !.req = nextReq, !.got = "none"]
      BY <1>1 DEF Awaiting, Typed, JobStates
    <3>2. A = [i \in Jobs |-> A[i]]
      BY DEF Awaiting, Typed
    <3>3. jobs' = [A EXCEPT ![j].done = mime]
      BY <1>5
    <3>4. A[j] \in [stage : {"part"}, draft : Nat, done : 0 .. Wanted, req : Nat,
                    got : {"none"}, any : BOOLEAN]
      BY <1>1, <3>1 DEF Typed, JobStates
    <3> HIDE DEF A, mime
    <3> QED BY <3>1, <3>2, <3>3, <3>4
  <2>2. c \in Bodies /\ c.job = j /\ jobs[j].draft \in Nat /\ "part" \in Waits
    <3>1. mime \in 1 .. Wanted
      BY <1>1, ExtensionAssumption DEF JobStates
    <3>2. copy \in Jobs
      BY <1>2 DEF Typed, Jobs
    <3> QED BY <1>1, <3>1, <3>2 DEF Bodies, Contents, JobStates, Waits
  <2>3. Issue("part", jobs[j].draft, c)
    BY <1>5
  <2>4. Alive => Drafts \subseteq {jobs[j].draft}
    BY <1>1, <1>2 DEF Mine, Opened
  <2>5. Alive => \A e \in Drafts : \A p \in session[link].drafts[e] : p.content.job = j /\ (p.whole \/ "part" = "abort")
    BY <1>2, <1>4 DEF Mine, Opened
  <2> HIDE DEF Issue, c
  <2> QED BY <1>1, <1>2, <1>3, <2>1, <2>2, <2>3, <2>4, <2>5, Alone, AskedKept
<1>6. CASE jobs' = [jobs EXCEPT ![j].done = mime] /\ UNCHANGED client
  <2>1. /\ \A i \in Jobs : i # j => jobs'[i] = jobs[i]
        /\ jobs'[j].stage = "next" /\ jobs'[j].got = "ok" /\ jobs'[j].req = jobs[j].req
        /\ jobs'[j].draft = jobs[j].draft
    BY <1>1, <1>2, <1>6 DEF JobStates, Typed
  <2> QED BY <1>1, <1>2, <1>6, <2>1, NextKept
<1> QED BY <1>5, <1>6 DEF RecordOne

(* What an abort or a commit is asked with. *)
LEMMA AwaitingOf ==
  ASSUME Typed, NEW j \in Jobs, NEW stage \in Waits, jobs' = Awaiting(j, stage)
  PROVE  /\ \A i \in Jobs : i # j => jobs'[i] = jobs[i]
         /\ jobs'[j].stage = stage /\ jobs'[j].req = nextReq /\ jobs'[j].got = "none"
         /\ jobs'[j].draft = jobs[j].draft /\ jobs[j].draft \in Nat /\ Nothing \in Bodies
<1>1. jobs[j] \in JobStates
  BY DEF Typed
<1> QED BY <1>1 DEF Awaiting, Typed, JobStates, Bodies

(* Recorded() keeps it: a part that failed is followed by the abort.       *)
LEMMA RecordedKept ==
  ASSUME Typed, Kept, Linked', NEW j \in Jobs, Recorded(j)
  PROVE  Kept'
<1>1. jobs[j].stage = "part" /\ Waiting(j) /\ Answered(j) /\ jobs[j] \in JobStates
      /\ UNCHANGED <<copy, queries, wires, daemon>>
  BY DEF Recorded, Waiting, Waits, Typed
<1>2. Active(j) /\ Mine(j) /\ Unqueued /\ Turns /\ j <= copy
  BY <1>1, AnsweredOf DEF Kept, Turns
<1>3. CASE jobs[j].got = "ok"
  <2>1. /\ \A i \in Jobs : i # j => jobs'[i] = jobs[i]
        /\ jobs'[j].stage = "next" /\ jobs'[j].got = "ok" /\ jobs'[j].req = jobs[j].req
        /\ jobs'[j].draft = jobs[j].draft /\ UNCHANGED client
    BY <1>1, <1>3 DEF Recorded, JobStates, Typed
  <2> QED BY <1>1, <1>2, <1>3, <2>1, NextKept
<1>4. CASE jobs[j].got # "ok"
  <2>1. Issue("abort", jobs[j].draft, Nothing) /\ jobs' = Awaiting(j, "abort")
    BY <1>4 DEF Recorded
  <2>2. /\ \A i \in Jobs : i # j => jobs'[i] = jobs[i]
        /\ jobs'[j].stage = "abort" /\ jobs'[j].req = nextReq /\ jobs'[j].got = "none"
        /\ jobs'[j].draft = jobs[j].draft /\ jobs[j].draft \in Nat /\ Nothing \in Bodies
        /\ "abort" \in Waits
    BY <2>1, AwaitingOf DEF Waits
  <2>3. Alive => Sent(j) /\ Received(j) /\ Drafts \subseteq {jobs[j].draft}
                 /\ \A e \in Drafts : \A p \in session[link].drafts[e] :
                      p.content.job = j /\ (p.whole \/ "abort" = "abort")
    BY <1>1, <1>2 DEF Mine, Opened
  <2> HIDE DEF Issue
  <2> QED BY <1>1, <1>2, <2>1, <2>2, <2>3, Alone, AskedKept
<1> QED BY <1>3, <1>4

(* Finish() keeps it: what is committed has no part that failed.           *)
LEMMA FinishKept ==
  ASSUME Typed, Kept, Linked', NEW j \in Jobs, Finish(j)
  PROVE  Kept'
<1> DEFINE op == IF jobs[j].any THEN "commit" ELSE "abort"
<1>1. /\ jobs[j].stage = "next" /\ Active(j) /\ UNCHANGED <<copy, queries, wires, daemon>>
      /\ Issue(op, jobs[j].draft, Nothing) /\ jobs' = Awaiting(j, op)
  BY DEF Finish, Active
<1>2. op \in {"commit", "abort"} /\ op \in Waits
  BY DEF Waits
<1> HIDE DEF op, Issue
<1>3. Mine(j) /\ Turns /\ j <= copy /\ ~Spoilt
  BY <1>1, SpoiltBy DEF Kept, Turns
<1>4. Unqueued /\ (Alive => Calm)
  BY <1>1, <1>3 DEF Mine, Queued, Answered_
<1>5. /\ \A i \in Jobs : i # j => jobs'[i] = jobs[i]
      /\ jobs'[j].stage = op /\ jobs'[j].req = nextReq /\ jobs'[j].got = "none"
      /\ jobs'[j].draft = jobs[j].draft /\ jobs[j].draft \in Nat /\ Nothing \in Bodies
  BY <1>1, <1>2, AwaitingOf
<1>6. Alive => Drafts \subseteq {jobs[j].draft}
               /\ \A e \in Drafts : \A p \in session[link].drafts[e] :
                    p.content.job = j /\ (p.whole \/ op = "abort")
  BY <1>1, <1>3 DEF Mine, Opened
<1> QED BY <1>1, <1>2, <1>3, <1>4, <1>5, <1>6, Alone, AskedKept

(* Finished() keeps it: the draft is gone with the answer.                 *)
LEMMA FinishedKept ==
  ASSUME Typed, Kept, Linked', NEW j \in Jobs, Finished(j)
  PROVE  Kept'
<1>1. jobs[j].stage \in {"commit", "abort"} /\ Waiting(j) /\ Answered(j) /\ jobs' = Done(j)
      /\ UNCHANGED <<copy, client, wires, daemon>> /\ jobs[j].stage # "idle" /\ jobs[j].got # "none"
  BY DEF Finished, Waiting, Waits, Answered
<1>2. Active(j) /\ Mine(j) /\ Unqueued /\ Turns
  BY <1>1, AnsweredOf DEF Kept
<1>3. ASSUME Alive PROVE Calm /\ Drafts = {}
  BY <1>1, <1>2, <1>3 DEF Mine, Opened, Sent
<1> QED BY <1>1, <1>2, <1>3, DoneKept, Alone

-----------------------------------------------------------------------------
(* The daemon. *)

(* What is known of the frame that is taken, and of those behind it.       *)
LEMMA Taken ==
  ASSUME Typed, Kept, Alive, Proper(link)
  PROVE  /\ link \in Links /\ session[link] \in Ends_ /\ session[link].state = "served"
         /\ Frame(link) \in Frames /\ Frame(link) \in Coming /\ up[link] # << >>
         /\ Coming = {Frame(link)} \cup Coming' /\ up'[link] \in Seq(Frames)
         /\ Fits(Frame(link).op, Reading, Spoilt)
         /\ Grammatical(up'[link], Midst(Frame(link).op), Spoilt)
         /\ Finally(up'[link], Midst(Frame(link).op)) = Writing
         /\ Trailing(up'[link]) /\ \A g \in Coming' : Trails(Frame(link).op, g.op)
         /\ UNCHANGED <<jobs, copy, chain, link, links, greeted, pending, nextReq>>
         /\ UNCHANGED <<Chained, Unqueued, Spoilt, Writing>>
         /\ \A j \in Jobs : UNCHANGED <<Active(j), Waiting(j)>>
<1>1. /\ link \in Links /\ session[link] \in Ends_ /\ session[link].state = "served"
      /\ up[link] \in Seq(Frames) /\ up[link] # << >> /\ up'[link] = Tail(up[link])
      /\ UNCHANGED <<jobs, copy, chain, link, links, greeted, pending, nextReq>>
  BY AliveTyped DEF Proper, Typed, capture, client
<1>2. Frame(link) \in Frames /\ Coming = {Frame(link)} \cup Coming' /\ up'[link] \in Seq(Frames)
  BY <1>1, TailOf, MembersOfTail DEF Frame, Coming
<1>3. Grammatical(up[link], Reading, Spoilt) /\ Finally(up[link], Reading) = Writing /\ Trailing(up[link])
  BY DEF Kept, Stream
<1>4. /\ Fits(Frame(link).op, Reading, Spoilt)
      /\ Grammatical(up'[link], Midst(Frame(link).op), Spoilt)
      /\ Finally(up'[link], Midst(Frame(link).op)) = Writing
  BY <1>1, <1>3, GrammarTail DEF Frame
<1>5. Trailing(up'[link]) /\ \A g \in Coming' : Trails(Frame(link).op, g.op)
  BY <1>1, <1>3, TrailingTail DEF Frame, Coming
<1>6. /\ UNCHANGED <<Chained, Unqueued, Spoilt, Writing>>
      /\ \A j \in Jobs : UNCHANGED <<Active(j), Waiting(j)>>
  BY <1>1 DEF Chained, Unqueued, Spoilt, Writing, Running, Active, Waiting
<1> QED BY <1>1, <1>2, <1>4, <1>5, <1>6

(* What is left to see when a frame is taken: what becomes of the job's.   *)
LEMMA TakenKept ==
  ASSUME Typed, Kept, Linked', Alive, Proper(link), session'[link].state = "served",
         Reading' = Midst(Frame(link).op), session'[link].req < nextReq,
         \/ down' = down /\ Frame(link).op # "hello"
         \/ \E a \in Replies : /\ down' = [down EXCEPT ![link] = Append(@, a)] /\ a.req < nextReq
                               /\ Frame(link).op = "hello" => a.req = 0,
         OneDraft', illegal' = illegal,
         Frame(link).op \in {"hello", "query"} => Drafts' = Drafts,
         \A j \in Jobs : Active(j) => Mine(j)'
  PROVE  Kept'
<1> DEFINE f == Frame(link)
<1>1. /\ link \in Links /\ f \in Frames /\ f \in Coming /\ Coming = {f} \cup Coming'
      /\ up'[link] \in Seq(Frames) /\ up[link] # << >>
      /\ Grammatical(up'[link], Midst(f.op), Spoilt) /\ Finally(up'[link], Midst(f.op)) = Writing
      /\ Trailing(up'[link])
      /\ UNCHANGED <<jobs, copy, chain, link, links, greeted, pending, nextReq>>
      /\ UNCHANGED <<Chained, Unqueued, Spoilt, Writing>>
      /\ \A j \in Jobs : UNCHANGED <<Active(j), Waiting(j)>>
  BY Taken
<1>2. Alive'
  BY <1>1 DEF Alive, Standing
<1>3. Turns' /\ OneJob(chain)' /\ (illegal = {})'
  BY <1>1 DEF Kept, Turns
<1>4. Stream'
  BY <1>1 DEF Stream
<1>5. /\ down'[link] = down[link] \/ (down'[link] # << >> /\ (down[link] # << >> => Head(down'[link]) = Head(down[link])))
      /\ down[link] = << >> /\ f.op = "hello" => down'[link] # << >> /\ Head(down'[link]).req = 0
      /\ \A x \in Going' : x \in Going \/ x.req < nextReq
  <2>1. CASE down' = down /\ f.op # "hello"
    BY <1>1, <2>1 DEF Going
  <2>2. CASE \E a \in Replies : /\ down' = [down EXCEPT ![link] = Append(@, a)] /\ a.req < nextReq
                                /\ f.op = "hello" => a.req = 0
    <3>1. PICK a \in Replies : /\ down' = [down EXCEPT ![link] = Append(@, a)] /\ a.req < nextReq
                               /\ f.op = "hello" => a.req = 0
      BY <2>2
    <3>2. down[link] \in Seq(Replies) /\ down'[link] = Append(down[link], a)
      BY <1>1, <3>1 DEF Typed
    <3>3. Going' = Going \cup {a}
      BY <1>1, <3>2, MembersOfAppend DEF Going
    <3>4. down'[link] # << >> /\ Head(down'[link]) = IF down[link] = << >> THEN a ELSE Head(down[link])
      BY <3>2, HeadOfAppend
    <3> QED BY <3>1, <3>3, <3>4
  <2> QED BY <2>1, <2>2
<1>6. Greeting'
  <2>1. Greeting /\ (up[link] # << >> => Head(up[link]) = f)
    BY DEF Kept, Frame
  <2> QED BY <1>1, <1>2, <1>5, <2>1 DEF Greeting
<1>7. Fresh'
  BY <1>1, <1>2, <1>5, FreshKept DEF Kept
<1>8. Idle'
  <2>1. ASSUME \A j \in Jobs : ~Active(j) PROVE Unqueued /\ Calm' /\ Drafts' = {}
    <3>1. Unqueued /\ Calm /\ Drafts = {}
      BY <2>1 DEF Kept, Idle
    <3>2. f.op \in {"hello", "query"}
      BY <1>1, <3>1 DEF Calm, IsJobs
    <3>3. ~InPart(link)'
      BY <3>2 DEF Reading, Midst
    <3> QED BY <1>1, <3>1, <3>2, <3>3 DEF Calm
  <2> QED BY <1>1, <2>1 DEF Idle
<1> QED BY <1>1, <1>3, <1>4, <1>6, <1>7, <1>8, OneDraft' DEF Kept

(* Nothing of a job's: the greeting, and what the picker asks.             *)
LEMMA TakeOthersKept ==
  ASSUME Typed, Kept, Linked', Alive, Proper(link), TakeHello(link) \/ TakeQuery(link)
  PROVE  Kept'
<1> DEFINE f == Frame(link)
<1>1. /\ link \in Links /\ f \in Frames /\ f \in Coming /\ Coming = {f} \cup Coming'
      /\ session[link].state = "served" /\ Fits(f.op, Reading, Spoilt)
      /\ UNCHANGED <<jobs, copy, chain, link, links, greeted, pending, nextReq>>
      /\ UNCHANGED <<Chained, Unqueued, Spoilt, Writing>>
      /\ \A j \in Jobs : UNCHANGED <<Active(j), Waiting(j)>>
  BY Taken
<1>2. f.op \in {"hello", "query"} /\ UNCHANGED <<session, archived, illegal>>
  BY DEF TakeHello, TakeQuery
<1>3. PICK a \in Replies : /\ down' = [down EXCEPT ![link] = Append(@, a)]
                           /\ f.op = "hello" => a.req = 0
                           /\ f.op = "query" => a.req = f.req
  <2>1. f.op = "query" => f.req \in Nat
    BY <1>1 DEF Frames, Requests_
  <2>2. \A req \in Nat : [req |-> req, ok |-> TRUE, draft |-> 0] \in Replies
    BY DEF Replies
  <2>3. CASE TakeHello(link)
    BY <2>2, <2>3 DEF TakeHello, Say
  <2>4. CASE TakeQuery(link)
    BY <2>1, <2>2, <2>4 DEF TakeQuery, Say
  <2> QED BY <2>3, <2>4
<1>4. /\ f.op = "query" => Numbered(f.req) /\ Foreign(f.req)
      /\ session[link].req < nextReq /\ nextReq \in Nat \ {0}
  BY <1>1 DEF Kept, Fresh, Requests_, Typed
<1>5. a.req < nextReq /\ \A j \in Jobs : Waiting(j) => a.req # jobs[j].req
  BY <1>2, <1>3, <1>4 DEF Numbered, Foreign, Kept, Turns
<1>6. Going' = Going \cup {a}
  <2>1. down[link] \in Seq(Replies) /\ down'[link] = Append(down[link], a)
    BY <1>1, <1>3 DEF Typed
  <2> QED BY <1>1, <2>1, MembersOfAppend DEF Going
<1>7. UNCHANGED <<Drafts, Reading, InPart(link), Alive>> /\ Reading = "none" /\ OneDraft'
  BY <1>1, <1>2 DEF Drafts, Reading, InPart, Alive, Standing, Fits, OneDraft, Kept
<1>8. Calm' <=> Calm
  BY <1>1, <1>2, <1>7 DEF Calm, IsJobs
<1>9. ASSUME NEW j \in Jobs, Active(j) PROVE Mine(j)'
  <2>1. Mine(j) /\ (Waiting(j) => Answers(j)' = Answers(j)) /\ UNCHANGED <<link, session, jobs>>
    BY <1>1, <1>2, <1>5, <1>6, <1>9 DEF Kept, Answers
  <2>2. Queued(j)'
    BY <1>1, <1>7, <1>8, <2>1 DEF Queued, Mine
  <2>3. Sent(j)' /\ Received(j)' /\ Answered_(j)'
    BY <1>1, <1>7, <1>8, <2>1 DEF Mine, Sent, Received, Answered_
  <2>4. Opened(j)'
    BY <1>1, <1>2, <1>7, <1>8, <2>1 DEF Mine, Opened, Waiting, Waits
  <2> QED BY <2>2, <2>3, <2>4 DEF Mine
<1>10. Midst(f.op) = "none"
  BY <1>2 DEF Midst
<1> HIDE DEF f
<1> QED BY <1>1, <1>2, <1>3, <1>4, <1>5, <1>7, <1>9, <1>10, TakenKept DEF f

(* An answer that is added to what is on the way.                          *)
LEMMA SaidOf ==
  ASSUME Typed, link \in Links, UNCHANGED link, NEW req \in Nat, NEW ok \in BOOLEAN, NEW d \in Nat,
         Say(link, req, ok, d)
  PROVE  \E a \in Replies : /\ a.req = req /\ a.ok = ok /\ a.draft = d
                            /\ down' = [down EXCEPT ![link] = Append(@, a)]
                            /\ Going' = Going \cup {a}
<1> DEFINE a == [req |-> req, ok |-> ok, draft |-> d]
<1>1. a \in Replies /\ a.req = req /\ a.ok = ok /\ a.draft = d
  BY DEF Replies
<1>2. down' = [down EXCEPT ![link] = Append(@, a)]
  BY DEF Say
<1> HIDE DEF a
<1>3. down[link] \in Seq(Replies) /\ down'[link] = Append(down[link], a)
  BY <1>2 DEF Typed
<1>4. Going' = Going \cup {a}
  BY <1>1, <1>3, MembersOfAppend DEF Going
<1> QED BY <1>1, <1>2, <1>4

(* TakeBegin() keeps it: no other draft is open.                           *)
LEMMA TakeBeginKept ==
  ASSUME Typed, Kept, Linked', Alive, Proper(link), TakeBegin(link)
  PROVE  Kept'
<1> DEFINE f == Frame(link)
           d == session[link].next
<1>1. /\ link \in Links /\ f \in Frames /\ f \in Coming /\ Coming = {f} \cup Coming'
      /\ session[link] \in Ends_ /\ session[link].state = "served" /\ Fits(f.op, Reading, Spoilt)
      /\ \A g \in Coming' : Trails(f.op, g.op)
      /\ UNCHANGED <<jobs, copy, chain, link, links, greeted, pending, nextReq>>
      /\ UNCHANGED <<Chained, Unqueued, Spoilt, Writing>>
      /\ \A j \in Jobs : UNCHANGED <<Active(j), Waiting(j)>>
  BY Taken
<1>2. f.op = "begin" /\ UNCHANGED <<archived, illegal>> /\ Say(link, f.req, TRUE, d)
  BY DEF TakeBegin
<1>3. ~Calm /\ \A g \in Coming' : ~IsJobs(g.op)
  BY <1>1, <1>2 DEF Calm, IsJobs, Trails
<1>4. PICK j \in Jobs : Active(j) /\ Mine(j)
  BY <1>3, ComingIsOf
<1>5. /\ Unqueued /\ jobs[j].stage = "begin" /\ jobs[j].req = f.req /\ jobs[j].got = "none" /\ Waiting(j)
  BY <1>1, <1>2, <1>4 DEF Mine, Sent, Waiting, Waits
<1>6. Answers(j) = {} /\ Drafts = {}
  BY <1>3, <1>4, <1>5 DEF Mine, Answered_, Opened
<1>7. Numbered(f.req) /\ session[link].req < nextReq /\ f.req \in Nat /\ d \in Nat \ {0}
  BY <1>1, <1>2 DEF Kept, Fresh, Requests_, Frames, Ends_
<1>8. PICK a \in Replies : /\ a.req = f.req /\ a.ok = TRUE /\ a.draft = d
                           /\ down' = [down EXCEPT ![link] = Append(@, a)]
                           /\ Going' = Going \cup {a}
  <2>1. link' = link /\ d \in Nat /\ f.req \in Nat
    BY <1>1, <1>7
  <2>2. PICK ok \in BOOLEAN : ok = TRUE
    OBVIOUS
  <2> HIDE DEF f, d
  <2>3. Say(link, f.req, ok, d)
    BY <1>2, <2>2
  <2>4. PICK a \in Replies : /\ a.req = f.req /\ a.ok = ok /\ a.draft = d
                             /\ down' = [down EXCEPT ![link] = Append(@, a)]
                             /\ Going' = Going \cup {a}
    BY <1>1, <2>1, <2>3, SaidOf
  <2> QED BY <2>2, <2>4
<1>9. /\ session'[link].state = "served" /\ session'[link].req = session[link].req
      /\ session'[link].whole = session[link].whole
      /\ Drafts' = {d} /\ session'[link].drafts[d] = {}
  <2> DEFINE after == [e \in DOMAIN session[link].drafts \cup {d} |->
                         IF e = d THEN {} ELSE session[link].drafts[e]]
  <2>1. session' = [session EXCEPT ![link].next = d + 1, ![link].drafts = after]
    BY DEF TakeBegin
  <2>2. DOMAIN after = {d} /\ after[d] = {}
    BY <1>6 DEF Drafts
  <2> HIDE DEF after, d
  <2>3. session'[link].drafts = after /\ session'[link].state = "served"
        /\ session'[link].req = session[link].req /\ session'[link].whole = session[link].whole
    BY <1>1, <2>1 DEF Typed, Ends_
  <2> QED BY <1>1, <2>2, <2>3 DEF Drafts
<1> HIDE DEF f, d
<1>10. Reading' = Reading /\ Reading = "none" /\ ~InPart(link)' /\ Midst(f.op) = "none"
  BY <1>1, <1>2, <1>9 DEF Reading, InPart, Fits, Midst
<1>11. Calm'
  BY <1>3, <1>10 DEF Calm
<1>12. OneDraft'
  BY <1>2 DEF Kept, OneDraft
<1>13. ASSUME NEW i \in Jobs, Active(i) PROVE Mine(i)'
  <2>1. i = j
    BY <1>4, <1>13, OneAtWork DEF Kept
  <2>2. Answers(j)' = {a}
    BY <1>1, <1>5, <1>6, <1>8 DEF Answers
  <2>3. Queued(j)'
    BY <1>1, <1>5 DEF Queued, Unqueued
  <2>4. Sent(j)' /\ Received(j)' /\ Answered_(j)'
    BY <1>11 DEF Sent, Received, Answered_, Calm, IsJobs
  <2>5. Opened(j)'
    BY <1>1, <1>5, <1>7, <1>8, <1>9, <2>2 DEF Opened, Unqueued
  <2> QED BY <2>1, <2>3, <2>4, <2>5 DEF Mine
<1> QED BY <1>1, <1>2, <1>7, <1>8, <1>9, <1>10, <1>12, <1>13, TakenKept DEF Numbered, f

(* TakeHead() keeps it: the part is the job's, for its draft.              *)
LEMMA TakeHeadKept ==
  ASSUME Typed, Kept, Linked', Alive, Proper(link), TakeHead(link)
  PROVE  Kept'
<1> DEFINE f == Frame(link)
<1>1. /\ link \in Links /\ f \in Frames /\ f \in Coming /\ Coming = {f} \cup Coming'
      /\ session[link] \in Ends_ /\ session[link].state = "served" /\ Fits(f.op, Reading, Spoilt)
      /\ \A g \in Coming' : Trails(f.op, g.op)
      /\ UNCHANGED <<jobs, copy, chain, link, links, greeted, pending, nextReq>>
      /\ UNCHANGED <<Chained, Unqueued, Spoilt, Writing>>
      /\ \A j \in Jobs : UNCHANGED <<Active(j), Waiting(j)>>
  BY Taken
<1>2. f.op = "head" /\ UNCHANGED <<down, archived, illegal>>
  BY DEF TakeHead
<1>3. ~Calm
  BY <1>1, <1>2 DEF Calm, IsJobs
<1>4. PICK j \in Jobs : Active(j) /\ Mine(j)
  BY <1>3, ComingIsOf
<1>5. Numbered(f.req) /\ f.req \in Nat /\ f.req # 0
  BY <1>1, <1>2 DEF Kept, Fresh, Frames, Requests_, Numbered
<1>6. ~session[link].whole
  BY <1>1, <1>2 DEF Fits, Reading, InPart, Kept, Linked
<1>7. /\ session'[link].state = "served" /\ session'[link].req = f.req
      /\ session'[link].part = f.draft /\ session'[link].content = f.content
      /\ ~session'[link].whole /\ session'[link].drafts = session[link].drafts
  BY <1>1, <1>6 DEF TakeHead, Typed, Ends_
<1> HIDE DEF f
<1>8. Reading' = "head" /\ InPart(link)' /\ Midst(f.op) = "head" /\ Drafts' = Drafts /\ ~Calm'
      /\ Going' = Going
  BY <1>1, <1>2, <1>5, <1>7 DEF Reading, InPart, Midst, Drafts, Calm, Going
<1>9. OneDraft'
  BY <1>2 DEF Kept, OneDraft
<1>10. ASSUME NEW i \in Jobs, Active(i) PROVE Mine(i)'
  <2>1. i = j
    BY <1>4, <1>10, OneAtWork DEF Kept
  <2>2. Answers(j)' = Answers(j)
    BY <1>1, <1>8 DEF Answers
  <2>3. Queued(j)'
    BY <1>1, <1>3, <1>4, <1>8, <2>2 DEF Mine, Queued
  <2>4. Sent(j)' /\ Answered_(j)'
    BY <1>1, <1>3, <1>4, <1>8, <2>2 DEF Mine, Sent, Answered_
  <2>5. Received(j)'
    BY <1>1, <1>2, <1>4, <1>7 DEF Mine, Sent, Received, Trails
  <2>6. Opened(j)'
    BY <1>1, <1>2, <1>3, <1>4, <1>7, <1>8, <2>2 DEF Mine, Opened
  <2> QED BY <2>1, <2>3, <2>4, <2>5, <2>6 DEF Mine
<1> QED BY <1>1, <1>2, <1>5, <1>7, <1>8, <1>9, <1>10, TakenKept DEF Numbered, f

(* TakeChunk() keeps it: the part that is announced is whole.              *)
LEMMA TakeChunkKept ==
  ASSUME Typed, Kept, Linked', Alive, Proper(link), TakeChunk(link)
  PROVE  Kept'
<1> DEFINE f == Frame(link)
<1>1. /\ link \in Links /\ f \in Frames /\ f \in Coming /\ Coming = {f} \cup Coming'
      /\ session[link] \in Ends_ /\ session[link].state = "served" /\ Fits(f.op, Reading, Spoilt)
      /\ UNCHANGED <<jobs, copy, chain, link, links, greeted, pending, nextReq>>
      /\ UNCHANGED <<Chained, Unqueued, Spoilt, Writing>>
      /\ \A j \in Jobs : UNCHANGED <<Active(j), Waiting(j)>>
  BY Taken
<1>2. f.op = "chunk" /\ UNCHANGED <<down, archived, illegal>>
  BY DEF TakeChunk
<1>3. Reading = "head" /\ InPart(link) /\ ~Calm
  BY <1>1, <1>2 DEF Fits, Reading, Calm
<1>4. PICK j \in Jobs : Active(j) /\ Mine(j)
  BY <1>3, ComingIsOf
<1>5. session[link].req < nextReq
  BY DEF Kept, Fresh
<1>6. /\ session'[link].state = "served" /\ session'[link].req = session[link].req
      /\ session'[link].part = session[link].part /\ session'[link].content = session[link].content
      /\ session'[link].whole /\ session'[link].drafts = session[link].drafts
  BY <1>1 DEF TakeChunk, Typed, Ends_
<1> HIDE DEF f
<1>7. Reading' = "chunk" /\ InPart(link)' /\ Midst(f.op) = "chunk" /\ Drafts' = Drafts /\ ~Calm'
      /\ Going' = Going
  BY <1>1, <1>2, <1>3, <1>6 DEF Reading, InPart, Midst, Drafts, Calm, Going
<1>8. OneDraft'
  BY <1>2 DEF Kept, OneDraft
<1>9. ASSUME NEW i \in Jobs, Active(i) PROVE Mine(i)'
  <2>1. i = j
    BY <1>4, <1>9, OneAtWork DEF Kept
  <2>2. Answers(j)' = Answers(j)
    BY <1>1, <1>7 DEF Answers
  <2>3. Queued(j)'
    BY <1>1, <1>3, <1>4, <1>7, <2>2 DEF Mine, Queued
  <2>4. Sent(j)' /\ Answered_(j)'
    BY <1>1, <1>3, <1>4, <1>7, <2>2 DEF Mine, Sent, Answered_
  <2>5. Received(j)'
    BY <1>1, <1>3, <1>4, <1>6 DEF Mine, Received
  <2>6. Opened(j)'
    BY <1>1, <1>2, <1>3, <1>4, <1>6, <1>7, <2>2 DEF Mine, Opened
  <2> QED BY <2>1, <2>3, <2>4, <2>5, <2>6 DEF Mine
<1> QED BY <1>1, <1>2, <1>5, <1>6, <1>7, <1>8, <1>9, TakenKept DEF f

(* TakeEnd() keeps it: what the draft gets is the job's, and whole unless spoilt. *)
LEMMA TakeEndKept ==
  ASSUME Typed, Kept, Linked', Alive, Proper(link), TakeEnd(link)
  PROVE  Kept'
<1> DEFINE f == Frame(link)
           s == session[link]
           part == [content |-> s.content, whole |-> s.whole]
<1>1. /\ link \in Links /\ f \in Frames /\ f \in Coming /\ Coming = {f} \cup Coming'
      /\ s \in Ends_ /\ s.state = "served" /\ Fits(f.op, Reading, Spoilt)
      /\ up'[link] \in Seq(Frames) /\ Grammatical(up'[link], Midst(f.op), Spoilt)
      /\ Finally(up'[link], Midst(f.op)) = Writing
      /\ UNCHANGED <<jobs, copy, chain, link, links, greeted, pending, nextReq>>
      /\ UNCHANGED <<Chained, Unqueued, Spoilt, Writing>>
      /\ \A j \in Jobs : UNCHANGED <<Active(j), Waiting(j)>>
  BY Taken
<1>2. f.op = "end" /\ UNCHANGED <<archived, illegal>> /\ Midst(f.op) = "none"
  BY DEF TakeEnd, Midst
<1>3. InPart(link) /\ ~Calm /\ (s.whole \/ Spoilt)
  BY <1>1, <1>2 DEF Fits, Reading, Calm
<1>4. PICK j \in Jobs : Active(j) /\ Mine(j)
  BY <1>3, ComingIsOf
<1>5. /\ jobs[j].stage \in {"part", "abort"} /\ Waiting(j)
      /\ jobs[j].stage = "part" <=> s.req = jobs[j].req
      /\ s.part = jobs[j].draft /\ s.content.job = j
      /\ \A g \in Coming : g.op # "head"
  BY <1>3, <1>4 DEF Mine, Received, Waiting, Waits
<1>6. Writing = "none" /\ \A g \in Coming' : g.op \notin {"head", "chunk", "end"}
  <2>1. \A g \in Seqs!ToSet(up'[link]) : g.op # "head"
    BY <1>1, <1>5 DEF Coming
  <2> QED BY <1>1, <1>2, <2>1, GrammarCalm DEF Coming
<1>7. s.req # 0 /\ s.req < nextReq /\ s.req \in Nat
  BY <1>1, <1>3 DEF InPart, Kept, Fresh, Ends_
<1>8. PICK kept \in BOOLEAN :
        /\ kept => s.part \in DOMAIN s.drafts
        /\ session' = [session EXCEPT ![link] =
                          [s EXCEPT !.req = 0, !.part = 0, !.content = Nothing, !.whole = FALSE,
                                    !.drafts = IF kept
                                               THEN [s.drafts EXCEPT ![s.part] = @ \cup {part}]
                                               ELSE s.drafts]]
        /\ Say(link, s.req, kept, 0)
  <2>1. (s.part \in DOMAIN s.drafts) \in BOOLEAN
    OBVIOUS
  <2>2. PICK kept \in Stores(s.part \in DOMAIN s.drafts) :
        /\ session' = [session EXCEPT ![link] =
                          [s EXCEPT !.req = 0, !.part = 0, !.content = Nothing, !.whole = FALSE,
                                    !.drafts = IF kept
                                               THEN [s.drafts EXCEPT ![s.part] = @ \cup {part}]
                                               ELSE s.drafts]]
        /\ Say(link, s.req, kept, 0)
    BY DEF TakeEnd
  <2>3. kept \in BOOLEAN /\ (kept => s.part \in DOMAIN s.drafts)
    BY <2>1, StoresOf
  <2> QED BY <2>2, <2>3
<1>9. /\ session'[link].state = "served" /\ session'[link].req = 0 /\ ~session'[link].whole
      /\ Drafts' = Drafts
      /\ \A d \in Drafts : \A p \in session'[link].drafts[d] : p \in session[link].drafts[d] \/ p = part
  <2> DEFINE after == IF kept THEN [s.drafts EXCEPT ![s.part] = @ \cup {part}] ELSE s.drafts
  <2>1. DOMAIN after = DOMAIN s.drafts
    OBVIOUS
  <2>2. \A d \in DOMAIN s.drafts : \A p \in after[d] : p \in s.drafts[d] \/ p = part
    <3>1. PICK D \in SUBSET Nat : s.drafts \in [D -> SUBSET Parts]
      BY <1>1 DEF Ends_, Openings
    <3> HIDE DEF part, s
    <3> QED BY <3>1
  <2>3. session' = [session EXCEPT ![link] = [s EXCEPT !.req = 0, !.part = 0, !.content = Nothing,
                                                       !.whole = FALSE, !.drafts = after]]
    BY <1>8
  <2> HIDE DEF after
  <2>4. session'[link].drafts = after /\ session'[link].state = "served" /\ session'[link].req = 0
        /\ ~session'[link].whole
    BY <1>1, <2>3 DEF Typed, Ends_
  <2> QED BY <1>1, <2>1, <2>2, <2>4 DEF Drafts
<1>10. part.content.job = j /\ (part.whole \/ Spoilt)
  BY <1>3, <1>5
<1> HIDE DEF f, part
<1>11. PICK a \in Replies : /\ a.req = s.req /\ a.ok = kept /\ a.draft = 0
                            /\ down' = [down EXCEPT ![link] = Append(@, a)]
                            /\ Going' = Going \cup {a}
  <2>1. link' = link /\ 0 \in Nat
    BY <1>1
  <2> HIDE DEF s
  <2> QED BY <1>1, <1>7, <1>8, <2>1, SaidOf
<1> HIDE DEF s
<1>12. Reading' = "none" /\ ~InPart(link)'
  BY <1>1, <1>9 DEF Reading, InPart
<1>13. jobs[j].stage = "part" => Unqueued
  <2>1. ASSUME NEW x \in Chained, IsJobs(x.op), jobs[j].stage = "part" PROVE FALSE
    <3>1. x.op \in {"part", "chunk", "end"} /\ x.link = link /\ x.op # "part"
      BY <1>3, <1>4, <2>1 DEF Mine, Queued, Opened, OpsOf
    <3>2. chain \in Seq(Operations) /\ OneJob(chain) /\ \E i \in DOMAIN chain : chain[i] = x
      BY <2>1 DEF Typed, Kept, Chained, Seqs!ToSet
    <3>3. chain # << >> /\ Running = x
      <4>1. PICK i \in DOMAIN chain : chain[i] = x
        BY <3>2
      <4>2. i \in 1 .. Len(chain) /\ ~(i > 1)
        BY <3>1, <3>2, <4>1 DEF OneJob
      <4>3. i = 1 /\ chain # << >>
        BY <4>2, <3>2
      <4> QED BY <4>1, <4>3 DEF Running
    <3> QED BY <1>6, <3>1, <3>3 DEF Writing
  <2> QED BY <2>1 DEF Unqueued
<1>14. jobs[j].stage = "part" => Calm'
  <2>1. ASSUME jobs[j].stage = "part", NEW g \in Coming' PROVE ~IsJobs(g.op)
    <3>1. g \in Coming /\ g \in Frames
      <4>1. \A h \in Coming : h \in Frames
        BY AliveTyped DEF Coming, Seqs!ToSet
      <4> QED BY <1>1, <2>1, <4>1
    <3>2. g.op \notin {"begin", "commit", "abort"}
      BY <1>4, <2>1, <3>1 DEF Mine, Sent
    <3> QED BY <1>6, <2>1, <3>1, <3>2 DEF Frames, Requests_, IsJobs
  <2> QED BY <1>12, <2>1 DEF Calm
<1>15. OneDraft'
  BY <1>2 DEF Kept, OneDraft
<1>16. ASSUME NEW i \in Jobs, Active(i) PROVE Mine(i)'
  <2>1. i = j
    BY <1>4, <1>16, OneAtWork DEF Kept
  <2>2. /\ jobs[j].stage = "abort" => Answers(j)' = Answers(j)
        /\ Answers(j)' \subseteq Answers(j) \cup {a}
    BY <1>1, <1>5, <1>11 DEF Answers
  <2>3. Queued(j)'
    <3>1. CASE jobs[j].stage = "part"
      BY <1>1, <1>13, <3>1 DEF Queued, Unqueued
    <3>2. CASE jobs[j].stage = "abort"
      BY <1>1, <1>4, <2>2, <3>2, Zenon DEF Mine, Queued, OpsOf, Alive
    <3> QED BY <1>5, <3>1, <3>2
  <2>4. Sent(j)' /\ Received(j)'
    BY <1>1, <1>4, <1>12 DEF Mine, Sent, Received
  <2>5. Answered_(j)'
    BY <1>1, <1>3, <1>4, <1>5, <1>14, <2>2 DEF Mine, Answered_
  <2>6. Opened(j)'
    <3>1. Opened(j)
      BY <1>4 DEF Mine
    <3> QED BY <1>1, <1>2, <1>3, <1>5, <1>9, <1>10, <1>11, <2>2, <3>1 DEF Opened
  <2> QED BY <2>1, <2>3, <2>4, <2>5, <2>6 DEF Mine
<1>17. session'[link].req < nextReq
  BY <1>9 DEF Typed
<1> QED BY <1>1, <1>2, <1>7, <1>9, <1>11, <1>12, <1>15, <1>16, <1>17, TakenKept DEF f

(* The draft is gone, whatever becomes of it.                              *)
LEMMA WithoutOf ==
  ASSUME Typed, link \in Links, UNCHANGED link, session' = Without(link)
  PROVE  /\ Drafts' = Drafts \ {Frame(link).draft}
         /\ session'[link].state = session[link].state /\ session'[link].req = session[link].req
         /\ session'[link].whole = session[link].whole
<1> DEFINE D == DOMAIN session[link].drafts \ {Frame(link).draft}
           after == [d \in D |-> session[link].drafts[d]]
<1>1. session[link] \in Ends_ /\ session' = [session EXCEPT ![link].drafts = after]
  BY DEF Typed, Without
<1>2. DOMAIN after = D
  OBVIOUS
<1> HIDE DEF after
<1>3. /\ session'[link].drafts = after /\ session'[link].state = session[link].state
      /\ session'[link].req = session[link].req /\ session'[link].whole = session[link].whole
  BY <1>1 DEF Typed, Ends_
<1> QED BY <1>2, <1>3 DEF Drafts

(* TakeCommit() and TakeAbort() keep it: nothing of the job comes behind.  *)
LEMMA TakeCloseKept ==
  ASSUME Typed, Kept, Linked', Alive, Proper(link), TakeCommit(link) \/ TakeAbort(link)
  PROVE  Kept'
<1> DEFINE f == Frame(link)
<1>1. /\ link \in Links /\ f \in Frames /\ f \in Coming /\ Coming = {f} \cup Coming'
      /\ session[link] \in Ends_ /\ session[link].state = "served" /\ Fits(f.op, Reading, Spoilt)
      /\ \A g \in Coming' : Trails(f.op, g.op)
      /\ UNCHANGED <<jobs, copy, chain, link, links, greeted, pending, nextReq>>
      /\ UNCHANGED <<Chained, Unqueued, Spoilt, Writing>>
      /\ \A j \in Jobs : UNCHANGED <<Active(j), Waiting(j)>>
  BY Taken
<1>2. f.op \in {"commit", "abort"} /\ session' = Without(link) /\ UNCHANGED illegal
  BY DEF TakeCommit, TakeAbort
<1>3. ~Calm /\ \A g \in Coming' : ~IsJobs(g.op)
  BY <1>1, <1>2 DEF Calm, IsJobs, Trails
<1>4. PICK j \in Jobs : Active(j) /\ Mine(j)
  BY <1>3, ComingIsOf
<1>5. /\ Unqueued /\ jobs[j].stage = f.op /\ jobs[j].req = f.req /\ jobs[j].got = "none" /\ Waiting(j)
      /\ f.draft = jobs[j].draft
  BY <1>1, <1>2, <1>4 DEF Mine, Sent, Waiting, Waits
<1>6. Answers(j) = {} /\ Drafts \subseteq {f.draft}
  BY <1>2, <1>3, <1>4, <1>5 DEF Mine, Answered_, Opened
<1>7. Numbered(f.req) /\ session[link].req < nextReq /\ f.req \in Nat
  BY <1>1, <1>2 DEF Kept, Fresh, Requests_, Frames
<1>8. /\ Drafts' = {} /\ session'[link].state = "served" /\ session'[link].req = session[link].req
      /\ session'[link].whole = session[link].whole
  BY <1>1, <1>2, <1>6, WithoutOf
<1>9. \E ok \in BOOLEAN :
        /\ Say(link, f.req, ok, 0)
        /\ \/ archived' = archived
           \/ /\ f.op = "commit" /\ f.draft \in Drafts
              /\ archived' = archived \cup ({session[link].drafts[f.draft]} \ {{}})
  <2>1. CASE TakeAbort(link)
    BY <2>1 DEF TakeAbort
  <2>2. CASE TakeCommit(link)
    <3>1. PICK kept \in Stores(f.draft \in Drafts) :
            /\ archived' = IF kept THEN archived \cup ({session[link].drafts[f.draft]} \ {{}})
                           ELSE archived
            /\ Say(link, f.req, kept, 0)
      BY <2>2 DEF TakeCommit, Drafts
    <3>2. (f.draft \in Drafts) \in BOOLEAN
      OBVIOUS
    <3>3. kept \in BOOLEAN /\ (kept => f.draft \in Drafts)
      BY <3>2, StoresOf
    <3>4. f.op = "commit"
      BY <2>2 DEF TakeCommit
    <3> HIDE DEF f
    <3> QED BY <3>1, <3>3, <3>4
  <2> QED BY <2>1, <2>2
<1> HIDE DEF f
<1>10. PICK a \in Replies : /\ a.req = f.req /\ a.draft = 0
                            /\ down' = [down EXCEPT ![link] = Append(@, a)]
                            /\ Going' = Going \cup {a}
  <2>1. link' = link /\ 0 \in Nat
    BY <1>1
  <2> QED BY <1>1, <1>7, <1>9, <2>1, SaidOf
<1>11. Reading' = Reading /\ Reading = "none" /\ ~InPart(link)' /\ Midst(f.op) = "none"
  BY <1>1, <1>2, <1>8 DEF Reading, InPart, Fits, Midst
<1>12. Calm'
  BY <1>3, <1>11 DEF Calm
<1>13. OneDraft'
  <2>1. OneDraft
    BY DEF Kept
  <2>2. CASE archived' = archived
    BY <2>1, <2>2 DEF OneDraft
  <2>3. CASE /\ f.op = "commit" /\ f.draft \in Drafts
             /\ archived' = archived \cup ({session[link].drafts[f.draft]} \ {{}})
    <3>1. ~Spoilt
      BY <1>4, <1>5, <2>3, SpoiltBy DEF Kept
    <3>2. \A p \in session[link].drafts[f.draft] : p.content.job = j /\ p.whole
      BY <1>4, <2>3, <3>1 DEF Mine, Opened
    <3> QED BY <2>1, <2>3, <3>2 DEF OneDraft
  <2> QED BY <1>9, <2>2, <2>3
<1>14. ASSUME NEW i \in Jobs, Active(i) PROVE Mine(i)'
  <2>1. i = j
    BY <1>4, <1>14, OneAtWork DEF Kept
  <2>2. Answers(j)' = {a}
    BY <1>1, <1>5, <1>6, <1>10 DEF Answers
  <2>3. Queued(j)'
    BY <1>1, <1>5 DEF Queued, Unqueued
  <2>4. Sent(j)' /\ Received(j)' /\ Answered_(j)'
    BY <1>12 DEF Sent, Received, Answered_, Calm, IsJobs
  <2>5. Opened(j)'
    BY <1>1, <1>2, <1>5, <1>8, <1>10, <1>12, <2>2 DEF Opened, Unqueued
  <2> QED BY <2>1, <2>3, <2>4, <2>5 DEF Mine
<1> QED BY <1>1, <1>2, <1>7, <1>8, <1>10, <1>11, <1>13, <1>14, TakenKept DEF Numbered, f

(* Take() keeps it, for the frame that comes next has its place.           *)
LEMMA TakeKept ==
  ASSUME Typed, Kept, NEW l \in Links, Take(l)
  PROVE  Linked' /\ Kept'
<1>1. Proper(l) /\ l = link /\ Alive
  BY TakeIsProper DEF Kept
<1>2. Linked'
  BY <1>1, LinkedFromDaemon DEF Kept
<1> QED BY <1>1, <1>2, TakeOthersKept, TakeBeginKept, TakeHeadKept, TakeChunkKept, TakeEndKept,
           TakeCloseKept DEF Proper

(* Accept() keeps it, with a place for the connection or without.          *)
LEMMA AcceptKept ==
  ASSUME Typed, Kept, NEW l \in Links, Accept(l)
  PROVE  Linked' /\ Kept'
<1>1. Linked'
  BY LinkedFromDaemon DEF Kept
<1>2. l = link /\ Alive /\ link \in Links /\ session[link] \in Ends_ /\ link # 0
  BY AliveTyped DEF Accept, Kept, Linked, Standing, Alive, Links
<1>3. PICK state \in {"served", "ended"} : session' = [session EXCEPT ![l].state = state]
  BY DEF Accept
<1>4. /\ session'[link].req = session[link].req /\ session'[link].part = session[link].part
      /\ session'[link].content = session[link].content
      /\ session'[link].whole = session[link].whole
      /\ session'[link].drafts = session[link].drafts
  BY <1>2, <1>3 DEF Typed, Ends_
<1>5. UNCHANGED <<capture, client, archived, illegal, link, up[link], down[link], Going>>
  BY DEF Accept, wires, client, Going
<1> QED BY <1>1, <1>2, <1>4, <1>5, QuietKept

(* Links that end keep it, whatever was on its way.                        *)
LEMMA CutKept ==
  ASSUME Typed, Kept, NEW cut \in SUBSET Served, Cut(cut)
  PROVE  Linked' /\ Kept'
<1>1. Linked'
  BY LinkedFromCut DEF Kept
<1>2. UNCHANGED <<capture, client, archived, illegal, link>>
  BY DEF Cut, client
<1>3. CASE link \in cut
  <2>1. link \in Links /\ session'[link].state = "ended"
    BY <1>3 DEF Cut, Ended, Served, Typed
  <2>2. ~Alive'
    BY <1>2, <2>1 DEF Alive, Standing
  <2>3. Going' \subseteq Going
    <3>1. down'[link] = down[link] \/ down'[link] = << >>
      BY <2>1 DEF Cut
    <3> QED BY <1>2, <3>1 DEF Going, Seqs!ToSet
  <2> QED BY <1>1, <1>2, <2>2, <2>3, QuietKept
<1>4. CASE link \notin cut /\ link # 0
  <2>1. link \in Links
    BY <1>4 DEF Typed, Links
  <2>2. session'[link] = session[link] /\ up'[link] = up[link] /\ down'[link] = down[link]
    BY <1>4, <2>1 DEF Cut
  <2>3. Going' = Going /\ (Alive' => Alive)
    BY <1>2, <2>2 DEF Going, Alive, Standing
  <2> QED BY <1>1, <1>2, <2>2, <2>3, QuietKept
<1>5. CASE link = 0
  <2>1. ~Alive'
    BY <1>2, <1>5 DEF Alive
  <2> QED BY <1>1, <1>2, <1>5, <2>1, QuietKept
<1> QED BY <1>3, <1>4, <1>5

-----------------------------------------------------------------------------
(* The theorems. *)

(* The invariant holds at first.                                           *)
LEMMA InitKept == ExtInit => ExtInd
<1> SUFFICES ASSUME ExtInit PROVE ExtInd
  OBVIOUS
<1> USE DEF ExtInit
<1>1. Typed
  <2>1. jobs \in [Jobs -> JobStates]
    <3>1. NoJob \in JobStates
      BY ExtensionAssumption DEF NoJob, JobStates, Stages
    <3> QED BY <3>1
  <2>2. up \in [Links -> Seq(Frames)] /\ down \in [Links -> Seq(Replies)] /\ chain \in Seq(Operations)
    OBVIOUS
  <2>3. session \in [Links -> Ends_]
    BY NoSessionTyped
  <2>4. /\ copy \in 0 .. MaxCopies /\ queries \in 0 .. MaxQueries
        /\ link \in 0 .. MaxLinks /\ links \in 0 .. MaxLinks
    BY ExtensionAssumption
  <2>5. pending \in SUBSET (Nat \ {0}) /\ nextReq \in Nat \ {0} /\ archived \in SUBSET SUBSET Parts
    OBVIOUS
  <2>6. greeted \in BOOLEAN
    BY Zenon
  <2> QED BY <2>1, <2>2, <2>3, <2>4, <2>5, <2>6 DEF Typed
<1>2. \A j \in Jobs : ~Active(j) /\ jobs[j].stage = "idle" /\ jobs[j].req = 0 /\ jobs[j].got = "none"
  BY DEF Active, Waiting, Waits, NoJob
<1>3. Chained = {} /\ ~Alive /\ Unqueued
  <2>1. Chained = {}
    BY DEF Chained, Seqs!ToSet
  <2> QED BY <2>1 DEF Alive, Unqueued
<1>4. Linked
  BY DEF Linked, NoSession, Standing, Links
<1>5. Greeting /\ Turns /\ Stream /\ Idle /\ OneJob(chain)
  BY <1>2, <1>3 DEF Greeting, Turns, Stream, Idle, OneJob, Waiting, Waits
<1>6. Fresh
  BY <1>2, <1>3 DEF Fresh
<1>7. OneDraft /\ illegal = {}
  BY DEF OneDraft
<1> QED BY <1>1, <1>2, <1>4, <1>5, <1>6, <1>7 DEF ExtInd, Kept

(* Every step keeps the invariant.                                         *)
LEMMA StepKept == ExtInd /\ [ExtNext]_extVars => ExtInd'
<1> SUFFICES ASSUME Typed, Kept, [ExtNext]_extVars PROVE Typed' /\ Kept'
  BY DEF ExtInd
<1>1. CASE OwnerChanged
  <2>1. Typed'
    <3>1. copy \in Nat /\ copy + 1 \in Jobs /\ copy' = copy + 1 /\ "queued" \in Stages
      BY <1>1, ExtensionAssumption DEF OwnerChanged, Typed, Jobs, Stages
    <3>2. jobs' \in [Jobs -> JobStates]
      BY <1>1, <3>1 DEF OwnerChanged, Typed, JobStates
    <3>3. copy' \in 0 .. MaxCopies
      BY <3>1, ExtensionAssumption DEF Jobs
    <3> QED BY <1>1, <3>2, <3>3 DEF OwnerChanged, Typed, client, wires, daemon
  <2>2. Linked'
    BY <1>1 DEF OwnerChanged, client, wires, daemon, Kept, Linked, Standing
  <2> QED BY <1>1, <2>1, <2>2, OwnerChangedKept
<1>2. CASE Query
  <2>1. queries' \in 0 .. MaxQueries /\ Issue("query", 0, Nothing) /\ Nothing \in Bodies
        /\ UNCHANGED <<copy, jobs, wires, daemon>>
    BY <1>2, ExtensionAssumption DEF Query, Typed, Bodies
  <2>2. chain' \in Seq(Operations) /\ pending' \in SUBSET (Nat \ {0}) /\ nextReq' \in Nat \ {0}
        /\ UNCHANGED <<link, greeted, links>>
    BY <2>1, IssueTyped
  <2>3. Typed'
    BY <2>1, <2>2 DEF Typed, wires, daemon
  <2>4. Linked'
    BY <2>1, <2>2 DEF wires, daemon, Kept, Linked, Standing
  <2> QED BY <1>2, <2>3, <2>4, QueryKept
<1>3. CASE WriteRequest \/ RequestFails \/ WritePart \/ PartFails \/ StreamFails
  <2>1. Typed'
    BY <1>3, ClientTyped
  <2>2. UNCHANGED <<link, links, session, down>>
    BY <1>3 DEF WriteRequest, RequestFails, WritePart, PartFails, StreamFails, wires, daemon
  <2>3. Linked'
    BY <2>2 DEF Kept, Linked, Standing
  <2> QED BY <1>3, <2>1, <2>3, WriteRequestKept, FailsKept, WritePartKept, StreamFailsKept
<1>4. CASE Dispatch \/ MakeLink \/ Greeted \/ Retry
  <2>1. Typed' /\ Linked'
    BY <1>4, LinkTyped, LinkedFromClient DEF Kept
  <2> QED BY <1>4, <2>1, DispatchKept, MakeLinkKept, GreetedKept, RetryKept
<1>5. ASSUME NEW j \in Jobs, Job(j) PROVE Typed' /\ Kept'
  <2>1. jobs[j].stage # "idle" => copy \in Jobs
    BY DEF Kept, Turns, Typed, Jobs
  <2>2. Typed'
    BY <1>5, <2>1, JobTyped DEF Job
  <2>3. UNCHANGED <<link, links, session, down>>
    BY <1>5 DEF Job, Start, Begun, RecordOne, Recorded, Finish, Finished, Issue, client, wires, daemon
  <2>4. Linked'
    BY <2>3 DEF Kept, Linked, Standing
  <2> QED BY <1>5, <2>2, <2>4, StartKept, BegunKept, RecordOneKept, RecordedKept, FinishKept,
             FinishedKept DEF Job
<1>6. ASSUME NEW l \in Links, ServeLink(l) PROVE Typed' /\ Kept'
  BY <1>6, DaemonTyped, AcceptKept, TakeKept DEF ServeLink
<1>7. ASSUME NEW l \in Links, Break(l) PROVE Typed' /\ Kept'
  <2>1. {l} \in SUBSET Served /\ {l} \in SUBSET Links /\ Cut({l})
    BY <1>7 DEF Break, Served
  <2> QED BY <2>1, CutTyped, CutKept
<1>8. CASE FindIdle
  <2>1. UNCHANGED <<capture, client, wires, session, archived, illegal>>
    BY <1>8 DEF FindIdle
  <2>2. Typed'
    BY <2>1 DEF Typed, capture, client, wires
  <2>3. Linked' /\ Going' = Going
    BY <2>1 DEF client, wires, Kept, Linked, Standing, Going
  <2>4. \/ ~Alive'
        \/ /\ Alive /\ UNCHANGED <<up[link], down[link]>> /\ session'[link] = session[link]
    BY <2>1 DEF client, wires, Alive, Standing
  <2> QED BY <2>1, <2>2, <2>3, <2>4, QuietKept
<1>9. CASE Exit
  <2>1. Served \in SUBSET Served /\ Served \in SUBSET Links /\ Cut(Served)
    BY <1>9 DEF Exit, Served
  <2> QED BY <2>1, CutTyped, CutKept
<1>10. CASE UNCHANGED extVars
  <2>1. UNCHANGED <<capture, client, wires, session, archived, illegal>>
    BY <1>10 DEF extVars, daemon
  <2>2. Typed'
    BY <2>1 DEF Typed, capture, client, wires
  <2>3. Linked' /\ Going' = Going
    BY <2>1 DEF client, wires, Kept, Linked, Standing, Going
  <2>4. \/ ~Alive'
        \/ /\ Alive /\ UNCHANGED <<up[link], down[link]>> /\ session'[link] = session[link]
    BY <2>1 DEF client, wires, Alive, Standing
  <2> QED BY <2>1, <2>2, <2>3, <2>4, QuietKept
<1> QED BY <1>1, <1>2, <1>3, <1>4, <1>5, <1>6, <1>7, <1>8, <1>9, <1>10 DEF ExtNext, Client

(* The invariant always holds.                                             *)
LEMMA AlwaysKept == ExtSpec => []ExtInd
BY InitKept, StepKept, PTL DEF ExtSpec

(* No entry is made of half a representation, nor of two jobs' drafts.     *)
THEOREM EntriesAreOneDraft == ExtSpec => []OneDraft
<1>1. ExtInd => OneDraft
  BY DEF ExtInd, Kept
<1> QED BY <1>1, AlwaysKept, PTL

(* The daemon never sees a frame out of its place.                         *)
THEOREM GrammarIsKept == ExtSpec => []Legal
<1>1. ExtInd => Legal
  BY DEF ExtInd, Kept, Legal
<1> QED BY <1>1, AlwaysKept, PTL

(* A connection has one draft open at most.                                *)
LEMMA OpenIsOne == ExtInd => OneOpen
<1> SUFFICES ASSUME Typed, Kept, NEW l \in Links PROVE Cardinality(DOMAIN session[l].drafts) <= 1
  BY DEF ExtInd, OneOpen
<1>1. ASSUME NEW d, DOMAIN session[l].drafts \subseteq {d}
      PROVE  Cardinality(DOMAIN session[l].drafts) <= 1
  <2>1. Cardinality({}) = 0 /\ Cardinality({d}) = 1
    BY FS_EmptySet, FS_Singleton
  <2>2. DOMAIN session[l].drafts = {} \/ DOMAIN session[l].drafts = {d}
    BY <1>1
  <2> QED BY <2>1, <2>2
<1>2. CASE session[l].state # "served"
  <2>1. DOMAIN session[l].drafts \subseteq {0}
    BY <1>2 DEF Kept, Linked
  <2> QED BY <1>1, <2>1
<1>3. CASE session[l].state = "served"
  <2>1. l = link /\ Alive
    BY <1>3 DEF Kept, Linked, Standing, Alive, Links
  <2>2. CASE \A j \in Jobs : ~Active(j)
    <3>1. DOMAIN session[l].drafts \subseteq {0}
      BY <2>1, <2>2 DEF Kept, Idle, Drafts
    <3> QED BY <1>1, <3>1
  <2>3. ASSUME NEW j \in Jobs, Active(j) PROVE \E d : Drafts \subseteq {d}
    <3>1. Opened(j)
      BY <2>1, <2>3 DEF Kept, Mine
    <3>2. CASE jobs[j].stage = "begin" /\ jobs[j].got # "ok"
      <4>1. Drafts = {} \/ \E x \in Answers(j) : Drafts = {x.draft}
        BY <3>1, <3>2 DEF Opened
      <4> QED BY <4>1
    <3>3. CASE jobs[j].stage # "begin" \/ jobs[j].got = "ok"
      BY <3>1, <3>3 DEF Opened
    <3> QED BY <3>2, <3>3
  <2> QED BY <1>1, <2>1, <2>2, <2>3 DEF Drafts
<1> QED BY <1>2, <1>3

(* No job that is done has left its draft behind.                          *)
THEOREM DraftsAreOne == ExtSpec => []OneOpen
BY OpenIsOne, AlwaysKept, PTL

-----------------------------------------------------------------------------
(* Types. *)

(* How many requests a job has made.                                       *)
Made(job) ==
  IF job.stage \in {"idle", "queued"} THEN 0
  ELSE IF job.stage = "begin" THEN 1
  ELSE IF job.stage \in {"next", "part"} THEN 1 + job.done
  ELSE 2 + job.done

(* The jobs before one made no more than they may.                         *)
Counted ==
  /\ nextReq <= 1 + queries + MaxCopies * (Wanted + 2)
  /\ \A j \in Jobs : jobs[j].stage # "done" =>
       nextReq <= 1 + queries + (j - 1) * (Wanted + 2) + Made(jobs[j])

Asked == \A req \in pending : req < nextReq
Bodied == \A e \in archived : \A p \in e : p.content \in Contents
Bounded == Counted /\ Asked /\ (greeted => link # 0) /\ Bodied

(* A job makes no more requests than two and its representations.          *)
LEMMA MadeOf ==
  ASSUME NEW job \in JobStates
  PROVE  Made(job) \in Nat /\ Made(job) <= Wanted + 2
BY ExtensionAssumption DEF Made, JobStates

(* A job's allowance comes before those of the jobs behind it.             *)
LEMMA Allowances ==
  ASSUME NEW i \in Jobs, NEW j \in Jobs, i < j
  PROVE  /\ (i - 1) * (Wanted + 2) + (Wanted + 2) <= (j - 1) * (Wanted + 2)
         /\ (i - 1) * (Wanted + 2) \in Nat /\ (j - 1) * (Wanted + 2) \in Nat
<1>1. ASSUME NEW n \in Nat, NEW m \in Nat, NEW w \in Nat, n < m
      PROVE  n * w + w <= m * w /\ n * w \in Nat /\ m * w \in Nat
  <2>1. (n + 1) * w <= m * w /\ (n + 1) * w = n * w + w /\ n * w \in Nat /\ m * w \in Nat
    BY <1>1, Z3
  <2> QED BY <2>1
<1>2. i - 1 \in Nat /\ j - 1 \in Nat /\ i - 1 < j - 1 /\ Wanted + 2 \in Nat
  BY ExtensionAssumption DEF Jobs
<1> QED BY <1>1, <1>2

(* Every job's allowance is within that of all.                            *)
LEMMA LastAllowance ==
  ASSUME NEW i \in Jobs
  PROVE  /\ (i - 1) * (Wanted + 2) + (Wanted + 2) <= MaxCopies * (Wanted + 2)
         /\ (i - 1) * (Wanted + 2) \in Nat /\ MaxCopies * (Wanted + 2) \in Nat
<1>1. ASSUME NEW n \in Nat, NEW m \in Nat, NEW w \in Nat, n < m
      PROVE  n * w + w <= m * w /\ n * w \in Nat /\ m * w \in Nat
  <2>1. (n + 1) * w <= m * w /\ (n + 1) * w = n * w + w /\ n * w \in Nat /\ m * w \in Nat
    BY <1>1, Z3
  <2> QED BY <2>1
<1>2. i - 1 \in Nat /\ MaxCopies \in Nat /\ i - 1 < MaxCopies /\ Wanted + 2 \in Nat
  BY ExtensionAssumption DEF Jobs
<1> QED BY <1>1, <1>2

(* No request is made, and no job has made fewer.                          *)
LEMMA NoneMade ==
  ASSUME Typed, Typed', Counted, UNCHANGED <<queries, nextReq>>,
         \A j \in Jobs : jobs'[j].stage # "done" =>
           jobs[j].stage # "done" /\ Made(jobs[j]) <= Made(jobs'[j])
  PROVE  Counted'
<1>1. ASSUME NEW j \in Jobs, jobs'[j].stage # "done"
      PROVE  nextReq <= 1 + queries + (j - 1) * (Wanted + 2) + Made(jobs'[j])
  <2>1. /\ nextReq <= 1 + queries + (j - 1) * (Wanted + 2) + Made(jobs[j])
        /\ Made(jobs[j]) <= Made(jobs'[j])
    BY <1>1 DEF Counted
  <2>2. /\ Made(jobs[j]) \in Nat /\ Made(jobs'[j]) \in Nat
        /\ nextReq \in Nat /\ queries \in Nat /\ (j - 1) * (Wanted + 2) \in Nat
    BY MadeOf, LastAllowance DEF Typed
  <2> QED BY <2>1, <2>2
<1> QED BY <1>1 DEF Counted

(* The job whose turn it is makes a request.                               *)
LEMMA OneMade ==
  ASSUME Typed, Typed', Counted, NEW j \in Jobs, UNCHANGED queries, nextReq' = nextReq + 1,
         \A i \in Jobs : i # j => jobs'[i] = jobs[i],
         \A i \in Jobs : i < j => jobs[i].stage = "done",
         jobs[j].stage # "done", Made(jobs'[j]) = Made(jobs[j]) + 1
  PROVE  Counted'
<1>1. /\ Made(jobs[j]) \in Nat /\ Made(jobs'[j]) \in Nat /\ Made(jobs'[j]) <= Wanted + 2
      /\ nextReq \in Nat /\ queries \in Nat /\ (j - 1) * (Wanted + 2) \in Nat
      /\ Wanted \in Nat
  BY MadeOf, LastAllowance, ExtensionAssumption DEF Typed
<1>2. nextReq' <= 1 + queries + (j - 1) * (Wanted + 2) + Made(jobs'[j])
  <2>1. nextReq <= 1 + queries + (j - 1) * (Wanted + 2) + Made(jobs[j])
    BY DEF Counted
  <2> QED BY <2>1, <1>1
<1>3. nextReq' <= 1 + queries + MaxCopies * (Wanted + 2)
  <2>1. /\ (j - 1) * (Wanted + 2) + (Wanted + 2) <= MaxCopies * (Wanted + 2)
        /\ MaxCopies * (Wanted + 2) \in Nat
    BY LastAllowance
  <2> QED BY <1>1, <1>2, <2>1
<1>4. ASSUME NEW i \in Jobs, jobs'[i].stage # "done"
      PROVE  nextReq' <= 1 + queries + (i - 1) * (Wanted + 2) + Made(jobs'[i])
  <2>1. CASE i = j
    BY <2>1, <1>2
  <2>2. CASE i # j
    <3>1. j < i
      BY <1>4, <2>2 DEF Jobs
    <3>2. /\ (j - 1) * (Wanted + 2) + (Wanted + 2) <= (i - 1) * (Wanted + 2)
          /\ (i - 1) * (Wanted + 2) \in Nat
      BY <3>1, Allowances
    <3>3. Made(jobs'[i]) \in Nat
      BY MadeOf DEF Typed
    <3> QED BY <1>1, <1>2, <3>2, <3>3
  <2> QED BY <2>1, <2>2
<1> QED BY <1>3, <1>4 DEF Counted

(* The picker makes a request of its own.                                  *)
LEMMA QueryMade ==
  ASSUME Typed, Counted, queries' = queries + 1, nextReq' = nextReq + 1, UNCHANGED jobs
  PROVE  Counted'
<1>1. nextReq \in Nat /\ queries \in Nat
  BY DEF Typed
<1>2. MaxCopies * (Wanted + 2) \in Nat
  BY ExtensionAssumption
<1>3. ASSUME NEW j \in Jobs, jobs[j].stage # "done"
      PROVE  nextReq + 1 <= 1 + (queries + 1) + (j - 1) * (Wanted + 2) + Made(jobs[j])
  <2>1. nextReq <= 1 + queries + (j - 1) * (Wanted + 2) + Made(jobs[j])
    BY <1>3 DEF Counted
  <2>2. Made(jobs[j]) \in Nat /\ (j - 1) * (Wanted + 2) \in Nat
    BY MadeOf, LastAllowance DEF Typed
  <2> QED BY <1>1, <2>1, <2>2
<1>4. nextReq + 1 <= 1 + (queries + 1) + MaxCopies * (Wanted + 2)
  <2>1. nextReq <= 1 + queries + MaxCopies * (Wanted + 2)
    BY DEF Counted
  <2> QED BY <1>1, <1>2, <2>1
<1> QED BY <1>3, <1>4 DEF Counted

(* What is told to a job is no request.                                    *)
LEMMA SettledMadeNone ==
  ASSUME Typed, NEW reqs, NEW got, NEW d, jobs' = Settled(reqs, got, d)
  PROVE  \A j \in Jobs : /\ jobs'[j].stage = jobs[j].stage
                         /\ Made(jobs'[j]) = Made(jobs[j])
<1> SUFFICES ASSUME NEW j \in Jobs
             PROVE  jobs'[j].stage = jobs[j].stage /\ Made(jobs'[j]) = Made(jobs[j])
  OBVIOUS
<1>1. jobs[j] \in JobStates
  BY DEF Typed
<1>2. jobs'[j].stage = jobs[j].stage /\ jobs'[j].done = jobs[j].done
  BY <1>1 DEF Settled, JobStates
<1> QED BY <1>2 DEF Made

(* A job's request is on its own account.                                  *)
LEMMA JobCounted ==
  ASSUME Typed, Typed', Turns, Counted, NEW j \in Jobs, Job(j)
  PROVE  Counted'
<1>1. jobs[j] \in JobStates /\ jobs \in [Jobs -> JobStates] /\ Wanted \in Nat /\ NoJob \in JobStates
  BY ExtensionAssumption DEF Typed, NoJob, JobStates, Stages
<1>2. ASSUME jobs' = Done(j), UNCHANGED <<queries, nextReq>> PROVE Counted'
  <2>1. \A i \in Jobs : jobs'[i].stage # "done" => i # j /\ jobs'[i] = jobs[i]
    BY <1>1, <1>2 DEF Done, NoJob
  <2>2. \A i \in Jobs : Made(jobs[i]) \in Nat
    BY MadeOf DEF Typed
  <2> QED BY <1>2, <2>1, <2>2, NoneMade
<1>3. ASSUME UNCHANGED <<queries, nextReq>>, \A i \in Jobs : i # j => jobs'[i] = jobs[i],
             jobs[j].stage # "done", Made(jobs[j]) <= Made(jobs'[j])
      PROVE  Counted'
  <2>1. \A i \in Jobs : Made(jobs[i]) \in Nat
    BY MadeOf DEF Typed
  <2> QED BY <1>3, <2>1, NoneMade
<1>4. ASSUME NEW op \in Waits, NEW d, NEW c, Issue(op, d, c), UNCHANGED queries,
             \A i \in Jobs : i # j => jobs'[i] = jobs[i],
             Turn(j) \/ Active(j), Made(jobs'[j]) = Made(jobs[j]) + 1
      PROVE  Counted'
  <2>1. nextReq' = nextReq + 1
    BY <1>4 DEF Issue
  <2>2. \A i \in Jobs : i < j => jobs[i].stage = "done"
    BY <1>4 DEF Turn, Turns, Jobs
  <2>3. jobs[j].stage # "done"
    BY <1>4 DEF Turn, Active, Waiting, Waits
  <2> QED BY <1>4, <2>1, <2>2, <2>3, OneMade
<1>5. CASE Start(j)
  <2>1. CASE link = 0
    BY <1>2, <1>5, <2>1 DEF Start, client
  <2>2. CASE link # 0
    <3>1. /\ Issue("begin", 0, Nothing) /\ Turn(j) /\ UNCHANGED queries
          /\ jobs' = Awaiting(j, "begin") /\ jobs[j].stage = "queued"
      BY <1>5, <2>2 DEF Start, Turn
    <3>2. /\ \A i \in Jobs : i # j => jobs'[i] = jobs[i]
          /\ jobs'[j].stage = "begin"
      BY <1>1, <3>1 DEF Awaiting, JobStates
    <3>3. Made(jobs'[j]) = Made(jobs[j]) + 1
      BY <3>1, <3>2 DEF Made
    <3> QED BY <1>4, <3>1, <3>2, <3>3 DEF Waits
  <2> QED BY <2>1, <2>2
<1>6. CASE Begun(j)
  <2>1. CASE jobs[j].got = "ok"
    <3>1. /\ \A i \in Jobs : i # j => jobs'[i] = jobs[i]
          /\ jobs[j].stage = "begin" /\ jobs'[j].stage = "next" /\ jobs'[j].done = jobs[j].done
          /\ UNCHANGED <<queries, nextReq>> /\ jobs[j].done \in Nat
      BY <1>1, <1>6, <2>1 DEF Begun, client, JobStates
    <3>2. Made(jobs[j]) <= Made(jobs'[j])
      BY <3>1 DEF Made
    <3> QED BY <1>3, <3>1, <3>2
  <2>2. CASE jobs[j].got # "ok"
    BY <1>2, <1>6, <2>2 DEF Begun, client
  <2> QED BY <2>1, <2>2
<1>7. CASE RecordOne(j)
  <2>1. jobs[j].stage = "next" /\ UNCHANGED queries /\ jobs[j].done \in Nat
    BY <1>1, <1>7 DEF RecordOne, JobStates
  <2>2. CASE UNCHANGED client
    <3>1. jobs' = [jobs EXCEPT ![j].done = jobs[j].done + 1] /\ UNCHANGED nextReq
      BY <1>7, <2>2 DEF RecordOne, Issue, client, Typed
    <3>2. /\ \A i \in Jobs : i # j => jobs'[i] = jobs[i]
          /\ jobs'[j].stage = "next" /\ jobs'[j].done = jobs[j].done + 1
      BY <1>1, <2>1, <3>1 DEF JobStates
    <3>3. Made(jobs[j]) <= Made(jobs'[j])
      BY <2>1, <3>2 DEF Made
    <3> QED BY <1>3, <2>1, <3>1, <3>2, <3>3
  <2>3. CASE ~UNCHANGED client
    <3> DEFINE c == [job |-> j, copy |-> copy, mime |-> jobs[j].done + 1]
    <3>1. /\ Issue("part", jobs[j].draft, c)
          /\ jobs' = [Awaiting(j, "part") EXCEPT ![j].done = jobs[j].done + 1]
      BY <1>7, <2>3 DEF RecordOne
    <3>2. /\ \A i \in Jobs : i # j => jobs'[i] = jobs[i]
          /\ jobs'[j].stage = "part" /\ jobs'[j].done = jobs[j].done + 1
      BY <1>1, <2>1, <3>1 DEF Awaiting, JobStates
    <3>3. Made(jobs'[j]) = Made(jobs[j]) + 1 /\ Active(j)
      BY <2>1, <3>2 DEF Made, Active
    <3>4. "part" \in Waits
      BY DEF Waits
    <3> QED BY <1>4, <2>1, <3>1, <3>2, <3>3, <3>4
  <2> QED BY <2>2, <2>3
<1>8. CASE Recorded(j)
  <2>1. jobs[j].stage = "part" /\ UNCHANGED queries /\ jobs[j].done \in Nat
    BY <1>1, <1>8 DEF Recorded, JobStates
  <2>2. CASE jobs[j].got = "ok"
    <3>1. /\ \A i \in Jobs : i # j => jobs'[i] = jobs[i]
          /\ jobs'[j].stage = "next" /\ jobs'[j].done = jobs[j].done /\ UNCHANGED nextReq
      BY <1>1, <1>8, <2>2 DEF Recorded, client, JobStates
    <3>2. Made(jobs[j]) <= Made(jobs'[j])
      BY <2>1, <3>1 DEF Made
    <3> QED BY <1>3, <2>1, <3>1, <3>2
  <2>3. CASE jobs[j].got # "ok"
    <3>1. Issue("abort", jobs[j].draft, Nothing) /\ jobs' = Awaiting(j, "abort")
      BY <1>8, <2>3 DEF Recorded
    <3>2. /\ \A i \in Jobs : i # j => jobs'[i] = jobs[i]
          /\ jobs'[j].stage = "abort" /\ jobs'[j].done = jobs[j].done
      BY <1>1, <3>1 DEF Awaiting, JobStates
    <3>3. Made(jobs'[j]) = Made(jobs[j]) + 1 /\ Active(j) /\ "abort" \in Waits
      BY <2>1, <3>2 DEF Made, Active, Waiting, Waits
    <3> QED BY <1>4, <2>1, <3>1, <3>2, <3>3
  <2> QED BY <2>2, <2>3
<1>9. CASE Finish(j)
  <2>1. PICK op \in {"commit", "abort"} :
          /\ jobs[j].stage = "next" /\ UNCHANGED queries
          /\ Issue(op, jobs[j].draft, Nothing) /\ jobs' = Awaiting(j, op)
    BY <1>9 DEF Finish
  <2>2. /\ \A i \in Jobs : i # j => jobs'[i] = jobs[i]
        /\ jobs'[j].stage = op /\ jobs'[j].done = jobs[j].done /\ jobs[j].done \in Nat
    BY <1>1, <2>1 DEF Awaiting, JobStates
  <2>3. Made(jobs'[j]) = Made(jobs[j]) + 1 /\ Active(j) /\ op \in Waits
    BY <2>1, <2>2 DEF Made, Active, Waits
  <2> QED BY <1>4, <2>1, <2>2, <2>3
<1>10. CASE Finished(j)
  BY <1>2, <1>10 DEF Finished, client
<1> QED BY <1>5, <1>6, <1>7, <1>8, <1>9, <1>10 DEF Job

(* What the client does and what becomes of a link asks for nothing.       *)
LEMMA ClientMadeNone ==
  ASSUME Client
  PROVE  /\ UNCHANGED <<queries, nextReq, copy, archived>> /\ pending' \subseteq pending
         /\ jobs' = jobs \/ \E reqs, got, d : jobs' = Settled(reqs, got, d)
<1>1. CASE WriteRequest \/ WritePart \/ MakeLink \/ Greeted
  BY <1>1 DEF WriteRequest, WritePart, MakeLink, Greeted, capture, client, daemon
<1>2. CASE RequestFails \/ PartFails \/ StreamFails \/ Retry
  <2>1. UNCHANGED <<queries, nextReq, copy, archived>> /\ pending' \subseteq pending
    BY <1>2 DEF RequestFails, PartFails, StreamFails, Retry, daemon
  <2>2. \E reqs : jobs' = Failed(reqs)
    BY <1>2 DEF RequestFails, PartFails, StreamFails, Retry
  <2> QED BY <2>1, <2>2 DEF Failed
<1>3. CASE Dispatch
  <2>1. UNCHANGED <<queries, nextReq, copy, archived>> /\ pending' \subseteq pending
    BY <1>3 DEF Dispatch, daemon
  <2>2. jobs' = jobs \/ \E reqs, got, d : jobs' = Settled(reqs, got, d)
    BY <1>3 DEF Dispatch
  <2> QED BY <2>1, <2>2
<1> QED BY <1>1, <1>2, <1>3 DEF Client

(* What a request is counted as. *)
LEMMA IssueAsked ==
  ASSUME Typed, Asked, NEW op, NEW d, NEW c, Issue(op, d, c)
  PROVE  Asked' /\ UNCHANGED greeted
BY DEF Issue, Asked, Typed

(* What a job asks has the next number.                                    *)
LEMMA JobAsked ==
  ASSUME Typed, Asked, NEW j \in Jobs, Job(j)
  PROVE  Asked' /\ UNCHANGED <<greeted, link, archived>>
<1>1. \/ UNCHANGED client
      \/ \E op, d, c : Issue(op, d, c)
  BY DEF Job, Start, Begun, RecordOne, Recorded, Finish, Finished
<1>2. UNCHANGED archived
  BY DEF Job, Start, Begun, RecordOne, Recorded, Finish, Finished, daemon
<1>3. CASE UNCHANGED client
  BY <1>2, <1>3 DEF client, Asked
<1>4. CASE \E op, d, c : Issue(op, d, c)
  <2>1. UNCHANGED link
    BY <1>4 DEF Issue
  <2> QED BY <1>2, <1>4, <2>1, IssueAsked
<1> QED BY <1>1, <1>3, <1>4

(* What is committed is what the job at work has put there.                *)
LEMMA TakeBodied ==
  ASSUME Typed, Kept, Bodied, NEW l \in Links, Take(l)
  PROVE  Bodied'
<1>1. UNCHANGED archived \/ TakeCommit(l)
  BY DEF Take, TakeHello, TakeBegin, TakeHead, TakeChunk, TakeEnd, TakeAbort, TakeQuery, TakeStray
<1>2. CASE UNCHANGED archived
  BY <1>2 DEF Bodied
<1>3. CASE TakeCommit(l)
  <2> DEFINE d == Frame(l).draft
  <2>1. l = link /\ Alive /\ session[l] \in Ends_
    <3>1. session[l].state = "served" /\ l # 0
      BY DEF Take, Links
    <3>2. l = link
      BY <3>1 DEF Kept, Linked, Standing
    <3> QED BY <3>1, <3>2 DEF Alive, Standing, Typed
  <2>2. \/ UNCHANGED archived
        \/ d \in Drafts /\ archived' = archived \cup ({session[l].drafts[d]} \ {{}})
    BY <1>3, <2>1 DEF TakeCommit, Drafts, Stores
  <2>3. ASSUME d \in Drafts, NEW p \in session[l].drafts[d] PROVE p.content \in Contents
    <3>1. PICK j \in Jobs : Active(j)
      BY <2>1, <2>3 DEF Kept, Idle
    <3>2. p.content.job = j
      BY <2>1, <2>3, <3>1 DEF Kept, Mine, Opened
    <3>3. p \in Parts
      <4>1. session[l].drafts \in Openings /\ d \in DOMAIN session[l].drafts
        BY <2>1, <2>3 DEF Ends_, Drafts
      <4>2. PICK D \in SUBSET Nat : session[l].drafts \in [D -> SUBSET Parts]
        BY <4>1 DEF Openings
      <4>3. session[l].drafts[d] \in SUBSET Parts
        BY <4>1, <4>2
      <4> QED BY <2>3, <4>3
    <3>4. j # 0 /\ Nothing.job = 0
      BY DEF Jobs, Nothing
    <3> QED BY <3>2, <3>3, <3>4 DEF Parts, Bodies
  <2> QED BY <2>2, <2>3 DEF Bodied
<1> QED BY <1>1, <1>2, <1>3

(* Nothing is asked at first.                                              *)
LEMMA InitBounded == ExtInit => Bounded
<1> SUFFICES ASSUME ExtInit PROVE Bounded
  OBVIOUS
<1>1. Counted
  <2>1. nextReq = 1 /\ queries = 0 /\ MaxCopies * (Wanted + 2) \in Nat
    BY ExtensionAssumption DEF ExtInit
  <2>2. ASSUME NEW j \in Jobs PROVE (j - 1) * (Wanted + 2) \in Nat /\ Made(jobs[j]) = 0
    BY LastAllowance DEF ExtInit, NoJob, Made
  <2> QED BY <2>1, <2>2 DEF Counted
<1> QED BY <1>1 DEF ExtInit, Bounded, Asked, Bodied

(* Every step keeps the account.                                           *)
LEMMA StepBounded == ExtInd /\ ExtInd' /\ Bounded /\ [ExtNext]_extVars => Bounded'
<1> SUFFICES ASSUME Typed, Kept, Typed', Kept', Bounded, [ExtNext]_extVars PROVE Bounded'
  BY DEF ExtInd
<1> USE DEF Bounded
<1>1. \A j \in Jobs : Made(jobs[j]) \in Nat
  BY MadeOf DEF Typed
<1>2. ASSUME UNCHANGED <<capture, client>>, Bodied' PROVE Bounded'
  BY <1>2 DEF capture, client, Counted, Asked
<1>3. CASE OwnerChanged
  <2>1. UNCHANGED <<queries, nextReq, pending, greeted, link, archived>>
    BY <1>3 DEF OwnerChanged, client, daemon
  <2>2. ASSUME NEW j \in Jobs, jobs'[j].stage # "done"
        PROVE  jobs[j].stage # "done" /\ Made(jobs[j]) <= Made(jobs'[j])
    <3>1. copy + 1 \in Jobs /\ jobs' = [jobs EXCEPT ![copy + 1].stage = "queued"] /\ copy \in Nat
      BY <1>3, ExtensionAssumption DEF OwnerChanged, Typed, Jobs
    <3>2. CASE j # copy + 1
      BY <1>1, <2>2, <3>1, <3>2 DEF Typed
    <3>3. CASE j = copy + 1
      <4>1. jobs[j].stage = "idle"
        BY <3>1, <3>3 DEF Kept, Turns
      <4>2. jobs'[j].stage = "queued"
        BY <3>1, <3>3 DEF Typed, JobStates
      <4> QED BY <4>1, <4>2 DEF Made
    <3> QED BY <3>2, <3>3
  <2>3. Counted'
    BY <2>1, <2>2, NoneMade
  <2> QED BY <2>1, <2>3 DEF Asked, Bodied
<1>4. CASE Query
  <2>1. /\ queries' = queries + 1 /\ nextReq' = nextReq + 1
        /\ UNCHANGED <<jobs, link, archived>> /\ Issue("query", 0, Nothing)
    BY <1>4 DEF Query, Issue, daemon
  <2> QED BY <2>1, QueryMade, IssueAsked DEF Bodied
<1>5. CASE Client
  <2>1. /\ UNCHANGED <<queries, nextReq, archived>> /\ pending' \subseteq pending
        /\ jobs' = jobs \/ \E reqs, got, d : jobs' = Settled(reqs, got, d)
    BY <1>5, ClientMadeNone
  <2>2. \A j \in Jobs : jobs'[j].stage = jobs[j].stage /\ Made(jobs'[j]) = Made(jobs[j])
    BY <2>1, SettledMadeNone
  <2>3. Counted'
    BY <1>1, <2>1, <2>2, NoneMade
  <2>4. greeted' => link' # 0
    BY <1>5 DEF Client, WriteRequest, RequestFails, WritePart, PartFails, StreamFails, Dispatch,
                MakeLink, Greeted, Retry, Typed
  <2> QED BY <2>1, <2>3, <2>4 DEF Asked, Bodied
<1>6. ASSUME NEW j \in Jobs, Job(j) PROVE Bounded'
  <2>1. Counted' /\ Asked' /\ UNCHANGED <<greeted, link, archived>>
    BY <1>6, JobCounted, JobAsked DEF Kept
  <2> QED BY <2>1 DEF Bodied
<1>7. ASSUME NEW l \in Links, ServeLink(l) PROVE Bounded'
  <2>1. UNCHANGED <<capture, client>>
    BY <1>7 DEF ServeLink, Accept, Take
  <2>2. Bodied'
    BY <1>7, TakeBodied DEF ServeLink, Accept, Bodied
  <2> QED BY <1>2, <2>1, <2>2
<1>8. CASE FindIdle \/ Exit \/ (\E l \in Links : Break(l)) \/ UNCHANGED extVars
  <2>1. UNCHANGED <<capture, client, archived>>
    BY <1>8 DEF FindIdle, Exit, Break, Cut, extVars, daemon
  <2> QED BY <1>2, <2>1 DEF Bodied
<1> QED BY <1>3, <1>4, <1>5, <1>6, <1>7, <1>8 DEF ExtNext

(* A type's bounds follow from the two.                                    *)
LEMMA BoundsType == ExtInd /\ Bounded => ExtTypeOK
<1> SUFFICES ASSUME Typed, Kept, Bounded PROVE ExtTypeOK
  BY DEF ExtInd
<1> DEFINE most == MaxQueries + MaxCopies * (Wanted + 2)
<1>1. most \in Nat /\ MaxCopies * (Wanted + 2) \in Nat
  BY ExtensionAssumption
<1>2. Reqs = 1 .. most /\ Cardinality(Reqs) = most
  <2>1. Cardinality(1 .. most) = most
    BY <1>1, FS_Interval
  <2> QED BY <2>1 DEF Reqs
<1>3. nextReq \in 1 .. most + 1
  <2>1. nextReq <= 1 + queries + MaxCopies * (Wanted + 2)
    BY DEF Bounded, Counted
  <2>2. nextReq \in Nat \ {0} /\ queries \in Nat /\ queries <= MaxQueries /\ MaxQueries \in Nat
    BY ExtensionAssumption DEF Typed
  <2> QED BY <1>1, <2>1, <2>2
<1>4. pending \subseteq Reqs
  <2>1. \A req \in pending : req \in Nat \ {0} /\ req < nextReq
    BY DEF Typed, Bounded, Asked
  <2> QED BY <1>1, <1>2, <1>3, <2>1
<1>5. link \in 0 .. links
  BY DEF Typed, Kept, Linked
<1>6. \A i \in DOMAIN chain : chain[i].link \in 0 .. links
  <2>1. ASSUME NEW i \in DOMAIN chain PROVE chain[i].link \in 0 .. links
    <3>1. chain[i] \in Chained /\ chain[i] \in Operations
      BY DEF Typed, Chained, Seqs!ToSet
    <3>2. chain[i].link <= links
      BY <3>1 DEF Kept, Fresh
    <3> QED BY <3>1, <3>2 DEF Operations, Typed
  <2> QED BY <2>1
<1>7. \A j \in Jobs : /\ jobs[j].stage \in Stages
                      /\ jobs[j].done \in 0 .. Wanted
                      /\ jobs[j].got \in {"none", "ok", "failed"}
  BY DEF Typed, JobStates
<1>8. \A l \in Links : session[l].state \in {"none", "backlog", "served", "ended"}
  BY DEF Typed, Ends_
<1> QED BY <1>2, <1>3, <1>4, <1>5, <1>6, <1>7, <1>8 DEF ExtTypeOK, Bounded, Bodied, Typed

(* Every variable keeps its type; no more is asked than the copies and the *)
(* picker's requests account for.                                          *)
THEOREM ExtensionTyped == ExtSpec => []ExtTypeOK
<1>1. ExtInit => ExtInd /\ Bounded
  BY InitKept, InitBounded
<1>2. ExtInd /\ Bounded /\ [ExtNext]_extVars => (ExtInd /\ Bounded)'
  BY StepKept, StepBounded
<1> QED BY <1>1, <1>2, BoundsType, PTL DEF ExtSpec

=============================================================================
