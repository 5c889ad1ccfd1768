------------------------------- MODULE Picker -------------------------------
(***************************************************************************)
(* The GNOME picker's list (extension/lib/picker.js, indicator.js) over    *)
(* the archive's pages (Index::list, the session's answer to list) and its *)
(* broadcasts.                                                             *)
(*                                                                         *)
(* A page is read from the archive at one moment and lands at another.     *)
(* The session writes it past the queue of broadcasts, so either may       *)
(* overtake the other.  The archive is changed here by anybody, one change *)
(* and its broadcast at a time; Watch has the threads and the queues.      *)
(***************************************************************************)
EXTENDS Integers, Sequences, FiniteSets

Seqs == INSTANCE SequencesExt

CONSTANTS
  MaxId,       \* bound on the ids SQLite may hand out
  MaxTime,     \* bound on the times of copies
  MaxEvents,   \* bound on the broadcasts on their way
  Copies,      \* what can be copied
  Absent,      \* no entry of this id
  None,        \* no cursor, no kind filter, no request
  Kind,        \* the kind of each copy
  Kinds,       \* the kinds the filter buttons name
  Hits,        \* the copies the typed query matches
  PageSize,    \* entries a page may hold
  Limited,     \* whether a full frame may cut a page short
  Typing       \* whether the user searches

Ids == 1 .. MaxId
Entry == [copy : Copies, pinned : BOOLEAN, at : 1 .. MaxTime]
View == [pinned : BOOLEAN, kind : Kinds \cup {None}, query : BOOLEAN]
Row == [id : Ids, copy : Copies]
Event ==
  [ev : {"added", "updated"}, id : Ids, copy : Copies, pinned : BOOLEAN]
  \cup [ev : {"removed"}, id : Ids] \cup [ev : {"cleared"}]
Load ==
  [view : View, before : Row \cup {None}, read : BOOLEAN, items : Seq(Row),
   more : BOOLEAN, missed : SUBSET Ids]

ASSUME PickerAssumption ==
  /\ MaxId \in Nat /\ MaxTime \in Nat \ {0}
  /\ MaxEvents \in Nat \ {0} /\ PageSize \in Nat \ {0}
  /\ Hits \subseteq Copies /\ Limited \in BOOLEAN /\ Typing \in BOOLEAN
  /\ None \notin Kinds \cup Row \cup Load /\ Absent \notin Entry

VARIABLES
  shelf,       \* the archive: for each id its entry, or Absent
  events,      \* the broadcasts on their way to the picker
  linked,      \* the client is connected
  open,        \* the menu is open
  view,        \* the tab, the kind and whether a query is typed
  due,         \* the search timer runs
  rows,        \* the list on the screen: ids and what they stand for
  oldest,      \* the cursor: the last row of the last page, or None
  exhausted,   \* the last page was the end
  asked,       \* the request for a page, or None: _loading
  stale,       \* the generation has moved on since it was made
  blank,       \* no page has landed since the last refresh
  ghosts,      \* history: rows that landed after the event that ends them
  lost         \* history: a page was read past a cursor that was gone

wire == <<events, linked>>
screen == <<open, view, due>>
list == <<rows, oldest, exhausted, asked, stale, blank, ghosts, lost>>
vars == <<shelf, wire, screen, list>>

Recent == [pinned |-> FALSE, kind |-> None, query |-> FALSE]
Loading == asked # None
Held == {e \in Ids : shelf[e] # Absent}
Shown(r) == {r[i].id : i \in DOMAIN r}
OneRowEach(r) == \A i, j \in DOMAIN r : r[i].id = r[j].id => i = j

TypeOK ==
  /\ shelf \in [Ids -> Entry \cup {Absent}]
  /\ events \in Seq(Event) /\ Len(events) <= MaxEvents
  /\ linked \in BOOLEAN /\ open \in BOOLEAN /\ due \in BOOLEAN
  /\ view \in View
  /\ rows \in Seq(Row) /\ OneRowEach(rows)
  /\ oldest \in Row \cup {None}
  /\ exhausted \in BOOLEAN /\ stale \in BOOLEAN /\ blank \in BOOLEAN
  /\ ghosts \subseteq Shown(rows) /\ lost \in BOOLEAN
  /\ asked \in Load \cup {None}
  /\ Loading => Len(asked.items) <= PageSize
  /\ stale => Loading
  /\ Loading => linked

Init ==
  /\ shelf = [e \in Ids |-> Absent]
  /\ events = <<>> /\ linked = TRUE
  /\ open = FALSE /\ view = Recent /\ due = FALSE
  /\ rows = <<>> /\ oldest = None /\ exhausted = FALSE
  /\ asked = None /\ stale = FALSE /\ blank = FALSE
  /\ ghosts = {} /\ lost = FALSE

-----------------------------------------------------------------------------
(* Index::list *)

(* ORDER BY pinned DESC, at DESC, id DESC: whether an entry with key a     *)
(* comes after one with key b.                                             *)
Key(e) == <<IF shelf[e].pinned THEN 1 ELSE 0, shelf[e].at, e>>
Behind(a, b) ==
  \/ a[1] < b[1]
  \/ a[1] = b[1] /\ a[2] < b[2]
  \/ a[1] = b[1] /\ a[2] = b[2] /\ a[3] < b[3]

Matches(v) ==
  {e \in Held : /\ shelf[e].pinned = v.pinned
                /\ v.kind = None \/ Kind[shelf[e].copy] = v.kind
                /\ v.query => shelf[e].copy \in Hits}

(* The first n of S, in that order.                                        *)
Firsts(S, n) ==
  {s \in [1 .. n -> S] :
     /\ \A i, j \in 1 .. n : i < j => Behind(Key(s[j]), Key(s[i]))
     /\ \A e \in S, i \in 1 .. n :
          (\A j \in 1 .. n : s[j] # e) => Behind(Key(e), Key(s[i]))}

(* Deviation: the cursor is taken for an id.                               *)
PastById(cursor) == {e \in Held : cursor = None \/ e < cursor.id}

(* Strictly after the cursor's own key; by its id when its row is gone.    *)
Past(cursor) ==
  {e \in Held :
     CASE cursor = None -> TRUE
       [] cursor # None /\ cursor.id \notin Held -> e < cursor.id
       [] OTHER -> Behind(Key(e), Key(cursor.id))}

(* The id the request names no longer means what the cursor was.           *)
Gone(v, cursor) ==
  /\ cursor # None
  /\ \/ cursor.id \notin Held
     \/ shelf[cursor.id].copy # cursor.copy
     \/ shelf[cursor.id].pinned # v.pinned

Page(v, cursor) ==
  LET found == Matches(v) \cap Past(cursor)
  IN Firsts(found, Seqs!Min({Cardinality(found), PageSize}))

RowOf(e) == [id |-> e, copy |-> shelf[e].copy]

-----------------------------------------------------------------------------
(* The archive changes, and says so. *)

Tell(event) ==
  /\ Len(events) < MaxEvents
  /\ events' = IF linked THEN Append(events, event) ELSE events
  /\ UNCHANGED <<linked, screen, list>>

(* The time of a copy: the clock is not set back. *)
Seconds == {second \in 1 .. MaxTime : \A o \in Held : shelf[o].at <= second}

Summary(ev, e) ==
  [ev |-> ev, id |-> e, copy |-> shelf'[e].copy, pinned |-> shelf'[e].pinned]

(* New content, under the largest id plus one.                             *)
Record(copy) ==
  \E e \in Ids \ Held, second \in Seconds :
    /\ \A o \in Held : o < e /\ shelf[o].copy # copy
    /\ e = 1 \/ e - 1 \in Held
    /\ shelf' = [shelf EXCEPT ![e] = [copy |-> copy, pinned |-> FALSE, at |-> second]]
    /\ Tell(Summary("added", e))

(* Content that is held moves to the top under its old id. *)
Touch(e) ==
  /\ e \in Held
  /\ \E second \in Seconds : shelf' = [shelf EXCEPT ![e].at = second]
     /\ Tell(Summary("updated", e))

SetPinned(e, pinned) ==
  /\ e \in Held
  /\ shelf' = [shelf EXCEPT ![e].pinned = pinned]
  /\ Tell(Summary("updated", e))

(* remove(), and each row that eviction or expiry takes.                   *)
Remove(e) ==
  /\ e \in Held
  /\ shelf' = [shelf EXCEPT ![e] = Absent]
  /\ Tell([ev |-> "removed", id |-> e])

Clear ==
  /\ shelf' = [e \in Ids |-> IF e \in Held /\ shelf[e].pinned THEN shelf[e] ELSE Absent]
  /\ Tell([ev |-> "cleared"])

-----------------------------------------------------------------------------
(* Loading. *)

Request(v, cursor) ==
  [view |-> v, before |-> cursor, read |-> FALSE, items |-> <<>>,
   more |-> FALSE, missed |-> {}]

(* refresh() for view v, over a connection or not.  A load that is turned  *)
(* away because one is running is made up for when that one ends.          *)
Refresh(v, connected) ==
  /\ rows' = <<>> /\ oldest' = None /\ exhausted' = FALSE
  /\ ghosts' = {} /\ lost' = FALSE
  /\ blank' = connected
  /\ asked' = IF Loading \/ ~connected THEN asked ELSE Request(v, None)
  /\ stale' = Loading

(* _maybeLoadMore(): the user has scrolled to the end of the rows.         *)
LoadMore ==
  /\ open /\ linked
  /\ ~Loading /\ ~exhausted
  /\ asked' = Request(view, oldest)
  /\ UNCHANGED <<shelf, wire, screen, rows, oldest, exhausted, stale, blank,
                 ghosts, lost>>

(* The session reads the page.  A frame that would grow past its limit     *)
(* takes fewer entries, and says that there are more.                      *)
Serve ==
  /\ Loading /\ ~asked.read
  /\ \E items \in Page(asked.view, asked.before) :
     \E fits \in (IF Limited THEN 1 ELSE Len(items)) .. Len(items) \cup {Len(items)} :
       asked' = [asked EXCEPT !.read = TRUE,
                   !.items = [i \in 1 .. fits |-> RowOf(items[i])],
                   !.more = Len(items) >= PageSize \/ fits < Len(items)]
  /\ lost' = (lost \/ (~stale /\ Gone(asked.view, asked.before)))
  /\ UNCHANGED <<shelf, wire, screen, rows, oldest, exhausted, stale, blank,
                 ghosts>>

(* Deviation: the load that was turned away does not run.                  *)
SettleForgetful == stale' = FALSE /\ asked' = None

(* finally: the load that was turned away runs now.                        *)
Settle ==
  /\ stale' = FALSE
  /\ asked' = IF stale THEN Request(view, oldest) ELSE None

(* Deviation: the generation is not compared.                              *)
CurrentAlways == TRUE

Current == ~stale

(* Deviation: a row that a broadcast has put there is put there again.     *)
AddRowAgain(shown, item) == Append(shown, item)

(* _addRow(): one row per id, whichever arrives second yields.             *)
AddRow(shown, item) ==
  IF item.id \in Shown(shown) THEN shown ELSE Append(shown, item)

Land ==
  LET all == Seqs!FoldLeft(AddRow, rows, asked.items)
  IN /\ rows' = all
     /\ ghosts' = ghosts \cup ((Shown(all) \ Shown(rows)) \cap asked.missed)
     /\ exhausted' = (exhausted \/ ~asked.more)
     /\ oldest' = IF asked.items = <<>> THEN oldest
                  ELSE asked.items[Len(asked.items)]
     /\ blank' = FALSE

Arrive ==
  /\ Loading /\ asked.read
  /\ IF Current THEN Land
     ELSE UNCHANGED <<rows, ghosts, exhausted, oldest, blank>>
  /\ Settle
  /\ UNCHANGED <<shelf, wire, screen, lost>>

(* The archive could not be read; the picker reports it.                   *)
Refused ==
  /\ Loading /\ ~asked.read
  /\ Settle
  /\ blank' = stale
  /\ UNCHANGED <<shelf, wire, screen, rows, oldest, exhausted, ghosts, lost>>

-----------------------------------------------------------------------------
(* onArchiveEvent() *)

Belongs(event) ==
  /\ ~view.query
  /\ view.kind = None \/ Kind[event.copy] = view.kind
  /\ event.pinned = view.pinned
  /\ event.id \notin Shown(rows)

(* An event about e that a page already read does not know of. *)
Misses(e) ==
  asked' = IF Loading /\ asked.read THEN [asked EXCEPT !.missed = @ \cup {e}] ELSE asked

Added(event) ==
  /\ rows' = IF Belongs(event) THEN <<[id |-> event.id, copy |-> event.copy]>> \o rows
             ELSE rows
  /\ UNCHANGED <<oldest, exhausted, asked, stale, blank, ghosts, lost>>

(* Deviation: a row that is shown is left as it is.                        *)
UpdatedInPlace(event) ==
  IF event.id \notin Shown(rows) /\ event.pinned = view.pinned
  THEN Refresh(view, TRUE)
  ELSE Misses(event.id)
       /\ UNCHANGED <<rows, oldest, exhausted, stale, blank, ghosts, lost>>

Updated(event) ==
  IF event.id \in Shown(rows) \/ event.pinned = view.pinned
  THEN Refresh(view, TRUE)
  ELSE Misses(event.id)
       /\ UNCHANGED <<rows, oldest, exhausted, stale, blank, ghosts, lost>>

Removed(event) ==
  /\ IF event.id \in Shown(rows)
     THEN \E i \in DOMAIN rows :
            rows[i].id = event.id /\ rows' = Seqs!RemoveAt(rows, i)
     ELSE rows' = rows
  /\ ghosts' = ghosts \ {event.id}
  /\ Misses(event.id)
  /\ UNCHANGED <<oldest, exhausted, stale, blank, lost>>

Hear ==
  /\ linked /\ events # <<>>
  /\ events' = Tail(events)
  /\ LET event == Head(events)
     IN \/ ~open /\ UNCHANGED list
        \/ open /\ event.ev = "added" /\ Added(event)
        \/ open /\ event.ev = "updated" /\ Updated(event)
        \/ open /\ event.ev = "removed" /\ Removed(event)
        \/ open /\ event.ev = "cleared" /\ Refresh(view, TRUE)
  /\ UNCHANGED <<shelf, linked, screen>>

-----------------------------------------------------------------------------
(* The user and the connection. *)

Open ==
  /\ ~open /\ open' = TRUE
  /\ Refresh(view, linked)
  /\ UNCHANGED <<shelf, wire, view, due>>

(* reset(): back to the recent tab and an empty search, whose change of    *)
(* text starts the timer.                                                  *)
Close ==
  /\ open /\ open' = FALSE
  /\ view' = [view EXCEPT !.pinned = FALSE, !.query = FALSE]
  /\ due' = (due \/ view.query)
  /\ UNCHANGED <<shelf, wire, list>>

(* Another tab, or a kind, be it the one that was chosen.                   *)
Choose(v) ==
  /\ open
  /\ v.query = view.query
  /\ v.pinned = view.pinned \/ v.kind = view.kind
  /\ view' = v
  /\ Refresh(v, linked)
  /\ UNCHANGED <<shelf, wire, open, due>>

(* Typing changes the query at once and the list when the timer ends.      *)
Type ==
  /\ Typing /\ open
  /\ view' = [view EXCEPT !.query = ~@]
  /\ due' = TRUE
  /\ UNCHANGED <<shelf, wire, open, list>>

Search ==
  /\ due /\ due' = FALSE
  /\ Refresh(view, linked)
  /\ UNCHANGED <<shelf, wire, open, view>>

(* The connection ends: what was on its way is gone, and the request fails *)
(* with it; the load that was turned away fails as well.                   *)
Disconnect ==
  /\ linked /\ linked' = FALSE
  /\ events' = <<>>
  /\ asked' = None /\ stale' = FALSE /\ blank' = FALSE
  /\ UNCHANGED <<shelf, screen, rows, oldest, exhausted, ghosts, lost>>

(* setConnected(true) *)
Connect ==
  /\ ~linked /\ linked' = TRUE
  /\ IF open THEN Refresh(view, TRUE) ELSE UNCHANGED list
  /\ UNCHANGED <<shelf, events, screen>>

-----------------------------------------------------------------------------
Change ==
  \/ \E copy \in Copies : Record(copy)
  \/ \E e \in Ids : Touch(e) \/ Remove(e) \/ \E pinned \in BOOLEAN : SetPinned(e, pinned)
  \/ Clear

User == Open \/ Close \/ Type \/ LoadMore \/ \E v \in View : Choose(v)

Next ==
  \/ Change \/ User
  \/ Serve \/ Arrive \/ Refused \/ Hear \/ Search
  \/ Disconnect \/ Connect

Spec == Init /\ [][Next]_vars

-----------------------------------------------------------------------------
(* What is on its way that will take row r off the list or renew it.       *)
Doomed(r) ==
  \E i \in DOMAIN events :
    \/ events[i].ev = "cleared"
    \/ events[i].ev \in {"removed", "updated"} /\ events[i].id = r.id

(* A row stands for what it shows: acting on it acts on the entry the user *)
(* saw, unless the event that ends the row is still on its way.  A row     *)
(* that landed after its event was heard is the exception.                 *)
RowsTrue ==
  open /\ linked =>
    \A i \in DOMAIN rows :
      \/ rows[i].id \in ghosts
      \/ Doomed(rows[i])
      \/ /\ rows[i].id \in Held
         /\ shelf[rows[i].id].copy = rows[i].copy
         /\ shelf[rows[i].id].pinned = view.pinned

(* Nothing is on its way and no timer runs. *)
Quiet == open /\ linked /\ events = <<>> /\ ~Loading /\ ~due /\ ~blank

(* At rest the list is the archive's: of the entries that belong on it, it *)
(* shows the newest, and all of them once it takes itself to be complete.  *)
(* Ghosts, and a page read past a cursor that was gone, are the exception. *)
(* Of their order nothing is said: a row that a broadcast has put on top   *)
(* may stand above a newer one that a page brings.                         *)
ListRight ==
  Quiet /\ ~view.query /\ ghosts = {} /\ ~lost =>
    /\ Shown(rows) \subseteq Matches(view)
    /\ \A e \in Matches(view) \ Shown(rows), o \in Shown(rows) : Behind(Key(e), Key(o))
    /\ exhausted => Shown(rows) = Matches(view)

(* A list that waits for its first page has a request under way whose end  *)
(* brings it, however often it was refreshed meanwhile: no refresh is lost *)
(* to the load it found running.                                           *)
PageUnderWay == blank => Loading
=============================================================================
