------------------------------ MODULE Archive ------------------------------
(***************************************************************************)
(* What the archive promises its clients, with no files, counters, leases, *)
(* locks or threads: a shelf of entries, each with the content it was      *)
(* recorded with.  docs/protocol.md speaks of this shelf; Store implements *)
(* it.                                                                     *)
(***************************************************************************)
EXTENDS Integers

CONSTANTS
  Names,       \* entry ids
  Contents,    \* what an entry can hold
  Stamps,      \* Unix seconds
  Absent       \* no entry of this id

VARIABLE shelf \* for each id, an entry [content, pinned, at] or Absent

Entry == [content : Contents, pinned : BOOLEAN, at : Stamps]
Held(s) == {e \in Names : s[e] # Absent}
Loose(s) == {e \in Held(s) : ~s[e].pinned}

Init == shelf = [e \in Names |-> Absent]

Without(s, gone) == [e \in Names |-> IF e \in gone THEN Absent ELSE s[e]]

(* Making room takes the oldest unpinned entries, however many.            *)
MadeRoom(s) ==
  {Without(s, gone) : gone \in
     {g \in SUBSET Loose(s) : \A v \in g, k \in Loose(s) \ g :
        s[v].at < s[k].at \/ (s[v].at = s[k].at /\ v < k)}}

(* One copy becomes one entry: content already held moves to a new time    *)
(* under its old id, other content gets an id that is free.                *)
Record(content, stamp) ==
  \E e \in Names :
    /\ IF shelf[e] = Absent
       THEN \A o \in Held(shelf) : shelf[o].content # content
       ELSE shelf[e].content = content
    /\ shelf' \in MadeRoom(
         [shelf EXCEPT ![e] =
            [content |-> content, at |-> stamp,
             pinned |-> shelf[e] # Absent /\ shelf[e].pinned]])

Pin(e, pinned) ==
  /\ e \in Held(shelf)
  /\ shelf' = [shelf EXCEPT ![e].pinned = pinned]

Remove(e) == shelf' = Without(shelf, {e})

(* Clear takes every unpinned entry, expiry some of the old ones.          *)
Drop(gone) == gone \subseteq Loose(shelf) /\ shelf' = Without(shelf, gone)

Next ==
  \/ \E content \in Contents, stamp \in Stamps : Record(content, stamp)
  \/ \E e \in Names : Remove(e) \/ \E pinned \in BOOLEAN : Pin(e, pinned)
  \/ \E gone \in SUBSET Names : Drop(gone)

Spec == Init /\ [][Next]_shelf
=============================================================================
