------------------------------- MODULE Index -------------------------------
(***************************************************************************)
(* The archive's metadata as a value, and what each SQLite transaction of  *)
(* daemon/src/store/index.rs does to it.                                   *)
(*                                                                         *)
(* An index is a record:                                                   *)
(*   live    the ids of the rows of table entry                            *)
(*   holds   for each id, the parts of the row (table part) and the        *)
(*           thumbnail (column thumb), by slot                             *)
(*   pinned  the ids whose column pinned is 1                              *)
(*   at      for each id, the column at; 0 for an id that has no row       *)
(*   refs    for each digest, blob.refs; 0 when table blob has no such row *)
(*                                                                         *)
(* A transaction of the code loops over rows and parts; here it is one     *)
(* expression, because nothing can observe it half done.                   *)
(***************************************************************************)
EXTENDS Integers, FiniteSets, FiniteSetsExt

CONSTANTS
  MaxId,       \* bound on the ids SQLite may hand out
  Slots,       \* where a draft or a row keeps its representations
  Thumb,       \* the slot of the derived thumbnail
  Digests,     \* content, named by its SHA-256
  Parts,       \* the representations: records [mime, digest]
  NoPart,      \* an empty slot
  Size         \* the bytes of each digest

Ids == 1 .. MaxId
Slot == Slots \cup {Thumb}
Holding == [Slot -> Parts \cup {NoPart}]
Nothing == [s \in Slot |-> NoPart]

ASSUME IndexAssumption ==
  /\ MaxId \in Nat
  /\ IsFiniteSet(Slots)
  /\ Thumb \notin Slots
  /\ \A p \in Parts : p.digest \in Digests
  /\ NoPart \notin Parts
  /\ IsFiniteSet(Digests) /\ Size \in [Digests -> Nat]

-----------------------------------------------------------------------------
(* Holdings: what a row or a draft holds, and where a digest occurs. *)

In(h, s, d) == h[s] # NoPart /\ h[s].digest = d

DigestsOf(h) == {d \in Digests : \E s \in Slot : In(h, s, d)}

(* The places <<x, slot>>, x \in S, where digest d is held. *)
Occurrences(holds, S, d) ==
  {place \in S \X Slot : In(holds[place[1]], place[2], d)}

(* identity() hashes the sorted (mime, digest) pairs: a bag of parts. The  *)
(* thumbnail is derived and no part of it.                                 *)
Identity(h) == [p \in Parts |-> Cardinality({s \in Slots : h[s] = p})]

(* part has PRIMARY KEY (entry, mime). *)
RepeatsMime(h) ==
  \E s, r \in Slots : /\ s # r
                      /\ h[s] # NoPart /\ h[r] # NoPart
                      /\ h[s].mime = h[r].mime

-----------------------------------------------------------------------------
(* Reading the index. *)

EmptyIndex ==
  [live |-> {}, holds |-> [e \in Ids |-> Nothing], pinned |-> {},
   at |-> [e \in Ids |-> 0], refs |-> [d \in Digests |-> 0]]

Indexes(stamps) ==
  [live : SUBSET Ids, holds : [Ids -> Holding], pinned : SUBSET Ids,
   at : [Ids -> stamps \cup {0}], refs : [Digests -> Nat]]

(* refs counts the parts and thumbnails of the rows, and nothing is left of *)
(* a row that is gone.                                                     *)
Sound(ix) ==
  /\ \A d \in Digests : ix.refs[d] = Cardinality(Occurrences(ix.holds, Ids, d))
  /\ \A e \in Ids \ ix.live : ix.holds[e] = Nothing
  /\ ix.pinned \subseteq ix.live

Known(ix, h) == {e \in ix.live : Identity(ix.holds[e]) = Identity(h)}

(* SQLite gives a new row the largest rowid plus one, so the id of the     *)
(* newest row is used again once that row is gone.                         *)
NextId(ix, e) ==
  /\ e \in Ids \ ix.live
  /\ \A o \in ix.live : o < e
  /\ e = 1 \/ e - 1 \in ix.live

References(ix, d) == ix.refs[d] > 0

Bytes(ix) ==
  MapThenSumSet(LAMBDA d : Size[d], {d \in Digests : References(ix, d)})

Unpinned(ix) == ix.live \ ix.pinned

(* ORDER BY at ASC, id ASC *)
Older(ix, a, b) ==
  ix.at[a] < ix.at[b] \/ (ix.at[a] = ix.at[b] /\ a < b)

-----------------------------------------------------------------------------
(* Writing the index. *)

Touch(ix, e, time) == [ix EXCEPT !.at[e] = time]

(* Deviation: the thumbnail's reference is not counted.                    *)
InsertUncountedThumb(ix, e, h, time) ==
  LET holds == [ix.holds EXCEPT ![e] = h]
  IN [ix EXCEPT
        !.live = @ \cup {e},
        !.holds = holds,
        !.at[e] = time,
        !.refs = [d \in Digests |->
           ix.refs[d] + Cardinality({s \in Slots : In(h, s, d)})]]

(* reference() is called for every part and for the thumbnail.             *)
Insert(ix, e, h, time) ==
  LET holds == [ix.holds EXCEPT ![e] = h]
  IN [ix EXCEPT
        !.live = @ \cup {e},
        !.holds = holds,
        !.at[e] = time,
        !.refs = [d \in Digests |->
           ix.refs[d] + Cardinality(Occurrences(holds, {e}, d))]]

(* release_entry() and the DELETE, for every row of S. *)
Release(ix, S) ==
  [live |-> ix.live \ S,
   holds |-> [e \in Ids |-> IF e \in S THEN Nothing ELSE ix.holds[e]],
   pinned |-> ix.pinned \ S,
   at |-> [e \in Ids |-> IF e \in S THEN 0 ELSE ix.at[e]],
   refs |-> [d \in Digests |->
      ix.refs[d] - Cardinality(Occurrences(ix.holds, S, d))]]

(* The digests that releasing S leaves without a reference. *)
Orphaned(ix, S) ==
  {d \in Digests : /\ Occurrences(ix.holds, S, d) # {}
                   /\ Release(ix, S).refs[d] = 0}

(* Deviation: eviction takes pinned rows too.                              *)
VictimsPinnedToo(ix, budget) ==
  {e \in ix.live :
     Bytes(Release(ix, {o \in ix.live : Older(ix, o, e)})) > budget}

(* Deviation: the row that would make the rest fit is kept.                *)
VictimsOneShort(ix, budget) ==
  {e \in Unpinned(ix) :
     Bytes(Release(ix, {o \in Unpinned(ix) : Older(ix, o, e) \/ o = e})) > budget}

(* evict_to(): the oldest unpinned row goes while the blobs exceed the     *)
(* budget, so a row goes exactly when all the older ones were not enough.  *)
Victims(ix, budget) ==
  {e \in Unpinned(ix) :
     Bytes(Release(ix, {o \in Unpinned(ix) : Older(ix, o, e)})) > budget}

(* expire_before(): the oldest `batch` of the unpinned rows before cutoff. *)
Expired(ix, cutoff, batch) ==
  LET due == {e \in Unpinned(ix) : ix.at[e] < cutoff}
  IN {e \in due : Cardinality({o \in due : Older(ix, o, e)}) < batch}
=============================================================================
