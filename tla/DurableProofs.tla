--------------------------- MODULE DurableProofs ---------------------------
(***************************************************************************)
(* Acknowledged pins outlive every power cut, with their files where a     *)
(* directory can be synchronized, and nothing leaks that is not a stray,   *)
(* for any number of rows, contents and commits that may roll back.        *)
(***************************************************************************)
EXTENDS Durable, IndexProofs, SequenceTheorems

-----------------------------------------------------------------------------
(* Commits. *)

(* A commit leaves a log whose last state is the new one, and whose others *)
(* were in it before.                                                      *)
LEMMA Committed ==
  ASSUME TypeOK, NEW ix \in Indexes({1}), Commits(ix)
  PROVE  /\ log' \in Seq(Indexes({1})) /\ Len(log') \in 1 .. MaxWal
         /\ index' = ix
         /\ \A i \in DOMAIN log' : log'[i] = ix \/ \E j \in DOMAIN log : log'[i] = log[j]
<1>1. CASE CommitsFull(ix)
  BY <1>1, DurableAssumption DEF CommitsFull, index
<1>2. CASE Len(log) < MaxWal /\ log' = Append(log, ix)
  <2>1. /\ log \in Seq(Indexes({1})) /\ Len(log) \in Nat /\ MaxWal \in Nat
        /\ Len(log) + 1 =< MaxWal
    BY <1>2, DurableAssumption DEF TypeOK
  <2>2. /\ log' \in Seq(Indexes({1}))
        /\ Len(log') = Len(log) + 1
        /\ \A i \in 1 .. Len(log) : log'[i] = log[i]
        /\ log'[Len(log) + 1] = ix
    BY <1>2, <2>1, AppendProperties
  <2>3. DOMAIN log = 1 .. Len(log) /\ DOMAIN log' = 1 .. (Len(log) + 1)
    BY <2>1, <2>2
  <2>4. QED
    BY <2>1, <2>2, <2>3 DEF index
<1>3. QED
  BY <1>1, <1>2 DEF Commits

(* The current state is one of the log. *)
LEMMA Current ==
  ASSUME TypeOK
  PROVE  /\ Len(log) \in DOMAIN log
         /\ index \in Indexes({1})
         /\ \A i \in DOMAIN log : log[i] \in Indexes({1})
<1>1. log \in Seq(Indexes({1})) /\ Len(log) \in 1 .. MaxWal
  BY DEF TypeOK
<1>2. DOMAIN log = 1 .. Len(log) /\ Len(log) \in Nat
  BY <1>1
<1>3. QED
  BY <1>1, <1>2 DEF index

-----------------------------------------------------------------------------
(* What each action does to the parts of the invariant. *)

SoundLog == \A i \in DOMAIN log : Sound(log[i])
Idle == phase # "up" => draft = Nothing /\ pin = Nobody

(* The invariant by its parts. *)
LEMMA Parted ==
  IndInv <=> TypeOK /\ SoundLog /\ PromisesSafe /\ PinSafe /\ Idle /\ NothingLeaks
BY DEF IndInv, SoundLog, Idle

(* A commit keeps the archive typed and sound.                             *)
LEMMA CommitKeepsLog ==
  ASSUME IndInv, NEW ix \in Indexes({1}), Sound(ix), Commits(ix)
  PROVE  log' \in Seq(Indexes({1})) /\ Len(log') \in 1 .. MaxWal /\ SoundLog'
BY Committed DEF IndInv, SoundLog

(* A promise is kept by a commit that keeps it in the new state.           *)
LEMMA CommitKeepsPromises ==
  ASSUME IndInv, NEW ix \in Indexes({1}), Commits(ix),
         \A e \in Ids : promise'[e] # Nothing =>
           promise'[e] = promise[e] /\ e \in ix.pinned /\ ix.holds[e] = promise[e],
         UNCHANGED <<posix, loose>>
  PROVE  PromisesSafe'
<1>1. /\ \A e \in Ids : promise'[e] # Nothing =>
           /\ promise'[e] = promise[e]
           /\ \A j \in DOMAIN log : e \in log[j].pinned /\ log[j].holds[e] = promise[e]
           /\ posix => \A d \in DigestsOf(promise[e]) : loose[d] = {"there"}
  BY DEF IndInv, PromisesSafe
<1>2. \A i \in DOMAIN log' : log'[i] = ix \/ \E j \in DOMAIN log : log'[i] = log[j]
  BY Committed DEF IndInv
<1>3. QED
  BY <1>1, <1>2 DEF PromisesSafe

(* Promises hold of the current state. *)
LEMMA Promised ==
  ASSUME IndInv, NEW e \in Ids, promise[e] # Nothing
  PROVE  /\ e \in index.pinned /\ index.holds[e] = promise[e]
         /\ posix => \A d \in DigestsOf(promise[e]) : loose[d] = {"there"} /\ d \in files
<1>1. e \in index.pinned /\ index.holds[e] = promise[e]
  BY Current DEF IndInv, PromisesSafe, index
<1>2. ASSUME posix
      PROVE  \A d \in DigestsOf(promise[e]) : loose[d] = {"there"} /\ d \in files
  <2>1. \A d \in DigestsOf(promise[e]) : d \in Digests /\ loose[d] = {"there"}
    BY <1>2 DEF IndInv, PromisesSafe, DigestsOf
  <2>2. Possible(files)
    BY DEF IndInv, TypeOK
  <2>3. QED
    BY <2>1, <2>2 DEF Possible
<1>3. QED
  BY <1>1, <1>2

(* What a pin in progress has flushed is there to stay.                    *)
LEMMA Flushed ==
  ASSUME IndInv, pin # Nobody
  PROVE  /\ pin.entry \in index.live
         /\ posix => \A d \in DigestsOf(index.holds[pin.entry]) \ pin.left :
              d \in Digests /\ loose[d] = {"there"} /\ d \in files
<1>1. /\ pin.entry \in index.live
      /\ posix => \A d \in DigestsOf(index.holds[pin.entry]) \ pin.left : loose[d] = {"there"}
  BY DEF IndInv, PinSafe
<1>2. \A d \in DigestsOf(index.holds[pin.entry]) : d \in Digests
  BY DEF DigestsOf
<1>3. \A d \in Digests : loose[d] = {"there"} => d \in files
  BY DEF IndInv, TypeOK, Possible
<1>4. QED
  BY <1>1, <1>2, <1>3

(* A digest that no row of the current state names is not promised.        *)
LEMMA UnreferencedIsFree ==
  ASSUME IndInv, NEW d \in Digests, ~References(index, d)
  PROVE  /\ \A e \in Ids : d \notin DigestsOf(index.holds[e])
         /\ \A e \in Ids : promise[e] # Nothing => d \notin DigestsOf(promise[e])
<1>1. index \in Indexes({1}) /\ Sound(index)
  BY Current DEF IndInv, index
<1>2. \A e \in Ids : d \notin DigestsOf(index.holds[e])
  BY <1>1, UnreferencedIsUnnamed
<1>3. QED
  BY <1>2, Promised

(* What is promised holds something only of ids there are. *)
LEMMA Facts ==
  ASSUME IndInv
  PROVE  /\ index \in Indexes({1}) /\ Sound(index)
         /\ log \in Seq(Indexes({1})) /\ Len(log) \in 1 .. MaxWal
         /\ files \subseteq Digests /\ loose \in [Digests -> SUBSET {"there", "gone"}]
         /\ Possible(files)
         /\ posix \in BOOLEAN /\ recorded \in BOOLEAN
         /\ draft \in Holding /\ orphaned \subseteq Digests /\ stray \subseteq Digests
         /\ pin \in Pinning \cup {Nobody}
         /\ phase \in {"down", "starting", "up"}
         /\ promise \in [Ids -> Holding]
BY Current DEF IndInv, TypeOK, index

(* Names that appear or go stay accounted for.                             *)
LEMMA NamesAppear ==
  ASSUME loose \in [Digests -> SUBSET {"there", "gone"}], Possible(files),
         files \subseteq Digests, NEW D \in SUBSET Digests, Renamed(D, "there"), files' = files \cup D
  PROVE  /\ loose' \in [Digests -> SUBSET {"there", "gone"}]
         /\ \A d \in Digests \ D : loose'[d] = loose[d]
         /\ Possible(files)'
BY DEF Renamed, Possible

(* Files that are unlinked may come back, and the others stay as they      *)
(* were.                                                                   *)
LEMMA NamesGo ==
  ASSUME loose \in [Digests -> SUBSET {"there", "gone"}], Possible(files),
         files \subseteq Digests, NEW D \in SUBSET Digests, Renamed(D, "gone"), files' = files \ D
  PROVE  /\ loose' \in [Digests -> SUBSET {"there", "gone"}]
         /\ \A d \in Digests \ D : loose'[d] = loose[d]
         /\ Possible(files)'
BY DEF Renamed, Possible

-----------------------------------------------------------------------------
(* Recording. *)

(* A part or a thumbnail is published. *)
LEMMA FinishKeeps ==
  ASSUME IndInv, NEW s \in Slot, NEW p \in Parts, Finish(s, p)
  PROVE  IndInv'
<1> USE Facts
<1>1. /\ draft' \in Holding
      /\ p.digest \in Digests
      /\ DigestsOf(draft) \cup {p.digest} \subseteq DigestsOf(draft')
  <2>1. draft' \in Holding /\ p.digest \in Digests /\ p # NoPart
    BY IndexAssumption DEF Finish, Holding
  <2>2. draft'[s] = p /\ \A r \in Slot : r # s => draft'[r] = draft[r]
    BY DEF Finish, Holding
  <2>3. draft[s] = NoPart
    BY DEF Finish
  <2>4. QED
    BY <2>1, <2>2, <2>3 DEF DigestsOf, In
<1>2. /\ loose' \in [Digests -> SUBSET {"there", "gone"}]
      /\ \A d \in Digests : d \in files => loose'[d] = loose[d]
      /\ Possible(files)'
      /\ files' \subseteq Digests
  <2>1. files' = files \cup {p.digest} /\ files' \subseteq Digests
    BY <1>1 DEF Finish
  <2>2. /\ Renamed({p.digest} \ files, "there")
        /\ files' = files \cup ({p.digest} \ files)
        /\ {p.digest} \ files \in SUBSET Digests
    BY <1>1, <2>1 DEF Finish
  <2>3. QED
    BY <2>1, <2>2, NamesAppear
<1>3. TypeOK'
  BY <1>1, <1>2 DEF Finish, TypeOK
<1>4. SoundLog'
  BY DEF IndInv, SoundLog, Finish
<1>5. PromisesSafe'
  <2>1. ASSUME posix, NEW e \in Ids, promise[e] # Nothing, NEW d \in DigestsOf(promise[e])
        PROVE  loose'[d] = {"there"}
    BY <1>2, <2>1, Promised
  <2>2. QED
    BY <2>1 DEF IndInv, PromisesSafe, Finish
<1>6. PinSafe'
  <2>1. ASSUME pin # Nobody
        PROVE  /\ pin.entry \in index.live
               /\ posix => \A d \in DigestsOf(index.holds[pin.entry]) \ pin.left :
                            loose'[d] = {"there"}
    <3>1. posix => \A d \in DigestsOf(index.holds[pin.entry]) \ pin.left :
            d \in Digests /\ loose[d] = {"there"} /\ d \in files
      BY <2>1, Flushed
    <3>2. QED
      BY <1>2, <2>1, <3>1, Flushed
  <2>2. QED
    BY <2>1 DEF PinSafe, Finish, index
<1>7. Idle'
  BY DEF Idle, Finish
<1>8. NothingLeaks'
  BY <1>1 DEF IndInv, NothingLeaks, Finish, References, Leased, index
<1>9. QED
  BY <1>3, <1>4, <1>5, <1>6, <1>7, <1>8 DEF IndInv, SoundLog, Idle

(* A draft ends, and each digest it held is looked at, or strays, or has a *)
(* row.                                                                    *)
LEMMA EndKeeps ==
  ASSUME IndInv, NEW swept \in SUBSET Digests, NEW unswept \in SUBSET Digests,
         DigestsOf(draft) \subseteq swept \cup unswept, DraftEnds(swept, unswept)
  PROVE  IndInv'
<1> USE Facts
<1>1. TypeOK'
  BY NothingIsHolding DEF DraftEnds, disk, TypeOK, Possible
<1>2. NothingLeaks'
  <2>1. ASSUME phase = "up", NEW d \in files
        PROVE  References(index, d) \/ d \in orphaned' \/ d \in stray'
    BY <2>1 DEF IndInv, NothingLeaks, DraftEnds, Unreferenced, Leased
  <2>2. QED
    BY <2>1 DEF NothingLeaks, DraftEnds, disk, References, index
<1>3. QED
  BY <1>1, <1>2 DEF IndInv, DraftEnds, disk, PromisesSafe, PinSafe, index

LEMMA DiscardKeeps == ASSUME IndInv, Discard \/ CommitFails \/ Hangup PROVE IndInv'
<1>1. /\ DigestsOf(draft) \in SUBSET Digests
      /\ ThumbDigests \in SUBSET Digests /\ PartDigests \in SUBSET Digests
      /\ DigestsOf(draft) \subseteq ThumbDigests \cup PartDigests
  BY DEF DigestsOf, ThumbDigests, PartDigests, Slot
<1>2. CASE Discard
  BY <1>1, <1>2, EndKeeps DEF Discard
<1>3. CASE CommitFails
  BY <1>1, <1>3, EndKeeps DEF CommitFails
<1>4. CASE Hangup
  BY <1>1, <1>4, EndKeeps DEF Hangup
<1>5. QED
  BY <1>2, <1>3, <1>4

(* A row is written.                                                       *)
LEMMA RecordKeeps == ASSUME IndInv, NEW e \in Ids, Record(e) PROVE IndInv'
<1> USE Facts
<1>1. PICK ix \in Indexes({1}) :
        /\ Sound(ix) /\ Commits(ix)
        /\ \A o \in index.pinned : o \in ix.pinned /\ ix.holds[o] = index.holds[o]
        /\ \A d \in Digests : References(index, d) => References(ix, d)
  <2>1. CASE e \in Known(index, draft) /\ Commits(Touch(index, e, 1))
    <3> DEFINE ix == Touch(index, e, 1)
    <3>1. ix \in Indexes({1}) /\ Sound(ix) /\ ix.holds = index.holds
      BY TouchSound
    <3>2. ix.pinned = index.pinned /\ ix.refs = index.refs
      BY DEF Touch, Indexes
    <3>3. QED
      BY <2>1, <3>1, <3>2 DEF References
  <2>2. CASE NextId(index, e) /\ Commits(Insert(index, e, draft, 1))
    <3> DEFINE ix == Insert(index, e, draft, 1)
    <3>1. e \in Ids \ index.live
      BY <2>2 DEF NextId
    <3>2. /\ ix \in Indexes({1}) /\ Sound(ix)
          /\ ix.holds = [index.holds EXCEPT ![e] = draft]
      BY <3>1, InsertSound
    <3>3. ix.pinned = index.pinned
      BY DEF Insert
    <3>4. \A d \in Digests : References(index, d) => References(ix, d)
      <4>1. ASSUME NEW d \in Digests
            PROVE  ix.refs[d] >= index.refs[d] /\ index.refs[d] \in Int
        <5>1. IsFiniteSet({e})
          BY FS_Singleton
        <5>2. Cardinality(Occurrences([index.holds EXCEPT ![e] = draft], {e}, d)) \in Nat
          BY <5>1, OccurrencesFinite
        <5>3. index.refs[d] \in Nat
          BY DEF Indexes
        <5>4. QED
          BY <5>2, <5>3 DEF Insert
      <4>2. \A d \in Digests : ix.refs[d] \in Nat
        BY <3>2 DEF Indexes
      <4>3. QED
        BY <4>1, <4>2 DEF References
    <3>5. \A o \in index.pinned : o \in Ids /\ o # e
      BY <3>1 DEF Sound, Indexes
    <3>6. \A o \in index.pinned : ix.holds[o] = index.holds[o]
      BY <3>2, <3>5 DEF Indexes
    <3>7. QED
      BY <2>2, <3>2, <3>3, <3>4, <3>6
  <2>3. QED
    BY <2>1, <2>2 DEF Record
<1>2. /\ log' \in Seq(Indexes({1})) /\ Len(log') \in 1 .. MaxWal /\ SoundLog'
      /\ index' = ix
  BY <1>1, CommitKeepsLog, Committed DEF IndInv
<1>3. TypeOK'
  BY <1>2 DEF IndInv, TypeOK, Possible, Record, memory
<1>4. PromisesSafe'
  <2>1. \A o \in Ids : promise'[o] # Nothing =>
          promise'[o] = promise[o] /\ o \in ix.pinned /\ ix.holds[o] = promise[o]
    BY <1>1, Promised DEF Record
  <2>2. UNCHANGED <<posix, loose>>
    BY DEF Record
  <2>3. QED
    BY <1>1, <2>1, <2>2, CommitKeepsPromises
<1>5. pin' = Nobody /\ PinSafe' /\ Idle'
  BY DEF Record, Unlocked, memory, PinSafe, Idle, IndInv
<1>6. NothingLeaks'
  BY <1>1, <1>2 DEF IndInv, NothingLeaks, Record, memory, Leased
<1>7. QED
  BY <1>2, <1>3, <1>4, <1>5, <1>6 DEF IndInv, SoundLog, Idle

-----------------------------------------------------------------------------
(* Deleting. *)

(* The rows of S go: what is left, and what has to be swept.               *)
LEMMA DeleteKeeps ==
  ASSUME IndInv, NEW S \in SUBSET Ids, Delete(S),
         \A e \in Ids : promise'[e] # Nothing => promise'[e] = promise[e] /\ e \notin S,
         promise' \in [Ids -> Holding]
  PROVE  IndInv'
<1> USE Facts
<1> DEFINE ix == Release(index, S)
<1>1. /\ ix \in Indexes({1}) /\ Sound(ix) /\ Commits(ix)
      /\ \A o \in index.pinned \ S : o \in ix.pinned /\ ix.holds[o] = index.holds[o]
  <2>1. ix \in Indexes({1}) /\ Sound(ix)
    BY ReleaseSound
  <2>2. \A o \in index.pinned \ S : o \in ix.pinned /\ ix.holds[o] = index.holds[o]
    BY DEF Release, Indexes
  <2>3. QED
    BY <2>1, <2>2 DEF Delete
<1>2. /\ log' \in Seq(Indexes({1})) /\ Len(log') \in 1 .. MaxWal /\ SoundLog'
      /\ index' = ix
  BY <1>1, CommitKeepsLog, Committed DEF IndInv
<1>3. TypeOK'
  <2>1. Orphaned(index, S) \subseteq Digests
    BY DEF Orphaned
  <2>2. QED
    BY <1>2, <2>1 DEF IndInv, TypeOK, Possible, Delete
<1>4. PromisesSafe'
  <2>1. \A o \in Ids : promise'[o] # Nothing =>
          promise'[o] = promise[o] /\ o \in ix.pinned /\ ix.holds[o] = promise[o]
    BY <1>1, Promised
  <2>2. UNCHANGED <<posix, loose>>
    BY DEF Delete
  <2>3. QED
    BY <1>1, <2>1, <2>2, CommitKeepsPromises
<1>5. pin' = Nobody /\ PinSafe' /\ Idle'
  BY DEF Delete, Unlocked, PinSafe, Idle
<1>6. NothingLeaks'
  <2>1. ASSUME NEW d \in Digests, References(index, d), ~References(ix, d)
        PROVE  d \in Orphaned(index, S)
    <3>1. index.refs[d] \in Nat /\ ix.refs[d] \in Nat
      BY <1>1 DEF Indexes
    <3>2. ix.refs[d] = index.refs[d] - Cardinality(Occurrences(index.holds, S, d))
      BY DEF Release
    <3>3. ix.refs[d] = 0 /\ index.refs[d] > 0
      BY <2>1, <3>1 DEF References
    <3>4. Occurrences(index.holds, S, d) # {}
      <4>1. Cardinality({}) = 0
        BY FS_EmptySet
      <4>2. Cardinality(Occurrences(index.holds, S, d)) # 0
        BY <3>1, <3>2, <3>3
      <4>3. QED
        BY <4>1, <4>2
    <3>5. QED
      BY <2>1, <3>3, <3>4 DEF Orphaned
  <2>2. ASSUME phase = "up", NEW d \in files, ~References(ix, d), ~Leased(d)
        PROVE  d \in orphaned' \/ d \in stray
    BY <2>1, <2>2 DEF IndInv, NothingLeaks, Delete
  <2>3. QED
    BY <1>2, <2>2 DEF NothingLeaks, Delete, Leased
<1>7. QED
  BY <1>2, <1>3, <1>4, <1>5, <1>6 DEF IndInv, SoundLog, Idle

(* Eviction, expiry and clear take no promised row: it is pinned.          *)
LEMMA DropKeeps == ASSUME IndInv, NEW S \in SUBSET Ids, Drop(S) PROVE IndInv'
<1>1. \A e \in Ids : promise[e] # Nothing => e \notin S
  BY Promised DEF Drop, Unpinned
<1>2. promise' = promise /\ promise \in [Ids -> Holding] /\ Delete(S)
  BY Facts DEF Drop
<1>3. QED
  BY <1>1, <1>2, DeleteKeeps

(* A removal takes the promise with the row. *)
LEMMA RemoveKeeps == ASSUME IndInv, NEW e \in Ids, Remove(e) PROVE IndInv'
<1>1. /\ promise' \in [Ids -> Holding]
      /\ promise'[e] = Nothing /\ \A o \in Ids \ {e} : promise'[o] = promise[o]
  BY Facts, NothingIsHolding DEF Remove
<1>2. Delete({e})
  BY DEF Remove
<1>3. QED
  BY <1>1, <1>2, DeleteKeeps

(* A file goes that no row of the current state names.  No promise can     *)
(* name it either, whatever state a power cut would bring back.            *)
LEMMA UnlinkKeeps ==
  ASSUME IndInv, NEW d \in Digests, ~References(index, d), pin = Nobody,
         files' = files \ {d}, Renamed({d}, "gone"), UNCHANGED <<posix, log, promise>>
  PROVE  /\ files' \subseteq Digests
         /\ loose' \in [Digests -> SUBSET {"there", "gone"}]
         /\ Possible(files)'
         /\ PromisesSafe'
<1> USE Facts
<1>1. /\ loose' \in [Digests -> SUBSET {"there", "gone"}]
      /\ \A c \in Digests \ {d} : loose'[c] = loose[c]
      /\ Possible(files)'
  BY NamesGo
<1>2. \A e \in Ids : promise[e] # Nothing => d \notin DigestsOf(promise[e])
  BY UnreferencedIsFree
<1>3. \A e \in Ids : DigestsOf(promise[e]) \subseteq Digests
  BY DEF DigestsOf
<1>4. PromisesSafe'
  BY <1>1, <1>2, <1>3 DEF IndInv, PromisesSafe
<1>5. QED
  BY <1>1, <1>4

(* A sweep unlinks no file of a promised row. *)
LEMMA SweepKeeps == ASSUME IndInv, NEW d \in Digests, Sweep(d) PROVE IndInv'
<1> USE Facts
<1>1. pin = Nobody /\ pin' = Nobody /\ phase = "up" /\ phase' = "up"
  BY DEF Sweep, Unlocked
<1>2. CASE d \in Unreferenced /\ ~Leased(d)
  <2>1. /\ files' \subseteq Digests
        /\ loose' \in [Digests -> SUBSET {"there", "gone"}]
        /\ Possible(files)'
        /\ PromisesSafe'
    BY <1>1, <1>2, UnlinkKeeps DEF Sweep, Unreferenced
  <2>2. TypeOK'
    BY <2>1 DEF IndInv, TypeOK, Possible, Sweep
  <2>3. NothingLeaks'
    BY <1>2 DEF IndInv, NothingLeaks, Sweep, References, Leased, index
  <2>4. QED
    BY <1>1, <2>1, <2>2, <2>3 DEF IndInv, Sweep, PinSafe
<1>3. CASE ~(d \in Unreferenced /\ ~Leased(d))
  <2>1. TypeOK'
    BY <1>3 DEF IndInv, TypeOK, Possible, Sweep
  <2>2. NothingLeaks'
    BY <1>3 DEF IndInv, NothingLeaks, Sweep, Unreferenced, References, Leased, index
  <2>3. QED
    BY <1>1, <1>3, <2>1, <2>2 DEF IndInv, Sweep, PinSafe, PromisesSafe
<1>4. QED
  BY <1>2, <1>3

(* A sweep that fails leaves a stray. *)
LEMMA SweepFailsKeeps == ASSUME IndInv, NEW d \in Digests, SweepFails(d) PROVE IndInv'
<1> USE Facts
<1>1. TypeOK'
  BY DEF IndInv, TypeOK, Possible, SweepFails, disk
<1>2. NothingLeaks'
  BY DEF IndInv, NothingLeaks, SweepFails, disk, References, Leased, index
<1>3. QED
  BY <1>1, <1>2 DEF IndInv, SweepFails, disk, PinSafe, PromisesSafe, index

-----------------------------------------------------------------------------
(* Pinning. *)

(* A pin keeps the invariant at each of its steps.                         *)
LEMMA PinKeeps == ASSUME IndInv, NEW e \in Ids, Pin(e) PROVE IndInv'
<1> USE Facts
<1>1. pin' = [entry |-> e, left |-> DigestsOf(index.holds[e])] /\ pin' \in Pinning
  BY DEF Pin, Pinning, DigestsOf
<1>2. TypeOK'
  BY <1>1 DEF IndInv, TypeOK, Possible, Pin, disk
<1>3. PinSafe'
  BY <1>1 DEF PinSafe, Pin, disk, index
<1>4. Idle' /\ NothingLeaks'
  BY DEF Idle, IndInv, NothingLeaks, Pin, disk, Unlocked, References, Leased, index
<1>5. QED
  BY <1>2, <1>3, <1>4 DEF IndInv, Idle, Pin, disk, PromisesSafe

(* A flush makes one more file sure, where it can. *)
LEMMA SyncKeeps == ASSUME IndInv, NEW d \in Digests, SyncPinned(d) PROVE IndInv'
<1> USE Facts
<1>1. /\ pin \in Pinning /\ pin' = [pin EXCEPT !.left = @ \ {d}] /\ pin' \in Pinning
      /\ pin'.entry = pin.entry /\ pin'.left = pin.left \ {d}
  BY DEF SyncPinned, FlushedOf, Pinning
<1>2. /\ loose' = [loose EXCEPT ![d] = IF posix THEN {"there"} ELSE @]
      /\ d \in files
      /\ UNCHANGED <<posix, log, files, draft, recorded, orphaned, stray, phase, promise>>
  BY DEF SyncPinned, FlushedOf
<1> DEFINE Same(c) == loose'[c] = loose[c]
           Sure(c) == c = d /\ loose'[c] = {"there"}
<1>3. /\ loose' \in [Digests -> SUBSET {"there", "gone"}]
      /\ \A c \in Digests : Same(c) \/ Sure(c)
      /\ posix => loose'[d] = {"there"}
  <2>1. CASE posix
    BY <1>2, <2>1
  <2>2. CASE ~posix
    BY <1>2, <2>2
  <2>3. QED
    BY <2>1, <2>2
<1>4. Possible(files)'
  BY <1>2, <1>3 DEF Possible
<1>5. TypeOK'
  BY <1>1, <1>2, <1>3, <1>4 DEF IndInv, TypeOK
<1>6. PromisesSafe'
  <2>1. \A e \in Ids : promise[e] # Nothing => DigestsOf(promise[e]) \subseteq Digests
    BY DEF DigestsOf
  <2>2. QED
    BY <1>2, <1>3, <2>1 DEF IndInv, PromisesSafe
<1>7. PinSafe'
  <2>1. DigestsOf(index.holds[pin.entry]) \subseteq Digests
    BY DEF DigestsOf
  <2>2. pin # Nobody
    BY DEF SyncPinned, FlushedOf
  <2>3. QED
    BY <1>1, <1>2, <1>3, <2>1, <2>2 DEF IndInv, PinSafe, index
<1>8. Idle' /\ NothingLeaks'
  BY DEF Idle, IndInv, NothingLeaks, SyncPinned, FlushedOf, References, Leased, index
<1>9. QED
  BY <1>2, <1>5, <1>6, <1>7, <1>8 DEF IndInv, Idle

(* A pin that fails has promised nothing. *)
LEMMA PinFailsKeeps == ASSUME IndInv, PinFails PROVE IndInv'
<1> USE Facts
<1>1. TypeOK'
  BY DEF IndInv, TypeOK, Possible, PinFails, disk
<1>2. QED
  BY <1>1 DEF IndInv, PinFails, disk, PromisesSafe, PinSafe, NothingLeaks, References,
              Leased, index

(* The pin is made: everything it promises is flushed, and the log is.     *)
LEMMA CommitPinKeeps == ASSUME IndInv, CommitPin PROVE IndInv'
<1> USE Facts
<1> DEFINE e == pin.entry
           ix == Pinned(e)
<1>1. /\ pin # Nobody /\ pin.left = {} /\ pin \in Pinning /\ e \in Ids
      /\ log' = <<ix>> /\ pin' = Nobody /\ phase = "up" /\ phase' = "up"
      /\ UNCHANGED <<posix, files, loose, draft, recorded, orphaned, stray>>
      /\ promise' = [promise EXCEPT ![e] = index.holds[e]]
  BY DEF CommitPin, CommitsFull, Pinning
<1>2. /\ e \in index.live
      /\ posix => \A d \in DigestsOf(index.holds[e]) : loose[d] = {"there"}
  BY <1>1, Flushed
<1>3. /\ ix.pinned = index.pinned \cup {e} /\ ix.holds = index.holds
      /\ ix.live = index.live /\ ix.refs = index.refs
      /\ ix \in Indexes({1})
  BY <1>2 DEF Pinned, Indexes
<1>4. Sound(ix)
  BY <1>2, <1>3 DEF Sound
<1>5. /\ log' \in Seq(Indexes({1})) /\ Len(log') = 1 /\ 1 \in 1 .. MaxWal
      /\ DOMAIN log' = {1} /\ log'[1] = ix /\ index' = ix
  BY <1>1, <1>3, DurableAssumption DEF index
<1>6. promise' \in [Ids -> Holding]
  BY <1>1 DEF Indexes
<1>7. TypeOK'
  BY <1>1, <1>5, <1>6 DEF IndInv, TypeOK, Possible
<1>8. PromisesSafe'
  <2>1. ASSUME NEW o \in Ids, promise'[o] # Nothing
        PROVE  /\ o \in ix.pinned /\ ix.holds[o] = promise'[o]
               /\ posix => \A d \in DigestsOf(promise'[o]) : loose[d] = {"there"}
    <3>1. CASE o = e
      BY <1>1, <1>2, <1>3, <3>1
    <3>2. CASE o # e
      <4>1. promise'[o] = promise[o]
        BY <1>1, <3>2
      <4>2. QED
        BY <1>3, <2>1, <4>1, Promised
    <3>3. QED
      BY <3>1, <3>2
  <2>2. QED
    BY <1>1, <1>5, <2>1 DEF PromisesSafe
<1>9. NothingLeaks'
  BY <1>1, <1>3, <1>5 DEF IndInv, NothingLeaks, References, Leased
<1>10. QED
  BY <1>1, <1>4, <1>5, <1>7, <1>8, <1>9 DEF IndInv, PinSafe

(* An unpinned row is promised no longer. *)
LEMMA UnpinKeeps == ASSUME IndInv, NEW e \in Ids, Unpin(e) PROVE IndInv'
<1> USE Facts
<1> DEFINE ix == [index EXCEPT !.pinned = @ \ {e}]
<1>1. /\ ix.pinned = index.pinned \ {e} /\ ix.holds = index.holds
      /\ ix.live = index.live /\ ix.refs = index.refs
      /\ ix \in Indexes({1}) /\ Commits(ix)
  BY DEF Unpin, Indexes
<1>2. Sound(ix)
  BY <1>1 DEF Sound
<1>3. /\ log' \in Seq(Indexes({1})) /\ Len(log') \in 1 .. MaxWal /\ SoundLog'
      /\ index' = ix
  BY <1>1, <1>2, CommitKeepsLog, Committed DEF IndInv
<1>4. /\ promise' = [promise EXCEPT ![e] = Nothing] /\ promise' \in [Ids -> Holding]
      /\ UNCHANGED <<posix, files, loose, draft, recorded, orphaned, stray, pin, phase>>
      /\ pin = Nobody
  BY NothingIsHolding DEF Unpin, Unlocked, memory
<1>5. TypeOK'
  BY <1>3, <1>4 DEF IndInv, TypeOK, Possible
<1>6. PromisesSafe'
  <2>1. \A o \in Ids : promise'[o] # Nothing =>
          promise'[o] = promise[o] /\ o \in ix.pinned /\ ix.holds[o] = promise[o]
    BY <1>1, <1>4, Promised
  <2>2. QED
    BY <1>1, <1>4, <2>1, CommitKeepsPromises
<1>7. NothingLeaks'
  BY <1>1, <1>3, <1>4 DEF IndInv, NothingLeaks, References, Leased
<1>8. QED
  BY <1>3, <1>4, <1>5, <1>6, <1>7 DEF IndInv, SoundLog, PinSafe

-----------------------------------------------------------------------------
(* The process and the host. *)

(* A crash keeps the invariant: the log and the files stay as they are.    *)
LEMMA CrashKeeps == ASSUME IndInv, Crash PROVE IndInv'
<1> USE Facts
<1>1. TypeOK'
  BY NothingIsHolding DEF IndInv, TypeOK, Possible, Crash, Forgets, disk
<1>2. QED
  BY <1>1 DEF IndInv, Crash, Forgets, disk, PromisesSafe, PinSafe, NothingLeaks

(* Whichever prefix and whichever files are left, the promises are among   *)
(* them.                                                                   *)
LEMMA PowerCutKeeps == ASSUME IndInv, PowerCut PROVE IndInv'
<1> USE Facts
<1>1. PICK i \in DOMAIN log : log' = <<log[i]>>
  BY DEF PowerCut
<1>2. log[i] \in Indexes({1}) /\ Sound(log[i])
  BY Current DEF IndInv
<1>3. /\ log' \in Seq(Indexes({1})) /\ Len(log') = 1 /\ 1 \in 1 .. MaxWal
      /\ DOMAIN log' = {1} /\ log'[1] = log[i]
  BY <1>1, <1>2, DurableAssumption
<1>4. /\ files' \in SUBSET Digests /\ Possible(files')
      /\ loose' = [d \in Digests |-> IF d \in files' THEN {"there"} ELSE {"gone"}]
      /\ promise' = promise /\ posix' = posix
  BY DEF PowerCut
<1>5. Possible(files)'
  BY <1>4 DEF Possible
<1>6. /\ draft' = Nothing /\ recorded' = FALSE /\ orphaned' = {} /\ stray' = {}
      /\ pin' = Nobody /\ phase' = "down"
  BY DEF PowerCut, Forgets
<1>7. TypeOK'
  BY <1>3, <1>4, <1>5, <1>6, NothingIsHolding DEF TypeOK
<1>8. PromisesSafe'
  <2>1. ASSUME NEW e \in Ids, promise[e] # Nothing
        PROVE  /\ e \in log[i].pinned /\ log[i].holds[e] = promise[e]
               /\ posix => \A d \in DigestsOf(promise[e]) : loose'[d] = {"there"}
    <3>1. /\ e \in log[i].pinned /\ log[i].holds[e] = promise[e]
          /\ posix => \A d \in DigestsOf(promise[e]) : loose[d] = {"there"}
      BY <2>1 DEF IndInv, PromisesSafe
    <3>2. \A d \in DigestsOf(promise[e]) : d \in Digests
      BY DEF DigestsOf
    <3>3. \A d \in Digests : loose[d] = {"there"} => d \in files'
      BY <1>4 DEF Possible
    <3>4. QED
      BY <1>4, <3>1, <3>2, <3>3
  <2>2. QED
    BY <1>3, <1>4, <2>1 DEF PromisesSafe
<1>9. QED
  BY <1>2, <1>3, <1>6, <1>7, <1>8 DEF IndInv, PinSafe, NothingLeaks

(* The daemon starts, and serves with nothing left over or with strays. *)
LEMMA StartKeeps == ASSUME IndInv, Restart \/ Serve \/ ServeUnreconciled PROVE IndInv'
<1> USE Facts
<1>1. UNCHANGED <<posix, disk, draft, recorded, orphaned, pin, promise>>
  BY DEF Restart, Serve, ServeUnreconciled, memory
<1>2. phase' \in {"starting", "up"} /\ stray' \subseteq Digests
  BY DEF Restart, Serve, ServeUnreconciled, memory, Unreferenced
<1>3. TypeOK'
  BY <1>1, <1>2 DEF IndInv, TypeOK, Possible, disk
<1>4. NothingLeaks'
  BY DEF NothingLeaks, Restart, Serve, ServeUnreconciled, Unreferenced, memory, disk,
         References, index
<1>5. draft' = Nothing /\ pin' = Nobody
  BY <1>1 DEF IndInv, Restart, Serve, ServeUnreconciled
<1>6. QED
  BY <1>1, <1>3, <1>4, <1>5 DEF IndInv, disk, PromisesSafe, PinSafe

(* Reconciling unlinks what no row names. *)
LEMMA ReconcileKeeps == ASSUME IndInv, NEW d \in Digests, Reconcile(d) PROVE IndInv'
<1> USE Facts
<1>1. /\ pin = Nobody /\ UNCHANGED <<posix, log, draft, recorded, orphaned, stray, pin, phase, promise>>
      /\ files' = files \ {d} /\ Renamed({d}, "gone") /\ ~References(index, d)
      /\ phase # "up"
  BY DEF IndInv, Reconcile, memory
<1>2. /\ files' \subseteq Digests
      /\ loose' \in [Digests -> SUBSET {"there", "gone"}]
      /\ Possible(files)'
      /\ PromisesSafe'
  BY <1>1, UnlinkKeeps
<1>3. TypeOK'
  BY <1>1, <1>2 DEF IndInv, TypeOK
<1>4. QED
  BY <1>1, <1>2, <1>3 DEF IndInv, PinSafe, NothingLeaks

-----------------------------------------------------------------------------

(* The invariant holds at first. *)
LEMMA Initially == Init => IndInv
<1> SUFFICES ASSUME Init PROVE IndInv
  OBVIOUS
<1>1. /\ EmptyIndex \in Indexes({1}) /\ Sound(EmptyIndex)
  BY EmptySound
<1>2. /\ log \in Seq(Indexes({1})) /\ Len(log) = 1 /\ 1 \in 1 .. MaxWal
      /\ DOMAIN log = {1} /\ log[1] = EmptyIndex
  BY <1>1, DurableAssumption DEF Init
<1>3. TypeOK
  BY <1>2, NothingIsHolding DEF Init, TypeOK, Possible
<1>4. QED
  BY <1>1, <1>2, <1>3 DEF Init, IndInv, PromisesSafe, PinSafe, NothingLeaks

(* Every step keeps it. *)
LEMMA Kept == IndInv /\ [Next]_vars => IndInv'
<1> SUFFICES ASSUME IndInv, [Next]_vars PROVE IndInv'
  OBVIOUS
<1>1. CASE \E s \in Slots, p \in Offered : Publish(s, p)
  BY <1>1, FinishKeeps, DurableAssumption DEF Publish, Slot
<1>2. CASE Derive
  <2>1. PICK p \in Depictions : Finish(Thumb, p)
    BY <1>2 DEF Derive
  <2>2. p \in Parts /\ Thumb \in Slot
    <3>1. PICK s \in Slots : draft[s] # NoPart /\ p = Thumbnail[draft[s]] /\ p # NoPart
      BY DEF Depictions
    <3>2. draft[s] \in Parts
      BY <3>1, Facts DEF Holding, Slot
    <3>3. QED
      BY <3>1, <3>2, DurableAssumption DEF Slot
  <2>3. QED
    BY <2>1, <2>2, FinishKeeps
<1>3. CASE \E e \in Ids : Record(e) \/ Remove(e) \/ Pin(e) \/ Unpin(e)
  BY <1>3, RecordKeeps, RemoveKeeps, PinKeeps, UnpinKeeps
<1>4. CASE \E S \in SUBSET Ids : Drop(S)
  BY <1>4, DropKeeps
<1>5. CASE \E d \in Digests : Sweep(d) \/ SweepFails(d) \/ SyncPinned(d) \/ Reconcile(d)
  BY <1>5, SweepKeeps, SweepFailsKeeps, SyncKeeps, ReconcileKeeps
<1>6. CASE Discard \/ CommitFails \/ Hangup \/ PinFails \/ CommitPin
  BY <1>6, DiscardKeeps, PinFailsKeeps, CommitPinKeeps
<1>7. CASE Crash \/ PowerCut \/ Restart \/ Serve \/ ServeUnreconciled
  BY <1>7, CrashKeeps, PowerCutKeeps, StartKeeps
<1>8. CASE UNCHANGED vars
  BY <1>8 DEF IndInv, vars, memory, disk, TypeOK, Possible, PromisesSafe, PinSafe,
              NothingLeaks, References, Leased, index
<1>9. QED
  BY <1>1, <1>2, <1>3, <1>4, <1>5, <1>6, <1>7, <1>8 DEF Next

(* Every state of the archive, before and after any power cut, is one in   *)
(* which nothing that was promised can still be lost.                      *)
THEOREM DurableInductive == Spec => []IndInv
<1>1. Init => IndInv
  BY Initially
<1>2. IndInv /\ [Next]_vars => IndInv'
  BY Kept
<1>3. QED
  BY <1>1, <1>2, PTL DEF Spec

(* Every variable keeps its type; the files there are agree with what a    *)
(* power cut may leave of them.                                            *)
THEOREM DurableTyped == Spec => []TypeOK
<1>1. IndInv => TypeOK
  BY DEF IndInv
<1>2. QED
  BY <1>1, DurableInductive, PTL

(* set_pinned(true), once it has returned, outlives every crash and power  *)
(* cut until the pin is taken back or the entry removed; so do the files,  *)
(* except on Windows, where sync_dir() does nothing.                       *)
THEOREM PinsOutlivePowerCuts == Spec => []PinsLast
<1>1. IndInv => PinsLast
  <2>1. ASSUME IndInv, NEW e \in Ids, promise[e] # Nothing
        PROVE  /\ e \in index.pinned
               /\ index.holds[e] = promise[e]
               /\ posix => DigestsOf(promise[e]) \subseteq files
    BY <2>1, Promised
  <2>2. QED
    BY <2>1 DEF PinsLast
<1>2. QED
  BY <1>1, DurableInductive, PTL

(* The sweeps after commits, deletions and drafts, and reconcile() after a *)
(* crash or a power cut, leave no file behind but the strays: those of a   *)
(* sweep, a reconcile() or a commit that failed, or of a client that hung  *)
(* up before it was answered.                                              *)
THEOREM NothingIsLeaked == Spec => []NothingLeaks
<1>1. IndInv => NothingLeaks
  BY DEF IndInv
<1>2. QED
  BY <1>1, DurableInductive, PTL
=============================================================================
