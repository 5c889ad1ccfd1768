------------------------------ MODULE Durable ------------------------------
(***************************************************************************)
(* What a power cut leaves of the archive.  A commit of SQLite in WAL mode *)
(* is on the disk for certain only once the log is synchronized, and the   *)
(* name of a file only once its directory is.  A pin synchronizes both     *)
(* before it is answered, where the platform can: on Windows sync_dir()    *)
(* does nothing, and no name is ever certain.                              *)
(*                                                                         *)
(* Store is the same archive with its threads, where a crash takes the     *)
(* process and leaves the host: there nothing committed is lost.  Here one *)
(* client works at a time, and which rows an eviction, an expiry or a      *)
(* clear takes is left open.  Any call to the file system or to SQLite may *)
(* fail, and a client may be gone when its commit is answered.             *)
(***************************************************************************)
EXTENDS Index, Sequences

CONSTANTS
  Offered,     \* the parts that clients send
  Thumbnail,   \* for each part, the thumbnail made of it, or NoPart
  Nobody,      \* no pin is in progress
  MaxWal       \* bound on the commits that are not surely on the disk

ASSUME DurableAssumption ==
  /\ Offered \subseteq Parts
  /\ Thumbnail \in [Parts -> Parts \cup {NoPart}]
  /\ MaxWal \in Nat \ {0}
  /\ Nobody \notin [entry : Ids, left : SUBSET Digests]

VARIABLES
  posix,       \* whether sync_dir() synchronizes a directory (Unix) or does
               \* nothing (Windows): open at first, and never changed
  log,         \* the index after each commit, from the last that is surely
               \* on the disk to the current one
  files,       \* blobs/: the digests that have a file
  loose,       \* for each digest, what a power cut may leave of its file:
               \* "there", "gone", or either
  draft,       \* what the open draft holds, a lease on each part
  recorded,    \* the draft's commit has its row
  orphaned,    \* the digests a sweep is about to look at
  stray,       \* the digests that were let go unswept, since the daemon serves
  pin,         \* the pin in progress: its entry and what is left to flush
  phase,       \* the process: "down", "starting" or "up"
  promise      \* what each pin that was acknowledged is to keep, or Nothing

disk == <<log, files, loose>>
memory == <<draft, recorded, orphaned, stray, pin>>
vars == <<posix, disk, memory, phase, promise>>

index == log[Len(log)]
Unreferenced == {d \in files : ~References(index, d)}
Leased(d) == d \in DigestsOf(draft)
Pinning == [entry : Ids, left : SUBSET Digests]

(* The power may leave just the files of found. *)
Possible(found) ==
  /\ \A d \in found : "there" \in loose[d]
  /\ \A d \in Digests \ found : "gone" \in loose[d]

TypeOK ==
  /\ posix \in BOOLEAN
  /\ log \in Seq(Indexes({1})) /\ Len(log) \in 1 .. MaxWal
  /\ files \subseteq Digests
  /\ loose \in [Digests -> SUBSET {"there", "gone"}]
  /\ Possible(files)
  /\ draft \in Holding
  /\ recorded \in BOOLEAN
  /\ orphaned \subseteq Digests /\ stray \subseteq Digests
  /\ pin \in Pinning \cup {Nobody}
  /\ phase \in {"down", "starting", "up"}
  /\ promise \in [Ids -> Holding]

Init ==
  /\ posix \in BOOLEAN
  /\ log = <<EmptyIndex>>
  /\ files = {} /\ loose = [d \in Digests |-> {"gone"}]
  /\ draft = Nothing /\ recorded = FALSE /\ orphaned = {} /\ stray = {} /\ pin = Nobody
  /\ phase = "up"
  /\ promise = [e \in Ids |-> Nothing]

(* The index mutex: a pin keeps it while it flushes. *)
Unlocked == phase = "up" /\ pin = Nobody

-----------------------------------------------------------------------------
(* SQLite and the file system. *)

(* synchronous=FULL: the log is on the disk when the commit returns, and   *)
(* with it every commit before.                                            *)
CommitsFull(ix) == log' = <<ix>>

(* synchronous=NORMAL: the commit is in the log, and on the disk only if a *)
(* checkpoint came of it.                                                  *)
Commits(ix) ==
  \/ Len(log) < MaxWal /\ log' = Append(log, ix)
  \/ CommitsFull(ix)

(* The names of the digests in D change, to "there" or to "gone".          *)
Renamed(D, to) ==
  loose' = [d \in Digests |-> IF d \in D THEN loose[d] \cup {to} ELSE loose[d]]

-----------------------------------------------------------------------------
(* Recording. *)

(* finish(), for content in slot s of the draft.  The content was         *)
(* synchronized; the name it is renamed to, unless it is there, was not.   *)
Finish(s, p) ==
  /\ phase = "up" /\ ~recorded
  /\ draft[s] = NoPart
  /\ draft' = [draft EXCEPT ![s] = p]
  /\ files' = files \cup {p.digest}
  /\ Renamed({p.digest} \ files, "there")
  /\ UNCHANGED <<posix, log, recorded, orphaned, stray, pin, phase, promise>>

Publish(s, p) == draft[Thumb] = NoPart /\ Finish(s, p)

Depictions == {Thumbnail[draft[s]] : s \in {r \in Slots : draft[r] # NoPart}} \ {NoPart}

(* derive() publishes the thumbnail of content that is new. *)
Derive ==
  /\ draft # Nothing /\ Known(index, draft) = {}
  /\ \E p \in Depictions : Finish(Thumb, p)

(* touch(), or insert() once the thumbnail is there. *)
Record(e) ==
  /\ Unlocked
  /\ draft # Nothing /\ ~recorded
  /\ \/ e \in Known(index, draft) /\ Commits(Touch(index, e, 1))
     \/ /\ Known(index, draft) = {} /\ ~RepeatsMime(draft)
        /\ draft[Thumb] # NoPart \/ Depictions = {}
        /\ NextId(index, e)
        /\ Commits(Insert(index, e, draft, 1))
  /\ recorded' = TRUE
  /\ stray' = stray \ DigestsOf(draft)
  /\ UNCHANGED <<posix, files, loose, draft, orphaned, pin, phase, promise>>

ThumbDigests == {d \in Digests : In(draft, Thumb, d)}
PartDigests == {d \in Digests : \E s \in Slots : In(draft, s, d)}

(* The draft's leases are dropped.  Of what it held the digests in swept   *)
(* are looked at; those in unswept are not, and stray if no row has them.  *)
DraftEnds(swept, unswept) ==
  /\ draft' = Nothing /\ recorded' = FALSE
  /\ orphaned' = orphaned \cup swept
  /\ stray' = stray \cup (unswept \cap Unreferenced)
  /\ UNCHANGED <<posix, disk, pin, phase, promise>>

(* discard(), of a draft that was given up or whose commit was answered:   *)
(* the commit has swept its thumbnail by then.                             *)
Discard ==
  /\ phase = "up"
  /\ draft # Nothing
  /\ recorded \/ draft[Thumb] = NoPart
  /\ DraftEnds(DigestsOf(draft), {})

(* insert() refuses a mime that comes twice, or a call under the second    *)
(* lock fails: `?` drops the thumbnail unswept, discard() the parts.       *)
CommitFails ==
  /\ Unlocked
  /\ draft # Nothing
  /\ DraftEnds(PartDigests, ThumbDigests)

(* The answer to a commit cannot be sent: `?` drops the parts unswept.     *)
Hangup ==
  /\ phase = "up"
  /\ recorded
  /\ DraftEnds(ThumbDigests, PartDigests)

-----------------------------------------------------------------------------
(* Deleting. *)

(* Deviation: the thumbnails of the rows that go are not swept.            *)
DeleteForgetsThumbs(S) ==
  /\ Unlocked
  /\ S # {}
  /\ Commits(Release(index, S))
  /\ orphaned' = orphaned \cup
       {d \in Orphaned(index, S) :
          \E e \in S, s \in Slots : In(index.holds[e], s, d)}
  /\ UNCHANGED <<posix, files, loose, draft, recorded, stray, pin, phase>>

(* A transaction of its own that takes the rows of S. *)
Delete(S) ==
  /\ Unlocked
  /\ S # {}
  /\ Commits(Release(index, S))
  /\ orphaned' = orphaned \cup Orphaned(index, S)
  /\ UNCHANGED <<posix, files, loose, draft, recorded, stray, pin, phase>>

(* evict_to(), clear() and expire_before() *)
Drop(S) == S \subseteq Unpinned(index) /\ Delete(S) /\ UNCHANGED promise

(* remove(): the client takes its pin back. *)
Remove(e) ==
  /\ e \in index.live
  /\ Delete({e})
  /\ promise' = [promise EXCEPT ![e] = Nothing]

(* sweep(): the unlinked name is not synchronized either. *)
Sweep(d) ==
  /\ Unlocked
  /\ d \in orphaned
  /\ orphaned' = orphaned \ {d}
  /\ IF d \in Unreferenced /\ ~Leased(d)
     THEN /\ files' = files \ {d} /\ Renamed({d}, "gone")
          /\ stray' = stray \ {d}
     ELSE UNCHANGED <<files, loose, stray>>
  /\ UNCHANGED <<posix, log, draft, recorded, pin, phase, promise>>

(* references() or remove() fails: reported, and left for the next start.  *)
SweepFails(d) ==
  /\ Unlocked
  /\ d \in orphaned \cap Unreferenced /\ ~Leased(d)
  /\ orphaned' = orphaned \ {d}
  /\ stray' = stray \cup {d}
  /\ UNCHANGED <<posix, disk, draft, recorded, pin, phase, promise>>

-----------------------------------------------------------------------------
(* set_pinned() *)

Pin(e) ==
  /\ Unlocked
  /\ e \in index.live
  /\ pin' = [entry |-> e, left |-> DigestsOf(index.holds[e])]
  /\ UNCHANGED <<posix, disk, draft, recorded, orphaned, stray, phase, promise>>

FlushedOf(d) ==
  /\ phase = "up" /\ pin # Nobody /\ d \in pin.left
  /\ pin' = [pin EXCEPT !.left = @ \ {d}]
  /\ UNCHANGED <<posix, log, files, draft, recorded, orphaned, stray, phase, promise>>

(* Deviation: the directories are not synchronized on Unix either.         *)
SyncPinnedContent(d) == FlushedOf(d) /\ d \in files /\ UNCHANGED loose

(* Deviation: a file that is missing is taken for flushed.                 *)
SyncPinnedMissing(d) ==
  FlushedOf(d) /\ loose' = [loose EXCEPT ![d] = IF posix THEN {"there"} ELSE @]

(* sync_pinned(): the file, and the directories above it where sync_dir()  *)
(* does anything.                                                          *)
SyncPinned(d) ==
  /\ FlushedOf(d)
  /\ d \in files
  /\ loose' = [loose EXCEPT ![d] = IF posix THEN {"there"} ELSE @]

(* A file is missing, or a call fails: nothing is claimed.                 *)
PinFails ==
  /\ phase = "up" /\ pin # Nobody
  /\ pin' = Nobody
  /\ UNCHANGED <<posix, disk, draft, recorded, orphaned, stray, phase, promise>>

Pinned(e) == [index EXCEPT !.pinned = @ \cup {e}]

(* The commit, and the acknowledgement: from here on the pin is promised.  *)
CommitPin ==
  /\ phase = "up" /\ pin # Nobody /\ pin.left = {}
  /\ CommitsFull(Pinned(pin.entry))
  /\ pin' = Nobody
  /\ promise' = [promise EXCEPT ![pin.entry] = index.holds[pin.entry]]
  /\ UNCHANGED <<posix, files, loose, draft, recorded, orphaned, stray, phase>>

Unpin(e) ==
  /\ Unlocked
  /\ e \in index.live
  /\ Commits([index EXCEPT !.pinned = @ \ {e}])
  /\ promise' = [promise EXCEPT ![e] = Nothing]
  /\ UNCHANGED <<posix, files, loose, memory, phase>>

-----------------------------------------------------------------------------
(* The process and the host. *)

Forgets ==
  /\ draft' = Nothing /\ recorded' = FALSE
  /\ orphaned' = {} /\ stray' = {} /\ pin' = Nobody
  /\ phase' = "down"

(* The daemon dies; the host has all it was told. *)
Crash ==
  /\ phase # "down"
  /\ Forgets
  /\ UNCHANGED <<posix, disk, promise>>

(* The host goes down.  Some prefix of the log is there when it is back,   *)
(* and each name as it was at any time since it was last synchronized.     *)
PowerCut ==
  /\ \E i \in DOMAIN log : log' = <<log[i]>>
  /\ \E found \in SUBSET Digests :
       /\ Possible(found)
       /\ files' = found
       /\ loose' = [d \in Digests |-> IF d \in found THEN {"there"} ELSE {"gone"}]
  /\ Forgets
  /\ UNCHANGED <<posix, promise>>

Restart ==
  /\ phase = "down"
  /\ phase' = "starting"
  /\ UNCHANGED <<posix, disk, memory, promise>>

(* reconcile(): one file no row points at. *)
Reconcile(d) ==
  /\ phase = "starting"
  /\ d \in files /\ ~References(index, d)
  /\ files' = files \ {d}
  /\ Renamed({d}, "gone")
  /\ UNCHANGED <<posix, log, memory, phase, promise>>

(* reconcile() is done. *)
Serve ==
  /\ phase = "starting"
  /\ Unreferenced = {}
  /\ phase' = "up"
  /\ UNCHANGED <<posix, disk, memory, promise>>

(* reconcile() failed: run() reports it and serves, with what is left.     *)
ServeUnreconciled ==
  /\ phase = "starting"
  /\ phase' = "up"
  /\ stray' = Unreferenced
  /\ UNCHANGED <<posix, disk, draft, recorded, orphaned, pin, promise>>

-----------------------------------------------------------------------------
Next ==
  \/ \E s \in Slots, p \in Offered : Publish(s, p)
  \/ \E e \in Ids : Record(e) \/ Remove(e) \/ Pin(e) \/ Unpin(e)
  \/ \E S \in SUBSET Ids : Drop(S)
  \/ \E d \in Digests : Sweep(d) \/ SweepFails(d) \/ SyncPinned(d) \/ Reconcile(d)
  \/ Derive \/ Discard \/ CommitFails \/ Hangup \/ PinFails \/ CommitPin
  \/ Crash \/ PowerCut \/ Restart \/ Serve \/ ServeUnreconciled

Spec == Init /\ [][Next]_vars

-----------------------------------------------------------------------------
(* A pin that was acknowledged and not taken back outlives any crash and   *)
(* any power cut: the entry is there, under its id, pinned, holding what   *)
(* it held, and where directories are synchronized every byte of it has    *)
(* its file.  On Windows a power cut may take the file of a pinned entry.  *)
PinsLast ==
  \A e \in Ids : promise[e] # Nothing =>
    /\ e \in index.pinned
    /\ index.holds[e] = promise[e]
    /\ posix => DigestsOf(promise[e]) \subseteq files

(* Nothing leaks, whatever came back with the power: while the daemon      *)
(* serves, a file is named by a row, leased, or about to be swept, or it   *)
(* is one of the strays since its start: what a reconcile() or a sweep     *)
(* that failed left, the thumbnail of a commit that failed, the parts of a *)
(* client that hung up.  The next reconcile() that is done leaves none.    *)
NothingLeaks ==
  phase = "up" =>
    \A d \in files : References(index, d) \/ Leased(d) \/ d \in orphaned \/ d \in stray

(* Why a pin lasts: every state of the index a power cut may leave, and    *)
(* every set of files, already holds what was promised; and what a pin in  *)
(* progress has flushed stays, since nothing is deleted meanwhile.         *)
PromisesSafe ==
  \A e \in Ids : promise[e] # Nothing =>
    /\ \A i \in DOMAIN log : e \in log[i].pinned /\ log[i].holds[e] = promise[e]
    /\ posix => \A d \in DigestsOf(promise[e]) : loose[d] = {"there"}

PinSafe ==
  pin # Nobody =>
    /\ pin.entry \in index.live
    /\ posix => \A d \in DigestsOf(index.holds[pin.entry]) \ pin.left : loose[d] = {"there"}

(* The inductive invariant of the proofs. *)
IndInv ==
  /\ TypeOK
  /\ \A i \in DOMAIN log : Sound(log[i])
  /\ PromisesSafe
  /\ PinSafe
  /\ phase # "up" => draft = Nothing /\ pin = Nobody
  /\ NothingLeaks

(* A served row has its content, whatever the power cut took: "a blob is   *)
(* on the disk before anything in the index points at it".  It is not so:  *)
(* only a pin synchronizes names, and deletions roll back without files.   *)
NoHole ==
  phase = "up" => \A e \in index.live : DigestsOf(index.holds[e]) \subseteq files
=============================================================================
