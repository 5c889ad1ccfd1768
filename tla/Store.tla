------------------------------- MODULE Store -------------------------------
(***************************************************************************)
(* The archive: daemon/src/store/mod.rs over the SQLite index (Index) and  *)
(* the content-addressed files of daemon/src/store/blobs.rs, as the        *)
(* daemon's threads use them.                                              *)
(*                                                                         *)
(* A thread serves one connection, watches the clipboard or expires old    *)
(* rows; it does one thing at a time.  Everything done under the index     *)
(* mutex is one step, except sweep(), which keeps the mutex over several   *)
(* files while other threads publish theirs under the lease mutex only.    *)
(* What one thread does between two locks is a step of its own.            *)
(***************************************************************************)
EXTENDS Index

CONSTANTS
  Threads,     \* the threads of the daemon that use the store
  Nobody,      \* the index mutex is free
  Offered,     \* the parts that clients send
  Thumbnail,   \* for each part, the thumbnail made of it, or NoPart
  Budget,      \* Store.budget
  Retention,   \* Store.retention_seconds
  Batch,       \* rows one expiry transaction may delete (256 in the code)
  MaxTime,     \* bound on the clock
  Faults       \* what may go wrong, see FaultKinds

(* crash   the daemon dies and is started again                            *)
(* io      a call to the file system or to SQLite fails                    *)
(* hangup  a client is gone when its commit is answered                    *)
(* repeat  a client sends two parts of one mime in one draft               *)
(* clock   the wall clock is set back                                      *)
FaultKinds == {"crash", "io", "hangup", "repeat", "clock"}

ASSUME StoreAssumption ==
  /\ IsFiniteSet(Threads)
  /\ Nobody \notin Threads
  /\ Offered \subseteq Parts
  /\ Thumbnail \in [Parts -> Parts \cup {NoPart}]
  /\ Budget \in Nat /\ Retention \in Nat /\ Batch \in Nat \ {0}
  /\ MaxTime \in Nat \ {0}
  /\ Faults \subseteq FaultKinds

VARIABLES
  index,       \* the SQLite database
  files,       \* blobs/: the digests that have a file
  incoming,    \* blobs/incoming/: whose temporary is there
  leases,      \* Blobs.leases: how many leases each digest has
  lock,        \* the index mutex: its holder, or Nobody
  draft,       \* what each thread's draft holds, a lease on each part
  pc,          \* where each thread is
  stamp,       \* the `at` its commit was called with
  orphaned,    \* the digests a thread has left to sweep
  unused,      \* the thumbnail a commit has left to sweep
  phase,       \* the process: "down", "starting" or "up"
  now          \* Unix seconds

disk == <<files, incoming>>
memory == <<leases, lock, draft, pc, stamp, orphaned, unused>>
vars == <<index, disk, memory, phase, now>>

(* open        between two requests; a draft may be open                   *)
(* receiving   a representation is being streamed to a temporary           *)
(* committing  commit() was called and has not looked for the identity     *)
(* deriving    the identity is new; outside the lock                       *)
(* recording   derived, waiting for the second lock                        *)
(* dropping    recorded and unlocked; the thumbnail's lease still held     *)
(* collecting  commit() sweeps                                             *)
(* answering   commit() returned; the client has no answer yet             *)
(* closing     commit() failed; the draft is about to be discarded         *)
(* sweeping    any other sweep                                             *)
Locations == {"open", "receiving", "committing", "deriving", "recording",
              "dropping", "collecting", "answering", "closing", "sweeping"}

Times == 1 .. MaxTime

TypeOK ==
  /\ index \in Indexes(Times)
  /\ files \subseteq Digests
  /\ incoming \subseteq Threads
  /\ leases \in [Digests -> Nat]
  /\ lock \in Threads \cup {Nobody}
  /\ draft \in [Threads -> Holding]
  /\ pc \in [Threads -> Locations]
  /\ stamp \in [Threads -> Times \cup {0}]
  /\ orphaned \in [Threads -> SUBSET Digests]
  /\ unused \in [Threads -> SUBSET Digests]
  /\ phase \in {"down", "starting", "up"}
  /\ now \in Times

Init ==
  /\ index = EmptyIndex
  /\ files = {} /\ incoming = {}
  /\ leases = [d \in Digests |-> 0]
  /\ lock = Nobody
  /\ draft = [t \in Threads |-> Nothing]
  /\ pc = [t \in Threads |-> "open"]
  /\ stamp = [t \in Threads |-> 0]
  /\ orphaned = [t \in Threads |-> {}]
  /\ unused = [t \in Threads |-> {}]
  /\ phase = "up" /\ now = 1

At(t, place) == phase = "up" /\ pc[t] = place
Go(t, place) == pc' = [pc EXCEPT ![t] = place]
Unlocked == lock = Nobody
May(fault) == fault \in Faults
Referenced(d) == References(index, d)
Leased(d) == leases[d] > 0

-----------------------------------------------------------------------------
(* Receiving a representation: accept() and Incoming over Writer.          *)

FreeSlots(t) == {s \in Slots : draft[t][s] = NoPart}

(* writer(): the temporary exists before the first byte is read.           *)
Receive(t) ==
  /\ At(t, "open")
  /\ FreeSlots(t) # {}
  /\ incoming' = incoming \cup {t}
  /\ Go(t, "receiving")
  /\ UNCHANGED <<index, files, leases, lock, draft, stamp, orphaned, unused,
                 phase, now>>

(* The payload ended early, the client went, or the part is too large.     *)
Abandon(t) ==
  /\ At(t, "receiving")
  /\ incoming' = incoming \ {t}
  /\ Go(t, "open")
  /\ UNCHANGED <<index, files, leases, lock, draft, stamp, orphaned, unused,
                 phase, now>>

LeaseTaken(d) == [leases EXCEPT ![d] = @ + 1]

(* finish(): under the lease mutex, take a lease and rename the temporary  *)
(* unless the content is already stored.                                   *)
Publish(t, p) ==
  /\ At(t, "receiving")
  /\ Size[p.digest] <= Budget
  /\ May("repeat") \/ \A s \in Slots : draft[t][s] # NoPart => draft[t][s].mime # p.mime
  /\ leases' = LeaseTaken(p.digest)
  /\ files' = files \cup {p.digest}
  /\ incoming' = incoming \ {t}
  /\ draft' = [draft EXCEPT ![t][CHOOSE s \in FreeSlots(t) : TRUE] = p]
  /\ Go(t, "open")
  /\ UNCHANGED <<index, lock, stamp, orphaned, unused, phase, now>>

-----------------------------------------------------------------------------
(* commit() *)

DraftBytes(t) ==
  MapThenSumSet(LAMBDA s : Size[draft[t][s].digest], Slots \ FreeSlots(t))

BeginCommit(t) ==
  /\ At(t, "open")
  /\ FreeSlots(t) # Slots
  /\ DraftBytes(t) <= Budget
  /\ stamp' = [stamp EXCEPT ![t] = now]
  /\ Go(t, "committing")
  /\ UNCHANGED <<index, disk, leases, lock, draft, orphaned, unused, phase, now>>

(* The first lock: content already held only moves to the top.             *)
Look(t) ==
  /\ At(t, "committing")
  /\ Unlocked
  /\ \/ \E e \in Known(index, draft[t]) :
          index' = Touch(index, e, stamp[t]) /\ Go(t, "answering")
     \/ /\ Known(index, draft[t]) = {}
        /\ Go(t, "deriving")
        /\ UNCHANGED index
  /\ UNCHANGED <<disk, leases, lock, draft, stamp, orphaned, unused, phase, now>>

(* touch() fails, or the row was touched and reading it back fails.        *)
LookFails(t) ==
  /\ May("io")
  /\ At(t, "committing")
  /\ Unlocked
  /\ \/ UNCHANGED index
     \/ \E e \in Known(index, draft[t]) : index' = Touch(index, e, stamp[t])
  /\ Go(t, "closing")
  /\ UNCHANGED <<disk, leases, lock, draft, stamp, orphaned, unused, phase, now>>

(* The thumbnails derive() may make; which picture it prefers is a matter  *)
(* of mime rank and is left open.                                          *)
Depictions(h) ==
  LET made == {Thumbnail[h[s]] : s \in {r \in Slots : h[r] # NoPart}} \ {NoPart}
  IN IF made = {} THEN {NoPart} ELSE made

(* derive(): outside the lock, reads the content back and publishes the    *)
(* thumbnail under a lease of its own.                                     *)
Derive(t) ==
  /\ At(t, "deriving")
  /\ DigestsOf(draft[t]) \subseteq files
  /\ \E p \in Depictions(draft[t]) :
       /\ draft' = [draft EXCEPT ![t][Thumb] = p]
       /\ IF p = NoPart
          THEN UNCHANGED <<leases, files>>
          ELSE leases' = LeaseTaken(p.digest) /\ files' = files \cup {p.digest}
  /\ Go(t, "recording")
  /\ UNCHANGED <<index, incoming, lock, stamp, orphaned, unused, phase, now>>

DeriveFails(t) ==
  /\ At(t, "deriving")
  /\ May("io") \/ ~(DigestsOf(draft[t]) \subseteq files)
  /\ Go(t, "closing")
  /\ UNCHANGED <<index, disk, leases, lock, draft, stamp, orphaned, unused,
                 phase, now>>

(* Deviation: the second lock inserts without looking again.               *)
RecordingsUnchecked(t) ==
  IF RepeatsMime(draft[t]) THEN {}
  ELSE {Insert(index, e, draft[t], stamp[t]) : e \in {i \in Ids : NextId(index, i)}}

(* The index as the second lock may leave it before it evicts.  The        *)
(* identity is looked for again: another thread may have recorded it.      *)
Recordings(t) ==
  IF Known(index, draft[t]) # {}
  THEN {Touch(index, e, stamp[t]) : e \in Known(index, draft[t])}
  ELSE IF RepeatsMime(draft[t]) THEN {}
  ELSE {Insert(index, e, draft[t], stamp[t]) : e \in {i \in Ids : NextId(index, i)}}

Record(t) ==
  /\ At(t, "recording")
  /\ Unlocked
  /\ \E ix \in Recordings(t) :
       /\ index' = Release(ix, Victims(ix, Budget))
       /\ orphaned' = [orphaned EXCEPT ![t] = Orphaned(ix, Victims(ix, Budget))]
  /\ Go(t, "dropping")
  /\ UNCHANGED <<disk, leases, lock, draft, stamp, unused, phase, now>>

(* The thumbnail's lease is dropped with Derived.                          *)
ThumbDropped(t) ==
  /\ draft' = [draft EXCEPT ![t][Thumb] = NoPart]
  /\ leases' = IF draft[t][Thumb] = NoPart THEN leases
               ELSE [leases EXCEPT ![draft[t][Thumb].digest] = @ - 1]

ThumbDigests(t) == {d \in Digests : In(draft[t], Thumb, d)}

(* Deviation: an unused thumbnail is not swept.                            *)
DropDerivedUnswept(t) ==
  /\ At(t, "dropping")
  /\ ThumbDropped(t)
  /\ Go(t, IF orphaned[t] = {} THEN "answering" ELSE "collecting")
  /\ UNCHANGED <<index, disk, lock, stamp, orphaned, unused, phase, now>>

DropDerived(t) ==
  /\ At(t, "dropping")
  /\ ThumbDropped(t)
  /\ unused' = [unused EXCEPT ![t] = ThumbDigests(t)]
  /\ Go(t, IF orphaned[t] \cup ThumbDigests(t) = {} THEN "answering" ELSE "collecting")
  /\ UNCHANGED <<index, disk, lock, stamp, orphaned, phase, now>>

(* insert() returned an error and rolled back: Derived goes, unswept.      *)
RecordFails(t) ==
  /\ At(t, "recording")
  /\ Unlocked
  /\ \/ May("io")
     \/ Known(index, draft[t]) = {} /\ RepeatsMime(draft[t])
  /\ ThumbDropped(t)
  /\ Go(t, "closing")
  /\ UNCHANGED <<index, disk, lock, stamp, orphaned, unused, phase, now>>

(* The row is in; reading it back failed, or evict_to() rolled back.       *)
EvictFails(t) ==
  /\ May("io")
  /\ At(t, "recording")
  /\ Unlocked
  /\ index' \in Recordings(t)
  /\ ThumbDropped(t)
  /\ Go(t, "closing")
  /\ UNCHANGED <<disk, lock, stamp, orphaned, unused, phase, now>>

-----------------------------------------------------------------------------
(* The end of a draft: Session::commit after the store returned, abort, a  *)
(* commit the store refused, and a connection that closes.                 *)

(* Deviation: a part is dropped with its draft and once more by itself.    *)
LeasesDroppedTwice(t) ==
  [d \in Digests |-> leases[d] - 2 * Cardinality(Occurrences(draft, {t}, d))]

LeasesDropped(t) ==
  [d \in Digests |-> leases[d] - Cardinality(Occurrences(draft, {t}, d))]

(* discard(): the leases first, then the sweep.                            *)
Discard(t) ==
  /\ At(t, "open") \/ At(t, "answering") \/ At(t, "closing")
  /\ DigestsOf(draft[t]) # {}
  /\ leases' = LeasesDropped(t)
  /\ draft' = [draft EXCEPT ![t] = Nothing]
  /\ stamp' = [stamp EXCEPT ![t] = 0]
  /\ orphaned' = [orphaned EXCEPT ![t] = DigestsOf(draft[t])]
  /\ Go(t, "sweeping")
  /\ UNCHANGED <<index, disk, lock, unused, phase, now>>

(* The answer could not be sent: `?` returns before discard(), so the      *)
(* parts are dropped and nothing is swept.                                 *)
Hangup(t) ==
  /\ May("hangup")
  /\ At(t, "answering")
  /\ leases' = LeasesDropped(t)
  /\ draft' = [draft EXCEPT ![t] = Nothing]
  /\ stamp' = [stamp EXCEPT ![t] = 0]
  /\ Go(t, "open")
  /\ UNCHANGED <<index, disk, lock, orphaned, unused, phase, now>>

-----------------------------------------------------------------------------
(* sweep() *)

Lock(t) ==
  /\ At(t, "collecting") \/ At(t, "sweeping")
  /\ Unlocked
  /\ lock' = t
  /\ UNCHANGED <<index, disk, leases, draft, pc, stamp, orphaned, unused,
                 phase, now>>

(* Deviation: the lease registry is not asked.                             *)
RemovableLeased(d) == ~Referenced(d)

(* references() under the index mutex, then remove() under the lease mutex *)
Removable(d) == ~Referenced(d) /\ ~Leased(d)

(* One digest of the list; the mutex is released after the last one.  The  *)
(* orphans are one list and the unused thumbnail another.                  *)
Sweep(t, d) ==
  /\ phase = "up" /\ lock = t
  /\ \/ /\ d \in orphaned[t]
        /\ orphaned' = [orphaned EXCEPT ![t] = @ \ {d}]
        /\ lock' = IF orphaned[t] = {d} THEN Nobody ELSE t
        /\ UNCHANGED unused
     \/ /\ orphaned[t] = {} /\ d \in unused[t]
        /\ unused' = [unused EXCEPT ![t] = @ \ {d}]
        /\ lock' = Nobody
        /\ UNCHANGED orphaned
  /\ \/ files' = IF Removable(d) THEN files \ {d} ELSE files
     \/ May("io") /\ UNCHANGED files
  /\ IF orphaned'[t] \cup unused'[t] # {} THEN UNCHANGED pc
     ELSE Go(t, IF pc[t] = "collecting" THEN "answering" ELSE "open")
  /\ UNCHANGED <<index, incoming, leases, draft, stamp, phase, now>>

-----------------------------------------------------------------------------
(* The other requests and the expiry of old rows. *)

SetPinned(t, e, pinned) ==
  /\ At(t, "open")
  /\ Unlocked
  /\ e \in index.live
  /\ pinned => DigestsOf(index.holds[e]) \subseteq files
  /\ index' = [index EXCEPT !.pinned = IF pinned THEN @ \cup {e} ELSE @ \ {e}]
  /\ UNCHANGED <<disk, memory, phase, now>>

(* The rows of S go in one transaction; their orphans are swept after it.  *)
Delete(t, S) ==
  /\ At(t, "open")
  /\ Unlocked
  /\ S # {}
  /\ index' = Release(index, S)
  /\ orphaned' = [orphaned EXCEPT ![t] = Orphaned(index, S)]
  /\ Go(t, IF Orphaned(index, S) = {} THEN "open" ELSE "sweeping")
  /\ UNCHANGED <<disk, leases, lock, draft, stamp, unused, phase, now>>

Remove(t, e) == e \in index.live /\ Delete(t, {e})
Clear(t) == Delete(t, Unpinned(index))
Expire(t) == Delete(t, Expired(index, now - Retention, Batch))

-----------------------------------------------------------------------------
(* The process and its clock. *)

Crash ==
  /\ May("crash")
  /\ phase # "down"
  /\ phase' = "down"
  /\ leases' = [d \in Digests |-> 0]
  /\ lock' = Nobody
  /\ draft' = [t \in Threads |-> Nothing]
  /\ pc' = [t \in Threads |-> "open"]
  /\ stamp' = [t \in Threads |-> 0]
  /\ orphaned' = [t \in Threads |-> {}]
  /\ unused' = [t \in Threads |-> {}]
  /\ UNCHANGED <<index, disk, now>>

(* Deviation: the temporaries of the dead process are left.                *)
RestartUnswept ==
  /\ phase = "down"
  /\ phase' = "starting"
  /\ UNCHANGED <<index, disk, memory, now>>

(* open_with_policy() *)
Restart ==
  /\ phase = "down"
  /\ phase' = "starting"
  /\ incoming' = {}
  /\ UNCHANGED <<index, files, memory, now>>

(* reconcile(): one file no row points at.                                 *)
Reconcile(d) ==
  /\ phase = "starting"
  /\ d \in files /\ Removable(d)
  /\ files' = files \ {d}
  /\ UNCHANGED <<index, incoming, memory, phase, now>>

(* Deviation: the daemon serves without waiting for reconcile().           *)
ServeUnreconciled ==
  /\ phase = "starting"
  /\ phase' = "up"
  /\ UNCHANGED <<index, disk, memory, now>>

(* reconcile() is done, or failed and was only reported.                   *)
Serve ==
  /\ phase = "starting"
  /\ May("io") \/ \A d \in files : ~Removable(d)
  /\ phase' = "up"
  /\ UNCHANGED <<index, disk, memory, now>>

Tick ==
  /\ \E second \in Times : /\ second > now \/ May("clock")
                           /\ now' = second
  /\ UNCHANGED <<index, disk, memory, phase>>

-----------------------------------------------------------------------------
Commit(t) ==
  \/ BeginCommit(t) \/ Look(t) \/ LookFails(t) \/ Derive(t) \/ DeriveFails(t)
  \/ Record(t) \/ DropDerived(t) \/ RecordFails(t) \/ EvictFails(t)

Request(t) ==
  \/ Receive(t) \/ Abandon(t) \/ \E p \in Offered : Publish(t, p)
  \/ \E e \in Ids, pinned \in BOOLEAN : SetPinned(t, e, pinned)
  \/ \E e \in Ids : Remove(t, e)
  \/ Clear(t) \/ Expire(t)

Next ==
  \/ \E t \in Threads :
       \/ Request(t) \/ Commit(t) \/ Discard(t) \/ Hangup(t) \/ Lock(t)
       \/ \E d \in Digests : Sweep(t, d)
  \/ Crash \/ Restart \/ Serve \/ Tick
  \/ \E d \in Digests : Reconcile(d)

Spec == Init /\ [][Next]_vars

-----------------------------------------------------------------------------
(* Safety. *)

(* The counters the collector trusts are exact: blob.refs is the number of *)
(* parts and thumbnails that name the digest, and the lease registry holds *)
(* one lease for each part or thumbnail a thread's draft still holds.      *)
CountsExact ==
  \A d \in Digests :
    /\ index.refs[d] = Cardinality(Occurrences(index.holds, Ids, d))
    /\ leases[d] = Cardinality(Occurrences(draft, Threads, d))

(* There is no hole in the archive: whatever a row names, and whatever a   *)
(* draft is about to make a row of, has its file, so a fetch of a listed   *)
(* entry finds its bytes whatever commits, deletions and sweeps raced.     *)
NoHole ==
  \A d \in Digests :
    (\E e \in index.live : d \in DigestsOf(index.holds[e]))
    \/ (\E t \in Threads : d \in DigestsOf(draft[t]))
      => d \in files

(* However two watchers race to record one copy, it is archived once.      *)
OneRowPerIdentity ==
  \A e, o \in index.live :
    Identity(index.holds[e]) = Identity(index.holds[o]) => e = o

(* Every temporary in blobs/incoming belongs to a transfer in progress:    *)
(* what a failed transfer or an earlier process left is gone.              *)
TemporariesOwned ==
  phase = "up" => \A t \in incoming : pc[t] = "receiving"

(* What ties the other invariants together: a row that is gone holds       *)
(* nothing and is not pinned, a thumbnail is leased only while its commit   *)
(* is recorded, a transfer has a slot to end in, only a sweep keeps the     *)
(* index mutex from one step to the next, and a restart has removed the     *)
(* temporaries.                                                            *)
Settled ==
  /\ \A e \in Ids \ index.live : index.holds[e] = Nothing
  /\ index.pinned \subseteq index.live
  /\ \A t \in Threads :
       /\ draft[t][Thumb] # NoPart => pc[t] \in {"recording", "dropping"}
       /\ pc[t] = "receiving" => FreeSlots(t) # {}
       /\ lock = t => pc[t] \in {"collecting", "sweeping"}
  /\ phase = "starting" => incoming = {}

(* The inductive invariant: every step keeps it whatever the constants.    *)
IndInv == TypeOK /\ CountsExact /\ NoHole /\ OneRowPerIdentity
          /\ TemporariesOwned /\ Settled

(* The archive stays within its budget, whatever is pinned, unless an      *)
(* eviction fails: a row that does not fit is not kept.                    *)
WithinBudget == Bytes(index) <= Budget

(* Nothing leaks while the daemon runs: a file that no row names is leased *)
(* by a draft, or is on the list of a thread that is about to sweep it.    *)
NoLeak ==
  phase = "up" =>
    \A d \in files :
      \/ Referenced(d)
      \/ Leased(d)
      \/ \E t \in Threads : d \in orphaned[t] \cup unused[t]

-----------------------------------------------------------------------------
(* Steps. *)

(* Only an explicit removal takes a pinned row; eviction, expiry, clear, a *)
(* commit and a restart leave it, and leave what it holds.                 *)
PinnedSurvives ==
  [][\A e \in index.pinned :
       \/ e \in index'.live /\ index'.holds[e] = index.holds[e]
       \/ \E t \in Threads : Remove(t, e)]_vars

(* A commit that makes room keeps what it made room for.                   *)
EvictionBuysRoom ==
  [][\A t \in Threads :
       Record(t) /\ index.live \ index'.live # {}
         => \E e \in index'.live :
              Identity(index'.holds[e]) = Identity(draft[t])]_vars

-----------------------------------------------------------------------------
(* Refinement. *)

(* What a client that fetches every part of e receives: a part whose file  *)
(* is missing is not served.                                               *)
Served(e) ==
  [p \in Parts |->
     Cardinality({s \in Slots : index.holds[e][s] = p /\ p.digest \in files})]

Shelf ==
  [e \in Ids |->
     IF e \in index.live
     THEN [content |-> Served(e), pinned |-> e \in index.pinned, at |-> index.at[e]]
     ELSE NoPart]

Contents == {Identity(h) : h \in Holding}

(* What stands for an entry that is not there is no entry.                 *)
ASSUME AbsenceAssumption ==
  NoPart \notin [content : Contents, pinned : BOOLEAN, at : Times]

Promise ==
  INSTANCE Archive WITH
    shelf <- Shelf, Names <- Ids, Absent <- NoPart, Stamps <- Times,
    Contents <- Contents

(* The store keeps the archive's promise: each of its steps adds, moves,   *)
(* pins or removes whole entries or changes nothing a client can see.      *)
KeepsPromise == Promise!Spec

-----------------------------------------------------------------------------
(* Liveness. *)

(* A thread that has begun goes on; a mutex is eventually granted to a     *)
(* thread that waits for it; a daemon that is down is started.  Clients    *)
(* owe nothing.                                                            *)
Proceed(t) ==
  \/ Derive(t) \/ DropDerived(t)
  \/ pc[t] \in {"answering", "closing"} /\ Discard(t)
  \/ \E d \in Digests : Sweep(t, d)

TakeLock(t) == Look(t) \/ Record(t) \/ Lock(t)

StartUp == Restart \/ Serve \/ \E d \in Digests : Reconcile(d)

Fairness ==
  /\ \A t \in Threads : WF_vars(Proceed(t)) /\ SF_vars(TakeLock(t))
  /\ WF_vars(StartUp)

FairSpec == Spec /\ Fairness

(* Unless the daemon keeps crashing, a file that nothing names and nothing *)
(* leases does not stay: sweeps end and give the mutex back.               *)
OrphansCollected ==
  <>[](phase # "down") => \A d \in Digests :
    (d \in files /\ Removable(d)) ~> ~(d \in files /\ Removable(d))
=============================================================================
